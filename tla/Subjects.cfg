SPECIFICATION FairSpec
CONSTANTS
  email = email
  iban = iban
  Table <- Tables
  Kind <- Kinds
  Scenes <- MCScenes
  Schemas <- TwoSchemas
  MaxFaults = 1
  MaxSubmits = 1
INVARIANT TagsAreClosure
PROPERTY EventuallyFresh
CHECK_DEADLOCK FALSE
