-------------------------- MODULE Discovery_proofs --------------------------
(***************************************************************************)
(* Two phases of the discovery pipeline proved about together.             *)
(*                                                                         *)
(* The batch phases (BatchPhase.tla): the ledger never runs ahead of the   *)
(* data, for every set of items, batch size, phase and caller.             *)
(*                                                                         *)
(* The candidate search (Candidates.tla): for every set of columns, every  *)
(* scene and every setting, what the passes leave of the two lists, and    *)
(* what the table holds once both are written batch by batch.              *)
(***************************************************************************)
EXTENDS BatchPhase, Candidates, FiniteSetTheorems, TLAPS

(* The batch phases. *)

\* Types of what the argument below looks at.
LogType ==
  /\ log \in [Row -> Status]
  /\ queue \in Seq(Item)
  /\ todo \in Seq(Item)

\* While rows of a batch are marked, its data is there.
MarkedBehind ==
  proc = "up" /\ step = "mark" => Range(queue) \cap Hit \subseteq stored

\* The inductive invariant.
Inv ==
  /\ LogType
  /\ MarkedBehind
  /\ LedgerImpliesStored
-----------------------------------------------------------------------------
(* Walking a batch leaves only items in the queue and in the list. *)
LEMMA SeqFacts ==
  ASSUME NEW s \in Seq(Item), s # <<>>
  PROVE  Head(s) \in Item /\ Tail(s) \in Seq(Item)
OBVIOUS

LEMMA HitIsItem == Hit \subseteq Item
BY BatchAssumption DEF Hit

(* Which phase runs, and so which items have rows to store, is settled     *)
(* before the first step.                                                  *)
LEMMA HitIsFixed ==
  ASSUME [Next]_vars
  PROVE  Hit' = Hit
<1>1. phase' = phase
  BY DEF Next, Proceed, vars, rest, caller, bounds, Fault,
     Launch, NothingToDo, Compute, ComputeRaises, WalkBad, WalkBadRaises, WalkGood,
     WalkEnds, FlushNothing, Commit, CommitRaises, Mark, MarkRaises, MarkEnds,
     GiveUpItem, GiveUpItemRaises, GiveUpEnds, Crash
<1>2. QED
  BY <1>1 DEF Hit

LEMMA ListingsAreSeqs ==
  ASSUME NEW S \in SUBSET Item, NEW s \in Listings(S)
  PROVE  s \in Seq(Item)
<1>1. IsFiniteSet(S)
  BY FS_Subset, BatchAssumption
<1>2. Cardinality(S) \in Nat
  BY <1>1, FS_CardinalityType
<1>3. s \in [1 .. Cardinality(S) -> Item]
  BY DEF Listings
<1>4. QED
  BY <1>2, <1>3

(* The global row of the phase is no item's row: writing it, when the phase *)
(* starts, returns or raises, says nothing about an item.                   *)
LEMMA GlobalRow ==
  ASSUME log \in [Row -> Status], NEW s \in Status,
         log' = log \/ log' = [log EXCEPT !["global"] = s]
  PROVE  log' \in [Row -> Status] /\ \A i \in Item : log'[i] = log[i]
BY BatchAssumption DEF Row

LEMMA ReturnRows ==
  ASSUME log \in [Row -> Status], Return \/ Raise
  PROVE  /\ proc' # "up"
         /\ log' \in [Row -> Status]
         /\ \A i \in Item : log'[i] = log[i]
<1>1. proc' # "up"
  BY DEF Return, Raise
<1>2. \E s \in Status : log' = log \/ log' = [log EXCEPT !["global"] = s]
  BY DEF Return, Raise, LogSucceed, LogFail, Status
<1>3. QED
  BY <1>1, <1>2, GlobalRow

LEMMA AfterFlushRows ==
  ASSUME log \in [Row -> Status], AfterFlush
  PROVE  /\ proc' # "up" \/ step' # "mark"
         /\ log' \in [Row -> Status]
         /\ \A i \in Item : log'[i] = log[i]
BY ReturnRows DEF AfterFlush

(* A step that writes no item's row and loses no data keeps the ledger     *)
(* behind the data.                                                        *)
LEMMA KeepsBehind ==
  ASSUME LedgerImpliesStored, stored \subseteq stored', Hit' = Hit,
         \A i \in Item : log'[i] = log[i] \/ log'[i] # "succeeded"
  PROVE  LedgerImpliesStored'
BY HitIsItem DEF LedgerImpliesStored

LEMMA InitInv == Init => Inv
BY HitIsItem DEF Init, Inv, LogType, MarkedBehind, LedgerImpliesStored, Status, Row

LEMMA NextInv == Inv /\ [Next]_vars => Inv'
<1> SUFFICES ASSUME Inv, [Next]_vars PROVE Inv'
  OBVIOUS
<1> USE DEF LogType
<1>0. Hit' = Hit
  BY HitIsFixed
<1>1. log \in [Row -> Status] /\ queue \in Seq(Item) /\ todo \in Seq(Item)
  BY DEF Inv
<1>2. CASE Launch
  <2>1. \E s \in Status : log' = log \/ log' = [log EXCEPT !["global"] = s]
    BY <1>2 DEF Launch, LogStart, Status
  <2>2. LogType' /\ \A i \in Item : log'[i] = log[i]
    BY <1>1, <1>2, <2>1, GlobalRow DEF Launch
  <2>3. QED
    BY <1>2, <2>2, <1>0, KeepsBehind DEF Launch, Inv, MarkedBehind
<1>3. CASE NothingToDo \/ ComputeRaises \/ WalkBadRaises \/ GiveUpItemRaises
  <2>1. (Return \/ Raise) /\ UNCHANGED <<stored, queue, todo>>
    BY <1>3 DEF NothingToDo, ComputeRaises, WalkBadRaises, GiveUpItemRaises
  <2>2. QED
    BY <1>1, <2>1, ReturnRows, <1>0, KeepsBehind DEF Inv, MarkedBehind
<1>4. CASE Compute
  <2>1. todo' \in Seq(Item)
    BY <1>4, ListingsAreSeqs DEF Compute, Pending
  <2>2. LogType' /\ step' = "walk" /\ UNCHANGED <<log, stored>>
    BY <1>1, <1>4, <2>1 DEF Compute
  <2>3. QED
    BY <2>2, <1>0, KeepsBehind DEF Inv, MarkedBehind
<1>5. CASE WalkBad
  <2>1. Head(todo) \in Item /\ Tail(todo) \in Seq(Item)
    BY <1>1, <1>5, SeqFacts DEF WalkBad
  <2>2. LogType' /\ \A i \in Item : log'[i] = log[i] \/ log'[i] = "failed"
    BY <1>1, <1>5, <2>1 DEF WalkBad, LogFail, Row, Status
  <2>3. step' = "walk" /\ stored' = stored
    BY <1>5 DEF WalkBad, At
  <2>4. QED
    BY <2>2, <2>3, <1>0, KeepsBehind DEF Inv, MarkedBehind
<1>6. CASE WalkGood
  <2>1. Head(todo) \in Item /\ Tail(todo) \in Seq(Item)
    BY <1>1, <1>6, SeqFacts DEF WalkGood
  <2>2. LogType' /\ step' # "mark" /\ UNCHANGED <<log, stored>>
    BY <1>1, <1>6, <2>1 DEF WalkGood
  <2>3. QED
    BY <2>2, <1>0, KeepsBehind DEF Inv, MarkedBehind
<1>7. CASE WalkEnds \/ CommitRaises \/ MarkRaises
  <2>1. step' # "mark" /\ UNCHANGED <<log, stored, queue, todo>>
    BY <1>7 DEF WalkEnds, CommitRaises, MarkRaises
  <2>2. QED
    BY <1>1, <2>1, <1>0, KeepsBehind DEF Inv, MarkedBehind
<1>8. CASE FlushNothing \/ MarkEnds \/ GiveUpEnds
  <2>1. AfterFlush /\ queue' = <<>> /\ UNCHANGED <<stored, todo>>
    BY <1>8 DEF FlushNothing, MarkEnds, GiveUpEnds
  <2>2. QED
    BY <1>1, <2>1, AfterFlushRows, <1>0, KeepsBehind DEF Inv, MarkedBehind
<1>9. CASE Commit
  <2>1. /\ stored' = stored \cup (Range(queue) \cap Hit)
        /\ UNCHANGED <<log, queue, todo>>
    BY <1>9 DEF Commit
  <2>2. MarkedBehind'
    BY <1>0, <2>1 DEF MarkedBehind, Range
  <2>3. LedgerImpliesStored'
    BY <2>1, <1>0, KeepsBehind DEF Inv
  <2>4. QED
    BY <1>1, <2>1, <2>2, <2>3 DEF Inv
<1>10. CASE Mark
  <2>1. PICK n \in DOMAIN queue : log' = LogSucceed(log, queue[n])
    BY <1>10 DEF Mark
  <2>2. queue[n] \in Item /\ queue[n] \in Range(queue)
    BY <1>1, <2>1 DEF Range
  <2>3. proc = "up" /\ step = "mark" /\ UNCHANGED <<stored, proc, step, queue, todo>>
    BY <1>10 DEF Mark, At
  <2>4. LogType' /\ \A i \in Item \ {queue[n]} : log'[i] = log[i]
    BY <1>1, <2>1, <2>2, <2>3 DEF LogSucceed, Row, Status
  <2>5. queue[n] \in Hit => queue[n] \in stored
    BY <2>2, <2>3 DEF Inv, MarkedBehind
  <2>6. LedgerImpliesStored'
    BY <2>3, <1>0, <2>4, <2>5, HitIsItem DEF Inv, LedgerImpliesStored
  <2>7. MarkedBehind'
    BY <1>0, <2>3 DEF Inv, MarkedBehind, Range
  <2>8. QED
    BY <2>4, <2>6, <2>7 DEF Inv
<1>11. CASE GiveUpItem
  <2>1. Head(queue) \in Item /\ Tail(queue) \in Seq(Item)
    BY <1>1, <1>11, SeqFacts DEF GiveUpItem
  <2>2. LogType' /\ \A i \in Item : log'[i] = log[i] \/ log'[i] = "failed"
    BY <1>1, <1>11, <2>1 DEF GiveUpItem, LogFail, Row, Status
  <2>3. step' = "except" /\ stored' = stored
    BY <1>11 DEF GiveUpItem, At
  <2>4. QED
    BY <2>2, <2>3, <1>0, KeepsBehind DEF Inv, MarkedBehind
<1>12. CASE Crash
  <2>1. proc' # "up" /\ UNCHANGED <<log, stored, queue, todo>>
    BY <1>12 DEF Crash
  <2>2. QED
    BY <1>1, <2>1, <1>0, KeepsBehind DEF Inv, MarkedBehind
<1>13. CASE UNCHANGED vars
  BY <1>0, <1>13 DEF vars, Inv, MarkedBehind, LedgerImpliesStored, Range
<1>14. QED
  BY <1>2, <1>3, <1>4, <1>5, <1>6, <1>7, <1>8, <1>9, <1>10, <1>11, <1>12, <1>13
     DEF Next, Proceed
LEMMA Invariance == Spec => []Inv
BY InitInv, NextInv, PTL DEF Spec
-----------------------------------------------------------------------------
(* However flushes fail and processes die, a succeeded row in the ledger    *)
(* has its data rows beside it (F1.3).                                      *)
THEOREM LedgerBehindData == Spec => []LedgerImpliesStored
<1>1. Inv => LedgerImpliesStored
  BY DEF Inv
<1>2. QED
  BY <1>1, Invariance, PTL
-----------------------------------------------------------------------------
\* What the type invariant needs beyond the types of the ledger and the lists.
RestType ==
  /\ phase \in Phases
  /\ driver \in Drivers
  /\ stored \subseteq Hit
  /\ proc \in {"idle", "up", "done", "failed", "crashed"}
  /\ step \in {"read", "walk", "commit", "mark", "except"}
  /\ bad \subseteq Item
  /\ last \in BOOLEAN
  /\ bads \in 0 .. MaxBad
  /\ faults \in 0 .. MaxFaults
  /\ crashes \in 0 .. MaxCrashes

LEMMA InitRest == Init => RestType
<1>1. MaxBad \in Nat /\ MaxFaults \in Nat /\ MaxCrashes \in Nat
  BY BatchAssumption
<1>2. 0 \in 0 .. MaxBad /\ 0 \in 0 .. MaxFaults /\ 0 \in 0 .. MaxCrashes
  BY <1>1
<1>3. QED
  BY <1>2 DEF Init, RestType

(* The results that may be missing are counted when they are computed.     *)
LEMMA ComputeRest ==
  ASSUME RestType, Compute, Hit' = Hit
  PROVE  RestType'
<1>1. Pending \subseteq Item
  BY DEF Pending
<1>2. bad' \subseteq Item
  BY <1>1 DEF Compute
<1>3. Cardinality(bad') \in Nat
  BY <1>2, BatchAssumption, FS_Subset, FS_CardinalityType
<1>4. bads' = bads + Cardinality(bad') /\ bads' <= MaxBad
  BY DEF Compute
<1>5. bads' \in 0 .. MaxBad
  BY <1>3, <1>4 DEF RestType
<1>6. QED
  BY <1>2, <1>5 DEF RestType, Compute, caller

(* A fault, a flush and a return, as far as they are the same everywhere.  *)
LEMMA FaultRest ==
  ASSUME RestType, Fault
  PROVE  faults' \in 0 .. MaxFaults /\ UNCHANGED <<phase, driver, bads, crashes>>
BY BatchAssumption DEF RestType, Fault, caller

LEMMA AfterFlushRest ==
  ASSUME RestType, AfterFlush
  PROVE  /\ proc' \in {"idle", "up", "done", "failed", "crashed"}
         /\ step' \in {"read", "walk", "commit", "mark", "except"}
BY DEF RestType, AfterFlush, Return

LEMMA NextRest == Inv /\ RestType /\ [Next]_vars => RestType'
<1> SUFFICES ASSUME Inv, RestType, [Next]_vars PROVE RestType'
  OBVIOUS
<1>0. Hit' = Hit
  BY HitIsFixed
<1>1. CASE Launch \/ NothingToDo \/ WalkBad \/ WalkGood \/ WalkEnds \/ Mark \/ GiveUpItem
  BY <1>0, <1>1 DEF RestType, Launch, NothingToDo, Return, WalkBad, WalkGood, WalkEnds, Mark,
     GiveUpItem, rest, caller, bounds
<1>2. CASE Compute
  BY <1>0, <1>2, ComputeRest
<1>3. CASE ComputeRaises \/ WalkBadRaises \/ CommitRaises \/ MarkRaises \/ GiveUpItemRaises
  <2>1. Fault /\ UNCHANGED <<stored, bad, last>>
    BY <1>3 DEF ComputeRaises, WalkBadRaises, CommitRaises, MarkRaises, GiveUpItemRaises
  <2>2. /\ proc' \in {proc, "failed"}
        /\ step' \in {step, "except"}
    BY <1>3 DEF ComputeRaises, WalkBadRaises, CommitRaises, MarkRaises, GiveUpItemRaises, Raise
  <2>3. QED
    BY <1>0, <2>1, <2>2, FaultRest DEF RestType
<1>4. CASE FlushNothing \/ MarkEnds \/ GiveUpEnds
  <2>1. AfterFlush /\ UNCHANGED <<stored, bad, last, phase, driver, bads, faults, crashes>>
    BY <1>4 DEF FlushNothing, MarkEnds, GiveUpEnds, rest, caller, bounds
  <2>2. QED
    BY <1>0, <2>1, AfterFlushRest DEF RestType
<1>5. CASE Commit
  BY <1>0, <1>5 DEF RestType, Commit, rest, caller, bounds
<1>6. CASE Crash
  BY <1>0, <1>6, BatchAssumption DEF RestType, Crash, caller
<1>7. CASE UNCHANGED vars
  BY <1>0, <1>7 DEF RestType, vars, rest, caller, bounds
<1>8. QED
  BY <1>1, <1>2, <1>3, <1>4, <1>5, <1>6, <1>7 DEF Next, Proceed

(* Every variable keeps its type: a batch holds items only, and rows are    *)
(* stored for hits only (_flush of the three phases).                       *)
THEOREM TypeCorrect == Spec => []TypeOK
<1>1. Inv /\ RestType => TypeOK
  BY DEF Inv, LogType, RestType, TypeOK
<1>2. QED
  BY <1>1, Invariance, InitRest, NextRest, PTL DEF Spec
-----------------------------------------------------------------------------
(* The candidate search: its inductive invariant. *)

\* Where the two lists are made of what the searches found.
Listed == {"dedup", "bridge", "range", "topk", "cap", "persist", "done"}

\* With require_parent_pk only parents with a key are primary.
KeyedParents ==
  at \in {"dedup", "bridge"} /\ strict =>
    \A s \in Stage, p \in Pair : tier[s][p] = "primary" => HasKey(p[2])

\* No pass demotes a role pointer its own list has in one direction only.
LockedStay ==
  at \in Listed /\ cap = 0 =>
    \A s \in Stage, p \in Pair :
      Locked(p) /\ tier[s][p] # "none" /\ tier[s][Rev(p)] = "none" => tier[s][p] = "primary"

\* Behind the dedup no list is primary in both directions.
OneWayListed ==
  at \in Listed \ {"dedup"} =>
    \A s \in Stage, p \in Pair : ~(tier[s][p] = "primary" /\ tier[s][Rev(p)] = "primary")

\* Candidates of a list, and those of them that are written.
Members(s) == {p \in Pair : tier[s][p] # "none"}
Written(s) == Members(s) \ left[s]

\* The first list is written before the second.
InOrder ==
  /\ at \in {"persist", "done"} => \A s \in Stage : left[s] \subseteq Members(s)
  /\ at = "persist" /\ left["sql_prefilter"] # {} => left["lsh_search"] = Members("lsh_search")
  /\ at = "done" => \A s \in Stage : left[s] = {}

\* What the table says of a candidate when no batch was lost.
InTable(p) ==
  IF p \in Written("lsh_search") THEN store[p] = tier["lsh_search"][p]
  ELSE IF p \in Written("sql_prefilter") THEN store[p] = tier["sql_prefilter"][p]
  ELSE fresh => store[p] = "none"

TableFollows ==
  /\ at \in {"keys", "direction", "generate", "dedup", "bridge", "range", "topk", "cap"}
     /\ fresh => store = NoRows
  /\ at \in {"persist", "done"} /\ ~missed => \A p \in Pair : InTable(p)

SearchInv ==
  /\ CandidateTypeOK
  /\ KeyedParents /\ LockedStay /\ OneWayListed
  /\ InOrder /\ TableFollows
-----------------------------------------------------------------------------
(* Columns, pairs and what the passes do to a list. *)

LEMMA SceneType ==
  ASSUME chosen \in DOMAIN Scenes
  PROVE  /\ scene \in Scene
         /\ scene.flags \in [Col -> Flags]
         /\ \A c \in Col : scene.col[c] \in Column
         /\ \A c \in Col : scene.col[c].distinct \in Nat /\ scene.col[c].pk \in BOOLEAN
BY CandidatesAssumption DEF scene, Scene, Column

LEMMA PairFacts ==
  ASSUME NEW p \in Pair
  PROVE  Rev(p) \in Pair /\ Rev(Rev(p)) = p /\ p = <<p[1], p[2]>>
         /\ p[1] \in Col /\ p[2] \in Col /\ p[1] # p[2]
BY DEF Pair, Rev

LEMMA DemoteFacts ==
  ASSUME NEW list \in [Pair -> Tier], NEW out
  PROVE  /\ Demote(list, out) \in [Pair -> Tier]
         /\ \A p \in out \cap Pair : Demote(list, out)[p] = "advisory_lowconf"
         /\ \A p \in Pair \ out : Demote(list, out)[p] = list[p]
BY DEF Demote, Tier

(* Every pass demotes candidates that were primary, and nothing else.        *)
LEMMA PassFacts ==
  ASSUME NEW list \in [Pair -> Tier], NEW out \in SUBSET Primaries(list)
  PROVE  /\ Demote(list, out) \in [Pair -> Tier]
         /\ \A p \in Pair : /\ Demote(list, out)[p] = "none" <=> list[p] = "none"
                            /\ Demote(list, out)[p] = "primary" => list[p] = "primary"
                            /\ p \notin out => Demote(list, out)[p] = list[p]
                            /\ p \in out => Demote(list, out)[p] # "primary"
BY DemoteFacts DEF Primaries

(* The rules of the dedup decide between two columns one way or the other.   *)
LEMMA ParentTotal ==
  ASSUME chosen \in DOMAIN Scenes, NEW c \in Col, NEW d \in Col, c # d
  PROVE  Parent(c, d) \/ Parent(d, c)
<1> DEFINE a == Anchor(c, d)
           b == Anchor(d, c)
<1>1. \A i \in 1 .. 4 : a[i] \in Int /\ b[i] \in Int
  BY SceneType DEF Anchor, Bit
<1>2. /\ c \in Nat /\ d \in Nat
      /\ a = <<a[1], a[2], a[3], a[4]>> /\ b = <<b[1], b[2], b[3], b[4]>>
  BY CandidatesAssumption DEF Anchor
<1> HIDE DEF a, b
<1>3. CASE \A i \in 1 .. 4 : a[i] = b[i]
  <2>1. a = b
    BY <1>2, <1>3
  <2>2. c < d \/ d < c
    BY <1>2
  <2>3. QED
    BY <2>1, <2>2 DEF Parent, a, b
<1>4. CASE \E i \in 1 .. 4 : a[i] # b[i]
  <2>1. PICK i \in 1 .. 4 : a[i] # b[i] /\ \A j \in 1 .. i - 1 : a[j] = b[j]
    <3>1. CASE a[1] # b[1]
      BY <3>1
    <3>2. CASE a[1] = b[1] /\ a[2] # b[2]
      BY <3>2
    <3>3. CASE a[1] = b[1] /\ a[2] = b[2] /\ a[3] # b[3]
      BY <3>3
    <3>4. CASE a[1] = b[1] /\ a[2] = b[2] /\ a[3] = b[3] /\ a[4] # b[4]
      BY <3>4
    <3>5. QED
      BY <1>4, <3>1, <3>2, <3>3, <3>4
  <2>2. a[i] > b[i] \/ b[i] > a[i]
    BY <1>1, <2>1
  <2>3. Before(a, b) \/ Before(b, a)
    BY <2>1, <2>2 DEF Before
  <2>4. QED
    BY <2>3 DEF Parent, a, b
<1>5. QED
  BY <1>3, <1>4

LEMMA DedupFacts ==
  ASSUME chosen \in DOMAIN Scenes, NEW list \in [Pair -> Tier], NEW p \in Pair
  PROVE  /\ ~(Deduped(list)[p] = "primary" /\ Deduped(list)[Rev(p)] = "primary")
         /\ list[Rev(p)] # "primary" => Deduped(list)[p] = list[p]
<1> DEFINE out == {q \in Primaries(list) : Rev(q) \in Primaries(list) /\ Parent(q[1], q[2])}
<1>1. out \in SUBSET Primaries(list) /\ Deduped(list) = Demote(list, out)
  BY DEF Deduped
<1>2. list[Rev(p)] # "primary" => p \notin out
  BY DEF Primaries
<1>3. ASSUME list[p] = "primary", list[Rev(p)] = "primary"
      PROVE  p \in out \/ Rev(p) \in out
  <2>1. p \in Primaries(list) /\ Rev(p) \in Primaries(list)
    BY <1>3, PairFacts DEF Primaries
  <2>2. Parent(p[1], p[2]) \/ Parent(p[2], p[1])
    BY PairFacts, ParentTotal
  <2>3. Rev(p)[1] = p[2] /\ Rev(p)[2] = p[1] /\ Rev(Rev(p)) = p
    BY PairFacts DEF Rev
  <2>4. QED
    BY <2>1, <2>2, <2>3
<1> HIDE DEF out
<1>4. QED
  BY <1>1, <1>2, <1>3, PassFacts, PairFacts
-----------------------------------------------------------------------------
(* One lemma per action of the search. *)

LEMMA SameInputs ==
  ASSUME UNCHANGED <<inputs, flags>>
  PROVE  /\ scene' = scene
         /\ \A p : HasKey(p[2])' <=> HasKey(p[2])
         /\ \A p : Locked(p)' <=> Locked(p)
BY DEF inputs, scene, HasKey, Unique, Locked, RoleBypass, ParentUnknown

LEMMA CandidateInitInv == CandidateInit => SearchInv
<1> SUFFICES ASSUME CandidateInit PROVE SearchInv
  OBVIOUS
<1>1. scene.flags \in [Col -> Flags]
  BY SceneType DEF CandidateInit
<1>2. NoRows \in [Pair -> Tier]
  BY DEF NoRows, Tier
<1>3. CandidateTypeOK
  <2>1. /\ chosen \in DOMAIN Scenes /\ cap \in Caps /\ strict \in Stricts
        /\ at \in Point /\ wrote \in BOOLEAN /\ missed \in BOOLEAN /\ fresh \in BOOLEAN
    BY DEF CandidateInit, Point
  <2>2. tier \in [Stage -> [Pair -> Tier]] /\ store \in [Pair -> Tier] /\ flags \in [Col -> Flags]
    BY <1>1, <1>2 DEF CandidateInit
  <2>3. left \in [Stage -> SUBSET Pair]
    BY DEF CandidateInit
  <2>4. lost \in 0 .. MaxLost /\ runs \in 0 .. MaxRuns
    BY CandidatesAssumption DEF CandidateInit
  <2>5. QED
    BY <2>1, <2>2, <2>3, <2>4 DEF CandidateTypeOK
<1>4. QED
  BY <1>3 DEF CandidateInit, SearchInv, KeyedParents, LockedStay, OneWayListed, InOrder,
              TableFollows, Listed

LEMMA LoadInv == SearchInv /\ Load => SearchInv'
<1> SUFFICES ASSUME SearchInv, Load PROVE SearchInv'
  OBVIOUS
<1>1. CandidateTypeOK
  BY DEF SearchInv
<1>2. scene.flags \in [Col -> Flags]
  BY <1>1, SceneType DEF CandidateTypeOK
<1>3. flags' \in [Col -> Flags]
  <2>1. \A c \in Col : /\ scene.flags[c] \in Flags
                       /\ [scene.flags[c] EXCEPT !.eligible = FALSE] \in Flags
    BY <1>2 DEF Flags
  <2>2. QED
    BY <2>1 DEF Load
<1>4. NoRows \in [Pair -> Tier]
  BY DEF NoRows, Tier
<1>5. /\ at' = "keys" /\ tier' = [s \in Stage |-> NoRows] /\ left' = [s \in Stage |-> {}]
      /\ wrote' = FALSE /\ missed' = FALSE /\ fresh' = (store = NoRows)
      /\ runs < MaxRuns /\ runs' = runs + 1
      /\ UNCHANGED <<inputs, store, lost>>
  BY DEF Load
<1>6. CandidateTypeOK'
  <2>1. /\ (chosen \in DOMAIN Scenes /\ cap \in Caps /\ strict \in Stricts)'
        /\ store' \in [Pair -> Tier] /\ lost' \in 0 .. MaxLost
    BY <1>1, <1>5 DEF CandidateTypeOK, inputs
  <2>2. at' \in Point /\ wrote' \in BOOLEAN /\ missed' \in BOOLEAN /\ fresh' \in BOOLEAN
    BY <1>5 DEF Point
  <2>3. tier' \in [Stage -> [Pair -> Tier]] /\ left' \in [Stage -> SUBSET Pair]
    BY <1>4, <1>5
  <2>4. runs' \in 0 .. MaxRuns
    BY <1>1, <1>5, CandidatesAssumption DEF CandidateTypeOK
  <2>5. QED
    BY <1>3, <2>1, <2>2, <2>3, <2>4 DEF CandidateTypeOK
<1>7. QED
  BY <1>5, <1>6 DEF SearchInv, KeyedParents, LockedStay, OneWayListed, InOrder,
                    TableFollows, Listed, NoRows

(* The two steps in front of the searches change flags only.                 *)
LEMMA FlagsInv ==
  ASSUME SearchInv, DetectKeys \/ Reconcile
  PROVE  SearchInv'
<1>1. CandidateTypeOK
  BY DEF SearchInv
<1>2. \A c \in Col : /\ flags[c] \in Flags /\ Sibling(c) \in Flags
                     /\ [flags[c] EXCEPT !.implicit = TRUE] \in Flags
  BY <1>1 DEF CandidateTypeOK, Flags, Sibling
<1>3. flags' \in [Col -> Flags]
  <2>1. CASE DetectKeys
    BY <1>2, <2>1 DEF DetectKeys
  <2>2. CASE Reconcile
    BY <1>2, <2>2 DEF Reconcile
  <2>3. QED
    BY <2>1, <2>2
<1>4. /\ at \in {"keys", "direction"} /\ at' \in {"direction", "generate"}
      /\ UNCHANGED <<inputs, tier, left, wrote, missed, store, fresh, lost, runs>>
  BY DEF DetectKeys, Reconcile
<1>5. CandidateTypeOK'
  BY <1>1, <1>3, <1>4 DEF CandidateTypeOK, Point, inputs
<1>6. QED
  BY <1>4, <1>5 DEF SearchInv, KeyedParents, LockedStay, OneWayListed, InOrder,
                    TableFollows, Listed, NoRows

LEMMA GenerateInv == SearchInv /\ Generate => SearchInv'
<1> SUFFICES ASSUME SearchInv, Generate PROVE SearchInv'
  OBVIOUS
<1>1. CandidateTypeOK
  BY DEF SearchInv
<1>2. /\ at = "generate" /\ at' = "dedup"
      /\ UNCHANGED <<inputs, flags, left, wrote, missed, store, fresh, lost, runs>>
  BY DEF Generate
<1>3. PICK near : tier' = [s \in Stage |-> [p \in Pair |-> Searched(s, p, near)]]
  BY DEF Generate
<1>4. \A s \in Stage, p \in Pair : tier'[s][p] = Searched(s, p, near)
  BY <1>3
<1>5. CandidateTypeOK'
  <2>1. \A s \in Stage, p \in Pair : Searched(s, p, near) \in Tier
    BY DEF Searched, Tier
  <2>2. tier' \in [Stage -> [Pair -> Tier]]
    BY <1>3, <2>1
  <2>3. QED
    BY <1>1, <1>2, <2>2 DEF CandidateTypeOK, Point, inputs
<1>6. KeyedParents'
  <2>1. ASSUME NEW s \in Stage, NEW p \in Pair, strict, tier'[s][p] = "primary"
        PROVE  HasKey(p[2])
    BY <1>4, <2>1 DEF Searched, Primary, ParentUnknown
  <2>2. QED
    BY <1>2, <2>1, SameInputs DEF KeyedParents, inputs
<1>7. LockedStay'
  <2>1. ASSUME NEW s \in Stage, NEW p \in Pair, Locked(p), tier'[s][p] # "none"
        PROVE  tier'[s][p] = "primary"
    BY <1>4, <2>1 DEF Searched, Primary, Locked
  <2>2. QED
    BY <1>2, <2>1, SameInputs DEF LockedStay
<1>8. QED
  BY <1>1, <1>2, <1>5, <1>6, <1>7
     DEF SearchInv, OneWayListed, InOrder, TableFollows, Listed, NoRows

(* What every pass over the lists keeps.                                     *)
LEMMA PassInv ==
  ASSUME SearchInv, tier' \in [Stage -> [Pair -> Tier]],
         \/ at = "dedup" /\ at' = "bridge"
         \/ at = "bridge" /\ at' = "range"
         \/ at = "range" /\ at' = "topk"
         \/ at = "topk" /\ at' = "cap",
         UNCHANGED <<inputs, flags, left, wrote, missed, store, fresh, lost, runs>>,
         \A s \in Stage, p \in Pair :
           /\ tier'[s][p] = "none" <=> tier[s][p] = "none"
           /\ tier'[s][p] = "primary" => tier[s][p] = "primary"
           /\ Locked(p) /\ tier[s][Rev(p)] = "none" => tier'[s][p] = tier[s][p]
           /\ at = "dedup" => ~(tier'[s][p] = "primary" /\ tier'[s][Rev(p)] = "primary")
  PROVE  SearchInv'
<1>1. CandidateTypeOK
  BY DEF SearchInv
<1>2. CandidateTypeOK'
  BY <1>1 DEF CandidateTypeOK, Point, inputs
<1>3. KeyedParents'
  BY SameInputs DEF SearchInv, KeyedParents, inputs
<1>4. LockedStay'
  BY SameInputs, PairFacts DEF SearchInv, LockedStay, Listed, inputs
<1>5. OneWayListed'
  BY PairFacts DEF SearchInv, OneWayListed, Listed
<1>6. InOrder' /\ TableFollows'
  BY DEF SearchInv, InOrder, TableFollows, NoRows
<1>7. QED
  BY <1>2, <1>3, <1>4, <1>5, <1>6 DEF SearchInv

LEMMA TierType ==
  ASSUME SearchInv, NEW s \in Stage
  PROVE  tier[s] \in [Pair -> Tier] /\ chosen \in DOMAIN Scenes
BY DEF SearchInv, CandidateTypeOK

LEMMA DedupInv == SearchInv /\ Dedup => SearchInv'
<1> SUFFICES ASSUME SearchInv, Dedup PROVE SearchInv'
  OBVIOUS
<1>1. /\ at = "dedup" /\ at' = "bridge" /\ tier' = [s \in Stage |-> Deduped(tier[s])]
      /\ UNCHANGED <<inputs, flags, left, wrote, missed, store, fresh, lost, runs>>
  BY DEF Dedup, Pass
<1>2. ASSUME NEW s \in Stage
      PROVE  /\ tier'[s] \in [Pair -> Tier]
             /\ \A p \in Pair : /\ tier'[s][p] = "none" <=> tier[s][p] = "none"
                                /\ tier'[s][p] = "primary" => tier[s][p] = "primary"
  <2> DEFINE out == {q \in Primaries(tier[s]) :
                       Rev(q) \in Primaries(tier[s]) /\ Parent(q[1], q[2])}
  <2>1. tier'[s] = Demote(tier[s], out)
    BY <1>1 DEF Deduped
  <2>2. out \in SUBSET Primaries(tier[s])
    OBVIOUS
  <2> HIDE DEF out
  <2>3. QED
    BY <2>1, <2>2, TierType, PassFacts
<1>3. ASSUME NEW s \in Stage, NEW p \in Pair
      PROVE  /\ ~(tier'[s][p] = "primary" /\ tier'[s][Rev(p)] = "primary")
             /\ tier[s][Rev(p)] = "none" => tier'[s][p] = tier[s][p]
  BY <1>1, TierType, DedupFacts
<1>4. tier' \in [Stage -> [Pair -> Tier]]
  BY <1>1, <1>2
<1>5. QED
  BY <1>1, <1>2, <1>3, <1>4, PassInv

(* The other passes spare what is locked, whichever they demote.             *)
LEMMA SparingInv ==
  ASSUME SearchInv, NEW here, NEW next, NEW out \in [Stage -> SUBSET Pair],
         Pass(here, next, [s \in Stage |-> Demote(tier[s], out[s])]),
         \/ here = "bridge" /\ next = "range"
         \/ here = "range" /\ next = "topk"
         \/ here = "topk" /\ next = "cap",
         \A s \in Stage : /\ out[s] \in SUBSET Primaries(tier[s])
                          /\ \A p \in out[s] : ~Locked(p)
  PROVE  SearchInv'
<1>1. /\ at = here /\ at' = next
      /\ tier' = [s \in Stage |-> Demote(tier[s], out[s])]
      /\ UNCHANGED <<inputs, flags, left, wrote, missed, store, fresh, lost, runs>>
  BY DEF Pass
<1>2. ASSUME NEW s \in Stage
      PROVE  /\ tier'[s] \in [Pair -> Tier]
             /\ \A p \in Pair : /\ tier'[s][p] = "none" <=> tier[s][p] = "none"
                                /\ tier'[s][p] = "primary" => tier[s][p] = "primary"
                                /\ Locked(p) => tier'[s][p] = tier[s][p]
  <2>1. tier'[s] = Demote(tier[s], out[s]) /\ out[s] \in SUBSET Primaries(tier[s])
    BY <1>1
  <2>2. QED
    BY <2>1, TierType, PassFacts
<1>3. tier' \in [Stage -> [Pair -> Tier]]
  BY <1>1, <1>2
<1>4. QED
  BY <1>1, <1>2, <1>3, PassInv

(* What the passes behind the dedup demote.                                  *)
LEMMA BridgeInv == SearchInv /\ Bridge => SearchInv'
<1> SUFFICES ASSUME SearchInv, Bridge PROVE SearchInv'
  OBVIOUS
<1> DEFINE rivals(s) == {p \in Primaries(tier[s]) : Containment(s, p) >= 99}
           beaten(s) == {p \in rivals(s) : \E r \in rivals(s) :
                           /\ r[1] = p[1]
                           /\ \/ scene.sim[r] > scene.sim[p]
                              \/ scene.sim[r] = scene.sim[p] /\ Distance(r) < Distance(p)}
           outset(s) == {p \in beaten(s) : ~Locked(p) /\ ~SameTable(p) /\ ~HasKey(p[2])}
           out == [s \in Stage |-> outset(s)]
<1>1. \A s \in Stage : /\ outset(s) \in SUBSET Primaries(tier[s])
                       /\ \A p \in outset(s) : ~Locked(p)
  OBVIOUS
<1>2. \A s \in Stage : Bridged(s, tier[s]) = Demote(tier[s], outset(s))
  BY DEF Bridged
<1> HIDE DEF outset
<1>3. /\ out \in [Stage -> SUBSET Pair]
      /\ \A s \in Stage : out[s] = outset(s)
  BY <1>1 DEF Primaries
<1>4. [s \in Stage |-> Bridged(s, tier[s])] = [s \in Stage |-> Demote(tier[s], out[s])]
  BY <1>2, <1>3
<1> HIDE DEF out
<1>5. Pass("bridge", "range", [s \in Stage |-> Demote(tier[s], out[s])])
  BY <1>4 DEF Bridge
<1>6. QED
  BY <1>1, <1>3, <1>5, SparingInv

LEMMA ShrinkInv == SearchInv /\ Shrink => SearchInv'
<1> SUFFICES ASSUME SearchInv, Shrink PROVE SearchInv'
  OBVIOUS
<1> DEFINE outset(s) == {p \in Primaries(tier[s]) :
                           /\ ~Locked(p) /\ ~SameTable(p)
                           /\ scene.col[p[1]].distinct > 0 /\ scene.col[p[2]].distinct > 0
                           /\ 10 * scene.col[p[1]].distinct <= scene.col[p[2]].distinct
                           /\ scene.sim[p] < 50}
           out == [s \in Stage |-> outset(s)]
<1>1. \A s \in Stage : /\ outset(s) \in SUBSET Primaries(tier[s])
                       /\ \A p \in outset(s) : ~Locked(p)
  OBVIOUS
<1>2. \A s \in Stage : Ranged(tier[s]) = Demote(tier[s], outset(s))
  BY DEF Ranged
<1> HIDE DEF outset
<1>3. /\ out \in [Stage -> SUBSET Pair]
      /\ \A s \in Stage : out[s] = outset(s)
  BY <1>1 DEF Primaries
<1>4. [s \in Stage |-> Ranged(tier[s])] = [s \in Stage |-> Demote(tier[s], out[s])]
  BY <1>2, <1>3
<1> HIDE DEF out
<1>5. Pass("range", "topk", [s \in Stage |-> Demote(tier[s], out[s])])
  BY <1>4 DEF Shrink
<1>6. QED
  BY <1>1, <1>3, <1>5, SparingInv

LEMMA RankInv == SearchInv /\ Rank => SearchInv'
<1> SUFFICES ASSUME SearchInv, Rank PROVE SearchInv'
  OBVIOUS
<1> DEFINE outset(s) == {p \in Primaries(tier[s]) :
                           /\ TopK > 0 /\ ~Locked(p)
                           /\ Cardinality({r \in Primaries(tier[s]) :
                                r[1] = p[1] /\ Ahead(s, r, s, p)}) >= TopK}
           out == [s \in Stage |-> outset(s)]
<1>1. \A s \in Stage : /\ outset(s) \in SUBSET Primaries(tier[s])
                       /\ \A p \in outset(s) : ~Locked(p)
  OBVIOUS
<1>2. \A s \in Stage : Ranked(s, tier[s]) = Demote(tier[s], outset(s))
  BY DEF Ranked
<1> HIDE DEF outset
<1>3. /\ out \in [Stage -> SUBSET Pair]
      /\ \A s \in Stage : out[s] = outset(s)
  BY <1>1 DEF Primaries
<1>4. [s \in Stage |-> Ranked(s, tier[s])] = [s \in Stage |-> Demote(tier[s], out[s])]
  BY <1>2, <1>3
<1> HIDE DEF out
<1>5. Pass("topk", "cap", [s \in Stage |-> Demote(tier[s], out[s])])
  BY <1>4 DEF Rank
<1>6. QED
  BY <1>1, <1>3, <1>5, SparingInv

(* The cap demotes role pointers too, but only where one is set.             *)
LEMMA TrimInv == SearchInv /\ Trim => SearchInv'
<1> SUFFICES ASSUME SearchInv, Trim PROVE SearchInv'
  OBVIOUS
<1> DEFINE ahead(s, p) == {x \in Stage \X Pair :
                             tier[x[1]][x[2]] = "primary" /\ Ahead(x[1], x[2], s, p)}
           outset(s) == {p \in Primaries(tier[s]) : cap > 0 /\ Cardinality(ahead(s, p)) >= cap}
<1>1. /\ at = "cap" /\ at' = "persist"
      /\ tier' = [s \in Stage |-> Capped(s, tier[s])]
      /\ left' = [s \in Stage |-> {p \in Pair : tier[s][p] # "none"}]
      /\ UNCHANGED <<inputs, flags, wrote, missed, store, fresh, lost, runs>>
  BY DEF Trim
<1>2. \A s \in Stage : /\ outset(s) \in SUBSET Primaries(tier[s])
                       /\ \A p \in outset(s) : cap > 0
  OBVIOUS
<1>3. \A s \in Stage : Capped(s, tier[s]) = Demote(tier[s], outset(s))
  BY DEF Capped
<1> HIDE DEF outset
<1>4. ASSUME NEW s \in Stage
      PROVE  /\ tier'[s] \in [Pair -> Tier]
             /\ \A p \in Pair : /\ tier'[s][p] = "none" <=> tier[s][p] = "none"
                                /\ tier'[s][p] = "primary" => tier[s][p] = "primary"
                                /\ cap = 0 => tier'[s][p] = tier[s][p]
  <2>1. /\ tier'[s] = Demote(tier[s], outset(s)) /\ outset(s) \in SUBSET Primaries(tier[s])
        /\ cap = 0 => \A p \in Pair : p \notin outset(s)
    BY <1>1, <1>2, <1>3
  <2>2. QED
    BY <2>1, TierType, PassFacts
<1>5. /\ tier' \in [Stage -> [Pair -> Tier]] /\ left' \in [Stage -> SUBSET Pair]
      /\ \A s \in Stage : left'[s] = Members(s)'
  BY <1>1, <1>4 DEF Members
<1>6. CandidateTypeOK'
  BY <1>1, <1>5 DEF SearchInv, CandidateTypeOK, Point, inputs
<1>7. KeyedParents'
  BY <1>1 DEF KeyedParents
<1>8. LockedStay'
  BY <1>1, <1>4, SameInputs, PairFacts DEF SearchInv, LockedStay, Listed, inputs
<1>9. OneWayListed'
  BY <1>1, <1>4, PairFacts DEF SearchInv, OneWayListed, Listed
<1>10. InOrder'
  BY <1>1, <1>5 DEF InOrder, Stage
<1>11. TableFollows'
  <2>1. \A s \in Stage : Written(s)' = {}
    BY <1>5 DEF Written
  <2>2. fresh' => store' = NoRows
    BY <1>1 DEF SearchInv, TableFollows
  <2>3. QED
    BY <1>1, <2>1, <2>2 DEF TableFollows, InTable, NoRows, Stage
<1>12. QED
  BY <1>6, <1>7, <1>8, <1>9, <1>10, <1>11 DEF SearchInv

(* What a step on the next batch of the list being written leaves behind.    *)
LEMMA TakeFacts ==
  ASSUME SearchInv, Take
  PROVE  /\ at = "persist" /\ at' = "persist"
         /\ UNCHANGED <<inputs, at, flags, tier, fresh, runs>>
         /\ Writing \in Stage /\ NextBatch \subseteq left[Writing]
         /\ left'[Writing] = left[Writing] \ NextBatch
         /\ \A s \in Stage \ {Writing} : left'[s] = left[s]
         /\ left' \in [Stage -> SUBSET Pair]
         /\ Writing = "sql_prefilter" => left["lsh_search"] = Members("lsh_search")
         /\ InOrder' /\ KeyedParents' /\ LockedStay' /\ OneWayListed'
<1>1. left \in [Stage -> SUBSET Pair]
  BY DEF SearchInv, CandidateTypeOK
<1>2. /\ at = "persist" /\ UNCHANGED <<inputs, at, flags, tier, fresh, runs>>
      /\ left' = [left EXCEPT ![Writing] = @ \ NextBatch]
  BY DEF Take
<1>3. Writing \in Stage /\ NextBatch \subseteq left[Writing]
  BY DEF Writing, NextBatch, Stage
<1>4. Writing = "sql_prefilter" => left["sql_prefilter"] # {}
  BY DEF Writing
<1>5. /\ left'[Writing] = left[Writing] \ NextBatch
      /\ \A s \in Stage \ {Writing} : left'[s] = left[s]
  BY <1>1, <1>2, <1>3
<1>6. left' \in [Stage -> SUBSET Pair]
  BY <1>1, <1>2, <1>3
<1>7. /\ \A s \in Stage : left[s] \subseteq Members(s)
      /\ left["sql_prefilter"] # {} => left["lsh_search"] = Members("lsh_search")
  BY <1>2 DEF SearchInv, InOrder
<1>8. \A s \in Stage : Members(s)' = Members(s)
  BY <1>2 DEF Members
<1>9. InOrder'
  <2>1. \A s \in Stage : left'[s] \subseteq left[s]
    BY <1>5
  <2>2. ASSUME left'["sql_prefilter"] # {} PROVE left'["lsh_search"] = left["lsh_search"]
    <3>1. left["sql_prefilter"] # {}
      BY <2>1, <2>2 DEF Stage
    <3>2. Writing = "sql_prefilter"
      BY <3>1 DEF Writing
    <3>3. QED
      BY <1>5, <3>2 DEF Stage
  <2>3. QED
    BY <1>2, <1>7, <1>8, <2>1, <2>2 DEF InOrder, Stage
<1>10. KeyedParents' /\ LockedStay' /\ OneWayListed'
  BY <1>2, SameInputs DEF SearchInv, KeyedParents, LockedStay, OneWayListed, Listed, inputs
<1>11. QED
  BY <1>2, <1>3, <1>4, <1>5, <1>6, <1>7, <1>9, <1>10

LEMMA WriteInv == SearchInv /\ WriteBatch => SearchInv'
<1> SUFFICES ASSUME SearchInv, WriteBatch PROVE SearchInv'
  OBVIOUS
<1> DEFINE w == Writing
           batch == NextBatch
<1>1. Take
  BY DEF WriteBatch
<1>2. /\ store' = [p \in Pair |-> IF p \in batch THEN tier[w][p] ELSE store[p]]
      /\ wrote' = TRUE /\ UNCHANGED <<missed, lost>>
  BY DEF WriteBatch
<1>3. /\ tier \in [Stage -> [Pair -> Tier]] /\ store \in [Pair -> Tier]
      /\ left \in [Stage -> SUBSET Pair]
  BY DEF SearchInv, CandidateTypeOK
<1>4. /\ at = "persist" /\ UNCHANGED <<inputs, at, flags, tier, fresh, runs>>
      /\ w \in Stage /\ batch \subseteq left[w]
      /\ left'[w] = left[w] \ batch
      /\ \A s \in Stage \ {w} : left'[s] = left[s]
      /\ left' \in [Stage -> SUBSET Pair]
      /\ w = "sql_prefilter" => left["lsh_search"] = Members("lsh_search")
      /\ InOrder' /\ KeyedParents' /\ LockedStay' /\ OneWayListed'
  BY <1>1, TakeFacts
<1> HIDE DEF w, batch
<1>5. CandidateTypeOK'
  <2>1. store' \in [Pair -> Tier]
    BY <1>2, <1>3, <1>4
  <2>2. QED
    BY <1>2, <1>4, <2>1 DEF SearchInv, CandidateTypeOK, inputs
<1>6. TableFollows'
  <2>1. SUFFICES ASSUME ~missed, NEW p \in Pair PROVE InTable(p)'
    BY <1>2, <1>4 DEF TableFollows
  <2>2. InTable(p)
    BY <1>4, <2>1 DEF SearchInv, TableFollows
  <2>3. \A s \in Stage : Members(s)' = Members(s) /\ left[s] \subseteq Members(s)
    BY <1>4 DEF SearchInv, InOrder, Members
  <2>4. \A s \in Stage : p \in Written(s)' <=> p \in Written(s) \/ (s = w /\ p \in batch)
    BY <1>4, <2>3 DEF Written
  <2>5. p \in batch => store'[p] = tier[w][p]
    BY <1>2
  <2>6. p \notin batch => store'[p] = store[p]
    BY <1>2
  <2>7. CASE p \notin batch
    BY <1>4, <2>2, <2>4, <2>6, <2>7 DEF InTable, Stage
  <2>8. CASE p \in batch /\ w = "lsh_search"
    BY <1>4, <2>4, <2>5, <2>8 DEF InTable, Stage
  <2>9. CASE p \in batch /\ w = "sql_prefilter"
    <3>1. p \notin Written("lsh_search")'
      BY <1>4, <2>4, <2>9 DEF Written, Stage
    <3>2. QED
      BY <1>4, <2>4, <2>5, <2>9, <3>1 DEF InTable, Stage
  <2>10. QED
    BY <1>4, <2>7, <2>8, <2>9 DEF Stage
<1>7. QED
  BY <1>4, <1>5, <1>6 DEF SearchInv

LEMMA LoseInv == SearchInv /\ LoseBatch => SearchInv'
<1> SUFFICES ASSUME SearchInv, LoseBatch PROVE SearchInv'
  OBVIOUS
<1>1. /\ UNCHANGED <<inputs, at, flags, tier, fresh, runs>> /\ at = "persist"
      /\ left' \in [Stage -> SUBSET Pair]
      /\ InOrder' /\ KeyedParents' /\ LockedStay' /\ OneWayListed'
  BY TakeFacts DEF LoseBatch
<1>2. lost < MaxLost /\ lost' = lost + 1 /\ missed' = TRUE /\ UNCHANGED <<store, wrote>>
  BY DEF LoseBatch
<1>3. lost' \in 0 .. MaxLost
  BY <1>2, CandidatesAssumption DEF SearchInv, CandidateTypeOK
<1>4. CandidateTypeOK'
  BY <1>1, <1>2, <1>3 DEF SearchInv, CandidateTypeOK, inputs
<1>5. TableFollows'
  BY <1>1, <1>2 DEF TableFollows
<1>6. QED
  BY <1>1, <1>4, <1>5 DEF SearchInv

LEMMA EndSearchInv == SearchInv /\ EndSearch => SearchInv'
<1> SUFFICES ASSUME SearchInv, EndSearch PROVE SearchInv'
  OBVIOUS
<1>1. /\ at = "persist" /\ \A s \in Stage : left[s] = {}
      /\ at' \in {"failed", "done"}
      /\ UNCHANGED <<inputs, flags, tier, left, wrote, missed, store, fresh, lost, runs>>
  BY DEF EndSearch
<1>2. CandidateTypeOK'
  BY <1>1 DEF SearchInv, CandidateTypeOK, Point, inputs
<1>3. KeyedParents' /\ LockedStay' /\ OneWayListed'
  BY <1>1, SameInputs DEF SearchInv, KeyedParents, LockedStay, OneWayListed, Listed, inputs
<1>4. InOrder'
  BY <1>1 DEF SearchInv, InOrder, Members
<1>5. TableFollows'
  BY <1>1 DEF SearchInv, TableFollows, InTable, Written, Members
<1>6. QED
  BY <1>2, <1>3, <1>4, <1>5 DEF SearchInv

LEMMA KillInv == SearchInv /\ Kill => SearchInv'
<1> SUFFICES ASSUME SearchInv, Kill PROVE SearchInv'
  OBVIOUS
<1>1. /\ at' = "failed" /\ flags' = scene.flags
      /\ tier' = [s \in Stage |-> NoRows] /\ left' = [s \in Stage |-> {}]
      /\ wrote' = FALSE /\ missed' = FALSE
      /\ UNCHANGED <<inputs, store, fresh, lost, runs>>
  BY DEF Kill
<1>2. scene.flags \in [Col -> Flags] /\ NoRows \in [Pair -> Tier]
  BY SceneType DEF SearchInv, CandidateTypeOK, NoRows, Tier
<1>3. CandidateTypeOK'
  <2>1. /\ (chosen \in DOMAIN Scenes /\ cap \in Caps /\ strict \in Stricts)'
        /\ store' \in [Pair -> Tier] /\ fresh' \in BOOLEAN
        /\ lost' \in 0 .. MaxLost /\ runs' \in 0 .. MaxRuns
    BY <1>1 DEF SearchInv, CandidateTypeOK, inputs
  <2>2. at' \in Point /\ wrote' \in BOOLEAN /\ missed' \in BOOLEAN
    BY <1>1 DEF Point
  <2>3. tier' \in [Stage -> [Pair -> Tier]] /\ left' \in [Stage -> SUBSET Pair]
    BY <1>1, <1>2
  <2>4. QED
    BY <1>1, <1>2, <2>1, <2>2, <2>3 DEF CandidateTypeOK
<1>4. QED
  BY <1>1, <1>3 DEF SearchInv, KeyedParents, LockedStay, OneWayListed, InOrder,
                    TableFollows, Listed

LEMMA SearchStutterInv == SearchInv /\ UNCHANGED candidateVars => SearchInv'
<1> SUFFICES ASSUME SearchInv, UNCHANGED candidateVars PROVE SearchInv'
  OBVIOUS
<1>1. UNCHANGED <<inputs, at, flags, tier, left, wrote, missed, store, fresh, lost, runs>>
  BY DEF candidateVars
<1>2. CandidateTypeOK'
  BY <1>1 DEF SearchInv, CandidateTypeOK, inputs
<1>3. KeyedParents' /\ LockedStay' /\ OneWayListed'
  BY <1>1, SameInputs DEF SearchInv, KeyedParents, LockedStay, OneWayListed, Listed, inputs
<1>4. InOrder' /\ TableFollows'
  BY <1>1 DEF SearchInv, InOrder, TableFollows, InTable, Written, Members
<1>5. QED
  BY <1>2, <1>3, <1>4 DEF SearchInv

(***************************************************************************)
(* The inductive invariant of the search.                                  *)
(***************************************************************************)
THEOREM SearchInvariance == CandidateSpec => []SearchInv
<1>1. CandidateInit => SearchInv
  BY CandidateInitInv
<1>2. SearchInv /\ [CandidateNext]_candidateVars => SearchInv'
  BY LoadInv, FlagsInv, GenerateInv, DedupInv, BridgeInv, ShrinkInv, RankInv, TrimInv,
     WriteInv, LoseInv, EndSearchInv, KillInv, SearchStutterInv DEF CandidateNext
<1>3. QED
  BY <1>1, <1>2, PTL DEF CandidateSpec

(***************************************************************************)
(* Every variable of the candidate search keeps its type.                  *)
(***************************************************************************)
THEOREM SearchTypes == CandidateSpec => []CandidateTypeOK
<1>1. SearchInv => CandidateTypeOK
  BY DEF SearchInv
<1>2. QED
  BY <1>1, SearchInvariance, PTL

(* What a finished run that lost no batch has in the table.                  *)
LEMMA StoredRows ==
  ASSUME SearchInv, at = "done", ~missed, NEW p \in Pair
  PROVE  IF tier["lsh_search"][p] # "none" THEN store[p] = tier["lsh_search"][p]
         ELSE IF tier["sql_prefilter"][p] # "none" THEN store[p] = tier["sql_prefilter"][p]
         ELSE fresh => store[p] = "none"
<1>1. InTable(p) /\ \A s \in Stage : left[s] = {}
  BY DEF SearchInv, TableFollows, InOrder
<1>2. \A s \in Stage : p \in Written(s) <=> tier[s][p] # "none"
  BY <1>1 DEF Written, Members
<1>3. QED
  BY <1>1, <1>2 DEF InTable, Stage

(***************************************************************************)
(* Both directions of a pair are stored as primary only where the index    *)
(* found exactly one of them: within one list the dedup leaves one, so the *)
(* two rows come from the two lists, whatever batches were written when.   *)
(***************************************************************************)
THEOREM OneWayInTable == CandidateSpec => []OneWayStored
<1>1. SearchInv => OneWayStored
  <2>1. SUFFICES ASSUME SearchInv, at = "done", fresh, ~missed, NEW p \in Pair,
                        store[p] = "primary", store[Rev(p)] = "primary"
                 PROVE  (tier["lsh_search"][p] = "none") # (tier["lsh_search"][Rev(p)] = "none")
    BY DEF OneWayStored
  <2>2. Rev(p) \in Pair
    BY PairFacts
  <2>3. \A s \in Stage : ~(tier[s][p] = "primary" /\ tier[s][Rev(p)] = "primary")
    BY <2>1 DEF SearchInv, OneWayListed, Listed
  <2>4. /\ tier["lsh_search"][p] # "none" => tier["lsh_search"][p] = "primary"
        /\ tier["lsh_search"][Rev(p)] # "none" => tier["lsh_search"][Rev(p)] = "primary"
    BY <2>1, <2>2, StoredRows
  <2>5. tier["lsh_search"][p] = "none" => tier["sql_prefilter"][p] = "primary"
    BY <2>1, StoredRows
  <2>6. tier["lsh_search"][Rev(p)] = "none" => tier["sql_prefilter"][Rev(p)] = "primary"
    BY <2>1, <2>2, StoredRows
  <2>7. QED
    BY <2>3, <2>4, <2>5, <2>6 DEF Stage
<1>2. QED
  BY <1>1, SearchInvariance, PTL

(***************************************************************************)
(* A recognised role pointer found in one direction only is primary in the *)
(* table behind a run that lost no batch and had no cap, whatever an       *)
(* earlier run had written there.                                          *)
(***************************************************************************)
THEOREM RolePointersStay == CandidateSpec => []RolePointersKept
<1>1. SearchInv => RolePointersKept
  <2>1. SUFFICES ASSUME SearchInv, at = "done", ~missed, cap = 0, NEW p \in Pair, Locked(p),
                        \E s \in Stage : tier[s][p] # "none",
                        \A s \in Stage : tier[s][Rev(p)] = "none"
                 PROVE  store[p] = "primary"
    BY DEF RolePointersKept
  <2>2. \A s \in Stage : tier[s][p] # "none" => tier[s][p] = "primary"
    BY <2>1 DEF SearchInv, LockedStay, Listed
  <2>3. QED
    BY <2>1, <2>2, StoredRows DEF Stage
<1>2. QED
  BY <1>1, SearchInvariance, PTL

(***************************************************************************)
(* With require_parent_pk the bridge filter demotes nothing: the gates of  *)
(* both searches have already kept primaries without a keyed parent out of *)
(* the lists.                                                              *)
(***************************************************************************)
THEOREM BridgeIdle == CandidateSpec => NothingToBridge
<1>1. ASSUME SearchInv, CandidateNext, at = "bridge", at' = "range", strict
      PROVE  UNCHANGED tier
  <2>1. Bridge
    BY <1>1 DEF CandidateNext, Load, DetectKeys, Reconcile, Generate, Dedup, Shrink, Rank,
                Pass, Trim, WriteBatch, LoseBatch, Take, EndSearch, Kill
  <2>2. tier' = [s \in Stage |-> Bridged(s, tier[s])]
    BY <2>1 DEF Bridge, Pass
  <2>3. \A s \in Stage : tier[s] \in [Pair -> Tier]
    BY <1>1, TierType
  <2>4. ASSUME NEW s \in Stage PROVE Bridged(s, tier[s]) = tier[s]
    <3> DEFINE rivals == {p \in Primaries(tier[s]) : Containment(s, p) >= 99}
               beaten == {p \in rivals : \E r \in rivals :
                            /\ r[1] = p[1]
                            /\ \/ scene.sim[r] > scene.sim[p]
                               \/ scene.sim[r] = scene.sim[p] /\ Distance(r) < Distance(p)}
               out == {p \in beaten : ~Locked(p) /\ ~SameTable(p) /\ ~HasKey(p[2])}
    <3>1. Bridged(s, tier[s]) = Demote(tier[s], out)
      BY DEF Bridged
    <3>2. \A p \in Primaries(tier[s]) : HasKey(p[2])
      BY <1>1 DEF SearchInv, KeyedParents, Primaries
    <3>3. out = {}
      BY <3>2
    <3>4. Demote(tier[s], {}) = tier[s]
      BY <2>3 DEF Demote
    <3>5. QED
      BY <3>1, <3>3, <3>4
  <2>5. tier \in [Stage -> [Pair -> Tier]]
    BY <1>1 DEF SearchInv, CandidateTypeOK
  <2>6. QED
    BY <2>2, <2>4, <2>5
<1>2. SearchInv /\ [CandidateNext]_candidateVars
        => [at = "bridge" /\ at' = "range" /\ strict => UNCHANGED tier]_candidateVars
  BY <1>1
<1>3. QED
  BY <1>2, SearchInvariance, PTL DEF CandidateSpec, NothingToBridge
=============================================================================
