--------------------------- MODULE MCOrchestrator ---------------------------
(* Instances of Orchestrator for TLC. *)
EXTENDS Orchestrator, Phases

\* cardinality_refine is the one optional phase that is off by default.
OffByDefault == {"cardinality_refine"}

\* Every kind of phase, for the runs with several faults and crashes.
Chosen ==
  {"inventory", "extract", "validate", "data_quality", "clustering",
   "cardinality_refine", "report"}
FewPhases == SelectSeq(AllPhases, LAMBDA p : p \in Chosen)
FewOptional == OptionalPhases \cap Chosen

\* An operator who sometimes leaves some slow phases out.
SomeSkips == {{}, {"validate"}, {"extract", "clustering"}}
=============================================================================
