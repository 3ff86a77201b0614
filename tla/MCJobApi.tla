------------------------------ MODULE MCJobApi ------------------------------
(* Instances of JobApi and EventStream for TLC.  Two jobs, of one schema   *)
(* or of two, are enough for a job to meet the leftovers, or the           *)
(* subprocess, of another; two phases, for one to miss the output of the   *)
(* other.  One page is open: streams do not read each other.               *)
EXTENDS EventStream

CONSTANTS j1, j2, s1, s2

TwoJobs == {j1, j2}
OnePage == {j1}
TwoSchemas == {s1, s2}
TwoPhases == <<"inventory", "validate">>
=============================================================================
