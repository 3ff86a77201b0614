---------------------------- MODULE MCAnalysisJobs ----------------------------
(* Instances of AnalysisJobs for TLC. *)
EXTENDS AnalysisJobs

CONSTANTS j1

OneJob == {j1}
FewStages == <<"crawl", "pii">>
=============================================================================
