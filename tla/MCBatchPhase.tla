---------------------------- MODULE MCBatchPhase ----------------------------
(* Instances of BatchPhase for TLC: three items and batches of two, so that *)
(* one flush stands inside the walk and another after it.                   *)
EXTENDS BatchPhase

CONSTANTS i1, i2, i3

Items == {i1, i2, i3}

\* Columns without findings, candidates below the containment threshold.
SomeMatching == {i1, i2}

ThreePhases == {"fingerprint", "pii_scan", "validate"}
BothDrivers == {"run_all", "command"}
=============================================================================
