---------------------------- MODULE MCExtraction ----------------------------
(* Instances of Extraction for TLC: with two tables one can fail where the *)
(* other succeeds, and one can hold the only permit the other waits for.   *)
EXTENDS Extraction

CONSTANTS t1, t2

TwoTables == {t1, t2}
BothDrivers == {"run_all", "command"}
=============================================================================
