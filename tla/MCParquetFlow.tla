--------------------------- MODULE MCParquetFlow ---------------------------
(* Instances of ParquetFlow for TLC.  Three tables, one of them related to *)
(* no other: it is the orphan the disk cap is allowed to delete.           *)
EXTENDS ParquetFlow

CONSTANTS t1, t2, t3

ThreeTables == {t1, t2, t3}
OneKey == {<<t1, t2>>}
TightOrRoomy == {1, 3}
Wide == {3}
BothCommands == {"run_all", "two_pass"}
TwoPass == {"two_pass"}
=============================================================================
