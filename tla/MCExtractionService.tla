------------------------- MODULE MCExtractionService -------------------------
(* Instances of ExtractionService for TLC. *)
EXTENDS ExtractionService

CONSTANTS r1, r2, s1, s2

Pair == {r1, r2}
Two == {s1, s2}
Odd == {s2}
=============================================================================
