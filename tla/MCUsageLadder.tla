--------------------------- MODULE MCUsageLadder ---------------------------
(* The processes of UsageLadder for TLC. *)
EXTENDS UsageLadder

CONSTANTS p1, c1

Rungs == [l \in {"warn", "reached"} |-> 1]
=============================================================================
