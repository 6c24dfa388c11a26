--------------------------- MODULE MCSiteErase ---------------------------
(* A small instance of SiteErase. *)
EXTENDS SiteErase, TLC

CONSTANTS t1, t2, r1, r2

Symmetry == Permutations(Requests)
=============================================================================
