------------------------- MODULE MCAccountDeletion --------------------------
(* The accounts of AccountDeletion for TLC. *)
EXTENDS AccountDeletion

CONSTANTS s1, s2, o1, h1
=============================================================================
