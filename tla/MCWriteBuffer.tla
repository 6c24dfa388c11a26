--------------------------- MODULE MCWriteBuffer ---------------------------
(* Finite instances of WriteBuffer for TLC. *)
EXTENDS WriteBuffer

CONSTANTS c1, c2, unrouted, s1

\* The calls are one client's attempts at the same event; in between, the routing
\* map may or may not come to know the shard of the site.
Uuid == [c \in Calls |-> "u"]
=============================================================================
