-------------------------- MODULE MCAccountHandles --------------------------
(* Finite instances of AccountHandles for TLC. *)
EXTENDS AccountHandles, TLC

CONSTANTS a1, a2, p1, p2, u1, u2

\* Traffic and a scan meet in p1, while p2 purges; only the traffic goes to the
\* other account too, so that the cache of one is exceeded.
Home == [u \in Ops |-> p1]
Asks == [u \in Ops |-> IF u = u1 THEN {a1, a2} ELSE {a1}]
=============================================================================
