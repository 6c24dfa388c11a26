----------------------------- MODULE MCRollup -----------------------------
(* Finite instances of Rollup for TLC. *)
EXTENDS Rollup

CONSTANT command

\* Two days of history.  The late event <<1, 1>> is of the first day's visitor, and
\* zone 1 sees it on the second.
Stored == {<<1, 0>>, <<2, 0>>}
Stream == Stored \cup {<<1, 1>>, <<2, 1>>}
=============================================================================
