--------------------------- MODULE MCSessionFold ---------------------------
(* The streams of an instance: the events numbered in time order, the first at *)
(* time 0, and at most MaxCustom of them custom events.                         *)
EXTENDS SessionFold

CONSTANT MaxCustom

BoundedStreams ==
    {s \in [Events -> [at : 0..MaxAt, kind : Kinds]] :
        /\ s[1].at = 0
        /\ \A e, f \in Events : e < f => s[e].at <= s[f].at
        /\ Cardinality({e \in Events : s[e].kind = "custom"}) <= MaxCustom}
=============================================================================
