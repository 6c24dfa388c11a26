---------------------------- MODULE EventCustody ----------------------------
(***************************************************************************)
(* What the ingest tier promises about every event it answered 202, with   *)
(* no queues, workers, maps or rows: it keeps custody of the event until   *)
(* some account has folded it or it is given up on purpose, and no account *)
(* folds an event twice unless it forgot the first time.  "Outbox owns     *)
(* every event after the public 202 and before the app shard's commit      *)
(* acknowledgment" (outbox.go).                                            *)
(***************************************************************************)
EXTENDS Integers

CONSTANTS Events, Accounts

VARIABLES
    accepted,   \* events answered 202
    custody,    \* events the ingest tier answers for
    folds,      \* how often each account folded each event, twice or more is 2
    forgotten,  \* <<account, event>>: folded, and the receipt has expired
    abandoned   \* events given up: unclaimed domain, deleted account

vars == <<accepted, custody, folds, forgotten, abandoned>>

Settled(e) == e \in abandoned \/ \E a \in Accounts : folds[a][e] > 0

Init == /\ accepted = {}
        /\ custody = {}
        /\ folds = [a \in Accounts |-> [e \in Events |-> 0]]
        /\ forgotten = {}
        /\ abandoned = {}

\* A batch is made durable.  An event sent again may be taken in again.
Accept(B) == /\ B # {}
             /\ accepted' = accepted \cup B
             /\ custody' = custody \cup B
             /\ UNCHANGED <<folds, forgotten, abandoned>>

\* A shard handles a batch: accepted events the account never folded, or forgot,
\* are folded, events of deleted accounts are abandoned.  Custody does not
\* change yet.
Handle(F, X) ==
    /\ F \subseteq Accounts \X accepted /\ X \subseteq accepted
    /\ \A p \in F : folds[p[1]][p[2]] = 0 \/ p \in forgotten
    /\ folds' = [a \in Accounts |-> [e \in Events |->
                    IF <<a, e>> \in F /\ folds[a][e] < 2
                    THEN folds[a][e] + 1 ELSE folds[a][e]]]
    /\ forgotten' = forgotten \ F
    /\ abandoned' = abandoned \cup X
    /\ UNCHANGED <<accepted, custody>>

\* A receipt expires.
Forget(p) == /\ folds[p[1]][p[2]] > 0
             /\ forgotten' = forgotten \cup {p}
             /\ UNCHANGED <<accepted, custody, folds, abandoned>>

\* Custody ends, and only for a settled event.
Release(e) == /\ e \in custody /\ Settled(e)
              /\ custody' = custody \ {e}
              /\ UNCHANGED <<accepted, folds, forgotten, abandoned>>

\* Custody ends because no shard claims the event's domain.
GiveUp(e) == /\ e \in custody
             /\ custody' = custody \ {e}
             /\ abandoned' = abandoned \cup {e}
             /\ UNCHANGED <<accepted, folds, forgotten>>

Next == \/ \E B \in SUBSET Events : Accept(B)
        \/ \E F \in SUBSET (Accounts \X Events), X \in SUBSET Events : Handle(F, X)
        \/ \E p \in Accounts \X Events : Forget(p)
        \/ \E e \in Events : Release(e) \/ GiveUp(e)

Spec == Init /\ [][Next]_vars
=============================================================================
