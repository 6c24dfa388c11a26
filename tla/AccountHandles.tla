--------------------------- MODULE AccountHandles ---------------------------
(***************************************************************************)
(* The account database handles of internal/accounts: each process caches  *)
(* one open SQLite handle per account up to a cap, operations lease them,  *)
(* scans borrow them, and the permanent deletion of an account has to fence *)
(* every process off before the files go.                                  *)
(*                                                                         *)
(* Three things order the processes: the durable tombstone, the guard lock *)
(* (shared by an operation on the slow path, exclusive for a deletion) and *)
(* the lifetime lock (shared by every open handle, exclusive for a         *)
(* deletion).  Everything under the mutex of a Manager is one step.        *)
(***************************************************************************)
EXTENDS Naturals, FiniteSets

CONSTANTS
    Accounts,
    Doomed,        \* the accounts that may be deleted
    Procs,         \* processes over one data directory, a Manager each
    Purgers,       \* those that run the lifecycle purge
    Ops,           \* operations (goroutines) that need an account
    ProcOf,        \* the process of each
    Wants,         \* the accounts each asks for
    Scans,         \* the operations that walk over accounts (AcquireForScan)
    MaxOpen,       \* Manager.MaxOpen
    MaxHandles,    \* bound: handles at any one time
    MaxUpsets      \* bound: crashes

ASSUME HandleAssumption ==
    /\ Doomed \subseteq Accounts /\ Purgers \subseteq Procs
    /\ ProcOf \in [Ops -> Procs] /\ Wants \in [Ops -> SUBSET Accounts]
    /\ Scans \subseteq Ops
    /\ MaxOpen \in Nat \ {0} /\ MaxHandles \in Nat /\ MaxUpsets \in Nat
    /\ IsFiniteSet(Accounts) /\ {} \notin Accounts    \* {} is "no account"

VARIABLES
    tombstone,     \* accounts whose deletion marker is on disk
    removed,       \* accounts whose directory a deletion removed
    handle,        \* the Account objects, by an identity of their own
    cached,        \* per process and account: Manager.open, 0 for none
    rank,          \* per process and account: recency, 0 for "a scan opened it"
    blocked,       \* per process: Manager.blocked
    op,            \* the operations
    purge,         \* per process: the deletion it runs
    upsets

vars == <<tombstone, removed, handle, cached, rank, blocked, op, purge, upsets>>

HandleIds == 1..MaxHandles
NoHandle == [account |-> {}, proc |-> {}, closing |-> TRUE, live |-> FALSE]
Handle == [account : Accounts, proc : Procs, closing : BOOLEAN, live : BOOLEAN]

\* An operation: where it is, for which account, whether it holds the guard lock
\* shared, the handle it uses, and whether it has to put that handle back.
Idle == [stage |-> "idle", account |-> {}, guard |-> FALSE, handle |-> 0,
         borrowed |-> FALSE]
Op == [stage : {"lock", "refused", "open", "using", "released"}, account : Accounts,
       guard : BOOLEAN, handle : HandleIds \cup {0}, borrowed : BOOLEAN]
NoPurge == [stage |-> "idle", account |-> {}]
Purge == [stage : {"marked", "guarded", "fenced", "removed"}, account : Accounts]

-----------------------------------------------------------------------------
Uses(u, h) == op[u].stage = "using" /\ op[u].handle = h
InUse(h) == \E u \in Ops : Uses(u, h)
Open(p) == {a \in Accounts : cached[p][a] # 0}
Live(a) == {h \in HandleIds : handle[h] # NoHandle /\ handle[h].account = a
                              /\ handle[h].live}

\* Who holds the two lock files of an account.
GuardShared(a) == \E u \in Ops : op[u].guard /\ op[u].account = a
GuardExclusive(a) ==
    \E p \in Procs : purge[p].stage \in {"guarded", "fenced", "removed"}
                     /\ purge[p].account = a
LifetimeExclusive(a) ==
    \E p \in Procs : purge[p].stage \in {"fenced", "removed"} /\ purge[p].account = a

\* The durable check.  Mutant: only what this process remembers counts.
TombstonedInMemory(p, a) == a \in blocked[p]
Tombstoned(p, a) == a \in tombstone

\* markClosing refuses a handle that is in use.  Mutant: it does not look.
TakesAnyway(p, a) == cached[p][a] # 0
Takes(p, a) == cached[p][a] # 0 /\ ~InUse(cached[p][a])

\* Recency.  Ranks are kept dense, as only their order is ever looked at.
RankWithout(r, S) ==
    [b \in Accounts |-> IF b \in S THEN 0
                        ELSE Cardinality({c \in Accounts \ S : 0 < r[c] /\ r[c] <= r[b]})]
Promoted(r, a) ==
    [RankWithout(r, {a}) EXCEPT ![a] = 1 + Cardinality({c \in Accounts \ {a} : r[c] > 0})]

\* chooseLocked: the accounts to close until the cap is met, the least recently
\* used first and none that is in use; c and r are the cache and the ranks, keep
\* an account that was just opened or that another step has already taken.
Victims(p, c, r, keep) ==
    LET free == {a \in Accounts \ keep : c[a] # 0 /\ Takes(p, a)}
        open == Cardinality({a \in Accounts : c[a] # 0})
        excess == IF open > MaxOpen THEN open - MaxOpen ELSE 0
        many == IF excess < Cardinality(free) THEN excess ELSE Cardinality(free)
    IN  {V \in SUBSET free : /\ Cardinality(V) = many
                             /\ \A v \in V : \A a \in free \ V : r[v] <= r[a]}

\* The cache without S.
Without(c, S) == [a \in Accounts |-> IF a \in S THEN 0 ELSE c[a]]
Closing(p, S) == {cached[p][a] : a \in S \cap Open(p)}
MarkClosing(hs, H) == [h \in HandleIds |-> IF h \in H THEN [hs[h] EXCEPT !.closing = TRUE]
                                           ELSE hs[h]]

\* Accounts S leave the cache of p; their handles are closed later.
Forget(p, S) ==
    /\ cached' = [cached EXCEPT ![p] = Without(@, S)]
    /\ rank' = [rank EXCEPT ![p] = RankWithout(@, S)]
    /\ handle' = MarkClosing(handle, Closing(p, S))

-----------------------------------------------------------------------------
Ends(u) == op' = [op EXCEPT ![u] = Idle]
diskVars == <<tombstone, removed>>

\* acquireCached: a handle of this process, without touching the file system;
\* else BeginWrite.
Acquire(u, a) ==
    LET p == ProcOf[u]
        hit == a \notin blocked[p] /\ cached[p][a] # 0
    IN  /\ op[u].stage = "idle"
        /\ op' = [op EXCEPT ![u] =
              IF hit THEN [stage |-> "using", account |-> a, guard |-> FALSE,
                           handle |-> cached[p][a],
                           borrowed |-> u \in Scans /\ rank[p][a] = 0]
              ELSE [Idle EXCEPT !.stage = "lock", !.account = a]]
        /\ rank' = IF hit /\ u \notin Scans THEN [rank EXCEPT ![p] = Promoted(@, a)] ELSE rank
        /\ UNCHANGED <<diskVars, handle, cached, blocked, purge, upsets>>

\* BeginWrite: the guard lock, shared, and the tombstone looked at under it.
BeginWrite(u) ==
    LET a == op[u].account
    IN  /\ op[u].stage = "lock" /\ ~GuardExclusive(a)
        /\ op' = IF Tombstoned(ProcOf[u], a) THEN [op EXCEPT ![u].stage = "refused"]
                 ELSE [op EXCEPT ![u].stage = "open", ![u].guard = TRUE]
        /\ UNCHANGED <<diskVars, handle, cached, rank, blocked, purge, upsets>>

\* A handle this process still holds on the account is closed, used or not.
Refuse(u) ==
    /\ op[u].stage = "refused"
    /\ Forget(ProcOf[u], {op[u].account})
    /\ blocked' = [blocked EXCEPT ![ProcOf[u]] = @ \cup {op[u].account}]
    /\ Ends(u)
    /\ UNCHANGED <<diskVars, purge, upsets>>

\* openGuarded, all of it under the mutex: refuse, hand out the cached handle, or
\* open the database and make room for it.
OpenRefused(u) ==
    LET p == ProcOf[u]   a == op[u].account
    IN  /\ op[u].stage = "open" /\ Ends(u)
        /\ IF a \in blocked[p] THEN UNCHANGED <<handle, cached, rank, blocked>>
           ELSE /\ Tombstoned(p, a) /\ Forget(p, {a})
                /\ blocked' = [blocked EXCEPT ![p] = @ \cup {a}]
        /\ UNCHANGED <<diskVars, purge, upsets>>

MayOpen(u) == /\ op[u].stage = "open"
              /\ op[u].account \notin blocked[ProcOf[u]]
              /\ ~Tombstoned(ProcOf[u], op[u].account)

OpenCached(u) ==
    LET p == ProcOf[u]   a == op[u].account
    IN  /\ MayOpen(u) /\ cached[p][a] # 0
        /\ op' = [op EXCEPT ![u].stage = "using", ![u].handle = cached[p][a],
                            ![u].borrowed = u \in Scans /\ rank[p][a] = 0]
        /\ rank' = IF u \in Scans THEN rank ELSE [rank EXCEPT ![p] = Promoted(@, a)]
        /\ UNCHANGED <<diskVars, handle, cached, blocked, purge, upsets>>

FreeIds == {h \in HandleIds : handle[h] = NoHandle}
OpenNew(u) ==
    LET p == ProcOf[u]   a == op[u].account   scan == u \in Scans
        h == CHOOSE i \in FreeIds : \A j \in FreeIds : i <= j
        c == [cached[p] EXCEPT ![a] = h]
        r == IF scan THEN rank[p] ELSE Promoted(rank[p], a)
    IN  /\ MayOpen(u) /\ cached[p][a] = 0 /\ FreeIds # {}
        /\ ~LifetimeExclusive(a)
        /\ \E V \in IF scan THEN {{}} ELSE Victims(p, c, r, {a}) :
              /\ cached' = [cached EXCEPT ![p] = Without(c, V)]
              /\ rank' = [rank EXCEPT ![p] = RankWithout(r, V)]
              /\ handle' = [MarkClosing(handle, Closing(p, V)) EXCEPT
                    ![h] = [account |-> a, proc |-> p, closing |-> FALSE, live |-> TRUE]]
        /\ op' = [op EXCEPT ![u].stage = "using", ![u].handle = h, ![u].borrowed = scan]
        /\ UNCHANGED <<diskVars, blocked, purge, upsets>>

\* The file cannot be opened, or its schema is not this build's.
OpenFails(u) ==
    /\ MayOpen(u) /\ cached[ProcOf[u]][op[u].account] = 0
    /\ Ends(u)
    /\ UNCHANGED <<diskVars, handle, cached, rank, blocked, purge, upsets>>

\* Release: the use ends; then, under the mutex again, a scan puts its handle
\* back and anybody else makes the cache meet its cap; then the guard lock goes.
EndUse(u) ==
    LET h == op[u].handle
    IN  /\ op[u].stage = "using"
        /\ op' = [op EXCEPT ![u].stage = "released", ![u].handle = 0]
        /\ handle' = IF ~handle[h].live /\ \A v \in Ops \ {u} : ~Uses(v, h)
                     THEN [handle EXCEPT ![h] = NoHandle] ELSE handle
        /\ UNCHANGED <<diskVars, cached, rank, blocked, purge, upsets>>

PutBack(u) ==
    LET p == ProcOf[u]   a == op[u].account
    IN  /\ op[u].stage = "released" /\ op[u].borrowed
        /\ Forget(p, IF rank[p][a] = 0 /\ Takes(p, a) THEN {a} ELSE {})
        /\ Ends(u)
        /\ UNCHANGED <<diskVars, blocked, purge, upsets>>

Evict(u) ==
    LET p == ProcOf[u]
    IN  /\ op[u].stage = "released" /\ ~op[u].borrowed
        /\ \E V \in Victims(p, cached[p], rank[p], {}) : Forget(p, V)
        /\ Ends(u)
        /\ UNCHANGED <<diskVars, blocked, purge, upsets>>

-----------------------------------------------------------------------------
\* A handle that left the cache is closed, and its lifetime lock released; the
\* object lives on while an operation still refers to it.
CloseResources(h) ==
    /\ handle[h] # NoHandle /\ handle[h].closing /\ handle[h].live
    /\ handle' = [handle EXCEPT ![h] = IF InUse(h) THEN [@ EXCEPT !.live = FALSE]
                                       ELSE NoHandle]
    /\ UNCHANGED <<diskVars, cached, rank, blocked, op, purge, upsets>>

\* closeTombstoned, one pass of the watcher: tombstoned accounts are blocked, and
\* those of their handles nobody uses are taken.
\* Mutant: the watcher blocks, and leaves the closing to others.
TakesNone(p, seen) == {}
WatcherTakes(p, seen) == {a \in seen : Takes(p, a)}
Watch(p) ==
    LET seen == tombstone \cap Open(p)
    IN  /\ seen \ blocked[p] # {} \/ WatcherTakes(p, seen) # {}
        /\ blocked' = [blocked EXCEPT ![p] = @ \cup seen]
        /\ Forget(p, WatcherTakes(p, seen))
        /\ UNCHANGED <<diskVars, op, purge, upsets>>

\* CloseIdle: what was used least recently is past the timeout, a handle nobody
\* promoted always is; and the cap is met.
CloseIdle(p) ==
    \E n \in 0..Cardinality(Accounts) :
        LET old == {a \in Open(p) : rank[p][a] <= n /\ Takes(p, a)}
        IN  \E V \in Victims(p, Without(cached[p], old), rank[p], old) :
              /\ old \cup V # {}
              /\ Forget(p, old \cup V)
              /\ UNCHANGED <<diskVars, blocked, op, purge, upsets>>

-----------------------------------------------------------------------------
\* BeginDeletion: the tombstone is written and synced before any lock is asked
\* for; a purge that failed or died is taken up again.
MarkDeleted(p, a) ==
    /\ purge[p] = NoPurge /\ a \notin removed
    /\ tombstone' = tombstone \cup {a}
    /\ purge' = [purge EXCEPT ![p] = [stage |-> "marked", account |-> a]]
    /\ UNCHANGED <<removed, handle, cached, rank, blocked, op, upsets>>

\* The guard lock, exclusive: no operation is on the slow path any more.
NobodyInside(a) == ~GuardShared(a) /\ ~GuardExclusive(a)
Guard(p) ==
    /\ purge[p].stage = "marked" /\ NobodyInside(purge[p].account)
    /\ purge' = [purge EXCEPT ![p].stage = "guarded"]
    /\ UNCHANGED <<diskVars, handle, cached, rank, blocked, op, upsets>>

\* The lifetime lock, exclusive: no process has the database open any more.
Fence(p) ==
    LET a == purge[p].account
    IN  /\ purge[p].stage = "guarded" /\ Live(a) = {}
        /\ purge' = [purge EXCEPT ![p].stage = "fenced"]
        /\ blocked' = [blocked EXCEPT ![p] = @ \cup {a}]
        /\ Forget(p, {a})
        /\ UNCHANGED <<diskVars, op, upsets>>

\* The purge removes the directory, then lets go of both locks; or it fails
\* before and lets go of them.
RemoveFiles(p) ==
    /\ purge[p].stage = "fenced"
    /\ removed' = removed \cup {purge[p].account}
    /\ purge' = [purge EXCEPT ![p].stage = "removed"]
    /\ UNCHANGED <<tombstone, handle, cached, rank, blocked, op, upsets>>
ReleaseFence(p) ==
    /\ \/ purge[p].stage = "removed"
       \/ purge[p].stage = "fenced" /\ upsets < MaxUpsets
    /\ upsets' = IF purge[p].stage = "removed" THEN upsets ELSE upsets + 1
    /\ purge' = [purge EXCEPT ![p] = NoPurge]
    /\ UNCHANGED <<diskVars, handle, cached, rank, blocked, op>>

\* A process ends, in CloseAll or by dying, and another takes its place: the
\* kernel releases its locks, the tombstone and the files stay.
Crash(p) ==
    /\ upsets < MaxUpsets /\ upsets' = upsets + 1
    /\ handle' = [h \in HandleIds |-> IF handle[h] # NoHandle /\ handle[h].proc = p
                                      THEN NoHandle ELSE handle[h]]
    /\ cached' = [cached EXCEPT ![p] = [a \in Accounts |-> 0]]
    /\ rank' = [rank EXCEPT ![p] = [a \in Accounts |-> 0]]
    /\ blocked' = [blocked EXCEPT ![p] = {}]
    /\ op' = [u \in Ops |-> IF ProcOf[u] = p THEN Idle ELSE op[u]]
    /\ purge' = [purge EXCEPT ![p] = NoPurge]
    /\ UNCHANGED diskVars

-----------------------------------------------------------------------------
Init ==
    /\ tombstone = {} /\ removed = {}
    /\ handle = [h \in HandleIds |-> NoHandle]
    /\ cached = [p \in Procs |-> [a \in Accounts |-> 0]]
    /\ rank = [p \in Procs |-> [a \in Accounts |-> 0]]
    /\ blocked = [p \in Procs |-> {}]
    /\ op = [u \in Ops |-> Idle]
    /\ purge = [p \in Procs |-> NoPurge]
    /\ upsets = 0

Proceed(u) == \/ BeginWrite(u) \/ Refuse(u)
              \/ OpenRefused(u) \/ OpenCached(u) \/ OpenNew(u) \/ OpenFails(u)
              \/ EndUse(u) \/ PutBack(u) \/ Evict(u)

Next ==
    \/ \E u \in Ops : \/ \E a \in Wants[u] : Acquire(u, a)
                      \/ Proceed(u)
    \/ \E h \in HandleIds : CloseResources(h)
    \/ \E p \in Procs : \/ Watch(p) \/ CloseIdle(p) \/ Crash(p)
                        \/ Guard(p) \/ Fence(p) \/ RemoveFiles(p) \/ ReleaseFence(p)
    \/ \E p \in Purgers, a \in Doomed : MarkDeleted(p, a)

Spec == Init /\ [][Next]_vars

\* Operations end, closers close, watchers tick, and an exclusive flock is
\* granted once its rivals are gone: after the tombstone no new one stays.
Fairness ==
    /\ \A u \in Ops : WF_vars(Proceed(u))
    /\ \A h \in HandleIds : WF_vars(CloseResources(h))
    /\ \A p \in Procs : /\ WF_vars(Watch(p)) /\ WF_vars(Guard(p)) /\ WF_vars(Fence(p))
                        /\ WF_vars(RemoveFiles(p)) /\ WF_vars(ReleaseFence(p))
FairSpec == Spec /\ Fairness

-----------------------------------------------------------------------------
\* Every variable holds a value of its kind; a cached handle is a live one of
\* that process and account, which nobody is closing.
TypeOK ==
    /\ tombstone \subseteq Doomed /\ removed \subseteq tombstone
    /\ handle \in [HandleIds -> Handle \cup {NoHandle}]
    /\ cached \in [Procs -> [Accounts -> HandleIds \cup {0}]]
    /\ \A p \in Procs : \A a \in Open(p) :
          handle[cached[p][a]] = [account |-> a, proc |-> p, closing |-> FALSE, live |-> TRUE]
    /\ rank \in [Procs -> [Accounts -> 0..Cardinality(Accounts)]]
    /\ blocked \in [Procs -> SUBSET Accounts]
    /\ op \in [Ops -> Op \cup {Idle}]
    /\ purge \in [Procs -> Purge \cup {NoPurge}]
    /\ upsets \in 0..MaxUpsets

\* "A handle somebody is holding is never closed" (chooseLocked): whatever is
\* evicted, swept or put back, the handle of an operation stays open, unless its
\* account is being deleted.
LeaseKeepsHandle ==
    \A u \in Ops : op[u].stage = "using" =>
        handle[op[u].handle].live \/ op[u].account \in tombstone

\* "Preventing a concurrent or later Open from recreating a fresh database for
\* the deleted id" (Delete): once the directory is gone, and while it goes, no
\* process has the database open, also after a restart, and no operation stands
\* before the lifetime lock, for which openGuarded would wait with the mutex of
\* the whole process, its watcher included.
NeverRecreated ==
    \A a \in Accounts : a \in removed \/ LifetimeExclusive(a) =>
        /\ Live(a) = {}
        /\ \A u \in Ops : op[u].account = a => op[u].stage # "open"

\* A deletion whose process lives gets past every other process's handles: each
\* watcher lets go of what nobody uses any more (BeginDeletion).
PurgeFinishes ==
    \A p \in Procs : purge[p].stage = "marked" ~> purge[p].stage \in {"removed", "idle"}

\* "A handle somebody is using is left alone and retried on the next tick, which
\* is what stops a deletion cutting an acknowledged write in half"
\* (closeTombstoned): nobody still works with an account whose files go.
NobodyCut ==
    \A u \in Ops : op[u].stage = "using" => ~LifetimeExclusive(op[u].account)
=============================================================================
