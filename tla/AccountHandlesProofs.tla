------------------------ MODULE AccountHandlesProofs ------------------------
(***************************************************************************)
(* Theorems about AccountHandles for every value of its constants: any      *)
(* number of processes, operations, accounts and open handles.              *)
(*                                                                         *)
(* The handle of an operation stays open because a step that closes handles *)
(* takes them out of the cache first, and takes only those nobody uses or   *)
(* those of a tombstoned account; and because the cache hands out none that *)
(* is being closed (CacheInv, OpInv).  A deleted account is not opened      *)
(* again because an operation opens a database only under the shared guard  *)
(* lock, which it gets after the tombstone no more (PurgeInv).              *)
(***************************************************************************)
EXTENDS AccountHandles, FiniteSetTheorems, WellFoundedInduction, TLAPS

-----------------------------------------------------------------------------
(* Numbers. *)

\* A nonempty set of numbers has a least one.
LEMMA Least ==
    ASSUME NEW S \in SUBSET Nat, S # {}
    PROVE  \E i \in S : \A j \in S : i <= j
<1>1. PICK i \in S : \A j \in S : <<j, i>> \notin OpToRel(<, Nat)
  BY NatLessThanWellFounded, WFMin
<1>2. \A j \in S : ~(j < i)
  BY <1>1 DEF OpToRel
<1> QED BY <1>2

LEMMA RankTypes ==
    ASSUME NEW r \in [Accounts -> 0..Cardinality(Accounts)], NEW S, NEW a \in Accounts
    PROVE  /\ RankWithout(r, S) \in [Accounts -> 0..Cardinality(Accounts)]
           /\ Promoted(r, a) \in [Accounts -> 0..Cardinality(Accounts)]
<1>1. IsFiniteSet(Accounts) /\ Cardinality(Accounts) \in Nat
  BY HandleAssumption, FS_CardinalityType
<1>2. ASSUME NEW T, T \subseteq Accounts
      PROVE  Cardinality(T) \in 0..Cardinality(Accounts)
  BY <1>1, <1>2, FS_Subset, FS_CardinalityType
<1>3. \A T : RankWithout(r, T) \in [Accounts -> 0..Cardinality(Accounts)]
  BY <1>1, <1>2 DEF RankWithout
<1>4. 1 + Cardinality({c \in Accounts \ {a} : r[c] > 0}) \in 0..Cardinality(Accounts)
  <2>1. IsFiniteSet(Accounts \ {a}) /\ Cardinality(Accounts \ {a}) = Cardinality(Accounts) - 1
    BY <1>1, FS_RemoveElement
  <2>2. {c \in Accounts \ {a} : r[c] > 0} \in SUBSET (Accounts \ {a})
    OBVIOUS
  <2>3. Cardinality({c \in Accounts \ {a} : r[c] > 0}) <= Cardinality(Accounts) - 1
    BY <2>1, <2>2, FS_Subset
  <2>4. Cardinality({c \in Accounts \ {a} : r[c] > 0}) \in 0..Cardinality(Accounts)
    BY <1>2, <2>2
  <2> QED BY <1>1, <2>3, <2>4
<1> QED BY <1>3, <1>4 DEF Promoted

-----------------------------------------------------------------------------
(* The inductive invariant. *)

\* What the cache hands out is open, nobody is closing it, and it is of that
\* process and account.
CacheOK == \A p \in Procs : \A a \in Open(p) :
    handle[cached[p][a]] = [account |-> a, proc |-> p, closing |-> FALSE, live |-> TRUE]

\* An operation refused is refused for good; one that may open the database has
\* the guard lock; and the handle of a use is being closed only for a deletion.
OpOK(u) ==
    /\ op[u].stage = "refused" => op[u].account \in tombstone
    /\ op[u].stage = "open" => op[u].guard
    /\ op[u].stage = "using" =>
          /\ op[u].handle \in HandleIds /\ handle[op[u].handle] # NoHandle
          /\ handle[op[u].handle].account = op[u].account
          /\ handle[op[u].handle].proc = ProcOf[u]
          /\ handle[op[u].handle].closing => op[u].account \in tombstone
          /\ handle[op[u].handle].live \/ handle[op[u].handle].closing
OpInv == \A u \in Ops : OpOK(u)

\* The tombstone comes before the locks; from the guard lock on no operation is
\* before the lifetime lock, and from there on the database is not open.
PurgeInv ==
    /\ \A p \in Procs : purge[p] # NoPurge => purge[p].account \in tombstone
    /\ \A a \in Accounts : GuardExclusive(a) \/ a \in removed =>
          \A u \in Ops : op[u].account = a => op[u].stage # "open"
    /\ \A a \in Accounts : LifetimeExclusive(a) \/ a \in removed => Live(a) = {}

HandleInv == TypeOK /\ OpInv /\ PurgeInv

-----------------------------------------------------------------------------
(* What the helpers do. *)

LEMMA OpTypes ==
    ASSUME NEW o \in Op \cup {Idle}, o.stage # "idle"
    PROVE  /\ o \in Op /\ o # Idle /\ o.account \in Accounts
           /\ \A s \in {"lock", "refused", "open", "using", "released"} :
                 /\ [o EXCEPT !.stage = s] \in Op
                 /\ [o EXCEPT !.stage = s, !.guard = TRUE] \in Op
                 /\ \A h \in HandleIds \cup {0}, b \in BOOLEAN :
                       /\ [o EXCEPT !.stage = s, !.handle = h] \in Op
                       /\ [o EXCEPT !.stage = s, !.handle = h, !.borrowed = b] \in Op
<1>1. o \in Op /\ o # Idle
  BY DEF Idle
<1>2. \A s \in {"lock", "refused", "open", "using", "released"} : [o EXCEPT !.stage = s] \in Op
  BY <1>1 DEF Op
<1>3. \A s \in {"lock", "refused", "open", "using", "released"} :
          [o EXCEPT !.stage = s, !.guard = TRUE] \in Op
  BY <1>1 DEF Op
<1>4. ASSUME NEW s \in {"lock", "refused", "open", "using", "released"},
             NEW h \in HandleIds \cup {0}, NEW b \in BOOLEAN
      PROVE  /\ [o EXCEPT !.stage = s, !.handle = h] \in Op
             /\ [o EXCEPT !.stage = s, !.handle = h, !.borrowed = b] \in Op
  <2>1. [o EXCEPT !.stage = s, !.handle = h] \in Op
    BY <1>1, <1>4 DEF Op
  <2>2. [o EXCEPT !.stage = s, !.handle = h, !.borrowed = b] \in Op
    BY <1>1, <1>4 DEF Op
  <2> QED BY <2>1, <2>2
<1>5. o.account \in Accounts
  BY <1>1 DEF Op
<1> QED BY <1>1, <1>2, <1>3, <1>4, <1>5

LEMMA PurgeTypes ==
    ASSUME NEW q \in Purge \cup {NoPurge}, q.stage # "idle"
    PROVE  /\ q \in Purge /\ q # NoPurge /\ q.account \in Accounts
           /\ \A s \in {"marked", "guarded", "fenced", "removed"} :
                 [q EXCEPT !.stage = s] \in Purge
BY DEF Purge, NoPurge

\* A cached handle, as CacheOK has it.
LEMMA Cached ==
    ASSUME TypeOK, NEW p \in Procs, NEW a \in Accounts, cached[p][a] # 0
    PROVE  /\ cached[p][a] \in HandleIds /\ a \in Open(p)
           /\ handle[cached[p][a]] = [account |-> a, proc |-> p, closing |-> FALSE, live |-> TRUE]
           /\ handle[cached[p][a]] # NoHandle
<1>1. cached[p][a] \in HandleIds /\ a \in Open(p)
  BY DEF TypeOK, Open
<1>2. handle[cached[p][a]] = [account |-> a, proc |-> p, closing |-> FALSE, live |-> TRUE]
  BY <1>1 DEF TypeOK
<1> QED BY <1>1, <1>2 DEF NoHandle

LEMMA MarkedIs ==
    ASSUME NEW r \in Handle
    PROVE  [r EXCEPT !.closing = TRUE] =
             [account |-> r.account, proc |-> r.proc, closing |-> TRUE, live |-> r.live]
<1> DEFINE m == [r EXCEPT !.closing = TRUE]
           n == [account |-> r.account, proc |-> r.proc, closing |-> TRUE, live |-> r.live]
<1>1. m \in Handle /\ n \in Handle
  BY DEF Handle
<1>2. /\ m.account = r.account /\ m.proc = r.proc /\ m.closing = TRUE /\ m.live = r.live
      /\ n.account = r.account /\ n.proc = r.proc /\ n.closing = TRUE /\ n.live = r.live
  BY DEF Handle
<1> HIDE DEF m, n
<1>3. m = n
  BY <1>1, <1>2 DEF Handle
<1> QED BY <1>3 DEF m, n

\* Handles that leave the cache are marked, and nothing else about any handle.
Marks(p, S) == \A h \in HandleIds :
    \/ handle'[h] = handle[h]
    \/ \E a \in S \cap Open(p) :
          /\ h = cached[p][a]
          /\ handle'[h] = [account |-> a, proc |-> p, closing |-> TRUE, live |-> TRUE]

LEMMA ForgetTypes ==
    ASSUME TypeOK, NEW p \in Procs, NEW S \in SUBSET Accounts, Forget(p, S)
    PROVE  /\ handle' \in [HandleIds -> Handle \cup {NoHandle}]
           /\ cached' \in [Procs -> [Accounts -> HandleIds \cup {0}]]
           /\ rank' \in [Procs -> [Accounts -> 0..Cardinality(Accounts)]]
           /\ CacheOK' /\ Marks(p, S)
<1>1. /\ handle \in [HandleIds -> Handle \cup {NoHandle}]
      /\ cached \in [Procs -> [Accounts -> HandleIds \cup {0}]]
      /\ rank \in [Procs -> [Accounts -> 0..Cardinality(Accounts)]]
      /\ CacheOK
  BY DEF TypeOK, CacheOK
<1>2. /\ cached' = [cached EXCEPT ![p] = Without(cached[p], S)]
      /\ rank' = [rank EXCEPT ![p] = RankWithout(rank[p], S)]
      /\ handle' = MarkClosing(handle, Closing(p, S))
  BY DEF Forget
<1>3. rank' \in [Procs -> [Accounts -> 0..Cardinality(Accounts)]]
  <2>1. rank[p] \in [Accounts -> 0..Cardinality(Accounts)]
    BY <1>1
  <2>2. RankWithout(rank[p], S) \in [Accounts -> 0..Cardinality(Accounts)]
    <3>1. CASE Accounts = {}
      <4>1. RankWithout(rank[p], S) = [b \in {} |-> 0]
        BY <3>1 DEF RankWithout
      <4> QED BY <3>1, <4>1
    <3>2. CASE Accounts # {}
      BY <2>1, <3>2, RankTypes
    <3> QED BY <3>1, <3>2
  <2> QED BY <1>1, <1>2, <2>2
<1>4. Without(cached[p], S) \in [Accounts -> HandleIds \cup {0}]
  BY <1>1 DEF Without
<1>5. cached' \in [Procs -> [Accounts -> HandleIds \cup {0}]]
  BY <1>1, <1>2, <1>4
<1>6. Marks(p, S)
  <2> SUFFICES ASSUME NEW h \in HandleIds, handle'[h] # handle[h]
               PROVE  \E a \in S \cap Open(p) :
                        /\ h = cached[p][a]
                        /\ handle'[h] = [account |-> a, proc |-> p, closing |-> TRUE, live |-> TRUE]
    BY DEF Marks
  <2>1. h \in Closing(p, S) /\ handle'[h] = [handle[h] EXCEPT !.closing = TRUE]
    BY <1>2 DEF MarkClosing
  <2>2. PICK a \in S \cap Open(p) : h = cached[p][a]
    BY <2>1 DEF Closing
  <2>3. handle[h] = [account |-> a, proc |-> p, closing |-> FALSE, live |-> TRUE]
    BY <1>1, <2>2 DEF CacheOK
  <2>4. handle'[h] = [account |-> a, proc |-> p, closing |-> TRUE, live |-> TRUE]
    <3>1. handle[h] \in Handle
      BY <2>2, <2>3 DEF Handle, Open
    <3> QED BY <2>1, <2>3, <3>1, MarkedIs
  <2> QED BY <2>2, <2>4
<1>7. handle' \in [HandleIds -> Handle \cup {NoHandle}]
  <2>1. ASSUME NEW h \in HandleIds PROVE handle'[h] \in Handle \cup {NoHandle}
    <3>1. CASE handle'[h] = handle[h]
      BY <1>1, <3>1
    <3>2. ASSUME NEW a \in S \cap Open(p),
                 handle'[h] = [account |-> a, proc |-> p, closing |-> TRUE, live |-> TRUE]
          PROVE  handle'[h] \in Handle
      BY <3>2 DEF Handle, Open
    <3> QED BY <1>6, <3>1, <3>2 DEF Marks
  <2>2. DOMAIN handle' = HandleIds /\ handle' = [h \in HandleIds |-> handle'[h]]
    BY <1>2 DEF MarkClosing
  <2> QED BY <2>1, <2>2
<1>8. CacheOK'
  <2> SUFFICES ASSUME NEW q \in Procs, NEW a \in Accounts, cached'[q][a] # 0
               PROVE  handle'[cached'[q][a]] =
                        [account |-> a, proc |-> q, closing |-> FALSE, live |-> TRUE]
    BY DEF CacheOK, Open
  <2>1. cached'[q][a] = cached[q][a] /\ ~(q = p /\ a \in S)
    BY <1>1, <1>2 DEF Without
  <2>2. /\ cached[q][a] \in HandleIds /\ a \in Open(q)
        /\ handle[cached[q][a]] = [account |-> a, proc |-> q, closing |-> FALSE, live |-> TRUE]
    BY <2>1, Cached
  <2>3. handle'[cached[q][a]] = handle[cached[q][a]]
    <3>1. ASSUME NEW b \in S \cap Open(p), cached[q][a] = cached[p][b] PROVE FALSE
      <4>1. handle[cached[p][b]] = [account |-> b, proc |-> p, closing |-> FALSE, live |-> TRUE]
        BY <1>1, <3>1 DEF CacheOK
      <4>2. b = a /\ p = q
        BY <2>2, <3>1, <4>1
      <4> QED BY <2>1, <3>1, <4>2
    <3> QED BY <1>6, <2>2, <3>1 DEF Marks
  <2> QED BY <2>1, <2>2, <2>3
<1> QED BY <1>3, <1>5, <1>6, <1>7, <1>8

\* An operation whose account loses its handle is not using it, or the account
\* is being deleted.
LEMMA ForgetOps ==
    ASSUME TypeOK, OpInv, NEW p \in Procs, NEW S \in SUBSET Accounts, Marks(p, S),
           \A a \in S : cached[p][a] # 0 => ~InUse(cached[p][a]) \/ a \in tombstone,
           tombstone' = tombstone,
           \A u \in Ops : op'[u] = op[u] \/ op'[u].stage \in {"idle", "lock", "released"}
    PROVE  OpInv'
<1> SUFFICES ASSUME NEW u \in Ops, op'[u] = op[u] PROVE OpOK(u)'
  BY DEF OpInv, OpOK
<1>1. OpOK(u)
  BY DEF OpInv
<1>2. ASSUME op[u].stage = "using", handle'[op[u].handle] # handle[op[u].handle]
      PROVE  /\ op[u].account \in tombstone
             /\ handle'[op[u].handle].account = op[u].account
             /\ handle'[op[u].handle].proc = ProcOf[u]
             /\ handle'[op[u].handle].closing
             /\ handle'[op[u].handle] # NoHandle
  <2>1. op[u].handle \in HandleIds
    BY <1>1, <1>2 DEF OpOK
  <2>2. PICK a \in S \cap Open(p) :
          /\ op[u].handle = cached[p][a]
          /\ handle'[op[u].handle] = [account |-> a, proc |-> p, closing |-> TRUE, live |-> TRUE]
    BY <1>2, <2>1 DEF Marks
  <2>3. InUse(cached[p][a])
    BY <1>2, <2>2 DEF InUse, Uses
  <2>4. a \in tombstone /\ a \in Accounts /\ cached[p][a] # 0
    BY <2>2, <2>3 DEF Open
  <2>5. handle[op[u].handle] = [account |-> a, proc |-> p, closing |-> FALSE, live |-> TRUE]
    BY <2>2, <2>4, Cached
  <2>6. op[u].account = a /\ ProcOf[u] = p
    BY <1>1, <1>2, <2>5 DEF OpOK
  <2> QED BY <2>2, <2>4, <2>6 DEF NoHandle
<1> QED BY <1>1, <1>2 DEF OpOK

\* No database is opened, and nobody comes before the lifetime lock.
LEMMA PurgeKeeps ==
    ASSUME PurgeInv, UNCHANGED <<removed, purge>>, tombstone \subseteq tombstone',
           \A a \in Accounts : Live(a)' \subseteq Live(a),
           \A u \in Ops : op'[u].stage = "open" => op'[u] = op[u]
    PROVE  PurgeInv'
<1>1. \A a \in Accounts : /\ GuardExclusive(a)' <=> GuardExclusive(a)
                          /\ LifetimeExclusive(a)' <=> LifetimeExclusive(a)
  BY DEF GuardExclusive, LifetimeExclusive
<1>2. \A p \in Procs : purge'[p] # NoPurge => purge'[p].account \in tombstone'
  BY DEF PurgeInv
<1>3. \A a \in Accounts : GuardExclusive(a)' \/ a \in removed' =>
          \A u \in Ops : op'[u].account = a => op'[u].stage # "open"
  BY <1>1 DEF PurgeInv
<1>4. \A a \in Accounts : LifetimeExclusive(a)' \/ a \in removed' => Live(a)' = {}
  BY <1>1 DEF PurgeInv
<1> QED BY <1>2, <1>3, <1>4 DEF PurgeInv

LEMMA MarksLive ==
    ASSUME TypeOK, NEW p \in Procs, NEW S, Marks(p, S)
    PROVE  \A a \in Accounts : Live(a)' \subseteq Live(a)
<1> SUFFICES ASSUME NEW a \in Accounts, NEW h \in Live(a)' PROVE h \in Live(a)
  OBVIOUS
<1>1. h \in HandleIds /\ handle'[h] # NoHandle /\ handle'[h].account = a /\ handle'[h].live
  BY DEF Live
<1>2. CASE handle'[h] = handle[h]
  BY <1>1, <1>2 DEF Live
<1>3. ASSUME NEW b \in S \cap Open(p), h = cached[p][b],
             handle'[h] = [account |-> b, proc |-> p, closing |-> TRUE, live |-> TRUE]
      PROVE  h \in Live(a)
  <2>1. b \in Accounts /\ cached[p][b] # 0
    BY DEF Open
  <2>2. handle[h] = [account |-> b, proc |-> p, closing |-> FALSE, live |-> TRUE] /\ handle[h] # NoHandle
    BY <1>3, <2>1, Cached
  <2> QED BY <1>1, <1>3, <2>2 DEF Live
<1> QED BY <1>1, <1>2, <1>3 DEF Marks

-----------------------------------------------------------------------------
(* Each action preserves the invariant. *)

\* The steps in which accounts leave the cache of a process, and operations end.
LEMMA ForgetStep ==
    ASSUME HandleInv, NEW p \in Procs, NEW S \in SUBSET Accounts, Forget(p, S),
           \A a \in S : cached[p][a] # 0 => ~InUse(cached[p][a]) \/ a \in tombstone,
           UNCHANGED <<tombstone, removed, purge>>,
           blocked' \in [Procs -> SUBSET Accounts], upsets' \in 0..MaxUpsets,
           op' \in [Ops -> Op \cup {Idle}],
           \A u \in Ops : op'[u] = op[u] \/ op'[u] = Idle
    PROVE  HandleInv'
<1>1. TypeOK /\ OpInv /\ PurgeInv
  BY DEF HandleInv
<1>2. /\ handle' \in [HandleIds -> Handle \cup {NoHandle}]
      /\ cached' \in [Procs -> [Accounts -> HandleIds \cup {0}]]
      /\ rank' \in [Procs -> [Accounts -> 0..Cardinality(Accounts)]]
      /\ CacheOK' /\ Marks(p, S)
  BY <1>1, ForgetTypes
<1>3. TypeOK'
  BY <1>1, <1>2 DEF TypeOK, CacheOK
<1>4. OpInv'
  BY <1>1, <1>2, ForgetOps DEF Idle
<1>5. PurgeInv'
  <2>1. \A a \in Accounts : Live(a)' \subseteq Live(a)
    BY <1>1, <1>2, MarksLive
  <2>2. \A u \in Ops : op'[u].stage = "open" => op'[u] = op[u]
    BY DEF Idle
  <2> QED BY <1>1, <2>1, <2>2, PurgeKeeps
<1> QED BY <1>3, <1>4, <1>5 DEF HandleInv

\* The steps in which one operation moves, and the handles stay as they are.
LEMMA OpStep ==
    ASSUME HandleInv, NEW u \in Ops, NEW o \in Op \cup {Idle}, op' = [op EXCEPT ![u] = o],
           UNCHANGED <<tombstone, removed, handle, cached, blocked, purge, upsets>>,
           rank' \in [Procs -> [Accounts -> 0..Cardinality(Accounts)]],
           OpOK(u)',
           o.stage = "open" => ~GuardExclusive(o.account) /\ o.account \notin removed
    PROVE  HandleInv'
<1>1. TypeOK /\ OpInv /\ PurgeInv
  BY DEF HandleInv
<1>2. op \in [Ops -> Op \cup {Idle}]
  BY <1>1 DEF TypeOK
<1>3. op' \in [Ops -> Op \cup {Idle}] /\ op'[u] = o /\ \A v \in Ops \ {u} : op'[v] = op[v]
  BY <1>2
<1>4. TypeOK'
  <2>1. CacheOK /\ UNCHANGED <<cached, handle>>
    BY <1>1 DEF TypeOK, CacheOK
  <2>2. CacheOK'
    BY <2>1 DEF CacheOK, Open
  <2> QED BY <1>1, <1>3, <2>2 DEF TypeOK, CacheOK
<1>5. OpInv'
  <2>1. ASSUME NEW v \in Ops, v # u PROVE OpOK(v)'
    BY <1>1, <1>3, <2>1 DEF OpInv, OpOK
  <2> QED BY <2>1 DEF OpInv
<1>6. PurgeInv'
  <2>1. \A a \in Accounts : /\ GuardExclusive(a)' <=> GuardExclusive(a)
                            /\ LifetimeExclusive(a)' <=> LifetimeExclusive(a)
                            /\ Live(a)' = Live(a)
    BY DEF GuardExclusive, LifetimeExclusive, Live
  <2>2. ASSUME NEW a \in Accounts, GuardExclusive(a) \/ a \in removed,
               NEW v \in Ops, op'[v].account = a, op'[v].stage = "open"
        PROVE  FALSE
    <3>1. CASE v = u
      BY <1>3, <2>2, <3>1
    <3>2. CASE v # u
      BY <1>1, <1>3, <2>2, <3>2 DEF PurgeInv
    <3> QED BY <3>1, <3>2
  <2>3. \A a \in Accounts : GuardExclusive(a)' \/ a \in removed' =>
          \A v \in Ops : op'[v].account = a => op'[v].stage # "open"
    BY <2>1, <2>2
  <2>4. \A a \in Accounts : LifetimeExclusive(a)' \/ a \in removed' => Live(a)' = {}
    BY <1>1, <2>1 DEF PurgeInv
  <2>5. \A p \in Procs : purge'[p] # NoPurge => purge'[p].account \in tombstone'
    BY <1>1 DEF PurgeInv
  <2> QED BY <2>3, <2>4, <2>5 DEF PurgeInv
<1> QED BY <1>4, <1>5, <1>6 DEF HandleInv

LEMMA AcquireStep ==
    ASSUME HandleInv, NEW u \in Ops, NEW a \in Wants[u], Acquire(u, a)
    PROVE  HandleInv'
<1> DEFINE p == ProcOf[u]
           hit == a \notin blocked[p] /\ cached[p][a] # 0
           o == IF hit THEN [stage |-> "using", account |-> a, guard |-> FALSE,
                             handle |-> cached[p][a],
                             borrowed |-> u \in Scans /\ rank[p][a] = 0]
                ELSE [Idle EXCEPT !.stage = "lock", !.account = a]
<1>1. TypeOK /\ p \in Procs /\ a \in Accounts
  BY HandleAssumption DEF HandleInv
<1>2. op' = [op EXCEPT ![u] = o]
  BY DEF Acquire
<1>3. rank' = (IF hit /\ u \notin Scans THEN [rank EXCEPT ![p] = Promoted(rank[p], a)] ELSE rank)
  BY DEF Acquire
<1>4. rank' \in [Procs -> [Accounts -> 0..Cardinality(Accounts)]]
  <2>1. rank \in [Procs -> [Accounts -> 0..Cardinality(Accounts)]]
    BY <1>1 DEF TypeOK
  <2>2. Promoted(rank[p], a) \in [Accounts -> 0..Cardinality(Accounts)]
    BY <1>1, <2>1, RankTypes
  <2> QED BY <1>3, <2>1, <2>2
<1>5. CASE hit
  <2>1. /\ cached[p][a] \in HandleIds
        /\ handle[cached[p][a]] = [account |-> a, proc |-> p, closing |-> FALSE, live |-> TRUE]
        /\ handle[cached[p][a]] # NoHandle
    BY <1>1, <1>5, Cached
  <2>2. o = [stage |-> "using", account |-> a, guard |-> FALSE, handle |-> cached[p][a],
             borrowed |-> u \in Scans /\ rank[p][a] = 0]
    BY <1>5
  <2>3. o \in Op /\ o.stage = "using" /\ o.handle = cached[p][a] /\ o.account = a
    BY <1>1, <2>1, <2>2 DEF Op
  <2> HIDE DEF o
  <2>4. op'[u] = o /\ handle' = handle
    BY <1>1, <1>2 DEF TypeOK, Acquire
  <2>5. OpOK(u)'
    BY <2>1, <2>3, <2>4 DEF OpOK
  <2> QED BY <1>2, <1>4, <2>3, <2>5, OpStep DEF Acquire, diskVars
<1>6. CASE ~hit
  <2>1. o = [Idle EXCEPT !.stage = "lock", !.account = a]
    BY <1>6
  <2>2. o \in Op /\ o.stage = "lock"
    BY <1>1, <2>1 DEF Op, Idle
  <2> HIDE DEF o
  <2>3. op'[u] = o
    BY <1>1, <1>2 DEF TypeOK
  <2>4. OpOK(u)'
    BY <2>2, <2>3 DEF OpOK
  <2> QED BY <1>2, <1>4, <2>2, <2>4, OpStep DEF Acquire, diskVars
<1> QED BY <1>5, <1>6

LEMMA BeginWriteStep ==
    ASSUME HandleInv, NEW u \in Ops, BeginWrite(u)
    PROVE  HandleInv'
<1> DEFINE o == IF op[u].account \in tombstone THEN [op[u] EXCEPT !.stage = "refused"]
                ELSE [op[u] EXCEPT !.stage = "open", !.guard = TRUE]
<1>1. TypeOK /\ op[u] \in Op \cup {Idle} /\ op[u].stage = "lock"
  BY DEF HandleInv, TypeOK, BeginWrite
<1>2. op' = [op EXCEPT ![u] = o]
  BY DEF BeginWrite, Tombstoned
<1>3. /\ op[u] \in Op
      /\ [op[u] EXCEPT !.stage = "refused"] \in Op
      /\ [op[u] EXCEPT !.stage = "open", !.guard = TRUE] \in Op
  BY <1>1, OpTypes
<1>4. /\ o \in Op /\ o.account = op[u].account
      /\ o.stage = "refused" => op[u].account \in tombstone
      /\ o.stage = "open" => o.guard /\ op[u].account \notin tombstone
      /\ o.stage \in {"refused", "open"}
  BY <1>3 DEF Op
<1> HIDE DEF o
<1>5. op'[u] = o
  BY <1>1, <1>2 DEF TypeOK
<1>6. OpOK(u)'
  <2>1. tombstone' = tombstone
    BY DEF BeginWrite, diskVars
  <2> QED BY <1>4, <1>5, <2>1 DEF OpOK
<1>7. o.stage = "open" => ~GuardExclusive(o.account) /\ o.account \notin removed
  BY <1>1, <1>4 DEF TypeOK, BeginWrite
<1>8. rank' \in [Procs -> [Accounts -> 0..Cardinality(Accounts)]]
  BY <1>1 DEF TypeOK, BeginWrite
<1> QED BY <1>2, <1>4, <1>6, <1>7, <1>8, OpStep DEF BeginWrite, diskVars

\* An operation ends, and nothing else happens.
LEMMA EndsStep ==
    ASSUME HandleInv, NEW u \in Ops, Ends(u),
           UNCHANGED <<tombstone, removed, handle, cached, rank, blocked, purge, upsets>>
    PROVE  HandleInv'
<1>1. op' = [op EXCEPT ![u] = Idle] /\ op \in [Ops -> Op \cup {Idle}]
  BY DEF Ends, HandleInv, TypeOK
<1>2. OpOK(u)'
  BY <1>1 DEF OpOK, Idle
<1>3. rank' \in [Procs -> [Accounts -> 0..Cardinality(Accounts)]]
  BY DEF HandleInv, TypeOK
<1>4. Idle.stage # "open" /\ Idle \in Op \cup {Idle}
  BY DEF Idle
<1> QED BY <1>1, <1>2, <1>3, <1>4, OpStep

LEMMA RefuseStep ==
    ASSUME HandleInv, NEW u \in Ops, Refuse(u)
    PROVE  HandleInv'
<1> DEFINE p == ProcOf[u]
           a == op[u].account
<1>1. TypeOK /\ OpInv /\ p \in Procs /\ op[u].stage = "refused" /\ op[u] \in Op \cup {Idle}
  BY HandleAssumption DEF HandleInv, TypeOK, Refuse
<1>2. a \in Accounts /\ a \in tombstone
  BY <1>1, OpTypes DEF OpInv, OpOK
<1>3. /\ blocked \in [Procs -> SUBSET Accounts] /\ op \in [Ops -> Op \cup {Idle}]
      /\ upsets \in 0..MaxUpsets
  BY <1>1 DEF TypeOK
<1>4. blocked' \in [Procs -> SUBSET Accounts]
  BY <1>1, <1>2, <1>3 DEF Refuse
<1>5. op' \in [Ops -> Op \cup {Idle}] /\ \A v \in Ops : op'[v] = op[v] \/ op'[v] = Idle
  BY <1>3 DEF Refuse, Ends
<1>6. Forget(p, {a}) /\ UNCHANGED <<tombstone, removed, purge, upsets>>
  BY DEF Refuse, diskVars
<1>7. {a} \in SUBSET Accounts
  BY <1>2
<1>8. \A b \in {a} : cached[p][b] # 0 => ~InUse(cached[p][b]) \/ b \in tombstone
  BY <1>2
<1> HIDE DEF p, a
<1> QED BY <1>1, <1>3, <1>4, <1>5, <1>6, <1>7, <1>8, ForgetStep

LEMMA OpenRefusedStep ==
    ASSUME HandleInv, NEW u \in Ops, OpenRefused(u)
    PROVE  HandleInv'
<1> DEFINE p == ProcOf[u]
           a == op[u].account
<1>1. TypeOK /\ p \in Procs /\ op[u].stage = "open" /\ op[u] \in Op \cup {Idle} /\ Ends(u)
  BY HandleAssumption DEF HandleInv, TypeOK, OpenRefused
<1>2. a \in Accounts
  BY <1>1, OpTypes
<1>3. UNCHANGED <<tombstone, removed, purge, upsets>>
  BY DEF OpenRefused, diskVars
<1>4. CASE a \in blocked[p]
  BY <1>1, <1>3, <1>4, EndsStep DEF OpenRefused
<1>5. CASE a \notin blocked[p]
  <2>1. /\ a \in tombstone /\ Forget(p, {a})
        /\ blocked' = [blocked EXCEPT ![p] = blocked[p] \cup {a}]
    BY <1>5 DEF OpenRefused, Tombstoned
  <2>2. /\ blocked \in [Procs -> SUBSET Accounts] /\ op \in [Ops -> Op \cup {Idle}]
        /\ upsets \in 0..MaxUpsets
    BY <1>1 DEF TypeOK
  <2>3. blocked' \in [Procs -> SUBSET Accounts]
    BY <1>1, <1>2, <2>1, <2>2
  <2>4. op' \in [Ops -> Op \cup {Idle}] /\ \A v \in Ops : op'[v] = op[v] \/ op'[v] = Idle
    BY <1>1, <2>2 DEF Ends
  <2>5. {a} \in SUBSET Accounts
    BY <1>2
  <2>6. \A b \in {a} : cached[p][b] # 0 => ~InUse(cached[p][b]) \/ b \in tombstone
    BY <2>1
  <2> HIDE DEF p, a
  <2> QED BY <1>1, <1>3, <2>1, <2>2, <2>3, <2>4, <2>5, <2>6, ForgetStep
<1> QED BY <1>4, <1>5

LEMMA OpenCachedStep ==
    ASSUME HandleInv, NEW u \in Ops, OpenCached(u)
    PROVE  HandleInv'
<1> DEFINE p == ProcOf[u]
           a == op[u].account
           b == u \in Scans /\ rank[p][a] = 0
           o == [op[u] EXCEPT !.stage = "using", !.handle = cached[p][a], !.borrowed = b]
<1>1. /\ TypeOK /\ p \in Procs /\ op[u].stage = "open" /\ op[u] \in Op \cup {Idle}
      /\ cached[p][a] # 0
  BY HandleAssumption DEF HandleInv, TypeOK, OpenCached, MayOpen
<1>2. op[u] \in Op /\ a \in Accounts
  BY <1>1, OpTypes
<1>3. /\ cached[p][a] \in HandleIds
      /\ handle[cached[p][a]] = [account |-> a, proc |-> p, closing |-> FALSE, live |-> TRUE]
      /\ handle[cached[p][a]] # NoHandle
  BY <1>1, <1>2, Cached
<1>4. rank' \in [Procs -> [Accounts -> 0..Cardinality(Accounts)]]
  <2>1. rank \in [Procs -> [Accounts -> 0..Cardinality(Accounts)]]
    BY <1>1 DEF TypeOK
  <2>2. Promoted(rank[p], a) \in [Accounts -> 0..Cardinality(Accounts)]
    BY <1>1, <1>2, <2>1, RankTypes
  <2>3. rank' = (IF u \in Scans THEN rank ELSE [rank EXCEPT ![p] = Promoted(rank[p], a)])
    BY DEF OpenCached
  <2> QED BY <2>1, <2>2, <2>3
<1>5. op' = [op EXCEPT ![u] = o]
  BY DEF OpenCached
<1>6. b \in BOOLEAN /\ cached[p][a] \in HandleIds \cup {0}
  BY <1>3
<1>7. o \in Op
  <2> HIDE DEF b, a, p
  <2> QED BY <1>1, <1>6, OpTypes
<1>8. o.stage = "using" /\ o.handle = cached[p][a] /\ o.account = a
  BY <1>2 DEF Op
<1> HIDE DEF o
<1>9. op'[u] = o /\ handle' = handle
  BY <1>1, <1>5 DEF TypeOK, OpenCached
<1>10. OpOK(u)'
  BY <1>3, <1>8, <1>9 DEF OpOK
<1> QED BY <1>4, <1>5, <1>7, <1>8, <1>10, OpStep DEF OpenCached, diskVars

LEMMA OpenFailsStep ==
    ASSUME HandleInv, NEW u \in Ops, OpenFails(u)
    PROVE  HandleInv'
BY EndsStep DEF OpenFails, diskVars

LEMMA PutBackStep ==
    ASSUME HandleInv, NEW u \in Ops, PutBack(u)
    PROVE  HandleInv'
<1> DEFINE p == ProcOf[u]
           a == op[u].account
           S == IF rank[p][a] = 0 /\ Takes(p, a) THEN {a} ELSE {}
<1>1. TypeOK /\ p \in Procs /\ op[u].stage = "released" /\ op[u] \in Op \cup {Idle} /\ Ends(u)
  BY HandleAssumption DEF HandleInv, TypeOK, PutBack
<1>2. a \in Accounts
  BY <1>1, OpTypes
<1>3. /\ op \in [Ops -> Op \cup {Idle}] /\ upsets' \in 0..MaxUpsets
      /\ blocked' \in [Procs -> SUBSET Accounts]
  BY <1>1 DEF TypeOK, PutBack
<1>4. op' \in [Ops -> Op \cup {Idle}] /\ \A v \in Ops : op'[v] = op[v] \/ op'[v] = Idle
  BY <1>1, <1>3 DEF Ends
<1>5. Forget(p, S) /\ UNCHANGED <<tombstone, removed, purge>>
  BY DEF PutBack, diskVars
<1>6. S \in SUBSET Accounts
  BY <1>2
<1>7. \A b \in S : cached[p][b] # 0 => ~InUse(cached[p][b]) \/ b \in tombstone
  BY DEF Takes
<1> HIDE DEF p, a, S
<1> QED BY <1>1, <1>3, <1>4, <1>5, <1>6, <1>7, ForgetStep

LEMMA EvictStep ==
    ASSUME HandleInv, NEW u \in Ops, Evict(u)
    PROVE  HandleInv'
<1> DEFINE p == ProcOf[u]
<1>1. TypeOK /\ p \in Procs /\ Ends(u)
  BY HandleAssumption DEF HandleInv, Evict
<1>2. PICK V \in Victims(p, cached[p], rank[p], {}) : Forget(p, V)
  BY DEF Evict
<1>3. V \in SUBSET Accounts /\ \A b \in V : Takes(p, b)
  BY DEF Victims
<1>4. /\ op \in [Ops -> Op \cup {Idle}] /\ upsets' \in 0..MaxUpsets
      /\ blocked' \in [Procs -> SUBSET Accounts]
  BY <1>1 DEF TypeOK, Evict
<1>5. op' \in [Ops -> Op \cup {Idle}] /\ \A v \in Ops : op'[v] = op[v] \/ op'[v] = Idle
  BY <1>1, <1>4 DEF Ends
<1>6. UNCHANGED <<tombstone, removed, purge>>
  BY DEF Evict, diskVars
<1>7. \A b \in V : cached[p][b] # 0 => ~InUse(cached[p][b]) \/ b \in tombstone
  BY <1>3 DEF Takes
<1> HIDE DEF p
<1> QED BY <1>1, <1>2, <1>3, <1>4, <1>5, <1>6, <1>7, ForgetStep

LEMMA WatchStep ==
    ASSUME HandleInv, NEW p \in Procs, Watch(p)
    PROVE  HandleInv'
<1> DEFINE seen == tombstone \cap Open(p)
           S == WatcherTakes(p, seen)
<1>1. TypeOK
  BY DEF HandleInv
<1>2. S \in SUBSET Accounts /\ \A b \in S : b \in tombstone
  BY DEF WatcherTakes, Open
<1>3. seen \in SUBSET Accounts
  BY DEF Open
<1>4. /\ op' = op /\ op \in [Ops -> Op \cup {Idle}] /\ upsets' \in 0..MaxUpsets
      /\ blocked \in [Procs -> SUBSET Accounts]
  BY <1>1 DEF TypeOK, Watch
<1>5. blocked' \in [Procs -> SUBSET Accounts]
  BY <1>3, <1>4 DEF Watch
<1>6. Forget(p, S) /\ UNCHANGED <<tombstone, removed, purge>>
  BY DEF Watch, diskVars
<1>7. \A b \in S : cached[p][b] # 0 => ~InUse(cached[p][b]) \/ b \in tombstone
  BY <1>2
<1> HIDE DEF S, seen
<1> QED BY <1>2, <1>4, <1>5, <1>6, <1>7, ForgetStep

LEMMA CloseIdleStep ==
    ASSUME HandleInv, NEW p \in Procs, CloseIdle(p)
    PROVE  HandleInv'
<1>1. TypeOK
  BY DEF HandleInv
<1>2. PICK n \in 0..Cardinality(Accounts) :
        LET old == {a \in Open(p) : rank[p][a] <= n /\ Takes(p, a)}
        IN  \E V \in Victims(p, Without(cached[p], old), rank[p], old) :
              /\ old \cup V # {}
              /\ Forget(p, old \cup V)
              /\ UNCHANGED <<diskVars, blocked, op, purge, upsets>>
  BY DEF CloseIdle
<1> DEFINE old == {a \in Open(p) : rank[p][a] <= n /\ Takes(p, a)}
<1>3. PICK V \in Victims(p, Without(cached[p], old), rank[p], old) :
              /\ Forget(p, old \cup V)
              /\ UNCHANGED <<diskVars, blocked, op, purge, upsets>>
  BY <1>2
<1>4. V \in SUBSET Accounts /\ \A b \in V : Takes(p, b)
  BY DEF Victims
<1>5. old \in SUBSET Accounts /\ \A b \in old : Takes(p, b)
  BY DEF Open
<1>6. /\ op' = op /\ op \in [Ops -> Op \cup {Idle}] /\ upsets' \in 0..MaxUpsets
      /\ blocked' \in [Procs -> SUBSET Accounts]
  BY <1>1, <1>3 DEF TypeOK
<1> HIDE DEF old
<1>7. (old \cup V) \in SUBSET Accounts
  BY <1>4, <1>5
<1>8. \A b \in old \cup V : cached[p][b] # 0 => ~InUse(cached[p][b]) \/ b \in tombstone
  BY <1>4, <1>5 DEF Takes
<1>9. Forget(p, old \cup V) /\ UNCHANGED <<tombstone, removed, purge>>
  BY <1>3 DEF diskVars
<1> QED BY <1>6, <1>7, <1>8, <1>9, ForgetStep

\* A new handle has an identity no other handle has, and whatever makes room for
\* it is used by nobody.
LEMMA OpenNewStep ==
    ASSUME HandleInv, NEW u \in Ops, OpenNew(u)
    PROVE  HandleInv'
<1> DEFINE p == ProcOf[u]
           a == op[u].account
           scan == u \in Scans
           h == CHOOSE i \in FreeIds : \A j \in FreeIds : i <= j
           c == [cached[p] EXCEPT ![a] = h]
           r == IF scan THEN rank[p] ELSE Promoted(rank[p], a)
           o == [op[u] EXCEPT !.stage = "using", !.handle = h, !.borrowed = scan]
           fresh == [account |-> a, proc |-> p, closing |-> FALSE, live |-> TRUE]
<1>1. /\ TypeOK /\ OpInv /\ PurgeInv /\ p \in Procs /\ op[u].stage = "open"
      /\ op[u] \in Op \cup {Idle} /\ cached[p][a] = 0 /\ a \notin tombstone
      /\ FreeIds # {} /\ ~LifetimeExclusive(a)
      /\ UNCHANGED <<tombstone, removed, blocked, purge, upsets>>
  BY HandleAssumption DEF HandleInv, TypeOK, OpenNew, MayOpen, Tombstoned, diskVars
<1>2. op[u] \in Op /\ a \in Accounts
  BY <1>1, OpTypes
<1>3. /\ op \in [Ops -> Op \cup {Idle}]
      /\ handle \in [HandleIds -> Handle \cup {NoHandle}]
      /\ cached \in [Procs -> [Accounts -> HandleIds \cup {0}]]
      /\ rank \in [Procs -> [Accounts -> 0..Cardinality(Accounts)]]
      /\ CacheOK /\ removed \subseteq tombstone
  BY <1>1 DEF TypeOK, CacheOK
<1>4. h \in HandleIds /\ handle[h] = NoHandle /\ h # 0
  <2>1. FreeIds \in SUBSET Nat
    BY DEF FreeIds, HandleIds
  <2>2. \E i \in FreeIds : \A j \in FreeIds : i <= j
    BY <1>1, <2>1, Least
  <2>3. h \in FreeIds
    BY <2>2
  <2> HIDE DEF h
  <2> QED BY <2>3 DEF FreeIds, HandleIds
<1>5. PICK V \in IF scan THEN {{}} ELSE Victims(p, c, r, {a}) :
        /\ cached' = [cached EXCEPT ![p] = Without(c, V)]
        /\ rank' = [rank EXCEPT ![p] = RankWithout(r, V)]
        /\ handle' = [MarkClosing(handle, Closing(p, V)) EXCEPT ![h] = fresh]
  BY DEF OpenNew
<1>6. V \in SUBSET Accounts /\ a \notin V /\ \A b \in V : Takes(p, b)
  BY DEF Victims
<1>7. op' = [op EXCEPT ![u] = o]
  <2>1. op' = [op EXCEPT ![u].stage = "using", ![u].handle = h, ![u].borrowed = scan]
    BY DEF OpenNew
  <2> HIDE DEF h
  <2> QED BY <2>1
<1> HIDE DEF h, p
<1>8. o \in Op /\ o.stage = "using" /\ o.handle = h /\ o.account = a
  <2>1. o \in Op
    <3>1. scan \in BOOLEAN /\ h \in HandleIds \cup {0}
      BY <1>4
    <3> HIDE DEF scan
    <3> QED BY <1>1, <3>1, OpTypes
  <2> QED BY <1>2, <2>1 DEF Op
<1>9. fresh \in Handle /\ fresh # NoHandle /\ fresh.live /\ fresh.account = a /\ fresh.proc = p
      /\ ~fresh.closing
  BY <1>1, <1>2 DEF Handle, NoHandle
<1>10. Closing(p, V) \subseteq HandleIds /\ h \notin Closing(p, V)
  <2>1. ASSUME NEW b \in V \cap Open(p) PROVE cached[p][b] \in HandleIds /\ cached[p][b] # h
    BY <1>1, <1>4, <1>6, Cached DEF Open
  <2> QED BY <2>1 DEF Closing
<1>11. handle'[h] = fresh
  BY <1>4, <1>5 DEF MarkClosing
<1>12. ASSUME NEW i \in HandleIds, i # h, handle'[i] # handle[i]
       PROVE  \E b \in V \cap Open(p) :
                 /\ i = cached[p][b] /\ ~InUse(i)
                 /\ handle[i] # NoHandle /\ handle[i].account = b /\ handle[i].live
                 /\ handle'[i] = [account |-> b, proc |-> p, closing |-> TRUE, live |-> TRUE]
  <2>1. i \in Closing(p, V) /\ handle'[i] = [handle[i] EXCEPT !.closing = TRUE]
    BY <1>5, <1>12 DEF MarkClosing
  <2>2. PICK b \in V \cap Open(p) : i = cached[p][b]
    BY <2>1 DEF Closing
  <2>3. /\ handle[i] = [account |-> b, proc |-> p, closing |-> FALSE, live |-> TRUE]
        /\ handle[i] # NoHandle /\ b \in Accounts
    BY <1>1, <2>2, Cached DEF Open
  <2>4. handle[i] \in Handle
    BY <1>3, <2>3
  <2>5. handle'[i] = [account |-> b, proc |-> p, closing |-> TRUE, live |-> TRUE]
    <3>1. handle[i].account = b /\ handle[i].proc = p /\ handle[i].live = TRUE
      BY <2>3
    <3>2. [handle[i] EXCEPT !.closing = TRUE] = [account |-> handle[i].account,
              proc |-> handle[i].proc, closing |-> TRUE, live |-> handle[i].live]
      BY <2>4, MarkedIs
    <3> QED BY <2>1, <3>1, <3>2
  <2>6. ~InUse(i)
    BY <1>6, <2>2 DEF Takes
  <2>7. handle[i].account = b /\ handle[i].live
    BY <2>3
  <2> QED BY <2>2, <2>3, <2>5, <2>6, <2>7
<1> HIDE DEF fresh, o, c, r
<1>13. op' \in [Ops -> Op \cup {Idle}] /\ op'[u] = o /\ \A v \in Ops \ {u} : op'[v] = op[v]
  BY <1>3, <1>7, <1>8
<1>14. handle' \in [HandleIds -> Handle \cup {NoHandle}]
  <2>1. ASSUME NEW i \in HandleIds PROVE handle'[i] \in Handle \cup {NoHandle}
    <3>1. CASE i = h
      BY <1>9, <1>11, <3>1
    <3>2. CASE i # h /\ handle'[i] = handle[i]
      BY <1>3, <3>2
    <3>3. CASE i # h /\ handle'[i] # handle[i]
      <4>1. PICK b \in Accounts :
              handle'[i] = [account |-> b, proc |-> p, closing |-> TRUE, live |-> TRUE]
        BY <1>12, <3>3 DEF Open
      <4> QED BY <1>1, <4>1 DEF Handle
    <3> QED BY <3>1, <3>2, <3>3
  <2>2. handle' = [i \in HandleIds |-> handle'[i]]
    BY <1>5 DEF MarkClosing
  <2> QED BY <2>1, <2>2
<1>15. cached' \in [Procs -> [Accounts -> HandleIds \cup {0}]]
  <2>1. c \in [Accounts -> HandleIds \cup {0}]
    BY <1>1, <1>3, <1>4 DEF c
  <2>2. Without(c, V) \in [Accounts -> HandleIds \cup {0}]
    BY <2>1 DEF Without
  <2> QED BY <1>3, <1>5, <2>2
<1>16. rank' \in [Procs -> [Accounts -> 0..Cardinality(Accounts)]]
  <2>1. r \in [Accounts -> 0..Cardinality(Accounts)]
    BY <1>1, <1>2, <1>3, RankTypes DEF r
  <2>2. RankWithout(r, V) \in [Accounts -> 0..Cardinality(Accounts)]
    BY <1>2, <2>1, RankTypes
  <2> QED BY <1>3, <1>5, <2>2
<1>17. CacheOK'
  <2> SUFFICES ASSUME NEW q \in Procs, NEW b \in Accounts, cached'[q][b] # 0
               PROVE  handle'[cached'[q][b]] =
                        [account |-> b, proc |-> q, closing |-> FALSE, live |-> TRUE]
    BY DEF CacheOK, Open
  <2>1. CASE q = p /\ b = a
    <3>1. cached'[q][b] = h
      BY <1>1, <1>2, <1>3, <1>5, <1>6, <2>1 DEF Without, c
    <3> QED BY <1>11, <2>1, <3>1 DEF fresh
  <2>2. CASE ~(q = p /\ b = a)
    <3>1. cached'[q][b] = cached[q][b] /\ ~(q = p /\ b \in V)
      BY <1>1, <1>2, <1>3, <1>5, <2>2 DEF Without, c
    <3>2. /\ cached[q][b] \in HandleIds /\ handle[cached[q][b]] # NoHandle
          /\ handle[cached[q][b]] = [account |-> b, proc |-> q, closing |-> FALSE, live |-> TRUE]
      BY <1>1, <3>1, Cached
    <3>3. handle'[cached[q][b]] = handle[cached[q][b]]
      <4>1. cached[q][b] # h
        BY <1>4, <3>2
      <4>2. ASSUME NEW d \in V \cap Open(p), cached[q][b] = cached[p][d] PROVE FALSE
        <5>1. handle[cached[p][d]] = [account |-> d, proc |-> p, closing |-> FALSE, live |-> TRUE]
          BY <1>1, <1>6, Cached DEF Open
        <5>2. d = b /\ p = q
          BY <3>2, <4>2, <5>1
        <5> QED BY <3>1, <5>2
      <4> QED BY <1>12, <3>2, <4>1, <4>2
    <3> QED BY <3>1, <3>2, <3>3
  <2> QED BY <2>1, <2>2
<1>18. TypeOK'
  <2>1. tombstone' \subseteq Doomed /\ removed' \subseteq tombstone'
        /\ blocked' \in [Procs -> SUBSET Accounts] /\ purge' \in [Procs -> Purge \cup {NoPurge}]
        /\ upsets' \in 0..MaxUpsets
    BY <1>1 DEF TypeOK
  <2> QED BY <1>13, <1>14, <1>15, <1>16, <1>17, <2>1 DEF TypeOK, CacheOK
<1>19. OpInv'
  <2>1. OpOK(u)'
    BY <1>4, <1>8, <1>9, <1>11, <1>13 DEF OpOK, p
  <2>2. ASSUME NEW v \in Ops, v # u PROVE OpOK(v)'
    <3>1. OpOK(v) /\ op'[v] = op[v]
      BY <1>1, <1>13, <2>2 DEF OpInv
    <3>2. CASE op[v].stage = "using"
      <4>1. op[v].handle \in HandleIds /\ op[v].handle # h
        BY <1>4, <3>1, <3>2 DEF OpOK
      <4>2. InUse(op[v].handle)
        BY <3>2 DEF InUse, Uses
      <4>3. handle'[op[v].handle] = handle[op[v].handle]
        BY <1>12, <4>1, <4>2
      <4> QED BY <1>1, <3>1, <3>2, <4>3 DEF OpOK
    <3>3. CASE op[v].stage # "using"
      BY <1>1, <3>1, <3>3 DEF OpOK
    <3> QED BY <3>2, <3>3
  <2> QED BY <2>1, <2>2 DEF OpInv
<1>20. PurgeInv'
  <2>1. \A b \in Accounts : /\ GuardExclusive(b)' <=> GuardExclusive(b)
                            /\ LifetimeExclusive(b)' <=> LifetimeExclusive(b)
    BY <1>1 DEF GuardExclusive, LifetimeExclusive
  <2>2. ASSUME NEW b \in Accounts, b # a PROVE Live(b)' \subseteq Live(b)
    <3> SUFFICES ASSUME NEW i \in Live(b)' PROVE i \in Live(b)
      OBVIOUS
    <3>1. i \in HandleIds /\ handle'[i] # NoHandle /\ handle'[i].account = b /\ handle'[i].live
      BY DEF Live
    <3>2. i # h
      BY <1>9, <1>11, <2>2, <3>1
    <3>3. CASE handle'[i] = handle[i]
      BY <3>1, <3>3 DEF Live
    <3>4. CASE handle'[i] # handle[i]
      <4>1. PICK d \in V \cap Open(p) :
                 /\ handle[i] # NoHandle /\ handle[i].account = d /\ handle[i].live
                 /\ handle'[i] = [account |-> d, proc |-> p, closing |-> TRUE, live |-> TRUE]
        BY <1>12, <3>1, <3>2, <3>4
      <4> QED BY <3>1, <4>1 DEF Live
    <3> QED BY <3>3, <3>4
  <2>3. \A b \in Accounts : LifetimeExclusive(b)' \/ b \in removed' => Live(b)' = {}
    <3> SUFFICES ASSUME NEW b \in Accounts, LifetimeExclusive(b)' \/ b \in removed'
                 PROVE  Live(b)' = {}
      OBVIOUS
    <3>1. LifetimeExclusive(b) \/ b \in removed
      BY <1>1, <2>1
    <3>2. b # a
      BY <1>1, <1>3, <3>1
    <3>3. Live(b) = {}
      BY <1>1, <3>1 DEF PurgeInv
    <3> QED BY <2>2, <3>2, <3>3
  <2>4. \A b \in Accounts : GuardExclusive(b)' \/ b \in removed' =>
          \A v \in Ops : op'[v].account = b => op'[v].stage # "open"
    <3> SUFFICES ASSUME NEW b \in Accounts, GuardExclusive(b)' \/ b \in removed',
                        NEW v \in Ops, op'[v].account = b
                 PROVE  op'[v].stage # "open"
      OBVIOUS
    <3>1. GuardExclusive(b) \/ b \in removed
      BY <1>1, <2>1
    <3>2. CASE v = u
      BY <1>8, <1>13, <3>2
    <3>3. CASE v # u
      BY <1>1, <1>13, <3>1, <3>3 DEF PurgeInv
    <3> QED BY <3>2, <3>3
  <2>5. \A q \in Procs : purge'[q] # NoPurge => purge'[q].account \in tombstone'
    BY <1>1 DEF PurgeInv
  <2> QED BY <2>3, <2>4, <2>5 DEF PurgeInv
<1> QED BY <1>18, <1>19, <1>20 DEF HandleInv

\* The steps in which one handle goes that is not in the cache.
LEMMA FreeStep ==
    ASSUME HandleInv, NEW h \in HandleIds,
           ~handle[h].live \/ handle[h].closing,
           \A i \in HandleIds \ {h} : handle'[i] = handle[i],
           handle'[h] = NoHandle \/ ~handle'[h].live \/ handle'[h] = handle[h],
           handle' \in [HandleIds -> Handle \cup {NoHandle}],
           UNCHANGED <<tombstone, removed, cached, rank, blocked, purge, upsets>>,
           op' \in [Ops -> Op \cup {Idle}],
           \A u \in Ops : op'[u].stage = "open" => op'[u] = op[u]
    PROVE  TypeOK' /\ PurgeInv'
<1>1. TypeOK /\ PurgeInv /\ CacheOK
  BY DEF HandleInv, TypeOK, CacheOK
<1>2. CacheOK'
  <2> SUFFICES ASSUME NEW q \in Procs, NEW a \in Accounts, cached[q][a] # 0
               PROVE  handle'[cached[q][a]] =
                        [account |-> a, proc |-> q, closing |-> FALSE, live |-> TRUE]
    BY DEF CacheOK, Open
  <2>1. /\ cached[q][a] \in HandleIds
        /\ handle[cached[q][a]] = [account |-> a, proc |-> q, closing |-> FALSE, live |-> TRUE]
    BY <1>1, Cached
  <2>2. cached[q][a] # h
    BY <2>1
  <2> QED BY <2>1, <2>2
<1>3. TypeOK'
  BY <1>1, <1>2 DEF TypeOK, CacheOK
<1>4. \A a \in Accounts : Live(a)' \subseteq Live(a)
  BY DEF Live
<1> QED BY <1>1, <1>3, <1>4, PurgeKeeps

LEMMA EndUseStep ==
    ASSUME HandleInv, NEW u \in Ops, EndUse(u)
    PROVE  HandleInv'
<1> DEFINE h == op[u].handle
           o == [op[u] EXCEPT !.stage = "released", !.handle = 0]
           frees == ~handle[h].live /\ \A v \in Ops \ {u} : ~Uses(v, h)
<1>1. /\ TypeOK /\ OpInv /\ op[u] \in Op \cup {Idle} /\ op[u].stage = "using"
      /\ UNCHANGED <<tombstone, removed, cached, rank, blocked, purge, upsets>>
      /\ op' = [op EXCEPT ![u] = o]
      /\ handle' = (IF frees THEN [handle EXCEPT ![h] = NoHandle] ELSE handle)
  BY DEF HandleInv, TypeOK, EndUse, diskVars
<1>2. /\ op \in [Ops -> Op \cup {Idle}] /\ handle \in [HandleIds -> Handle \cup {NoHandle}]
      /\ CacheOK
  BY <1>1 DEF TypeOK, CacheOK
<1>3. h \in HandleIds
  BY <1>1 DEF OpInv, OpOK
<1>4. op[u] \in Op /\ o \in Op
  <2>1. 0 \in HandleIds \cup {0} /\ FALSE \in BOOLEAN
    OBVIOUS
  <2> QED BY <1>1, <2>1, OpTypes
<1>5. o.stage = "released"
  BY <1>4 DEF Op
<1> HIDE DEF o, h
<1>6. op' \in [Ops -> Op \cup {Idle}] /\ op'[u] = o /\ \A v \in Ops \ {u} : op'[v] = op[v]
  BY <1>1, <1>2, <1>4
<1>7. OpInv'
  <2>1. OpOK(u)'
    BY <1>5, <1>6 DEF OpOK
  <2>2. ASSUME NEW v \in Ops, v # u PROVE OpOK(v)'
    <3>1. OpOK(v) /\ op'[v] = op[v]
      BY <1>1, <1>6, <2>2 DEF OpInv
    <3>2. CASE op[v].stage = "using"
      <4>1. op[v].handle \in HandleIds
        BY <3>1, <3>2 DEF OpOK
      <4>2. frees => op[v].handle # h
        BY <2>2, <3>2 DEF Uses
      <4>3. handle'[op[v].handle] = handle[op[v].handle]
        BY <1>1, <1>2, <4>1, <4>2
      <4> QED BY <1>1, <3>1, <3>2, <4>3 DEF OpOK
    <3>3. CASE op[v].stage # "using"
      BY <1>1, <3>1, <3>3 DEF OpOK
    <3> QED BY <3>2, <3>3
  <2> QED BY <2>1, <2>2 DEF OpInv
<1>8. \A v \in Ops : op'[v].stage = "open" => op'[v] = op[v]
  BY <1>5, <1>6
<1>9. CASE frees
  <2>1. handle'[h] = NoHandle /\ \A i \in HandleIds \ {h} : handle'[i] = handle[i]
    BY <1>1, <1>2, <1>3, <1>9
  <2>2. handle' \in [HandleIds -> Handle \cup {NoHandle}]
    BY <1>1, <1>2, <1>3, <1>9
  <2>3. ~handle[h].live
    BY <1>9
  <2>4. TypeOK' /\ PurgeInv'
    BY <1>1, <1>3, <1>6, <1>8, <2>1, <2>2, <2>3, FreeStep
  <2> QED BY <1>7, <2>4 DEF HandleInv
<1>10. CASE ~frees
  <2>1. handle' = handle
    BY <1>1, <1>10
  <2>2. CacheOK'
    BY <1>1, <1>2, <2>1 DEF CacheOK, Open
  <2>3. TypeOK'
    BY <1>1, <1>2, <1>6, <2>1, <2>2 DEF TypeOK, CacheOK
  <2>4. \A a \in Accounts : Live(a)' \subseteq Live(a)
    BY <2>1 DEF Live
  <2>5. PurgeInv'
    BY <1>1, <1>8, <2>4, PurgeKeeps DEF HandleInv
  <2> QED BY <1>7, <2>3, <2>5 DEF HandleInv
<1> QED BY <1>9, <1>10

LEMMA CloseResourcesStep ==
    ASSUME HandleInv, NEW h \in HandleIds, CloseResources(h)
    PROVE  HandleInv'
<1> DEFINE g == IF InUse(h) THEN [handle[h] EXCEPT !.live = FALSE] ELSE NoHandle
<1>1. /\ TypeOK /\ OpInv /\ PurgeInv /\ handle[h] # NoHandle /\ handle[h].closing
      /\ handle' = [handle EXCEPT ![h] = g]
      /\ UNCHANGED <<tombstone, removed, cached, rank, blocked, op, purge, upsets>>
  BY DEF HandleInv, CloseResources, diskVars
<1>2. /\ op \in [Ops -> Op \cup {Idle}] /\ handle \in [HandleIds -> Handle \cup {NoHandle}]
  BY <1>1 DEF TypeOK
<1>3. handle[h] \in Handle
  BY <1>1, <1>2
<1>4. ASSUME InUse(h)
      PROVE  /\ g \in Handle /\ g # NoHandle /\ ~g.live
             /\ g.account = handle[h].account /\ g.proc = handle[h].proc /\ g.closing
  <2>1. g = [handle[h] EXCEPT !.live = FALSE]
    BY <1>4
  <2>2. g \in Handle
    BY <1>3, <2>1 DEF Handle
  <2>3. /\ ~g.live /\ g.account = handle[h].account /\ g.proc = handle[h].proc
        /\ g.closing = handle[h].closing
    BY <1>3, <2>1 DEF Handle
  <2>4. g # NoHandle
    BY <2>2, HandleAssumption DEF Handle, NoHandle
  <2> QED BY <1>1, <2>2, <2>3, <2>4
<1>5. g \in Handle \cup {NoHandle} /\ (g = NoHandle \/ ~g.live)
  BY <1>4
<1> HIDE DEF g
<1>6. /\ handle' \in [HandleIds -> Handle \cup {NoHandle}] /\ handle'[h] = g
      /\ \A i \in HandleIds \ {h} : handle'[i] = handle[i]
  BY <1>1, <1>2, <1>5
<1>7. OpInv'
  <2> SUFFICES ASSUME NEW u \in Ops PROVE OpOK(u)'
    BY DEF OpInv
  <2>1. OpOK(u) /\ op'[u] = op[u]
    BY <1>1 DEF OpInv
  <2>2. CASE Uses(u, h)
    BY <1>1, <1>4, <1>6, <2>1, <2>2 DEF OpOK, Uses, InUse
  <2>3. CASE ~Uses(u, h)
    BY <1>1, <1>6, <2>1, <2>3 DEF OpOK, Uses
  <2> QED BY <2>2, <2>3
<1>8. TypeOK' /\ PurgeInv'
  BY <1>1, <1>2, <1>5, <1>6, FreeStep
<1> QED BY <1>7, <1>8 DEF HandleInv

\* The steps of a deletion: no handle changes, but what the fence forgets.
LEMMA MarkDeletedStep ==
    ASSUME HandleInv, NEW p \in Purgers, NEW a \in Doomed, MarkDeleted(p, a)
    PROVE  HandleInv'
<1> DEFINE q == [stage |-> "marked", account |-> a]
<1>1. /\ TypeOK /\ OpInv /\ PurgeInv /\ CacheOK /\ p \in Procs /\ a \in Accounts
      /\ purge[p] = NoPurge /\ purge' = [purge EXCEPT ![p] = q]
      /\ tombstone' = tombstone \cup {a}
      /\ UNCHANGED <<removed, handle, cached, rank, blocked, op, upsets>>
  BY HandleAssumption DEF HandleInv, MarkDeleted, TypeOK, CacheOK
<1>2. q \in Purge /\ q.stage = "marked" /\ q.account = a
  BY <1>1 DEF Purge
<1> HIDE DEF q
<1>3. purge' \in [Procs -> Purge \cup {NoPurge}] /\ purge'[p] = q
      /\ \A s \in Procs \ {p} : purge'[s] = purge[s]
  BY <1>1, <1>2 DEF TypeOK
<1>4. TypeOK'
  <2>1. CacheOK'
    BY <1>1 DEF CacheOK, Open
  <2>2. tombstone' \subseteq Doomed /\ removed' \subseteq tombstone'
    BY <1>1 DEF TypeOK
  <2>3. /\ handle' \in [HandleIds -> Handle \cup {NoHandle}]
        /\ cached' \in [Procs -> [Accounts -> HandleIds \cup {0}]]
        /\ rank' \in [Procs -> [Accounts -> 0..Cardinality(Accounts)]]
        /\ blocked' \in [Procs -> SUBSET Accounts]
        /\ op' \in [Ops -> Op \cup {Idle}] /\ upsets' \in 0..MaxUpsets
    BY <1>1 DEF TypeOK
  <2> QED BY <1>3, <2>1, <2>2, <2>3 DEF TypeOK, CacheOK
<1>5. OpInv'
  <2>1. \A u \in Ops : OpOK(u)'
    BY <1>1 DEF OpInv, OpOK
  <2> QED BY <2>1 DEF OpInv
<1>6. PurgeInv'
  <2>1. \A b \in Accounts : /\ GuardExclusive(b)' => GuardExclusive(b)
                            /\ LifetimeExclusive(b)' => LifetimeExclusive(b)
                            /\ Live(b)' = Live(b)
    BY <1>1, <1>2, <1>3 DEF GuardExclusive, LifetimeExclusive, Live
  <2>2. \A s \in Procs : purge'[s] # NoPurge => purge'[s].account \in tombstone'
    BY <1>1, <1>2, <1>3 DEF PurgeInv
  <2> QED BY <1>1, <2>1, <2>2 DEF PurgeInv
<1> QED BY <1>4, <1>5, <1>6 DEF HandleInv

\* No operation has the guard lock, so none stands before the database.
LEMMA GuardStep ==
    ASSUME HandleInv, NEW p \in Procs, Guard(p)
    PROVE  HandleInv'
<1> DEFINE a == purge[p].account
           q == [purge[p] EXCEPT !.stage = "guarded"]
<1>1. /\ TypeOK /\ OpInv /\ PurgeInv /\ CacheOK /\ purge[p] \in Purge \cup {NoPurge}
      /\ purge[p].stage = "marked" /\ purge' = [purge EXCEPT ![p] = q] /\ ~GuardShared(a)
      /\ UNCHANGED <<tombstone, removed, handle, cached, rank, blocked, op, upsets>>
  BY DEF HandleInv, Guard, TypeOK, CacheOK, NobodyInside, diskVars
<1>2. q \in Purge /\ q # NoPurge /\ q.stage = "guarded" /\ q.account = a /\ purge[p] # NoPurge
      /\ a \in Accounts
  BY <1>1 DEF Purge, NoPurge
<1> HIDE DEF q
<1>3. purge' \in [Procs -> Purge \cup {NoPurge}] /\ purge'[p] = q
      /\ \A s \in Procs \ {p} : purge'[s] = purge[s]
  BY <1>1, <1>2 DEF TypeOK
<1>4. TypeOK'
  <2>1. CacheOK'
    BY <1>1 DEF CacheOK, Open
  <2> QED BY <1>1, <1>3, <2>1 DEF TypeOK, CacheOK
<1>5. OpInv'
  <2>1. \A u \in Ops : OpOK(u)'
    BY <1>1 DEF OpInv, OpOK
  <2> QED BY <2>1 DEF OpInv
<1>6. PurgeInv'
  <2>1. \A b \in Accounts : /\ GuardExclusive(b)' => GuardExclusive(b) \/ b = a
                            /\ LifetimeExclusive(b)' => LifetimeExclusive(b)
                            /\ Live(b)' = Live(b)
    BY <1>1, <1>2, <1>3 DEF GuardExclusive, LifetimeExclusive, Live
  <2>2. \A u \in Ops : op[u].account = a => op[u].stage # "open"
    BY <1>1 DEF GuardShared, OpInv, OpOK
  <2>3. \A s \in Procs : purge'[s] # NoPurge => purge'[s].account \in tombstone'
    BY <1>1, <1>2, <1>3 DEF PurgeInv
  <2>4. \A b \in Accounts : GuardExclusive(b)' \/ b \in removed' =>
          \A u \in Ops : op'[u].account = b => op'[u].stage # "open"
    BY <1>1, <2>1, <2>2 DEF PurgeInv
  <2>5. \A b \in Accounts : LifetimeExclusive(b)' \/ b \in removed' => Live(b)' = {}
    BY <1>1, <2>1 DEF PurgeInv
  <2> QED BY <2>3, <2>4, <2>5 DEF PurgeInv
<1> QED BY <1>4, <1>5, <1>6 DEF HandleInv

\* No process has the database open, and from here on none opens it.
LEMMA FenceStep ==
    ASSUME HandleInv, NEW p \in Procs, Fence(p)
    PROVE  HandleInv'
<1> DEFINE a == purge[p].account
           q == [purge[p] EXCEPT !.stage = "fenced"]
<1>1. /\ TypeOK /\ OpInv /\ PurgeInv /\ CacheOK /\ purge[p] \in Purge \cup {NoPurge}
      /\ purge[p].stage = "guarded" /\ purge' = [purge EXCEPT ![p] = q] /\ Live(a) = {}
      /\ Forget(p, {a}) /\ blocked' = [blocked EXCEPT ![p] = blocked[p] \cup {a}]
      /\ UNCHANGED <<tombstone, removed, op, upsets>>
  BY DEF HandleInv, Fence, TypeOK, CacheOK, diskVars
<1>2. q \in Purge /\ q # NoPurge /\ q.stage = "fenced" /\ q.account = a /\ purge[p] # NoPurge
      /\ a \in Accounts
  BY <1>1 DEF Purge, NoPurge
<1>3. a \in tombstone
  BY <1>1, <1>2 DEF PurgeInv
<1> HIDE DEF q
<1>4. purge' \in [Procs -> Purge \cup {NoPurge}] /\ purge'[p] = q
      /\ \A s \in Procs \ {p} : purge'[s] = purge[s]
  BY <1>1, <1>2 DEF TypeOK
<1>5. /\ handle' \in [HandleIds -> Handle \cup {NoHandle}]
      /\ cached' \in [Procs -> [Accounts -> HandleIds \cup {0}]]
      /\ rank' \in [Procs -> [Accounts -> 0..Cardinality(Accounts)]]
      /\ CacheOK' /\ Marks(p, {a})
  BY <1>1, <1>2, ForgetTypes
<1>6. TypeOK'
  <2>1. blocked' \in [Procs -> SUBSET Accounts]
    BY <1>1, <1>2 DEF TypeOK
  <2>2. /\ tombstone' \subseteq Doomed /\ removed' \subseteq tombstone'
        /\ op' \in [Ops -> Op \cup {Idle}] /\ upsets' \in 0..MaxUpsets
    BY <1>1 DEF TypeOK
  <2> QED BY <1>4, <1>5, <2>1, <2>2 DEF TypeOK, CacheOK
<1>7. OpInv'
  <2>1. \A b \in {a} : cached[p][b] # 0 => ~InUse(cached[p][b]) \/ b \in tombstone
    BY <1>3
  <2> QED BY <1>1, <1>2, <1>5, <2>1, ForgetOps
<1>8. PurgeInv'
  <2>1. \A b \in Accounts : /\ GuardExclusive(b)' => GuardExclusive(b)
                            /\ LifetimeExclusive(b)' => LifetimeExclusive(b) \/ b = a
    BY <1>1, <1>2, <1>4 DEF GuardExclusive, LifetimeExclusive
  <2>2. \A b \in Accounts : Live(b)' \subseteq Live(b)
    BY <1>1, <1>5, MarksLive
  <2>3. \A s \in Procs : purge'[s] # NoPurge => purge'[s].account \in tombstone'
    BY <1>1, <1>2, <1>3, <1>4 DEF PurgeInv
  <2>4. \A b \in Accounts : GuardExclusive(b)' \/ b \in removed' =>
          \A u \in Ops : op'[u].account = b => op'[u].stage # "open"
    BY <1>1, <2>1 DEF PurgeInv
  <2>5. \A b \in Accounts : LifetimeExclusive(b)' \/ b \in removed' => Live(b)' = {}
    BY <1>1, <2>1, <2>2 DEF PurgeInv
  <2> QED BY <2>3, <2>4, <2>5 DEF PurgeInv
<1> QED BY <1>6, <1>7, <1>8 DEF HandleInv

LEMMA RemoveFilesStep ==
    ASSUME HandleInv, NEW p \in Procs, RemoveFiles(p)
    PROVE  HandleInv'
<1> DEFINE a == purge[p].account
           q == [purge[p] EXCEPT !.stage = "removed"]
<1>1. /\ TypeOK /\ OpInv /\ PurgeInv /\ CacheOK /\ purge[p] \in Purge \cup {NoPurge}
      /\ purge[p].stage = "fenced" /\ purge' = [purge EXCEPT ![p] = q]
      /\ removed' = removed \cup {a}
      /\ UNCHANGED <<tombstone, handle, cached, rank, blocked, op, upsets>>
  BY DEF HandleInv, RemoveFiles, TypeOK, CacheOK
<1>2. q \in Purge /\ q # NoPurge /\ q.stage = "removed" /\ q.account = a /\ purge[p] # NoPurge
      /\ a \in Accounts
  BY <1>1 DEF Purge, NoPurge
<1>3. a \in tombstone /\ GuardExclusive(a) /\ LifetimeExclusive(a)
  BY <1>1, <1>2 DEF PurgeInv, GuardExclusive, LifetimeExclusive
<1> HIDE DEF q
<1>4. purge' \in [Procs -> Purge \cup {NoPurge}] /\ purge'[p] = q
      /\ \A s \in Procs \ {p} : purge'[s] = purge[s]
  BY <1>1, <1>2 DEF TypeOK
<1>5. TypeOK'
  <2>1. CacheOK'
    BY <1>1 DEF CacheOK, Open
  <2>2. tombstone' \subseteq Doomed /\ removed' \subseteq tombstone'
    BY <1>1, <1>3 DEF TypeOK
  <2> QED BY <1>1, <1>4, <2>1, <2>2 DEF TypeOK, CacheOK
<1>6. OpInv'
  <2>1. \A u \in Ops : OpOK(u)'
    BY <1>1 DEF OpInv, OpOK
  <2> QED BY <2>1 DEF OpInv
<1>7. PurgeInv'
  <2>1. \A b \in Accounts : /\ GuardExclusive(b)' => GuardExclusive(b)
                            /\ LifetimeExclusive(b)' => LifetimeExclusive(b)
                            /\ Live(b)' = Live(b)
    BY <1>1, <1>2, <1>4 DEF GuardExclusive, LifetimeExclusive, Live
  <2>3. \A s \in Procs : purge'[s] # NoPurge => purge'[s].account \in tombstone'
    BY <1>1, <1>2, <1>4 DEF PurgeInv
  <2>4. \A b \in Accounts : GuardExclusive(b)' \/ b \in removed' =>
          \A u \in Ops : op'[u].account = b => op'[u].stage # "open"
    BY <1>1, <1>3, <2>1 DEF PurgeInv
  <2>5. \A b \in Accounts : LifetimeExclusive(b)' \/ b \in removed' => Live(b)' = {}
    BY <1>1, <1>3, <2>1 DEF PurgeInv
  <2> QED BY <2>3, <2>4, <2>5 DEF PurgeInv
<1> QED BY <1>5, <1>6, <1>7 DEF HandleInv

LEMMA ReleaseFenceStep ==
    ASSUME HandleInv, NEW p \in Procs, ReleaseFence(p)
    PROVE  HandleInv'
<1>1. /\ TypeOK /\ OpInv /\ PurgeInv /\ CacheOK
      /\ purge' = [purge EXCEPT ![p] = NoPurge]
      /\ upsets' = (IF purge[p].stage = "removed" THEN upsets ELSE upsets + 1)
      /\ purge[p].stage = "removed" \/ upsets < MaxUpsets
      /\ UNCHANGED <<tombstone, removed, handle, cached, rank, blocked, op>>
  BY DEF HandleInv, ReleaseFence, TypeOK, CacheOK, diskVars
<1>2. purge' \in [Procs -> Purge \cup {NoPurge}] /\ purge'[p] = NoPurge
      /\ \A s \in Procs \ {p} : purge'[s] = purge[s]
  BY <1>1 DEF TypeOK
<1>3. upsets' \in 0..MaxUpsets
  BY <1>1, HandleAssumption DEF TypeOK
<1>4. TypeOK'
  <2>1. CacheOK'
    BY <1>1 DEF CacheOK, Open
  <2> QED BY <1>1, <1>2, <1>3, <2>1 DEF TypeOK, CacheOK
<1>5. OpInv'
  <2>1. \A u \in Ops : OpOK(u)'
    BY <1>1 DEF OpInv, OpOK
  <2> QED BY <2>1 DEF OpInv
<1>6. PurgeInv'
  <2>1. \A b \in Accounts : /\ GuardExclusive(b)' => GuardExclusive(b)
                            /\ LifetimeExclusive(b)' => LifetimeExclusive(b)
                            /\ Live(b)' = Live(b)
    BY <1>1, <1>2 DEF GuardExclusive, LifetimeExclusive, Live, NoPurge
  <2>2. \A s \in Procs : purge'[s] # NoPurge => purge'[s].account \in tombstone'
    BY <1>1, <1>2 DEF PurgeInv
  <2> QED BY <1>1, <2>1, <2>2 DEF PurgeInv
<1> QED BY <1>4, <1>5, <1>6 DEF HandleInv

\* A process takes its handles, its operations and its locks with it.
LEMMA CrashStep ==
    ASSUME HandleInv, NEW p \in Procs, Crash(p)
    PROVE  HandleInv'
<1>1. /\ TypeOK /\ OpInv /\ PurgeInv /\ CacheOK
      /\ upsets < MaxUpsets /\ upsets' = upsets + 1
      /\ handle' = [h \in HandleIds |-> IF handle[h] # NoHandle /\ handle[h].proc = p
                                        THEN NoHandle ELSE handle[h]]
      /\ cached' = [cached EXCEPT ![p] = [a \in Accounts |-> 0]]
      /\ rank' = [rank EXCEPT ![p] = [a \in Accounts |-> 0]]
      /\ blocked' = [blocked EXCEPT ![p] = {}]
      /\ op' = [u \in Ops |-> IF ProcOf[u] = p THEN Idle ELSE op[u]]
      /\ purge' = [purge EXCEPT ![p] = NoPurge]
      /\ UNCHANGED <<tombstone, removed>>
  BY DEF HandleInv, Crash, TypeOK, CacheOK, diskVars
<1>2. /\ handle \in [HandleIds -> Handle \cup {NoHandle}]
      /\ cached \in [Procs -> [Accounts -> HandleIds \cup {0}]]
      /\ rank \in [Procs -> [Accounts -> 0..Cardinality(Accounts)]]
      /\ blocked \in [Procs -> SUBSET Accounts]
      /\ op \in [Ops -> Op \cup {Idle}]
      /\ purge \in [Procs -> Purge \cup {NoPurge}]
      /\ upsets \in 0..MaxUpsets /\ Cardinality(Accounts) \in Nat
  BY <1>1, HandleAssumption, FS_CardinalityType DEF TypeOK
<1>3. /\ handle' \in [HandleIds -> Handle \cup {NoHandle}]
      /\ blocked' \in [Procs -> SUBSET Accounts]
      /\ op' \in [Ops -> Op \cup {Idle}]
      /\ purge' \in [Procs -> Purge \cup {NoPurge}]
      /\ upsets' \in 0..MaxUpsets
  BY <1>1, <1>2, HandleAssumption
<1>4. /\ cached' \in [Procs -> [Accounts -> HandleIds \cup {0}]]
      /\ rank' \in [Procs -> [Accounts -> 0..Cardinality(Accounts)]]
  <2>1. /\ [a \in Accounts |-> 0] \in [Accounts -> HandleIds \cup {0}]
        /\ [a \in Accounts |-> 0] \in [Accounts -> 0..Cardinality(Accounts)]
    BY <1>2
  <2> QED BY <1>1, <1>2, <2>1
<1>5. \A q \in Procs \ {p} : purge'[q] = purge[q] /\ cached'[q] = cached[q]
  BY <1>1, <1>2
<1>6. purge'[p] = NoPurge /\ \A a \in Accounts : cached'[p][a] = 0
  BY <1>1, <1>2
<1>7. CacheOK'
  <2> SUFFICES ASSUME NEW q \in Procs, NEW a \in Accounts, cached'[q][a] # 0
               PROVE  handle'[cached'[q][a]] =
                        [account |-> a, proc |-> q, closing |-> FALSE, live |-> TRUE]
    BY DEF CacheOK, Open
  <2>1. q # p /\ cached'[q][a] = cached[q][a]
    BY <1>5, <1>6
  <2>2. /\ cached[q][a] \in HandleIds
        /\ handle[cached[q][a]] = [account |-> a, proc |-> q, closing |-> FALSE, live |-> TRUE]
    BY <1>1, <2>1, Cached
  <2>3. handle[cached[q][a]].proc = q
    BY <2>2
  <2>4. handle'[cached[q][a]] = handle[cached[q][a]]
    BY <1>1, <2>1, <2>2, <2>3
  <2> QED BY <2>1, <2>2, <2>4
<1>8. TypeOK'
  BY <1>1, <1>3, <1>4, <1>7 DEF TypeOK, CacheOK
<1>9. OpInv'
  <2> SUFFICES ASSUME NEW u \in Ops PROVE OpOK(u)'
    BY DEF OpInv
  <2>1. OpOK(u)
    BY <1>1 DEF OpInv
  <2>2. CASE ProcOf[u] = p
    <3>1. op'[u] = Idle
      BY <1>1, <2>2
    <3> QED BY <3>1 DEF OpOK, Idle
  <2>3. CASE ProcOf[u] # p
    <3>1. op'[u] = op[u]
      BY <1>1, <2>3
    <3>2. CASE op[u].stage = "using"
      <4>1. handle'[op[u].handle] = handle[op[u].handle]
        BY <1>1, <2>1, <2>3, <3>2 DEF OpOK
      <4> QED BY <1>1, <2>1, <3>1, <3>2, <4>1 DEF OpOK
    <3>3. CASE op[u].stage # "using"
      BY <1>1, <2>1, <3>1, <3>3 DEF OpOK
    <3> QED BY <3>2, <3>3
  <2> QED BY <2>2, <2>3
<1>10. PurgeInv'
  <2>1. \A b \in Accounts : /\ GuardExclusive(b)' => GuardExclusive(b)
                            /\ LifetimeExclusive(b)' => LifetimeExclusive(b)
    BY <1>5, <1>6 DEF GuardExclusive, LifetimeExclusive, NoPurge
  <2>2. \A b \in Accounts : Live(b)' \subseteq Live(b)
    BY <1>1 DEF Live
  <2>3. \A s \in Procs : purge'[s] # NoPurge => purge'[s].account \in tombstone'
    BY <1>1, <1>5, <1>6 DEF PurgeInv
  <2>4. \A u \in Ops : op'[u] = op[u] \/ op'[u].stage # "open"
    BY <1>1 DEF Idle
  <2>5. \A b \in Accounts : GuardExclusive(b)' \/ b \in removed' =>
          \A u \in Ops : op'[u].account = b => op'[u].stage # "open"
    BY <1>1, <2>1, <2>4 DEF PurgeInv
  <2>6. \A b \in Accounts : LifetimeExclusive(b)' \/ b \in removed' => Live(b)' = {}
    BY <1>1, <2>1, <2>2 DEF PurgeInv
  <2> QED BY <2>3, <2>5, <2>6 DEF PurgeInv
<1> QED BY <1>8, <1>9, <1>10 DEF HandleInv

-----------------------------------------------------------------------------
(* The theorems. *)

LEMMA InitInv == Init => HandleInv
<1> SUFFICES ASSUME Init PROVE HandleInv
  OBVIOUS
<1>1. /\ tombstone = {} /\ removed = {} /\ handle = [h \in HandleIds |-> NoHandle]
      /\ cached = [p \in Procs |-> [a \in Accounts |-> 0]]
      /\ rank = [p \in Procs |-> [a \in Accounts |-> 0]]
      /\ blocked = [p \in Procs |-> {}] /\ op = [u \in Ops |-> Idle]
      /\ purge = [p \in Procs |-> NoPurge] /\ upsets = 0
  BY DEF Init
<1>2. TypeOK
  <2>1. \A p \in Procs : Open(p) = {}
    BY <1>1 DEF Open
  <2>2. 0 \in 0..Cardinality(Accounts) /\ 0 \in 0..MaxUpsets
    BY HandleAssumption, FS_CardinalityType
  <2>3. /\ [a \in Accounts |-> 0] \in [Accounts -> HandleIds \cup {0}]
        /\ [a \in Accounts |-> 0] \in [Accounts -> 0..Cardinality(Accounts)]
    BY <2>2
  <2> QED BY <1>1, <2>1, <2>2, <2>3 DEF TypeOK
<1>3. OpInv
  <2>1. \A u \in Ops : op[u].stage = "idle"
    BY <1>1 DEF Idle
  <2> QED BY <2>1 DEF OpInv, OpOK
<1>4. PurgeInv
  <2>1. \A p \in Procs : purge[p] = NoPurge /\ purge[p].stage = "idle"
    BY <1>1 DEF NoPurge
  <2>2. \A a \in Accounts : ~GuardExclusive(a) /\ ~LifetimeExclusive(a)
    BY <2>1 DEF GuardExclusive, LifetimeExclusive
  <2> QED BY <1>1, <2>1, <2>2 DEF PurgeInv
<1> QED BY <1>2, <1>3, <1>4 DEF HandleInv

LEMMA StepInv == HandleInv /\ [Next]_vars => HandleInv'
<1> SUFFICES ASSUME HandleInv, [Next]_vars PROVE HandleInv'
  OBVIOUS
<1>1. CASE UNCHANGED vars
  BY <1>1 DEF vars, HandleInv, TypeOK, OpInv, OpOK, PurgeInv, Open, Live, GuardExclusive,
              LifetimeExclusive
<1>2. ASSUME NEW u \in Ops, NEW a \in Wants[u], Acquire(u, a) PROVE HandleInv'
  BY <1>2, AcquireStep
<1>3. ASSUME NEW u \in Ops, Proceed(u) PROVE HandleInv'
  BY <1>3, BeginWriteStep, RefuseStep, OpenRefusedStep, OpenCachedStep, OpenNewStep,
     OpenFailsStep, EndUseStep, PutBackStep, EvictStep DEF Proceed
<1>4. ASSUME NEW h \in HandleIds, CloseResources(h) PROVE HandleInv'
  BY <1>4, CloseResourcesStep
<1>5. ASSUME NEW p \in Procs, Watch(p) \/ CloseIdle(p) \/ Crash(p) PROVE HandleInv'
  BY <1>5, WatchStep, CloseIdleStep, CrashStep
<1>6. ASSUME NEW p \in Procs, Guard(p) \/ Fence(p) \/ RemoveFiles(p) \/ ReleaseFence(p)
      PROVE  HandleInv'
  BY <1>6, GuardStep, FenceStep, RemoveFilesStep, ReleaseFenceStep
<1>7. ASSUME NEW p \in Purgers, NEW a \in Doomed, MarkDeleted(p, a) PROVE HandleInv'
  BY <1>7, MarkDeletedStep
<1> QED BY <1>1, <1>2, <1>3, <1>4, <1>5, <1>6, <1>7 DEF Next

\* The inductive invariant holds of every reachable state.
THEOREM Reachable == Spec => []HandleInv
BY InitInv, StepInv, PTL DEF Spec

\* Every variable holds a value of its kind, and what a cache hands out is open
\* and of that account and process.
THEOREM TypeCorrect == Spec => []TypeOK
<1>1. HandleInv => TypeOK
  BY DEF HandleInv
<1> QED BY <1>1, Reachable, PTL

\* Evictions, idle closing, scans putting back, watchers and deletions never
\* close the handle of an operation whose account is not being deleted.
THEOREM LeaseHolds == Spec => []LeaseKeepsHandle
<1>1. HandleInv => LeaseKeepsHandle
  BY DEF HandleInv, OpInv, OpOK, LeaseKeepsHandle
<1> QED BY <1>1, Reachable, PTL

\* Once the fence of a deletion stands, and for good once the directory is gone,
\* no process has the database open and no operation is about to open it.
THEOREM NeverRecreatedHolds == Spec => []NeverRecreated
<1>1. HandleInv => NeverRecreated
  <2>1. \A a \in Accounts : LifetimeExclusive(a) => GuardExclusive(a)
    BY DEF LifetimeExclusive, GuardExclusive
  <2> QED BY <2>1 DEF HandleInv, PurgeInv, NeverRecreated
<1> QED BY <1>1, Reachable, PTL
=============================================================================
