------------------------- MODULE StoreForwardProofs -------------------------
(***************************************************************************)
(* Theorems about StoreForward for every value of its constants.           *)
(***************************************************************************)
EXTENDS StoreForward, TLAPS

-----------------------------------------------------------------------------
(***************************************************************************)
(* Types.                                                                  *)
(***************************************************************************)

\* What the assumption says about site records.
LEMMA SiteTypes ==
    /\ Sites \subseteq [id : Nat \ {0}, account : Nat \ {0}]
    /\ NoSite \in Site /\ NoSite \notin Sites
    /\ NotLooked \notin Site
    /\ \A s \in Shards : \A d \in Domains : MaySite[s][d] \subseteq Sites
    /\ \A x \in Sites : x.account \in Accounts
    /\ Unrouted \notin Shards /\ Shards \subseteq Nat
<1>1. Sites \subseteq [id : Nat \ {0}, account : Nat \ {0}]
  BY ConstantsAssumption DEF Sites
<1>2. NoSite \notin Sites
  BY <1>1 DEF NoSite
<1>3. NotLooked \notin Site
  BY <1>1 DEF NotLooked, NoSite, Site
<1>4. \A x \in Sites : x.account \in Accounts
  BY DEF Accounts
<1>5. \A s \in Shards : \A d \in Domains : MaySite[s][d] \subseteq Sites
  BY DEF Sites
<1>6. Unrouted \notin Shards /\ Shards \subseteq Nat
  BY ConstantsAssumption DEF Unrouted
<1> QED BY <1>1, <1>2, <1>3, <1>4, <1>5, <1>6 DEF Site

\* A worker at rest, and one that has just selected or sorted its rows.
LEMMA WorkTypes ==
    /\ Idle \in WorkState
    /\ \A I \in SUBSET Item :
          /\ [Idle EXCEPT !.stage = "post", !.batch = I] \in WorkState
          /\ [Idle EXCEPT !.stage = "apply", !.reroute = I] \in WorkState
    /\ \A w \in WorkState : Return(w) \in WorkState
    /\ \A w \in WorkState, p \in BOOLEAN : RetryAll(w, p) \in WorkState
    /\ \A w \in WorkState : \A c, n : Sorted(w, c, n) \in WorkState
BY DEF WorkState, Idle, Return, RetryAll, Sorted

\* A live row is a row; NoRow is told apart by its rowid.
LEMMA LiveRows ==
    ASSUME TypeOK
    PROVE  /\ \A e \in Events : e \in Live <=> outbox[e] \in Row
           /\ \A e \in Events : e \in Live <=> outbox[e].id # 0
           /\ \A e \in Live : outbox[e].id \in RowIds /\ ItemOf(e) \in Item
<1>1. NoRow.id = 0 /\ \A r \in Row : r.id \in RowIds /\ r.id # 0
  BY ConstantsAssumption DEF NoRow, Row, RowIds
<1>2. NoRow \notin Row
  BY <1>1
<1>3. \A e \in Events : outbox[e] \in Row \cup {NoRow}
  BY DEF TypeOK
<1>4. \A e \in Live : outbox[e] \in Row
  BY <1>3 DEF Live
<1>5. \A e \in Live : ItemOf(e) \in Item
  BY <1>4 DEF Row, ItemOf, Item
<1>6. Live \subseteq Events
  BY DEF Live
<1> QED BY <1>1, <1>2, <1>3, <1>4, <1>5, <1>6 DEF Live

LEMMA SelectTypes ==
    ASSUME TypeOK, NEW s \in Workers
    PROVE  SelectRows(s) \in SUBSET Item
BY LiveRows DEF SelectRows, Due

\* The routing map answers with sites, and with configured shards.
LEMMA RouteTypes ==
    ASSUME TypeOK, NEW d \in Domains
    PROVE  /\ Owner(d) \subseteq Shards
           /\ CacheLookup(d) \in Site
           /\ \A a : LastContributor(a) \subseteq Shards
           /\ \A x : ShardFor(x) \subseteq Workers
<1>1. Owner(d) \subseteq Shards
  BY DEF Owner
<1>2. CacheLookup(d) \in Site
  <2>1. CASE Owner(d) = {}
    BY <2>1, SiteTypes DEF CacheLookup
  <2>2. CASE Owner(d) # {}
    <3>1. (CHOOSE s \in Owner(d) : TRUE) \in Shards
      BY <2>2, <1>1
    <3> QED BY <2>2, <3>1 DEF CacheLookup, TypeOK, Snapshot
  <2> QED BY <2>1, <2>2
<1>3. \A a : LastContributor(a) \subseteq Shards
  BY DEF LastContributor, Contributors
<1> QED BY <1>1, <1>2, <1>3 DEF ShardFor, Workers

LEMMA TypeInit == Init => TypeOK
<1> SUFFICES ASSUME Init PROVE TypeOK
  OBVIOUS
<1>1. Empty \in Snapshot /\ NoPoll \in Poll
  BY SiteTypes DEF Empty, Snapshot, NoPoll, Poll, Workers
<1>2. /\ owns \in [Shards -> Snapshot] /\ routes \in [Shards -> Snapshot]
      /\ diskRoutes \in [Shards -> Snapshot] /\ poll \in Poll
      /\ lastSuccess \in [Shards -> {"never", "fresh", "stale"}]
  BY <1>1 DEF Init, Snapshot
<1>3. /\ receipts \in [Accounts -> SUBSET Events] /\ gone \subseteq Accounts
      /\ accepted \subseteq Events /\ dropped \subseteq Events
      /\ late \subseteq Request
  BY DEF Init
<1>4. /\ outbox \in [Events -> Row \cup {NoRow}]
      /\ parked \in [Events -> ParkedRow \cup {NoEvent}]
      /\ buffered \in [Events -> Derived \cup {NoEvent}]
  BY DEF Init
<1>5. work \in [Workers -> WorkState]
  BY WorkTypes DEF Init
<1>6. folds \in [Accounts -> [Events -> 0..2]] /\ upsets \in 0..MaxUpsets
  BY ConstantsAssumption DEF Init
<1>7. crossed \in BOOLEAN
  BY DEF Init
<1> QED BY <1>2, <1>3, <1>4, <1>5, <1>6, <1>7 DEF TypeOK

-----------------------------------------------------------------------------
(* One lemma per action: TypeOK is preserved. *)

LEMMA TypeDerive ==
    ASSUME TypeOK, NEW e \in Events, Derive(e)
    PROVE  TypeOK'
<1>1. DomainOf[e] \in Domains
  BY ConstantsAssumption
<1>2. buffered' \in [Events -> Derived \cup {NoEvent}]
  BY <1>1, RouteTypes DEF Derive, TypeOK, Derived
<1> QED BY <1>2 DEF Derive, TypeOK, appVars, routeVars, queueVars, histVars

LEMMA TypeSend ==
    ASSUME TypeOK, NEW B \in SUBSET Events, Send(B)
    PROVE  TypeOK'
<1>1. \A e \in B : buffered[e] \in Derived
  BY DEF TypeOK, Send
<1>2. outbox' \in [Events -> Row \cup {NoRow}]
  <2>1. PICK ids \in [B \ Live -> RowIds] :
           outbox' = [e \in Events |->
                IF e \in B \ Live
                THEN [id |-> ids[e], shard |-> buffered[e].shard,
                      ev |-> [uuid |-> e, site |-> buffered[e].site],
                      attempts |-> 0, due |-> TRUE]
                ELSE outbox[e]]
    BY DEF Send
  <2>2. \A e \in B \ Live :
           [id |-> ids[e], shard |-> buffered[e].shard,
            ev |-> [uuid |-> e, site |-> buffered[e].site],
            attempts |-> 0, due |-> TRUE] \in Row
    BY <1>1, ConstantsAssumption DEF Row, Payload, Derived
  <2> QED BY <2>1, <2>2 DEF TypeOK
<1>3. buffered' \in [Events -> Derived \cup {NoEvent}] /\ accepted' \subseteq Events
  BY DEF Send, TypeOK
<1> QED BY <1>2, <1>3 DEF Send, TypeOK, appVars, routeVars

LEMMA TypeSendFails ==
    ASSUME TypeOK, NEW B \in SUBSET Events, SendFails(B)
    PROVE  TypeOK'
<1>1. buffered' \in [Events -> Derived \cup {NoEvent}]
  BY DEF SendFails, TypeOK
<1> QED BY <1>1 DEF SendFails, TypeOK, appVars, routeVars, queueVars, histVars

LEMMA TypePolls ==
    ASSUME TypeOK, NEW s \in Shards,
           PollNotModified(s) \/ PollFetch(s) \/ GoStale(s)
    PROVE  TypeOK'
<1>1. lastSuccess' \in [Shards -> {"never", "fresh", "stale"}]
  BY DEF TypeOK, PollNotModified, PollFetch, GoStale
<1>2. poll' \in Poll
  BY DEF TypeOK, PollNotModified, PollFetch, GoStale, Poll, Workers, routeVars
<1> QED BY <1>1, <1>2 DEF PollNotModified, PollFetch, GoStale, TypeOK,
           appVars, routeVars, queueVars, histVars

LEMMA TypePollPublish ==
    ASSUME TypeOK, PollPublish
    PROVE  TypeOK'
<1>1. poll.snapshot \in Snapshot
  BY DEF TypeOK, Poll
<1>2. NoPoll \in Poll
  BY SiteTypes DEF NoPoll, Poll, Workers, Empty, Snapshot
<1> QED BY <1>1, <1>2 DEF PollPublish, TypeOK, appVars, queueVars, histVars

LEMMA TypeDeliver ==
    ASSUME TypeOK, NEW s \in Shards, Deliver(s)
    PROVE  TypeOK'
<1>1. s \in Workers
  BY DEF Workers
<1>2. work' \in [Workers -> WorkState]
  BY <1>1, SelectTypes, WorkTypes DEF Deliver, TypeOK
<1> QED BY <1>2 DEF Deliver, TypeOK, appVars, routeVars, queueVars, histVars

\* What a shard writes for any set of payloads it takes for its own.
LEMMA TypeWrite ==
    ASSUME TypeOK, NEW mine \in SUBSET Payload, NEW ok \in SUBSET Accounts,
           WriteAccounts(mine, ok)
    PROVE  /\ receipts' \in [Accounts -> SUBSET Events]
           /\ folds' \in [Accounts -> [Events -> 0..2]]
           /\ dropped' \subseteq Events
<1>1. \A a : UuidsOf(mine, a) \subseteq Events
  BY DEF UuidsOf, Payload
<1>2. receipts' \in [Accounts -> SUBSET Events]
  BY <1>1 DEF WriteAccounts, TypeOK
<1>3. folds' \in [Accounts -> [Events -> 0..2]]
  BY DEF WriteAccounts, TypeOK
<1>4. dropped' \subseteq Events
  BY <1>1 DEF WriteAccounts, TypeOK
<1> QED BY <1>2, <1>3, <1>4

LEMMA TypeHandle ==
    ASSUME TypeOK, NEW s \in Shards, NEW mine \in SUBSET Payload,
           Handle(s, mine)
    PROVE  /\ receipts' \in [Accounts -> SUBSET Events]
           /\ folds' \in [Accounts -> [Events -> 0..2]]
           /\ dropped' \subseteq Events
           /\ work' \in [Workers -> WorkState]
<1>1. PICK ok \in SUBSET Accounts :
        /\ WriteAccounts(mine, ok)
        /\ \/ \E claimed \in SUBSET (Accounts \ ok) :
                 AnswerUsed(s, mine, ok, claimed)
           \/ \E permanent \in BOOLEAN :
                 work' = [work EXCEPT ![s] = RetryAll(@, permanent)]
  BY DEF Handle
<1>2. s \in Workers /\ work[s] \in WorkState
  BY DEF Workers, TypeOK
<1>3. work' \in [Workers -> WorkState]
  <2>1. CASE \E claimed \in SUBSET (Accounts \ ok) :
               AnswerUsed(s, mine, ok, claimed)
    <3>1. PICK claimed : AnswerUsed(s, mine, ok, claimed)
      BY <2>1
    <3> DEFINE answered == Sorted(work[s], Committed(mine, ok, claimed),
                                  NotMine(Batch(s), mine))
    <3>2. work' = [work EXCEPT ![s] = answered]
      BY <3>1 DEF AnswerUsed
    <3>3. answered \in WorkState
      BY <1>2, WorkTypes
    <3> HIDE DEF answered
    <3> QED BY <3>2, <3>3 DEF TypeOK
  <2>2. CASE \E permanent \in BOOLEAN :
               work' = [work EXCEPT ![s] = RetryAll(@, permanent)]
    <3>1. PICK permanent \in BOOLEAN :
             work' = [work EXCEPT ![s] = RetryAll(work[s], permanent)]
      BY <2>2
    <3>2. RetryAll(work[s], permanent) \in WorkState
      BY <1>2, WorkTypes
    <3> QED BY <3>1, <3>2 DEF TypeOK
  <2> QED BY <1>1, <2>1, <2>2
<1> QED BY <1>1, <1>3, TypeWrite

\* The posted events are payloads.
LEMMA BatchTypes ==
    ASSUME TypeOK, NEW s \in Shards
    PROVE  Batch(s) \in SUBSET Payload
BY DEF TypeOK, Batch, WorkState, Item, Workers

LEMMA TypeHandleIngest ==
    ASSUME TypeOK, NEW s \in Shards, HandleIngest(s)
    PROVE  TypeOK'
<1>1. Mine(s, Batch(s)) \in SUBSET Payload
  BY BatchTypes DEF Mine
<1>2. Handle(s, Mine(s, Batch(s)))
  BY DEF HandleIngest
<1>3. /\ receipts' \in [Accounts -> SUBSET Events]
      /\ folds' \in [Accounts -> [Events -> 0..2]]
      /\ dropped' \subseteq Events
      /\ work' \in [Workers -> WorkState]
  BY <1>1, <1>2, TypeHandle
<1> QED BY <1>2, <1>3 DEF HandleIngest, Handle, TypeOK, routeVars, queueVars

LEMMA TypeChangeSite ==
    ASSUME TypeOK, NEW s \in Shards, NEW d \in Domains, ChangeSite(s, d)
    PROVE  owns' \in [Shards -> Snapshot] /\ upsets' \in 0..MaxUpsets
<1>1. PICK x \in MaySite[s][d] \cup {NoSite} : owns' = [owns EXCEPT ![s][d] = x]
  BY DEF ChangeSite
<1>2. x \in Site
  BY SiteTypes DEF Site
<1>3. upsets' \in 0..MaxUpsets
  BY ConstantsAssumption DEF ChangeSite, TypeOK
<1> QED BY <1>1, <1>2, <1>3 DEF TypeOK, Snapshot

LEMMA TypeHandleAcrossRefresh ==
    ASSUME TypeOK, NEW s \in Shards, HandleAcrossRefresh(s)
    PROVE  TypeOK'
<1>1. owns' \in [Shards -> Snapshot] /\ upsets' \in 0..MaxUpsets
  BY TypeChangeSite DEF HandleAcrossRefresh
<1>2. PICK mine : mine \in SUBSET Payload /\ Handle(s, mine)
  <2> DEFINE before(n) == {it.ev : it \in {i \in work[s].batch : i.id <= n}}
             after(n) == {ev \in Batch(s) \ before(n) :
                             /\ ev.site = owns'[s][DomainOf[ev.uuid]]
                             /\ ev.site # NoSite}
  <2>1. PICK n \in RowIds : Handle(s, Mine(s, before(n)) \cup after(n))
    BY DEF HandleAcrossRefresh
  <2>2. before(n) \subseteq Batch(s)
    BY DEF Batch
  <2>3. Mine(s, before(n)) \subseteq Payload /\ after(n) \subseteq Payload
    BY <2>2, BatchTypes DEF Mine
  <2> DEFINE mine == Mine(s, before(n)) \cup after(n)
  <2>4. mine \in SUBSET Payload /\ Handle(s, mine)
    BY <2>1, <2>3
  <2> HIDE DEF mine
  <2> QED BY <2>4
<1>3. /\ receipts' \in [Accounts -> SUBSET Events]
      /\ folds' \in [Accounts -> [Events -> 0..2]]
      /\ dropped' \subseteq Events
      /\ work' \in [Workers -> WorkState]
  BY <1>2, TypeHandle
<1> QED BY <1>1, <1>2, <1>3 DEF Handle, TypeOK, routeVars, queueVars

LEMMA TypePostFails ==
    ASSUME TypeOK, NEW s \in Shards, PostFails(s)
    PROVE  TypeOK'
<1>1. s \in Workers /\ work[s] \in WorkState
  BY DEF Workers, TypeOK
<1>2. work' \in [Workers -> WorkState]
  <2>1. PICK permanent \in BOOLEAN :
           work' = [work EXCEPT ![s] = RetryAll(work[s], permanent)]
    BY DEF PostFails
  <2>2. RetryAll(work[s], permanent) \in WorkState
    BY <1>1, WorkTypes
  <2> QED BY <2>1, <2>2 DEF TypeOK
<1>3. [shard |-> s, events |-> Batch(s)] \in Request
  BY BatchTypes DEF Request
<1>4. late' \subseteq Request
  BY <1>3 DEF PostFails, TypeOK
<1> QED BY <1>2, <1>4 DEF PostFails, TypeOK, appVars, routeVars, queueVars,
           histVars

LEMMA TypeHandleLate ==
    ASSUME TypeOK, NEW r \in late, HandleLate(r)
    PROVE  TypeOK'
<1>1. Mine(r.shard, r.events) \in SUBSET Payload
  BY DEF TypeOK, Request, Mine
<1>2. /\ receipts' \in [Accounts -> SUBSET Events]
      /\ folds' \in [Accounts -> [Events -> 0..2]]
      /\ dropped' \subseteq Events
  BY <1>1, TypeWrite DEF HandleLate
<1> QED BY <1>2 DEF HandleLate, TypeOK, routeVars, queueVars

\* Shrinking the rows still to apply, and the routing answer, keep a worker's
\* state well formed.
LEMMA ShrinkTypes ==
    ASSUME TypeOK, NEW w \in Workers, NEW it, NEW x \in Site \cup {NotLooked}
    PROVE  /\ [work[w] EXCEPT !.ack = @ \ {it}] \in WorkState
           /\ [work[w] EXCEPT !.retry = @ \ {it}] \in WorkState
           /\ [work[w] EXCEPT !.look = x] \in WorkState
           /\ [work[w] EXCEPT !.reroute = @ \ {it}, !.look = NotLooked] \in WorkState
<1>1. work[w] \in WorkState
  BY DEF TypeOK
<1>2. [work[w] EXCEPT !.ack = @ \ {it}] \in WorkState
  BY <1>1 DEF WorkState
<1>3. [work[w] EXCEPT !.retry = @ \ {it}] \in WorkState
  BY <1>1 DEF WorkState
<1>4. [work[w] EXCEPT !.look = x] \in WorkState
  BY <1>1 DEF WorkState
<1>5. [work[w] EXCEPT !.reroute = @ \ {it}, !.look = NotLooked] \in WorkState
  BY <1>1 DEF WorkState
<1> QED BY <1>2, <1>3, <1>4, <1>5

LEMMA TypeDeleteCommitted ==
    ASSUME TypeOK, NEW s \in Shards, DeleteCommitted(s)
    PROVE  TypeOK'
<1>1. s \in Workers
  BY DEF Workers
<1>2. PICK it \in work[s].ack :
         /\ outbox' = [e \in Events |->
               IF e = it.ev.uuid /\ outbox[e].id = it.id THEN NoRow ELSE outbox[e]]
         /\ work' = [work EXCEPT ![s] =
               Return([work[s] EXCEPT !.ack = @ \ {it}])]
  BY DEF DeleteCommitted
<1>3. work' \in [Workers -> WorkState]
  <2>1. NotLooked \in Site \cup {NotLooked}
    OBVIOUS
  <2>2. [work[s] EXCEPT !.ack = @ \ {it}] \in WorkState
    BY <1>1, <2>1, ShrinkTypes
  <2>3. Return([work[s] EXCEPT !.ack = @ \ {it}]) \in WorkState
    BY <2>2, WorkTypes
  <2> QED BY <1>2, <2>3 DEF TypeOK
<1>4. outbox' \in [Events -> Row \cup {NoRow}]
  BY <1>2 DEF TypeOK
<1> QED BY <1>3, <1>4 DEF DeleteCommitted, TypeOK, appVars, routeVars, histVars

LEMMA TypeResolveLookup ==
    ASSUME TypeOK, NEW w \in Workers, ResolveLookup(w)
    PROVE  TypeOK'
<1>1. PICK it \in work[w].reroute :
         work' = [work EXCEPT ![w].look = CacheLookup(DomainOf[it.ev.uuid])]
  BY DEF ResolveLookup
<1>2. CacheLookup(DomainOf[it.ev.uuid]) \in Site
  <2>1. it.ev.uuid \in Events
    BY DEF TypeOK, WorkState, Item, Payload
  <2> QED BY <2>1, RouteTypes, ConstantsAssumption
<1>3. [work[w] EXCEPT !.look = CacheLookup(DomainOf[it.ev.uuid])] \in WorkState
  BY <1>2, ShrinkTypes
<1>4. work' \in [Workers -> WorkState]
  BY <1>1, <1>3 DEF TypeOK
<1> QED BY <1>4 DEF ResolveLookup, TypeOK, appVars, routeVars, queueVars, histVars

LEMMA ReroutedTypes ==
    ASSUME TypeOK, NEW w \in Workers, NEW it
    PROVE  [work EXCEPT ![w] = Rerouted(w, it)] \in [Workers -> WorkState]
<1>1. [work[w] EXCEPT !.reroute = @ \ {it}, !.look = NotLooked] \in WorkState
  BY ShrinkTypes
<1>2. Rerouted(w, it) \in WorkState
  BY <1>1, WorkTypes DEF Rerouted
<1> QED BY <1>2 DEF TypeOK

\* An item names a rowid and an event; only rows carry its rowid.
LEMMA ItemTypes ==
    ASSUME TypeOK, NEW w \in Workers,
           NEW it \in work[w].batch \cup work[w].ack \cup work[w].reroute
                         \cup work[w].retry
    PROVE  /\ it \in Item /\ it.id \in RowIds /\ it.id # 0
           /\ it.ev \in Payload /\ it.ev.uuid \in Events
           /\ it.attempts \in 0..MaxAttempts
           /\ \A e \in Events : outbox[e].id = it.id => outbox[e] \in Row
<1>1. it \in Item
  BY DEF TypeOK, WorkState
<1>2. it.id \in RowIds /\ it.id # 0
  BY <1>1, ConstantsAssumption DEF Item, RowIds
<1>3. it.ev \in Payload /\ it.ev.uuid \in Events /\ it.attempts \in 0..MaxAttempts
  BY <1>1 DEF Item, Payload
<1> QED BY <1>1, <1>2, <1>3, LiveRows

\* The updates of a row that the statements of a worker make.
LEMMA RowTypes ==
    ASSUME NEW r \in Row
    PROVE  /\ [r EXCEPT !.shard = Unrouted, !.attempts = 0, !.due = TRUE] \in Row
           /\ \A t \in Workers, ev \in Payload :
                 [r EXCEPT !.shard = t, !.ev = ev] \in Row
           /\ \A n \in 0..MaxAttempts :
                 [r EXCEPT !.due = FALSE, !.attempts = n] \in Row
           /\ [r EXCEPT !.due = TRUE] \in Row
<1>1. Unrouted \in Workers /\ 0 \in 0..MaxAttempts
  BY ConstantsAssumption DEF Workers
<1>2. [r EXCEPT !.shard = Unrouted, !.attempts = 0, !.due = TRUE] \in Row
  BY <1>1 DEF Row
<1>3. ASSUME NEW t \in Workers, NEW ev \in Payload
      PROVE  [r EXCEPT !.shard = t, !.ev = ev] \in Row
  BY DEF Row
<1>4. ASSUME NEW n \in 0..MaxAttempts
      PROVE  [r EXCEPT !.due = FALSE, !.attempts = n] \in Row
  BY DEF Row
<1>5. [r EXCEPT !.due = TRUE] \in Row
  BY DEF Row
<1> QED BY <1>2, <1>3, <1>4, <1>5

LEMMA TypeHandleNotMine ==
    ASSUME TypeOK, NEW s \in Shards, HandleNotMine(s)
    PROVE  TypeOK'
<1>1. s \in Workers /\ work[s].look \in Site \cup {NotLooked}
  BY DEF Workers, TypeOK, WorkState
<1>2. PICK it \in work[s].reroute :
         /\ \/ \E t \in Resolved(work[s].look) :
                  /\ outbox' = [e \in Events |->
                        IF outbox[e].id = it.id
                        THEN [id |-> it.id, shard |-> t,
                              ev |-> [uuid |-> it.ev.uuid, site |-> work[s].look],
                              attempts |-> 0, due |-> TRUE]
                        ELSE outbox[e]]
                  /\ UNCHANGED dropped
            \/ outbox' = DeleteRow(it.id) /\ dropped' \subseteq dropped \cup Live
            \/ /\ outbox' = [e \in Events |->
                     IF outbox[e].id = it.id
                     THEN [outbox[e] EXCEPT !.shard = Unrouted,
                                            !.attempts = 0, !.due = TRUE]
                     ELSE outbox[e]]
               /\ UNCHANGED dropped
         /\ work' = [work EXCEPT ![s] = Rerouted(s, it)]
  BY DEF HandleNotMine, GiveUp
<1>3. work' \in [Workers -> WorkState]
  BY <1>1, <1>2, ReroutedTypes
<1>4. dropped' \subseteq Events /\ crossed' \in BOOLEAN
  BY <1>2 DEF TypeOK, Live, HandleNotMine, Hits
<1>5. outbox' \in [Events -> Row \cup {NoRow}]
  <2>1. ASSUME NEW t \in Resolved(work[s].look),
               outbox' = [e \in Events |->
                        IF outbox[e].id = it.id
                        THEN [id |-> it.id, shard |-> t,
                              ev |-> [uuid |-> it.ev.uuid, site |-> work[s].look],
                              attempts |-> 0, due |-> TRUE]
                        ELSE outbox[e]]
        PROVE  outbox' \in [Events -> Row \cup {NoRow}]
    <3>1. t \in Workers
      BY DEF Resolved, LastContributor, Contributors, Workers
    <3>2. work[s].look \in Site
      BY <1>1 DEF HandleNotMine
    <3>3. [id |-> it.id, shard |-> t,
           ev |-> [uuid |-> it.ev.uuid, site |-> work[s].look],
           attempts |-> 0, due |-> TRUE] \in Row
      BY <1>1, <3>1, <3>2, ItemTypes, ConstantsAssumption DEF Row, Payload
    <3> QED BY <2>1, <3>3 DEF TypeOK
  <2>2. CASE outbox' = DeleteRow(it.id)
    BY <2>2 DEF DeleteRow, TypeOK
  <2>3. CASE outbox' = [e \in Events |->
                     IF outbox[e].id = it.id
                     THEN [outbox[e] EXCEPT !.shard = Unrouted,
                                            !.attempts = 0, !.due = TRUE]
                     ELSE outbox[e]]
    <3>1. \A e \in Events : outbox[e].id = it.id =>
             [outbox[e] EXCEPT !.shard = Unrouted, !.attempts = 0, !.due = TRUE]
                \in Row
      BY <1>1, ItemTypes, RowTypes
    <3> QED BY <2>3, <3>1 DEF TypeOK
  <2> QED BY <1>2, <2>1, <2>2, <2>3
<1> QED BY <1>3, <1>4, <1>5 DEF HandleNotMine, TypeOK, appVars, routeVars

LEMMA TypeResolveUnrouted ==
    ASSUME TypeOK, ResolveUnrouted
    PROVE  TypeOK'
<1>1. Unrouted \in Workers /\ work[Unrouted].look \in Site \cup {NotLooked}
  BY DEF Workers, TypeOK, WorkState
<1>2. PICK it \in work[Unrouted].reroute :
         /\ \/ \E t \in Resolved(work[Unrouted].look) :
                  /\ outbox' = [e \in Events |->
                        IF outbox[e].id = it.id
                        THEN [outbox[e] EXCEPT !.shard = t,
                                 !.ev = [uuid |-> it.ev.uuid,
                                         site |-> work[Unrouted].look]]
                        ELSE outbox[e]]
                  /\ UNCHANGED dropped
            \/ outbox' = DeleteRow(it.id) /\ dropped' \subseteq dropped \cup Live
            \/ UNCHANGED <<outbox, dropped>>
         /\ work' = [work EXCEPT ![Unrouted] = Rerouted(Unrouted, it)]
  BY DEF ResolveUnrouted, GiveUp
<1>3. work' \in [Workers -> WorkState]
  BY <1>1, <1>2, ReroutedTypes
<1>0. it.ev.uuid \in Events
  BY <1>1, ItemTypes
<1>4. dropped' \subseteq Events /\ crossed' \in BOOLEAN
  BY <1>2 DEF TypeOK, Live, ResolveUnrouted, Hits
<1>5. outbox' \in [Events -> Row \cup {NoRow}]
  <2>1. ASSUME NEW t \in Resolved(work[Unrouted].look),
               outbox' = [e \in Events |->
                        IF outbox[e].id = it.id
                        THEN [outbox[e] EXCEPT !.shard = t,
                                 !.ev = [uuid |-> it.ev.uuid,
                                         site |-> work[Unrouted].look]]
                        ELSE outbox[e]]
        PROVE  outbox' \in [Events -> Row \cup {NoRow}]
    <3>1. t \in Workers
      BY DEF Resolved, LastContributor, Contributors, Workers
    <3>2. work[Unrouted].look \in Site
      BY <1>1 DEF ResolveUnrouted
    <3>3. \A e \in Events : outbox[e].id = it.id =>
             [outbox[e] EXCEPT !.shard = t,
                 !.ev = [uuid |-> it.ev.uuid, site |-> work[Unrouted].look]] \in Row
      <4>1. [uuid |-> it.ev.uuid, site |-> work[Unrouted].look] \in Payload
        BY <1>0, <3>2 DEF Payload
      <4> QED BY <1>1, <3>1, <4>1, ItemTypes, RowTypes
    <3> QED BY <2>1, <3>3 DEF TypeOK
  <2>2. CASE outbox' = DeleteRow(it.id)
    BY <2>2 DEF DeleteRow, TypeOK
  <2>3. CASE UNCHANGED outbox
    BY <2>3 DEF TypeOK
  <2> QED BY <1>2, <2>1, <2>2, <2>3
<1> QED BY <1>3, <1>4, <1>5 DEF ResolveUnrouted, TypeOK, appVars, routeVars

LEMMA TypeRetryRow ==
    ASSUME TypeOK, NEW s \in Shards, RetryRow(s)
    PROVE  TypeOK'
<1>1. s \in Workers
  BY DEF Workers
<1>2. PICK it \in work[s].retry :
          /\ outbox' = [e \in Events |->
                IF outbox[e].id = it.id
                THEN [outbox[e] EXCEPT !.due = FALSE, !.attempts =
                         IF it.attempts < MaxAttempts THEN it.attempts + 1
                                                      ELSE MaxAttempts]
                ELSE outbox[e]]
          /\ work' = [work EXCEPT ![s] =
                Return([work[s] EXCEPT !.retry = @ \ {it}])]
  BY DEF RetryRow
<1>3. work' \in [Workers -> WorkState]
  <2>1. [work[s] EXCEPT !.retry = @ \ {it}] \in WorkState
    BY <1>1, ShrinkTypes
  <2>2. Return([work[s] EXCEPT !.retry = @ \ {it}]) \in WorkState
    BY <2>1, WorkTypes
  <2> QED BY <1>2, <2>2 DEF TypeOK
<1>4. outbox' \in [Events -> Row \cup {NoRow}]
  <2>1. (IF it.attempts < MaxAttempts THEN it.attempts + 1 ELSE MaxAttempts)
           \in 0..MaxAttempts
    BY <1>1, ItemTypes, ConstantsAssumption
  <2>2. \A e \in Events : outbox[e].id = it.id =>
           [outbox[e] EXCEPT !.due = FALSE, !.attempts =
              IF it.attempts < MaxAttempts THEN it.attempts + 1
                                           ELSE MaxAttempts] \in Row
    BY <1>1, <2>1, ItemTypes, RowTypes
  <2> QED BY <1>2, <2>2 DEF TypeOK
<1>5. crossed' \in BOOLEAN
  BY DEF RetryRow, Hits, TypeOK
<1> QED BY <1>3, <1>4, <1>5 DEF RetryRow, TypeOK, appVars, routeVars

LEMMA TypeSelectUnrouted ==
    ASSUME TypeOK, SelectUnrouted
    PROVE  TypeOK'
<1>1. Unrouted \in Workers
  BY DEF Workers
<1>2. [Idle EXCEPT !.stage = "apply", !.reroute = SelectRows(Unrouted)]
         \in WorkState
  BY <1>1, SelectTypes, WorkTypes
<1>3. work' \in [Workers -> WorkState]
  BY <1>2 DEF SelectUnrouted, TypeOK
<1> QED BY <1>3 DEF SelectUnrouted, TypeOK, appVars, routeVars, queueVars,
           histVars

LEMMA TypeParkRows ==
    ASSUME TypeOK, NEW s \in Shards, ParkRows(s)
    PROVE  TypeOK'
<1> DEFINE gives == {e \in Live : \E it \in work[s].retry : outbox[e].id = it.id}
<1>1. /\ parked' = [e \in Events |->
               IF e \in gives /\ parked[e] = NoEvent
               THEN [ev |-> outbox[e].ev, shard |-> outbox[e].shard]
               ELSE parked[e]]
      /\ outbox' = [e \in Events |-> IF e \in gives THEN NoRow ELSE outbox[e]]
  BY DEF ParkRows
<1>2. \A e \in gives : outbox[e] \in Row
  BY LiveRows DEF Live
<1>3. \A e \in gives :
         [ev |-> outbox[e].ev, shard |-> outbox[e].shard] \in ParkedRow
  BY <1>2 DEF Row, ParkedRow
<1> HIDE DEF gives
<1>4. /\ parked' \in [Events -> ParkedRow \cup {NoEvent}]
      /\ outbox' \in [Events -> Row \cup {NoRow}]
  BY <1>1, <1>3 DEF TypeOK
<1>5. work' \in [Workers -> WorkState]
  BY WorkTypes DEF ParkRows, TypeOK
<1>6. crossed' \in BOOLEAN
  BY DEF ParkRows, Hits, TypeOK
<1> QED BY <1>4, <1>5, <1>6 DEF ParkRows, TypeOK, appVars, routeVars

LEMMA TypeStatementFails ==
    ASSUME TypeOK, NEW w \in Workers, StatementFails(w)
    PROVE  TypeOK'
<1>1. work' \in [Workers -> WorkState]
  BY WorkTypes DEF StatementFails, TypeOK
<1> QED BY <1>1 DEF StatementFails, TypeOK, appVars, routeVars, queueVars,
           histVars

LEMMA TypeBackoffElapses ==
    ASSUME TypeOK, NEW e \in Events, BackoffElapses(e)
    PROVE  TypeOK'
<1>1. [outbox[e] EXCEPT !.due = TRUE] \in Row
  BY LiveRows, RowTypes DEF BackoffElapses
<1>2. outbox' = [outbox EXCEPT ![e] = [outbox[e] EXCEPT !.due = TRUE]]
  BY DEF BackoffElapses
<1>3. outbox' \in [Events -> Row \cup {NoRow}]
  BY <1>1, <1>2 DEF TypeOK
<1> QED BY <1>3 DEF BackoffElapses, TypeOK, appVars, routeVars, histVars

LEMMA TypeReplayParked ==
    ASSUME TypeOK, ReplayParked
    PROVE  /\ outbox' \in [Events -> Row \cup {NoRow}]
           /\ parked' \in [Events -> ParkedRow \cup {NoEvent}]
<1> DEFINE back == {e \in Events : parked[e] # NoEvent} \ Live
<1>1. PICK ids \in [back -> RowIds] :
         outbox' = [e \in Events |->
             IF e \in back
             THEN [id |-> ids[e], shard |-> parked[e].shard,
                   ev |-> parked[e].ev, attempts |-> 0, due |-> TRUE]
             ELSE outbox[e]]
  BY DEF ReplayParked
<1>2. \A e \in back : parked[e] \in ParkedRow
  BY DEF TypeOK
<1> HIDE DEF back
<1>3. ASSUME NEW e \in back
      PROVE  [id |-> ids[e], shard |-> parked[e].shard,
              ev |-> parked[e].ev, attempts |-> 0, due |-> TRUE] \in Row
  BY <1>2, ConstantsAssumption DEF ParkedRow, Row
<1>4. outbox' \in [Events -> Row \cup {NoRow}]
  BY <1>1, <1>3 DEF TypeOK
<1>5. parked' \in [Events -> ParkedRow \cup {NoEvent}]
  BY DEF ReplayParked
<1> QED BY <1>4, <1>5

LEMMA TypeRestart ==
    ASSUME TypeOK, Restart
    PROVE  TypeOK'
<1>1. /\ outbox' \in [Events -> Row \cup {NoRow}]
      /\ parked' \in [Events -> ParkedRow \cup {NoEvent}]
  BY TypeReplayParked DEF Restart, queueVars, TypeOK
<1>2. buffered' \in [Events -> Derived \cup {NoEvent}]
  BY DEF Restart
<1>3. work' \in [Workers -> WorkState]
  BY WorkTypes DEF Restart
<1>4. poll' \in Poll
  BY SiteTypes DEF Restart, NoPoll, Poll, Workers, Empty, Snapshot
<1>5. lastSuccess' \in [Shards -> {"never", "fresh", "stale"}]
  BY DEF Restart
<1>6. upsets' \in 0..MaxUpsets
  BY ConstantsAssumption DEF Restart, TypeOK
<1> QED BY <1>1, <1>2, <1>3, <1>4, <1>5, <1>6 DEF Restart, TypeOK, appVars

LEMMA TypeApps ==
    ASSUME TypeOK,
           \/ \E s \in Shards : \E d \in Domains : SiteChange(s, d)
           \/ \E a \in Accounts : DeleteAccount(a)
           \/ \E a \in Accounts : \E e \in Events : PruneReceipt(a, e)
    PROVE  TypeOK'
<1>1. CASE \E s \in Shards : \E d \in Domains : SiteChange(s, d)
  <2>1. owns' \in [Shards -> Snapshot] /\ upsets' \in 0..MaxUpsets
    BY <1>1, TypeChangeSite DEF SiteChange
  <2> QED BY <1>1, <2>1 DEF SiteChange, TypeOK, routeVars, queueVars
<1>2. CASE \E a \in Accounts : DeleteAccount(a)
  <2>1. gone' \subseteq Accounts /\ upsets' \in 0..MaxUpsets
    BY <1>2, ConstantsAssumption DEF DeleteAccount, TypeOK
  <2> QED BY <1>2, <2>1 DEF DeleteAccount, TypeOK, routeVars, queueVars
<1>3. CASE \E a \in Accounts : \E e \in Events : PruneReceipt(a, e)
  <2>1. receipts' \in [Accounts -> SUBSET Events]
    BY <1>3 DEF PruneReceipt, TypeOK
  <2> QED BY <1>3, <2>1 DEF PruneReceipt, TypeOK, routeVars, queueVars, histVars
<1> QED BY <1>1, <1>2, <1>3

LEMMA TypeShardStep ==
    ASSUME TypeOK, NEW s \in Shards, ShardStep(s)
    PROVE  TypeOK'
BY TypePolls, TypeDeliver, TypePostFails, TypeHandleIngest,
   TypeHandleAcrossRefresh, TypeDeleteCommitted, TypeHandleNotMine,
   TypeRetryRow, TypeParkRows DEF ShardStep

LEMMA TypeNext == TypeOK /\ [Next]_vars => TypeOK'
<1> SUFFICES ASSUME TypeOK, [Next]_vars PROVE TypeOK'
  OBVIOUS
<1>1. CASE \E e \in Events : Derive(e) \/ BackoffElapses(e)
  BY <1>1, TypeDerive, TypeBackoffElapses
<1>2. CASE \E B \in SUBSET Events : Send(B) \/ SendFails(B)
  BY <1>2, TypeSend, TypeSendFails
<1>3. CASE \E s \in Shards : ShardStep(s)
  BY <1>3, TypeShardStep
<1>4. CASE PollPublish
  BY <1>4, TypePollPublish
<1>5. CASE SelectUnrouted \/ ResolveUnrouted
  BY <1>5, TypeSelectUnrouted, TypeResolveUnrouted
<1>6. CASE \E w \in Workers : ResolveLookup(w) \/ StatementFails(w)
  BY <1>6, TypeResolveLookup, TypeStatementFails
<1>7. CASE \E r \in late : HandleLate(r)
  BY <1>7, TypeHandleLate
<1>8. CASE Restart
  BY <1>8, TypeRestart
<1>9. CASE \/ \E s \in Shards : \E d \in Domains : SiteChange(s, d)
           \/ \E a \in Accounts : DeleteAccount(a)
           \/ \E a \in Accounts : \E e \in Events : PruneReceipt(a, e)
  BY <1>9, TypeApps
<1>10. CASE UNCHANGED vars
  BY <1>10 DEF vars, appVars, routeVars, queueVars, histVars, TypeOK
<1> QED BY <1>1, <1>2, <1>3, <1>4, <1>5, <1>6, <1>7, <1>8, <1>9, <1>10 DEF Next

\* Types: in every behaviour, whatever the number of shards, events and rows,
\* every variable of the delivery path keeps to its kind.
THEOREM TypeCorrect == Spec => []TypeOK
BY TypeInit, TypeNext, PTL DEF Spec

-----------------------------------------------------------------------------
(***************************************************************************)
(* At most once.  AtMostOnce alone is not inductive: a folded event must   *)
(* still have its receipt, so that the next request that carries it is     *)
(* recognised.  The receipt is written by the transaction that folds.      *)
(***************************************************************************)
Receipted == \A a \in Accounts, e \in Events :
                folds[a][e] <= 1 /\ (folds[a][e] = 1 => e \in receipts[a])

LEMMA ReceiptedWrite ==
    ASSUME TypeOK, Receipted, NEW mine, NEW ok, WriteAccounts(mine, ok)
    PROVE  Receipted'
<1> SUFFICES ASSUME NEW a \in Accounts, NEW e \in Events
             PROVE  /\ folds'[a][e] <= 1
                    /\ folds'[a][e] = 1 => e \in receipts'[a]
  BY DEF Receipted
<1>1. folds[a][e] \in 0..2 /\ folds[a][e] <= 1
      /\ (folds[a][e] = 1 => e \in receipts[a])
  BY DEF TypeOK, Receipted
<1>2. receipts[a] \subseteq receipts'[a]
  BY DEF WriteAccounts
<1> DEFINE fresh == a \in ok \ gone /\ e \in UuidsOf(mine, a) \ receipts[a]
<1>3. CASE fresh
  <2>1. folds[a][e] = 0
    BY <1>1, <1>3
  <2>2. folds'[a][e] = 1
    BY <2>1, <1>3 DEF WriteAccounts
  <2>3. e \in receipts'[a]
    BY <1>3 DEF WriteAccounts
  <2> QED BY <2>2, <2>3
<1>4. CASE ~fresh
  <2>1. folds'[a][e] = folds[a][e]
    BY <1>4 DEF WriteAccounts
  <2> QED BY <2>1, <1>1, <1>2
<1> QED BY <1>3, <1>4

LEMMA ReceiptedNext ==
    ASSUME ~ReceiptsExpire, TypeOK, Receipted, [Next]_vars
    PROVE  Receipted'
<1> DEFINE write == \E mine, ok : WriteAccounts(mine, ok)
<1>1. CASE write
  BY <1>1, ReceiptedWrite
<1>2. CASE UNCHANGED <<receipts, folds>>
  BY <1>2 DEF Receipted
<1>3. write \/ UNCHANGED <<receipts, folds>>
  <2>1. ASSUME NEW s \in Shards, ShardStep(s)
        PROVE  write \/ UNCHANGED <<receipts, folds>>
    <3>1. CASE HandleIngest(s) \/ HandleAcrossRefresh(s)
      <4>1. \E mine : Handle(s, mine)
        BY <3>1 DEF HandleIngest, HandleAcrossRefresh
      <4>2. write
        BY <4>1 DEF Handle
      <4> QED BY <4>2
    <3>2. CASE ~(HandleIngest(s) \/ HandleAcrossRefresh(s))
      BY <2>1, <3>2 DEF ShardStep, PollNotModified, PollFetch, GoStale, Deliver,
         PostFails, DeleteCommitted, HandleNotMine, RetryRow, ParkRows, appVars,
         histVars
    <3> QED BY <3>1, <3>2
  <2>2. ASSUME NEW r \in late, HandleLate(r)
        PROVE  write
    BY <2>2 DEF HandleLate
  <2>3. ASSUME NEW a \in Accounts, NEW e \in Events, PruneReceipt(a, e)
        PROVE  FALSE
    BY <2>3 DEF PruneReceipt
  <2>4. CASE \/ \E e \in Events : Derive(e) \/ BackoffElapses(e)
             \/ \E B \in SUBSET Events : Send(B) \/ SendFails(B)
             \/ PollPublish
    BY <2>4 DEF Derive, BackoffElapses, Send, SendFails, PollPublish, appVars,
       queueVars, histVars
  <2>5. CASE \/ SelectUnrouted \/ ResolveUnrouted
             \/ \E w \in Workers : ResolveLookup(w) \/ StatementFails(w)
    BY <2>5 DEF SelectUnrouted, ResolveUnrouted, ResolveLookup, StatementFails,
       appVars, histVars
  <2>6. CASE \/ Restart
             \/ \E s \in Shards : \E d \in Domains : SiteChange(s, d)
             \/ \E a \in Accounts : DeleteAccount(a)
    BY <2>6 DEF Restart, SiteChange, DeleteAccount, appVars
  <2>7. CASE UNCHANGED vars
    BY <2>7 DEF vars, appVars, histVars
  <2> QED BY <2>1, <2>2, <2>3, <2>4, <2>5, <2>6, <2>7 DEF Next
<1> QED BY <1>1, <1>2, <1>3

\* At most once: as long as no event outlives its receipt, no account folds an
\* event twice, however often it is retried, rerouted, replayed, sent again by
\* its client, or delivered late (claimEvents and writeAccountDurable).
THEOREM FoldsAtMostOnce ==
    ASSUME ~ReceiptsExpire
    PROVE  Spec => []AtMostOnce
<1>1. Init => Receipted
  BY DEF Init, Receipted
<1>2. TypeOK /\ Receipted /\ [Next]_vars => Receipted'
  BY ReceiptedNext
<1>3. Receipted => AtMostOnce
  BY DEF Receipted, AtMostOnce
<1> QED BY <1>1, <1>2, <1>3, TypeCorrect, PTL DEF Spec

-----------------------------------------------------------------------------
(***************************************************************************)
(* Rowids, losses and custody, whatever the number of events, shards and   *)
(* rows, and whatever a shard's site cache does, in the middle of a batch  *)
(* or between batches.                                                     *)
(*                                                                         *)
(* The argument: until a statement crosses to another event's row, every   *)
(* row carries its own event, and a worker's copy of a row is the copy of  *)
(* a row of its partition or of a settled event (OwnInv).  A statement     *)
(* that does not cross changes no row but that of its own event; if that   *)
(* event is not settled, the row is in the worker's partition, so that no  *)
(* other worker holds a copy of it, and this one holds no other.  What is  *)
(* acknowledged has been folded or given up, so the statements that delete *)
(* rows delete settled events, or move them to the dead letter.            *)
(***************************************************************************)
\* Rows and parked rows carry their own event, and rows have their own rowids.
RowInv ==
    /\ \A e \in Live : outbox[e].ev.uuid = e
    /\ \A e, f \in Live : outbox[e].id = outbox[f].id => e = f
    /\ \A e \in Events : parked[e] # NoEvent => parked[e].ev.uuid = e

\* A worker's copies are of accepted events, settled or in its partition still;
\* no two copies are of one event, and no copy is both rerouted and retried.
Holds(w, it) ==
    LET e == it.ev.uuid
    IN  /\ e \in Live /\ outbox[e].id = it.id
        /\ outbox[e].shard = w /\ outbox[e].ev = it.ev
Waiting(w) == work[w].batch \cup work[w].ack \cup work[w].reroute \cup work[w].retry
Orderly(k) == /\ k.batch = {} \/ k.reroute = {}
              /\ k.reroute \cap k.retry = {}
WorkOK(w) ==
    /\ \A it \in Waiting(w) : /\ it.ev.uuid \in accepted
                              /\ Settled(it.ev.uuid) \/ Holds(w, it)
    /\ \A it, jt \in Waiting(w) : it.ev.uuid = jt.ev.uuid => it = jt
    /\ \A it \in work[w].ack : Settled(it.ev.uuid)
    /\ Orderly(work[w])

\* A receipt is written with the fold, and what the tier holds was accepted.
LedgerInv ==
    /\ \A a \in Accounts : \A e \in receipts[a] : folds[a][e] > 0
    /\ Live \subseteq accepted
    /\ \A e \in Events : parked[e] # NoEvent => e \in accepted
    /\ \A r \in late : \A ev \in r.events : ev.uuid \in accepted

OwnInv == RowInv /\ LedgerInv /\ \A w \in Workers : WorkOK(w)

-----------------------------------------------------------------------------
(* What only grows. *)

Grows == /\ \A a \in Accounts, e \in Events : folds'[a][e] >= folds[a][e]
         /\ dropped \subseteq dropped' /\ accepted \subseteq accepted'
         /\ crossed => crossed'

LEMMA StaySettled ==
    ASSUME TypeOK, TypeOK', Grows, NEW e \in Events, Settled(e)
    PROVE  Settled(e)'
<1>1. CASE e \in dropped
  BY <1>1 DEF Grows, Settled
<1>2. ASSUME NEW a \in Accounts, folds[a][e] > 0
      PROVE  folds'[a][e] > 0
  <2>1. folds[a][e] \in 0..2 /\ folds'[a][e] \in 0..2
    BY DEF TypeOK
  <2> QED BY <1>2, <2>1 DEF Grows
<1> QED BY <1>1, <1>2 DEF Settled, Folded

LEMMA GrowsNext ==
    ASSUME TypeOK, [Next]_vars
    PROVE  Grows
<1> DEFINE write == \E mine, ok : WriteAccounts(mine, ok)
           quiet == UNCHANGED folds /\ dropped \subseteq dropped'
           mono  == accepted \subseteq accepted' /\ (crossed => crossed')
<1>1. \A a \in Accounts, e \in Events : folds[a][e] \in 0..2
  BY DEF TypeOK
<1>2. ASSUME NEW mine, NEW ok, WriteAccounts(mine, ok)
      PROVE  /\ \A a \in Accounts, e \in Events : folds'[a][e] >= folds[a][e]
             /\ dropped \subseteq dropped'
  <2>1. dropped \subseteq dropped'
    BY <1>2 DEF WriteAccounts
  <2>2. ASSUME NEW a \in Accounts, NEW e \in Events PROVE folds'[a][e] >= folds[a][e]
    <3>1. folds'[a][e] = folds[a][e] \/ folds'[a][e] = folds[a][e] + 1
      BY <1>2 DEF WriteAccounts
    <3> QED BY <1>1, <3>1
  <2> QED BY <2>1, <2>2
<1>3. (write \/ quiet) /\ mono => Grows
  BY <1>1, <1>2 DEF Grows
<1>4. (write \/ quiet) /\ mono
  <2>1. ASSUME NEW s \in Shards, ShardStep(s)
        PROVE  (write \/ quiet) /\ mono
    <3>1. CASE HandleIngest(s) \/ HandleAcrossRefresh(s)
      <4>1. \E mine : Handle(s, mine)
        BY <3>1 DEF HandleIngest, HandleAcrossRefresh
      <4> QED BY <4>1 DEF Handle
    <3>2. CASE HandleNotMine(s) \/ RetryRow(s) \/ ParkRows(s)
      BY <3>2 DEF HandleNotMine, RetryRow, ParkRows, GiveUp, Hits
    <3>3. CASE \/ PollNotModified(s) \/ PollFetch(s) \/ GoStale(s) \/ Deliver(s)
               \/ PostFails(s) \/ DeleteCommitted(s)
      BY <3>3 DEF PollNotModified, PollFetch, GoStale, Deliver, PostFails,
         DeleteCommitted, histVars
    <3> QED BY <2>1, <3>1, <3>2, <3>3 DEF ShardStep
  <2>2. ASSUME NEW r \in late, HandleLate(r)
        PROVE  (write \/ quiet) /\ mono
    BY <2>2 DEF HandleLate
  <2>3. CASE \/ \E e \in Events : Derive(e) \/ BackoffElapses(e)
             \/ \E B \in SUBSET Events : Send(B) \/ SendFails(B)
             \/ PollPublish
    <3>1. CASE \E B \in SUBSET Events : Send(B)
      BY <3>1 DEF Send
    <3>2. CASE ~\E B \in SUBSET Events : Send(B)
      BY <2>3, <3>2 DEF Derive, BackoffElapses, SendFails, PollPublish, histVars
    <3> QED BY <3>1, <3>2
  <2>4. CASE \/ SelectUnrouted \/ ResolveUnrouted
             \/ \E w \in Workers : ResolveLookup(w) \/ StatementFails(w)
    <3>1. CASE ResolveUnrouted
      <4>1. PICK it : \/ Hits({it}) /\ (dropped' = dropped \/ GiveUp(it))
                      \/ UNCHANGED <<dropped, crossed>>
        BY <3>1 DEF ResolveUnrouted
      <4>2. UNCHANGED <<folds, accepted>>
        BY <3>1 DEF ResolveUnrouted
      <4>3. crossed => crossed'
        BY <4>1 DEF Hits
      <4>4. dropped \subseteq dropped'
        BY <4>1 DEF GiveUp
      <4> QED BY <4>2, <4>3, <4>4
    <3>2. CASE SelectUnrouted
      BY <3>2 DEF SelectUnrouted, histVars
    <3>3. ASSUME NEW w \in Workers, ResolveLookup(w) \/ StatementFails(w)
          PROVE  (write \/ quiet) /\ mono
      BY <3>3 DEF ResolveLookup, StatementFails, histVars
    <3> QED BY <2>4, <3>1, <3>2, <3>3
  <2>5. CASE \/ Restart
             \/ \E s \in Shards : \E d \in Domains : SiteChange(s, d)
             \/ \E a \in Accounts : DeleteAccount(a)
             \/ \E a \in Accounts : \E e \in Events : PruneReceipt(a, e)
    BY <2>5 DEF Restart, SiteChange, DeleteAccount, PruneReceipt, histVars
  <2>6. CASE UNCHANGED vars
    BY <2>6 DEF vars, histVars
  <2> QED BY <2>1, <2>2, <2>3, <2>4, <2>5, <2>6 DEF Next
<1> QED BY <1>3, <1>4

-----------------------------------------------------------------------------
(* Rows and the copies of them. *)

\* A row is as every copy of it says.
Same(e) == /\ outbox'[e] # NoRow /\ outbox'[e].id = outbox[e].id
           /\ outbox'[e].shard = outbox[e].shard /\ outbox'[e].ev = outbox[e].ev

\* A worker keeps some of its copies, and their rows are settled or left alone.
LEMMA WorkStep ==
    ASSUME TypeOK, TypeOK', Grows, NEW w \in Workers, WorkOK(w),
           Waiting(w)' \subseteq Waiting(w), Orderly(work'[w]),
           \A it \in work'[w].ack : it \in work[w].ack \/ Settled(it.ev.uuid)',
           \A it \in Waiting(w)' :
              Holds(w, it) => Settled(it.ev.uuid)' \/ Same(it.ev.uuid)
    PROVE  WorkOK(w)'
<1>1. \A it \in Waiting(w) : it.ev.uuid \in Events
  BY ItemTypes DEF Waiting
<1>2. \A it \in work[w].ack : it \in Waiting(w)
  BY DEF Waiting
<1>3. ASSUME NEW it \in Waiting(w)'
      PROVE  it.ev.uuid \in accepted' /\ (Settled(it.ev.uuid)' \/ Holds(w, it)')
  <2>1. it \in Waiting(w) /\ it.ev.uuid \in Events
    BY <1>1
  <2>2. it.ev.uuid \in accepted /\ (Settled(it.ev.uuid) \/ Holds(w, it))
    BY <2>1 DEF WorkOK
  <2>3. CASE Settled(it.ev.uuid)
    BY <2>1, <2>2, <2>3, StaySettled DEF Grows
  <2>4. CASE Holds(w, it) /\ Same(it.ev.uuid)
    BY <2>1, <2>2, <2>4 DEF Grows, Holds, Same, Live
  <2> QED BY <2>2, <2>3, <2>4 DEF Grows
<1>4. ASSUME NEW it \in work'[w].ack PROVE Settled(it.ev.uuid)'
  BY <1>1, <1>2, <1>4, StaySettled DEF WorkOK
<1>5. \A it, jt \in Waiting(w)' : it.ev.uuid = jt.ev.uuid => it = jt
  BY DEF WorkOK
<1> QED BY <1>3, <1>4, <1>5 DEF WorkOK

\* A worker that does nothing keeps its copies.
LEMMA WorkSame ==
    ASSUME TypeOK, TypeOK', Grows, NEW w \in Workers, WorkOK(w), work'[w] = work[w],
           \A e \in Live : outbox[e].shard = w => Settled(e)' \/ Same(e)
    PROVE  WorkOK(w)'
<1>1. Waiting(w)' = Waiting(w)
  BY DEF Waiting
<1>2. Orderly(work'[w])
  BY DEF WorkOK
<1>3. \A it \in Waiting(w)' : Holds(w, it) => Settled(it.ev.uuid)' \/ Same(it.ev.uuid)
  BY DEF Holds
<1> QED BY <1>1, <1>2, <1>3, WorkStep

LEMMA IdleOK ==
    ASSUME NEW w \in Workers, work'[w] = Idle
    PROVE  WorkOK(w)'
BY DEF Idle, WorkOK, Waiting, Orderly

\* A statement about the row of one copy, with which its worker is done: nobody
\* else has a copy of that row, or its event is settled.
LEMMA StatementKeeps ==
    ASSUME TypeOK, TypeOK', Grows, OwnInv, NEW w \in Workers, NEW it \in Waiting(w),
           \A e \in Live : e # it.ev.uuid => Same(e),
           \A v \in Workers : v # w => work'[v] = work[v],
           Waiting(w)' \subseteq Waiting(w), Orderly(work'[w]),
           work'[w].ack \subseteq work[w].ack,
           it \in Waiting(w)' => Settled(it.ev.uuid)' \/ Same(it.ev.uuid)
    PROVE  \A v \in Workers : WorkOK(v)'
<1>1. WorkOK(w) /\ \A v \in Workers : WorkOK(v)
  BY DEF OwnInv
<1>2. it.ev.uuid \in Events
  BY ItemTypes DEF Waiting
<1>3. WorkOK(w)'
  <2>1. ASSUME NEW jt \in Waiting(w)', Holds(w, jt)
        PROVE  Settled(jt.ev.uuid)' \/ Same(jt.ev.uuid)
    <3>1. CASE jt.ev.uuid = it.ev.uuid
      <4>1. jt = it
        BY <1>1, <3>1 DEF WorkOK
      <4> QED BY <2>1, <4>1
    <3>2. CASE jt.ev.uuid # it.ev.uuid
      BY <2>1, <3>2 DEF Holds
    <3> QED BY <3>1, <3>2
  <2> QED BY <1>1, <2>1, WorkStep
<1>4. ASSUME NEW v \in Workers, v # w PROVE WorkOK(v)'
  <2>1. ASSUME NEW e \in Live, outbox[e].shard = v PROVE Settled(e)' \/ Same(e)
    <3>1. CASE e = it.ev.uuid
      <4>1. ~Holds(w, it)
        BY <1>4, <2>1, <3>1 DEF Holds
      <4>2. Settled(e)
        BY <1>1, <3>1, <4>1 DEF WorkOK
      <4> QED BY <1>2, <3>1, <4>2, StaySettled
    <3>2. CASE e # it.ev.uuid
      BY <3>2
    <3> QED BY <3>1, <3>2
  <2> QED BY <1>1, <1>4, <2>1, WorkSame
<1> QED BY <1>3, <1>4

\* Rows go, or are rewritten under their own rowid and event.
LEMMA RowsChange ==
    ASSUME RowInv, UNCHANGED parked,
           \A e \in Live' : /\ e \in Live /\ outbox'[e].id = outbox[e].id
                            /\ outbox'[e].ev.uuid = e
    PROVE  RowInv'
BY DEF RowInv

\* New rows get rowids above every live one, each its own.
LEMMA NewRows ==
    ASSUME TypeOK, RowInv, NEW B, B \subseteq Events, B \cap Live = {},
           NEW ids \in [B -> RowIds], NewRowIds(B, ids),
           \A e \in Events \ B : outbox'[e] = outbox[e],
           \A e \in B : outbox'[e].id = ids[e]
    PROVE  \A e, f \in Live' : outbox'[e].id = outbox'[f].id => e = f
<1> SUFFICES ASSUME NEW e \in Live', NEW f \in Live', outbox'[e].id = outbox'[f].id
             PROVE  e = f
  OBVIOUS
<1>1. PICK m \in 0..MaxRowId : /\ \A g \in Live : outbox[g].id <= m
                               /\ \A g \in B : /\ ids[g] > m
                                               /\ \A h \in B : ids[h] = ids[g] => h = g
  BY DEF NewRowIds
<1>2. e \in Events /\ f \in Events
  BY DEF Live
<1>3. \A g \in Events \ B : outbox'[g] # NoRow => g \in Live /\ outbox'[g].id <= m
  BY <1>1 DEF Live
<1>4. \A g \in Live : outbox[g].id \in Int
  BY LiveRows DEF RowIds
<1>5. \A g \in B : ids[g] \in Int
  BY DEF RowIds
<1>6. CASE e \in B /\ f \in B
  BY <1>1, <1>6
<1>7. CASE e \notin B /\ f \notin B
  <2>1. e \in Live /\ f \in Live /\ outbox[e].id = outbox[f].id
    BY <1>2, <1>3, <1>7 DEF Live
  <2> QED BY <2>1 DEF RowInv
<1>8. CASE e \in B /\ f \notin B
  <2>1. f \in Live /\ outbox'[f] = outbox[f]
    BY <1>2, <1>3, <1>8 DEF Live
  <2>2. outbox[f].id <= m /\ ids[e] > m /\ outbox[f].id = ids[e]
    BY <1>1, <1>8, <2>1
  <2> QED BY <2>1, <2>2, <1>1, <1>4, <1>5, <1>8
<1>9. CASE e \notin B /\ f \in B
  <2>1. e \in Live /\ outbox'[e] = outbox[e]
    BY <1>2, <1>3, <1>9 DEF Live
  <2>2. outbox[e].id <= m /\ ids[f] > m /\ outbox[e].id = ids[f]
    BY <1>1, <1>9, <2>1
  <2> QED BY <2>1, <2>2, <1>1, <1>4, <1>5, <1>9
<1> QED BY <1>6, <1>7, <1>8, <1>9

-----------------------------------------------------------------------------
(* What a step does to the accepted events: the steps of EventCustody, the *)
(* writes of a shard not yet told apart.                                   *)

Held == {e \in Events : Queued(e) \/ InDeadLetter(e)}
LEMMA HeldIs ==
    /\ RowInv => Held = {e \in Events : e \in Live \/ parked[e] # NoEvent}
    /\ RowInv' => Held' = {e \in Events : e \in Live' \/ parked'[e] # NoEvent}
BY DEF Held, Queued, InDeadLetter, RowInv

Writes(mine, ok) == /\ WriteAccounts(mine, ok) /\ accepted' = accepted /\ Held' = Held
                    /\ \A ev \in mine : ev.uuid \in accepted
Drops(e) == /\ e \in accepted /\ dropped' = dropped \cup {e}
            /\ UNCHANGED <<accepted, folds, receipts>>
Still == UNCHANGED <<accepted, folds, dropped, receipts>> /\ Held' = Held
Kind == \/ Still
        \/ \E B \in SUBSET Events : Custody!Accept(B)
        \/ \E mine \in SUBSET Payload, ok \in SUBSET Accounts : Writes(mine, ok)
        \/ \E p \in Accounts \X Events : Custody!Forget(p)
        \/ \E e \in Events : Custody!Release(e) \/ Custody!GiveUp(e)
        \/ \E e \in Events : Drops(e) /\ Held' = Held

Kept == OwnInv' /\ Kind
LateOK == \A r \in late' : r \in late \/ \A ev \in r.events : ev.uuid \in accepted

\* Rows and parked rows trade places, or stay.
LEMMA KeptStill ==
    ASSUME OwnInv, RowInv', \A w \in Workers : WorkOK(w)',
           UNCHANGED <<accepted, folds, dropped, receipts>>, LateOK,
           \A e \in Events : e \in Live' \/ parked'[e] # NoEvent
                             <=> e \in Live \/ parked[e] # NoEvent
    PROVE  Kept
<1>1. Live \subseteq Events /\ Live' \subseteq Events
  BY DEF Live
<1>2. LedgerInv'
  BY <1>1 DEF OwnInv, LedgerInv, LateOK
<1>3. Held' = Held
  BY HeldIs DEF OwnInv
<1> QED BY <1>2, <1>3 DEF Kept, OwnInv, Kind, Still

\* A row leaves the queue: it is settled, or given up by the same step.
LEMMA KeptLeave ==
    ASSUME OwnInv, RowInv', \A w \in Workers : WorkOK(w)',
           UNCHANGED <<accepted, folds, parked, receipts, late>>,
           NEW e \in Live, \A f \in Events : f # e => outbox'[f] = outbox[f],
           outbox'[e] = NoRow,
           \/ UNCHANGED dropped /\ Settled(e)
           \/ dropped' = dropped \cup {e}
    PROVE  Kept
<1>0. e \in Events /\ e \in accepted
  BY DEF Live, OwnInv, LedgerInv
<1>1. Live' = Live \ {e}
  BY <1>0 DEF Live
<1>2. LedgerInv'
  BY <1>1 DEF OwnInv, LedgerInv
<1>3. /\ Held = {f \in Events : f \in Live \/ parked[f] # NoEvent}
      /\ Held' = {f \in Events : f \in Live' \/ parked'[f] # NoEvent}
  BY HeldIs DEF OwnInv
<1>4. Kind
  <2>1. CASE parked[e] # NoEvent
    <3>1. Held' = Held
      BY <1>1, <1>3, <2>1
    <3> QED BY <1>0, <3>1 DEF Kind, Still, Drops
  <2>2. CASE parked[e] = NoEvent
    <3>1. Held' = Held \ {e} /\ e \in Held
      BY <1>0, <1>1, <1>3, <2>2
    <3>2. CASE UNCHANGED dropped /\ Settled(e)
      <4>1. Custody!Release(e)
        BY <3>1, <3>2 DEF Custody!Release, Custody!Settled, Held, Settled, Folded
      <4> QED BY <1>0, <4>1 DEF Kind
    <3>3. CASE dropped' = dropped \cup {e}
      <4>1. Custody!GiveUp(e)
        BY <3>1, <3>3 DEF Custody!GiveUp, Held
      <4> QED BY <1>0, <4>1 DEF Kind
    <3> QED BY <3>2, <3>3
  <2> QED BY <2>1, <2>2
<1> QED BY <1>2, <1>4 DEF Kept, OwnInv

\* Folding settles every event it takes.
LEMMA WriteSettles ==
    ASSUME TypeOK, LedgerInv, NEW mine \in SUBSET Payload, NEW ok \in SUBSET Accounts,
           WriteAccounts(mine, ok)
    PROVE  /\ \A a \in Accounts : \A e \in receipts'[a] : folds'[a][e] > 0
           /\ \A claimed : \A e \in Committed(mine, ok, claimed) : Settled(e)'
<1>1. \A a \in Accounts, e \in Events : folds[a][e] \in 0..2
  BY DEF TypeOK
<1>2. ASSUME NEW a \in Accounts, NEW e \in Events
      PROVE  /\ a \in ok \ gone /\ e \in UuidsOf(mine, a) => folds'[a][e] > 0
             /\ e \in receipts[a] => folds'[a][e] > 0
  <2>1. e \in receipts[a] => folds[a][e] > 0
    BY DEF LedgerInv
  <2>2. folds'[a][e] = IF /\ a \in ok \ gone
                          /\ e \in UuidsOf(mine, a) \ receipts[a]
                          /\ folds[a][e] < 2
                       THEN folds[a][e] + 1 ELSE folds[a][e]
    BY DEF WriteAccounts
  <2> QED BY <1>1, <2>1, <2>2
<1>3. \A a : UuidsOf(mine, a) \subseteq Events
  BY DEF UuidsOf, Payload
<1>4. \A a \in Accounts : receipts[a] \subseteq Events
  BY DEF TypeOK
<1>5. ASSUME NEW a \in Accounts, NEW e \in receipts'[a]
      PROVE  folds'[a][e] > 0
  <2>1. e \in receipts[a] \/ (a \in ok \ gone /\ e \in UuidsOf(mine, a))
    BY <1>5 DEF WriteAccounts
  <2> QED BY <1>2, <1>3, <1>4, <2>1
<1>6. ASSUME NEW claimed, NEW e \in Committed(mine, ok, claimed)
      PROVE  Settled(e)'
  <2>1. PICK a \in Accounts : e \in (IF a \in ok \cup gone THEN UuidsOf(mine, a)
           ELSE IF a \in claimed THEN UuidsOf(mine, a) \cap receipts[a] ELSE {})
    BY DEF Committed
  <2>2. CASE a \in gone
    <3>1. e \in UuidsOf(mine, a)
      BY <2>1, <2>2
    <3> QED BY <2>2, <3>1 DEF WriteAccounts, Settled
  <2>3. CASE a \in ok \ gone
    BY <1>2, <1>3, <2>1, <2>3 DEF Settled, Folded
  <2>4. CASE a \notin ok \cup gone
    <3>1. e \in receipts[a]
      BY <2>1, <2>4
    <3> QED BY <1>2, <1>4, <3>1 DEF Settled, Folded
  <2> QED BY <2>2, <2>3, <2>4
<1> QED BY <1>5, <1>6

-----------------------------------------------------------------------------
(* One lemma per group of actions: OwnInv holds, and the step has a kind.   *)

\* Nothing but a worker's plans changes, or nothing of this at all.
LEMMA KeptQuiet ==
    ASSUME TypeOK, TypeOK', OwnInv, Grows,
           UNCHANGED <<outbox, parked, work, accepted, folds, dropped, receipts, late>>
    PROVE  Kept
<1>1. RowInv'
  BY DEF OwnInv, RowInv, Live
<1>2. \A e \in Live : Same(e)
  BY DEF Same, Live
<1>3. \A w \in Workers : WorkOK(w)'
  BY <1>2, WorkSame DEF OwnInv
<1> QED BY <1>1, <1>3, KeptStill DEF LateOK, Live

LEMMA KeptPlans ==
    ASSUME TypeOK, TypeOK', OwnInv, Grows, NEW w \in Workers,
           UNCHANGED <<outbox, parked, accepted, folds, dropped, receipts>>, LateOK,
           \A v \in Workers : v # w => work'[v] = work[v], WorkOK(w)'
    PROVE  Kept
<1>1. RowInv'
  BY DEF OwnInv, RowInv, Live
<1>2. \A e \in Live : Same(e)
  BY DEF Same, Live
<1>3. \A v \in Workers : WorkOK(v)'
  BY <1>2, WorkSame DEF OwnInv
<1> QED BY <1>1, <1>3, KeptStill DEF Live

\* What a worker selects are copies of rows of its partition.
LEMMA KeptSelect ==
    ASSUME TypeOK, TypeOK', OwnInv, Grows,
           (\E s \in Shards : Deliver(s)) \/ SelectUnrouted
    PROVE  Kept
<1>1. UNCHANGED <<outbox, parked, accepted, folds, dropped, receipts, late>>
  BY DEF Deliver, SelectUnrouted, queueVars, histVars, appVars
<1> DEFINE Selected(w, k) ==
             /\ \/ k = [Idle EXCEPT !.stage = "post", !.batch = SelectRows(w)]
                \/ k = [Idle EXCEPT !.stage = "apply", !.reroute = SelectRows(w)]
             /\ work' = [work EXCEPT ![w] = k]
<1>0. PICK w \in Workers : \E k : Selected(w, k)
  BY DEF Deliver, SelectUnrouted, Workers
<1>2. PICK k : Selected(w, k)
  BY <1>0
<1>3. /\ k.batch \cup k.ack \cup k.reroute \cup k.retry = SelectRows(w)
      /\ k.ack = {} /\ k.retry = {} /\ (k.batch = {} \/ k.reroute = {})
  BY <1>2 DEF Idle
<1>4. work'[w] = k /\ \A v \in Workers : v # w => work'[v] = work[v]
  BY <1>2 DEF TypeOK
<1>5. ASSUME NEW it \in SelectRows(w)
      PROVE  /\ it.ev.uuid \in accepted /\ Holds(w, it)'
             /\ it = ItemOf(it.ev.uuid)
  <2>1. PICK e \in Due(w) : it = ItemOf(e)
    BY DEF SelectRows
  <2>2. e \in Live /\ outbox[e].shard = w /\ it.ev.uuid = e
    BY <2>1 DEF Due, OwnInv, RowInv, ItemOf
  <2> QED BY <1>1, <2>1, <2>2 DEF Holds, ItemOf, Live, OwnInv, LedgerInv
<1>6. Waiting(w)' = SelectRows(w)
  BY <1>3, <1>4 DEF Waiting
<1>7. WorkOK(w)'
  BY <1>1, <1>3, <1>4, <1>5, <1>6 DEF WorkOK, Orderly
<1> QED BY <1>1, <1>4, <1>7, KeptPlans DEF LateOK

LEMMA KeptResolveLookup ==
    ASSUME TypeOK, TypeOK', OwnInv, Grows, NEW w \in Workers, ResolveLookup(w)
    PROVE  Kept
<1>1. UNCHANGED <<outbox, parked, accepted, folds, dropped, receipts, late>>
  BY DEF ResolveLookup, queueVars, histVars, appVars
<1>2. PICK x : work' = [work EXCEPT ![w] = [work[w] EXCEPT !.look = x]]
  BY DEF ResolveLookup
<1> DEFINE k == [work[w] EXCEPT !.look = x]
<1>3. /\ k.batch = work[w].batch /\ k.ack = work[w].ack
      /\ k.reroute = work[w].reroute /\ k.retry = work[w].retry
  BY DEF TypeOK, WorkState
<1>4. work'[w] = k /\ \A v \in Workers : v # w => work'[v] = work[v]
  BY <1>2 DEF TypeOK
<1> HIDE DEF k
<1>5. Waiting(w)' = Waiting(w) /\ work'[w].ack = work[w].ack
  BY <1>3, <1>4 DEF Waiting
<1>6. Orderly(work'[w])
  BY <1>3, <1>4 DEF Orderly, OwnInv, WorkOK
<1>7. \A it \in Waiting(w) : Holds(w, it) => Same(it.ev.uuid)
  BY <1>1 DEF Holds, Same, Live
<1>8. WorkOK(w)'
  BY <1>5, <1>6, <1>7, WorkStep DEF OwnInv
<1> QED BY <1>1, <1>4, <1>8, KeptPlans DEF LateOK

LEMMA KeptStatementFails ==
    ASSUME TypeOK, TypeOK', OwnInv, Grows, NEW w \in Workers, StatementFails(w)
    PROVE  Kept
<1>1. UNCHANGED <<outbox, parked, accepted, folds, dropped, receipts, late>>
  BY DEF StatementFails, queueVars, histVars, appVars
<1>2. work'[w] = Idle /\ \A v \in Workers : v # w => work'[v] = work[v]
  BY DEF StatementFails, TypeOK
<1> QED BY <1>1, <1>2, IdleOK, KeptPlans DEF LateOK

LEMMA KeptBackoffElapses ==
    ASSUME TypeOK, TypeOK', OwnInv, Grows, NEW e \in Events, BackoffElapses(e)
    PROVE  Kept
<1>1. /\ e \in Live /\ outbox[e] \in Row
      /\ UNCHANGED <<parked, work, accepted, folds, dropped, receipts, late>>
  BY LiveRows DEF BackoffElapses, histVars, appVars
<1>2. outbox' = [outbox EXCEPT ![e] = [outbox[e] EXCEPT !.due = TRUE]]
  BY DEF BackoffElapses
<1>3. /\ outbox'[e].id = outbox[e].id /\ outbox'[e].ev = outbox[e].ev
      /\ outbox'[e].shard = outbox[e].shard
      /\ \A f \in Events : f # e => outbox'[f] = outbox[f]
  BY <1>1, <1>2 DEF Row, TypeOK, Live
<1>4. outbox'[e] # NoRow
  BY <1>1, <1>3, LiveRows DEF NoRow, Live
<1>5. \A f \in Live : Same(f)
  BY <1>3, <1>4 DEF Same, Live
<1>6. Live' = Live
  BY <1>1, <1>3, <1>4 DEF Live
<1>7. RowInv'
  BY <1>1, <1>5, <1>6, RowsChange DEF Same, OwnInv, RowInv
<1>8. \A w \in Workers : WorkOK(w)'
  BY <1>1, <1>5, WorkSame DEF OwnInv
<1> QED BY <1>1, <1>6, <1>7, <1>8, KeptStill DEF LateOK

\* The rows of a flush are new, or those of its resent events.
LEMMA KeptSend ==
    ASSUME TypeOK, TypeOK', OwnInv, Grows, NEW B \in SUBSET Events, Send(B)
    PROVE  Kept
<1> DEFINE new == B \ Live
<1>1. PICK ids \in [new -> RowIds] :
         /\ NewRowIds(new, ids)
         /\ outbox' = [e \in Events |->
                IF e \in new
                THEN [id |-> ids[e], shard |-> buffered[e].shard,
                      ev |-> [uuid |-> e, site |-> buffered[e].site],
                      attempts |-> 0, due |-> TRUE]
                ELSE outbox[e]]
  BY DEF Send
<1>2. /\ UNCHANGED <<parked, work, folds, dropped, receipts, late>>
      /\ accepted' = accepted \cup B /\ B # {}
  BY DEF Send, appVars
<1>3. new \subseteq Events /\ new \cap Live = {} /\ new \subseteq B /\ B \subseteq new \cup Live
  OBVIOUS
<1> HIDE DEF new
<1>4. \A e \in Events \ new : outbox'[e] = outbox[e]
  BY <1>1
<1>5. \A e \in new : outbox'[e].id = ids[e] /\ outbox'[e].ev.uuid = e
  BY <1>1, <1>3
<1>6. \A e \in new : outbox'[e] # NoRow
  BY <1>5 DEF NoRow, RowIds
<1>7. Live' = Live \cup B
  BY <1>3, <1>4, <1>6 DEF Live
<1>8. \A e, f \in Live' : outbox'[e].id = outbox'[f].id => e = f
  BY <1>1, <1>3, <1>4, <1>5, NewRows DEF OwnInv
<1>9. RowInv'
  <2>1. \A e \in Live' : outbox'[e].ev.uuid = e
    BY <1>3, <1>4, <1>5, <1>7 DEF OwnInv, RowInv, Live
  <2> QED BY <1>2, <1>8, <2>1 DEF OwnInv, RowInv
<1>10. \A e \in Live : Same(e)
  BY <1>3, <1>4 DEF Same, Live
<1>11. \A w \in Workers : WorkOK(w)'
  BY <1>2, <1>10, WorkSame DEF OwnInv
<1>12. LedgerInv'
  BY <1>2, <1>7 DEF OwnInv, LedgerInv
<1>13. Held' = Held \cup B
  BY <1>2, <1>7, <1>9, HeldIs DEF OwnInv
<1>14. Custody!Accept(B)
  BY <1>2, <1>13 DEF Custody!Accept, Held
<1> QED BY <1>9, <1>11, <1>12, <1>14 DEF Kept, OwnInv, Kind

\* Parked rows come back under new rowids.
LEMMA KeptReplay ==
    ASSUME TypeOK, OwnInv, ReplayParked
    PROVE  RowInv' /\ \A e \in Events : e \in Live' \/ parked'[e] # NoEvent
                                        <=> e \in Live \/ parked[e] # NoEvent
<1> DEFINE back == {e \in Events : parked[e] # NoEvent} \ Live
<1>1. PICK ids \in [back -> RowIds] :
         /\ NewRowIds(back, ids)
         /\ outbox' = [e \in Events |->
                IF e \in back
                THEN [id |-> ids[e], shard |-> parked[e].shard,
                      ev |-> parked[e].ev, attempts |-> 0, due |-> TRUE]
                ELSE outbox[e]]
  BY DEF ReplayParked
<1>2. \A e \in Events : parked'[e] = NoEvent
  BY DEF ReplayParked
<1>3. back \subseteq Events /\ back \cap Live = {} /\ \A e \in back : parked[e] # NoEvent
  OBVIOUS
<1>4. \A e \in Events : parked[e] # NoEvent => e \in back \cup Live
  OBVIOUS
<1> HIDE DEF back
<1>5. \A e \in Events \ back : outbox'[e] = outbox[e]
  BY <1>1
<1>6. \A e \in back : outbox'[e].id = ids[e] /\ outbox'[e].ev.uuid = e
  BY <1>1, <1>3 DEF OwnInv, RowInv
<1>7. \A e \in back : outbox'[e] # NoRow
  BY <1>6 DEF NoRow, RowIds
<1>8. Live' = Live \cup back
  BY <1>3, <1>5, <1>7 DEF Live
<1>9. \A e, f \in Live' : outbox'[e].id = outbox'[f].id => e = f
  BY <1>1, <1>3, <1>5, <1>6, NewRows DEF OwnInv
<1>10. \A e \in Live' : outbox'[e].ev.uuid = e
  BY <1>3, <1>5, <1>6, <1>8 DEF OwnInv, RowInv, Live
<1> QED BY <1>2, <1>3, <1>4, <1>8, <1>9, <1>10 DEF RowInv

LEMMA KeptRestart ==
    ASSUME TypeOK, OwnInv, Restart
    PROVE  Kept
<1>1. UNCHANGED <<accepted, folds, dropped, receipts, late>>
  BY DEF Restart, appVars
<1>2. \A w \in Workers : WorkOK(w)'
  BY IdleOK DEF Restart
<1>3. CASE ReplayParked
  BY <1>1, <1>2, <1>3, KeptReplay, KeptStill DEF LateOK
<1>4. CASE UNCHANGED queueVars
  <2>1. RowInv' /\ Live' = Live /\ parked' = parked
    BY <1>4 DEF OwnInv, RowInv, Live, queueVars
  <2> QED BY <1>1, <1>2, <2>1, KeptStill DEF LateOK
<1> QED BY <1>3, <1>4 DEF Restart

\* An account forgets an event it folded.
LEMMA KeptPrune ==
    ASSUME TypeOK, TypeOK', OwnInv, Grows, NEW a \in Accounts, NEW e \in Events,
           PruneReceipt(a, e)
    PROVE  Kept
<1>1. /\ receipts' = [receipts EXCEPT ![a] = receipts[a] \ {e}] /\ e \in receipts[a]
      /\ UNCHANGED <<outbox, parked, work, accepted, folds, dropped, late>>
  BY DEF PruneReceipt, queueVars, histVars
<1>2. RowInv' /\ Live' = Live
  BY <1>1 DEF OwnInv, RowInv, Live
<1>3. \A f \in Live : Same(f)
  BY <1>1 DEF Same, Live
<1>4. \A w \in Workers : WorkOK(w)'
  BY <1>1, <1>3, WorkSame DEF OwnInv
<1>5. \A b \in Accounts : receipts'[b] = IF b = a THEN receipts[a] \ {e} ELSE receipts[b]
  BY <1>1 DEF TypeOK
<1>6. LedgerInv'
  BY <1>1, <1>2, <1>5 DEF OwnInv, LedgerInv
<1>7. Held' = Held
  BY <1>1, <1>2, HeldIs DEF OwnInv
<1>8. folds[a][e] > 0
  BY <1>1 DEF OwnInv, LedgerInv
<1> DEFINE old == {p \in Accounts \X Events : folds[p[1]][p[2]] > 0 /\ p[2] \notin receipts[p[1]]}
           now == {p \in Accounts \X Events : folds[p[1]][p[2]] > 0 /\ p[2] \notin receipts'[p[1]]}
<1>9. now = old \cup {<<a, e>>}
  <2>1. \A p \in Accounts \X Events : p = <<a, e>> <=> p[1] = a /\ p[2] = e
    OBVIOUS
  <2>2. \A p \in Accounts \X Events : p[2] \notin receipts'[p[1]] <=>
                                      p[2] \notin receipts[p[1]] \/ p = <<a, e>>
    BY <1>5, <2>1
  <2>3. <<a, e>> \in now
    BY <1>8, <2>2
  <2> QED BY <2>2, <2>3
<1>10. Custody!Forget(<<a, e>>)
  BY <1>1, <1>7, <1>8, <1>9 DEF Custody!Forget, Held
<1> QED BY <1>2, <1>4, <1>6, <1>10 DEF Kept, OwnInv, Kind

\* The tier holds what it held, whatever a shard writes.
LEMMA KeptWrite ==
    ASSUME TypeOK, TypeOK', OwnInv, Grows, NEW mine \in SUBSET Payload,
           NEW ok \in SUBSET Accounts, WriteAccounts(mine, ok),
           \A ev \in mine : ev.uuid \in accepted,
           UNCHANGED <<outbox, parked, accepted>>, LateOK
    PROVE  RowInv' /\ LedgerInv' /\ Kind
<1>1. RowInv' /\ Live' = Live
  BY DEF OwnInv, RowInv, Live
<1>2. LedgerInv'
  BY <1>1, WriteSettles DEF OwnInv, LedgerInv, LateOK
<1>3. Held' = Held
  BY <1>1, HeldIs DEF OwnInv
<1> QED BY <1>1, <1>2, <1>3 DEF Kind, Writes

\* A shard writes, and the worker goes on with what the answer names.
LEMMA KeptHandle ==
    ASSUME TypeOK, TypeOK', OwnInv, Grows, NEW s \in Shards,
           NEW mine \in SUBSET Payload, mine \subseteq Batch(s), Handle(s, mine)
    PROVE  Kept
<1>1. s \in Workers
  BY DEF Workers
<1>2. UNCHANGED <<outbox, parked, accepted, late>>
  BY DEF Handle, queueVars
<1>3. PICK ok \in SUBSET Accounts :
         /\ WriteAccounts(mine, ok)
         /\ \/ \E claimed \in SUBSET (Accounts \ ok) : AnswerUsed(s, mine, ok, claimed)
            \/ \E p \in BOOLEAN : work' = [work EXCEPT ![s] = RetryAll(work[s], p)]
  BY DEF Handle
<1>4. WorkOK(s) /\ LedgerInv
  BY <1>1 DEF OwnInv
<1>5. \A ev \in mine : ev.uuid \in accepted
  BY <1>4 DEF Batch, WorkOK, Waiting
<1>6. RowInv' /\ LedgerInv' /\ Kind
  BY <1>2, <1>3, <1>5, KeptWrite DEF LateOK
<1>7. PICK k : /\ work' = [work EXCEPT ![s] = k]
               /\ k.batch = {} /\ k.reroute \cap k.retry = {}
               /\ k.ack \cup k.reroute \cup k.retry \subseteq work[s].batch
               /\ \A it \in k.ack : Settled(it.ev.uuid)'
  <2>1. ASSUME NEW claimed \in SUBSET (Accounts \ ok), AnswerUsed(s, mine, ok, claimed)
        PROVE  \E k : /\ work' = [work EXCEPT ![s] = k]
                      /\ k.batch = {} /\ k.reroute \cap k.retry = {}
                      /\ k.ack \cup k.reroute \cup k.retry \subseteq work[s].batch
                      /\ \A it \in k.ack : Settled(it.ev.uuid)'
    <3> DEFINE com == Committed(mine, ok, claimed)
               ref == NotMine(Batch(s), mine)
               k == Sorted(work[s], com, ref)
    <3>1. work' = [work EXCEPT ![s] = k]
      BY <2>1 DEF AnswerUsed
    <3>2. \A e \in com : Settled(e)'
      BY <1>3, <1>4, WriteSettles
    <3> HIDE DEF com, ref
    <3>3. /\ k.batch = {} /\ k.reroute \cap k.retry = {}
          /\ k.ack \cup k.reroute \cup k.retry \subseteq work[s].batch
          /\ \A it \in k.ack : it.ev.uuid \in com
      BY DEF Sorted, Idle
    <3> HIDE DEF k
    <3> QED BY <3>1, <3>2, <3>3
  <2>2. ASSUME NEW p \in BOOLEAN, work' = [work EXCEPT ![s] = RetryAll(work[s], p)]
        PROVE  \E k : /\ work' = [work EXCEPT ![s] = k]
                      /\ k.batch = {} /\ k.reroute \cap k.retry = {}
                      /\ k.ack \cup k.reroute \cup k.retry \subseteq work[s].batch
                      /\ \A it \in k.ack : Settled(it.ev.uuid)'
    <3> DEFINE k == RetryAll(work[s], p)
    <3>1. /\ k.batch = {} /\ k.ack = {} /\ k.reroute = {} /\ k.retry = work[s].batch
      BY DEF RetryAll, Idle
    <3>2. work' = [work EXCEPT ![s] = k]
      BY <2>2
    <3> HIDE DEF k
    <3> QED BY <3>1, <3>2
  <2> QED BY <1>3, <2>1, <2>2
<1>8. work'[s] = k /\ \A v \in Workers : v # s => work'[v] = work[v]
  BY <1>1, <1>7 DEF TypeOK
<1>9. Waiting(s)' \subseteq Waiting(s) /\ Orderly(work'[s])
  BY <1>7, <1>8 DEF Waiting, Orderly
<1>10. \A e \in Live : Same(e)
  BY <1>2 DEF Same, Live
<1>11. WorkOK(s)'
  <2>1. \A it \in Waiting(s)' : Holds(s, it) => Same(it.ev.uuid)
    BY <1>10 DEF Holds
  <2> QED BY <1>1, <1>4, <1>7, <1>8, <1>9, <2>1, WorkStep
<1>12. \A w \in Workers : WorkOK(w)'
  BY <1>8, <1>10, <1>11, WorkSame DEF OwnInv
<1> QED BY <1>6, <1>12 DEF Kept, OwnInv

LEMMA KeptHandles ==
    ASSUME TypeOK, TypeOK', OwnInv, Grows, NEW s \in Shards,
           HandleIngest(s) \/ HandleAcrossRefresh(s)
    PROVE  Kept
<1>1. CASE HandleIngest(s)
  <2>1. Mine(s, Batch(s)) \subseteq Batch(s) /\ Batch(s) \in SUBSET Payload
    BY BatchTypes DEF Mine
  <2> QED BY <1>1, <2>1, KeptHandle DEF HandleIngest
<1>2. CASE HandleAcrossRefresh(s)
  <2> DEFINE before(n) == {it.ev : it \in {i \in work[s].batch : i.id <= n}}
             after(n) == {ev \in Batch(s) \ before(n) :
                             /\ ev.site = owns'[s][DomainOf[ev.uuid]]
                             /\ ev.site # NoSite}
  <2>1. PICK n \in RowIds : Handle(s, Mine(s, before(n)) \cup after(n))
    BY <1>2 DEF HandleAcrossRefresh
  <2> DEFINE mine == Mine(s, before(n)) \cup after(n)
  <2>2. mine \subseteq Batch(s)
    BY DEF Batch, Mine
  <2>3. mine \in SUBSET Payload /\ Handle(s, mine)
    BY <2>1, <2>2, BatchTypes
  <2> HIDE DEF mine
  <2> QED BY <2>2, <2>3, KeptHandle
<1> QED BY <1>1, <1>2

LEMMA KeptHandleLate ==
    ASSUME TypeOK, TypeOK', OwnInv, Grows, NEW r \in late, HandleLate(r)
    PROVE  Kept
<1>1. PICK ok \in SUBSET Accounts : WriteAccounts(Mine(r.shard, r.events), ok)
  BY DEF HandleLate
<1> DEFINE mine == Mine(r.shard, r.events)
<1>2. mine \in SUBSET Payload /\ \A ev \in mine : ev.uuid \in accepted
  BY DEF TypeOK, Request, Mine, OwnInv, LedgerInv
<1>3. UNCHANGED <<outbox, parked, accepted, work>> /\ late' \subseteq late
  BY DEF HandleLate, queueVars
<1> HIDE DEF mine
<1>4. WriteAccounts(mine, ok)
  BY <1>1 DEF mine
<1>5. RowInv' /\ LedgerInv' /\ Kind
  BY <1>2, <1>3, <1>4, KeptWrite DEF LateOK
<1>6. \A e \in Live : Same(e)
  BY <1>3 DEF Same, Live
<1>7. \A w \in Workers : WorkOK(w)'
  BY <1>3, <1>6, WorkSame DEF OwnInv
<1> QED BY <1>5, <1>7 DEF Kept, OwnInv

LEMMA KeptPostFails ==
    ASSUME TypeOK, TypeOK', OwnInv, Grows, NEW s \in Shards, PostFails(s)
    PROVE  Kept
<1>1. s \in Workers /\ WorkOK(s)
  BY DEF Workers, OwnInv
<1>2. UNCHANGED <<outbox, parked, accepted, folds, dropped, receipts>>
  BY DEF PostFails, queueVars, appVars, histVars
<1>3. LateOK
  <2>1. \A ev \in Batch(s) : ev.uuid \in accepted
    BY <1>1 DEF Batch, WorkOK, Waiting
  <2> QED BY <2>1 DEF PostFails, LateOK
<1>4. PICK p : work' = [work EXCEPT ![s] = RetryAll(work[s], p)]
  BY DEF PostFails
<1> DEFINE k == RetryAll(work[s], p)
<1>5. k.batch = {} /\ k.ack = {} /\ k.reroute = {} /\ k.retry = work[s].batch
  BY DEF RetryAll, Idle
<1>6. work'[s] = k /\ \A v \in Workers : v # s => work'[v] = work[v]
  BY <1>1, <1>4 DEF TypeOK
<1> HIDE DEF k
<1>7. Waiting(s)' \subseteq Waiting(s) /\ Orderly(work'[s]) /\ work'[s].ack = {}
  BY <1>5, <1>6 DEF Waiting, Orderly
<1>8. \A it \in Waiting(s) : Holds(s, it) => Same(it.ev.uuid)
  BY <1>2 DEF Holds, Same, Live
<1>9. WorkOK(s)'
  BY <1>1, <1>7, <1>8, WorkStep
<1> QED BY <1>1, <1>2, <1>3, <1>6, <1>9, KeptPlans

-----------------------------------------------------------------------------
(* The statements of a worker, as long as none crosses. *)

\* One statement: rows of other events are left alone, and the row of this copy
\* stays, goes because its event is settled, or is given up.
LEMMA KeptStatement ==
    ASSUME TypeOK, TypeOK', OwnInv, Grows, NEW w \in Workers, NEW it \in Waiting(w),
           UNCHANGED <<accepted, folds, parked, receipts, late>>,
           \A e \in Events : e # it.ev.uuid => outbox'[e] = outbox[e],
           LET e == it.ev.uuid
           IN  \/ UNCHANGED dropped /\ outbox'[e] = outbox[e]
               \/ /\ UNCHANGED dropped /\ e \in Live /\ outbox'[e] # NoRow
                  /\ outbox'[e].id = outbox[e].id /\ outbox'[e].ev.uuid = e
               \/ UNCHANGED dropped /\ e \in Live /\ outbox'[e] = NoRow /\ Settled(e)
               \/ dropped' = dropped \cup {e} /\ e \in Live /\ outbox'[e] = NoRow,
           \A v \in Workers : v # w => work'[v] = work[v],
           Waiting(w)' \subseteq Waiting(w), Orderly(work'[w]),
           work'[w].ack \subseteq work[w].ack,
           it \in Waiting(w)' => Settled(it.ev.uuid)' \/ Same(it.ev.uuid)
    PROVE  Kept
<1> DEFINE e == it.ev.uuid
<1>1. e \in Events
  BY ItemTypes DEF Waiting
<1>2. \A f \in Live : f # e => Same(f)
  BY DEF Same, Live
<1>3. \A v \in Workers : WorkOK(v)'
  BY <1>2, StatementKeeps
<1> HIDE DEF e
<1>4. CASE UNCHANGED dropped /\ (outbox'[e] = outbox[e]
             \/ /\ e \in Live /\ outbox'[e] # NoRow
                /\ outbox'[e].id = outbox[e].id /\ outbox'[e].ev.uuid = e)
  <2>1. Live' = Live
    BY <1>1, <1>4 DEF Live, e
  <2>2. \A f \in Live : outbox'[f].id = outbox[f].id /\ outbox'[f].ev.uuid = f
    BY <1>1, <1>4 DEF Live, e, OwnInv, RowInv
  <2>3. RowInv'
    BY <2>1, <2>2, RowsChange DEF OwnInv
  <2> QED BY <1>3, <1>4, <2>1, <2>3, KeptStill DEF LateOK
<1>5. CASE /\ e \in Live /\ outbox'[e] = NoRow
           /\ (UNCHANGED dropped /\ Settled(e)) \/ dropped' = dropped \cup {e}
  <2>1. Live' = Live \ {e}
    BY <1>1, <1>5 DEF Live, e
  <2>2. \A f \in Live' : f \in Live /\ outbox'[f] = outbox[f]
    BY <2>1 DEF Live, e
  <2>3. RowInv'
    BY <2>2, RowsChange DEF OwnInv, RowInv
  <2> QED BY <1>3, <1>5, <2>3, KeptLeave DEF e
<1> QED BY <1>4, <1>5 DEF e

\* What is left of a worker's plan.
LEMMA Returns ==
    ASSUME NEW k
    PROVE  /\ Return(k).ack = k.ack /\ Return(k).reroute = k.reroute
           /\ Return(k).retry = k.retry
           /\ Return(k).batch = k.batch \/ Return(k).batch = {}
BY DEF Return, Idle

LEMMA KeptDeleteCommitted ==
    ASSUME TypeOK, TypeOK', OwnInv, Grows, NEW s \in Shards, DeleteCommitted(s)
    PROVE  Kept
<1>1. s \in Workers /\ WorkOK(s) /\ work[s] \in WorkState
  BY DEF Workers, OwnInv, TypeOK
<1>2. PICK it \in work[s].ack :
         /\ outbox' = [e \in Events |->
               IF e = it.ev.uuid /\ outbox[e].id = it.id THEN NoRow ELSE outbox[e]]
         /\ work' = [work EXCEPT ![s] = Return([work[s] EXCEPT !.ack = work[s].ack \ {it}])]
  BY DEF DeleteCommitted
<1> DEFINE k == [work[s] EXCEPT !.ack = work[s].ack \ {it}]
<1>3. /\ k.ack = work[s].ack \ {it} /\ k.batch = work[s].batch
      /\ k.reroute = work[s].reroute /\ k.retry = work[s].retry
  BY <1>1 DEF WorkState
<1>4. work'[s] = Return(k) /\ \A v \in Workers : v # s => work'[v] = work[v]
  BY <1>1, <1>2 DEF TypeOK
<1> HIDE DEF k
<1>5. /\ Waiting(s)' \subseteq Waiting(s) /\ Orderly(work'[s])
      /\ work'[s].ack \subseteq work[s].ack
  BY <1>1, <1>3, <1>4, Returns DEF Waiting, Orderly, WorkOK
<1>6. it \in Waiting(s) /\ Settled(it.ev.uuid) /\ it.ev.uuid \in Events
  BY <1>1, <1>2, ItemTypes DEF Waiting, WorkOK
<1>7. Settled(it.ev.uuid)'
  BY <1>6, StaySettled
<1>8. UNCHANGED <<accepted, folds, parked, receipts, late, dropped>>
  BY DEF DeleteCommitted, appVars, histVars
<1>9. \A e \in Events : e # it.ev.uuid => outbox'[e] = outbox[e]
  BY <1>2
<1>10. \/ outbox'[it.ev.uuid] = outbox[it.ev.uuid]
       \/ it.ev.uuid \in Live /\ outbox'[it.ev.uuid] = NoRow
  BY <1>2, <1>6 DEF Live
<1> QED BY <1>1, <1>4, <1>5, <1>6, <1>7, <1>8, <1>9, <1>10, KeptStatement

\* A row of a refused domain: reattached, given up, or held back.
LEMMA KeptRerouted ==
    ASSUME TypeOK, TypeOK', OwnInv, Grows, NEW w \in Workers, NEW it \in work[w].reroute,
           work' = [work EXCEPT ![w] = Rerouted(w, it)],
           UNCHANGED <<accepted, folds, parked, receipts, late>>,
           \A e \in Live : outbox[e].id = it.id => e = it.ev.uuid,
           \/ GiveUp(it)
           \/ /\ UNCHANGED dropped
              /\ \A e \in Events :
                    \/ outbox'[e] = outbox[e]
                    \/ /\ outbox[e].id = it.id /\ outbox'[e] # NoRow
                       /\ outbox'[e].id = it.id
                       /\ outbox'[e].ev.uuid = it.ev.uuid \/ outbox'[e].ev = outbox[e].ev
    PROVE  Kept
<1>1. WorkOK(w) /\ work[w] \in WorkState /\ it \in Waiting(w) /\ RowInv
  BY DEF OwnInv, TypeOK, Waiting
<1>2. it.ev.uuid \in Events /\ it.id \in RowIds /\ it.id # 0
  BY <1>1, ItemTypes DEF Waiting, Item, RowIds
<1>3. \A e \in Events : outbox[e].id = it.id => e \in Live /\ e = it.ev.uuid
  BY <1>2, LiveRows
<1> DEFINE k == [work[w] EXCEPT !.reroute = work[w].reroute \ {it}, !.look = NotLooked]
<1>4. /\ k.ack = work[w].ack /\ k.batch = work[w].batch
      /\ k.reroute = work[w].reroute \ {it} /\ k.retry = work[w].retry
  BY <1>1 DEF WorkState
<1>5. work'[w] = Return(k) /\ \A v \in Workers : v # w => work'[v] = work[v]
  BY DEF TypeOK, Rerouted
<1> HIDE DEF k
<1>6. /\ Waiting(w)' \subseteq Waiting(w) /\ Orderly(work'[w])
      /\ work'[w].ack \subseteq work[w].ack
  BY <1>1, <1>4, <1>5, Returns DEF Waiting, Orderly, WorkOK
<1>7. it \in Waiting(w)' => Settled(it.ev.uuid)'
  <2>1. it \in Waiting(w)' => it \in work[w].ack
    BY <1>1, <1>4, <1>5, Returns DEF Waiting, Orderly, WorkOK
  <2>2. it \in work[w].ack => Settled(it.ev.uuid)
    BY <1>1 DEF WorkOK
  <2> QED BY <1>2, <2>1, <2>2, StaySettled
<1>8. CASE GiveUp(it)
  <2>1. /\ \A e \in Events : outbox'[e] = IF outbox[e].id = it.id THEN NoRow ELSE outbox[e]
        /\ dropped' = dropped \cup {e \in Live : e = it.ev.uuid /\ outbox[e].id = it.id}
    BY <1>8 DEF GiveUp, DeleteRow
  <2>2. \A e \in Events : e # it.ev.uuid => outbox'[e] = outbox[e]
    BY <1>3, <2>1
  <2>3. CASE outbox[it.ev.uuid].id = it.id
    <3>1. it.ev.uuid \in Live /\ outbox'[it.ev.uuid] = NoRow
      BY <1>2, <1>3, <2>1, <2>3
    <3>2. dropped' = dropped \cup {it.ev.uuid}
      BY <2>1, <2>3, <3>1
    <3> QED BY <1>1, <1>5, <1>6, <1>7, <2>2, <3>1, <3>2, KeptStatement
  <2>4. CASE outbox[it.ev.uuid].id # it.id
    <3>1. outbox'[it.ev.uuid] = outbox[it.ev.uuid] /\ dropped' = dropped
      BY <1>2, <2>1, <2>4
    <3> QED BY <1>1, <1>5, <1>6, <1>7, <2>2, <3>1, KeptStatement
  <2> QED BY <2>3, <2>4
<1>9. CASE /\ UNCHANGED dropped
           /\ \A e \in Events :
                 \/ outbox'[e] = outbox[e]
                 \/ /\ outbox[e].id = it.id /\ outbox'[e] # NoRow
                    /\ outbox'[e].id = it.id
                    /\ outbox'[e].ev.uuid = it.ev.uuid \/ outbox'[e].ev = outbox[e].ev
  <2>1. \A e \in Events : e # it.ev.uuid => outbox'[e] = outbox[e]
    BY <1>3, <1>9
  <2>2. \/ outbox'[it.ev.uuid] = outbox[it.ev.uuid]
        \/ /\ it.ev.uuid \in Live /\ outbox'[it.ev.uuid] # NoRow
           /\ outbox'[it.ev.uuid].id = outbox[it.ev.uuid].id
           /\ outbox'[it.ev.uuid].ev.uuid = it.ev.uuid
    BY <1>1, <1>2, <1>3, <1>9 DEF RowInv
  <2> QED BY <1>1, <1>5, <1>6, <1>7, <1>9, <2>1, <2>2, KeptStatement
<1> QED BY <1>8, <1>9

\* No statement of this step crosses, if none had crossed by its end.
LEMMA OwnRow ==
    ASSUME NEW items, Hits(items), crossed' = FALSE, NEW it \in items, NEW e \in Live,
           outbox[e].id = it.id
    PROVE  e = it.ev.uuid
BY DEF Hits, Crosses

LEMMA KeptHandleNotMine ==
    ASSUME TypeOK, TypeOK', OwnInv, Grows, NEW s \in Shards, HandleNotMine(s),
           crossed' = FALSE
    PROVE  Kept
<1> DEFINE
      attach(it, t, x) == [e \in Events |->
                             IF outbox[e].id = it.id
                             THEN [id |-> it.id, shard |-> t,
                                   ev |-> [uuid |-> it.ev.uuid, site |-> x],
                                   attempts |-> 0, due |-> TRUE]
                             ELSE outbox[e]]
      hold(it) == [e \in Events |->
                     IF outbox[e].id = it.id
                     THEN [outbox[e] EXCEPT !.shard = Unrouted,
                                            !.attempts = 0, !.due = TRUE]
                     ELSE outbox[e]]
<1>1. s \in Workers
  BY DEF Workers
<1>2. PICK it \in work[s].reroute :
         /\ \/ \E t \in Resolved(work[s].look) :
                  outbox' = attach(it, t, work[s].look) /\ UNCHANGED dropped
            \/ GiveUp(it)
            \/ outbox' = hold(it) /\ UNCHANGED dropped
         /\ Hits({it})
         /\ work' = [work EXCEPT ![s] = Rerouted(s, it)]
  BY DEF HandleNotMine
<1>3. UNCHANGED <<accepted, folds, parked, receipts, late>>
  BY DEF HandleNotMine, appVars
<1>4. \A e \in Live : outbox[e].id = it.id => e = it.ev.uuid
  BY <1>2, OwnRow
<1>5. it.id \in RowIds /\ it.id # 0
  BY <1>1, ItemTypes DEF Item, RowIds
<1>6. \A e \in Events : outbox[e].id = it.id => outbox[e] \in Row
  BY <1>5, LiveRows
<1>7. NoRow.id = 0
  BY DEF NoRow
<1>8. CASE GiveUp(it)
  BY <1>1, <1>2, <1>3, <1>4, <1>8, KeptRerouted
<1>9. ASSUME NEW t, NEW x, UNCHANGED dropped,
             outbox' = attach(it, t, x)
      PROVE  Kept
  <2>1. \A e \in Events :
           \/ outbox'[e] = outbox[e]
           \/ /\ outbox[e].id = it.id /\ outbox'[e].id = it.id
              /\ outbox'[e].ev.uuid = it.ev.uuid
    BY <1>9
  <2>2. \A e \in Events : outbox'[e].id = it.id => outbox'[e] # NoRow
    BY <1>5, <1>7
  <2> QED BY <1>1, <1>2, <1>3, <1>4, <1>9, <2>1, <2>2, KeptRerouted
<1>10. CASE outbox' = hold(it) /\ UNCHANGED dropped
  <2>1. ASSUME NEW e \in Events, outbox[e].id = it.id
        PROVE  outbox'[e].id = it.id /\ outbox'[e].ev = outbox[e].ev
    BY <1>6, <1>10, <2>1 DEF Row
  <2>2. \A e \in Events : outbox'[e].id = it.id => outbox'[e] # NoRow
    BY <1>5, <1>7
  <2>3. \A e \in Events : outbox[e].id # it.id => outbox'[e] = outbox[e]
    BY <1>10
  <2> QED BY <1>1, <1>2, <1>3, <1>4, <1>10, <2>1, <2>2, <2>3, KeptRerouted
<1> HIDE DEF attach, hold
<1> QED BY <1>2, <1>8, <1>9, <1>10

LEMMA KeptResolveUnrouted ==
    ASSUME TypeOK, TypeOK', OwnInv, Grows, ResolveUnrouted, crossed' = FALSE
    PROVE  Kept
<1> DEFINE attach(it, t, x) == [e \in Events |->
                                   IF outbox[e].id = it.id
                                   THEN [outbox[e] EXCEPT !.shard = t,
                                            !.ev = [uuid |-> it.ev.uuid, site |-> x]]
                                   ELSE outbox[e]]
<1>1. Unrouted \in Workers
  BY DEF Workers
<1>2. PICK it \in work[Unrouted].reroute :
         /\ \/ \E t \in Resolved(work[Unrouted].look) :
                  /\ outbox' = attach(it, t, work[Unrouted].look)
                  /\ Hits({it}) /\ UNCHANGED dropped
            \/ GiveUp(it) /\ Hits({it})
            \/ UNCHANGED <<outbox, dropped, crossed>>
         /\ work' = [work EXCEPT ![Unrouted] = Rerouted(Unrouted, it)]
  BY DEF ResolveUnrouted
<1>3. UNCHANGED <<accepted, folds, parked, receipts, late>>
  BY DEF ResolveUnrouted, appVars
<1>4. it \in Item /\ it.id \in RowIds /\ it.id # 0
  BY <1>1, ItemTypes DEF Item, RowIds
<1>5. \A e \in Events : outbox[e].id = it.id => outbox[e] \in Row
  BY <1>4, LiveRows
<1>6. NoRow.id = 0
  BY DEF NoRow
<1>7. CASE GiveUp(it) /\ Hits({it})
  <2>1. \A e \in Live : outbox[e].id = it.id => e = it.ev.uuid
    BY <1>7, OwnRow
  <2> QED BY <1>1, <1>2, <1>3, <1>7, <2>1, KeptRerouted
<1>8. ASSUME NEW t, NEW x, UNCHANGED dropped, Hits({it}),
             outbox' = attach(it, t, x)
      PROVE  Kept
  <2>1. ASSUME NEW e \in Events, outbox[e].id = it.id
        PROVE  outbox'[e].id = it.id /\ outbox'[e].ev.uuid = it.ev.uuid
    BY <1>5, <1>8, <2>1 DEF Row
  <2>2. \A e \in Events : outbox'[e].id = it.id => outbox'[e] # NoRow
    BY <1>4, <1>6
  <2>3. \A e \in Events : outbox[e].id # it.id => outbox'[e] = outbox[e]
    BY <1>8
  <2>4. \A e \in Live : outbox[e].id = it.id => e = it.ev.uuid
    BY <1>8, OwnRow
  <2> QED BY <1>1, <1>2, <1>3, <1>8, <2>1, <2>2, <2>3, <2>4, KeptRerouted
\* The row is left alone, whatever has its rowid.
<1>9. CASE UNCHANGED <<outbox, dropped, crossed>>
  <2>1. WorkOK(Unrouted) /\ work[Unrouted] \in WorkState
    BY <1>1 DEF OwnInv, TypeOK
  <2> DEFINE k == [work[Unrouted] EXCEPT !.reroute = work[Unrouted].reroute \ {it},
                                         !.look = NotLooked]
  <2>2. /\ k.ack = work[Unrouted].ack /\ k.batch = work[Unrouted].batch
        /\ k.reroute = work[Unrouted].reroute \ {it} /\ k.retry = work[Unrouted].retry
    BY <2>1 DEF WorkState
  <2>3. /\ work'[Unrouted] = Return(k)
        /\ \A v \in Workers : v # Unrouted => work'[v] = work[v]
    BY <1>1, <1>2 DEF TypeOK, Rerouted
  <2> HIDE DEF k
  <2>4. /\ Waiting(Unrouted)' \subseteq Waiting(Unrouted) /\ Orderly(work'[Unrouted])
        /\ work'[Unrouted].ack = work[Unrouted].ack
    BY <2>1, <2>2, <2>3, Returns DEF Waiting, Orderly, WorkOK
  <2>5. \A jt \in Waiting(Unrouted) : Holds(Unrouted, jt) => Same(jt.ev.uuid)
    BY <1>9 DEF Holds, Same, Live
  <2>6. WorkOK(Unrouted)'
    BY <1>1, <2>1, <2>4, <2>5, WorkStep
  <2> QED BY <1>1, <1>3, <1>9, <2>3, <2>6, KeptPlans DEF LateOK
<1> HIDE DEF attach
<1> QED BY <1>2, <1>7, <1>8, <1>9

LEMMA KeptRetryRow ==
    ASSUME TypeOK, TypeOK', OwnInv, Grows, NEW s \in Shards, RetryRow(s)
    PROVE  Kept
<1>1. s \in Workers /\ WorkOK(s) /\ work[s] \in WorkState
  BY DEF Workers, OwnInv, TypeOK
<1>2. PICK it \in work[s].retry :
         /\ outbox' = [e \in Events |->
                IF outbox[e].id = it.id
                THEN [outbox[e] EXCEPT !.due = FALSE, !.attempts =
                         IF it.attempts < MaxAttempts THEN it.attempts + 1
                                                      ELSE MaxAttempts]
                ELSE outbox[e]]
         /\ work' = [work EXCEPT ![s] =
                Return([work[s] EXCEPT !.retry = work[s].retry \ {it}])]
  BY DEF RetryRow
<1>3. UNCHANGED <<accepted, folds, dropped, parked, receipts, late>>
  BY DEF RetryRow, appVars
<1>4. ASSUME NEW e \in Live PROVE Same(e)
  <2>1. outbox[e] \in Row /\ e \in Events
    BY LiveRows DEF Live
  <2>2. /\ outbox'[e].id = outbox[e].id /\ outbox'[e].shard = outbox[e].shard
        /\ outbox'[e].ev = outbox[e].ev
    BY <1>2, <2>1 DEF Row
  <2>3. outbox'[e].id # 0
    BY <2>1, <2>2, LiveRows
  <2> QED BY <2>2, <2>3 DEF Same, NoRow
<1>5. Live' = Live
  <2>1. ASSUME NEW e \in Events, e \notin Live PROVE outbox'[e] = NoRow
    <3>1. outbox[e] = NoRow /\ it.id # 0 /\ NoRow.id = 0
      BY <1>1, <1>2, <2>1, ItemTypes DEF Live, NoRow
    <3> QED BY <1>2, <3>1
  <2> QED BY <1>4, <2>1 DEF Same, Live
<1>6. RowInv'
  BY <1>3, <1>4, <1>5, RowsChange DEF Same, OwnInv, RowInv
<1> DEFINE k == [work[s] EXCEPT !.retry = work[s].retry \ {it}]
<1>7. /\ k.ack = work[s].ack /\ k.batch = work[s].batch
      /\ k.reroute = work[s].reroute /\ k.retry = work[s].retry \ {it}
  BY <1>1 DEF WorkState
<1>8. work'[s] = Return(k) /\ \A v \in Workers : v # s => work'[v] = work[v]
  BY <1>1, <1>2 DEF TypeOK
<1> HIDE DEF k
<1>9. /\ Waiting(s)' \subseteq Waiting(s) /\ Orderly(work'[s])
      /\ work'[s].ack = work[s].ack
  BY <1>1, <1>7, <1>8, Returns DEF Waiting, Orderly, WorkOK
<1>10. \A jt \in Waiting(s) : Holds(s, jt) => Same(jt.ev.uuid)
  BY <1>4 DEF Holds
<1>11. WorkOK(s)'
  BY <1>1, <1>9, <1>10, WorkStep
<1>12. \A w \in Workers : WorkOK(w)'
  BY <1>4, <1>8, <1>11, WorkSame DEF OwnInv
<1> QED BY <1>3, <1>5, <1>6, <1>12, KeptStill DEF LateOK

\* The dead letter takes the rows of the events this worker gives up on.
LEMMA KeptParkRows ==
    ASSUME TypeOK, TypeOK', OwnInv, Grows, NEW s \in Shards, ParkRows(s),
           crossed' = FALSE
    PROVE  Kept
<1> DEFINE gives == {e \in Live : \E it \in work[s].retry : outbox[e].id = it.id}
<1>1. /\ parked' = [e \in Events |->
                 IF e \in gives /\ parked[e] = NoEvent
                 THEN [ev |-> outbox[e].ev, shard |-> outbox[e].shard]
                 ELSE parked[e]]
      /\ outbox' = [e \in Events |-> IF e \in gives THEN NoRow ELSE outbox[e]]
      /\ Hits(work[s].retry) /\ work' = [work EXCEPT ![s] = Idle]
      /\ UNCHANGED <<accepted, folds, dropped, receipts, late>>
  BY DEF ParkRows, appVars
<1>2. s \in Workers /\ WorkOK(s)
  BY DEF Workers, OwnInv
<1>3. ASSUME NEW e \in gives
      PROVE  e \in Live /\ (Settled(e) \/ outbox[e].shard = s)
  <2>1. PICK it \in work[s].retry : outbox[e].id = it.id
    OBVIOUS
  <2>2. e = it.ev.uuid
    BY <1>1, <2>1, OwnRow
  <2> QED BY <1>2, <2>1, <2>2 DEF WorkOK, Waiting, Holds
<1> HIDE DEF gives
<1>4. Live' = Live \ gives /\ gives \subseteq Live
  BY <1>1, <1>3 DEF Live
<1>5. \A e \in gives : [ev |-> outbox[e].ev, shard |-> outbox[e].shard] # NoEvent
  BY DEF NoEvent
<1>6. ASSUME NEW e \in Events
      PROVE  /\ parked'[e] # NoEvent <=> parked[e] # NoEvent \/ e \in gives
             /\ parked'[e] = parked[e] \/ (e \in gives /\ parked'[e].ev = outbox[e].ev)
  <2>1. CASE e \in gives /\ parked[e] = NoEvent
    <3>1. parked'[e] = [ev |-> outbox[e].ev, shard |-> outbox[e].shard]
      BY <1>1, <2>1
    <3>2. parked'[e].ev = outbox[e].ev
      BY <3>1
    <3>3. parked'[e] # NoEvent
      BY <1>5, <2>1, <3>1
    <3> QED BY <2>1, <3>2, <3>3
  <2>2. CASE ~(e \in gives /\ parked[e] = NoEvent)
    <3>1. parked'[e] = parked[e]
      BY <1>1, <2>2
    <3> QED BY <2>2, <3>1
  <2> QED BY <2>1, <2>2
<1>7. RowInv'
  <2>1. \A e \in Live' : e \in Live /\ outbox'[e] = outbox[e]
    BY <1>1, <1>4 DEF Live
  <2> QED BY <1>4, <1>6, <2>1 DEF OwnInv, RowInv
<1>8. work'[s] = Idle /\ \A v \in Workers : v # s => work'[v] = work[v]
  BY <1>1, <1>2 DEF TypeOK
<1>9. ASSUME NEW v \in Workers PROVE WorkOK(v)'
  <2>1. CASE v = s
    BY <1>8, <2>1, IdleOK
  <2>2. CASE v # s
    <3>1. ASSUME NEW e \in Live, outbox[e].shard = v PROVE Settled(e)' \/ Same(e)
      <4>1. CASE e \in gives
        BY <1>3, <2>2, <3>1, <4>1, StaySettled DEF Live
      <4>2. CASE e \notin gives
        BY <1>1, <4>2 DEF Same, Live
      <4> QED BY <4>1, <4>2
    <3> QED BY <1>8, <2>2, <3>1, WorkSame DEF OwnInv
  <2> QED BY <2>1, <2>2
<1> QED BY <1>1, <1>4, <1>6, <1>7, <1>9, KeptStill DEF LateOK

LEMMA KeptNext ==
    ASSUME TypeOK, OwnInv, [Next]_vars, crossed' = FALSE
    PROVE  Kept
<1>0. TypeOK' /\ Grows
  BY TypeNext, GrowsNext
<1>1. CASE \E e \in Events : Derive(e)
  BY <1>0, <1>1, KeptQuiet DEF Derive, appVars, queueVars, histVars
<1>2. CASE \E e \in Events : BackoffElapses(e)
  BY <1>0, <1>2, KeptBackoffElapses
<1>3. CASE \E B \in SUBSET Events : Send(B)
  BY <1>0, <1>3, KeptSend
<1>4. CASE \E B \in SUBSET Events : SendFails(B)
  BY <1>0, <1>4, KeptQuiet DEF SendFails, appVars, queueVars, histVars
<1>5. ASSUME NEW s \in Shards, ShardStep(s) PROVE Kept
  <2>1. CASE PollNotModified(s) \/ PollFetch(s) \/ GoStale(s)
    BY <1>0, <2>1, KeptQuiet
       DEF PollNotModified, PollFetch, GoStale, appVars, queueVars, histVars
  <2>2. CASE Deliver(s)
    BY <1>0, <2>2, KeptSelect
  <2>3. CASE PostFails(s)
    BY <1>0, <2>3, KeptPostFails
  <2>4. CASE HandleIngest(s) \/ HandleAcrossRefresh(s)
    BY <1>0, <2>4, KeptHandles
  <2>5. CASE DeleteCommitted(s)
    BY <1>0, <2>5, KeptDeleteCommitted
  <2>6. CASE HandleNotMine(s)
    BY <1>0, <2>6, KeptHandleNotMine
  <2>7. CASE RetryRow(s)
    BY <1>0, <2>7, KeptRetryRow
  <2>8. CASE ParkRows(s)
    BY <1>0, <2>8, KeptParkRows
  <2> QED BY <1>5, <2>1, <2>2, <2>3, <2>4, <2>5, <2>6, <2>7, <2>8 DEF ShardStep
<1>6. CASE PollPublish
  BY <1>0, <1>6, KeptQuiet DEF PollPublish, appVars, queueVars, histVars
<1>7. CASE SelectUnrouted
  BY <1>0, <1>7, KeptSelect
<1>8. CASE ResolveUnrouted
  BY <1>0, <1>8, KeptResolveUnrouted
<1>9. CASE \E w \in Workers : ResolveLookup(w) \/ StatementFails(w)
  BY <1>0, <1>9, KeptResolveLookup, KeptStatementFails
<1>10. CASE \E r \in late : HandleLate(r)
  BY <1>0, <1>10, KeptHandleLate
<1>11. CASE Restart
  BY <1>11, KeptRestart
<1>12. CASE \/ \E s \in Shards : \E d \in Domains : SiteChange(s, d)
            \/ \E a \in Accounts : DeleteAccount(a)
  BY <1>0, <1>12, KeptQuiet DEF SiteChange, DeleteAccount, queueVars
<1>13. CASE \E a \in Accounts : \E e \in Events : PruneReceipt(a, e)
  BY <1>0, <1>13, KeptPrune
<1>14. CASE UNCHANGED vars
  BY <1>0, <1>14, KeptQuiet DEF vars, appVars, queueVars, histVars
<1> QED BY <1>1, <1>2, <1>3, <1>4, <1>5, <1>6, <1>7, <1>8, <1>9, <1>10, <1>11,
           <1>12, <1>13, <1>14 DEF Next

-----------------------------------------------------------------------------
(* The theorems.  A behaviour is sound until a statement crosses, which it   *)
(* may do whatever these properties say; from then on they say nothing.      *)

Sound == crossed \/ OwnInv

LEMMA SoundInit == Init => OwnInv
<1> SUFFICES ASSUME Init PROVE OwnInv
  OBVIOUS
<1>1. Live = {}
  BY DEF Init, Live
<1>2. RowInv
  BY <1>1 DEF Init, RowInv
<1>3. LedgerInv
  BY <1>1 DEF Init, LedgerInv
<1>4. ASSUME NEW w \in Workers PROVE WorkOK(w)
  <2>1. work[w] = Idle
    BY DEF Init
  <2> QED BY <2>1 DEF Idle, WorkOK, Waiting, Orderly
<1> QED BY <1>2, <1>3, <1>4 DEF OwnInv

\* A step either ends crossed, or was sound, stays so, and is of a known kind.
LEMMA SoundStep ==
    ASSUME TypeOK, Sound, [Next]_vars
    PROVE  crossed' \/ (OwnInv /\ Kept /\ ~crossed)
<1>1. crossed' \in BOOLEAN /\ (crossed => crossed')
  BY TypeNext, GrowsNext DEF TypeOK, Grows
<1>2. CASE crossed' = FALSE
  <2>1. OwnInv /\ ~crossed
    BY <1>1, <1>2 DEF Sound
  <2> QED BY <1>2, <2>1, KeptNext
<1> QED BY <1>1, <1>2

LEMMA SoundNext == TypeOK /\ Sound /\ [Next]_vars => Sound'
<1> SUFFICES ASSUME TypeOK, Sound, [Next]_vars PROVE Sound'
  OBVIOUS
<1> QED BY SoundStep DEF Sound, Kept

\* Rowids: whatever a shard's site cache does and however many events share a
\* batch, until a statement crosses, each row a worker still means to reroute or
\* retry is bound to the event it selected, in the partition it selected it from,
\* or its event is settled: only a settled row can be the first to be crossed.
THEOREM OwnershipHolds == Spec => []RowOwnership
<1>1. Sound => RowOwnership
  BY DEF Sound, OwnInv, WorkOK, Waiting, Holds, RowOwnership
<1>2. Init => Sound
  BY SoundInit DEF Sound
<1> QED BY <1>1, <1>2, SoundNext, TypeCorrect, PTL DEF Spec

\* Every accepted event is held by the tier or settled.
KeepsAll == \A e \in accepted : e \in Held \/ Settled(e)
Safe == crossed \/ (OwnInv /\ KeepsAll)

LEMMA KeepsAllNext ==
    ASSUME TypeOK, TypeOK', OwnInv, Grows, Kind, KeepsAll
    PROVE  KeepsAll'
<1>1. accepted \subseteq Events /\ \A e \in Events : Settled(e) => Settled(e)'
  BY StaySettled DEF TypeOK
<1>2. CASE Still \/ (\E e \in Events : Drops(e) /\ Held' = Held)
  BY <1>1, <1>2 DEF Still, Drops, KeepsAll
<1>3. ASSUME NEW B \in SUBSET Events, Custody!Accept(B) PROVE KeepsAll'
  <2>1. accepted' = accepted \cup B /\ Held' = Held \cup B
    BY <1>3 DEF Custody!Accept, Held
  <2> QED BY <1>1, <2>1 DEF KeepsAll
<1>4. ASSUME NEW mine \in SUBSET Payload, NEW ok \in SUBSET Accounts, Writes(mine, ok)
      PROVE  KeepsAll'
  BY <1>1, <1>4 DEF Writes, KeepsAll
<1>5. ASSUME NEW p \in Accounts \X Events, Custody!Forget(p) PROVE KeepsAll'
  <2>1. accepted' = accepted /\ Held' = Held
    BY <1>5 DEF Custody!Forget, Held
  <2> QED BY <1>1, <2>1 DEF KeepsAll
<1>6. ASSUME NEW e \in Events, Custody!Release(e) PROVE KeepsAll'
  <2>1. accepted' = accepted /\ Held' = Held \ {e} /\ Settled(e)
    BY <1>6 DEF Custody!Release, Custody!Settled, Held, Settled, Folded
  <2> QED BY <1>1, <2>1 DEF KeepsAll
<1>7. ASSUME NEW e \in Events, Custody!GiveUp(e) PROVE KeepsAll'
  <2>1. accepted' = accepted /\ Held' = Held \ {e} /\ dropped' = dropped \cup {e}
    BY <1>7 DEF Custody!GiveUp, Held
  <2>2. Settled(e)'
    BY <2>1 DEF Settled
  <2> QED BY <1>1, <2>1, <2>2 DEF KeepsAll
<1> QED BY <1>2, <1>3, <1>4, <1>5, <1>6, <1>7 DEF Kind

LEMMA SafeNext == TypeOK /\ Safe /\ [Next]_vars => Safe'
<1> SUFFICES ASSUME TypeOK, Safe, [Next]_vars PROVE Safe'
  OBVIOUS
<1>1. Sound /\ TypeOK' /\ Grows
  BY TypeNext, GrowsNext DEF Safe, Sound
<1>2. CASE crossed'
  BY <1>2 DEF Safe
<1>3. CASE OwnInv /\ Kept /\ ~crossed
  <2>1. KeepsAll
    BY <1>3 DEF Safe
  <2> QED BY <1>1, <1>3, <2>1, KeepsAllNext DEF Safe, Kept
<1> QED BY <1>1, <1>2, <1>3, SoundStep

\* No loss: until a statement crosses, every event a Send reported durable is in
\* the queue or the dead letter under its own payload, or settled.
THEOREM NothingLost == Spec => []NoLoss
<1>1. Init => Safe
  BY SoundInit DEF Init, Safe, KeepsAll
<1>2. Safe => NoLoss
  BY DEF Safe, KeepsAll, Held, NoLoss
<1> QED BY <1>1, <1>2, SafeNext, TypeCorrect, PTL DEF Spec

-----------------------------------------------------------------------------
(* The refinement of EventCustody. *)

\* What a shard writes is one Handle: the pairs it folds are those its accounts
\* never folded, or have forgotten.
LEMMA WritesImplement ==
    ASSUME TypeOK, NEW mine \in SUBSET Payload, NEW ok \in SUBSET Accounts,
           Writes(mine, ok)
    PROVE  Custody!Next
<1> DEFINE F == {p \in Accounts \X Events : /\ p[1] \in ok \ gone
                                            /\ p[2] \in UuidsOf(mine, p[1]) \ receipts[p[1]]}
           X == UNION {UuidsOf(mine, a) : a \in gone}
           old == {p \in Accounts \X Events : folds[p[1]][p[2]] > 0 /\ p[2] \notin receipts[p[1]]}
           now == {p \in Accounts \X Events : folds'[p[1]][p[2]] > 0 /\ p[2] \notin receipts'[p[1]]}
<1>1. \A a : UuidsOf(mine, a) \subseteq accepted /\ UuidsOf(mine, a) \subseteq Events
  BY DEF UuidsOf, Payload, Writes
<1>2. \A a \in Accounts, e \in Events : folds[a][e] \in 0..2
  BY DEF TypeOK
<1>3. F \subseteq Accounts \X accepted /\ X \subseteq accepted /\ X \subseteq Events
  BY <1>1
<1>4. \A p \in F : folds[p[1]][p[2]] = 0 \/ p \in old
  BY <1>2
<1>5. ASSUME NEW a \in Accounts, NEW e \in Events
      PROVE  <<a, e>> \in F <=> a \in ok \ gone /\ e \in UuidsOf(mine, a) \ receipts[a]
  OBVIOUS
<1>6. ASSUME NEW a \in Accounts, NEW e \in Events
      PROVE  /\ folds'[a][e] = IF <<a, e>> \in F /\ folds[a][e] < 2
                               THEN folds[a][e] + 1 ELSE folds[a][e]
             /\ e \in receipts'[a] <=> e \in receipts[a] \/ <<a, e>> \in F
  BY <1>5 DEF Writes, WriteAccounts
<1>7. folds' = [a \in Accounts |-> [e \in Events |->
                   IF <<a, e>> \in F /\ folds[a][e] < 2
                   THEN folds[a][e] + 1 ELSE folds[a][e]]]
  <2>1. folds' = [a \in Accounts |-> [e \in Events |->
           IF /\ a \in ok \ gone
              /\ e \in UuidsOf(mine, a) \ receipts[a]
              /\ folds[a][e] < 2
           THEN folds[a][e] + 1 ELSE folds[a][e]]]
    BY DEF Writes, WriteAccounts
  <2> HIDE DEF F
  <2> QED BY <1>5, <2>1
<1>8. now = old \ F
  <2> SUFFICES ASSUME NEW p \in Accounts \X Events PROVE p \in now <=> p \in old /\ p \notin F
    OBVIOUS
  <2>1. PICK a \in Accounts, e \in Events : p = <<a, e>>
    OBVIOUS
  <2>2. /\ p \in now <=> folds'[a][e] > 0 /\ e \notin receipts'[a]
        /\ p \in old <=> folds[a][e] > 0 /\ e \notin receipts[a]
    BY <2>1
  <2> HIDE DEF F, now, old
  <2>3. CASE p \in F
    BY <1>6, <2>1, <2>2, <2>3
  <2>4. CASE p \notin F
    BY <1>6, <2>1, <2>2, <2>4
  <2> QED BY <2>3, <2>4
<1>9. accepted' = accepted /\ Held' = Held /\ dropped' = dropped \cup X
  BY DEF Writes, WriteAccounts
<1>10. F \in SUBSET (Accounts \X Events) /\ X \in SUBSET Events
  BY <1>3
<1> HIDE DEF F, X
<1>11. PICK G \in SUBSET (Accounts \X Events), Y \in SUBSET Events : G = F /\ Y = X
  BY <1>10
<1>12. Custody!Handle(G, Y)
  BY <1>3, <1>4, <1>7, <1>8, <1>9, <1>11 DEF Custody!Handle, Held
<1> QED BY <1>12 DEF Custody!Next

LEMMA KindImplements ==
    ASSUME TypeOK, Kind
    PROVE  Custody!Next \/ UNCHANGED Custody!vars
<1>1. CASE Still
  BY <1>1 DEF Still, Held, Custody!vars
<1>2. ASSUME NEW B \in SUBSET Events, Custody!Accept(B) PROVE Custody!Next
  BY <1>2 DEF Custody!Next
<1>3. ASSUME NEW p \in Accounts \X Events, Custody!Forget(p) PROVE Custody!Next
  BY <1>3 DEF Custody!Next
<1>4. ASSUME NEW e \in Events, Custody!Release(e) \/ Custody!GiveUp(e) PROVE Custody!Next
  BY <1>4 DEF Custody!Next
<1>5. ASSUME NEW e \in Events, Drops(e), Held' = Held PROVE Custody!Next
  <2>1. Custody!Handle({}, {e})
    <3>1. folds' = [a \in Accounts |-> [f \in Events |->
             IF <<a, f>> \in {} /\ folds[a][f] < 2 THEN folds[a][f] + 1 ELSE folds[a][f]]]
      BY <1>5 DEF Drops, TypeOK
    <3> QED BY <1>5, <3>1 DEF Custody!Handle, Drops, Held
  <2> QED BY <2>1 DEF Custody!Next
<1> QED BY <1>1, <1>2, <1>3, <1>4, <1>5, WritesImplement DEF Kind

\* Custody: until a statement crosses, every step of the tier is one of
\* EventCustody or changes nothing it speaks of, with sites that change in the
\* middle of a batch, receipts that expire, and batches answered in part.
THEOREM CustodyImplemented == Spec => ImplementsCustody
<1>1. Init => Custody!Init
  BY DEF Init, Custody!Init, Queued, InDeadLetter, Live
<1>2. TypeOK /\ Sound /\ [Next]_vars => [crossed' \/ Custody!Next]_(Custody!vars)
  BY SoundStep, KindImplements DEF Kept
<1>3. Init => Sound
  BY SoundInit DEF Sound
<1> QED BY <1>1, <1>2, <1>3, SoundNext, TypeCorrect, PTL DEF Spec, ImplementsCustody

=============================================================================
