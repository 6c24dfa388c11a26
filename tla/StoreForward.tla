---------------------------- MODULE StoreForward ----------------------------
(***************************************************************************)
(* The store-and-forward ingest path (internal/ingest: outbox.go,          *)
(* remote_router.go, internal_handlers.go, and the receipts of writer.go   *)
(* and receipts.go): an ingester appends every accepted event to its own   *)
(* SQLite outbox, one delivery worker per app shard posts due rows to the  *)
(* shard the merged routing map names, and the shard's writer folds each   *)
(* event into the owning account's database at most once.                  *)
(*                                                                         *)
(* Every SQL statement and every read of the routing map is a step of its  *)
(* own, because the workers, the poller and the public handler share one   *)
(* database and one map and hold no lock across statements.  A request     *)
(* outlives the worker that gave up on it, and the ingester may crash      *)
(* between any two steps.                                                  *)
(***************************************************************************)
EXTENDS Integers, FiniteSets

CONSTANTS
    Events,          \* idempotency UUIDs the clients generate
    Domains,         \* normalised site domains
    DomainOf,        \* the domain each event claims
    Shards,          \* positions of FEASIBLE_INGEST_SHARDS, 0..N-1
    MaySite,         \* MaySite[s][d]: site records shard s may hold for d
    MaxAttempts,     \* outboxMaxAttempts
    BatchSize,       \* outboxBatchSize
    MaxUnrouted,     \* outboxUnroutedMaxRows
    Resends,         \* events whose client repeats the request
    ReceiptsExpire,  \* whether an event may outlive its receipt (30 days)
    MidBatchRefresh, \* whether a shard's site cache may change in mid-batch
    MaxRowId,        \* model bound: largest rowid the outbox may assign
    MaxLate,         \* model bound: abandoned requests still on their way
    MaxUpsets        \* model bound: site changes, deletions and crashes

(***************************************************************************)
(* A site is [id, account]; NoSite stands for a domain nobody claims and   *)
(* for the placeholder (account 0) of an unrouted event.                   *)
(***************************************************************************)
NoSite == [id |-> 0, account |-> 0]
Sites == UNION {MaySite[s][d] : s \in Shards, d \in Domains}
Accounts == {x.account : x \in Sites}
Unrouted == -1
Workers == Shards \cup {Unrouted}
RowIds == 1..MaxRowId

ASSUME ConstantsAssumption ==
    /\ IsFiniteSet(Events)
    /\ DomainOf \in [Events -> Domains]
    /\ Shards \subseteq Nat
    /\ \A s \in Shards : \A d \in Domains :
          MaySite[s][d] \subseteq [id : Nat \ {0}, account : Nat \ {0}]
    /\ MaxAttempts \in Nat \ {0}
    /\ BatchSize \in Nat \ {0}
    /\ MaxUnrouted \in Nat
    /\ Resends \subseteq Events
    /\ ReceiptsExpire \in BOOLEAN /\ MidBatchRefresh \in BOOLEAN
    /\ MaxRowId \in Nat
    /\ MaxLate \in Nat
    /\ MaxUpsets \in Nat

VARIABLES
    \* The app shards: what each one's site cache holds, and per account
    \* database the receipts (recent_event_ids) and whether it was deleted.
    owns, receipts, gone,
    \* The routing map of the ingester process: the published contribution of
    \* each shard, how recently each one checked in, and the poll under way.
    routes, lastSuccess, poll,
    \* Its private database: queue, dead letter and cached contributions.
    outbox, parked, diskRoutes,
    \* Derived events not flushed yet, and what each worker is doing.
    buffered, work,
    \* Requests whose sender stopped waiting for an answer.
    late,
    \* History: events a committed Send reported durable, how often each account
    \* folded each event, events given up on purpose, whether a statement that
    \* names a rowid ever hit another event's row, and the upsets spent.
    accepted, folds, dropped, crossed, upsets

appVars    == <<owns, receipts, gone>>
routeVars  == <<routes, lastSuccess, poll>>
queueVars  == <<outbox, parked>>
histVars   == <<accepted, folds, dropped, crossed, upsets>>
vars == <<appVars, routeVars, queueVars, diskRoutes, buffered, work, late,
          histVars>>

Site == Sites \cup {NoSite}

\* The payload column: the event as JSON, with the claim derived for it.
Payload == [uuid : Events, site : Site]
NoRow == [id |-> 0]
Row == [id : RowIds, ev : Payload, shard : Workers,
        attempts : 0..MaxAttempts, due : BOOLEAN]
NoEvent == [shard |-> -2]
Derived == [site : Site, shard : Workers]
ParkedRow == [ev : Payload, shard : Workers]

\* outboxRow, a worker's copy of a selected row.
Item == [id : RowIds, attempts : 0..MaxAttempts, ev : Payload]
Request == [shard : Shards, events : SUBSET Payload]

(***************************************************************************)
(* One call of deliver or resolveUnrouted: the rows of the posted batch,   *)
(* then the rows it still has to acknowledge, reroute and retry, whether   *)
(* the failure counts as permanent, and the routing answer in hand.        *)
(***************************************************************************)
NotLooked == [id |-> 0, account |-> -1]
Idle == [stage |-> "idle", batch |-> {}, ack |-> {}, reroute |-> {},
         retry |-> {}, permanent |-> FALSE, look |-> NotLooked]
WorkState ==
    [stage : {"idle", "post", "apply"}, batch : SUBSET Item, ack : SUBSET Item,
     reroute : SUBSET Item, retry : SUBSET Item, permanent : BOOLEAN,
     look : Site \cup {NotLooked}]

Snapshot == [Domains -> Site]
Empty == [d \in Domains |-> NoSite]
NoPoll == [shard |-> Unrouted, snapshot |-> Empty]
Poll == [shard : Workers, snapshot : Snapshot]

Live == {e \in Events : outbox[e] # NoRow}

-----------------------------------------------------------------------------
(***************************************************************************)
(* The merged routing map (RemoteRouter).                                  *)
(***************************************************************************)

\* rebuildLocked: the first shard that publishes a domain owns it.
Owner(d) == {s \in Shards : /\ routes[s][d] # NoSite
                            /\ \A t \in Shards : t < s => routes[t][d] = NoSite}

\* Cache.Lookup: the site the merged cache holds for a domain.
CacheLookup(d) ==
    IF Owner(d) = {} THEN NoSite ELSE routes[CHOOSE s \in Owner(d) : TRUE][d]

\* r.account: the last shard that contributes a site of the account.
Contributors(a) ==
    {s \in Shards : \E d \in Domains : s \in Owner(d) /\ routes[s][d].account = a}
LastContributor(a) ==
    {s \in Contributors(a) : \A t \in Contributors(a) : t <= s}

\* completeLocked: every configured shard checked in within the last minute.
Complete == \A s \in Shards : lastSuccess[s] = "fresh"

DestinationReady(s) == lastSuccess[s] = "fresh"

\* Lookup and Shard as Derive combines them: the shards an event whose cache
\* answer was x may be sent to, Unrouted for the account-zero placeholder.
ShardFor(x) ==
    IF x = NoSite THEN (IF Complete THEN {} ELSE {Unrouted})
                  ELSE LastContributor(x.account)

-----------------------------------------------------------------------------
(***************************************************************************)
(* Public side: Pipeline.Derive and Outbox.Send.                           *)
(***************************************************************************)

\* Derive resolves the site, then the shard.  The two reads are atomic here:
\* an event dropped at this point was never answered with a durable 202.
Derive(e) ==
    /\ buffered[e] = NoEvent
    /\ e \in accepted => e \in Resends
    /\ \E s \in ShardFor(CacheLookup(DomainOf[e])) :
          buffered' = [buffered EXCEPT ![e] =
                          [site |-> CacheLookup(DomainOf[e]), shard |-> s]]
    /\ UNCHANGED <<appVars, routeVars, queueVars, diskRoutes, work, late,
                   histVars>>

\* SQLite gives a new row the largest live rowid plus one, so the rowid of a
\* deleted last row is assigned again (the table has no AUTOINCREMENT).
NewRowIds(B, ids) ==
    \E m \in 0..MaxRowId :
        /\ \A f \in Live : outbox[f].id <= m
        /\ m = 0 \/ \E f \in Live : outbox[f].id = m
        /\ \A e \in B : /\ ids[e] > m
                        /\ \A f \in B : ids[f] = ids[e] => f = e
                        /\ ids[e] = m + 1 \/ \E f \in B : ids[f] = ids[e] - 1

\* Send: the events of one flush of one partition, in one transaction.  An
\* event whose UUID is queued already is skipped (ON CONFLICT DO NOTHING) and
\* still reported durable; a full unrouted queue refuses the whole batch.
Send(B) ==
    /\ B # {}
    /\ \A e \in B : buffered[e] # NoEvent
    /\ \E s \in Workers :
          /\ \A e \in B : buffered[e].shard = s
          /\ s = Unrouted =>
                Cardinality({f \in Live : outbox[f].shard = Unrouted})
                    + Cardinality(B) <= MaxUnrouted
    /\ \E ids \in [B \ Live -> RowIds] :
          /\ NewRowIds(B \ Live, ids)
          /\ outbox' = [e \in Events |->
                IF e \in B \ Live
                THEN [id |-> ids[e], shard |-> buffered[e].shard,
                      ev |-> [uuid |-> e, site |-> buffered[e].site],
                      attempts |-> 0, due |-> TRUE]
                ELSE outbox[e]]
    /\ buffered' = [e \in Events |-> IF e \in B THEN NoEvent ELSE buffered[e]]
    /\ accepted' = accepted \cup B
    /\ UNCHANGED <<appVars, routeVars, diskRoutes, parked, work, late,
                   folds, dropped, crossed, upsets>>

\* The transaction fails, or the capacity check refuses the batch: requeue
\* keeps no event whose client still waits, and tells that client so.
SendFails(B) ==
    /\ B # {}
    /\ \E s \in Workers : \A e \in B : buffered[e].shard = s
    /\ buffered' = [e \in Events |-> IF e \in B THEN NoEvent ELSE buffered[e]]
    /\ UNCHANGED <<appVars, routeVars, queueVars, diskRoutes, work, late,
                   histVars>>

-----------------------------------------------------------------------------
(***************************************************************************)
(* RemoteRouter.refreshShard: fetch, then persist and publish.             *)
(***************************************************************************)

\* The app answers 304 when the caller's ETag names the list it would send;
\* the ETag is offered only after a success of this process.
PollNotModified(s) ==
    /\ poll = NoPoll
    /\ lastSuccess[s] # "never" /\ routes[s] = owns[s]
    /\ lastSuccess' = [lastSuccess EXCEPT ![s] = "fresh"]
    /\ UNCHANGED <<appVars, routes, poll, queueVars, diskRoutes, buffered, work,
                   late, histVars>>

\* handleDomains answers with the sites the shard accepts traffic for now.  A
\* failed poll, or an answer with another shard's identity, changes nothing.
PollFetch(s) ==
    /\ poll = NoPoll
    /\ lastSuccess[s] = "never" \/ routes[s] # owns[s]
    /\ poll' = [shard |-> s, snapshot |-> owns[s]]
    /\ UNCHANGED <<appVars, routes, lastSuccess, queueVars, diskRoutes,
                   buffered, work, late, histVars>>

\* persistShard commits the contribution to disk, then one critical section
\* publishes it with its freshness.  The two are one step: the disk copy is
\* read only after a crash, which discards what was published.
PollPublish ==
    /\ poll # NoPoll
    /\ diskRoutes' = [diskRoutes EXCEPT ![poll.shard] = poll.snapshot]
    /\ routes' = [routes EXCEPT ![poll.shard] = poll.snapshot]
    /\ lastSuccess' = [lastSuccess EXCEPT ![poll.shard] = "fresh"]
    /\ poll' = NoPoll
    /\ UNCHANGED <<appVars, queueVars, buffered, work, late, histVars>>

\* A minute passes without a successful poll (routingFreshness).
GoStale(s) ==
    /\ lastSuccess[s] = "fresh"
    /\ lastSuccess' = [lastSuccess EXCEPT ![s] = "stale"]
    /\ UNCHANGED <<appVars, routes, poll, queueVars, diskRoutes, buffered, work,
                   late, histVars>>

-----------------------------------------------------------------------------
(***************************************************************************)
(* Outbox.deliver: select, post, apply the answer.                         *)
(***************************************************************************)

\* A shard's site cache (sites.Cache) picks up a site that was added, removed,
\* lapsed (AcceptTrafficUntil), or came back under another id.
ChangeSite(s, d) ==
    /\ upsets < MaxUpsets /\ upsets' = upsets + 1
    /\ \E x \in MaySite[s][d] \cup {NoSite} :
          /\ x # owns[s][d]
          /\ owns' = [owns EXCEPT ![s][d] = x]

\* Mutant: the query forgets the partition.
DueAnywhere(s) == {e \in Live : outbox[e].due}

\* selectRows: the due rows of one partition, in rowid order, up to the limit.
Due(s) == {e \in Live : outbox[e].shard = s /\ outbox[e].due}
ItemOf(e) == [id |-> outbox[e].id, attempts |-> outbox[e].attempts,
              ev |-> outbox[e].ev]
SelectRows(s) ==
    {ItemOf(e) : e \in {e \in Due(s) :
        Cardinality({f \in Due(s) : outbox[f].id < outbox[e].id}) < BatchSize}}

\* deliver checks the destination and reads its batch.
Deliver(s) ==
    /\ work[s] = Idle /\ DestinationReady(s) /\ Due(s) # {}
    /\ work' = [work EXCEPT ![s] =
                   [Idle EXCEPT !.stage = "post", !.batch = SelectRows(s)]]
    /\ UNCHANGED <<appVars, routeVars, queueVars, diskRoutes, buffered, late,
                   histVars>>

\* handleIngest: the events a shard owns under the claim they carry.
Mine(s, events) == {ev \in events : /\ ev.site = owns[s][DomainOf[ev.uuid]]
                                    /\ ev.site # NoSite}
NotMine(events, mine) == {DomainOf[ev.uuid] : ev \in events \ mine}
UuidsOf(mine, a) == {ev.uuid : ev \in {v \in mine : v.site.account = a}}

\* Mutant: every event of a 200 answer counts as committed.
CommittedUnseen(mine, ok, claimed) ==
    UNION {UuidsOf(mine, a) : a \in Accounts}

\* Writer.Write commits the accounts in ok; of the accounts that fail, those
\* in claimed had got far enough to recognise duplicates.  A deleted account's
\* events are reported committed so that the sender lets them go.
Committed(mine, ok, claimed) ==
    UNION {IF a \in ok \cup gone THEN UuidsOf(mine, a)
           ELSE IF a \in claimed THEN UuidsOf(mine, a) \cap receipts[a]
           ELSE {} : a \in Accounts}

\* Mutant: the receipts are written and not read.
WriteBlindly(mine, ok) ==
    /\ receipts' = [a \in Accounts |->
          IF a \in ok \ gone THEN receipts[a] \cup UuidsOf(mine, a)
                             ELSE receipts[a]]
    /\ folds' = [a \in Accounts |-> [e \in Events |->
          IF a \in ok \ gone /\ e \in UuidsOf(mine, a) /\ folds[a][e] < 2
          THEN folds[a][e] + 1 ELSE folds[a][e]]]
    /\ dropped' = dropped \cup UNION {UuidsOf(mine, a) : a \in gone}

\* What the handler leaves in the account databases: claimEvents inserts the
\* receipt in the transaction that folds the event.
WriteAccounts(mine, ok) ==
    /\ receipts' = [a \in Accounts |->
          IF a \in ok \ gone THEN receipts[a] \cup UuidsOf(mine, a)
                             ELSE receipts[a]]
    /\ folds' = [a \in Accounts |-> [e \in Events |->
          IF /\ a \in ok \ gone
             /\ e \in UuidsOf(mine, a) \ receipts[a]
             /\ folds[a][e] < 2
          THEN folds[a][e] + 1 ELSE folds[a][e]]]
    /\ dropped' = dropped \cup UNION {UuidsOf(mine, a) : a \in gone}

\* The call goes on to apply what it learned about its batch.
RetryAll(w, permanent) ==
    [Idle EXCEPT !.stage = "apply", !.retry = w.batch, !.permanent = permanent]

\* Mutant: a 200 acknowledges the whole batch.
SortedByStatus(w, committed, notMine) ==
    [Idle EXCEPT !.stage = "apply", !.ack = w.batch]

\* A usable answer sorts the batch: acknowledged UUIDs, domains to reroute
\* (every row of the domain, acknowledged or not), and the rest to retry.
Sorted(w, committed, notMine) ==
    LET named == {it \in w.batch : it.ev.uuid \in committed}
        refused == {it \in w.batch : DomainOf[it.ev.uuid] \in notMine}
    IN  [Idle EXCEPT !.stage = "apply", !.ack = named, !.reroute = refused,
                     !.retry = w.batch \ (named \cup refused)]

\* The shard writes what is its own, and its answer is used, or arrives mangled:
\* lost, truncated, or replaced by a refusal, which alone counts as permanent.
\* Nobody else reads the worker's copy of the answer, so receiving it is part
\* of the step.
Batch(s) == {it.ev : it \in work[s].batch}
AnswerUsed(s, mine, ok, claimed) ==
    work' = [work EXCEPT ![s] =
        Sorted(@, Committed(mine, ok, claimed), NotMine(Batch(s), mine))]
Handle(s, mine) ==
    /\ work[s].stage = "post"
    /\ \E ok \in SUBSET Accounts :
          /\ WriteAccounts(mine, ok)
          /\ \/ \E claimed \in SUBSET (Accounts \ ok) :
                   AnswerUsed(s, mine, ok, claimed)
             \/ \E permanent \in BOOLEAN :
                   work' = [work EXCEPT ![s] = RetryAll(@, permanent)]
    /\ UNCHANGED <<gone, routeVars, queueVars, diskRoutes, buffered, late,
                   accepted, crossed>>

HandleIngest(s) ==
    Handle(s, Mine(s, Batch(s))) /\ UNCHANGED <<owns, upsets>>

\* The loop looks every event up on its own, so a refresh of the site cache
\* may fall between two events of a batch.
HandleAcrossRefresh(s) ==
    /\ MidBatchRefresh
    /\ \E d \in Domains : ChangeSite(s, d)
    /\ \E n \in RowIds :
          LET before == {it.ev : it \in {i \in work[s].batch : i.id <= n}}
              after == {ev \in Batch(s) \ before :
                           /\ ev.site = owns'[s][DomainOf[ev.uuid]]
                           /\ ev.site # NoSite}
          IN  Handle(s, Mine(s, before) \cup after)

\* The request never reached the handler, was refused before it (a bad
\* signature), or is still travelling when the worker stops waiting.
PostFails(s) ==
    /\ work[s].stage = "post"
    /\ \E permanent \in BOOLEAN :
          work' = [work EXCEPT ![s] = RetryAll(@, permanent)]
    /\ \/ late' = late
       \/ /\ Cardinality(late) < MaxLate
          /\ late' = late \cup {[shard |-> s,
                                 events |-> Batch(s)]}
    /\ UNCHANGED <<appVars, routeVars, queueVars, diskRoutes, buffered, histVars>>

\* The shard handles a request nobody waits for any more.
HandleLate(r) ==
    /\ r \in late
    /\ late' = late \ {r}
    /\ \E ok \in SUBSET Accounts : WriteAccounts(Mine(r.shard, r.events), ok)
    /\ UNCHANGED <<owns, gone, routeVars, queueVars, diskRoutes, buffered, work,
                   accepted, crossed, upsets>>

-----------------------------------------------------------------------------
(***************************************************************************)
(* Applying an answer, one statement at a time in rowid order.             *)
(***************************************************************************)

First(items, it) == it \in items /\ \A o \in items : it.id <= o.id

\* The call returns once nothing is left to acknowledge, reroute or retry.
Return(w) == IF w.ack = {} /\ w.reroute = {} /\ w.retry = {} THEN Idle ELSE w

\* deleteCommitted: DELETE ... WHERE id = ? AND event_uuid = ?
DeleteCommitted(s) ==
    /\ work[s].stage = "apply"
    /\ \E it \in work[s].ack :
          /\ First(work[s].ack, it)
          /\ outbox' = [e \in Events |->
                IF e = it.ev.uuid /\ outbox[e].id = it.id THEN NoRow
                                                          ELSE outbox[e]]
          /\ work' = [work EXCEPT ![s] =
                Return([work[s] EXCEPT !.ack = @ \ {it}])]
    /\ UNCHANGED <<appVars, routeVars, parked, diskRoutes, buffered, late,
                   histVars>>

\* ResolveEvent, first half: what the merged cache says about the domain.
ResolveLookup(w) ==
    /\ work[w].stage = "apply" /\ work[w].ack = {}
    /\ work[w].look = NotLooked
    /\ \E it \in work[w].reroute :
          /\ First(work[w].reroute, it)
          /\ work' = [work EXCEPT ![w].look = CacheLookup(DomainOf[it.ev.uuid])]
    /\ UNCHANGED <<appVars, routeVars, queueVars, diskRoutes, buffered, late,
                   histVars>>

\* ResolveEvent, second half, read after the first: the shard to send to, or
\* that no shard of a complete map claims the domain.
Resolved(x) == IF x = NoSite THEN {} ELSE LastContributor(x.account)
\* (Mutant: an unclaimed domain is never given up.)
NeverAbsent(x) == FALSE
Absent(x) == x = NoSite /\ Complete

\* The statements below address a row by its rowid alone (WHERE id = ?), and
\* hit another event's row once the rowid has been assigned again.
Crosses(items) ==
    \E it \in items : \E e \in Live : outbox[e].id = it.id /\ e # it.ev.uuid
Hits(items) == crossed' = (crossed \/ Crosses(items))

DeleteRow(id) ==
    [e \in Events |-> IF outbox[e].id = id THEN NoRow ELSE outbox[e]]

\* The event is given up if the row deleted is its own.
GiveUp(it) ==
    /\ outbox' = DeleteRow(it.id)
    /\ dropped' = dropped \cup {e \in Live : e = it.ev.uuid /\ outbox[e].id = it.id}

Rerouted(w, it) == Return([work[w] EXCEPT !.reroute = @ \ {it},
                                          !.look = NotLooked])

\* handleNotMine: reroute, discard an unclaimed domain, or hold the row until
\* the map is complete.
HandleNotMine(s) ==
    /\ work[s].stage = "apply" /\ work[s].look # NotLooked
    /\ \E it \in work[s].reroute :
          /\ First(work[s].reroute, it)
          /\ LET x == work[s].look
             IN  \/ \E t \in Resolved(x) :
                      /\ outbox' = [e \in Events |->
                            IF outbox[e].id = it.id
                            THEN [id |-> it.id, shard |-> t,
                                  ev |-> [uuid |-> it.ev.uuid, site |-> x],
                                  attempts |-> 0, due |-> TRUE]
                            ELSE outbox[e]]
                      /\ UNCHANGED dropped
                 \/ Absent(x) /\ GiveUp(it)
                 \/ /\ Resolved(x) = {} /\ ~Absent(x)
                    /\ outbox' = [e \in Events |->
                          IF outbox[e].id = it.id
                          THEN [outbox[e] EXCEPT !.shard = Unrouted,
                                                 !.attempts = 0, !.due = TRUE]
                          ELSE outbox[e]]
                    /\ UNCHANGED dropped
          /\ Hits({it})
          /\ work' = [work EXCEPT ![s] = Rerouted(s, it)]
    /\ UNCHANGED <<appVars, routeVars, parked, diskRoutes, buffered, late,
                   accepted, folds, upsets>>

\* resolveUnrouted reads its batch: it posts nothing.
SelectUnrouted ==
    /\ work[Unrouted] = Idle /\ Due(Unrouted) # {}
    /\ work' = [work EXCEPT ![Unrouted] =
          [Idle EXCEPT !.stage = "apply", !.reroute = SelectRows(Unrouted)]]
    /\ UNCHANGED <<appVars, routeVars, queueVars, diskRoutes, buffered, late,
                   histVars>>

\* resolveUnrouted attaches the owner it finds, drops a domain no shard of a
\* complete map claims, and leaves any other row alone.
ResolveUnrouted ==
    /\ work[Unrouted].look # NotLooked
    /\ \E it \in work[Unrouted].reroute :
          /\ First(work[Unrouted].reroute, it)
          /\ LET x == work[Unrouted].look
             IN  \/ \E t \in Resolved(x) :
                      /\ outbox' = [e \in Events |->
                            IF outbox[e].id = it.id
                            THEN [outbox[e] EXCEPT !.shard = t,
                                     !.ev = [uuid |-> it.ev.uuid, site |-> x]]
                            ELSE outbox[e]]
                      /\ Hits({it}) /\ UNCHANGED dropped
                 \/ Absent(x) /\ GiveUp(it) /\ Hits({it})
                 \/ /\ Resolved(x) = {} /\ ~Absent(x)
                    /\ UNCHANGED <<outbox, dropped, crossed>>
          /\ work' = [work EXCEPT ![Unrouted] = Rerouted(Unrouted, it)]
    /\ UNCHANGED <<appVars, routeVars, parked, diskRoutes, buffered, late,
                   accepted, folds, upsets>>

\* retryRows: a row refused too often is parked, the others back off.
Exhausted(w) ==
    {it \in w.retry : w.permanent /\ it.attempts + 1 >= MaxAttempts}
Retrying(s) == /\ work[s].stage = "apply"
               /\ work[s].ack = {} /\ work[s].reroute = {}

RetryRow(s) ==
    /\ Retrying(s)
    /\ \E it \in work[s].retry \ Exhausted(work[s]) :
          /\ First(work[s].retry \ Exhausted(work[s]), it)
          /\ outbox' = [e \in Events |->
                IF outbox[e].id = it.id
                THEN [outbox[e] EXCEPT !.due = FALSE, !.attempts =
                         IF it.attempts < MaxAttempts THEN it.attempts + 1
                                                      ELSE MaxAttempts]
                ELSE outbox[e]]
          /\ Hits({it})
          /\ work' = [work EXCEPT ![s] =
                Return([work[s] EXCEPT !.retry = @ \ {it}])]
    /\ UNCHANGED <<appVars, routeVars, parked, diskRoutes, buffered, late,
                   accepted, folds, dropped, upsets>>

\* parkIDs: one transaction copies the exhausted rows to the dead letter,
\* where an older copy of the UUID wins, and deletes them from the queue.
ParkRows(s) ==
    /\ Retrying(s)
    /\ work[s].retry # {} /\ work[s].retry = Exhausted(work[s])
    /\ LET gives == {e \in Live : \E it \in work[s].retry : outbox[e].id = it.id}
       IN  /\ parked' = [e \in Events |->
                 IF e \in gives /\ parked[e] = NoEvent
                 THEN [ev |-> outbox[e].ev, shard |-> outbox[e].shard]
                 ELSE parked[e]]
           /\ outbox' = [e \in Events |-> IF e \in gives THEN NoRow ELSE outbox[e]]
    /\ Hits(work[s].retry)
    /\ work' = [work EXCEPT ![s] = Idle]
    /\ UNCHANGED <<appVars, routeVars, diskRoutes, buffered, late,
                   accepted, folds, dropped, upsets>>

\* A statement fails and the call returns with the rest undone.
StatementFails(w) ==
    /\ work[w].stage = "apply"
    /\ work' = [work EXCEPT ![w] = Idle]
    /\ UNCHANGED <<appVars, routeVars, queueVars, diskRoutes, buffered, late,
                   histVars>>

\* next_try_at passes.
BackoffElapses(e) ==
    /\ e \in Live /\ ~outbox[e].due
    /\ outbox' = [outbox EXCEPT ![e].due = TRUE]
    /\ UNCHANGED <<appVars, routeVars, parked, diskRoutes, buffered, work, late,
                   histVars>>

-----------------------------------------------------------------------------
(***************************************************************************)
(* Restarts, and what happens on the app shards.                           *)
(***************************************************************************)

\* ReplayParked restores every parked row the queue does not hold already and
\* clears the dead letter, in one transaction.
ReplayParked ==
    LET back == {e \in Events : parked[e] # NoEvent} \ Live
    IN  /\ \E ids \in [back -> RowIds] :
              /\ NewRowIds(back, ids)
              /\ outbox' = [e \in Events |->
                    IF e \in back
                    THEN [id |-> ids[e], shard |-> parked[e].shard,
                          ev |-> parked[e].ev, attempts |-> 0, due |-> TRUE]
                    ELSE outbox[e]]
        /\ parked' = [e \in Events |-> NoEvent]

\* The process dies and starts again, with or without -replay-parked: what
\* was in memory is lost, cached routes are loaded, and no shard counts as
\* validated until it answers a poll of the new process.
Restart ==
    /\ upsets < MaxUpsets /\ upsets' = upsets + 1
    /\ buffered' = [e \in Events |-> NoEvent]
    /\ work' = [w \in Workers |-> Idle]
    /\ poll' = NoPoll
    /\ routes' = diskRoutes
    /\ lastSuccess' = [s \in Shards |-> "never"]
    /\ ReplayParked \/ UNCHANGED queueVars
    /\ UNCHANGED <<appVars, diskRoutes, late, accepted, folds, dropped,
                   crossed>>

SiteChange(s, d) ==
    /\ ChangeSite(s, d)
    /\ UNCHANGED <<receipts, gone, routeVars, queueVars, diskRoutes, buffered,
                   work, late, accepted, folds, dropped,
                   crossed>>

\* An account database is deleted for good.
DeleteAccount(a) ==
    /\ upsets < MaxUpsets /\ upsets' = upsets + 1
    /\ a \notin gone /\ gone' = gone \cup {a}
    /\ UNCHANGED <<owns, receipts, routeVars, queueVars, diskRoutes, buffered,
                   work, late, accepted, folds, dropped,
                   crossed>>

\* The receipt pruner drops a receipt older than ReceiptRetention.  By then a
\* row in automatic delivery is long settled; only a parked one can be older.
PruneReceipt(a, e) ==
    /\ ReceiptsExpire /\ e \in receipts[a]
    /\ e \notin Live /\ buffered[e] = NoEvent /\ late = {}
    /\ \A w \in Workers : work[w] = Idle
    /\ receipts' = [receipts EXCEPT ![a] = @ \ {e}]
    /\ UNCHANGED <<owns, gone, routeVars, queueVars, diskRoutes, buffered, work,
                   late, histVars>>

-----------------------------------------------------------------------------
Init ==
    /\ owns \in [Shards -> [Domains -> Site]]
    /\ \A s \in Shards : \A d \in Domains : owns[s][d] \in MaySite[s][d] \cup {NoSite}
    /\ receipts = [a \in Accounts |-> {}]
    /\ gone = {}
    /\ routes = [s \in Shards |-> Empty]
    /\ lastSuccess = [s \in Shards |-> "never"]
    /\ poll = NoPoll
    /\ outbox = [e \in Events |-> NoRow]
    /\ parked = [e \in Events |-> NoEvent]
    /\ diskRoutes = [s \in Shards |-> Empty]
    /\ buffered = [e \in Events |-> NoEvent]
    /\ work = [w \in Workers |-> Idle]
    /\ late = {}
    /\ accepted = {}
    /\ folds = [a \in Accounts |-> [e \in Events |-> 0]]
    /\ dropped = {}
    /\ crossed = FALSE
    /\ upsets = 0

ShardStep(s) ==
    \/ PollNotModified(s) \/ PollFetch(s) \/ GoStale(s)
    \/ Deliver(s) \/ PostFails(s)
    \/ HandleIngest(s) \/ HandleAcrossRefresh(s)
    \/ DeleteCommitted(s) \/ HandleNotMine(s) \/ RetryRow(s) \/ ParkRows(s)

Next ==
    \/ \E e \in Events : Derive(e) \/ BackoffElapses(e)
    \/ \E B \in SUBSET Events : Send(B) \/ SendFails(B)
    \/ \E s \in Shards : ShardStep(s)
    \/ PollPublish
    \/ SelectUnrouted \/ ResolveUnrouted
    \/ \E w \in Workers : ResolveLookup(w) \/ StatementFails(w)
    \/ \E r \in late : HandleLate(r)
    \/ Restart
    \/ \E s \in Shards : \E d \in Domains : SiteChange(s, d)
    \/ \E a \in Accounts : DeleteAccount(a)
    \/ \E a \in Accounts : \E e \in Events : PruneReceipt(a, e)

Spec == Init /\ [][Next]_vars

\* A step in which the network, an app shard or a database lets the ingester
\* down.  An answer is good when every account committed and it arrived whole;
\* a call that returns with nothing left to do did not fail.
GoodAnswer(s) == AnswerUsed(s, Mine(s, Batch(s)), Accounts, {})
Handled(s) == HandleIngest(s) /\ GoodAnswer(s)
Applied(w) == \/ w = Unrouted /\ ResolveUnrouted
              \/ w \in Shards /\ \/ DeleteCommitted(w) \/ HandleNotMine(w)
                                 \/ RetryRow(w) \/ ParkRows(w)
Failure ==
    \/ \E s \in Shards : \/ PostFails(s) \/ GoStale(s)
                         \/ HandleIngest(s) /\ ~GoodAnswer(s)
    \/ \E w \in Workers : StatementFails(w) /\ ~Applied(w)
    \/ \E B \in SUBSET Events : SendFails(B)

\* The tickers of Run never stop, so every worker and the poller take the step
\* they are able to take.  Nothing makes clients send, apps change, processes
\* restart, or failures happen or stop.
Fairness ==
    /\ \A e \in Events : WF_vars(BackoffElapses(e))
    /\ WF_vars(PollPublish) /\ WF_vars(SelectUnrouted) /\ WF_vars(ResolveUnrouted)
    /\ \A s \in Shards :
          /\ WF_vars(PollFetch(s)) /\ WF_vars(PollNotModified(s))
          /\ WF_vars(Deliver(s)) /\ WF_vars(Handled(s))
          /\ WF_vars(DeleteCommitted(s)) /\ WF_vars(HandleNotMine(s))
          /\ WF_vars(RetryRow(s)) /\ WF_vars(ParkRows(s))
    /\ \A w \in Workers : WF_vars(ResolveLookup(w))
FairSpec == Spec /\ Fairness

-----------------------------------------------------------------------------
(***************************************************************************)
(* Properties.                                                             *)
(***************************************************************************)

\* Every variable holds a value of its kind: no row, parked row or derived event
\* names a shard that is not configured, and no attempt counter passes its limit.
TypeOK ==
    /\ owns \in [Shards -> Snapshot]
    /\ receipts \in [Accounts -> SUBSET Events]
    /\ gone \subseteq Accounts
    /\ routes \in [Shards -> Snapshot]
    /\ lastSuccess \in [Shards -> {"never", "fresh", "stale"}]
    /\ poll \in Poll
    /\ outbox \in [Events -> Row \cup {NoRow}]
    /\ parked \in [Events -> ParkedRow \cup {NoEvent}]
    /\ diskRoutes \in [Shards -> Snapshot]
    /\ buffered \in [Events -> Derived \cup {NoEvent}]
    /\ work \in [Workers -> WorkState]
    /\ late \subseteq Request
    /\ accepted \subseteq Events
    /\ folds \in [Accounts -> [Events -> 0..2]]
    /\ dropped \subseteq Events
    /\ crossed \in BOOLEAN
    /\ upsets \in 0..MaxUpsets

\* Where an accepted event can be: in the queue or the dead letter under its own
\* payload, or settled, which is folded into an account or given up on purpose.
Queued(e) == e \in Live /\ outbox[e].ev.uuid = e
InDeadLetter(e) == parked[e] # NoEvent /\ parked[e].ev.uuid = e
Folded(e) == \E a \in Accounts : folds[a][e] > 0
Settled(e) == Folded(e) \/ e \in dropped

\* Custody.  "Outbox owns every event after the public 202 and before the app
\* shard's commit acknowledgment" (outbox.go): no accepted event is ever
\* nowhere, and no row carries another event's payload.  A statement that
\* crosses to a reassigned rowid breaks this, and nothing else does.
NoLoss == ~crossed =>
    \A e \in accepted : Queued(e) \/ InDeadLetter(e) \/ Settled(e)

\* A worker addresses rows by rowid alone (UPDATE and DELETE ... WHERE id = ?),
\* so the rowid of every row it has still to reroute or retry must stay bound
\* to the event it selected, in the partition it selected it from, unless that
\* event is settled.  What is left exposed is a settled row whose rowid is
\* assigned again: the first statement to cross is one for such a row.
RowOwnership == ~crossed =>
    \A w \in Workers : \A it \in work[w].batch \cup work[w].reroute \cup work[w].retry :
        LET e == it.ev.uuid
        IN  \/ Settled(e)
            \/ /\ outbox[e].id = it.id /\ outbox[e].shard = w
               /\ outbox[e].ev = it.ev

\* claimEvents: whatever is retried, replayed, resent, or arrives late, an
\* account folds an event at most once.
AtMostOnce == \A a \in Accounts : \A e \in Events :
                 folds[a][e] <= 1

\* The abstract promise, with the queue and the dead letter as custody: "removes
\* an outbox row only when the owning app names that UUID after commit" (README)
\* becomes that custody ends only for a folded or given-up event, and that an
\* event is folded again only by an account that forgot its receipt.  It holds
\* of every step until a statement crosses to a reassigned rowid.
Custody == INSTANCE EventCustody WITH
    custody <- {e \in Events : Queued(e) \/ InDeadLetter(e)},
    forgotten <- {p \in Accounts \X Events :
                    folds[p[1]][p[2]] > 0 /\ p[2] \notin receipts[p[1]]},
    abandoned <- dropped
ImplementsCustody ==
    Custody!Init /\ [][crossed' \/ Custody!Next]_(Custody!vars)

\* "forwarding a signed batch to the app shard that owns the site" (README):
\* if failures stop, every event in the queue leaves it.
QueueDrains ==
    <>[][~Failure]_vars => \A e \in Events : (e \in Live) ~> (e \notin Live)
=============================================================================
