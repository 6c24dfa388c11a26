----------------------- MODULE WebhookDeliveryProofs -----------------------
(***************************************************************************)
(* Proofs about WebhookDelivery, for every number of endpoints, processes, *)
(* deliveries, jobs and upsets, and for every pair of thresholds:          *)
(*   - every variable has its type;                                        *)
(*   - until a statement fails, a pending delivery has a job;              *)
(*   - until a crash or a deletion as well, it has one job only, and is    *)
(*     offered at most MaxAttempts times;                                  *)
(*   - no endpoint is disabled before its failures reached the warning.    *)
(***************************************************************************)
EXTENDS WebhookDelivery, TLAPS

(***************************************************************************)
(* The state a step relies on: a worker that is not idle holds an          *)
(* executing job of the delivery it works on, nobody else holds that job,  *)
(* and a delivery in the log has an endpoint (the foreign key).            *)
(***************************************************************************)
Shape ==
    /\ endpoint \in [Endpoints -> Endpoint \cup {NoRow}]
    /\ delivery \in [DeliveryIds -> Delivery \cup {NoRow}]
    /\ job \in [JobIds -> Job \cup {NoRow}]
    /\ worker \in [Workers -> Worker]
    /\ edit \in [Endpoints -> {"none", "enabled", "disabled"}]

Held ==
    \A w \in Workers :
        IF At(w, "idle") THEN worker[w].job = 0
        ELSE /\ worker[w].job \in JobIds /\ worker[w].delivery \in DeliveryIds
             /\ At(w, "claimed") \/ worker[w].to \in Endpoints \/ At(w, "done")
             /\ Exists(job[worker[w].job])
             /\ job[worker[w].job].state = "executing"
             /\ job[worker[w].job].delivery = worker[w].delivery

HeldOnce ==
    \A v, w \in Workers :
        worker[v].job = worker[w].job /\ worker[v].job # 0 => v = w

HasEndpoint == \A d \in Logged : Exists(endpoint[delivery[d].to])

Basic == Shape /\ Held /\ HeldOnce /\ HasEndpoint

LEMMA BasicInit == Init => Basic
<1> SUFFICES ASSUME Init PROVE Basic
  OBVIOUS
<1>1. Shape
  BY DEF Init, Shape, Endpoint, Idle, Worker, Stage
<1>2. Held /\ HeldOnce
  BY DEF Init, Held, HeldOnce, Idle, At
<1>3. HasEndpoint
  BY DEF Init, HasEndpoint, Logged, Exists
<1> QED BY <1>1, <1>2, <1>3 DEF Basic

\* What a row and a worker consist of.
LEMMA Fields ==
    ASSUME Shape
    PROVE  /\ \A d \in DeliveryIds : Exists(delivery[d]) =>
                 delivery[d] \in Delivery /\ delivery[d].to \in Endpoints
           /\ \A e \in Endpoints : Exists(endpoint[e]) => endpoint[e] \in Endpoint
           /\ \A k \in JobIds : Exists(job[k]) =>
                 job[k] \in Job /\ job[k].delivery \in DeliveryIds
           /\ \A w \in Workers : worker[w] \in Worker
BY DEF Shape, Exists, Delivery, Job

\* The rows that are written are rows, and are not NoRow.
LEMMA RowTypes ==
    /\ \A d \in DeliveryIds : \A due \in BOOLEAN :
          NewJob(d, due) \in Job /\ Exists(NewJob(d, due))
    /\ \A e \in Endpoints :
          /\ [state |-> "pending", attempt |-> 0, to |-> e] \in Delivery
          /\ Exists([state |-> "pending", attempt |-> 0, to |-> e])
    /\ \A r \in Job : Exists(r)
    /\ \A r \in Delivery : Exists(r)
    /\ \A r \in Endpoint : Exists(r)
    /\ ~Exists(NoRow)
BY DEF NewJob, Job, Delivery, Endpoint, Exists, NoRow

(***************************************************************************)
(* Upsets are only counted up.                                             *)
(***************************************************************************)
Counts == upsets \in [Kinds -> Nat]

LEMMA CountsGrow ==
    ASSUME Counts, [Next]_vars
    PROVE  /\ Counts'
           /\ \A kinds \in SUBSET Kinds : Without(kinds)' => Without(kinds)
<1>1. CASE UNCHANGED upsets
  BY <1>1 DEF Counts, Without
<1>2. CASE \E kind \in Kinds : Upset(kind)
  BY <1>2 DEF Upset, Counts, Without
<1> QED
  BY <1>1, <1>2 DEF Next, vars, Kinds, Attempt, Publish, Redeliver, Enqueue,
     UpdateReads, UpdateWrites, Delete, Claim, BackoffElapses, ReleaseStale,
     ReadDelivery, ReadEndpoint, Send, FinishDelivered, RecordSuccess,
     CountFailure, Warn, Disable, Reschedule, FinishFailed, CompleteJob,
     StatementFails, Crash

-----------------------------------------------------------------------------
(* Basic is an invariant: one lemma per group of actions. *)

\* A worker that goes on with its job keeps it, as long as nobody touches the
\* jobs that are executing.
LEMMA KeepsJob ==
    ASSUME Basic, NEW w \in Workers, worker' \in [Workers -> Worker],
           \A v \in Workers \ {w} : worker'[v] = worker[v],
           worker'[w].job = worker[w].job,
           worker'[w].delivery = worker[w].delivery,
           ~At(w, "idle"), worker'[w].stage # "idle",
           worker'[w].to \in Endpoints \/ worker'[w].stage = "done",
           \A k \in JobIds :
              Exists(job[k]) /\ job[k].state = "executing" => job'[k] = job[k]
    PROVE  Held' /\ HeldOnce'
BY DEF Basic, Held, HeldOnce, At, Exists

\* Steps of an attempt that change no job.
LEMMA BasicAttempt ==
    ASSUME Basic, NEW w \in Workers,
           \/ ReadDelivery(w) \/ ReadEndpoint(w) \/ Send(w) \/ FinishDelivered(w)
           \/ RecordSuccess(w) \/ CountFailure(w) \/ Warn(w) \/ Disable(w)
           \/ FinishFailed(w)
    PROVE  Basic'
<1>1. worker[w] \in Worker /\ worker[w].delivery \in DeliveryIds
      /\ ~At(w, "idle") /\ job' = job /\ edit' = edit
      /\ (~At(w, "claimed") /\ ~At(w, "done") => worker[w].to \in Endpoints)
  BY Fields DEF Basic, Held, At, ReadDelivery, ReadEndpoint, Send,
     FinishDelivered, RecordSuccess, CountFailure, Warn, Disable, FinishFailed
<1>2. /\ worker' \in [Workers -> Worker]
      /\ \A v \in Workers \ {w} : worker'[v] = worker[v]
      /\ worker'[w].job = worker[w].job /\ worker'[w].delivery = worker[w].delivery
      /\ worker'[w].stage # "idle"
      /\ worker'[w].to \in Endpoints \/ worker'[w].stage = "done"
  <2>1. CASE ReadDelivery(w)
    <3>1. Exists(delivery[worker[w].delivery]) =>
             /\ delivery[worker[w].delivery].attempt \in Nat
             /\ delivery[worker[w].delivery].to \in Endpoints
      BY <1>1, Fields DEF Basic, Delivery
    <3> QED BY <2>1, <3>1, <1>1 DEF Basic, Shape, ReadDelivery, Advance, Worker,
              Stage, Exists
  <2>2. CASE ReadEndpoint(w)
    <3>1. Exists(endpoint[worker[w].to]) => endpoint[worker[w].to].failures \in Nat
      BY <1>1, <2>2, Fields DEF Basic, Endpoint, At, ReadEndpoint
    <3> QED BY <2>2, <3>1, <1>1 DEF Basic, Shape, ReadEndpoint, Advance, Worker,
              Stage, Exists, At
  <2>3. CASE ~ReadDelivery(w) /\ ~ReadEndpoint(w)
    <3>1. /\ \E s \in Stage \ {"idle"} : Advance(w, s)
          /\ worker[w].to \in Endpoints
      BY <2>3, <1>1 DEF Send, FinishDelivered, RecordSuccess, CountFailure, Warn,
         Disable, FinishFailed, NextStage, Stage, At
    <3> QED BY <3>1, <1>1 DEF Basic, Shape, Advance, Worker
  <2> QED BY <2>1, <2>2, <2>3
<1>3. Held' /\ HeldOnce'
  BY <1>1, <1>2, KeepsJob DEF Basic
<1>4. /\ delivery' \in [DeliveryIds -> Delivery \cup {NoRow}]
      /\ \A d \in DeliveryIds : /\ Exists(delivery'[d]) <=> Exists(delivery[d])
                                /\ Exists(delivery[d]) => delivery'[d].to = delivery[d].to
  <2>1. CASE FinishDelivered(w) \/ FinishFailed(w)
    <3>1. PICK s \in {"delivered", "failed"} : Finish(w, s)
      BY <2>1 DEF FinishDelivered, FinishFailed
    <3> QED BY <3>1, <1>1 DEF Basic, Shape, Finish, Logged, Delivery, Exists, NoRow
  <2>2. CASE ~(FinishDelivered(w) \/ FinishFailed(w))
    BY <2>2 DEF Basic, Shape, ReadDelivery, ReadEndpoint, Send, RecordSuccess,
       CountFailure, Warn, Disable
  <2> QED BY <2>1, <2>2
<1>5. /\ endpoint' \in [Endpoints -> Endpoint \cup {NoRow}]
      /\ \A e \in Endpoints : Exists(endpoint[e]) => Exists(endpoint'[e])
  <2>1. CASE RecordSuccess(w)
    BY <2>1, <1>1 DEF Basic, Shape, RecordSuccess, Endpoint, Exists, NoRow
  <2>2. CASE CountFailure(w)
    <3>1. worker[w].failures + 1 \in Nat
      BY <1>1 DEF Worker
    <3> QED BY <2>2, <3>1, <1>1 DEF Basic, Shape, CountFailure, Endpoint, Exists,
              NoRow
  <2>3. CASE Disable(w)
    BY <2>3, <1>1 DEF Basic, Shape, Disable, Endpoint, Exists, NoRow
  <2>4. CASE ~RecordSuccess(w) /\ ~CountFailure(w) /\ ~Disable(w)
    BY <2>4 DEF Basic, Shape, ReadDelivery, ReadEndpoint, Send, FinishDelivered,
       Warn, FinishFailed
  <2> QED BY <2>1, <2>2, <2>3, <2>4
<1>6. HasEndpoint'
  BY <1>4, <1>5, Fields DEF Basic, HasEndpoint, Logged
<1> QED BY <1>1, <1>2, <1>3, <1>4, <1>5, <1>6 DEF Basic, Shape

LEMMA BasicEnqueue ==
    ASSUME Basic, NEW e \in Endpoints, NEW d \in DeliveryIds, Enqueue(e, d)
    PROVE  Basic'
<1>1. PICK k \in JobIds : FreeJob(k) /\ job' = [job EXCEPT ![k] = NewJob(d, TRUE)]
  BY DEF Enqueue
<1>2. job' \in [JobIds -> Job \cup {NoRow}]
  BY <1>1, RowTypes DEF Basic, Shape
<1>3. delivery' \in [DeliveryIds -> Delivery \cup {NoRow}]
  BY RowTypes DEF Basic, Shape, Enqueue
<1>4. Held' /\ HeldOnce'
  <2>1. \A x \in JobIds : Exists(job[x]) => job'[x] = job[x]
    BY <1>1 DEF Basic, Shape, FreeJob
  <2> QED BY <2>1 DEF Basic, Held, HeldOnce, Enqueue, At
<1>5. HasEndpoint'
  <2>1. \A x \in DeliveryIds \ {d} : delivery'[x] = delivery[x]
    BY DEF Enqueue, Basic, Shape
  <2>2. Exists(endpoint[e]) /\ delivery'[d].to = e /\ endpoint' = endpoint
    BY DEF Enqueue, Basic, Shape
  <2> QED BY <2>1, <2>2 DEF Basic, HasEndpoint, Logged
<1> QED BY <1>2, <1>3, <1>4, <1>5 DEF Basic, Shape, Enqueue

LEMMA BasicUpdates ==
    ASSUME Basic, NEW e \in Endpoints, UpdateReads(e) \/ UpdateWrites(e)
    PROVE  Basic'
<1>1. edit' \in [Endpoints -> {"none", "enabled", "disabled"}]
  BY Fields DEF Basic, Shape, Endpoint, UpdateReads, UpdateWrites
<1>2. /\ endpoint' \in [Endpoints -> Endpoint \cup {NoRow}]
      /\ \A x \in Endpoints : Exists(endpoint[x]) => Exists(endpoint'[x])
  <2>1. CASE UpdateReads(e)
    BY <2>1 DEF Basic, Shape, UpdateReads
  <2>2. CASE UpdateWrites(e)
    <3>1. Exists(endpoint[e]) => endpoint[e].failures \in Nat
      BY Fields DEF Basic, Endpoint
    <3>2. \/ UNCHANGED endpoint
          \/ \E row \in Endpoint : endpoint' = [endpoint EXCEPT ![e] = row]
      <4>1. PICK state \in {"enabled", "disabled"} :
               LET on == state = "enabled" /\ edit[e] = "disabled"
               IN  \/ endpoint' = [endpoint EXCEPT ![e] =
                         [state |-> state,
                          failures |-> IF on THEN 0 ELSE endpoint[e].failures]]
                      /\ Exists(endpoint[e])
                   \/ UNCHANGED endpoint
        BY <2>2 DEF UpdateWrites
      <4> QED BY <3>1, <4>1 DEF Endpoint
    <3> QED BY <3>2, RowTypes DEF Basic, Shape
  <2> QED BY <2>1, <2>2
<1>3. UNCHANGED <<delivery, job, worker>>
  BY DEF UpdateReads, UpdateWrites
<1>4. HasEndpoint'
  BY <1>2, <1>3, Fields DEF Basic, HasEndpoint, Logged
<1> QED BY <1>1, <1>2, <1>3, <1>4 DEF Basic, Shape, Held, HeldOnce, At

LEMMA BasicDelete ==
    ASSUME Basic, NEW e \in Endpoints, Delete(e)
    PROVE  Basic'
<1>1. /\ endpoint' \in [Endpoints -> Endpoint \cup {NoRow}]
      /\ \A x \in Endpoints \ {e} : endpoint'[x] = endpoint[x]
  BY DEF Basic, Shape, Delete
<1>2. /\ delivery' \in [DeliveryIds -> Delivery \cup {NoRow}]
      /\ \A d \in Logged' : d \in Logged /\ delivery'[d] = delivery[d]
                                         /\ delivery[d].to # e
  BY DEF Basic, Shape, Delete, Logged, Exists
<1>3. HasEndpoint'
  BY <1>1, <1>2, Fields DEF Basic, HasEndpoint, Logged
<1> QED BY <1>1, <1>2, <1>3 DEF Basic, Shape, Held, HeldOnce, At, Delete

LEMMA BasicClaim ==
    ASSUME Basic, NEW w \in Workers, NEW k \in JobIds, Claim(w, k)
    PROVE  Basic'
<1>1. job[k] \in Job /\ k # 0
  BY Fields DEF Basic, Claim, JobIds
<1>2. worker' = [worker EXCEPT ![w] =
         [stage |-> "claimed", job |-> k, delivery |-> job[k].delivery,
          attempt |-> 0, to |-> NoEndpoint, failures |-> 0]]
  BY DEF Claim
<1>3. job' \in [JobIds -> Job \cup {NoRow}]
  BY <1>1 DEF Basic, Shape, Claim, Job
<1>4. worker' \in [Workers -> Worker]
  BY <1>1, <1>2 DEF Basic, Shape, Worker, Stage, Job
<1>5. \A v \in Workers : worker[v].job # k
  BY <1>1 DEF Basic, Held, Claim, At
<1>6. /\ \A x \in JobIds \ {k} : job'[x] = job[x]
      /\ job'[k].state = "executing" /\ job'[k].delivery = job[k].delivery
      /\ Exists(job'[k])
  BY <1>1, RowTypes DEF Basic, Shape, Claim, Job
<1>7. Held'
  BY <1>1, <1>2, <1>5, <1>6 DEF Basic, Shape, Held, At, Job
<1>8. HeldOnce'
  BY <1>2, <1>5 DEF Basic, Shape, HeldOnce
<1> QED BY <1>3, <1>4, <1>7, <1>8 DEF Basic, Shape, HasEndpoint, Logged, Claim

LEMMA BasicReschedule ==
    ASSUME Basic, NEW w \in Workers, Reschedule(w)
    PROVE  Basic'
<1> DEFINE d == worker[w].delivery
<1>1. d \in DeliveryIds /\ worker[w] \in Worker
  BY Fields DEF Basic, Held, At, Reschedule
<1>2. PICK k \in JobIds : FreeJob(k) /\ job' = [job EXCEPT ![k] = NewJob(d, FALSE)]
  BY DEF Reschedule, QueueNext
<1>3. job' \in [JobIds -> Job \cup {NoRow}]
  BY <1>1, <1>2, RowTypes DEF Basic, Shape
<1>4. \A x \in JobIds : Exists(job[x]) => job'[x] = job[x]
  BY <1>2 DEF Basic, Shape, FreeJob
<1>5. worker' \in [Workers -> Worker]
  BY <1>1 DEF Reschedule, Advance, Basic, Shape, Worker, Stage
<1>6. Held' /\ HeldOnce'
  BY <1>1, <1>4, <1>5, KeepsJob DEF Reschedule, Advance, At, Basic, Shape
<1>7. /\ delivery' \in [DeliveryIds -> Delivery \cup {NoRow}]
      /\ \A x \in DeliveryIds : /\ Exists(delivery'[x]) <=> Exists(delivery[x])
                                /\ Exists(delivery[x]) => delivery'[x].to = delivery[x].to
  <2>1. worker[w].attempt + 1 \in Nat
    BY <1>1 DEF Worker
  <2> QED BY <2>1, <1>1 DEF Reschedule, Basic, Shape, Delivery, Exists, NoRow
<1>8. HasEndpoint'
  BY <1>7 DEF Basic, HasEndpoint, Logged, Reschedule
<1> QED BY <1>3, <1>5, <1>6, <1>7, <1>8 DEF Basic, Shape, Reschedule

LEMMA BasicCompleteJob ==
    ASSUME Basic, NEW w \in Workers, CompleteJob(w)
    PROVE  Basic'
<1>1. /\ \A v \in Workers \ {w} : worker'[v] = worker[v]
      /\ worker'[w] = Idle /\ worker' \in [Workers -> Worker]
  BY DEF CompleteJob, Basic, Shape, Idle, Worker, Stage
<1>2. /\ job' \in [JobIds -> Job \cup {NoRow}]
      /\ \A k \in JobIds : k # worker[w].job => job'[k] = job[k]
  BY DEF CompleteJob, Completed, Basic, Shape
<1>3. worker[w].job \in JobIds /\ worker[w].job # 0
  BY DEF CompleteJob, Basic, Held, At, JobIds
<1>4. Held' /\ HeldOnce'
  BY <1>1, <1>2, <1>3 DEF Basic, Held, HeldOnce, At, Idle
<1> QED BY <1>1, <1>2, <1>4 DEF Basic, Shape, HasEndpoint, Logged, CompleteJob

LEMMA BasicFailures ==
    ASSUME Basic, NEW w \in Workers, StatementFails(w) \/ Crash(w)
    PROVE  Basic'
<1>1. UNCHANGED <<endpoint, delivery, job, edit>> /\ ~At(w, "idle")
  BY DEF StatementFails, Crash
<1>2. CASE worker' = [worker EXCEPT ![w] = Idle]
  <2>1. worker' \in [Workers -> Worker]
    BY <1>2 DEF Basic, Shape, Idle, Worker, Stage
  <2>2. Held' /\ HeldOnce'
    BY <1>1, <1>2 DEF Basic, Shape, Held, HeldOnce, At, Idle
  <2> QED BY <1>1, <2>1, <2>2 DEF Basic, Shape, HasEndpoint, Logged
<1>3. CASE Advance(w, "done")
  <2>1. worker' \in [Workers -> Worker]
    BY <1>3 DEF Basic, Shape, Advance, Worker, Stage
  <2>2. Held' /\ HeldOnce'
    BY <1>1, <1>3, <2>1, KeepsJob DEF Basic, Shape, Advance
  <2> QED BY <1>1, <2>1, <2>2 DEF Basic, Shape, HasEndpoint, Logged
<1> QED BY <1>2, <1>3 DEF StatementFails, Crash

LEMMA BasicTime ==
    ASSUME Basic, NEW k \in JobIds, BackoffElapses(k) \/ ReleaseStale(k)
    PROVE  Basic'
<1>1. job[k] \in Job
  BY Fields DEF Basic, BackoffElapses, ReleaseStale
<1>2. /\ \A x \in JobIds \ {k} : job'[x] = job[x]
      /\ job'[k] \in Job /\ job'[k].delivery = job[k].delivery
      /\ ReleaseStale(k) \/ job'[k].state = job[k].state
  <2>1. CASE BackoffElapses(k)
    BY <1>1, <2>1 DEF Basic, Shape, BackoffElapses, Job
  <2>2. CASE ReleaseStale(k)
    BY <1>1, <2>2 DEF Basic, Shape, ReleaseStale, Job
  <2> QED BY <2>1, <2>2
<1>3. job' \in [JobIds -> Job \cup {NoRow}] /\ Exists(job'[k])
  BY <1>2, RowTypes DEF Basic, Shape, BackoffElapses, ReleaseStale
<1>4. UNCHANGED <<endpoint, delivery, worker, edit>>
  BY DEF BackoffElapses, ReleaseStale
<1>5. Held' /\ HeldOnce'
  BY <1>2, <1>3, <1>4 DEF Basic, Held, HeldOnce, At, ReleaseStale
<1> QED BY <1>3, <1>4, <1>5 DEF Basic, Shape, HasEndpoint, Logged

LEMMA BasicNext == Basic /\ [Next]_vars => Basic'
<1> SUFFICES ASSUME Basic, [Next]_vars PROVE Basic'
  OBVIOUS
<1>1. CASE UNCHANGED vars
  BY <1>1 DEF vars, Basic, Shape, Held, HeldOnce, HasEndpoint, Logged, At
<1>2. CASE Next
  BY <1>2, BasicEnqueue, BasicUpdates, BasicDelete, BasicClaim, BasicTime,
     BasicAttempt, BasicReschedule, BasicCompleteJob, BasicFailures
     DEF Next, Attempt, Publish, Redeliver
<1> QED BY <1>1, <1>2

Outcome == {"none", "told", "lost", "old"}
Histories == /\ offers \in [DeliveryIds -> Nat]
             /\ warning \in [Endpoints -> Outcome] /\ old \subseteq Workers

LEMMA HistoryNext == Basic /\ Histories /\ [Next]_vars => Histories'
<1> SUFFICES ASSUME Basic, Histories, [Next]_vars PROVE Histories'
  OBVIOUS
<1> USE DEF Histories, Outcome
<1>1. CASE UNCHANGED <<offers, warning, old>>
  BY <1>1
<1>2. ASSUME NEW e \in Endpoints, NEW d \in DeliveryIds, Enqueue(e, d)
      PROVE  Histories'
  BY <1>2 DEF Enqueue, notices
<1>3. ASSUME NEW w \in Workers, Send(w)
      PROVE  Histories'
  <2> DEFINE x == worker[w].delivery
  <2>1. offers' = [offers EXCEPT ![x] = offers[x] + 1] /\ UNCHANGED <<warning, old>>
    BY <1>3 DEF Send, notices
  <2> HIDE DEF x
  <2>2. \A d \in DeliveryIds : offers'[d] = IF d = x THEN offers[d] + 1 ELSE offers[d]
    BY <2>1
  <2>3. \A d \in DeliveryIds : offers[d] \in Nat
    OBVIOUS
  <2>4. \A d \in DeliveryIds : offers'[d] \in Nat
    BY <2>2, <2>3
  <2>5. offers' = [d \in DeliveryIds |-> offers'[d]]
    BY <2>1
  <2> QED BY <2>1, <2>4, <2>5
<1>4. ASSUME NEW e \in Endpoints, UpdateWrites(e)
      PROVE  Histories'
  <2>1. offers' = offers
    BY <1>4 DEF UpdateWrites
  <2>2. Cleared(e) \/ UNCHANGED notices
    BY <1>4 DEF UpdateWrites
  <2> QED BY <2>1, <2>2 DEF Cleared, notices
<1>5. ASSUME NEW w \in Workers, RecordSuccess(w)
      PROVE  Histories'
  <2>1. offers' = offers /\ (Cleared(worker[w].to) \/ UNCHANGED notices)
    BY <1>5 DEF RecordSuccess
  <2> QED BY <2>1 DEF Cleared, notices
<1>6. ASSUME NEW w \in Workers, Warn(w) \/ CountFailure(w)
      PROVE  Histories'
  BY <1>6 DEF Warn, CountFailure, Warning
<1>7. ASSUME NEW w \in Workers, CompleteJob(w) \/ StatementFails(w) \/ Crash(w)
      PROVE  Histories'
  BY <1>7 DEF CompleteJob, StatementFails, Crash, Warning
<1>8. CASE Next
  BY <1>1, <1>2, <1>3, <1>4, <1>5, <1>6, <1>7, <1>8 DEF Next, Attempt, Publish, Redeliver,
     UpdateReads, Delete, Claim, BackoffElapses, ReleaseStale, ReadDelivery,
     ReadEndpoint, FinishDelivered, Disable, Reschedule, FinishFailed, notices
<1> QED BY <1>1, <1>8 DEF vars, notices

\* Type correctness.
THEOREM TypeCorrect == Spec => []TypeOK
<1> DEFINE Inv == Basic /\ Counts /\ Histories
<1>1. Init => Inv
  BY BasicInit DEF Init, Counts, Histories, Outcome
<1>2. Inv /\ [Next]_vars => Inv'
  BY BasicNext, CountsGrow, HistoryNext
<1>3. Inv => TypeOK
  BY DEF Basic, Shape, Counts, Histories, Outcome, TypeOK
<1> QED BY <1>1, <1>2, <1>3, PTL DEF Spec

-----------------------------------------------------------------------------
(***************************************************************************)
(* A pending delivery has a job that will attempt it.  Scheduled is not    *)
(* inductive: when the id of a deleted delivery has been assigned again, a *)
(* worker may be about to find the old endpoint gone, or to record the old *)
(* success.  Useful leaves the jobs of those workers out.                  *)
(***************************************************************************)
Astray(w, d) ==
    \/ At(w, "done") \/ At(w, "succeeded")
    \/ At(w, "pending") /\ worker[w].to # delivery[d].to
Useful(d) ==
    {k \in JobIds : /\ Exists(job[k]) /\ job[k].delivery = d
                    /\ \A w \in Workers : worker[w].job = k => ~Astray(w, d)}
PendingHasUseful ==
    \A d \in Logged : delivery[d].state = "pending" => Useful(d) # {}

\* A job that is just inserted is useful.
LEMMA UsefulNew ==
    ASSUME Basic, NEW k \in JobIds, NEW d \in DeliveryIds, NEW due \in BOOLEAN,
           FreeJob(k), job' = [job EXCEPT ![k] = NewJob(d, due)],
           \A v \in Workers : worker'[v].job = worker[v].job
    PROVE  Useful(d)' # {}
<1>1. \A v \in Workers : worker'[v].job # k
  BY DEF Basic, Held, FreeJob, At, JobIds
<1>2. job'[k] = NewJob(d, due)
  BY DEF Basic, Shape
<1>3. Exists(job'[k]) /\ job'[k].delivery = d
  BY <1>2, RowTypes DEF NewJob
<1>4. k \in Useful(d)'
  BY <1>1, <1>3 DEF Useful
<1> QED BY <1>4

\* What a worker does leaves the useful jobs of a delivery useful, unless it
\* goes astray with one of them.
LEMMA UsefulStays ==
    ASSUME Basic, NEW w \in Workers, NEW d \in DeliveryIds,
           \A k \in JobIds : Exists(job[k]) => job'[k] = job[k],
           \A v \in Workers \ {w} : worker'[v] = worker[v],
           worker'[w].job = worker[w].job,
           delivery'[d].to = delivery[d].to,
           worker[w].delivery = d /\ ~Astray(w, d) => ~Astray(w, d)'
    PROVE  Useful(d) \subseteq Useful(d)'
<1> SUFFICES ASSUME NEW k \in Useful(d) PROVE k \in Useful(d)'
  OBVIOUS
<1>1. /\ k \in JobIds /\ Exists(job[k]) /\ job[k].delivery = d
      /\ \A v \in Workers : worker[v].job = k => ~Astray(v, d)
  BY DEF Useful
<1>2. Exists(job'[k]) /\ job'[k].delivery = d
  BY <1>1
<1>3. worker[w].job = k => worker[w].delivery = d
  BY <1>1 DEF Basic, Held, At, JobIds
<1>4. ASSUME NEW v \in Workers, worker'[v].job = k
      PROVE  ~Astray(v, d)'
  <2>1. CASE v = w
    BY <2>1, <1>1, <1>3, <1>4
  <2>2. CASE v # w
    BY <2>2, <1>1, <1>4 DEF At, Astray
  <2> QED BY <2>1, <2>2
<1> QED BY <1>1, <1>2, <1>4 DEF Useful

LEMMA PendingAttempt ==
    ASSUME Basic, PendingHasUseful, Counts, NEW w \in Workers, Without({"fault"})',
           \/ ReadDelivery(w) \/ ReadEndpoint(w) \/ Send(w) \/ FinishDelivered(w)
           \/ RecordSuccess(w) \/ CountFailure(w) \/ Warn(w) \/ Disable(w)
           \/ FinishFailed(w)
    PROVE  PendingHasUseful'
<1> SUFFICES ASSUME NEW d \in Logged', delivery'[d].state = "pending"
             PROVE  Useful(d)' # {}
  BY DEF PendingHasUseful
<1>1. /\ job' = job /\ worker[w] \in Worker /\ worker[w].delivery \in DeliveryIds
      /\ \A v \in Workers \ {w} : worker'[v] = worker[v]
      /\ worker'[w].job = worker[w].job
  BY Fields DEF Basic, Shape, Held, At, ReadDelivery, ReadEndpoint, Send,
     FinishDelivered, RecordSuccess, CountFailure, Warn, Disable, FinishFailed,
     Advance, Worker
<1>2. d \in DeliveryIds /\ d \in Logged /\ delivery'[d] = delivery[d]
      /\ ~(worker[w].delivery = d /\ (FinishDelivered(w) \/ FinishFailed(w)))
  <2>1. CASE FinishDelivered(w) \/ FinishFailed(w)
    <3>1. PICK s \in {"delivered", "failed"} : Finish(w, s)
      BY <2>1 DEF FinishDelivered, FinishFailed
    <3> QED BY <3>1 DEF Basic, Shape, Finish, Logged, Exists, NoRow
  <2>2. CASE ~(FinishDelivered(w) \/ FinishFailed(w))
    BY <2>2 DEF Logged, ReadDelivery, ReadEndpoint, Send, RecordSuccess,
       CountFailure, Warn, Disable
  <2> QED BY <2>1, <2>2
<1>3. ASSUME worker[w].delivery = d, ~Astray(w, d)
      PROVE  ~Astray(w, d)'
  <2>1. CASE ReadDelivery(w)
    <3> DEFINE row == delivery[d]
    <3>1. row # NoRow /\ row.state # "delivered" /\ At(w, "claimed")
      BY <1>2, <1>3, <2>1 DEF ReadDelivery, Logged, Exists
    <3>2. worker' = [worker EXCEPT ![w].stage = "pending",
                         ![w].attempt = row.attempt, ![w].to = row.to]
      BY <1>3, <2>1, <3>1 DEF ReadDelivery
    <3>3. worker'[w] = [worker[w] EXCEPT !.stage = "pending",
                            !.attempt = row.attempt, !.to = row.to]
      BY <3>2 DEF Basic, Shape
    <3>4. worker'[w].stage = "pending" /\ worker'[w].to = row.to
      BY <1>1, <3>3 DEF Worker
    <3> QED BY <1>2, <3>4 DEF At, Astray
  <2>2. CASE ReadEndpoint(w)
    <3>1. Exists(endpoint[worker[w].to])
      BY <1>2, <1>3, <2>2 DEF ReadEndpoint, Astray, At, Basic, HasEndpoint
    <3> DEFINE row == endpoint[worker[w].to]
               next == IF row.state = "enabled" THEN "ready" ELSE "off"
    <3>2. worker' = [worker EXCEPT ![w].failures = row.failures, ![w].stage = next]
      BY <2>2, <3>1 DEF ReadEndpoint, Exists
    <3>3. worker'[w] = [worker[w] EXCEPT !.failures = row.failures, !.stage = next]
      BY <3>2 DEF Basic, Shape
    <3>4. worker'[w].stage = next
      BY <1>1, <3>3 DEF Worker
    <3> QED BY <3>4 DEF At, Astray
  <2>3. CASE Send(w) \/ CountFailure(w) \/ Warn(w) \/ Disable(w)
    <3>1. \E s \in {"accepted", "refused", "warning", "disabling", "again"} : Advance(w, s)
      BY <2>3 DEF Send, CountFailure, Warn, Disable, NextStage, Upset, Counts,
         Without, Kinds
    <3> QED BY <3>1 DEF Basic, Shape, Advance, At, Astray
  <2>4. CASE RecordSuccess(w)
    BY <1>3, <2>4 DEF RecordSuccess, Astray
  <2> QED BY <1>2, <1>3, <2>1, <2>2, <2>3, <2>4
<1>4. Useful(d) \subseteq Useful(d)'
  BY <1>1, <1>2, <1>3, UsefulStays
<1>5. Useful(d) # {}
  BY <1>2 DEF PendingHasUseful
<1> QED BY <1>4, <1>5

LEMMA PendingEnqueue ==
    ASSUME Basic, PendingHasUseful, NEW e \in Endpoints, NEW x \in DeliveryIds,
           Enqueue(e, x)
    PROVE  PendingHasUseful'
<1> SUFFICES ASSUME NEW d \in Logged', delivery'[d].state = "pending"
             PROVE  Useful(d)' # {}
  BY DEF PendingHasUseful
<1>1. PICK k \in JobIds : FreeJob(k) /\ job' = [job EXCEPT ![k] = NewJob(x, TRUE)]
  BY DEF Enqueue
<1>2. worker' = worker
  BY DEF Enqueue
<1>3. CASE d = x
  BY <1>1, <1>2, <1>3, UsefulNew
<1>4. CASE d # x
  <2>1. d \in Logged /\ delivery'[d] = delivery[d]
    BY <1>4 DEF Logged, Enqueue, Basic, Shape
  <2>2. \A j \in JobIds : Exists(job[j]) => job'[j] = job[j]
    BY <1>1 DEF Basic, Shape, FreeJob
  <2>3. Useful(d) \subseteq Useful(d)'
    BY <1>2, <2>1, <2>2 DEF Useful, Astray, At
  <2> QED BY <2>1, <2>3 DEF PendingHasUseful
<1> QED BY <1>3, <1>4

LEMMA PendingReschedule ==
    ASSUME Basic, PendingHasUseful, NEW w \in Workers, Reschedule(w)
    PROVE  PendingHasUseful'
<1> SUFFICES ASSUME NEW d \in Logged', delivery'[d].state = "pending"
             PROVE  Useful(d)' # {}
  BY DEF PendingHasUseful
<1> DEFINE own == worker[w].delivery
<1>1. own \in DeliveryIds /\ worker[w] \in Worker
  BY Fields DEF Basic, Held, At, Reschedule
<1>2. PICK k \in JobIds : FreeJob(k) /\ job' = [job EXCEPT ![k] = NewJob(own, FALSE)]
  BY DEF Reschedule, QueueNext
<1>3. /\ worker'[w].job = worker[w].job
      /\ \A v \in Workers \ {w} : worker'[v] = worker[v]
  BY <1>1 DEF Reschedule, Advance, Basic, Shape, Worker
<1>4. CASE d = own
  BY <1>1, <1>2, <1>3, <1>4, UsefulNew
<1>5. CASE d # own
  <2>1. d \in Logged /\ delivery'[d] = delivery[d] /\ d \in DeliveryIds
    BY <1>5 DEF Logged, Reschedule, Basic, Shape
  <2>2. \A j \in JobIds : Exists(job[j]) => job'[j] = job[j]
    BY <1>2 DEF Basic, Shape, FreeJob
  <2>3. Useful(d) \subseteq Useful(d)'
    BY <1>3, <1>5, <2>1, <2>2, UsefulStays
  <2> QED BY <2>1, <2>3 DEF PendingHasUseful
<1> QED BY <1>4, <1>5

LEMMA PendingDelete ==
    ASSUME Basic, PendingHasUseful, NEW e \in Endpoints, Delete(e)
    PROVE  PendingHasUseful'
<1>1. \A d \in Logged' : d \in Logged /\ delivery'[d] = delivery[d]
  BY DEF Basic, Shape, Delete, Logged, Exists
<1>2. UNCHANGED <<job, worker>>
  BY DEF Delete
<1>3. \A d \in Logged' : Useful(d)' = Useful(d)
  BY <1>1, <1>2 DEF Useful, Astray, At
<1> QED BY <1>1, <1>3 DEF PendingHasUseful

LEMMA PendingClaim ==
    ASSUME Basic, PendingHasUseful, NEW w \in Workers, NEW k \in JobIds, Claim(w, k)
    PROVE  PendingHasUseful'
<1>1. job[k] \in Job /\ k # 0
  BY Fields DEF Basic, Claim, JobIds
<1>2. /\ \A v \in Workers \ {w} : worker'[v] = worker[v]
      /\ worker'[w].stage = "claimed" /\ worker'[w].job = k
  BY DEF Claim, Basic, Shape
<1>3. /\ \A x \in JobIds \ {k} : job'[x] = job[x]
      /\ job'[k].delivery = job[k].delivery /\ Exists(job'[k])
  BY <1>1, RowTypes DEF Basic, Shape, Claim, Job
<1>4. delivery' = delivery
  BY DEF Claim
<1>5. \A d \in DeliveryIds : Useful(d) \subseteq Useful(d)'
  BY <1>1, <1>2, <1>3, <1>4 DEF Useful, Astray, At
<1> QED BY <1>4, <1>5 DEF PendingHasUseful, Logged

LEMMA PendingCompleteJob ==
    ASSUME Basic, PendingHasUseful, NEW w \in Workers, CompleteJob(w)
    PROVE  PendingHasUseful'
<1>1. /\ worker'[w] = Idle
      /\ \A v \in Workers \ {w} : worker'[v] = worker[v]
      /\ \A x \in JobIds : x # worker[w].job => job'[x] = job[x]
      /\ delivery' = delivery
  BY DEF CompleteJob, Completed, Basic, Shape
<1>2. \A d \in DeliveryIds : worker[w].job \notin Useful(d)
  BY DEF Useful, Astray, CompleteJob
<1>3. \A d \in DeliveryIds : Useful(d) \subseteq Useful(d)'
  BY <1>1, <1>2 DEF Useful, Astray, At, Idle, JobIds
<1> QED BY <1>1, <1>3 DEF PendingHasUseful, Logged

LEMMA PendingCrash ==
    ASSUME Basic, PendingHasUseful, NEW w \in Workers, Crash(w)
    PROVE  PendingHasUseful'
<1>1. /\ worker'[w] = Idle
      /\ \A v \in Workers \ {w} : worker'[v] = worker[v]
      /\ job' = job /\ delivery' = delivery
  BY DEF Crash, Basic, Shape
<1>2. \A d \in DeliveryIds : Useful(d) \subseteq Useful(d)'
  BY <1>1 DEF Useful, Astray, At, Idle, JobIds
<1> QED BY <1>1, <1>2 DEF PendingHasUseful, Logged

LEMMA PendingTime ==
    ASSUME Basic, PendingHasUseful, NEW k \in JobIds,
           BackoffElapses(k) \/ ReleaseStale(k)
    PROVE  PendingHasUseful'
<1>1. job[k] \in Job
  BY Fields DEF Basic, BackoffElapses, ReleaseStale
<1>2. /\ \A x \in JobIds \ {k} : job'[x] = job[x]
      /\ job'[k] \in Job /\ job'[k].delivery = job[k].delivery
  <2>1. CASE BackoffElapses(k)
    BY <1>1, <2>1 DEF Basic, Shape, BackoffElapses, Job
  <2>2. CASE ReleaseStale(k)
    BY <1>1, <2>2 DEF Basic, Shape, ReleaseStale, Job
  <2> QED BY <2>1, <2>2
<1>3. UNCHANGED <<delivery, worker>>
  BY DEF BackoffElapses, ReleaseStale
<1>4. \A d \in DeliveryIds : Useful(d) \subseteq Useful(d)'
  BY <1>2, <1>3, RowTypes DEF Useful, Astray, At
<1> QED BY <1>3, <1>4 DEF PendingHasUseful, Logged

LEMMA PendingNext ==
    ASSUME Basic, PendingHasUseful, Counts, [Next]_vars, Without({"fault"})'
    PROVE  PendingHasUseful'
<1>1. CASE UNCHANGED <<delivery, job, worker>>
  BY <1>1 DEF PendingHasUseful, Useful, Astray, At, Logged
<1>2. CASE Next
  <2>1. ASSUME NEW w \in Workers PROVE ~StatementFails(w)
    BY DEF StatementFails, Upset, Counts, Without, Kinds
  <2>2. ASSUME NEW e \in Endpoints, UpdateReads(e) \/ UpdateWrites(e)
        PROVE  PendingHasUseful'
    BY <1>1, <2>2 DEF UpdateReads, UpdateWrites
  <2> QED BY <1>2, <2>1, <2>2, PendingEnqueue, PendingDelete, PendingClaim,
            PendingTime, PendingAttempt, PendingReschedule, PendingCompleteJob,
            PendingCrash DEF Next, Attempt, Publish, Redeliver
<1> QED BY <1>1, <1>2 DEF vars

\* "A delivery row with no job is a payload nobody will ever send" (Publish): as
\* long as no statement of an attempt fails, every pending delivery has a job
\* that will attempt it, whatever processes die, whatever the customer edits or
\* deletes, and whatever ids the database assigns again.
THEOREM PendingIsScheduled == Spec => []PendingHasJob
<1> DEFINE Inv == Basic /\ Counts /\ (Without({"fault"}) => PendingHasUseful)
<1>1. Init => Inv
  BY BasicInit DEF Init, PendingHasUseful, Logged, Exists, Counts
<1>2. Inv /\ [Next]_vars => Inv'
  BY BasicNext, PendingNext, CountsGrow DEF Kinds
<1>3. Inv => PendingHasJob
  <2>1. \A d \in DeliveryIds : Useful(d) \subseteq Scheduled(d)
    BY DEF Useful, Scheduled, Astray
  <2> QED BY <2>1 DEF PendingHasUseful, PendingHasJob, Logged
<1> QED BY <1>1, <1>2, <1>3, PTL DEF Spec

-----------------------------------------------------------------------------
(***************************************************************************)
(* One schedule per delivery.  What makes it inductive: an executing job   *)
(* has its worker, so that ReleaseStale finds none, and the delivery of a  *)
(* job is in the log, so that a new delivery is nobody's yet.              *)
(***************************************************************************)
JobsLogged == \A k \in JobIds : Exists(job[k]) => job[k].delivery \in Logged
Worked ==
    \A k \in JobIds : Exists(job[k]) /\ job[k].state = "executing" =>
        \E w \in Workers : worker[w].job = k
OnlyOne == \A d \in DeliveryIds : \A j, k \in Scheduled(d) : j = k
Single == OnlyOne /\ JobsLogged /\ Worked

\* A step that schedules nothing.
LEMMA SingleShrinks ==
    ASSUME Basic, Single, Logged \subseteq Logged',
           \A w \in Workers : \/ worker'[w].job = worker[w].job
                              \/ worker'[w].job \in JobIds /\ worker[w].job = 0,
           \A w \in Workers : worker[w].stage = "done" /\ worker'[w].job # 0 =>
                                 worker'[w].stage = "done",
           \A k \in JobIds : /\ Exists(job'[k]) <=> Exists(job[k])
                             /\ Exists(job[k]) =>
                                  /\ job'[k].delivery = job[k].delivery
                                  /\ job'[k].state = "executing" =>
                                       \/ job[k].state = "executing"
                                       \/ \E w \in Workers : worker'[w].job = k
    PROVE  Single'
<1>1. ASSUME NEW d \in DeliveryIds PROVE Scheduled(d)' \subseteq Scheduled(d)
  <2> SUFFICES ASSUME NEW k \in Scheduled(d)' PROVE k \in Scheduled(d)
    OBVIOUS
  <2>1. /\ k \in JobIds /\ Exists(job[k]) /\ job[k].delivery = d
        /\ \A w \in Workers : worker'[w].job = k => worker'[w].stage # "done"
    BY DEF Scheduled, At
  <2>2. ASSUME NEW w \in Workers, worker[w].job = k PROVE ~At(w, "done")
    BY <2>1, <2>2 DEF JobIds, At
  <2> QED BY <2>1, <2>2 DEF Scheduled
<1>2. OnlyOne'
  BY <1>1 DEF Single, OnlyOne
<1>3. JobsLogged'
  BY DEF Single, JobsLogged
<1>4. Worked'
  BY DEF Single, Worked, JobIds
<1> QED BY <1>2, <1>3, <1>4 DEF Single

LEMMA SingleAttempt ==
    ASSUME Basic, Single, NEW w \in Workers,
           \/ ReadDelivery(w) \/ ReadEndpoint(w) \/ Send(w) \/ FinishDelivered(w)
           \/ RecordSuccess(w) \/ CountFailure(w) \/ Warn(w) \/ Disable(w)
           \/ FinishFailed(w)
    PROVE  Single'
<1>1. worker[w] \in Worker /\ ~At(w, "done") /\ job' = job
  BY Fields DEF Basic, At, ReadDelivery, ReadEndpoint, Send, FinishDelivered,
     RecordSuccess, CountFailure, Warn, Disable, FinishFailed
<1>2. /\ \A v \in Workers \ {w} : worker'[v] = worker[v]
      /\ worker'[w].job = worker[w].job
  BY <1>1 DEF Basic, Shape, ReadDelivery, ReadEndpoint, Send, FinishDelivered,
     RecordSuccess, CountFailure, Warn, Disable, FinishFailed, Advance, Worker
<1>3. Logged' = Logged
  <2>1. CASE FinishDelivered(w) \/ FinishFailed(w)
    <3>1. PICK s \in {"delivered", "failed"} : Finish(w, s)
      BY <2>1 DEF FinishDelivered, FinishFailed
    <3> QED BY <3>1 DEF Basic, Shape, Finish, Logged, Exists, NoRow
  <2>2. CASE ~(FinishDelivered(w) \/ FinishFailed(w))
    BY <2>2 DEF Logged, ReadDelivery, ReadEndpoint, Send, RecordSuccess,
       CountFailure, Warn, Disable
  <2> QED BY <2>1, <2>2
<1>4. \A v \in Workers : /\ worker'[v].job = worker[v].job
                         /\ worker[v].stage = "done" => worker'[v].stage = "done"
  BY <1>1, <1>2 DEF At
<1> QED BY <1>1, <1>3, <1>4, SingleShrinks

LEMMA SingleClaim ==
    ASSUME Basic, Single, NEW w \in Workers, NEW k \in JobIds, Claim(w, k)
    PROVE  Single'
<1>1. job[k] \in Job /\ worker[w].job = 0
  BY Fields DEF Basic, Held, Claim
<1>2. /\ \A v \in Workers \ {w} : worker'[v] = worker[v]
      /\ worker'[w].job = k
  BY DEF Claim, Basic, Shape
<1>3. /\ \A x \in JobIds \ {k} : job'[x] = job[x]
      /\ job'[k].delivery = job[k].delivery /\ Exists(job'[k])
  BY <1>1, RowTypes DEF Basic, Shape, Claim, Job
<1>4. Logged' = Logged /\ Exists(job[k]) /\ ~At(w, "done")
  BY DEF Logged, Claim, At
<1>5. \A v \in Workers : /\ \/ worker'[v].job = worker[v].job
                            \/ worker'[v].job \in JobIds /\ worker[v].job = 0
                         /\ worker[v].stage = "done" => worker'[v].stage = "done"
  BY <1>1, <1>2, <1>4 DEF At
<1>6. \A x \in JobIds : /\ Exists(job'[x]) <=> Exists(job[x])
                        /\ job'[x].delivery = job[x].delivery
                        /\ job'[x].state = "executing" =>
                              \/ job[x].state = "executing"
                              \/ \E v \in Workers : worker'[v].job = x
  BY <1>2, <1>3, <1>4
<1> QED BY <1>4, <1>5, <1>6, SingleShrinks

LEMMA SingleTime ==
    ASSUME Basic, Single, NEW k \in JobIds, BackoffElapses(k) \/ ReleaseStale(k)
    PROVE  Single'
<1>1. BackoffElapses(k) /\ job[k] \in Job
  BY Fields DEF Basic, Single, Worked, BackoffElapses, ReleaseStale
<1>2. /\ \A x \in JobIds \ {k} : job'[x] = job[x]
      /\ job'[k].delivery = job[k].delivery /\ Exists(job'[k]) /\ Exists(job[k])
      /\ job'[k].state = job[k].state
  BY <1>1, RowTypes DEF Basic, Shape, BackoffElapses, Job
<1>3. worker' = worker /\ Logged' = Logged
  BY <1>1 DEF Logged, BackoffElapses
<1>4. \A x \in JobIds : /\ Exists(job'[x]) <=> Exists(job[x])
                        /\ job'[x].delivery = job[x].delivery
                        /\ job'[x].state = job[x].state
  BY <1>2
<1> QED BY <1>3, <1>4, SingleShrinks

LEMMA SingleEnqueue ==
    ASSUME Basic, Single, NEW e \in Endpoints, NEW x \in DeliveryIds, Enqueue(e, x)
    PROVE  Single'
<1>1. PICK k \in JobIds : FreeJob(k) /\ job' = [job EXCEPT ![k] = NewJob(x, TRUE)]
  BY DEF Enqueue
<1>2. /\ job'[k] = NewJob(x, TRUE) /\ \A j \in JobIds \ {k} : job'[j] = job[j]
      /\ worker' = worker
  BY <1>1 DEF Enqueue, Basic, Shape
<1>3. x \notin Logged
  BY DEF Enqueue, NextDelivery, Logged, DeliveryIds
<1>4. Logged \cup {x} \subseteq Logged'
  BY RowTypes DEF Enqueue, Basic, Shape, Logged
<1>5. \A j \in JobIds : Exists(job[j]) => job[j].delivery # x
  BY <1>3 DEF Single, JobsLogged
<1>6. \A d \in DeliveryIds \ {x} : Scheduled(d)' \subseteq Scheduled(d)
  BY <1>2 DEF Scheduled, At, NewJob
<1>7. Scheduled(x)' \subseteq {k}
  BY <1>2, <1>5 DEF Scheduled
<1>8. OnlyOne'
  BY <1>6, <1>7 DEF OnlyOne, Single
<1>9. JobsLogged' /\ Worked'
  BY <1>2, <1>4 DEF Single, JobsLogged, Worked, NewJob
<1> QED BY <1>8, <1>9 DEF Single

LEMMA SingleReschedule ==
    ASSUME Basic, Single, NEW w \in Workers, Reschedule(w)
    PROVE  Single'
<1> DEFINE own == worker[w].delivery
           mine == worker[w].job
<1>1. /\ own \in DeliveryIds /\ worker[w] \in Worker /\ mine \in JobIds /\ mine # 0
      /\ Exists(job[mine]) /\ job[mine].delivery = own
  BY Fields DEF Basic, Held, At, Reschedule, JobIds
<1>2. PICK k \in JobIds : FreeJob(k) /\ job' = [job EXCEPT ![k] = NewJob(own, FALSE)]
  BY DEF Reschedule, QueueNext
<1>3. /\ job'[k] = NewJob(own, FALSE) /\ \A j \in JobIds \ {k} : job'[j] = job[j]
      /\ k # mine
  BY <1>1, <1>2 DEF Basic, Shape, FreeJob
<1>4. /\ worker'[w].job = mine /\ worker'[w].stage = "done"
      /\ \A v \in Workers \ {w} : worker'[v] = worker[v]
  BY <1>1 DEF Reschedule, Advance, Basic, Shape, Worker
<1>5. mine \in Scheduled(own)
  BY <1>1 DEF Basic, HeldOnce, Scheduled, At, Reschedule
<1>6. \A d \in DeliveryIds \ {own} : Scheduled(d)' \subseteq Scheduled(d)
  BY <1>1, <1>3, <1>4 DEF Scheduled, At, NewJob
<1>7. \A d \in DeliveryIds : d = own => Scheduled(d)' \subseteq {k}
  <2> SUFFICES ASSUME NEW d \in DeliveryIds, d = own, NEW j \in Scheduled(d)', j # k
               PROVE  FALSE
    OBVIOUS
  <2>1. j \in JobIds /\ Exists(job[j]) /\ job[j].delivery = d /\ j # mine
    BY <1>3, <1>4 DEF Scheduled, At
  <2>2. j \in Scheduled(d)
    BY <1>4, <2>1 DEF Scheduled, At
  <2> QED BY <1>5, <2>1, <2>2 DEF Single, OnlyOne
<1>8. OnlyOne'
  BY <1>6, <1>7 DEF OnlyOne, Single
<1>9. Logged' = Logged /\ own \in Logged
  <2>1. own \in Logged
    BY <1>1 DEF Single, JobsLogged
  <2>2. \A x \in DeliveryIds : Exists(delivery'[x]) <=> Exists(delivery[x])
    BY <1>1 DEF Reschedule, Basic, Shape, Delivery, Exists, NoRow, Worker
  <2> QED BY <2>1, <2>2 DEF Logged
<1>10. JobsLogged' /\ Worked'
  BY <1>1, <1>3, <1>4, <1>9 DEF Single, JobsLogged, Worked, NewJob
<1> QED BY <1>8, <1>10 DEF Single

LEMMA SingleCompleteJob ==
    ASSUME Basic, Single, NEW w \in Workers, CompleteJob(w)
    PROVE  Single'
<1>1. /\ worker'[w] = Idle
      /\ \A v \in Workers \ {w} : worker'[v] = worker[v]
      /\ \A x \in JobIds : x # worker[w].job => job'[x] = job[x]
      /\ worker[w].job \in JobIds => job'[worker[w].job] = NoRow
      /\ Logged' = Logged
  BY DEF CompleteJob, Completed, Basic, Shape, Logged
<1>2. \A d \in DeliveryIds : Scheduled(d)' \subseteq Scheduled(d)
  BY <1>1, RowTypes DEF Scheduled, At
<1>3. OnlyOne'
  BY <1>2 DEF OnlyOne, Single
<1>4. JobsLogged' /\ Worked'
  BY <1>1, RowTypes DEF Single, JobsLogged, Worked
<1> QED BY <1>3, <1>4 DEF Single

LEMMA SingleNext ==
    ASSUME Basic, Single, Counts, [Next]_vars,
           Without({"crash", "fault", "delete"})'
    PROVE  Single'
<1>1. CASE UNCHANGED <<delivery, job, worker>>
  BY <1>1 DEF Single, OnlyOne, JobsLogged, Worked, Scheduled, At, Logged
<1>2. CASE Next
  <2>1. ASSUME NEW w \in Workers PROVE ~StatementFails(w) /\ ~Crash(w)
    BY DEF StatementFails, Crash, Upset, Counts, Without, Kinds
  <2>2. ASSUME NEW e \in Endpoints PROVE ~Delete(e)
    BY DEF Delete, Upset, Counts, Without, Kinds
  <2>3. ASSUME NEW e \in Endpoints, UpdateReads(e) \/ UpdateWrites(e)
        PROVE  Single'
    BY <1>1, <2>3 DEF UpdateReads, UpdateWrites
  <2> QED BY <1>2, <2>1, <2>2, <2>3, SingleEnqueue, SingleClaim, SingleTime,
            SingleAttempt, SingleReschedule, SingleCompleteJob
            DEF Next, Attempt, Publish, Redeliver
<1> QED BY <1>1, <1>2 DEF vars

\* "Two schedules for the same delivery" (RunOnce) need a crash, a failing
\* statement or a deleted endpoint: without them no two jobs attempt one delivery.
THEOREM OneScheduleHolds == Spec => []OneSchedule
<1> DEFINE Inv == Basic /\ Counts /\ (Without({"crash", "fault", "delete"}) => Single)
<1>1. Init => Inv
  <2>1. Init => Single
    BY DEF Init, Single, OnlyOne, Scheduled, JobsLogged, Worked, Exists
  <2> QED BY <2>1, BasicInit DEF Init, Counts
<1>2. Inv /\ [Next]_vars => Inv'
  BY BasicNext, SingleNext, CountsGrow DEF Kinds
<1>3. Inv => OneSchedule
  BY DEF Single, OneSchedule, OnlyOne
<1> QED BY <1>1, <1>2, <1>3, PTL DEF Spec

-----------------------------------------------------------------------------
(***************************************************************************)
(* Offers are counted by the attempts, up to MaxAttempts.  The count a     *)
(* worker carries is the delivery's because no other job attempts the      *)
(* delivery meanwhile: the invariant rests on Single.                      *)
(***************************************************************************)
\* n attempts are over, and another may be made.
Within(d, n) == offers[d] <= n /\ n < MaxAttempts
Offering ==
    /\ offers \in [DeliveryIds -> Nat] /\ \A d \in DeliveryIds : offers[d] <= MaxAttempts
    /\ \A k \in JobIds : Exists(job[k]) /\ job[k].state = "available" =>
          Within(job[k].delivery, delivery[job[k].delivery].attempt)
    /\ \A w \in Workers :
          /\ worker[w].stage = "claimed" =>
                Within(worker[w].delivery, delivery[worker[w].delivery].attempt)
          /\ worker[w].stage \in {"pending", "ready"} =>
                Within(worker[w].delivery, worker[w].attempt)
          /\ worker[w].stage \in {"refused", "warning", "disabling", "again"} =>
                offers[worker[w].delivery] <= worker[w].attempt + 1

\* While a worker attempts a delivery, nobody else does.
LEMMA OnlyMine ==
    ASSUME Basic, Single, NEW w \in Workers, worker[w].stage \notin {"idle", "done"}
    PROVE  /\ worker[w] \in Worker /\ worker[w].delivery \in Logged
           /\ \A v \in Workers \ {w} : worker[v].stage \notin {"idle", "done"} =>
                 worker[v].delivery # worker[w].delivery
           /\ \A k \in JobIds : Exists(job[k]) /\ job[k].state = "available" =>
                 job[k].delivery # worker[w].delivery
<1>1. ASSUME NEW v \in Workers, worker[v].stage \notin {"idle", "done"}
      PROVE  /\ worker[v].job \in JobIds /\ worker[v].delivery \in DeliveryIds
             /\ worker[v].job \in Scheduled(worker[v].delivery)
  BY <1>1 DEF Basic, Held, HeldOnce, Scheduled, At, JobIds
<1>2. ASSUME NEW v \in Workers \ {w}, worker[v].stage \notin {"idle", "done"},
             worker[v].delivery = worker[w].delivery
      PROVE  FALSE
  <2>1. worker[v].job = worker[w].job
    BY <1>1, <1>2 DEF Single, OnlyOne
  <2> QED BY <1>1, <1>2, <2>1 DEF Basic, HeldOnce, JobIds
<1>3. ASSUME NEW k \in JobIds, Exists(job[k]), job[k].state = "available",
             job[k].delivery = worker[w].delivery
      PROVE  FALSE
  <2>1. \A v \in Workers : worker[v].job # k
    BY <1>3 DEF Basic, Held, JobIds
  <2>2. k \in Scheduled(worker[w].delivery)
    BY <1>3, <2>1 DEF Scheduled
  <2>3. k = worker[w].job
    BY <1>1, <2>2 DEF Single, OnlyOne
  <2> QED BY <2>1, <2>3
<1>4. worker[w] \in Worker /\ worker[w].delivery \in Logged
  BY Fields, <1>1 DEF Basic, Held, At, Single, JobsLogged
<1> QED BY <1>2, <1>3, <1>4

\* A step in which one worker moves, no job comes or goes, and no row but that of
\* its delivery changes.
LEMMA OfferingMove ==
    ASSUME Basic, Single, Offering, NEW w \in Workers,
           worker[w].stage \notin {"idle", "done"}, job' = job,
           \A v \in Workers \ {w} : worker'[v] = worker[v],
           \A d \in DeliveryIds : d # worker[w].delivery =>
              offers'[d] = offers[d] /\ delivery'[d] = delivery[d],
           offers' \in [DeliveryIds -> Nat],
           offers'[worker[w].delivery] <= MaxAttempts,
           worker'[w].stage # "claimed",
           worker'[w].stage \in {"pending", "ready"} =>
              /\ offers'[worker[w].delivery] <= worker'[w].attempt
              /\ worker'[w].attempt < MaxAttempts,
           worker'[w].stage \in {"pending", "ready", "refused", "warning", "disabling", "again"}
              => worker'[w].delivery = worker[w].delivery,
           worker'[w].stage \in {"refused", "warning", "disabling", "again"} =>
              offers'[worker[w].delivery] <= worker'[w].attempt + 1
    PROVE  Offering'
<1>1. /\ worker[w].delivery \in Logged
      /\ \A v \in Workers \ {w} : worker[v].stage \notin {"idle", "done"} =>
            worker[v].delivery # worker[w].delivery
      /\ \A k \in JobIds : Exists(job[k]) /\ job[k].state = "available" =>
            job[k].delivery # worker[w].delivery
  BY OnlyMine
<1>2. /\ \A v \in Workers : worker[v].stage \notin {"idle", "done"} =>
            worker[v].delivery \in DeliveryIds
      /\ \A k \in JobIds : Exists(job[k]) => job[k].delivery \in DeliveryIds
  BY Fields DEF Basic, Held, At
<1>3. offers' \in [DeliveryIds -> Nat] /\ \A d \in DeliveryIds : offers'[d] <= MaxAttempts
  BY DEF Offering
<1>4. \A k \in JobIds : Exists(job'[k]) /\ job'[k].state = "available" =>
          Within(job[k].delivery, delivery[job[k].delivery].attempt)'
  BY <1>1, <1>2 DEF Offering, Within
<1>5. ASSUME NEW v \in Workers, v # w
      PROVE  /\ worker'[v].stage = "claimed" =>
                  Within(worker[v].delivery, delivery[worker[v].delivery].attempt)'
             /\ worker'[v].stage \in {"pending", "ready"} =>
                  Within(worker[v].delivery, worker[v].attempt)'
             /\ worker'[v].stage \in {"refused", "warning", "disabling", "again"} =>
                  offers'[worker'[v].delivery] <= worker'[v].attempt + 1
  BY <1>1, <1>2, <1>5 DEF Offering, Within
<1>6. /\ worker'[w].stage \in {"pending", "ready"} =>
            Within(worker[w].delivery, worker[w].attempt)'
      /\ worker'[w].stage \in {"refused", "warning", "disabling", "again"} =>
            offers'[worker'[w].delivery] <= worker'[w].attempt + 1
  BY DEF Within
<1> QED BY <1>3, <1>4, <1>5, <1>6 DEF Offering

LEMMA OfferingAttempt ==
    ASSUME Basic, Single, Offering, NEW w \in Workers,
           \/ ReadDelivery(w) \/ ReadEndpoint(w) \/ Send(w) \/ FinishDelivered(w)
           \/ RecordSuccess(w) \/ CountFailure(w) \/ Warn(w) \/ Disable(w)
           \/ FinishFailed(w)
    PROVE  Offering'
<1>1. worker[w].stage \notin {"idle", "done"} /\ job' = job
  BY DEF At, ReadDelivery, ReadEndpoint, Send, FinishDelivered,
     RecordSuccess, CountFailure, Warn, Disable, FinishFailed
<1>2. worker[w] \in Worker /\ worker[w].delivery \in Logged
      /\ worker[w].delivery \in DeliveryIds
  BY <1>1, OnlyMine DEF Logged
<1>3. /\ \A v \in Workers \ {w} : worker'[v] = worker[v]
      /\ worker'[w].delivery = worker[w].delivery
  BY <1>2 DEF Basic, Shape, ReadDelivery, ReadEndpoint, Send, FinishDelivered,
     RecordSuccess, CountFailure, Warn, Disable, FinishFailed, Advance, Worker
<1>4. offers \in [DeliveryIds -> Nat] /\ \A d \in DeliveryIds : offers[d] <= MaxAttempts
  BY DEF Offering
<1>5. CASE ReadDelivery(w)
  <2>1. /\ offers' = offers /\ delivery' = delivery /\ worker[w].stage = "claimed"
        /\ \/ worker'[w].stage = "done"
           \/ /\ worker'[w].stage = "pending"
              /\ worker'[w].attempt = delivery[worker[w].delivery].attempt
    BY <1>2, <1>5 DEF ReadDelivery, Advance, Basic, Shape, Worker, At
  <2>2. Within(worker[w].delivery, delivery[worker[w].delivery].attempt)
    BY <2>1 DEF Offering
  <2> QED BY <1>1, <1>2, <1>3, <1>4, <2>1, <2>2, OfferingMove DEF Within
<1>6. CASE ReadEndpoint(w)
  <2>1. /\ offers' = offers /\ delivery' = delivery /\ worker[w].stage = "pending"
        /\ worker'[w].stage \in {"done", "ready", "off"}
        /\ worker'[w].attempt = worker[w].attempt
    BY <1>2, <1>6 DEF ReadEndpoint, Advance, Basic, Shape, Worker, At
  <2>2. Within(worker[w].delivery, worker[w].attempt)
    BY <2>1 DEF Offering
  <2> QED BY <1>1, <1>2, <1>3, <1>4, <2>1, <2>2, OfferingMove DEF Within
<1>7. CASE Send(w)
  <2>1. /\ offers' = [offers EXCEPT ![worker[w].delivery] = offers[worker[w].delivery] + 1]
        /\ delivery' = delivery /\ worker[w].stage = "ready"
        /\ worker'[w].stage \in {"accepted", "refused"}
        /\ worker'[w].attempt = worker[w].attempt
    BY <1>2, <1>7 DEF Send, Advance, Basic, Shape, Worker, At
  <2>2. Within(worker[w].delivery, worker[w].attempt) /\ worker[w].attempt \in Nat
    BY <1>2, <2>1 DEF Offering, Worker
  <2>3. \A d \in DeliveryIds : d # worker[w].delivery => offers'[d] = offers[d]
    BY <2>1
  <2>4. /\ offers' \in [DeliveryIds -> Nat] /\ offers'[worker[w].delivery] <= MaxAttempts
        /\ offers'[worker[w].delivery] <= worker[w].attempt + 1
    BY <1>2, <1>4, <2>1, <2>2, WebhookAssumption DEF Within
  <2> QED BY <1>1, <1>2, <1>3, <2>1, <2>3, <2>4, OfferingMove
<1>8. CASE FinishDelivered(w) \/ FinishFailed(w)
  <2>1. PICK s \in {"delivered", "failed"} : Finish(w, s)
    BY <1>8 DEF FinishDelivered, FinishFailed
  <2>2. \A d \in DeliveryIds : d # worker[w].delivery => delivery'[d] = delivery[d]
    BY <2>1 DEF Finish
  <2>3. offers' = offers /\ worker'[w].stage \in {"done", "succeeded"}
    BY <1>2, <1>8 DEF FinishDelivered, FinishFailed, Advance, Basic, Shape, Worker
  <2> QED BY <1>1, <1>2, <1>3, <1>4, <2>2, <2>3, OfferingMove
<1>9. CASE RecordSuccess(w)
  <2>1. offers' = offers /\ delivery' = delivery /\ worker'[w].stage = "done"
    BY <1>2, <1>9 DEF RecordSuccess, Advance, Basic, Shape, Worker
  <2> QED BY <1>1, <1>2, <1>3, <1>4, <2>1, OfferingMove
<1>10. CASE CountFailure(w) \/ Warn(w) \/ Disable(w)
  <2>1. /\ offers' = offers /\ delivery' = delivery
        /\ worker[w].stage \in {"refused", "warning", "disabling"}
        /\ worker'[w].stage \in {"warning", "disabling", "again", "done"}
        /\ worker'[w].attempt = worker[w].attempt
    BY <1>2, <1>10 DEF CountFailure, Warn, Disable, NextStage, Advance, Basic, Shape, Worker, At
  <2>2. offers[worker[w].delivery] <= worker[w].attempt + 1
    BY <2>1 DEF Offering
  <2> QED BY <1>1, <1>2, <1>3, <1>4, <2>1, <2>2, OfferingMove
<1> QED BY <1>5, <1>6, <1>7, <1>8, <1>9, <1>10

LEMMA OfferingEnqueue ==
    ASSUME Basic, Single, Offering, NEW e \in Endpoints, NEW x \in DeliveryIds, Enqueue(e, x)
    PROVE  Offering'
<1>1. PICK k \in JobIds : FreeJob(k) /\ job' = [job EXCEPT ![k] = NewJob(x, TRUE)]
  BY DEF Enqueue
<1>2. /\ job'[k] = NewJob(x, TRUE) /\ \A j \in JobIds \ {k} : job'[j] = job[j]
      /\ worker' = worker
  BY <1>1 DEF Enqueue, Basic, Shape
<1>3. x \notin Logged
  BY DEF Enqueue, NextDelivery, Logged, DeliveryIds
<1>4. /\ \A d \in DeliveryIds \ {x} : delivery'[d] = delivery[d] /\ offers'[d] = offers[d]
      /\ delivery'[x].attempt = 0
  BY DEF Enqueue, Basic, Shape
<1>5. offers' = [offers EXCEPT ![x] = 0]
  BY DEF Enqueue
<1>6. /\ \A j \in JobIds : Exists(job[j]) =>
            job[j].delivery # x /\ job[j].delivery \in DeliveryIds
      /\ \A w \in Workers : worker[w].stage \notin {"idle", "done"} =>
            worker[w].delivery # x /\ worker[w].delivery \in DeliveryIds
  <2>1. \A j \in JobIds : Exists(job[j]) =>
            job[j].delivery # x /\ job[j].delivery \in DeliveryIds
    BY <1>3, Fields DEF Single, JobsLogged, Basic
  <2>2. ASSUME NEW w \in Workers, worker[w].stage \notin {"idle", "done"}
        PROVE  worker[w].delivery # x /\ worker[w].delivery \in DeliveryIds
    BY <2>2, <1>3, OnlyMine DEF Logged
  <2> QED BY <2>1, <2>2
<1>7. /\ offers' \in [DeliveryIds -> Nat] /\ offers'[x] = 0
      /\ \A d \in DeliveryIds : offers'[d] <= MaxAttempts
  BY <1>5, WebhookAssumption DEF Offering
<1>9. ASSUME NEW j \in JobIds, Exists(job'[j]), job'[j].state = "available"
      PROVE  Within(job[j].delivery, delivery[job[j].delivery].attempt)'
  <2>1. CASE j = k
    <3>1. job'[j].delivery = x
      BY <1>2, <2>1 DEF NewJob
    <3> QED BY <1>4, <1>7, <3>1, WebhookAssumption DEF Within
  <2>2. CASE j # k
    BY <1>2, <1>4, <1>6, <1>9, <2>2 DEF Offering, Within
  <2> QED BY <2>1, <2>2
<1>10. ASSUME NEW w \in Workers
       PROVE  /\ worker'[w].stage = "claimed" =>
                   Within(worker[w].delivery, delivery[worker[w].delivery].attempt)'
              /\ worker'[w].stage \in {"pending", "ready"} =>
                   Within(worker[w].delivery, worker[w].attempt)'
              /\ worker'[w].stage \in {"refused", "warning", "disabling", "again"} =>
                   offers'[worker'[w].delivery] <= worker'[w].attempt + 1
  BY <1>2, <1>4, <1>6 DEF Offering, Within
<1> QED BY <1>7, <1>9, <1>10 DEF Offering

LEMMA OfferingClaim ==
    ASSUME Basic, Offering, NEW w \in Workers, NEW k \in JobIds, Claim(w, k)
    PROVE  Offering'
<1>1. /\ job[k] \in Job /\ Exists(job[k]) /\ job[k].state = "available"
      /\ UNCHANGED <<delivery, offers>>
  BY Fields DEF Basic, Claim
<1>2. /\ \A v \in Workers \ {w} : worker'[v] = worker[v]
      /\ worker'[w].stage = "claimed" /\ worker'[w].delivery = job[k].delivery
  BY DEF Claim, Basic, Shape
<1>3. /\ \A x \in JobIds \ {k} : job'[x] = job[x]
      /\ job'[k].state = "executing"
  BY <1>1 DEF Basic, Shape, Claim, Job
<1> QED BY <1>1, <1>2, <1>3 DEF Offering, Within

LEMMA OfferingReschedule ==
    ASSUME Basic, Single, Offering, NEW w \in Workers, Reschedule(w)
    PROVE  Offering'
<1> DEFINE own == worker[w].delivery
           n == worker[w].attempt + 1
<1>1. /\ worker[w] \in Worker /\ own \in Logged /\ own \in DeliveryIds
      /\ \A v \in Workers \ {w} : worker[v].stage \notin {"idle", "done"} =>
            worker[v].delivery # own
      /\ \A k \in JobIds : Exists(job[k]) /\ job[k].state = "available" =>
            job[k].delivery # own
  BY OnlyMine DEF Reschedule, At, Logged
<1>2. PICK k \in JobIds : FreeJob(k) /\ job' = [job EXCEPT ![k] = NewJob(own, FALSE)]
  BY DEF Reschedule, QueueNext
<1>3. /\ job'[k] = NewJob(own, FALSE) /\ \A j \in JobIds \ {k} : job'[j] = job[j]
      /\ offers' = offers
  BY <1>1, <1>2 DEF Basic, Shape, Reschedule
<1>4. worker'[w].stage = "done" /\ \A v \in Workers \ {w} : worker'[v] = worker[v]
  BY <1>1 DEF Reschedule, Advance, Basic, Shape, Worker
<1>5. /\ n < MaxAttempts /\ offers[own] <= n
  BY <1>1, WebhookAssumption DEF Reschedule, Exhausted, Offering, At, Worker
<1>6. /\ \A d \in DeliveryIds \ {own} : delivery'[d] = delivery[d]
      /\ delivery'[own].attempt = n
  <2>1. delivery' = [delivery EXCEPT ![own] =
            IF Exists(delivery[own]) THEN [delivery[own] EXCEPT !.attempt = n] ELSE delivery[own]]
    BY DEF Reschedule
  <2>2. Exists(delivery[own]) /\ delivery[own] \in Delivery
    BY <1>1, Fields DEF Logged, Basic
  <2>3. delivery'[own] = [delivery[own] EXCEPT !.attempt = n]
    BY <1>1, <2>1, <2>2 DEF Basic, Shape
  <2>4. delivery'[own].attempt = n
    BY <2>2, <2>3 DEF Delivery
  <2> QED BY <2>1, <2>4 DEF Basic, Shape
<1> HIDE DEF own, n
<1>7. /\ \A v \in Workers : worker[v].stage \notin {"idle", "done"} =>
            worker[v].delivery \in DeliveryIds
      /\ \A j \in JobIds : Exists(job[j]) => job[j].delivery \in DeliveryIds
  BY Fields DEF Basic, Held, At
<1>8. ASSUME NEW j \in JobIds, Exists(job'[j]), job'[j].state = "available"
      PROVE  Within(job[j].delivery, delivery[job[j].delivery].attempt)'
  <2>1. CASE j = k
    <3>1. job'[j].delivery = own
      BY <1>3, <2>1 DEF NewJob
    <3> QED BY <1>3, <1>5, <1>6, <3>1 DEF Within
  <2>2. CASE j # k
    BY <1>1, <1>3, <1>6, <1>7, <1>8, <2>2 DEF Offering, Within
  <2> QED BY <2>1, <2>2
<1>9. ASSUME NEW v \in Workers
      PROVE  /\ worker'[v].stage = "claimed" =>
                  Within(worker[v].delivery, delivery[worker[v].delivery].attempt)'
             /\ worker'[v].stage \in {"pending", "ready"} =>
                  Within(worker[v].delivery, worker[v].attempt)'
             /\ worker'[v].stage \in {"refused", "warning", "disabling", "again"} =>
                  offers'[worker'[v].delivery] <= worker'[v].attempt + 1
  <2>1. CASE v = w
    BY <1>4, <2>1
  <2>2. CASE v # w
    BY <1>1, <1>3, <1>4, <1>6, <1>7, <2>2 DEF Offering, Within
  <2> QED BY <2>1, <2>2
<1> QED BY <1>3, <1>8, <1>9 DEF Offering

LEMMA OfferingNext ==
    ASSUME Basic, Single, Offering, Counts, [Next]_vars,
           Without({"crash", "fault", "delete"})'
    PROVE  Offering'
<1>1. CASE UNCHANGED <<delivery, job, worker, offers>>
  BY <1>1 DEF Offering, Within
<1>2. CASE Next
  <2>1. ASSUME NEW w \in Workers PROVE ~StatementFails(w) /\ ~Crash(w)
    BY DEF StatementFails, Crash, Upset, Counts, Without, Kinds
  <2>2. ASSUME NEW e \in Endpoints PROVE ~Delete(e)
    BY DEF Delete, Upset, Counts, Without, Kinds
  <2>3. ASSUME NEW e \in Endpoints, UpdateReads(e) \/ UpdateWrites(e)
        PROVE  Offering'
    BY <1>1, <2>3 DEF UpdateReads, UpdateWrites
  <2>4. ASSUME NEW w \in Workers, CompleteJob(w) PROVE Offering'
    <3>1. /\ worker'[w].stage = "idle" /\ \A v \in Workers \ {w} : worker'[v] = worker[v]
          /\ UNCHANGED <<delivery, offers>>
      BY <2>4 DEF CompleteJob, Basic, Shape, Idle
    <3>2. \A k \in JobIds : job'[k] = job[k] \/ ~Exists(job'[k])
      BY <2>4, RowTypes DEF CompleteJob, Completed, Basic, Shape
    <3> QED BY <3>1, <3>2 DEF Offering, Within
  <2>5. ASSUME NEW k \in JobIds, BackoffElapses(k) PROVE Offering'
    <3>1. Exists(job[k]) /\ job[k] \in Job /\ UNCHANGED <<delivery, offers, worker>>
      BY <2>5, Fields DEF BackoffElapses, Basic
    <3>2. /\ \A x \in JobIds \ {k} : job'[x] = job[x]
          /\ job'[k].delivery = job[k].delivery /\ job'[k].state = job[k].state
      BY <2>5, <3>1 DEF Basic, Shape, BackoffElapses, Job
    <3> QED BY <3>1, <3>2 DEF Offering, Within
  <2>6. ASSUME NEW k \in JobIds PROVE ~ReleaseStale(k)
    BY DEF Single, Worked, ReleaseStale
  <2> QED BY <1>2, <2>1, <2>2, <2>3, <2>4, <2>5, <2>6, OfferingEnqueue, OfferingClaim,
            OfferingAttempt, OfferingReschedule DEF Next, Attempt, Publish, Redeliver
<1> QED BY <1>1, <1>2 DEF vars

\* MaxAttempts "is how many times one event is offered to one endpoint before the
\* delivery is marked failed": no delivery is offered more often, by any number of
\* processes, without a crash, a failing statement or a deleted endpoint.
THEOREM OffersAreBounded == Spec => []OffersBounded
<1> DEFINE Inv == /\ Basic /\ Counts
                  /\ Without({"crash", "fault", "delete"}) => Single /\ Offering
<1>1. Init => Inv
  <2>1. Init => Single
    BY DEF Init, Single, OnlyOne, Scheduled, JobsLogged, Worked, Exists
  <2>2. Init => Offering
    BY WebhookAssumption DEF Init, Offering, Exists, Idle
  <2> QED BY <2>1, <2>2, BasicInit DEF Init, Counts
<1>2. Inv /\ [Next]_vars => Inv'
  BY BasicNext, SingleNext, OfferingNext, CountsGrow DEF Kinds
<1>3. Inv => OffersBounded
  BY DEF Offering, OffersBounded
<1> QED BY <1>1, <1>2, <1>3, PTL DEF Spec

-----------------------------------------------------------------------------
(***************************************************************************)
(* The warning comes before the disabling.  A counter that shows WarnAfter *)
(* failures was written by a worker that warns or warned, or by an attempt *)
(* that began before the counter was cleared; so was every such value that *)
(* an attempt has read and may act on.                                     *)
(***************************************************************************)
Reached(e) == Exists(endpoint[e]) /\ endpoint[e].failures >= WarnAfter
Heard(e) == warning[e] # "none" \/ BeingWarned(e)
Informed(w) ==
    \/ worker[w].stage \in {"ready", "refused"} /\ worker[w].failures >= WarnAfter
    \/ worker[w].stage = "disabling"
    => Heard(worker[w].to)
WarnInv ==
    /\ Histories
    /\ \A e \in Endpoints : Reached(e) => Heard(e)
    /\ \A w \in Workers \ old : Informed(w)

\* Steps that leave the history and the workers alone.
LEMMA WarnQuiet ==
    ASSUME WarnInv, UNCHANGED <<worker, warning, old>>, offers' \in [DeliveryIds -> Nat],
           \A e \in Endpoints : Reached(e)' => Reached(e)
    PROVE  WarnInv'
BY DEF WarnInv, Histories, Heard, BeingWarned, Informed, At

\* A step of one worker that neither warns nor clears a counter.
LEMMA WarnMove ==
    ASSUME WarnInv, Histories', NEW w \in Workers, worker[w].stage # "warning",
           \A v \in Workers \ {w} : worker'[v] = worker[v],
           warning' = warning, old \ {w} \subseteq old', old' \subseteq old,
           \A e \in Endpoints : Reached(e)' => Reached(e),
           \/ worker'[w].stage \notin {"ready", "refused", "disabling"}
           \/ /\ worker'[w].to = worker[w].to /\ old' = old
              /\ worker'[w].stage \in {"ready", "refused"}
              /\ worker'[w].failures >= WarnAfter
                 => \/ Heard(worker[w].to)
                    \/ /\ worker[w].stage \in {"ready", "refused"}
                       /\ worker[w].failures >= WarnAfter
    PROVE  WarnInv'
<1>1. ASSUME NEW e, Heard(e) PROVE Heard(e)'
  BY <1>1 DEF Heard, BeingWarned, At
<1>2. ASSUME NEW v \in Workers \ old', v # w PROVE Informed(v)'
  <2>1. Informed(v) /\ worker'[v] = worker[v]
    BY <1>2 DEF WarnInv
  <2> QED BY <1>1, <2>1 DEF Informed
<1>3. ASSUME w \notin old' PROVE Informed(w)'
  <2>1. CASE worker'[w].stage \notin {"ready", "refused", "disabling"}
    BY <2>1 DEF Informed
  <2>2. CASE worker'[w].stage \in {"ready", "refused"} /\ worker'[w].to = worker[w].to
             /\ old' = old
    <3>1. worker'[w].failures >= WarnAfter => Heard(worker[w].to)
      BY <1>3, <2>2 DEF WarnInv, Informed
    <3> QED BY <1>1, <2>2, <3>1 DEF Informed
  <2> QED BY <2>1, <2>2
<1> QED BY <1>1, <1>2, <1>3 DEF WarnInv

\* A counter is cleared.
LEMMA WarnCleared ==
    ASSUME Basic, WarnInv, Histories', NEW e \in Endpoints, Cleared(e),
           \A x \in Endpoints \ {e} : Reached(x)' => Reached(x), ~Reached(e)',
           \A v \in Workers : \/ worker'[v] = worker[v]
                              \/ worker[v].stage # "warning" /\ worker'[v].stage = "done"
    PROVE  WarnInv'
<1>1. /\ \A x \in Endpoints \ {e} : warning'[x] = warning[x]
      /\ old' = old \cup {v \in Workers : worker[v].to = e /\ worker[v].stage \in Counting}
  BY DEF Cleared, WarnInv, Histories
<1>2. ASSUME NEW x \in Endpoints \ {e}, Heard(x) PROVE Heard(x)'
  <2>1. CASE warning[x] # "none"
    BY <1>1, <2>1 DEF Heard
  <2>2. CASE BeingWarned(x)
    <3>1. PICK v \in Workers \ old : worker[v].stage = "warning" /\ worker[v].to = x
      BY <2>2 DEF BeingWarned, At
    <3>2. v \notin old' /\ worker'[v] = worker[v]
      BY <1>1, <3>1
    <3> QED BY <3>1, <3>2 DEF Heard, BeingWarned, At
  <2> QED BY <1>2, <2>1, <2>2 DEF Heard
<1>3. ASSUME NEW v \in Workers \ old' PROVE Informed(v)'
  <2>1. Informed(v) /\ v \notin old
    BY <1>1 DEF WarnInv
  <2>2. CASE worker'[v].stage = "done"
    BY <2>2 DEF Informed
  <2>3. CASE worker'[v] = worker[v] /\ worker[v].stage \in Counting
    <3>1. worker[v].to # e
      BY <1>1, <1>3, <2>3
    <3>2. worker[v].to \in Endpoints
      BY <2>3 DEF Basic, Held, At, Counting
    <3> QED BY <1>2, <2>1, <2>3, <3>1, <3>2 DEF Informed
  <2>4. CASE worker'[v] = worker[v] /\ worker[v].stage \notin Counting
    BY <2>4 DEF Informed, Counting
  <2> QED BY <2>2, <2>3, <2>4
<1> QED BY <1>2, <1>3 DEF WarnInv


\* The counter becomes what was read, plus one: at WarnAfter the worker goes on to
\* warn; beyond it, what it read had been heard of.
LEMMA WarnCount ==
    ASSUME Basic, WarnInv, Histories', NEW w \in Workers, CountFailure(w)
    PROVE  WarnInv'
<1> DEFINE n == worker[w].failures + 1
<1>0. PICK e \in Endpoints : e = worker[w].to
  BY DEF Basic, Held, At, CountFailure
<1>1. /\ worker[w] \in Worker /\ worker \in [Workers -> Worker]
      /\ endpoint \in [Endpoints -> Endpoint \cup {NoRow}]
      /\ worker[w].stage = "refused"
  BY Fields DEF Basic, Shape, CountFailure, At
<1>2. /\ \A v \in Workers \ {w} : worker'[v] = worker[v]
      /\ worker'[w].stage = NextStage(n) /\ worker'[w].to = e
      /\ warning' = [warning EXCEPT ![e] = IF w \in old THEN "old" ELSE warning[e]]
      /\ old' = old
      /\ endpoint' = [endpoint EXCEPT ![e] =
            IF Exists(endpoint[e]) THEN [endpoint[e] EXCEPT !.failures = n] ELSE endpoint[e]]
  BY <1>0, <1>1 DEF CountFailure, Advance, Worker
<1>3. worker[w].failures \in Nat
  BY <1>1 DEF Worker
<1> HIDE DEF n
<1>4. /\ \A x \in Endpoints \ {e} : Reached(x)' => Reached(x)
      /\ Reached(e)' => n >= WarnAfter
  <2>1. \A x \in Endpoints \ {e} : endpoint'[x] = endpoint[x]
    BY <1>1, <1>2
  <2>2. CASE Exists(endpoint[e])
    <3>1. endpoint'[e] = [endpoint[e] EXCEPT !.failures = n] /\ endpoint[e] \in Endpoint
      BY <1>1, <1>2, <2>2, Fields DEF Basic
    <3>2. endpoint'[e].failures = n
      BY <3>1 DEF Endpoint
    <3> QED BY <2>1, <3>2 DEF Reached
  <2>3. CASE ~Exists(endpoint[e])
    <3>1. endpoint'[e] = endpoint[e]
      BY <1>1, <1>2, <2>3
    <3> QED BY <2>1, <2>3, <3>1 DEF Reached
  <2> QED BY <2>2, <2>3
<1>5. ASSUME NEW x \in Endpoints, Heard(x) PROVE Heard(x)'
  <2>1. CASE warning[x] # "none"
    BY <1>1, <1>2, <2>1 DEF Heard, WarnInv, Histories
  <2>2. CASE BeingWarned(x)
    <3>1. PICK v \in Workers \ old : worker[v].stage = "warning" /\ worker[v].to = x
      BY <2>2 DEF BeingWarned, At
    <3>2. v \notin old' /\ worker'[v] = worker[v]
      BY <1>1, <1>2, <3>1
    <3> QED BY <3>1, <3>2 DEF Heard, BeingWarned, At
  <2> QED BY <1>5, <2>1, <2>2 DEF Heard
<1>6. n >= WarnAfter => Heard(e)'
  <2> SUFFICES ASSUME n >= WarnAfter PROVE Heard(e)'
    OBVIOUS
  <2>1. CASE w \in old
    BY <1>1, <1>2, <2>1 DEF Heard, WarnInv, Histories
  <2>2. CASE w \notin old /\ n = WarnAfter
    <3>1. worker'[w].stage = "warning" /\ w \notin old'
      BY <1>2, <2>2 DEF NextStage
    <3> QED BY <1>2, <3>1 DEF Heard, BeingWarned, At
  <2>3. CASE w \notin old /\ n # WarnAfter
    <3>1. worker[w].failures >= WarnAfter
      BY <1>3, <2>3, WebhookAssumption DEF n
    <3>2. Heard(e)
      BY <1>0, <1>1, <2>3, <3>1 DEF WarnInv, Informed
    <3> QED BY <1>1, <1>5, <3>2
  <2> QED BY <2>1, <2>2, <2>3
<1>7. \A x \in Endpoints : Reached(x)' => Heard(x)'
  BY <1>4, <1>5, <1>6 DEF WarnInv
<1>8. ASSUME NEW v \in Workers \ old' PROVE Informed(v)'
  <2>1. CASE v # w
    <3>1. Informed(v) /\ worker'[v] = worker[v]
      BY <1>2, <2>1 DEF WarnInv
    <3>2. worker[v].stage \in {"ready", "refused", "disabling"} => worker[v].to \in Endpoints
      BY DEF Basic, Held, At
    <3> QED BY <1>5, <3>1, <3>2 DEF Informed
  <2>2. CASE v = w
    <3>1. worker'[w].stage \notin {"ready", "refused"}
      BY <1>2 DEF NextStage
    <3>2. worker'[w].stage = "disabling" => n >= WarnAfter
      BY <1>2, <1>3, WebhookAssumption DEF NextStage, n
    <3> QED BY <1>2, <1>6, <2>2, <3>1, <3>2 DEF Informed
  <2> QED BY <2>1, <2>2
<1> QED BY <1>7, <1>8 DEF WarnInv

\* The warning is told or lost.
LEMMA WarnTold ==
    ASSUME Basic, WarnInv, Histories', NEW w \in Workers, worker[w].stage = "warning",
           NEW outcome \in {"told", "lost"}, Warning(w, outcome),
           UNCHANGED endpoint, old' = old \/ old' = old \ {w},
           \A v \in Workers \ {w} : worker'[v] = worker[v],
           worker'[w].stage \notin {"ready", "refused", "disabling"}
    PROVE  WarnInv'
<1> DEFINE e == worker[w].to
<1>1. /\ e \in Endpoints /\ warning \in [Endpoints -> Outcome]
      /\ warning' = [warning EXCEPT ![e] = IF w \in old THEN warning[e] ELSE outcome]
  BY DEF Basic, Held, At, WarnInv, Histories, Warning
<1> HIDE DEF e
<1>2. ASSUME NEW x \in Endpoints, Heard(x) PROVE Heard(x)'
  <2>1. CASE warning[x] # "none"
    BY <1>1, <2>1 DEF Heard
  <2>2. CASE BeingWarned(x)
    <3>1. PICK v \in Workers \ old : worker[v].stage = "warning" /\ worker[v].to = x
      BY <2>2 DEF BeingWarned, At
    <3>2. CASE v = w
      BY <1>1, <3>1, <3>2 DEF Heard, e
    <3>3. CASE v # w
      BY <3>1, <3>3 DEF Heard, BeingWarned, At
    <3> QED BY <3>2, <3>3
  <2> QED BY <1>2, <2>1, <2>2 DEF Heard
<1>3. \A x \in Endpoints : Reached(x)' => Heard(x)'
  BY <1>2 DEF WarnInv, Reached
<1>4. ASSUME NEW v \in Workers \ old' PROVE Informed(v)'
  <2>1. CASE v # w
    <3>1. Informed(v) /\ worker'[v] = worker[v]
      BY <2>1 DEF WarnInv
    <3>2. worker[v].stage \in {"ready", "refused", "disabling"} => worker[v].to \in Endpoints
      BY DEF Basic, Held, At
    <3> QED BY <1>2, <3>1, <3>2 DEF Informed
  <2>2. CASE v = w
    BY <2>2 DEF Informed
  <2> QED BY <2>1, <2>2
<1> QED BY <1>3, <1>4 DEF WarnInv

LEMMA WarnAttempt ==
    ASSUME Basic, WarnInv, Histories', NEW w \in Workers,
           \/ Attempt(w) \/ CompleteJob(w) \/ StatementFails(w) \/ Crash(w)
    PROVE  WarnInv'
<1>1. worker[w] \in Worker /\ worker \in [Workers -> Worker]
      /\ endpoint \in [Endpoints -> Endpoint \cup {NoRow}]
  BY Fields DEF Basic, Shape
<1>2. worker[w].stage \notin {"idle", "claimed", "done"} => worker[w].to \in Endpoints
  BY DEF Basic, Held, At
<1> USE DEF notices
<1>3. CASE ReadDelivery(w) \/ FinishDelivered(w) \/ Reschedule(w) \/ FinishFailed(w)
  <2>1. /\ UNCHANGED <<endpoint, warning, old>> /\ worker[w].stage # "warning"
        /\ worker'[w].stage \notin {"ready", "refused", "disabling"}
        /\ \A v \in Workers \ {w} : worker'[v] = worker[v]
    BY <1>1, <1>3 DEF ReadDelivery, FinishDelivered, Reschedule, FinishFailed, Advance, At,
       Worker
  <2> QED BY <2>1, WarnMove DEF Reached
<1>4. CASE CompleteJob(w) \/ StatementFails(w) \/ (Crash(w) /\ worker[w].stage # "warning")
  <2>1. /\ UNCHANGED <<endpoint, warning>> /\ old' = old \ {w}
        /\ worker[w].stage # "warning"
        /\ worker'[w].stage \notin {"ready", "refused", "disabling"}
        /\ \A v \in Workers \ {w} : worker'[v] = worker[v]
    BY <1>1, <1>4 DEF CompleteJob, StatementFails, Crash, Advance, At, Worker, Idle
  <2> QED BY <2>1, WarnMove DEF Reached
<1>5. CASE Crash(w) /\ worker[w].stage = "warning"
  <2>1. /\ endpoint' = endpoint /\ Warning(w, "lost") /\ old' = old \ {w}
        /\ worker'[w].stage = "idle"
        /\ \A v \in Workers \ {w} : worker'[v] = worker[v]
    BY <1>1, <1>5 DEF Crash, At, Idle
  <2> QED BY <1>5, <2>1, WarnTold
<1>6. CASE Warn(w)
  <2>1. /\ UNCHANGED <<endpoint, old>> /\ worker[w].stage = "warning"
        /\ Warning(w, "told") \/ Warning(w, "lost")
        /\ worker'[w].stage \in {"again", "done"}
        /\ \A v \in Workers \ {w} : worker'[v] = worker[v]
    BY <1>1, <1>6 DEF Warn, Advance, At, Worker
  <2>2. CASE Warning(w, "told")
    BY <2>1, <2>2, WarnTold
  <2>3. CASE Warning(w, "lost")
    BY <2>1, <2>3, WarnTold
  <2> QED BY <2>1, <2>2, <2>3
<1>7. CASE ReadEndpoint(w)
  <2>1. /\ UNCHANGED <<endpoint, warning, old>> /\ worker[w].stage = "pending"
        /\ worker[w].to \in Endpoints
        /\ \A v \in Workers \ {w} : worker'[v] = worker[v]
        /\ \/ worker'[w].stage \in {"done", "off"}
           \/ /\ worker'[w].stage = "ready" /\ worker'[w].to = worker[w].to
              /\ endpoint[worker[w].to] # NoRow
              /\ worker'[w].failures = endpoint[worker[w].to].failures
    BY <1>1, <1>2, <1>7 DEF ReadEndpoint, Advance, At, Worker
  <2>2. worker'[w].stage = "ready" /\ worker'[w].failures >= WarnAfter
           => Heard(worker[w].to)
    BY <2>1 DEF WarnInv, Reached, Exists
  <2> QED BY <2>1, <2>2, WarnMove DEF Reached
<1>8. CASE Send(w)
  <2>1. /\ UNCHANGED <<endpoint, warning, old>> /\ worker[w].stage = "ready"
        /\ worker'[w].stage \in {"accepted", "refused"}
        /\ worker'[w].to = worker[w].to /\ worker'[w].failures = worker[w].failures
        /\ \A v \in Workers \ {w} : worker'[v] = worker[v]
    BY <1>1, <1>8 DEF Send, Advance, At, Worker
  <2> QED BY <2>1, WarnMove DEF Reached
<1>9. CASE RecordSuccess(w)
  <2>e. PICK e \in Endpoints : e = worker[w].to
    BY <1>2, <1>9 DEF RecordSuccess, At
  <2>1. /\ worker[w].stage = "succeeded" /\ worker'[w].stage = "done"
        /\ \A v \in Workers \ {w} : worker'[v] = worker[v]
    BY <1>1, <1>9 DEF RecordSuccess, Advance, At, Worker
  <2>2. CASE Exists(endpoint[e])
    <3>1. endpoint' = [endpoint EXCEPT ![e] = [endpoint[e] EXCEPT !.failures = 0]]
          /\ Cleared(e)
      BY <1>9, <2>e, <2>2 DEF RecordSuccess
    <3>2. endpoint'[e].failures = 0
      BY <1>1, <2>1, <2>2, <3>1, Fields DEF Basic, Endpoint
    <3>3. ~Reached(e)' /\ \A x \in Endpoints \ {e} : Reached(x)' => Reached(x)
      BY <1>1, <2>1, <3>1, <3>2, WebhookAssumption DEF Reached
    <3> QED BY <2>1, <3>1, <3>3, WarnCleared
  <2>3. CASE ~Exists(endpoint[e])
    <3>1. UNCHANGED <<endpoint, warning, old>>
      BY <1>9, <2>e, <2>3 DEF RecordSuccess
    <3> QED BY <2>1, <3>1, WarnMove DEF Reached
  <2> QED BY <2>2, <2>3
<1>10. CASE Disable(w)
  <2>e. PICK e \in Endpoints : e = worker[w].to
    BY <1>2, <1>10 DEF Disable, At
  <2>1. /\ worker[w].stage = "disabling" /\ worker'[w].stage = "again"
        /\ UNCHANGED <<warning, old>>
        /\ \A v \in Workers \ {w} : worker'[v] = worker[v]
        /\ endpoint' = [endpoint EXCEPT ![e] =
              IF Exists(endpoint[e]) THEN [endpoint[e] EXCEPT !.state = "disabled"] ELSE endpoint[e]]
    BY <1>1, <1>10, <2>e DEF Disable, Advance, At, Worker
  <2>2. \A x \in Endpoints : Reached(x)' => Reached(x)
    <3>1. \A x \in Endpoints \ {e} : endpoint'[x] = endpoint[x]
      BY <1>1, <2>1
    <3>2. Exists(endpoint[e]) => endpoint'[e].failures = endpoint[e].failures
      BY <1>1, <2>1, Fields DEF Basic, Endpoint
    <3>3. ~Exists(endpoint[e]) => endpoint'[e] = endpoint[e]
      BY <1>1, <2>1
    <3> QED BY <3>1, <3>2, <3>3 DEF Reached
  <2> QED BY <2>1, <2>2, WarnMove
<1>11. CASE CountFailure(w)
  BY <1>11, WarnCount
<1> QED BY <1>3, <1>4, <1>5, <1>6, <1>7, <1>8, <1>9, <1>10, <1>11 DEF Attempt

LEMMA WarnUpdate ==
    ASSUME Basic, WarnInv, Histories', NEW e \in Endpoints, UpdateWrites(e)
    PROVE  WarnInv'
<1>1. /\ endpoint \in [Endpoints -> Endpoint \cup {NoRow}] /\ worker' = worker
  BY DEF Basic, Shape, UpdateWrites
<1>2. CASE ~Exists(endpoint[e])
  BY <1>2, WarnQuiet DEF UpdateWrites, notices, Histories, Reached
<1>3. CASE Exists(endpoint[e])
  <2>1. PICK state \in {"enabled", "disabled"} :
           LET on == state = "enabled" /\ edit[e] = "disabled"
           IN  /\ endpoint' = [endpoint EXCEPT ![e] =
                     [state |-> state, failures |-> IF on THEN 0 ELSE endpoint[e].failures]]
               /\ IF on THEN Cleared(e) ELSE UNCHANGED notices
    BY <1>3 DEF UpdateWrites
  <2>2. /\ \A x \in Endpoints \ {e} : endpoint'[x] = endpoint[x]
        /\ endpoint'[e].failures = IF state = "enabled" /\ edit[e] = "disabled"
                                   THEN 0 ELSE endpoint[e].failures
    BY <1>1, <2>1
  <2>3. CASE state = "enabled" /\ edit[e] = "disabled"
    <3>1. ~Reached(e)' /\ \A x \in Endpoints \ {e} : Reached(x)' => Reached(x)
      BY <2>2, <2>3, WebhookAssumption DEF Reached
    <3> QED BY <1>1, <2>1, <2>3, <3>1, WarnCleared
  <2>4. CASE ~(state = "enabled" /\ edit[e] = "disabled")
    <3>1. UNCHANGED <<warning, old>>
      BY <2>1, <2>4 DEF notices
    <3>2. \A x \in Endpoints : Reached(x)' => Reached(x)
      BY <1>3, <2>2, <2>4 DEF Reached
    <3> QED BY <1>1, <3>1, <3>2, WarnQuiet DEF Histories
  <2> QED BY <2>3, <2>4
<1> QED BY <1>2, <1>3

LEMMA WarnNext == Basic /\ WarnInv /\ [Next]_vars => WarnInv'
<1> SUFFICES ASSUME Basic, WarnInv, [Next]_vars PROVE WarnInv'
  OBVIOUS
<1>h. Histories'
  BY HistoryNext DEF WarnInv
<1>1. CASE UNCHANGED <<endpoint, worker, warning, old>>
  BY <1>1, <1>h, WarnQuiet DEF Reached, Histories
<1>2. CASE Next
  <2>1. ASSUME NEW e \in Endpoints, Delete(e) PROVE WarnInv'
    <3>1. /\ UNCHANGED <<worker, warning, old>>
          /\ \A x \in Endpoints : endpoint'[x] = endpoint[x] \/ ~Exists(endpoint'[x])
      BY <2>1, RowTypes DEF Delete, Basic, Shape, notices
    <3> QED BY <1>h, <3>1, WarnQuiet DEF Reached, Histories
  <2>2. ASSUME NEW e \in Endpoints, UpdateReads(e) PROVE WarnInv'
    BY <1>1, <2>2 DEF UpdateReads, notices
  <2>3. ASSUME NEW e \in Endpoints, UpdateWrites(e) PROVE WarnInv'
    BY <1>h, <2>3, WarnUpdate
  <2>4. ASSUME NEW e \in Endpoints, NEW d \in DeliveryIds, Enqueue(e, d) PROVE WarnInv'
    BY <1>1, <2>4 DEF Enqueue, notices
  <2>5. ASSUME NEW w \in Workers, NEW k \in JobIds, Claim(w, k) PROVE WarnInv'
    <3>1. /\ UNCHANGED <<endpoint, warning, old>> /\ worker[w].stage = "idle"
          /\ worker'[w].stage = "claimed" /\ \A v \in Workers \ {w} : worker'[v] = worker[v]
      BY <2>5 DEF Claim, At, Basic, Shape, notices
    <3> QED BY <1>h, <3>1, WarnMove DEF Reached
  <2>6. ASSUME NEW k \in JobIds, BackoffElapses(k) \/ ReleaseStale(k) PROVE WarnInv'
    BY <1>1, <2>6 DEF BackoffElapses, ReleaseStale, notices
  <2> QED BY <1>2, <1>h, <2>1, <2>2, <2>3, <2>4, <2>5, <2>6, WarnAttempt
          DEF Next, Publish, Redeliver
<1> QED BY <1>1, <1>2 DEF vars, notices

\* "The email goes out while the endpoint is still enabled" (recordFailure): for any
\* number of processes and every pair of thresholds, through crashes, failing
\* notifiers, edits and deletions, no endpoint is disabled before the failures it is
\* disabled for reached the warning.
THEOREM WarnedFirstHolds == Spec => WarnedFirst
<1> DEFINE Inv == Basic /\ WarnInv
<1>1. Init => Inv
  <2> SUFFICES ASSUME Init PROVE WarnInv
    BY BasicInit
  <2>1. /\ \A e \in Endpoints : endpoint[e].failures = 0
        /\ \A w \in Workers : worker[w].stage = "idle"
    BY DEF Init, Idle
  <2> QED BY <2>1, WebhookAssumption
          DEF Init, WarnInv, Histories, Outcome, Reached, Informed
<1>2. Inv /\ [Next]_vars => Inv'
  BY BasicNext, WarnNext
<1>3. Inv /\ [Next]_vars =>
        [\A w \in Workers \ old : \A e \in Endpoints :
            /\ Disables(w) /\ worker[w].to = e
            /\ Exists(endpoint[e]) /\ endpoint[e].state = "enabled"
            => warning[e] # "none" \/ BeingWarned(e)]_vars
  BY DEF WarnInv, Informed, Heard, Disables, At
<1> QED BY <1>1, <1>2, <1>3, PTL DEF Spec, WarnedFirst
=============================================================================
