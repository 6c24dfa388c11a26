-------------------------- MODULE WebhookDelivery --------------------------
(***************************************************************************)
(* Customer webhooks (internal/webhooks/deliver.go and the endpoint store  *)
(* of webhooks.go): an event becomes one delivery row and one job row per  *)
(* endpoint, a worker in every app process claims a job, offers the        *)
(* payload, records what came back and queues a new job for the next try.  *)
(* Failures are counted per endpoint: the customer is warned at one        *)
(* threshold and the endpoint disabled at a later one.                     *)
(*                                                                         *)
(* Every statement is a step of its own, and the HTTP request another:     *)
(* what a worker read before the request may have changed when it writes.  *)
(***************************************************************************)
EXTENDS Integers, FiniteSets

CONSTANTS
    Endpoints,     \* rows of webhook_endpoints
    Workers,       \* app processes (two while a deploy overlaps)
    MaxAttempts,   \* MaxAttempts
    WarnAfter,     \* WarnAfterFailures
    DisableAfter,  \* DisableAfterFailures
    MaxUpsets,     \* model bound: upsets of all kinds together
    MaxDeliveries, \* model bound: largest delivery id
    MaxJobs        \* model bound: jobs that are not completed

ASSUME WebhookAssumption ==
    /\ MaxAttempts \in Nat \ {0}
    /\ WarnAfter \in Nat \ {0} /\ DisableAfter \in Nat /\ WarnAfter < DisableAfter
    /\ MaxUpsets \in Nat
    /\ MaxDeliveries \in Nat /\ MaxJobs \in Nat

VARIABLES
    endpoint,   \* webhook_endpoints
    delivery,   \* webhook_deliveries
    job,        \* jobs of the webhooks queue that are not completed
    worker,     \* what each process is doing
    edit,       \* the enabled flag of the row an Update request has read
    offers,     \* history: how often each delivery was offered
    warning,    \* history: what became of the warning about the failures of each
                \* endpoint since its counter was last cleared
    old,        \* history: workers that read a counter which was cleared since
    upsets      \* upsets spent, of each kind

notices == <<warning, old>>
vars == <<endpoint, delivery, job, worker, edit, offers, notices, upsets>>

DeliveryIds == 1..MaxDeliveries
JobIds == 1..MaxJobs

\* Rows.  A completed job is never read again, so its row is not kept.
NoRow == [state |-> "none"]
Endpoint == [state : {"enabled", "disabled"}, failures : Nat]
Delivery == [state : {"pending", "delivered", "failed"}, attempt : Nat,
             to : Endpoints]
Job == [state : {"available", "executing"}, delivery : DeliveryIds, due : BOOLEAN]

Stage == {"idle", "claimed", "pending", "ready", "accepted", "succeeded",
          "refused", "warning", "disabling", "again", "off", "done"}
\* Those in which an attempt has read the counter and may still act on it.
Counting == {"ready", "refused", "warning", "disabling"}
NoEndpoint == "nowhere"
Worker == [stage : Stage, job : JobIds \cup {0}, delivery : DeliveryIds \cup {0},
           attempt : Nat, to : Endpoints \cup {NoEndpoint}, failures : Nat]
Idle == [stage |-> "idle", job |-> 0, delivery |-> 0, attempt |-> 0,
         to |-> NoEndpoint, failures |-> 0]
Exists(row) == row # NoRow
At(w, stage) == worker[w].stage = stage
Advance(w, stage) == worker' = [worker EXCEPT ![w].stage = stage]

Kinds == {"crash", "fault", "notice", "edit", "delete"}
Upset(kind) ==
    /\ upsets["crash"] + upsets["fault"] + upsets["notice"] + upsets["edit"]
          + upsets["delete"] < MaxUpsets
    /\ upsets' = [upsets EXCEPT ![kind] = @ + 1]
Without(kinds) == \A kind \in kinds : upsets[kind] = 0

\* What the history keeps: a counter is cleared, with attempts in between that have
\* read it; the warning a worker is to give is told or lost.
Cleared(e) ==
    /\ warning' = [warning EXCEPT ![e] = "none"]
    /\ old' = old \cup {w \in Workers : /\ worker[w].to = e
                                        /\ worker[w].stage \in Counting}
Warning(w, outcome) ==
    warning' = [warning EXCEPT ![worker[w].to] = IF w \in old THEN @ ELSE outcome]

-----------------------------------------------------------------------------
(***************************************************************************)
(* Publishing, and what the customer does with an endpoint.                *)
(***************************************************************************)

\* Ids are INTEGER PRIMARY KEY: a new delivery gets the largest id plus one, so
\* an id is assigned again once the last rows are gone.  Any free job id serves.
Logged == {d \in DeliveryIds : Exists(delivery[d])}
NextDelivery(d) == d \in {1} \cup {x + 1 : x \in Logged} /\ \A x \in Logged : x < d
FreeJob(k) == ~Exists(job[k]) /\ \A x \in JobIds : x < k => Exists(job[x])
NewJob(d, due) == [state |-> "available", delivery |-> d, due |-> due]

\* enqueue: the delivery and its job, in one transaction.
Enqueue(e, d) ==
    /\ Exists(endpoint[e]) /\ NextDelivery(d)
    /\ delivery' = [delivery EXCEPT ![d] =
                       [state |-> "pending", attempt |-> 0, to |-> e]]
    /\ \E k \in JobIds : FreeJob(k) /\ job' = [job EXCEPT ![k] = NewJob(d, TRUE)]
    /\ offers' = [offers EXCEPT ![d] = 0]
    /\ UNCHANGED <<endpoint, worker, edit, notices, upsets>>

\* Publish skips the endpoints its list shows disabled.
Publish(e, d) == Enqueue(e, d) /\ endpoint[e].state = "enabled"

\* Redeliver copies a delivery, whatever became of it or of its endpoint.
Redeliver(e, d) ==
    Enqueue(e, d) /\ \E x \in Logged : delivery[x].to = e

\* Update reads the row ...
UpdateReads(e) ==
    /\ edit[e] = "none" /\ Exists(endpoint[e])
    /\ Upset("edit")
    /\ edit' = [edit EXCEPT ![e] = endpoint[e].state]
    /\ UNCHANGED <<endpoint, delivery, job, worker, offers, notices>>

\* ... and writes back its enabled flag, or the one the customer asked for.
\* Turning on an endpoint the row showed disabled clears the counter.
UpdateWrites(e) ==
    /\ edit[e] # "none"
    /\ \E state \in {"enabled", "disabled"} :
          LET on == state = "enabled" /\ edit[e] = "disabled"
          IN  IF Exists(endpoint[e])
              THEN /\ endpoint' = [endpoint EXCEPT ![e] =
                         [state |-> state,
                          failures |-> IF on THEN 0 ELSE endpoint[e].failures]]
                   /\ IF on THEN Cleared(e) ELSE UNCHANGED notices
              ELSE UNCHANGED <<endpoint, notices>>
    /\ edit' = [edit EXCEPT ![e] = "none"]
    /\ UNCHANGED <<delivery, job, worker, offers, upsets>>

\* Delete: the deliveries go with the endpoint, their jobs stay.  (Create makes
\* an endpoint under an id of its own.)
Delete(e) ==
    /\ Exists(endpoint[e]) /\ Upset("delete")
    /\ endpoint' = [endpoint EXCEPT ![e] = NoRow]
    /\ delivery' = [d \in DeliveryIds |->
          IF d \in Logged /\ delivery[d].to = e THEN NoRow ELSE delivery[d]]
    /\ UNCHANGED <<job, worker, edit, offers, notices>>

-----------------------------------------------------------------------------
(***************************************************************************)
(* RunOnce: claim, attempt, complete.                                      *)
(***************************************************************************)

\* claim: one transaction takes a due job.
Claim(w, k) ==
    /\ At(w, "idle")
    /\ Exists(job[k]) /\ job[k].state = "available" /\ job[k].due
    /\ job' = [job EXCEPT ![k].state = "executing"]
    /\ worker' = [worker EXCEPT ![w] =
          [stage |-> "claimed", job |-> k, delivery |-> job[k].delivery,
           attempt |-> 0, to |-> NoEndpoint, failures |-> 0]]
    /\ UNCHANGED <<endpoint, delivery, edit, offers, notices, upsets>>

\* attempt reads the delivery: nothing to do if it is gone or delivered.
ReadDelivery(w) ==
    /\ At(w, "claimed")
    /\ LET row == delivery[worker[w].delivery]
       IN  IF row = NoRow \/ row.state = "delivered"
           THEN Advance(w, "done")
           ELSE worker' = [worker EXCEPT ![w].stage = "pending",
                              ![w].attempt = row.attempt, ![w].to = row.to]
    /\ UNCHANGED <<endpoint, delivery, job, edit, offers, notices, upsets>>

\* Then the endpoint: a disabled one is not tried.
ReadEndpoint(w) ==
    /\ At(w, "pending")
    /\ LET row == endpoint[worker[w].to]
       IN  IF row = NoRow THEN Advance(w, "done")
           ELSE worker' = [worker EXCEPT ![w].failures = row.failures,
                  ![w].stage = IF row.state = "enabled" THEN "ready" ELSE "off"]
    /\ UNCHANGED <<endpoint, delivery, job, edit, offers, notices, upsets>>

\* The request: answered 2xx, or anything else (no answer included).
Send(w) ==
    /\ At(w, "ready")
    /\ offers' = [offers EXCEPT ![worker[w].delivery] = @ + 1]
    /\ \E stage \in {"accepted", "refused"} : Advance(w, stage)
    /\ UNCHANGED <<endpoint, delivery, job, edit, notices, upsets>>

\* finish: UPDATE webhook_deliveries ... WHERE id = ?
Finish(w, state) ==
    delivery' = [d \in DeliveryIds |->
        IF d = worker[w].delivery /\ d \in Logged
        THEN [state |-> state, attempt |-> delivery[d].attempt + 1,
              to |-> delivery[d].to]
        ELSE delivery[d]]

FinishDelivered(w) ==
    /\ At(w, "accepted")
    /\ Finish(w, "delivered")
    /\ Advance(w, IF worker[w].failures = 0 THEN "done" ELSE "succeeded")
    /\ UNCHANGED <<endpoint, job, edit, offers, notices, upsets>>

\* recordSuccess.
RecordSuccess(w) ==
    /\ At(w, "succeeded")
    /\ IF Exists(endpoint[worker[w].to])
       THEN /\ endpoint' = [endpoint EXCEPT ![worker[w].to].failures = 0]
            /\ Cleared(worker[w].to)
       ELSE UNCHANGED <<endpoint, notices>>
    /\ Advance(w, "done")
    /\ UNCHANGED <<delivery, job, edit, offers, upsets>>

\* recordFailure: the counter becomes what was read before the request, plus one.
\* Mutant: the disable threshold is tested first and is that of the warning.
NextStageDisables(n) == IF n >= WarnAfter THEN "disabling" ELSE "again"
NextStage(n) == IF n = WarnAfter THEN "warning"
                ELSE IF n >= DisableAfter THEN "disabling" ELSE "again"
CountFailure(w) ==
    /\ At(w, "refused")
    /\ LET n == worker[w].failures + 1
       IN  /\ endpoint' = [endpoint EXCEPT ![worker[w].to] =
                 IF Exists(@) THEN [@ EXCEPT !.failures = n] ELSE @]
           /\ Advance(w, NextStage(n))
    /\ warning' = [warning EXCEPT ![worker[w].to] = IF w \in old THEN "old" ELSE @]
    /\ UNCHANGED <<delivery, job, edit, offers, old, upsets>>

\* The notifier takes the notice or fails, which is only logged (the one of the
\* server, loggingNotifier, writes a log line for the operator), and warned_at is
\* written, which nothing reads: if that statement fails, the attempt ends here.
Warn(w) ==
    /\ At(w, "warning")
    /\ \/ Warning(w, "told") /\ Advance(w, "again") /\ UNCHANGED upsets
       \/ Warning(w, "lost") /\ Advance(w, "again") /\ Upset("notice")
       \/ /\ \E outcome \in {"told", "lost"} : Warning(w, outcome)
          /\ Advance(w, "done") /\ Upset("fault")
    /\ UNCHANGED <<endpoint, delivery, job, edit, offers, old>>

Disable(w) ==
    /\ At(w, "disabling")
    /\ endpoint' = [endpoint EXCEPT ![worker[w].to] =
          IF Exists(@) THEN [@ EXCEPT !.state = "disabled"] ELSE @]
    /\ Advance(w, "again")
    /\ UNCHANGED <<delivery, job, edit, offers, notices, upsets>>

\* reschedule: the attempt and the next job, in one transaction, or the end.
\* Mutants: one attempt too many; the next job is forgotten.
ExhaustedLate(w) == worker[w].attempt >= MaxAttempts
Exhausted(w) == worker[w].attempt + 1 >= MaxAttempts
QueueNothing(d) == job' = job
QueueNext(d) ==
    \E k \in JobIds : FreeJob(k) /\ job' = [job EXCEPT ![k] = NewJob(d, FALSE)]
Reschedule(w) ==
    /\ At(w, "again") /\ ~Exhausted(w)
    /\ delivery' = [delivery EXCEPT ![worker[w].delivery] =
          IF Exists(@) THEN [@ EXCEPT !.attempt = worker[w].attempt + 1] ELSE @]
    /\ QueueNext(worker[w].delivery)
    /\ Advance(w, "done")
    /\ UNCHANGED <<endpoint, edit, offers, notices, upsets>>

\* Given up, or not tried because the endpoint is disabled.
FinishFailed(w) ==
    /\ (At(w, "again") /\ Exhausted(w)) \/ At(w, "off")
    /\ Finish(w, "failed")
    /\ Advance(w, "done")
    /\ UNCHANGED <<endpoint, job, edit, offers, notices, upsets>>

\* The job is completed, whatever the attempt came to.
\* Mutant: it is left available.
LeftAvailable(w) == NewJob(worker[w].delivery, FALSE)
Completed(w) == NoRow
CompleteJob(w) ==
    /\ At(w, "done")
    /\ job' = [job EXCEPT ![worker[w].job] = Completed(w)]
    /\ worker' = [worker EXCEPT ![w] = Idle]
    /\ old' = old \ {w}
    /\ UNCHANGED <<endpoint, delivery, edit, offers, warning, upsets>>

\* A statement of the attempt fails: the attempt returns its error.  If it is
\* the last one that fails, the claim stays.
StatementFails(w) ==
    /\ ~At(w, "idle") /\ ~At(w, "ready") /\ ~At(w, "warning")
    /\ Upset("fault")
    /\ IF At(w, "done") THEN worker' = [worker EXCEPT ![w] = Idle]
                        ELSE Advance(w, "done")
    /\ old' = old \ {w}
    /\ UNCHANGED <<endpoint, delivery, job, edit, offers, warning>>

\* The process dies, with the warning it was about to give; another starts.
Crash(w) ==
    /\ ~At(w, "idle") /\ Upset("crash")
    /\ worker' = [worker EXCEPT ![w] = Idle]
    /\ IF At(w, "warning") THEN Warning(w, "lost") ELSE UNCHANGED <<warning>>
    /\ old' = old \ {w}
    /\ UNCHANGED <<endpoint, delivery, job, edit, offers>>

-----------------------------------------------------------------------------
\* The time of a retry comes.
BackoffElapses(k) ==
    /\ Exists(job[k]) /\ ~job[k].due
    /\ job' = [job EXCEPT ![k].due = TRUE]
    /\ UNCHANGED <<endpoint, delivery, worker, edit, offers, notices, upsets>>

\* A claim nobody works on any more is put back by the job runner of any process
\* (jobs.ReleaseStale); an attempt is bounded by seconds, StaleClaim by minutes.
ReleaseStale(k) ==
    /\ Exists(job[k]) /\ job[k].state = "executing"
    /\ \A w \in Workers : worker[w].job # k
    /\ job' = [job EXCEPT ![k].state = "available"]
    /\ UNCHANGED <<endpoint, delivery, worker, edit, offers, notices, upsets>>

Init ==
    /\ endpoint = [e \in Endpoints |-> [state |-> "enabled", failures |-> 0]]
    /\ delivery = [d \in DeliveryIds |-> NoRow]
    /\ job = [k \in JobIds |-> NoRow]
    /\ worker = [w \in Workers |-> Idle]
    /\ edit = [e \in Endpoints |-> "none"]
    /\ offers = [d \in DeliveryIds |-> 0]
    /\ warning = [e \in Endpoints |-> "none"]
    /\ old = {}
    /\ upsets = [kind \in Kinds |-> 0]

Attempt(w) ==
    \/ ReadDelivery(w) \/ ReadEndpoint(w) \/ Send(w)
    \/ FinishDelivered(w) \/ RecordSuccess(w)
    \/ CountFailure(w) \/ Warn(w) \/ Disable(w)
    \/ Reschedule(w) \/ FinishFailed(w)

Next ==
    \/ \E e \in Endpoints : \/ \E d \in DeliveryIds : Publish(e, d) \/ Redeliver(e, d)
                            \/ UpdateReads(e) \/ UpdateWrites(e) \/ Delete(e)
    \/ \E k \in JobIds : \/ \E w \in Workers : Claim(w, k)
                         \/ BackoffElapses(k) \/ ReleaseStale(k)
    \/ \E w \in Workers : \/ Attempt(w) \/ CompleteJob(w)
                          \/ StatementFails(w) \/ Crash(w)

Spec == Init /\ [][Next]_vars

\* Run never stops polling, the client of a request has a timeout, and time
\* passes, for the jobs of every delivery.  Nothing makes a receiver accept or a
\* process die.
For(d) == {k \in JobIds : Exists(job[k]) /\ job[k].delivery = d}
Fairness ==
    /\ \A d \in DeliveryIds :
          /\ WF_vars(\E k \in For(d) : BackoffElapses(k))
          /\ WF_vars(\E k \in For(d) : ReleaseStale(k))
          /\ \A w \in Workers : SF_vars(\E k \in For(d) : Claim(w, k))
    /\ \A w \in Workers : WF_vars(Attempt(w)) /\ WF_vars(CompleteJob(w))
FairSpec == Spec /\ Fairness

-----------------------------------------------------------------------------
(***************************************************************************)
(* Properties.                                                             *)
(***************************************************************************)

\* Every variable holds a value of its kind.
TypeOK ==
    /\ endpoint \in [Endpoints -> Endpoint \cup {NoRow}]
    /\ delivery \in [DeliveryIds -> Delivery \cup {NoRow}]
    /\ job \in [JobIds -> Job \cup {NoRow}]
    /\ worker \in [Workers -> Worker]
    /\ edit \in [Endpoints -> {"none", "enabled", "disabled"}]
    /\ offers \in [DeliveryIds -> Nat]
    /\ warning \in [Endpoints -> {"none", "told", "lost", "old"}]
    /\ old \subseteq Workers
    /\ upsets \in [Kinds -> Nat]

\* The jobs that will still attempt a delivery: not those whose worker has only
\* to complete them.
Scheduled(d) ==
    {k \in JobIds : /\ Exists(job[k]) /\ job[k].delivery = d
                    /\ \A w \in Workers : worker[w].job = k => ~At(w, "done")}

\* "A delivery row with no job is a payload nobody will ever send" (Publish): a
\* pending delivery always has a job that will attempt it, unless a statement of an
\* attempt failed.
PendingHasJob ==
    Without({"fault"}) => \A d \in Logged : delivery[d].state = "pending" => Scheduled(d) # {}

\* "Leaving the job available would give us two schedules for the same delivery
\* and no way to reconcile them" (RunOnce): no two jobs attempt one delivery, unless
\* a job was left behind by a crash, a failed statement or a deleted endpoint.
OneSchedule ==
    Without({"crash", "fault", "delete"}) => \A d \in DeliveryIds : \A j, k \in Scheduled(d) : j = k

\* MaxAttempts "is how many times one event is offered to one endpoint before
\* the delivery is marked failed".
OffersBounded ==
    Without({"crash", "fault", "delete"}) => \A d \in DeliveryIds : offers[d] <= MaxAttempts

\* "The email goes out while the endpoint is still enabled ... so the customer has
\* the chance to fix it" (recordFailure): however the attempts of the processes and
\* the edits of the customer interleave, an enabled endpoint is disabled only after
\* its failures since it last worked, or was last turned on, reached the warning,
\* which a worker is giving, has given, or has lost with its process or to a failing
\* notifier.  The exception is an attempt that began before: the counter it writes,
\* or its disabling, is of the failures before.
BeingWarned(e) ==
    \E w \in Workers \ old : At(w, "warning") /\ worker[w].to = e
Disables(w) == At(w, "disabling") /\ worker'[w].stage = "again"
WarnedFirst ==
    [][\A w \in Workers \ old : \A e \in Endpoints :
          /\ Disables(w) /\ worker[w].to = e
          /\ Exists(endpoint[e]) /\ endpoint[e].state = "enabled"
          => warning[e] # "none" \/ BeingWarned(e)]_vars

\* Every delivery is delivered, given up, or goes with its endpoint, unless a
\* statement of an attempt failed.
Settles ==
    \A d \in DeliveryIds :
        (Without({"fault"}) /\ d \in Logged /\ delivery[d].state = "pending")
            ~> (~Without({"fault"}) \/ d \notin Logged \/ delivery[d].state # "pending")
=============================================================================
