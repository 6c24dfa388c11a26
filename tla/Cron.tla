--------------------------------- MODULE Cron ---------------------------------
(***************************************************************************)
(* The recurring jobs (internal/jobs/cron.go) over the job queue.  Every   *)
(* app process runs a Cron beside its Runner: at its start and once a      *)
(* minute it looks which time buckets of an entry have no job yet, and     *)
(* queues one for each in ascending order.  A durable slot in cron_slots,  *)
(* inserted in one transaction with the job, is all that keeps several     *)
(* processes, and one that comes back after an outage, from queueing a     *)
(* bucket twice or leaving one out.                                        *)
(*                                                                         *)
(* One entry is modelled, the jobs are its buckets.  Its interval is far   *)
(* shorter than its period, so a process may look any number of times in   *)
(* a bucket; an outage lets several buckets go by without a look.          *)
(***************************************************************************)
EXTENDS JobQueue

CONSTANTS
    Lookback,     \* how many buckets before the current one are caught up
    LastBucket    \* model bound: the clock stops there

ASSUME CronAssumption ==
    /\ Lookback \in Nat \ {0}
    /\ LastBucket \in Nat /\ LastBucket > Lookback
    /\ Jobs = 1..LastBucket

VARIABLES
    clock,    \* the bucket the wall clock is in
    latest,   \* MAX(bucket) over cron_slots, Never when it is empty
    pass      \* EnqueueDue in each process

cron == <<clock, latest, pass>>
cronVars == <<jobVars, cron>>

\* Buckets before the first job of the model belong to an earlier life of the
\* installation; the oldest of them is out of every pass's reach.
Buckets == (-Lookback)..LastBucket
Never == -Lookback - 1

\* A slot and its job are inserted in one transaction, and neither is deleted.
Reserved(b) == row[b].state # "absent"

\* No pass, or one between two of its buckets.
Resting == [stage |-> "resting"]
Pass == {Resting} \cup [stage : {"filling"}, current : Jobs, next : Jobs]

At(r, stage) == r \notin silent /\ pass[r].stage = stage

-----------------------------------------------------------------------------
\* Run begins a pass with the time of its tick, and asks LatestPeriodicBucket.
\* The first bucket to queue is the one after the newest slot, though not before
\* the lookback; the current one where there is no slot at all.
\* Mutant: nothing is caught up.
CurrentOnly == clock
Start ==
    IF latest = Never THEN clock
    ELSE IF latest + 1 < clock - Lookback THEN clock - Lookback ELSE latest + 1
Look(r) ==
    /\ At(r, "resting")
    /\ Start <= clock
    /\ pass' = [pass EXCEPT ![r] = [stage |-> "filling", current |-> clock, next |-> Start]]
    /\ UNCHANGED <<jobVars, clock, latest>>

\* EnqueuePeriodic: the slot and the job in one transaction, or neither when
\* somebody else has reserved the bucket.  The loop goes on with the next one.
Fill(r) ==
    /\ At(r, "filling")
    /\ LET next == pass[r].next
       IN  /\ IF Reserved(next)
              THEN UNCHANGED <<jobVars, latest>>
              ELSE /\ Enqueue(next)
                   /\ latest' = IF next > latest THEN next ELSE latest
           /\ pass' = [pass EXCEPT ![r] = IF next = pass[r].current THEN Resting
                                          ELSE [@ EXCEPT !.next = next + 1]]
    /\ UNCHANGED clock

\* A statement of the pass fails.  A retry within it (retryWhileBusy) looks anew
\* with a time that is at most seconds older, so it is a pass like the next one.
PassFails(r) ==
    /\ At(r, "filling")
    /\ pass' = [pass EXCEPT ![r] = Resting]
    /\ UNCHANGED <<jobVars, clock, latest>>

\* A process dies in the middle of a pass, of a job, or of both.
Dies(r) ==
    /\ Killed(r)
    /\ pass' = [pass EXCEPT ![r] = Resting]
    /\ UNCHANGED <<clock, latest>>

\* Time passes, whether or not anybody is there to look.
TimePasses ==
    /\ clock < LastBucket /\ clock' = clock + 1
    /\ UNCHANGED <<jobVars, latest, pass>>

\* The queue goes on meanwhile.
QueueWorks == Work /\ UNCHANGED cron

\* What an earlier life has left: nothing, the slot of the bucket before, or an
\* older one after an outage.  The clock starts where bucket 1 is the oldest that
\* a pass may be asked for.
CronInit ==
    /\ JobsInit
    /\ latest \in {b \in Buckets : b < 1} \cup {Never}
    /\ clock = IF latest \in {0, Never} THEN 1 ELSE 1 + Lookback
    /\ pass = [r \in Runners |-> Resting]

CronNext ==
    \/ \E r \in Runners : Look(r) \/ Fill(r) \/ PassFails(r) \/ Dies(r)
    \/ TimePasses
    \/ QueueWorks

CronSpec == CronInit /\ [][CronNext]_cronVars

\* The ticker of Run never stops, and passes do not fail for ever: a statement
\* waits for the lock, a pass is retried, and the next tick begins a new one.  The
\* queue is as fair as by itself.  Nothing makes time pass, or wait for a pass.
CronFairness ==
    /\ JobsFairness
    /\ \A r \in Runners : WF_cronVars(Look(r)) /\ SF_cronVars(Fill(r))
CronFairSpec == CronSpec /\ CronFairness

-----------------------------------------------------------------------------
\* Every variable holds a value of its kind, and the newest slot is that of the
\* newest job.
CronTypeOK ==
    /\ JobsTypeOK
    /\ clock \in 1..LastBucket /\ latest \in Buckets \cup {Never}
    /\ pass \in [Runners -> Pass]
    /\ \A b \in Jobs : (Reserved(b) => b <= latest) /\ (b = latest => Reserved(b))

\* "Fills durable buckets after the last observed slot, but never reaches
\* farther back than this duration" (CronEntry.Lookback): once there is a slot,
\* every later bucket the clock comes to gets its job, and the job is done or
\* given up in the end, whatever the processes were doing meanwhile, unless the
\* lookback is over before anybody has queued it.
Reached(b) == clock >= b /\ latest # Never /\ latest <= b
Forfeited(b) == clock > b + Lookback /\ ~Reserved(b)
TicksRun ==
    \A b \in Jobs : Reached(b)
                       ~> (row[b].state \in {"completed", "discarded"} \/ Forfeited(b))
=============================================================================
