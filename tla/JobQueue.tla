------------------------------ MODULE JobQueue ------------------------------
(***************************************************************************)
(* The background job queue (internal/jobs/jobs.go): a table of rows in    *)
(* system.db and, in every app process, a runner that claims a due row,    *)
(* runs the worker of its kind while a heartbeat refreshes the claim, and  *)
(* writes the outcome.  A claim whose heartbeat has been silent for        *)
(* StaleClaim is put back on the queue.                                    *)
(*                                                                         *)
(* Every SQL statement is a step of its own: a claim is a SELECT and then  *)
(* an UPDATE, and between any two statements another process may act, this *)
(* one may die, or fall silent for longer than StaleClaim and come back.   *)
(***************************************************************************)
EXTENDS Integers, FiniteSets

CONSTANTS
    Jobs,          \* rows that may be enqueued
    Runners,       \* app processes
    Registered,    \* Registered[r]: the jobs whose kind r has a worker for
    MaxAttempts,   \* MaxAttempts[j]: max_attempts of row j
    MaxUpsets      \* model bound: crashes, lost outcomes and silences

ASSUME JobsAssumption ==
    /\ Registered \in [Runners -> SUBSET Jobs]
    /\ MaxAttempts \in [Jobs -> Nat \ {0}]
    /\ MaxUpsets \in Nat

VARIABLES
    row,      \* the jobs table
    old,      \* rows whose attempted_at is older than StaleClaim
    runner,   \* what each process is doing
    silent,   \* processes whose statements do not reach the database
    slept,    \* history: some process has been silent that long
    upsets    \* crashes, lost outcomes and silences spent

quiet == <<silent, slept>>
jobVars == <<row, old, runner, silent, slept, upsets>>

State == {"absent", "available", "executing", "completed", "discarded"}
Row == [state : State, attempt : Nat, due : BOOLEAN]
Absent == [state |-> "absent", attempt |-> 0, due |-> FALSE]

\* A process between passes, with a candidate in hand, running a worker, or
\* about to write its outcome.  attempt is the copy it read with the candidate.
Idle == [stage |-> "idle"]
Busy == [stage : {"picked", "running", "worked", "failed", "rejected"},
         job : Jobs, attempt : Nat]
Runs(r, j) == runner[r] # Idle /\ runner[r].stage # "picked" /\ runner[r].job = j

-----------------------------------------------------------------------------
\* EnqueueOwned, and what EnqueuePeriodic inserts into the table.
Enqueue(j) ==
    /\ row[j].state = "absent"
    /\ row' = [row EXCEPT ![j] = [state |-> "available", attempt |-> 0, due |-> TRUE]]
    /\ UNCHANGED <<old, runner, quiet, upsets>>

\* Claim, the SELECT: an available row whose time has come.
Pick(r, j) ==
    /\ r \notin silent /\ runner[r] = Idle
    /\ row[j].state = "available" /\ row[j].due
    /\ runner' = [runner EXCEPT ![r] =
                     [stage |-> "picked", job |-> j, attempt |-> row[j].attempt]]
    /\ UNCHANGED <<row, old, quiet, upsets>>

\* Claim, the UPDATE ... WHERE id = ? AND state = 'available'.  A runner that
\* comes second goes back to polling.  A kind nobody registered in this process
\* fails at once, for good.
\* Mutant: the UPDATE does not look at the state again.
ClaimsAnything(j) == TRUE
Claims(j) == row[j].state = "available"
Take(r) ==
    /\ r \notin silent /\ runner[r] # Idle /\ runner[r].stage = "picked"
    /\ LET j == runner[r].job
       IN  IF Claims(j)
           THEN /\ row' = [row EXCEPT ![j].state = "executing", ![j].attempt = @ + 1]
                /\ old' = old \ {j}
                /\ runner' = [runner EXCEPT
                      ![r].stage = IF j \in Registered[r] THEN "running" ELSE "rejected",
                      ![r].attempt = @ + 1]
           ELSE /\ runner' = [runner EXCEPT ![r] = Idle]
                /\ UNCHANGED <<row, old>>
    /\ UNCHANGED <<quiet, upsets>>

\* The worker returns: done, an error or a panic, or a permanent error.
WorkerReturns(r) ==
    /\ runner[r] # Idle /\ runner[r].stage = "running"
    /\ \E outcome \in {"worked", "failed", "rejected"} :
          runner' = [runner EXCEPT ![r].stage = outcome]
    /\ UNCHANGED <<row, old, quiet, upsets>>

\* Complete: UPDATE ... SET state = 'completed' WHERE id = ?
Complete(r) ==
    /\ r \notin silent /\ runner[r] # Idle /\ runner[r].stage = "worked"
    /\ row' = [row EXCEPT ![runner[r].job].state = "completed"]
    /\ runner' = [runner EXCEPT ![r] = Idle]
    /\ UNCHANGED <<old, quiet, upsets>>

\* Fail: discard when the error is permanent or the attempts as this process
\* counted them have run out, else back off.  Both are UPDATE ... WHERE id = ?
Exhausted(r) == runner[r].attempt >= MaxAttempts[runner[r].job]
Fail(r) ==
    /\ r \notin silent /\ runner[r] # Idle
    /\ runner[r].stage \in {"failed", "rejected"}
    /\ IF runner[r].stage = "rejected" \/ Exhausted(r)
       THEN row' = [row EXCEPT ![runner[r].job].state = "discarded"]
       ELSE row' = [row EXCEPT ![runner[r].job].state = "available",
                               ![runner[r].job].due = FALSE]
    /\ runner' = [runner EXCEPT ![r] = Idle]
    /\ UNCHANGED <<old, quiet, upsets>>

\* The backoff is over.
BackoffElapses(j) ==
    /\ row[j].state = "available" /\ ~row[j].due
    /\ row' = [row EXCEPT ![j].due = TRUE]
    /\ UNCHANGED <<old, runner, quiet, upsets>>

\* Heartbeat: UPDATE ... SET attempted_at WHERE id = ? AND state = 'executing'.
\* keepClaimed beats only while the worker runs.
Heartbeat(r) ==
    /\ r \notin silent /\ runner[r] # Idle /\ runner[r].stage = "running"
    /\ row[runner[r].job].state = "executing"
    /\ runner[r].job \in old /\ old' = old \ {runner[r].job}
    /\ UNCHANGED <<row, runner, quiet, upsets>>

\* StaleClaim passes without a heartbeat.  A process that answers beats three
\* times as often, and writes its outcome within seconds.
GrowsOld(j) ==
    /\ row[j].attempt > 0 /\ j \notin old
    /\ \A r \in Runners : Runs(r, j) => r \in silent
    /\ old' = old \cup {j}
    /\ UNCHANGED <<row, runner, quiet, upsets>>

\* ReleaseStale, run between two passes: one statement over all claims whose
\* heartbeat stopped.
\* Mutant: it releases rows that nobody claims.
AbandonedAnyState == {j \in old : row[j].state # "absent"}
Abandoned == {j \in old : row[j].state = "executing"}
ReleaseStale(r) ==
    /\ r \notin silent /\ runner[r] = Idle
    /\ Abandoned # {}
    /\ row' = [j \in Jobs |-> IF j \in Abandoned
                              THEN [row[j] EXCEPT !.state = "available", !.due = TRUE]
                              ELSE row[j]]
    /\ UNCHANGED <<old, runner, quiet, upsets>>

-----------------------------------------------------------------------------
Upset == upsets < MaxUpsets /\ upsets' = upsets + 1

\* A process is killed and comes back.
Killed(r) ==
    /\ Upset
    /\ r \notin silent
    /\ runner' = [runner EXCEPT ![r] = Idle]
    /\ UNCHANGED <<row, old, quiet>>

\* The outcome cannot be written within outcomeWriteTimeout.
OutcomeLost(r) ==
    /\ Upset
    /\ runner[r] # Idle /\ runner[r].stage \in {"worked", "failed", "rejected"}
    /\ runner' = [runner EXCEPT ![r] = Idle]
    /\ UNCHANGED <<row, old, quiet>>

\* A machine sleeps, or a locked database fails every heartbeat.
FallSilent(r) ==
    /\ Upset
    /\ r \notin silent /\ silent' = silent \cup {r} /\ slept' = TRUE
    /\ UNCHANGED <<row, old, runner>>
Wake(r) ==
    /\ r \in silent /\ silent' = silent \ {r}
    /\ UNCHANGED <<row, old, runner, slept, upsets>>

JobsInit ==
    /\ row = [j \in Jobs |-> Absent]
    /\ old = {} /\ silent = {} /\ slept = FALSE
    /\ runner = [r \in Runners |-> Idle]
    /\ upsets = 0

\* A process at work: one statement of the pass it is in.
Serves(r) == (\E j \in Jobs : Pick(r, j)) \/ Take(r) \/ WorkerReturns(r)
                                           \/ Complete(r) \/ Fail(r)
\* Everything but a client's enqueue and the death of a process.
Work ==
    \/ \E j \in Jobs : BackoffElapses(j) \/ GrowsOld(j)
    \/ \E r \in Runners : \/ Serves(r) \/ Heartbeat(r) \/ ReleaseStale(r)
                          \/ OutcomeLost(r) \/ FallSilent(r) \/ Wake(r)
JobsNext ==
    \/ \E j \in Jobs : Enqueue(j)
    \/ \E r \in Runners : Killed(r)
    \/ Work

JobsSpec == JobsInit /\ [][JobsNext]_jobVars

\* Run polls without end, workers return, a silence ends and time passes.
\* Nothing makes a worker succeed, a process crash, or a client enqueue.
JobsFairness ==
    /\ \A j \in Jobs : WF_jobVars(BackoffElapses(j)) /\ WF_jobVars(GrowsOld(j))
    /\ \A r \in Runners :
          WF_jobVars(Serves(r)) /\ WF_jobVars(ReleaseStale(r)) /\ WF_jobVars(Wake(r))

-----------------------------------------------------------------------------
\* Every variable holds a value of its kind.  The attempts of a row are bounded:
\* past MaxAttempts, only an upset or a candidate another process holds in hand
\* buys one more.
JobsTypeOK ==
    /\ row \in [Jobs -> Row]
    /\ \A j \in Jobs : row[j].attempt <= MaxAttempts[j] + upsets + Cardinality(Runners) - 1
    /\ old \subseteq Jobs /\ silent \subseteq Runners /\ slept \in BOOLEAN
    /\ runner \in [Runners -> Busy \cup {Idle}]
    /\ upsets \in 0..MaxUpsets

\* "Exactly one runner can move a row out of available even when several are
\* polling" (Claim), and a live claim is not taken away (HeartbeatInterval): no
\* two processes run the worker of one job at the same time, unless one of them
\* outlasted StaleClaim while it was alive.
OneAtATime == ~slept => \A r, q \in Runners : \A j \in Jobs :
                           Runs(r, j) /\ Runs(q, j) => r = q

\* "Run a second time, which is the one thing this package exists to prevent"
\* (outcomeContext): a completed job stays completed, with the same exception.
CompletedStays ==
    [][~slept' => \A j \in Jobs : row[j].state = "completed"
                                     => row'[j].state = "completed"]_jobVars
=============================================================================
