---------------------------- MODULE WriteBuffer ----------------------------
(***************************************************************************)
(* The write buffer in front of the outbox (internal/ingest: buffer.go,    *)
(* the durable path of handler.go, Outbox.Send and Direct.Send seen as     *)
(* Transports, and the shutdown order of cli/runtime.go and service.go).   *)
(*                                                                         *)
(* A public request appends its event and waits for the flush that makes   *)
(* it durable.  Flushes are started by the ticker, by a full batch, by     *)
(* every request that has waited one interval, and at shutdown; a mutex    *)
(* serialises them, while appends go on.  Two requests may carry the same  *)
(* idempotency UUID, and the table of waiters is keyed by UUID.            *)
(***************************************************************************)
EXTENDS Integers, FiniteSets

CONSTANTS
    Calls,         \* public requests (each carries one event)
    UuidOf,        \* the idempotency UUID of each request's event
    Shards,        \* the partitions an event can be derived for
    Size           \* the batch size that forces a flush

Uuids == {UuidOf[c] : c \in Calls}
Flushers == Calls \cup {"run", "sized", "stop"}

ASSUME BufferAssumption ==
    /\ {"run", "sized", "stop", "nobody"} \cap Calls = {}
    /\ UuidOf \in [Calls -> Uuids]
    /\ Size \in Nat \ {0}

VARIABLES
    call,       \* where each request is
    shard,      \* the partition its event was derived for
    answer,     \* the buffered channel its flush answers on
    pending,    \* b.pending, as the requests whose events it holds
    waiters,    \* b.waiters, as the requests registered under their UUID
    queued,     \* goroutines blocked on the flushing mutex
    active,     \* the flush that holds it
    scheduled,  \* a size-triggered flush is on its way
    durable,    \* UUIDs the transport has committed
    phantom,    \* history: UUIDs the outbox reported durable and rolled back
    run,        \* Buffer.Run: ticking, in its final flush, returned
    phase       \* the process

transport == <<durable, phantom>>
vars == <<call, shard, answer, pending, waiters, queued, active, scheduled,
          transport, run, phase>>

CallState == {"new", "waiting", "flushing", "again", "ok", "err", "left"}
Waiting(c) == call[c] \in {"waiting", "again"}

\* The batch of a flush still to send, the group last sent, its outcome.
NoFlush == [by |-> "nobody", rest |-> {}, group |-> {}, named |-> {},
            failed |-> FALSE, stage |-> "free"]
Flush == [by : Flushers \cup {"nobody"}, rest : SUBSET Calls,
          group : SUBSET Calls, named : SUBSET Uuids, failed : BOOLEAN,
          stage : {"free", "send", "requeue", "notify"}]

Same(c, d) == UuidOf[c] = UuidOf[d]
IsBusy(f) == f \in queued \/ active.by = f

-----------------------------------------------------------------------------
(***************************************************************************)
(* AddAndWait.                                                             *)
(***************************************************************************)

\* add: append, register the waiter, and start a flush if the batch is full
\* and none is scheduled.
Add(c) ==
    /\ phase \in {"up", "signalled"} /\ call[c] = "new"
    /\ call' = [call EXCEPT ![c] = "waiting"]
    /\ \E s \in Shards : shard' = [shard EXCEPT ![c] = s]
    /\ pending' = pending \cup {c}
    /\ waiters' = waiters \cup {c}
    /\ IF Cardinality(pending') >= Size /\ ~scheduled
       THEN scheduled' = TRUE /\ queued' = queued \cup {"sized"}
       ELSE UNCHANGED <<scheduled, queued>>
    /\ UNCHANGED <<answer, active, transport, run, phase>>

\* An interval passes: the request starts a flush of its own.
TimerFires(c) ==
    /\ call[c] = "waiting"
    /\ call' = [call EXCEPT ![c] = "flushing"]
    /\ queued' = queued \cup {c}
    /\ UNCHANGED <<answer, pending, waiters, active, scheduled, transport, run,
                   phase, shard>>

\* 202, or 503 when the write failed.
Receive(c) ==
    /\ Waiting(c) /\ answer[c] # "none"
    /\ call' = [call EXCEPT ![c] = IF answer[c] = "nil" THEN "ok" ELSE "err"]
    /\ UNCHANGED <<answer, pending, waiters, queued, active, scheduled,
                   transport, run, phase, shard>>

\* The client hangs up.  Its event and its waiter stay behind.
Leave(c) ==
    /\ Waiting(c)
    /\ call' = [call EXCEPT ![c] = "left"]
    /\ UNCHANGED <<answer, pending, waiters, queued, active, scheduled,
                   transport, run, phase, shard>>

-----------------------------------------------------------------------------
(***************************************************************************)
(* flush.                                                                  *)
(***************************************************************************)

\* A flush returns to whoever started it.
Returned(f) ==
    /\ call' = [c \in Calls |-> IF c = f THEN "again" ELSE call[c]]
    /\ run' = IF f = "run" /\ run = "final" THEN "done" ELSE run
    /\ phase' = IF f = "stop" THEN "flushed" ELSE phase

\* The ticker's context has no deadline; it ends with the process's.
Expires(f) == f = "run" => phase # "up"

\* What detaching, or an expired flush, leaves in b.pending.
\* Mutant: an expired flush empties it too.
LostPending == {}
AfterDetach == {}
AfterExpiry == pending

\* The mutex is free, but the caller's deadline passed while it waited.
FlushExpired(f) ==
    /\ f \in queued /\ active = NoFlush /\ Expires(f)
    /\ queued' = queued \ {f}
    /\ pending' = AfterExpiry
    /\ Returned(f)
    /\ UNCHANGED <<answer, waiters, active, scheduled, transport, shard>>

\* Detach everything that is pending.
Detach(f) ==
    /\ f \in queued /\ active = NoFlush
    /\ queued' = queued \ {f}
    /\ pending' = AfterDetach
    /\ IF pending = {}
       THEN Returned(f) /\ UNCHANGED active
       ELSE /\ active' = [NoFlush EXCEPT !.by = f, !.rest = pending,
                                         !.stage = "send"]
            /\ UNCHANGED <<call, run, phase>>
    /\ UNCHANGED <<answer, waiters, scheduled, transport, shard>>

\* The transport stored these events of a group and named those, and the flush
\* goes on to give the rest back.
Failed(group, stored, named) ==
    /\ durable' = durable \cup {UuidOf[c] : c \in stored}
    /\ active' = [active EXCEPT !.rest = @ \ group, !.group = group,
                     !.named = {UuidOf[c] : c \in named}, !.failed = TRUE,
                     !.stage = "requeue"]

\* Mutant: the direct writer names the events of an account before its COMMIT.
NamedEarly(group) ==
    /\ \E stored \in SUBSET group : \E named \in SUBSET group :
          Failed(group, stored, named)
    /\ UNCHANGED phantom

\* What a Transport reports when Send fails.  The direct writer names events of
\* accounts it committed; a failed COMMIT of the outbox names nothing, even if it
\* took effect.  But an INSERT that fails in the outbox names the events inserted
\* before it, which the rollback then undoes.
SendFails(group) ==
    \/ /\ \E stored \in SUBSET group : \E named \in SUBSET stored :
             Failed(group, stored, named)
       /\ UNCHANGED phantom
    \/ \E named \in SUBSET group \ {group} :
          /\ Failed(group, {}, named)
          /\ phantom' = phantom \cup {UuidOf[c] : c \in named}

\* transport.Send of the events of one shard.
Send ==
    /\ active.stage = "send"
    /\ \E s \in {shard[c] : c \in active.rest} :
          LET group == {c \in active.rest : shard[c] = s}
          IN  \/ /\ durable' = durable \cup {UuidOf[c] : c \in group}
                 /\ active' = [active EXCEPT !.rest = @ \ group, !.group = group,
                                  !.named = {}, !.failed = FALSE,
                                  !.stage = "notify"]
                 /\ UNCHANGED phantom
              \/ SendFails(group)
    /\ UNCHANGED <<call, answer, pending, waiters, queued, scheduled, run,
                   phase, shard>>

\* Uncommitted events without a waiter go back to the buffer.
Requeue ==
    /\ active.stage = "requeue"
    /\ pending' = pending \cup
          {c \in active.group : /\ UuidOf[c] \notin active.named
                                /\ \A w \in waiters : ~Same(w, c)}
    /\ active' = [active EXCEPT !.stage = "notify"]
    /\ UNCHANGED <<call, answer, waiters, queued, scheduled, transport, run,
                   phase, shard>>

\* Everybody who waits for a UUID of the group hears the outcome.
Succeeded(c) == ~active.failed \/ UuidOf[c] \in active.named
Told == {w \in waiters : \E c \in active.group : Same(w, c)}
Notify ==
    /\ active.stage = "notify"
    /\ answer' = [c \in Calls |->
          IF c \in Told THEN (IF Succeeded(c) THEN "nil" ELSE "err")
                        ELSE answer[c]]
    /\ waiters' = waiters \ Told
    /\ IF active.rest = {}
       THEN active' = NoFlush /\ Returned(active.by)
       ELSE /\ active' = [active EXCEPT !.group = {}, !.stage = "send"]
            /\ UNCHANGED <<call, run, phase>>
    /\ UNCHANGED <<pending, queued, scheduled, transport, shard>>

\* The goroutine of a size-triggered flush ends.
SizedReturns ==
    /\ scheduled /\ ~IsBusy("sized")
    /\ scheduled' = FALSE
    /\ UNCHANGED <<call, answer, pending, waiters, queued, active, transport,
                   run, phase, shard>>

-----------------------------------------------------------------------------
(***************************************************************************)
(* Run, and the end of the process.                                        *)
(***************************************************************************)

\* (A tick that beats the cancellation would only start a flush that expires.)
Tick ==
    /\ phase = "up" /\ run = "ticking" /\ ~IsBusy("run")
    /\ queued' = queued \cup {"run"}
    /\ UNCHANGED <<call, answer, pending, waiters, active, scheduled,
                   transport, run, phase, shard>>

\* SIGTERM cancels the context of Run at once; the listener goes on taking
\* requests until the drain is over.
Signal ==
    /\ phase = "up" /\ phase' = "signalled"
    /\ UNCHANGED <<call, answer, pending, waiters, queued, active, scheduled,
                   transport, run, shard>>

RunFinal ==
    /\ phase \in {"signalled", "closed"} /\ run = "ticking" /\ ~IsBusy("run")
    /\ run' = "final"
    /\ queued' = queued \cup {"run"}
    /\ UNCHANGED <<call, answer, pending, waiters, active, scheduled,
                   transport, phase, shard>>

\* server.Shutdown returns, whether or not every handler has finished.
CloseListener ==
    /\ phase = "signalled" /\ phase' = "closed"
    /\ UNCHANGED <<call, answer, pending, waiters, queued, active, scheduled,
                   transport, run, shard>>

\* Service.Stop, once Run has returned.
StopFlush ==
    /\ phase = "closed" /\ run = "done" /\ ~IsBusy("stop")
    /\ queued' = queued \cup {"stop"}
    /\ UNCHANGED <<call, answer, pending, waiters, active, scheduled,
                   transport, run, phase, shard>>

\* The process ends, in good order or by a crash.  Open connections close.
Exit ==
    /\ phase' = "down"
    /\ call' = [c \in Calls |-> IF call[c] \in {"waiting", "flushing", "again"}
                                THEN "left" ELSE call[c]]
    /\ pending' = {} /\ waiters' = {} /\ queued' = {} /\ active' = NoFlush
    /\ scheduled' = FALSE
    /\ UNCHANGED <<answer, transport, run, shard>>
Finish == phase = "flushed" /\ Exit
Crash == phase # "down" /\ Exit

-----------------------------------------------------------------------------
Init ==
    /\ call = [c \in Calls |-> "new"]
    /\ shard = [c \in Calls |-> "none"]
    /\ answer = [c \in Calls |-> "none"]
    /\ pending = {} /\ waiters = {} /\ queued = {} /\ active = NoFlush
    /\ scheduled = FALSE
    /\ durable = {} /\ phantom = {}
    /\ run = "ticking"
    /\ phase = "up"

Next ==
    \/ \E c \in Calls : Add(c) \/ TimerFires(c) \/ Receive(c) \/ Leave(c)
    \/ \E f \in Flushers : FlushExpired(f) \/ Detach(f)
    \/ Send \/ Requeue \/ Notify \/ SizedReturns
    \/ Tick \/ Signal \/ RunFinal \/ CloseListener \/ StopFlush
    \/ Crash

Spec == Init /\ [][Next]_vars

\* Timers fire, a channel that holds an answer is read, the ticker ticks and a
\* process that began to stop goes on.  The mutex is fair: whoever waits for it
\* gets it in the end.  Nothing makes a write succeed, a client hang up, or the
\* process stop.
Fairness ==
    /\ \A c \in Calls : WF_vars(TimerFires(c)) /\ WF_vars(Receive(c))
    /\ \A f \in Flushers : SF_vars(FlushExpired(f) \/ Detach(f))
    /\ WF_vars(Send) /\ WF_vars(Requeue) /\ WF_vars(Notify)
    /\ WF_vars(Tick) /\ WF_vars(RunFinal)
    /\ WF_vars(CloseListener) /\ WF_vars(StopFlush) /\ WF_vars(Finish)
FairSpec == Spec /\ Fairness

-----------------------------------------------------------------------------
(***************************************************************************)
(* Properties.                                                             *)
(***************************************************************************)

\* Every variable holds a value of its kind, and no event is both pending and on
\* its way to the transport: two flushes never send the same append.
TypeOK ==
    /\ call \in [Calls -> CallState]
    /\ answer \in [Calls -> {"none", "nil", "err"}]
    /\ pending \subseteq Calls /\ waiters \subseteq Calls
    /\ pending \cap active.rest = {}
    /\ queued \subseteq Flushers
    /\ active \in Flush
    /\ scheduled \in BOOLEAN
    /\ shard \in [Calls -> Shards \cup {"none"}]
    /\ durable \subseteq Uuids /\ phantom \subseteq Uuids
    /\ run \in {"ticking", "final", "done"}
    /\ phase \in {"up", "signalled", "closed", "flushed", "down"}

\* "A 202 is a durability promise: a process crash after the response must find
\* the event in SQLite" (AddAndWait).  The one exception is an event that the
\* outbox itself reported durable in a transaction it then rolled back.
AckDurable == \A c \in Calls : call[c] = "ok" => UuidOf[c] \in durable \cup phantom

\* Nobody waits for nothing: as long as a waiter is registered, an event with
\* its UUID is pending or in the part of a flush that has not notified yet.
WaiterCovered ==
    \A w \in waiters : \E c \in pending \cup active.rest \cup active.group : Same(w, c)

\* Every request is answered, or its connection ends ("a quiet request starts
\* one after the normal interval so it cannot wait forever", AddAndWait).
Answered == \A c \in Calls : (call[c] = "waiting") ~> (call[c] \in {"ok", "err", "left"})
=============================================================================
