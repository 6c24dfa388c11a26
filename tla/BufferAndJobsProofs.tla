------------------------- MODULE BufferAndJobsProofs -------------------------
(***************************************************************************)
(* Theorems about the two pieces of an app process that hold work for      *)
(* later, the write buffer (WriteBuffer) and the job queue with its        *)
(* schedulers (JobQueue, Cron), for every value of their constants.  They  *)
(* share no state: what one part says of the other is nothing, and each    *)
(* argument stands by itself.                                              *)
(***************************************************************************)
EXTENDS WriteBuffer, Cron, TLAPS

-----------------------------------------------------------------------------
(***************************************************************************)
(* A 202 is durable.  AckDurable is not inductive: the answer may have     *)
(* been sent long before the request reads it, and the outcome of a group  *)
(* is told some steps after Send.  So what has been answered, and what the *)
(* active flush is about to answer, must be durable already.               *)
(***************************************************************************)
Vouched == durable \cup phantom   \* what has been reported durable, or is
AnswersDurable == \A c \in Calls : answer[c] = "nil" => UuidOf[c] \in Vouched
NamedDurable == active.named \subseteq Vouched
SentDurable == active.stage \in {"requeue", "notify"} /\ ~active.failed
                  => \A c \in active.group : UuidOf[c] \in Vouched
Shape == /\ active \in Flush /\ pending \subseteq Calls
         /\ answer \in [Calls -> {"none", "nil", "err"}]
         /\ call \in [Calls -> CallState]
DurableInv == Shape /\ AckDurable /\ AnswersDurable /\ NamedDurable /\ SentDurable

\* Where the transport's promises are kept.
USE DEF transport, Vouched

LEMMA NoFlushShape == NoFlush \in Flush
BY DEF NoFlush, Flush

LEMMA InitDurable == Init => DurableInv
BY NoFlushShape DEF Init, DurableInv, Shape, AckDurable, AnswersDurable,
   NamedDurable, SentDurable, NoFlush, CallState

\* Steps that touch neither the active flush nor an answer.
LEMMA CallsDurable ==
    ASSUME DurableInv, NEW c \in Calls,
           Add(c) \/ TimerFires(c) \/ Receive(c) \/ Leave(c)
    PROVE  DurableInv'
<1>1. Shape'
  BY DEF DurableInv, Shape, Add, TimerFires, Receive, Leave, CallState
<1>2. AckDurable'
  BY DEF DurableInv, Shape, AckDurable, AnswersDurable, Add, TimerFires, Receive,
     Leave
<1>3. UNCHANGED <<answer, durable, phantom, active>>
  BY DEF Add, TimerFires, Receive, Leave
<1> QED BY <1>1, <1>2, <1>3 DEF DurableInv, AnswersDurable, NamedDurable, SentDurable

\* Returning to the caller acknowledges nothing.
LEMMA ReturnedDurable ==
    ASSUME DurableInv, NEW f, Returned(f)
    PROVE  /\ call' \in [Calls -> CallState]
           /\ \A c \in Calls : call'[c] = "ok" => UuidOf[c] \in Vouched
BY DEF Returned, DurableInv, Shape, CallState, AckDurable

LEMMA FlushStartDurable ==
    ASSUME DurableInv, NEW f \in Flushers, FlushExpired(f) \/ Detach(f)
    PROVE  DurableInv'
<1>1. UNCHANGED <<answer, durable, phantom>>
  BY DEF FlushExpired, Detach
<1>2. pending' \subseteq Calls
  BY DEF FlushExpired, Detach, AfterExpiry, AfterDetach, DurableInv, Shape
<1>3. /\ call' \in [Calls -> CallState]
      /\ \A c \in Calls : call'[c] = "ok" => UuidOf[c] \in Vouched
  <2>1. Returned(f) \/ UNCHANGED call
    BY DEF FlushExpired, Detach
  <2> QED BY <2>1, ReturnedDurable DEF DurableInv, Shape, AckDurable
<1>4. active' = active \/ active' = [NoFlush EXCEPT !.by = f, !.rest = pending,
                                                    !.stage = "send"]
  BY DEF FlushExpired, Detach
<1>5. CASE active' = active
  BY <1>1, <1>2, <1>3, <1>5 DEF DurableInv, Shape, AckDurable, AnswersDurable,
     NamedDurable, SentDurable
<1>6. CASE active' = [NoFlush EXCEPT !.by = f, !.rest = pending, !.stage = "send"]
  <2>1. active' \in Flush /\ active'.named = {} /\ active'.stage = "send"
    BY <1>6 DEF NoFlush, Flush, DurableInv, Shape
  <2> QED BY <1>1, <1>2, <1>3, <2>1 DEF DurableInv, Shape, AckDurable,
          AnswersDurable, NamedDurable, SentDurable
<1> QED BY <1>4, <1>5, <1>6

\* The transport names what it stored, or what it rolls back.
LEMMA SendDurable ==
    ASSUME DurableInv, Send
    PROVE  DurableInv'
<1>1. UNCHANGED <<call, answer, pending>>
  BY DEF Send
<1>2. PICK s : s \in {shard[c] : c \in active.rest} /\
          LET group == {c \in active.rest : shard[c] = s}
          IN  \/ /\ durable' = durable \cup {UuidOf[c] : c \in group}
                 /\ active' = [active EXCEPT !.rest = @ \ group, !.group = group,
                                  !.named = {}, !.failed = FALSE,
                                  !.stage = "notify"]
                 /\ UNCHANGED phantom
              \/ SendFails(group)
  BY DEF Send
<1> DEFINE group == {c \in active.rest : shard[c] = s}
<1>3. active \in Flush /\ group \subseteq active.rest /\ group \subseteq Calls
  BY DEF DurableInv, Shape, Flush
<1>4. \A c \in Calls : UuidOf[c] \in Uuids
  BY DEF Uuids
<1> HIDE DEF group
<1>5. CASE /\ durable' = durable \cup {UuidOf[c] : c \in group}
           /\ active' = [active EXCEPT !.rest = @ \ group, !.group = group,
                            !.named = {}, !.failed = FALSE, !.stage = "notify"]
           /\ UNCHANGED phantom
  <2>1. active' \in Flush /\ active'.group = group /\ active'.named = {}
    BY <1>3, <1>5 DEF Flush
  <2> QED BY <1>1, <1>5, <2>1 DEF DurableInv, Shape, AckDurable, AnswersDurable,
          NamedDurable, SentDurable
<1>6. CASE SendFails(group)
  <2>1. PICK stored \in SUBSET group, named \in SUBSET group :
          /\ \/ named \subseteq stored /\ UNCHANGED phantom
             \/ phantom' = phantom \cup {UuidOf[c] : c \in named}
          /\ durable' = durable \cup {UuidOf[c] : c \in stored}
          /\ active' = [active EXCEPT !.rest = @ \ group, !.group = group,
                           !.named = {UuidOf[c] : c \in named}, !.failed = TRUE,
                           !.stage = "requeue"]
    BY <1>6, {} \in SUBSET group DEF SendFails, Failed
  <2>2. {UuidOf[c] : c \in named} \subseteq Uuids
    BY <1>3, <1>4
  <2>3. active' \in Flush /\ active'.failed
        /\ active'.named = {UuidOf[c] : c \in named}
    BY <1>3, <2>1, <2>2 DEF Flush
  <2>4. Vouched \subseteq Vouched' /\ active'.named \subseteq Vouched'
    BY <2>1, <2>3 DEF Vouched, NamedDurable
  <2> QED BY <1>1, <2>3, <2>4 DEF DurableInv, Shape, AckDurable, AnswersDurable,
          NamedDurable, SentDurable
<1> QED BY <1>2, <1>5, <1>6 DEF group

LEMMA RequeueDurable ==
    ASSUME DurableInv, Requeue
    PROVE  DurableInv'
<1>1. active \in Flush /\ active.group \subseteq Calls
  BY DEF DurableInv, Shape, Flush
<1>2. /\ active.stage = "requeue" /\ active' = [active EXCEPT !.stage = "notify"]
      /\ UNCHANGED <<call, answer, durable, phantom>>
  BY DEF Requeue
<1>3. /\ active' \in Flush /\ active'.named = active.named
      /\ active'.failed = active.failed /\ active'.group = active.group
  BY <1>1, <1>2 DEF Flush
<1>4. pending' \subseteq Calls
  BY <1>1 DEF Requeue, DurableInv, Shape
<1> QED BY <1>2, <1>3, <1>4 DEF DurableInv, Shape, AckDurable, AnswersDurable,
        NamedDurable, SentDurable

LEMMA NotifyDurable ==
    ASSUME DurableInv, Notify
    PROVE  DurableInv'
<1>1. active \in Flush /\ active.stage = "notify"
  BY DEF DurableInv, Shape, Notify
<1>2. /\ answer' = [c \in Calls |->
             IF c \in Told THEN (IF Succeeded(c) THEN "nil" ELSE "err")
                           ELSE answer[c]]
      /\ UNCHANGED <<pending, durable, phantom>>
  BY DEF Notify
<1>3. answer' \in [Calls -> {"none", "nil", "err"}]
  BY <1>2 DEF DurableInv, Shape
<1>4. ASSUME NEW c \in Calls, c \in Told, Succeeded(c)
      PROVE  UuidOf[c] \in Vouched
  <2>1. PICK d \in active.group : UuidOf[c] = UuidOf[d]
    BY <1>4 DEF Told, Same
  <2>2. CASE ~active.failed
    BY <1>1, <2>1, <2>2 DEF DurableInv, SentDurable
  <2>3. CASE UuidOf[c] \in active.named
    BY <2>3 DEF DurableInv, NamedDurable
  <2> QED BY <1>4, <2>2, <2>3 DEF Succeeded
<1>5. AnswersDurable'
  BY <1>2, <1>4 DEF AnswersDurable, DurableInv
<1>6. Returned(active.by) \/ UNCHANGED call
  BY DEF Notify
<1>7. /\ call' \in [Calls -> CallState]
      /\ \A c \in Calls : call'[c] = "ok" => UuidOf[c] \in Vouched
  BY <1>6, ReturnedDurable DEF DurableInv, Shape, AckDurable
<1>8. \/ active' = NoFlush
      \/ active' = [active EXCEPT !.group = {}, !.stage = "send"]
  BY DEF Notify
<1>9. /\ active' \in Flush /\ active'.named \subseteq Vouched
      /\ active'.stage \in {"free", "send"}
  <2>1. CASE active' = NoFlush
    BY <2>1, NoFlushShape DEF NoFlush
  <2>2. CASE active' = [active EXCEPT !.group = {}, !.stage = "send"]
    <3>1. active' \in Flush /\ active'.named = active.named /\ active'.stage = "send"
      BY <1>1, <2>2 DEF Flush
    <3> QED BY <3>1 DEF DurableInv, NamedDurable
  <2> QED BY <1>8, <2>1, <2>2
<1> QED BY <1>2, <1>3, <1>5, <1>7, <1>9 DEF DurableInv, Shape, AckDurable,
        NamedDurable, SentDurable

LEMMA ProcessDurable ==
    ASSUME DurableInv,
           SizedReturns \/ Tick \/ Signal \/ RunFinal \/ CloseListener
              \/ StopFlush \/ Crash
    PROVE  DurableInv'
<1>1. CASE Crash
  <2>1. /\ call' \in [Calls -> CallState] /\ pending' = {} /\ active' = NoFlush
        /\ \A c \in Calls : call'[c] = "ok" => call[c] = "ok"
        /\ UNCHANGED <<answer, durable, phantom>>
    BY <1>1 DEF Crash, Exit, DurableInv, Shape, CallState
  <2> QED BY <2>1, NoFlushShape DEF DurableInv, Shape, AckDurable, AnswersDurable,
          NamedDurable, SentDurable, NoFlush
<1>2. CASE ~Crash
  <2>1. UNCHANGED <<call, answer, pending, active, durable, phantom>>
    BY <1>2 DEF SizedReturns, Tick, Signal, RunFinal, CloseListener, StopFlush,
       transport
  <2> QED BY <2>1 DEF DurableInv, Shape, AckDurable, AnswersDurable, NamedDurable,
          SentDurable
<1> QED BY <1>1, <1>2

\* A 202 is durable, for any number of requests, UUIDs, partitions and batch
\* sizes, across every interleaving of appends, flushes, expiries, shutdown and
\* crashes (AddAndWait, flush, notify), except for what the outbox itself reported
\* durable and rolled back.
THEOREM AcknowledgedIsDurable == Spec => []AckDurable
<1>1. DurableInv /\ [Next]_vars => DurableInv'
  <2> SUFFICES ASSUME DurableInv, [Next]_vars PROVE DurableInv'
    OBVIOUS
  <2>1. CASE \E c \in Calls : Add(c) \/ TimerFires(c) \/ Receive(c) \/ Leave(c)
    BY <2>1, CallsDurable
  <2>2. CASE \E f \in Flushers : FlushExpired(f) \/ Detach(f)
    BY <2>2, FlushStartDurable
  <2>3. CASE Send \/ Requeue \/ Notify
    BY <2>3, SendDurable, RequeueDurable, NotifyDurable
  <2>4. CASE SizedReturns \/ Tick \/ Signal \/ RunFinal \/ CloseListener
                \/ StopFlush \/ Crash
    BY <2>4, ProcessDurable
  <2>5. CASE UNCHANGED vars
    BY <2>5 DEF vars, DurableInv, Shape, AckDurable, AnswersDurable, NamedDurable,
       SentDurable
  <2> QED BY <2>1, <2>2, <2>3, <2>4, <2>5 DEF Next
<1>2. DurableInv => AckDurable
  BY DEF DurableInv
<1> QED BY <1>1, <1>2, InitDurable, PTL DEF Spec

HIDE DEF transport, Vouched

-----------------------------------------------------------------------------
(***************************************************************************)
(* Nobody waits for nothing.  What makes it inductive: the group of a      *)
(* flush is empty while it sends, so the next group does not replace one   *)
(* that has not notified.  And an append is in one place only: an event    *)
(* that is pending or on its way belongs to a call that is not new.        *)
(***************************************************************************)
Types == /\ TypeOK
         /\ active.group \cap active.rest = {}
         /\ active.group \cap pending = {} \/ active.stage = "notify"
         /\ active.stage \in {"free", "send"} => active.group = {}
         /\ \A c \in pending \cup active.rest \cup active.group : call[c] # "new"
CoverInv == Types /\ WaiterCovered

LEMMA FlushFields ==
    ASSUME active \in Flush
    PROVE  /\ active.by \in Flushers \cup {"nobody"}
           /\ active.rest \subseteq Calls /\ active.group \subseteq Calls
           /\ active.named \subseteq Uuids /\ active.failed \in BOOLEAN
BY DEF Flush

LEMMA InitCovered == Init => CoverInv
<1> SUFFICES ASSUME Init PROVE CoverInv
  OBVIOUS
<1>1. active \in Flush /\ active.rest = {} /\ active.group = {} /\ active.stage = "free"
  BY NoFlushShape DEF Init, NoFlush
<1>2. TypeOK
  BY <1>1 DEF Init, TypeOK, CallState
<1> QED BY <1>1, <1>2 DEF Init, CoverInv, Types, WaiterCovered

LEMMA CallsCovered ==
    ASSUME CoverInv, NEW c \in Calls,
           Add(c) \/ TimerFires(c) \/ Receive(c) \/ Leave(c)
    PROVE  CoverInv'
<1> USE FlushFields DEF CoverInv, Types, TypeOK
<1>1. CASE Add(c)
  <2>1. /\ call' = [call EXCEPT ![c] = "waiting"] /\ call[c] = "new"
        /\ pending' = pending \cup {c} /\ waiters' = waiters \cup {c}
        /\ UNCHANGED <<answer, active, durable, phantom, run, phase>>
        /\ scheduled' \in BOOLEAN /\ queued' \subseteq Flushers
    BY <1>1 DEF Add, Flushers, transport
  <2>2. c \notin pending \cup active.rest \cup active.group
    BY <2>1
  <2>s. shard' \in [Calls -> Shards \cup {"none"}]
    BY <1>1 DEF Add
  <2>3. call' \in [Calls -> CallState] /\ \A d \in Calls \ {c} : call'[d] = call[d]
    BY <2>1 DEF CallState
  <2>4. \A d \in pending \cup active.rest \cup active.group : call'[d] # "new"
    BY <2>2, <2>3
  <2>5. call'[c] # "new"
    BY <2>1
  <2>6. WaiterCovered'
    BY <2>1 DEF WaiterCovered, Same
  <2>7. TypeOK'
    BY <2>1, <2>2, <2>3, <2>s
  <2> QED BY <2>1, <2>2, <2>4, <2>5, <2>6, <2>7
<1>2. CASE ~Add(c)
  <2>1. /\ UNCHANGED <<answer, pending, waiters, active, scheduled, durable, phantom, shard, run,
                       phase>>
        /\ queued' \subseteq Flushers
        /\ call' \in [Calls -> CallState]
        /\ \A d \in Calls : call[d] # "new" => call'[d] # "new"
    BY <1>2 DEF TimerFires, Receive, Leave, CallState, Flushers, transport
  <2>2. WaiterCovered'
    BY <2>1 DEF WaiterCovered, Same
  <2> QED BY <2>1, <2>2
<1> QED BY <1>1, <1>2

\* A flush that returns changes no more than its caller's state.
LEMMA ReturnedTypes ==
    ASSUME Types, NEW f, Returned(f) \/ UNCHANGED <<call, run, phase>>
    PROVE  /\ call' \in [Calls -> CallState]
           /\ \A c \in Calls : call[c] # "new" => call'[c] # "new"
           /\ run' \in {"ticking", "final", "done"}
           /\ phase' \in {"up", "signalled", "closed", "flushed", "down"}
BY DEF Returned, Types, TypeOK, CallState

LEMMA FlushStartCovered ==
    ASSUME CoverInv, NEW f \in Flushers, FlushExpired(f) \/ Detach(f)
    PROVE  CoverInv'
<1> USE FlushFields DEF CoverInv, Types, TypeOK
<1>1. /\ UNCHANGED <<answer, waiters, scheduled, durable, phantom, shard>> /\ queued' \subseteq Flushers
      /\ active = NoFlush
      /\ Returned(f) \/ UNCHANGED <<call, run, phase>>
  BY DEF FlushExpired, Detach, transport
<1>2. /\ call' \in [Calls -> CallState]
      /\ \A c \in Calls : call[c] # "new" => call'[c] # "new"
      /\ run' \in {"ticking", "final", "done"}
      /\ phase' \in {"up", "signalled", "closed", "flushed", "down"}
  BY <1>1, ReturnedTypes
<1>3. \/ UNCHANGED <<pending, active>>
      \/ pending' = {} /\ active' = [NoFlush EXCEPT !.by = f, !.rest = pending,
                                                    !.stage = "send"]
  BY DEF FlushExpired, Detach, AfterExpiry, AfterDetach, NoFlush
<1>4. CASE UNCHANGED <<pending, active>>
  BY <1>1, <1>2, <1>4 DEF WaiterCovered, Same
<1>5. CASE pending' = {} /\ active' = [NoFlush EXCEPT !.by = f, !.rest = pending,
                                                      !.stage = "send"]
  <2>1. /\ active' \in Flush /\ active'.group = {} /\ active'.rest = pending
        /\ active'.stage = "send"
    BY <1>5 DEF NoFlush, Flush
  <2>2. WaiterCovered'
    BY <1>1, <1>5, <2>1 DEF WaiterCovered, Same, NoFlush
  <2> QED BY <1>1, <1>2, <1>5, <2>1, <2>2
<1> QED BY <1>3, <1>4, <1>5

LEMMA SendCovered ==
    ASSUME CoverInv, Send
    PROVE  CoverInv'
<1> USE FlushFields DEF CoverInv, Types, TypeOK
<1>1. /\ UNCHANGED <<call, shard, answer, pending, waiters, queued, scheduled, run,
                     phase>>
      /\ active.stage = "send"
  BY DEF Send
<1>2. PICK group \in SUBSET active.rest, stored \in SUBSET Calls :
          /\ durable' = durable \cup {UuidOf[c] : c \in stored}
          /\ phantom' \subseteq phantom \cup Uuids
          /\ \E named \in SUBSET Uuids, failed \in BOOLEAN,
                stage \in {"requeue", "notify"} :
                active' = [active EXCEPT !.rest = @ \ group, !.group = group,
                              !.named = named, !.failed = failed, !.stage = stage]
  <2>1. PICK s : s \in {shard[c] : c \in active.rest} /\
          LET group == {c \in active.rest : shard[c] = s}
          IN  \/ /\ durable' = durable \cup {UuidOf[c] : c \in group}
                 /\ active' = [active EXCEPT !.rest = @ \ group, !.group = group,
                                  !.named = {}, !.failed = FALSE,
                                  !.stage = "notify"]
                 /\ UNCHANGED phantom
              \/ SendFails(group)
    BY DEF Send
  <2> DEFINE G == {c \in active.rest : shard[c] = s}
  <2>2. G \in SUBSET active.rest
    OBVIOUS
  <2> HIDE DEF G
  <2>3. CASE /\ durable' = durable \cup {UuidOf[c] : c \in G}
             /\ active' = [active EXCEPT !.rest = @ \ G, !.group = G,
                              !.named = {}, !.failed = FALSE, !.stage = "notify"]
             /\ UNCHANGED phantom
    BY <2>2, <2>3
  <2>4. CASE SendFails(G)
    <3>1. PICK stored \in SUBSET G, named \in SUBSET G :
            /\ durable' = durable \cup {UuidOf[c] : c \in stored}
            /\ phantom' \subseteq phantom \cup {UuidOf[c] : c \in named}
            /\ active' = [active EXCEPT !.rest = @ \ G, !.group = G,
                             !.named = {UuidOf[c] : c \in named}, !.failed = TRUE,
                             !.stage = "requeue"]
      BY <2>4, {} \in SUBSET G DEF SendFails, Failed
    <3>2. {UuidOf[c] : c \in named} \in SUBSET Uuids
      BY <2>2, <3>1 DEF Uuids
    <3> QED BY <2>2, <3>1, <3>2
  <2> QED BY <2>1, <2>3, <2>4 DEF G
<1>3. /\ active' \in Flush /\ active'.group = group
      /\ active'.rest = active.rest \ group /\ active'.stage \in {"requeue", "notify"}
  <2>1. PICK named \in SUBSET Uuids, failed \in BOOLEAN, stage \in {"requeue", "notify"} :
          active' = [active EXCEPT !.rest = @ \ group, !.group = group,
                        !.named = named, !.failed = failed, !.stage = stage]
    BY <1>2
  <2>2. active' = [by |-> active.by, rest |-> active.rest \ group, group |-> group,
                   named |-> named, failed |-> failed, stage |-> stage]
    BY <2>1 DEF Flush
  <2> QED BY <2>2 DEF Flush
<1>4. durable' \subseteq Uuids /\ phantom' \subseteq Uuids
  BY <1>2 DEF Uuids
<1>5. WaiterCovered'
  BY <1>1, <1>2, <1>3 DEF WaiterCovered, Same
<1> QED BY <1>1, <1>2, <1>3, <1>4, <1>5

LEMMA RequeueCovered ==
    ASSUME CoverInv, Requeue
    PROVE  CoverInv'
<1> USE FlushFields DEF CoverInv, Types, TypeOK
<1>1. /\ UNCHANGED <<call, answer, waiters, queued, scheduled, durable, phantom, shard, run,
                       phase>>
      /\ active' = [active EXCEPT !.stage = "notify"]
      /\ pending \subseteq pending' /\ pending' \subseteq pending \cup active.group
  BY DEF Requeue, transport
<1>2. /\ active' \in Flush /\ active'.group = active.group
      /\ active'.rest = active.rest /\ active'.stage = "notify"
  BY <1>1 DEF Flush
<1>3. WaiterCovered'
  BY <1>1, <1>2 DEF WaiterCovered, Same
<1>4. active'.group \cap active'.rest = {} /\ pending' \cap active'.rest = {}
  BY <1>1, <1>2
<1>5. pending' \subseteq Calls /\ \A c \in pending' : call'[c] # "new"
  BY <1>1
<1>6. TypeOK'
  BY <1>1, <1>2, <1>4, <1>5
<1> QED BY <1>1, <1>2, <1>3, <1>4, <1>5, <1>6

LEMMA NotifyCovered ==
    ASSUME CoverInv, Notify
    PROVE  CoverInv'
<1> USE FlushFields DEF CoverInv, Types, TypeOK
<1>1. /\ UNCHANGED <<pending, queued, scheduled, durable, phantom, shard>>
      /\ waiters' = waiters \ Told
      /\ Returned(active.by) \/ UNCHANGED <<call, run, phase>>
  BY DEF Notify, transport
<1>2. answer' \in [Calls -> {"none", "nil", "err"}]
  BY DEF Notify
<1>3. /\ call' \in [Calls -> CallState]
      /\ \A c \in Calls : call[c] # "new" => call'[c] # "new"
      /\ run' \in {"ticking", "final", "done"}
      /\ phase' \in {"up", "signalled", "closed", "flushed", "down"}
  BY <1>1, ReturnedTypes
<1>4. \/ active.rest = {} /\ active' = NoFlush
      \/ active' = [active EXCEPT !.group = {}, !.stage = "send"]
  BY DEF Notify
<1>5. /\ active' \in Flush /\ active'.group = {} /\ active'.rest = active.rest
  <2>1. CASE active.rest = {} /\ active' = NoFlush
    BY <2>1, NoFlushShape DEF NoFlush
  <2>2. CASE active' = [active EXCEPT !.group = {}, !.stage = "send"]
    BY <2>2 DEF Flush
  <2> QED BY <1>4, <2>1, <2>2
<1>6. WaiterCovered'
  BY <1>1, <1>5 DEF WaiterCovered, Told, Same
<1> QED BY <1>1, <1>2, <1>3, <1>5, <1>6

LEMMA ProcessCovered ==
    ASSUME CoverInv,
           SizedReturns \/ Tick \/ Signal \/ RunFinal \/ CloseListener
              \/ StopFlush \/ Crash
    PROVE  CoverInv'
<1> USE FlushFields DEF CoverInv, Types, TypeOK
<1>1. CASE Crash
  <2>1. /\ call' \in [Calls -> CallState] /\ pending' = {} /\ active' = NoFlush
        /\ waiters' = {} /\ queued' = {} /\ scheduled' = FALSE /\ phase' = "down"
        /\ UNCHANGED <<answer, durable, phantom, shard, run>>
    BY <1>1 DEF Crash, Exit, CallState, transport
  <2> QED BY <2>1, NoFlushShape DEF NoFlush, WaiterCovered
<1>2. CASE ~Crash
  <2>1. UNCHANGED <<call, answer, pending, waiters, active, durable, phantom,
                       shard>>
    BY <1>2 DEF SizedReturns, Tick, Signal, RunFinal, CloseListener, StopFlush,
       transport
  <2>2. /\ queued' \subseteq Flushers /\ scheduled' \in BOOLEAN
        /\ run' \in {"ticking", "final", "done"}
        /\ phase' \in {"up", "signalled", "closed", "flushed", "down"}
    BY <1>2 DEF SizedReturns, Tick, Signal, RunFinal, CloseListener, StopFlush, Flushers
  <2> QED BY <2>1, <2>2 DEF WaiterCovered, Same
<1> QED BY <1>1, <1>2

LEMMA CoveredNext == CoverInv /\ [Next]_vars => CoverInv'
<1> SUFFICES ASSUME CoverInv, [Next]_vars PROVE CoverInv'
  OBVIOUS
<1>1. CASE UNCHANGED vars
  BY <1>1 DEF vars, transport, CoverInv, Types, TypeOK, WaiterCovered, Same
<1>2. CASE Next
  BY <1>2, CallsCovered, FlushStartCovered, SendCovered, RequeueCovered,
     NotifyCovered, ProcessCovered DEF Next
<1> QED BY <1>1, <1>2

\* Type correctness, and that no append is in two flushes: what is on its way to
\* the transport is no longer pending.
THEOREM TypeCorrect == Spec => []TypeOK
<1>1. CoverInv => TypeOK
  BY DEF CoverInv, Types
<1> QED BY <1>1, InitCovered, CoveredNext, PTL DEF Spec

\* Nobody waits for nothing (add, flush, requeue, notify): a registered waiter has
\* an event of its UUID pending or on its way, whatever the batches, partitions,
\* failures and retries, for any number of requests.
THEOREM WaitersCovered == Spec => []WaiterCovered
<1>1. CoverInv => WaiterCovered
  BY DEF CoverInv
<1> QED BY <1>1, InitCovered, CoveredNext, PTL DEF Spec

-----------------------------------------------------------------------------
(***************************************************************************)
(* The promises of JobQueue for any number of jobs and processes.  The     *)
(* inductive invariant says what a running worker holds, as long as no     *)
(* live process has outlasted StaleClaim: an executing row whose heartbeat *)
(* is fresh, and nobody else's.                                            *)
(*                                                                         *)
(* Cron is one more client of the queue: the table sees only steps of      *)
(* JobQueue, so the promises hold of the composition, for any number of    *)
(* buckets and any lookback.                                               *)
(***************************************************************************)

QueueShape == /\ row \in [Jobs -> Row]
         /\ runner \in [Runners -> Busy \cup {Idle}]
         /\ silent = {}

\* A row whose worker runs is claimed, and its heartbeat is fresh.
ClaimHeld == \A r \in Runners : \A j \in Jobs :
                Runs(r, j) => row[j].state = "executing" /\ j \notin old

\* No job has two processes running it.
Exclusive == \A r, q \in Runners : \A j \in Jobs : Runs(r, j) /\ Runs(q, j) => r = q

ClaimInv == QueueShape /\ ClaimHeld /\ Exclusive

\* The start: nobody runs anything.
LEMMA InitClaim == JobsInit => ClaimInv
  BY DEF JobsInit, ClaimInv, QueueShape, ClaimHeld, Exclusive, Runs, Idle, Row, State, Absent, Busy

\* Every kind of step keeps the invariant.
LEMMA NextClaim ==
  ASSUME ClaimInv, [JobsNext]_jobVars, ~slept'
  PROVE  ClaimInv'
<1> USE DEF ClaimInv, quiet
<1>1. CASE UNCHANGED jobVars
  BY <1>1 DEF jobVars, QueueShape, ClaimHeld, Exclusive, Runs
<1>2. ASSUME NEW j \in Jobs, Enqueue(j) PROVE ClaimInv'
  BY <1>2 DEF Enqueue, QueueShape, ClaimHeld, Exclusive, Runs, Row, State
<1>3. ASSUME NEW j \in Jobs, BackoffElapses(j) PROVE ClaimInv'
  BY <1>3 DEF BackoffElapses, QueueShape, ClaimHeld, Exclusive, Runs, Row, State
<1>4. ASSUME NEW j \in Jobs, GrowsOld(j) PROVE ClaimInv'
  BY <1>4 DEF GrowsOld, QueueShape, ClaimHeld, Exclusive, Runs
<1>5. ASSUME NEW r \in Runners, NEW j \in Jobs, Pick(r, j) PROVE ClaimInv'
  <2>1. QueueShape'
    <3>1. [stage |-> "picked", job |-> j, attempt |-> row[j].attempt] \in Busy
      BY DEF QueueShape, Row, Busy
    <3> QED BY <3>1, <1>5 DEF Pick, QueueShape
  <2>2. \A q \in Runners : \A k \in Jobs : Runs(q, k)' => Runs(q, k)
    BY <1>5 DEF Pick, QueueShape, Runs, Idle
  <2> QED BY <2>1, <2>2, <1>5 DEF Pick, ClaimHeld, Exclusive
<1>6. ASSUME NEW r \in Runners, Take(r) PROVE ClaimInv'
  <2> DEFINE j == runner[r].job
  <2>0. runner[r] \in Busy /\ j \in Jobs
    BY <1>6 DEF Take, QueueShape, Busy
  <2>1. CASE Claims(j)
    <3>1. \A q \in Runners : ~Runs(q, j)
      BY <2>0, <2>1 DEF Claims, ClaimHeld
    <3>2. QueueShape'
      BY <2>0, <2>1, <1>6 DEF Take, QueueShape, Row, State, Busy
    <3>3. \A q \in Runners : \A k \in Jobs :
             Runs(q, k)' => (q = r /\ k = j) \/ Runs(q, k)
      BY <2>0, <2>1, <1>6 DEF Take, QueueShape, Runs, Busy, Idle
    <3>4. /\ row'[j].state = "executing" /\ j \notin old' /\ old' \subseteq old
          /\ \A k \in Jobs \ {j} : row'[k] = row[k]
      BY <2>0, <2>1, <1>6 DEF Take, QueueShape, Row
    <3> HIDE DEF j
    <3> QED BY <2>0, <3>1, <3>2, <3>3, <3>4 DEF ClaimHeld, Exclusive
  <2>2. CASE ~Claims(j)
    BY <2>0, <2>2, <1>6 DEF Take, QueueShape, ClaimHeld, Exclusive, Runs, Idle
  <2> QED BY <2>1, <2>2
<1>7. ASSUME NEW r \in Runners, WorkerReturns(r) PROVE ClaimInv'
  <2>0. runner[r] \in Busy
    BY <1>7 DEF WorkerReturns, QueueShape
  <2>1. PICK outcome \in {"worked", "failed", "rejected"} :
           runner' = [runner EXCEPT ![r].stage = outcome]
    BY <1>7 DEF WorkerReturns
  <2>2. QueueShape'
    BY <2>0, <2>1, <1>7 DEF WorkerReturns, QueueShape, Busy
  <2>3. \A q \in Runners : \A k \in Jobs : Runs(q, k)' => Runs(q, k)
    BY <2>0, <2>1, <1>7 DEF WorkerReturns, QueueShape, Runs, Busy, Idle
  <2> QED BY <2>2, <2>3, <1>7 DEF WorkerReturns, ClaimHeld, Exclusive
<1>8. ASSUME NEW r \in Runners, Complete(r) \/ Fail(r) PROVE ClaimInv'
  <2> DEFINE j == runner[r].job
  <2>0. runner[r] \in Busy /\ j \in Jobs /\ Runs(r, j)
    BY <1>8 DEF Complete, Fail, QueueShape, Busy, Runs
  <2>1. /\ row' \in [Jobs -> Row]
        /\ \A k \in Jobs \ {j} : row'[k] = row[k]
    BY <2>0, <1>8 DEF Complete, Fail, QueueShape, Row, State
  <2>2. runner' = [runner EXCEPT ![r] = Idle] /\ UNCHANGED <<old, quiet>>
    BY <1>8 DEF Complete, Fail
  <2>3. QueueShape'
    BY <2>1, <2>2 DEF QueueShape
  <2>4. \A q \in Runners : \A k \in Jobs : Runs(q, k)' => Runs(q, k) /\ k # j
    BY <2>0, <2>2 DEF QueueShape, Exclusive, Runs, Idle
  <2> HIDE DEF j
  <2> QED BY <2>1, <2>2, <2>3, <2>4 DEF ClaimHeld, Exclusive
<1>9. ASSUME NEW r \in Runners, Heartbeat(r) PROVE ClaimInv'
  BY <1>9 DEF Heartbeat, QueueShape, ClaimHeld, Exclusive, Runs
<1>10. ASSUME NEW r \in Runners, ReleaseStale(r) PROVE ClaimInv'
  <2>1. Abandoned \subseteq old /\ QueueShape'
    BY <1>10 DEF ReleaseStale, Abandoned, QueueShape, Row, State
  <2>2. \A q \in Runners : \A k \in Jobs : Runs(q, k)' <=> Runs(q, k)
    BY <1>10 DEF ReleaseStale, Runs
  <2>3. \A k \in Jobs \ Abandoned : row'[k] = row[k]
    BY <1>10 DEF ReleaseStale
  <2> QED BY <2>1, <2>2, <2>3, <1>10 DEF ReleaseStale, ClaimHeld, Exclusive
<1>11. ASSUME NEW r \in Runners, Killed(r) \/ OutcomeLost(r) PROVE ClaimInv'
  BY <1>11 DEF Killed, OutcomeLost, QueueShape, ClaimHeld, Exclusive, Runs, Idle
<1>12. ASSUME NEW r \in Runners, FallSilent(r) \/ Wake(r) PROVE ClaimInv'
  BY <1>12 DEF FallSilent, Wake, QueueShape, ClaimHeld, Exclusive, Runs
<1> QED
  BY <1>1, <1>2, <1>3, <1>4, <1>5, <1>6, <1>7, <1>8, <1>9, <1>10, <1>11, <1>12 DEF JobsNext, Work, Serves

\* A silence is never forgotten.
LEMMA SleptStays == ASSUME [JobsNext]_jobVars, slept PROVE slept'
  BY DEF JobsNext, Work, Serves, jobVars, Enqueue, BackoffElapses, GrowsOld, Pick, Take, WorkerReturns, Complete,
         Fail, Heartbeat, ReleaseStale, Killed, OutcomeLost, FallSilent, Wake, quiet

LEMMA ClaimInvariant == JobsSpec => [](~slept => ClaimInv)
<1>1. JobsInit => (~slept => ClaimInv)
  BY InitClaim
<1>2. (~slept => ClaimInv) /\ [JobsNext]_jobVars => (~slept => ClaimInv)'
  BY NextClaim, SleptStays
<1> QED BY <1>1, <1>2, PTL DEF JobsSpec

\* No two processes run the worker of one job at the same time, however they
\* interleave, crash and lose outcomes (Claim, ReleaseStale, keepClaimed).
THEOREM OneRunner == JobsSpec => []OneAtATime
<1>1. (~slept => ClaimInv) => OneAtATime
  BY DEF ClaimInv, Exclusive, OneAtATime
<1> QED BY <1>1, ClaimInvariant, PTL

\* A completed job is never put back or given up (Complete, Fail, ReleaseStale).
THEOREM CompletedIsFinal == JobsSpec => CompletedStays
<1> DEFINE Stays == ~slept' => \A j \in Jobs : row[j].state = "completed"
                                               => row'[j].state = "completed"
<1>1. (~slept => ClaimInv) /\ [JobsNext]_jobVars => [Stays]_jobVars
  <2> SUFFICES ASSUME ClaimInv, JobsNext, NEW j \in Jobs, row[j].state = "completed"
               PROVE  row'[j].state = "completed"
    BY SleptStays
  <2>0. row \in [Jobs -> Row] /\ \A r \in Runners : ~Runs(r, j)
    BY DEF ClaimInv, QueueShape, ClaimHeld
  <2>1. ASSUME NEW k \in Jobs, Enqueue(k) \/ BackoffElapses(k) \/ GrowsOld(k)
        PROVE row'[j].state = "completed"
    BY <2>0, <2>1 DEF Enqueue, BackoffElapses, GrowsOld, Row
  <2>2. ASSUME NEW r \in Runners, Take(r) PROVE row'[j].state = "completed"
    BY <2>0, <2>2 DEF Take, Claims, Row
  <2>3. ASSUME NEW r \in Runners, Complete(r) \/ Fail(r)
        PROVE row'[j].state = "completed"
    <3>1. runner[r].job # j
      BY <2>0, <2>3 DEF Complete, Fail, Runs
    <3> QED BY <2>0, <2>3, <3>1 DEF Complete, Fail
  <2>4. ASSUME NEW r \in Runners, ReleaseStale(r) PROVE row'[j].state = "completed"
    BY <2>0, <2>4 DEF ReleaseStale, Abandoned
  <2>5. ASSUME NEW r \in Runners, UNCHANGED row PROVE row'[j].state = "completed"
    BY <2>5
  <2> QED BY <2>1, <2>2, <2>3, <2>4, <2>5
          DEF JobsNext, Work, Serves, Pick, WorkerReturns, Heartbeat, Killed, OutcomeLost, FallSilent, Wake
<1> QED BY <1>1, ClaimInvariant, PTL DEF JobsSpec, CompletedStays

-----------------------------------------------------------------------------
\* No pass is ever asked for a bucket before the first one: the newest slot is
\* recent, or the clock is beyond the lookback.
PassInv ==
    /\ clock \in Jobs /\ latest \in Buckets \cup {Never}
    /\ latest \in Jobs \cup {0, Never} \/ clock > Lookback
    /\ pass \in [Runners -> Pass]
    /\ \A r \in Runners : pass[r] # Resting => pass[r].next <= pass[r].current

LEMMA InitPass == CronInit => PassInv
<1> SUFFICES ASSUME CronInit PROVE PassInv
  OBVIOUS
<1>1. clock \in Jobs /\ latest \in Buckets \cup {Never}
  BY CronAssumption DEF CronInit, Buckets, Never
<1>2. latest \in Jobs \cup {0, Never} \/ clock > Lookback
  BY CronAssumption DEF CronInit
<1>3. pass \in [Runners -> Pass] /\ \A r \in Runners : pass[r] = Resting
  BY DEF CronInit, Pass
<1> QED BY <1>1, <1>2, <1>3 DEF PassInv

LEMMA NextPass == PassInv /\ [CronNext]_cronVars => PassInv'
<1> SUFFICES ASSUME PassInv, [CronNext]_cronVars PROVE PassInv'
  OBVIOUS
<1> USE CronAssumption
<1>1. CASE UNCHANGED cronVars \/ QueueWorks
  BY <1>1 DEF PassInv, cronVars, QueueWorks, cron, Pass, Resting
<1>2. CASE TimePasses
  BY <1>2 DEF PassInv, TimePasses, Pass, Resting
<1>3. ASSUME NEW r \in Runners, PassFails(r) \/ Dies(r) PROVE PassInv'
  BY <1>3 DEF PassInv, PassFails, Dies, Pass, Resting
<1>4. ASSUME NEW r \in Runners, Look(r) PROVE PassInv'
  <2>1. Start \in Jobs /\ Start <= clock
    BY <1>4 DEF Look, Start, PassInv, Buckets, Never
  <2>2. [stage |-> "filling", current |-> clock, next |-> Start] \in Pass
    BY <2>1 DEF PassInv, Pass
  <2> HIDE DEF Start
  <2> QED BY <2>1, <2>2, <1>4 DEF PassInv, Look, Resting
<1>5. ASSUME NEW r \in Runners, Fill(r) PROVE PassInv'
  <2>0. /\ pass[r] \in [stage : {"filling"}, current : Jobs, next : Jobs]
        /\ pass[r].next <= pass[r].current
    BY <1>5 DEF PassInv, Fill, At, Pass, Resting
  <2>1. latest' \in Buckets \cup {Never} /\ (latest' = latest \/ latest' \in Jobs)
    BY <2>0, <1>5 DEF PassInv, Fill, Buckets
  <2>2. /\ pass' \in [Runners -> Pass]
        /\ \A q \in Runners : pass'[q] # Resting => pass'[q].next <= pass'[q].current
    <3>1. CASE pass[r].next = pass[r].current
      BY <2>0, <3>1, <1>5 DEF PassInv, Fill, Pass
    <3>2. CASE pass[r].next # pass[r].current
      <4>1. [pass[r] EXCEPT !.next = pass[r].next + 1]
               \in [stage : {"filling"}, current : Jobs, next : Jobs]
        BY <2>0, <3>2
      <4>2. pass' = [pass EXCEPT ![r] = [pass[r] EXCEPT !.next = pass[r].next + 1]]
        BY <2>0, <3>2, <1>5 DEF Fill
      <4> QED BY <2>0, <3>2, <4>1, <4>2 DEF PassInv, Pass
    <3> QED BY <3>1, <3>2
  <2> QED BY <2>1, <2>2, <1>5 DEF PassInv, Fill
<1> QED BY <1>1, <1>2, <1>3, <1>4, <1>5 DEF CronNext

\* A step of the composition is a step of the queue, or leaves it alone.
LEMMA StepOfQueue == PassInv /\ [CronNext]_cronVars => [JobsNext]_jobVars
<1> SUFFICES ASSUME PassInv, [CronNext]_cronVars PROVE [JobsNext]_jobVars
  OBVIOUS
<1>1. CASE UNCHANGED cronVars
  BY <1>1 DEF cronVars
<1>2. ASSUME NEW r \in Runners, Fill(r) PROVE [JobsNext]_jobVars
  <2>1. pass[r].next \in Jobs
    BY <1>2 DEF PassInv, Fill, At, Pass, Resting
  <2> QED BY <2>1, <1>2 DEF Fill, JobsNext
<1>3. ASSUME NEW r \in Runners, Look(r) \/ PassFails(r) PROVE [JobsNext]_jobVars
  BY <1>3 DEF Look, PassFails
<1>4. ASSUME NEW r \in Runners, Dies(r) PROVE [JobsNext]_jobVars
  BY <1>4 DEF Dies, JobsNext
<1>5. CASE TimePasses \/ QueueWorks
  BY <1>5 DEF TimePasses, QueueWorks, JobsNext
<1> QED BY <1>1, <1>2, <1>3, <1>4, <1>5 DEF CronNext

\* The queue under its schedulers behaves as the queue does with any client.
LEMMA CronImplementsQueue == CronSpec => JobsSpec
<1>1. CronInit => JobsInit
  BY DEF CronInit
<1> QED BY <1>1, InitPass, NextPass, StepOfQueue, PTL DEF CronSpec, JobsSpec

\* No two processes run the job of one bucket at the same time, whatever their
\* schedulers queue, and however they interleave, fail and die (EnqueueDue).
THEOREM OneRunnerOfTicks == CronSpec => []OneAtATime
  BY CronImplementsQueue, OneRunner, PTL

\* No scheduler brings a completed bucket back (EnqueuePeriodic: "completion
\* cannot make the bucket enqueueable again").
THEOREM TicksStayDone == CronSpec => CompletedStays
  BY CronImplementsQueue, CompletedIsFinal, PTL
=============================================================================
