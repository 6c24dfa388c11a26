---------------------------- MODULE UsageLadder ----------------------------
(***************************************************************************)
(* What an account uses in a month and what is said about it                *)
(* (internal/usage), for one account.  The serving process counts stored     *)
(* events in memory and flushes them to system.db; a sweep, its own every    *)
(* hour or one from the command line, sends the notices of the month and     *)
(* leads the conversation about two months over the limit: ask, wait two      *)
(* weeks, lock the dashboard, unlock when the usage is back in range.        *)
(*                                                                         *)
(* A notice is claimed before it is mailed and given back when the mail      *)
(* fails; the deadline is stored before the question is asked.  A process     *)
(* that is stopped finds its context cancelled, so the statements that would  *)
(* give back fail as well.  Time goes in thirds of a month, and the two weeks  *)
(* to reply end in the second third after the one of the question.           *)
(***************************************************************************)
EXTENDS Naturals, FiniteSets, Sequences

CONSTANTS
    Procs,      \* processes that serve
    Clis,       \* commands that sweep
    Limit,      \* what a month includes
    Rung,       \* the events at which a notice is due: [warn, reached]
    MaxUnits,   \* bound: events of a month
    MaxTime,    \* bound: thirds of a month that pass
    MaxUpsets   \* bound: crashes, stops, failed statements and mails, and commands

Sweepers == Procs \cup Clis
Levels == {"warn", "reached"}

ASSUME UsageAssumption ==
    /\ IsFiniteSet(Procs) /\ Procs \cap Clis = {}
    /\ Rung \in [Levels -> Nat \ {0}] /\ Limit \in Nat /\ MaxUnits \in Nat
    /\ MaxTime \in Nat \ {0} /\ MaxUpsets \in Nat

VARIABLES
    time,
    stored,     \* events committed in the account's database, per month
    pending, batch,   \* Recorder.pending, and what a flush has taken from it
    counter,    \* usage_counters
    notices,    \* usage_notices
    overage,    \* usage_overages
    process,    \* the processes that serve
    sweep,      \* the sweeps
    mails,      \* notices delivered
    lost,       \* months of which a process lost counts
    cut,        \* a claimed notice was cut off
    reply,      \* the customer has replied, and perhaps in the middle of a sweep
    upsets

counts == <<stored, pending, batch, counter, lost>>
talk == <<notices, overage, mails, reply>>
vars == <<time, counts, talk, process, sweep, cut, upsets>>

MonthAt(t) == 3 + (t - 1) \div 3
Month == MonthAt(time)
Months == 1..MonthAt(MaxTime)
Notices == Months \X (Levels \cup {"second_month"})
Nothing == [m \in Months |-> 0]
NoTalk == [period |-> 0, asked |-> 0, replied |-> FALSE, locked |-> FALSE]

\* A sweep: its next step, its clock, the events it read, the rungs it still has to
\* look at, and the conversation it read.
Idle == [pc |-> "idle", now |-> 0, billable |-> 0, todo |-> <<>>, talk |-> NoTalk]

At(s, pc) == sweep[s].pc = pc
Goto(s, pc) == sweep' = [sweep EXCEPT ![s].pc = pc]
Return(s) == sweep' = [sweep EXCEPT ![s] = Idle]
\* Its context is not cancelled.
Connected(s) == s \in Procs => process[s] = "up"
Upset == upsets < MaxUpsets /\ upsets' = upsets + 1

-----------------------------------------------------------------------------
(* Counting. *)

\* The writer commits an event, then Record.
Record(p) ==
    /\ process[p] # "down" /\ stored[Month] < MaxUnits
    /\ stored' = [stored EXCEPT ![Month] = @ + 1]
    /\ pending' = [pending EXCEPT ![p][Month] = @ + 1]
    /\ UNCHANGED <<time, batch, counter, lost, talk, process, sweep, cut, upsets>>

\* Flush takes the map; at the end of Run it does so once more.
Swap(p) ==
    /\ batch[p] = Nothing
    /\ \/ process[p] = "up" /\ pending[p] # Nothing /\ UNCHANGED process
       \/ process[p] = "stopping" /\ process' = [process EXCEPT ![p] = "flushing"]
    /\ batch' = [batch EXCEPT ![p] = pending[p]]
    /\ pending' = [pending EXCEPT ![p] = Nothing]
    /\ UNCHANGED <<time, stored, counter, lost, talk, sweep, cut, upsets>>

\* Add, one account and month after the other.
Add(p, m) ==
    /\ batch[p][m] > 0 /\ process[p] # "stopping"
    /\ counter' = [counter EXCEPT ![m] = @ + batch[p][m]]
    /\ batch' = [batch EXCEPT ![p][m] = 0]
    /\ UNCHANGED <<time, stored, pending, lost, talk, process, sweep, cut, upsets>>

\* Counts that could not be written are put back.
\* Mutant: all that the flush took, what it has written included.
PutAllBack(p, m) == [pending[p] EXCEPT ![m] = @ + batch[p][m] + counter[m]]
PutBack(p, m) == [pending[p] EXCEPT ![m] = @ + batch[p][m]]
AddFails(p, m) ==
    /\ batch[p][m] > 0
    /\ IF process[p] = "stopping" THEN UNCHANGED upsets ELSE Upset
    /\ pending' = [pending EXCEPT ![p] = PutBack(p, m)]
    /\ batch' = [batch EXCEPT ![p][m] = 0]
    /\ UNCHANGED <<time, stored, counter, lost, talk, process, sweep, cut>>

-----------------------------------------------------------------------------
(* The sweep. *)

\* Accounts with usage this month, and those with a conversation.
\* Mutant: only the first.
InUse == counter[Month] > 0
Swept == counter[Month] > 0 \/ overage # NoTalk
Begin(s) ==
    /\ At(s, "idle") /\ Connected(s) /\ Swept
    /\ IF s \in Clis THEN Upset ELSE UNCHANGED upsets
    /\ sweep' = [sweep EXCEPT ![s] = [Idle EXCEPT !.pc = "count", !.now = time]]
    /\ UNCHANGED <<time, counts, talk, process, cut>>

Period(s) == MonthAt(sweep[s].now)
\* Reached: every rung passed, the lowest first.
Passed(l, n) == IF n >= Rung[l] THEN <<l>> ELSE <<>>
Reached(n) == Passed("warn", n) \o Passed("reached", n)
Count(s) ==
    /\ At(s, "count") /\ Connected(s)
    /\ LET n == counter[Period(s)]
       IN  sweep' = [sweep EXCEPT ![s].pc = "rungs", ![s].billable = n, ![s].todo = Reached(n)]
    /\ UNCHANGED <<time, counts, talk, process, cut, upsets>>

\* NoticeSent, then RecordNotice: INSERT ... ON CONFLICT DO NOTHING.
Unclaimed(k) == k \notin notices
Claim(s) ==
    /\ At(s, "rungs") /\ sweep[s].todo # <<>> /\ Connected(s)
    /\ LET k == <<Period(s), Head(sweep[s].todo)>>
       IN  IF Unclaimed(k)
           THEN notices' = notices \cup {k} /\ Goto(s, "mail")
           ELSE UNCHANGED notices /\ sweep' = [sweep EXCEPT ![s].todo = Tail(@)]
    /\ UNCHANGED <<time, counts, overage, mails, reply, process, cut, upsets>>

Delivered(k) == mails' = [mails EXCEPT ![k] = @ + 1]
Mail(s) ==
    /\ At(s, "mail")
    /\ Delivered(<<Period(s), Head(sweep[s].todo)>>)
    /\ sweep' = [sweep EXCEPT ![s].pc = "rungs", ![s].todo = Tail(@)]
    /\ UNCHANGED <<time, counts, notices, overage, reply, process, cut, upsets>>
MailFails(s) ==
    /\ sweep[s].pc \in {"mail", "ask mail"} /\ Upset
    /\ Goto(s, IF At(s, "mail") THEN "release" ELSE "take back")
    /\ UNCHANGED <<time, counts, talk, process, cut>>

\* ReleaseNotice: the claim goes back.
\* Mutant: it is kept.
KeptClaim(k) == notices
Released(k) == notices \ {k}
Release(s) ==
    /\ At(s, "release") /\ Connected(s)
    /\ notices' = Released(<<Period(s), Head(sweep[s].todo)>>)
    /\ Return(s)
    /\ UNCHANGED <<time, counts, overage, mails, reply, process, cut, upsets>>

\* runOverage: the conversation, the months before this one, and Decide.
ReadTalk(s) ==
    /\ At(s, "rungs") /\ sweep[s].todo = <<>> /\ Connected(s)
    /\ sweep' = [sweep EXCEPT ![s].pc = "decide", ![s].talk = overage]
    /\ UNCHANGED <<time, counts, talk, process, cut, upsets>>

\* ConsecutiveOver: complete months, up to the one before.
ConsecutiveOver(m) ==
    Cardinality({j \in 1..(m - 1) : \A i \in j..(m - 1) : counter[i] > Limit})

\* Mutant: a reply does not end it.
AnsweredOrNot(t) == TRUE
Unanswered(t) == ~t.replied
DueAt(t) == t.asked + 2
Decide(t, months, over, now) ==
    CASE ~over /\ months < 2 /\ t # NoTalk -> "clear"
      [] months >= 2 /\ t.asked = 0 -> "ask"
      [] months >= 2 /\ t.asked > 0 /\ Unanswered(t) /\ ~t.locked /\ now >= DueAt(t) -> "lock"
      [] OTHER -> "idle"
RunOverage(s) ==
    /\ At(s, "decide") /\ Connected(s)
    /\ LET act == Decide(sweep[s].talk, ConsecutiveOver(Period(s)),
                         sweep[s].billable > Limit, sweep[s].now)
       IN  IF act = "idle" THEN Return(s) ELSE Goto(s, act)
    /\ UNCHANGED <<time, counts, talk, process, cut, upsets>>

Ask(s) ==
    /\ At(s, "ask") /\ Connected(s)
    /\ LET k == <<Period(s), "second_month">>
       IN  IF Unclaimed(k) THEN notices' = notices \cup {k} /\ Goto(s, "save")
           ELSE UNCHANGED notices /\ Return(s)
    /\ UNCHANGED <<time, counts, overage, mails, reply, process, cut, upsets>>
SaveAsked(s) ==
    /\ At(s, "save") /\ Connected(s)
    /\ overage' = [sweep[s].talk EXCEPT !.period = Period(s), !.asked = sweep[s].now]
    /\ Goto(s, "ask mail")
    /\ reply' = "no"
    /\ UNCHANGED <<time, counts, notices, mails, process, cut, upsets>>
AskMail(s) ==
    /\ At(s, "ask mail")
    /\ Delivered(<<Period(s), "second_month">>)
    /\ Return(s)
    /\ UNCHANGED <<time, counts, notices, overage, reply, process, cut, upsets>>

\* The mail failed: ClearOverage, then ReleaseNotice.
\* Mutant: the deadline stays.
KeptDeadline == overage
Taken == NoTalk
TakeBack(s) ==
    /\ At(s, "take back") /\ Connected(s)
    /\ overage' = Taken /\ Goto(s, "unclaim")
    /\ reply' = "no"
    /\ UNCHANGED <<time, counts, notices, mails, process, cut, upsets>>
Unclaim(s) ==
    /\ At(s, "unclaim") /\ Connected(s)
    /\ notices' = Released(<<Period(s), "second_month">>) /\ Return(s)
    /\ UNCHANGED <<time, counts, overage, mails, reply, process, cut, upsets>>

\* SaveOverage: the whole row, as this sweep has read it.
Lock(s) ==
    /\ At(s, "lock") /\ Connected(s)
    /\ overage' = [sweep[s].talk EXCEPT !.locked = TRUE] /\ Return(s)
    /\ UNCHANGED <<time, counts, notices, mails, reply, process, cut, upsets>>
Clear(s) ==
    /\ At(s, "clear") /\ Connected(s)
    /\ overage' = NoTalk /\ Return(s)
    /\ reply' = "no"
    /\ UNCHANGED <<time, counts, notices, mails, process, cut, upsets>>

\* MarkReplied, from the command line.
MarkReplied ==
    /\ overage # NoTalk /\ ~overage.replied
    /\ overage' = [overage EXCEPT !.replied = TRUE, !.locked = FALSE]
    /\ reply' = IF \E s \in Sweepers : sweep[s].pc \in {"decide", "lock"} THEN "raced" ELSE "yes"
    /\ UNCHANGED <<time, counts, notices, mails, process, sweep, cut, upsets>>

-----------------------------------------------------------------------------
(* What goes wrong. *)

\* The sweep holds a claim of a notice that was not mailed.
Claiming(s) ==
    sweep[s].pc \in {"mail", "release", "save", "ask mail", "take back", "unclaim"}

\* A statement fails: the sweep of the account is over, except that after a failed
\* ClearOverage the claim is given back all the same.
StatementFails(s) ==
    /\ sweep[s].pc \notin {"idle", "mail", "ask mail"} /\ Connected(s) /\ Upset
    /\ IF At(s, "take back") THEN Goto(s, "unclaim") ELSE Return(s)
    /\ cut' = (cut \/ Claiming(s))
    /\ UNCHANGED <<time, counts, talk, process>>

\* The context is cancelled: whatever the sweep does next fails.
Cancelled(s) ==
    /\ ~At(s, "idle") /\ ~Connected(s)
    /\ Return(s) /\ cut' = (cut \/ Claiming(s))
    /\ UNCHANGED <<time, counts, talk, process, upsets>>

\* SIGTERM, and the end of the process when its loops have returned.
Signal(p) ==
    /\ process[p] = "up" /\ Upset
    /\ process' = [process EXCEPT ![p] = "stopping"]
    /\ UNCHANGED <<time, counts, talk, sweep, cut>>
Gone(p, held) ==
    /\ process' = [process EXCEPT ![p] = "down"]
    /\ lost' = lost \cup {m \in Months : held[m] > 0}
    /\ pending' = [pending EXCEPT ![p] = Nothing] /\ batch' = [batch EXCEPT ![p] = Nothing]
    /\ UNCHANGED <<time, stored, counter, talk>>
Exit(p) ==
    /\ process[p] = "flushing" /\ batch[p] = Nothing /\ At(p, "idle")
    /\ Gone(p, pending[p])
    /\ UNCHANGED <<sweep, cut, upsets>>
Crash(p) ==
    /\ process[p] # "down" /\ Upset
    /\ Gone(p, [m \in Months |-> pending[p][m] + batch[p][m]])
    /\ Return(p) /\ cut' = (cut \/ Claiming(p))
Start(p) ==
    /\ process[p] = "down" /\ process' = [process EXCEPT ![p] = "up"]
    /\ UNCHANGED <<time, counts, talk, sweep, cut, upsets>>

\* Time passes.  A sweep takes less than a third of a month.
Tick ==
    /\ time < MaxTime /\ time' = time + 1
    /\ \A s \in Sweepers : At(s, "idle") \/ sweep[s].now = time
    /\ UNCHANGED <<counts, talk, process, sweep, cut, upsets>>

-----------------------------------------------------------------------------
\* Counted and written: the month before was over the limit, and perhaps the one
\* before that.
Init ==
    /\ time = 1
    /\ \E n \in {0, Limit + 1} : stored = [Nothing EXCEPT ![1] = n, ![2] = Limit + 1]
    /\ counter = stored /\ pending = [p \in Procs |-> Nothing] /\ batch = pending
    /\ notices = {} /\ overage = NoTalk /\ mails = [k \in Notices |-> 0]
    /\ process = [p \in Procs |-> "up"] /\ sweep = [s \in Sweepers |-> Idle]
    /\ lost = {} /\ cut = FALSE /\ reply = "no" /\ upsets = 0

SweepStep(s) ==
    \/ Count(s) \/ Claim(s) \/ Mail(s) \/ Release(s) \/ ReadTalk(s) \/ RunOverage(s)
    \/ Ask(s) \/ SaveAsked(s) \/ AskMail(s) \/ TakeBack(s) \/ Unclaim(s) \/ Lock(s) \/ Clear(s)
    \/ Cancelled(s)
Flush(p) ==
    Swap(p) \/ \E m \in Months : Add(p, m) \/ (process[p] = "stopping" /\ AddFails(p, m))

Next ==
    \/ \E p \in Procs : \/ Record(p) \/ Flush(p) \/ Signal(p) \/ Exit(p) \/ Crash(p) \/ Start(p)
                        \/ \E m \in Months : AddFails(p, m)
    \/ \E s \in Sweepers : Begin(s) \/ SweepStep(s) \/ MailFails(s) \/ StatementFails(s)
    \/ MarkReplied \/ Tick

Spec == Init /\ [][Next]_vars

\* A process that serves sweeps every hour, flushes, and is started again.
Fairness ==
    /\ \A p \in Procs : WF_vars(Begin(p)) /\ WF_vars(Flush(p)) /\ WF_vars(Start(p)) /\ WF_vars(Exit(p))
    /\ \A s \in Sweepers : WF_vars(SweepStep(s))
FairSpec == Spec /\ Fairness

-----------------------------------------------------------------------------
(* Properties. *)

Pcs == {"idle", "count", "rungs", "mail", "release", "decide", "ask", "save", "ask mail",
         "take back", "unclaim", "lock", "clear"}
Talk == [period : {0} \cup Months, asked : 0..MaxTime, replied : BOOLEAN, locked : BOOLEAN]
Sweep == [pc : Pcs, now : 0..MaxTime, billable : Nat, todo : Seq(Levels), talk : Talk]
TypeOK ==
    /\ time \in 1..MaxTime
    /\ stored \in [Months -> Nat] /\ counter \in [Months -> Nat]
    /\ pending \in [Procs -> [Months -> Nat]] /\ batch \in [Procs -> [Months -> Nat]]
    /\ process \in [Procs -> {"up", "stopping", "flushing", "down"}]
    /\ notices \subseteq Notices /\ mails \in [Notices -> Nat]
    /\ overage \in Talk /\ sweep \in [Sweepers -> Sweep]
    /\ lost \subseteq Months /\ cut \in BOOLEAN
    /\ reply \in {"no", "yes", "raced"} /\ upsets \in 0..MaxUpsets

\* "An event that was never stored must never be billed", and one that was is billed
\* once, wherever it waits, unless a process lost it.
Waiting(m) == UNION {{p} \X (1..(pending[p][m] + batch[p][m])) : p \in Procs}
Unwritten(m) == Cardinality(Waiting(m))
CountedOnce ==
    \A m \in Months : /\ counter[m] + Unwritten(m) <= stored[m]
                      /\ m \notin lost => counter[m] + Unwritten(m) = stored[m]

\* The question is about two complete months that really were over the limit, and a
\* locked dashboard belongs to a customer who was asked, and had the time to reply,
\* unless the process died or stopped in the middle of asking.
LockedFairly ==
    /\ overage # NoTalk =>
           stored[overage.period - 1] > Limit /\ stored[overage.period - 2] > Limit
    /\ overage.locked /\ ~cut =>
           mails[<<overage.period, "second_month">>] = 1 /\ time >= DueAt(overage)

\* "A reply ends it": who has replied is not locked out and not forgotten, unless the
\* reply fell between what a sweep read and what it wrote.
ReplyEndsIt == reply = "yes" => overage.replied /\ ~overage.locked

\* Every rung reached is heard of within the month, unless a process died or stopped
\* between the claim and the mail.
RungsHeard ==
    []<>(cut \/ \A l \in Levels : counter[Month] >= Rung[l] => mails[<<Month, l>>] > 0)

\* An account that is back in range does not stay locked, though it sends nothing at
\* all and the sweep has no usage of it to look at.
InRange == counter[Month] <= Limit /\ ConsecutiveOver(Month) < 2
QuietUnlocks == (overage.locked /\ InRange) ~> (~overage.locked \/ ~InRange)
=============================================================================
