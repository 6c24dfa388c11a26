--------------------------- MODULE AccountDeletion --------------------------
(***************************************************************************)
(* The end of an account: internal/lifecycle with the part of              *)
(* internal/billing it calls.  A failed charge starts a clock; day 89 warns *)
(* and day 90 deletes, unless the customer pays first.  The sweep of each   *)
(* process, an owner who deletes the account at once, and the handler that  *)
(* reconciles the account with Stripe run at the same time, against one     *)
(* system database, one Stripe customer and the account's files.            *)
(*                                                                         *)
(* Two leases order them, the account lease of billing and the transition   *)
(* lease of lifecycle; a lease expires when its holder is slow, and then    *)
(* only compare-and-swap statements and tokens protect the rows.            *)
(***************************************************************************)
EXTENDS Naturals, FiniteSets

CONSTANTS
    Sweepers,      \* processes that run Service.Sweep
    Owners,        \* requests of the owner to delete the account now
    Handlers,      \* processes that reconcile on a Stripe event
    None,
    MaxLapses,     \* bound: how often the customer stops paying
    MaxFaults      \* bound: crashes, failed calls of Stripe or the mail server, and
                   \* pauses longer than a lease, together

Workers == Sweepers \cup Owners \cup Handlers

ASSUME DeletionAssumption ==
    /\ None \notin Workers /\ IsFiniteSet(Workers)
    /\ MaxLapses \in Nat \ {0} /\ MaxFaults \in Nat

VARIABLES
    clock,     \* account_lifecycle: [start, deleted]; start 0 is a stopped clock
    age,       \* of the lapse: 0, 1 the warning is due, 2 the deletion is due
    gap,       \* collection_gaps, one per lapse
    bill,      \* subscriptions: [no, state], the invoice it has evidence of
    inv,       \* Stripe: the current invoice [no, status, late]
    held,      \* Stripe: objects whose collection is suspended
    noted,     \* billing_quiescence_objects
    news,      \* Stripe has an event that no handler has finished
    audit,     \* account_deletions with its checkpoints
    busy,      \* the team's row of destructive_operations
    rest,      \* what is left of the account
    box,       \* lifecycle_outbox, by lapse; 0 is the confirmation
    sent,      \* how often each of these messages was handed to the relay
    lock,      \* who holds the two leases and the deletion fence
    me,        \* the workers
    upsets, stalls

billing == <<bill, inv, held, noted, news>>
account == <<clock, age, gap>>
deletion == <<audit, busy, rest>>
mail == <<box, sent>>
bounds == <<upsets, stalls>>
vars == <<billing, account, deletion, mail, lock, me, bounds>>

Lapses == 1..MaxLapses
Keys == 0..MaxLapses
Objects == {"subscription", "invoice"}
Everything == {"team", "files", "artifacts", "customer"}
Checkpoints == {"indexed", "control", "local", "global", "removed", "provider"}
Locks == {"account", "transition", "fence"}
Stopped == [start |-> 0, deleted |-> FALSE]
NoRow == [state |-> "none", by |-> None, live |-> FALSE]
NoAudit == [state |-> "none", owner |-> FALSE, auth |-> FALSE, start |-> 0,
            steps |-> {}, notified |-> FALSE]

\* A worker: what it does next, the account as it read it, the intent of the
\* purge, the object of Stripe it names, what follows a restore, and its signal.
Idle == [pc |-> "idle", start |-> 0, gone |-> FALSE, due |-> FALSE, req |-> FALSE,
         force |-> FALSE, final |-> FALSE, live |-> FALSE, settled |-> FALSE,
         obj |-> "none", no |-> 0, then |-> "none", sig |-> "none", seen |-> Stopped]

-----------------------------------------------------------------------------
Team == "team" \in rest
Pending == audit.state = "pending"
Free(w, K) == [k \in Locks |-> IF k \in K /\ lock[k] = w THEN None ELSE lock[k]]
Goto(w, pc) == me' = [me EXCEPT ![w].pc = pc]
Return(w) == me' = [me EXCEPT ![w] = Idle] /\ lock' = Free(w, Locks)
Holds(w, k) == lock[k] = w

\* Provider truth: Subscription.Paused, and Paying of a subscription that is
\* healthy while its newest invoice is paid.
Paused == "subscription" \in held
Settled == inv.status = "paid"
Paying == Settled /\ ~Paused

-----------------------------------------------------------------------------
(* The customer, Stripe and time. *)

\* A renewal fails.  Day zero is the creation of that invoice.
Lapse ==
    /\ inv.no < MaxLapses /\ Settled /\ held = {} /\ clock = Stopped /\ Team
    /\ "customer" \in rest
    /\ inv' = [no |-> inv.no + 1, status |-> "open", late |-> FALSE]
    /\ age' = 0 /\ news' = TRUE
    /\ UNCHANGED <<clock, gap, bill, held, noted, deletion, mail, lock, me, bounds>>

\* The customer pays an open invoice, on the hosted page also while collection
\* is suspended.  Late is day 90 or after.
Pay ==
    /\ inv.status = "open" /\ "customer" \in rest
    /\ inv' = [inv EXCEPT !.status = "paid", !.late = age = 2]
    /\ held' = held \ {"invoice"} /\ news' = TRUE
    /\ UNCHANGED <<bill, noted, account, deletion, mail, lock, me, bounds>>

Tick ==
    /\ age < 2 /\ clock.start # 0 /\ ~clock.deleted
    /\ age' = age + 1
    /\ UNCHANGED <<billing, clock, gap, deletion, mail, lock, me, bounds>>

-----------------------------------------------------------------------------
(* The lifecycle clock: Service.SignalAt. *)

\* The transition lease is taken and the clock loaded; no lease row can be
\* inserted for a team that is gone.
Signal(w) ==
    /\ me[w].pc = "signal"
    /\ IF Team
       THEN /\ lock.transition = None
            /\ lock' = [lock EXCEPT !.transition = w]
            /\ me' = [me EXCEPT ![w].pc = "apply", ![w].seen = clock]
            /\ UNCHANGED news
       ELSE /\ news' = (news \/ w \in Handlers) /\ Return(w)
    /\ UNCHANGED <<bill, inv, held, noted, account, deletion, mail, bounds>>

\* Apply.  Deleted is terminal, and so is day 90 by State.At: a payment made on
\* that day or later changes nothing.
Terminal(w) == \/ me[w].seen.deleted
               \/ me[w].sig = "succeeded" /\ me[w].seen.start # 0 /\ inv.late
Applied(w) == IF me[w].sig = "succeeded" THEN Stopped
              ELSE [start |-> bill.no, deleted |-> FALSE]

\* SaveIfState: a compare-and-swap on the row that was loaded.
\* Mutant: the row is written whatever it holds by now.
Overwritten(w) == TRUE
Unchanged(w) == clock = me[w].seen
Apply(w) ==
    LET paid == me[w].sig = "succeeded"
        moves == ~Terminal(w) /\ (IF paid THEN me[w].seen.start # 0 ELSE me[w].seen.start = 0)
        saves == moves /\ Unchanged(w) /\ Team
        active == ~Terminal(w) /\ paid /\ (saves \/ ~moves)
        fresh == saves /\ ~paid /\ bill.state = "paid"   \* no failure: day zero is now
    IN  /\ me[w].pc = "apply"
        /\ clock' = IF saves THEN Applied(w) ELSE clock
        /\ age' = IF fresh THEN 0 ELSE age
        /\ inv' = IF fresh THEN [inv EXCEPT !.late = FALSE] ELSE inv
        /\ IF active THEN Goto(w, "cancelMail") /\ UNCHANGED lock ELSE Return(w)
        /\ UNCHANGED <<gap, bill, held, noted, news, deletion, mail, bounds>>

\* finalizeActive: CancelPending, then CloseGap.
Cancelled(b) == [c \in Keys |-> IF b[c].state = "open" THEN NoRow ELSE b[c]]
Ended(g) == [c \in Lapses |-> IF g[c] = "open" THEN "ended" ELSE g[c]]
CancelMail(w) ==
    /\ me[w].pc = "cancelMail"
    /\ box' = Cancelled(box) /\ Goto(w, "closeGap")
    /\ UNCHANGED <<billing, account, deletion, sent, lock, bounds>>
CloseGap(w) ==
    /\ me[w].pc = "closeGap"
    /\ gap' = Ended(gap) /\ Return(w)
    /\ UNCHANGED <<billing, clock, age, deletion, mail, bounds>>

-----------------------------------------------------------------------------
(* A Stripe event: Service.Reconcile under the account lease.  An event that is
   not answered with success is delivered again. *)

Hook(w) ==
    /\ me[w] = Idle /\ news
    /\ IF Team THEN lock.account = None /\ lock' = [lock EXCEPT !.account = w]
       ELSE UNCHANGED lock
    /\ news' = FALSE
    /\ Goto(w, "read")
    /\ UNCHANGED <<bill, inv, held, noted, account, deletion, mail, bounds>>

\* A deletion that has started fences the event off; else current provider truth
\* becomes the mirror to write and the signal to give.
ReadProvider(w) ==
    /\ me[w].pc = "read"
    /\ IF audit.state # "none" THEN Return(w)
       ELSE /\ me' = [me EXCEPT ![w].pc = "save", ![w].start = inv.no,
                                ![w].settled = Settled,
                                ![w].sig = IF Paying THEN "succeeded" ELSE "failed"]
            /\ UNCHANGED lock
    /\ UNCHANGED <<billing, account, deletion, mail, bounds>>

\* SaveReconciled: never over newer evidence; a lost lease is an error.
\* Mutant: only a newer invoice is newer evidence.
NewerInvoice(no, paid) == no > bill.no
Newer(no, paid) == no > bill.no \/ (no = bill.no /\ (paid \/ bill.state # "paid"))
Mirror(no, paid) == [no |-> no, state |-> IF paid THEN "paid" ELSE "failed"]
Save(w) ==
    LET saves == Newer(me[w].start, me[w].settled)
    IN  /\ me[w].pc = "save"
        /\ IF ~Holds(w, "account") THEN news' = TRUE /\ Return(w) /\ UNCHANGED bill
           ELSE /\ bill' = IF saves THEN Mirror(me[w].start, me[w].settled) ELSE bill
                /\ IF saves THEN Goto(w, "signal") /\ UNCHANGED lock ELSE Return(w)
                /\ UNCHANGED news
        /\ UNCHANGED <<inv, held, noted, account, deletion, mail, bounds>>

-----------------------------------------------------------------------------
(* The sweep. *)

\* What one pass finds to do: a deletion to take up again (PendingDeletions), or a
\* running clock (Running), with the state as it was listed.
\* Mutant: the list joins the teams.
UnfinishedTeams == Pending /\ Team
Unfinished == Pending
Resume(w) ==
    /\ me[w] = Idle /\ Unfinished
    /\ me' = [me EXCEPT ![w] = [Idle EXCEPT !.pc = "status", !.start = audit.start,
                                            !.gone = TRUE]]
    /\ UNCHANGED <<billing, account, deletion, mail, lock, bounds>>
Advance(w) ==
    /\ me[w] = Idle /\ Team /\ clock.start # 0 /\ ~clock.deleted /\ age > 0
    /\ me' = [me EXCEPT ![w] = [Idle EXCEPT !.pc = "gap", !.start = clock.start,
                                            !.due = age = 2]]
    /\ UNCHANGED <<billing, account, deletion, mail, lock, bounds>>

\* advance: OpenGap, then the warnings, then the purge if day 90 has come.
OpenGap(w) ==
    /\ me[w].pc = "gap"
    /\ IF Team THEN /\ gap' = [gap EXCEPT ![me[w].start] = IF @ = "none" THEN "open" ELSE @]
                    /\ Goto(w, "warn") /\ UNCHANGED lock
       ELSE UNCHANGED gap /\ Return(w)
    /\ UNCHANGED <<billing, clock, age, deletion, mail, bounds>>
Warned(w) ==
    /\ lock' = Free(w, {"transition"})
    /\ me' = [me EXCEPT ![w] = IF @.start # 0 /\ @.due THEN [@ EXCEPT !.pc = "status"] ELSE Idle]

\* sendDue reloads the clock under the transition lease.
\* Mutant: what the sweep listed is taken for the clock.
ClockAsListed(w) == TRUE
SameClock(w) == clock = [start |-> me[w].start, deleted |-> FALSE]
Reload(w) ==
    /\ me[w].pc = "warn" /\ lock.transition = None
    /\ IF Team /\ SameClock(w) /\ box[me[w].start].state # "done"
       THEN lock' = [lock EXCEPT !.transition = w] /\ Goto(w, "claimMail")
       ELSE Warned(w)
    /\ UNCHANGED <<billing, account, deletion, mail, bounds>>

\* ClaimNotice takes a row that nobody holds, or whose lease has expired; then
\* the transition lease is renewed.
Claimable(c) == box[c].state # "done" /\ ~box[c].live
Lease(w, c) == [box EXCEPT ![c] = [state |-> "open", by |-> w, live |-> TRUE]]
ClaimMail(w) ==
    LET c == me[w].start
    IN  /\ me[w].pc = "claimMail"
        /\ box' = IF Claimable(c) THEN Lease(w, c) ELSE box
        /\ IF Claimable(c) /\ Holds(w, "transition")
           THEN Goto(w, "mail") /\ UNCHANGED lock ELSE Warned(w)
        /\ UNCHANGED <<billing, account, deletion, sent, bounds>>

\* sendConfirmations: after a completed deletion, without the transition lease.
Confirm(w) ==
    /\ me[w] = Idle /\ audit.state = "done" /\ ~audit.notified /\ Claimable(0)
    /\ box' = Lease(w, 0)
    /\ Goto(w, "mail")
    /\ UNCHANGED <<billing, account, deletion, sent, lock, bounds>>

Mail(w) ==
    /\ me[w].pc = "mail"
    /\ sent' = [sent EXCEPT ![me[w].start] = @ + 1]
    /\ Goto(w, "record")
    /\ UNCHANGED <<billing, account, deletion, box, lock, bounds>>
MailFails(w) ==
    LET c == me[w].start
    IN  /\ me[w].pc = "mail" /\ upsets + stalls < MaxFaults /\ upsets' = upsets + 1
        /\ box' = IF box[c].by = w THEN [box EXCEPT ![c].by = None, ![c].live = FALSE] ELSE box
        /\ Warned(w)
        /\ UNCHANGED <<billing, account, deletion, sent, stalls>>

\* FinishEmail, by the token; a confirmation also marks the audit.
Completed == [NoRow EXCEPT !.state = "done"]
Record(w) ==
    LET c == me[w].start
    IN  /\ me[w].pc = "record"
        /\ box' = IF box[c].by = w THEN [box EXCEPT ![c] = Completed] ELSE box
        /\ audit' = IF c = 0 /\ box[c].by = w THEN [audit EXCEPT !.notified = TRUE] ELSE audit
        /\ Warned(w)
        /\ UNCHANGED <<billing, account, busy, rest, sent, bounds>>

-----------------------------------------------------------------------------
(* The purge: Purger.purge, for a sweep and for an owner's request. *)

DeleteNow(w) ==
    /\ me[w] = Idle /\ Team
    /\ me' = [me EXCEPT ![w] = [Idle EXCEPT !.pc = "status", !.start = clock.start,
                                            !.gone = clock.deleted, !.req = TRUE]]
    /\ UNCHANGED <<billing, account, deletion, mail, lock, bounds>>

\* deletionStatus: new, to be resumed, or done.  What an owner asked for, or was
\* claimed for good, is final; a request nobody has claimed gets there in ClaimNow.
Status(w) ==
    /\ me[w].pc = "status"
    /\ IF audit.state = "done" \/ (~Team /\ me[w].req /\ ~audit.owner) THEN Return(w)
       ELSE /\ me' = [me EXCEPT ![w].pc = IF Team THEN "account" ELSE "claim",
                    ![w].gone = @ \/ Pending, ![w].live = Team,
                    ![w].force = IF Pending THEN audit.owner ELSE me[w].req,
                    ![w].final = IF Pending THEN audit.owner \/ audit.auth
                                            ELSE me[w].gone /\ me[w].req]
            /\ UNCHANGED lock
    /\ UNCHANGED <<billing, account, deletion, mail, bounds>>

\* The account lease.  A request that met a scheduled deletion first turns it into
\* the owner's; an owner's deletion is claimed before Stripe is touched.
Account(w) ==
    /\ me[w].pc = "account"
    /\ IF ~Team THEN Return(w)
       ELSE /\ lock.account = None /\ lock' = [lock EXCEPT !.account = w]
            /\ me' = [me EXCEPT ![w].settled = Settled, ![w].pc =
                    CASE me[w].gone /\ me[w].req /\ ~me[w].force -> "promote"
                      [] me[w].force /\ ~me[w].gone -> "force"
                      [] OTHER -> "quiesce"]
    /\ UNCHANGED <<billing, account, deletion, mail, bounds>>

\* promotePendingOwnerIntent.
Promote(w) ==
    /\ me[w].pc = "promote" /\ (Team => lock.transition = None)
    /\ IF Team /\ Pending
       THEN /\ audit' = [audit EXCEPT !.owner = TRUE, !.auth = TRUE]
            /\ me' = [me EXCEPT ![w].pc = "quiesce", ![w].force = TRUE, ![w].final = TRUE]
            /\ UNCHANGED lock
       ELSE UNCHANGED audit /\ Return(w)
    /\ UNCHANGED <<billing, account, busy, rest, mail, bounds>>

\* claim, for a deletion nobody has claimed: the exact clock that was listed, and,
\* unless the owner asks, no paid mirror.
Unclaimed(w) == /\ clock = [start |-> me[w].start, deleted |-> FALSE]
                /\ me[w].force \/ bill.state # "paid"
Claimed(w) ==
    /\ clock' = [clock EXCEPT !.deleted = TRUE]
    /\ audit' = [NoAudit EXCEPT !.state = "pending", !.owner = me[w].force, !.auth = TRUE,
                                !.start = me[w].start]
    /\ busy' = TRUE
ClaimNow(w) ==
    /\ me[w].pc = "force" /\ (Team => lock.transition = None)
    /\ IF Team /\ Holds(w, "account") /\ Unclaimed(w)
       THEN /\ Claimed(w)
            /\ me' = [me EXCEPT ![w].pc = "quiesce", ![w].gone = TRUE, ![w].final = TRUE]
            /\ UNCHANGED lock
       ELSE UNCHANGED <<clock, audit, busy>> /\ Return(w)
    /\ UNCHANGED <<billing, age, gap, rest, mail, bounds>>

-----------------------------------------------------------------------------
(* Service.QuiesceForDeletion.  While the deletion may still be called off it
   suspends collection, remembering what to restore, and looks for a payment;
   once it is final it voids what could still be paid. *)

RestoreThen(w, then) ==
    me' = [me EXCEPT ![w].pc = "restore", ![w].then = then, ![w].sig = "succeeded"]

\* A mirror that is paid, and a subscription Stripe calls healthy, end it at once.
Quiesce(w) ==
    LET healthy == /\ bill.state = "paid" /\ Settled
                   /\ ~Paused \/ "subscription" \in noted
    IN  /\ me[w].pc = "quiesce"
        /\ IF ~me[w].final /\ healthy
           THEN RestoreThen(w, IF Pending THEN "cancel" ELSE "signal") /\ UNCHANGED lock
           ELSE IF Holds(w, "account") THEN Goto(w, "look") /\ UNCHANGED lock
           ELSE Return(w)
        /\ UNCHANGED <<billing, account, deletion, mail, bounds>>

\* The pass over subscriptions and invoices, until there is nothing left to do.
\* settledInvoice: the newest invoice is paid, or one of the lapse before it.
\* Mutant: the invoices are not looked at for a payment.
Overlooked(w) == FALSE
SettledInvoice(w) == Settled \/ me[w].start < inv.no
Irrevocable(w) == me[w].final
ToHold(final) == {o \in Objects \ held : o = "invoice" => ~final /\ inv.status = "open"}
Look(w) ==
    LET todo == ToHold(me[w].final)
    IN  /\ me[w].pc = "look"
        /\ IF ~Holds(w, "account") THEN Return(w)
           ELSE /\ UNCHANGED lock
                /\ CASE ~me[w].final /\ SettledInvoice(w) -> RestoreThen(w, "recover")
                     [] todo # {} /\ (me[w].final \/ ~SettledInvoice(w)) ->
                          \E o \in todo : me' = [me EXCEPT ![w].pc = "note", ![w].obj = o,
                                                          ![w].no = inv.no]
                     [] todo = {} /\ Irrevocable(w) /\ inv.status = "open" ->
                          me' = [me EXCEPT ![w].pc = "void", ![w].no = inv.no]
                     [] OTHER -> Goto(w, "claim")
        /\ UNCHANGED <<billing, account, deletion, mail, bounds>>

\* The object is remembered before Stripe is called, and the lease renewed.
\* Mutant: it is remembered when the call has returned.
NotedLater(o) == noted
Noted(o) == noted \cup {o}
Note(w) ==
    /\ me[w].pc = "note"
    /\ noted' = IF Team THEN Noted(me[w].obj) ELSE noted
    /\ IF Team /\ Holds(w, "account") THEN Goto(w, "hold") /\ UNCHANGED lock ELSE Return(w)
    /\ UNCHANGED <<bill, inv, held, news, account, deletion, mail, bounds>>

\* An invoice is named by its id, whatever was invoiced since.
Payable(w) == inv.no = me[w].no /\ inv.status = "open"
Failed(w) == IF me[w].final THEN Return(w) ELSE RestoreThen(w, "fail") /\ UNCHANGED lock
Hold(w) ==
    LET o == me[w].obj
        allowed == "customer" \in rest /\ (o = "invoice" => Payable(w))
    IN  /\ me[w].pc = "hold"
        /\ held' = IF allowed THEN held \cup {o} ELSE held
        /\ news' = (news \/ (allowed /\ o = "subscription"))
        /\ IF allowed THEN Goto(w, "look") /\ UNCHANGED lock ELSE Failed(w)
        /\ UNCHANGED <<bill, inv, noted, account, deletion, mail, bounds>>

\* A call of Stripe fails before anything irreversible was asked for.
StripeFails(w) ==
    /\ me[w].pc \in {"look", "hold", "restore", "void", "customer"}
    /\ upsets + stalls < MaxFaults /\ upsets' = upsets + 1
    /\ IF me[w].pc \in {"look", "hold"} THEN Failed(w) ELSE Return(w)
    /\ UNCHANGED <<billing, account, deletion, mail, stalls>>

\* An invoice that was paid since it was listed cannot be voided: the deletion is
\* reopened (ReopenScheduledDeletionForRecovery), unless the owner asked for it.
Void(w) ==
    LET payable == Payable(w)
        reopens == ~payable /\ SettledInvoice(w) /\ Pending /\ ~audit.owner /\ audit.auth
                        /\ audit.steps \cap {"control", "local", "provider"} = {}
    IN  /\ me[w].pc = "void"
        /\ inv' = IF payable THEN [inv EXCEPT !.status = "void"] ELSE inv
        /\ held' = IF payable THEN held \ {"invoice"} ELSE held
        /\ audit' = IF reopens THEN [audit EXCEPT !.auth = FALSE] ELSE audit
        /\ IF reopens THEN RestoreThen(w, "recover") /\ UNCHANGED lock
           ELSE IF payable THEN Goto(w, "look") /\ UNCHANGED lock ELSE Return(w)
        /\ UNCHANGED <<bill, noted, news, account, busy, rest, mail, bounds>>

\* restoreQuiescence: one object after the other, forgotten once it is restored.
Restore(w) ==
    /\ me[w].pc = "restore"
    /\ IF noted = {}
       THEN /\ IF me[w].then = "fail" THEN Return(w) ELSE Goto(w, me[w].then) /\ UNCHANGED lock
            /\ UNCHANGED <<held, news>>
       ELSE IF ~Holds(w, "account") THEN Return(w) /\ UNCHANGED <<held, news>>
       ELSE \E o \in noted :
              /\ held' = held \ {o}
              /\ news' = (news \/ o = "subscription")
              /\ me' = [me EXCEPT ![w].pc = "forget", ![w].obj = o]
              /\ UNCHANGED lock
    /\ UNCHANGED <<bill, inv, noted, account, deletion, mail, bounds>>
Forget(w) ==
    /\ me[w].pc = "forget"
    /\ noted' = noted \ {me[w].obj} /\ Goto(w, "restore")
    /\ UNCHANGED <<bill, inv, held, news, account, deletion, mail, lock, bounds>>

\* recoverSettlement: the mirror becomes what Stripe says by now.  If that is paid the
\* clock stops, or, when the deletion was claimed already, its claim is cancelled.
Recover(w) ==
    LET open == audit.state = "none" \/ (Pending /\ ~audit.owner /\ ~audit.auth)
    IN  /\ me[w].pc = "recover"
        /\ IF open /\ Team /\ Holds(w, "account") /\ Newer(inv.no, Settled)
           THEN /\ bill' = Mirror(inv.no, Settled)
                /\ IF Pending /\ ~Settled THEN Return(w)
                   ELSE /\ me' = [me EXCEPT ![w].pc = IF Pending THEN "cancel" ELSE "signal",
                                            ![w].sig = IF Paying THEN "succeeded" ELSE "failed"]
                        /\ UNCHANGED lock
           ELSE UNCHANGED bill /\ Return(w)
        /\ UNCHANGED <<inv, held, noted, news, account, deletion, mail, bounds>>

\* cancelRecoveredDeletion.
Cancel(w) ==
    /\ me[w].pc = "cancel" /\ (Team => lock.transition = None)
    /\ IF Team /\ Pending /\ ~audit.owner /\ ~audit.auth
       THEN /\ clock' = Stopped /\ box' = Cancelled(box) /\ gap' = Ended(gap)
            /\ audit' = NoAudit
       ELSE UNCHANGED <<clock, box, gap, audit>>
    /\ Return(w)
    /\ UNCHANGED <<billing, age, busy, rest, sent, bounds>>

-----------------------------------------------------------------------------
(* claim after the pass, and the destruction. *)

\* A claim that is made now, or taken up again, is authoritative: it starts the
\* final pass over Stripe, and after that pass the account goes.
Claim(w) ==
    LET fresh == ~me[w].gone /\ me[w].due /\ Unclaimed(w)
        again == me[w].gone /\ Pending
    IN  /\ me[w].pc = "claim"
        /\ (Team /\ ~me[w].gone) => lock.transition = None
        /\ CASE me[w].live /\ ~Holds(w, "account") ->
                  Return(w) /\ UNCHANGED <<clock, audit, busy>>
             [] Holds(w, "account") = me[w].live /\ (fresh \/ again) ->
                  /\ IF fresh THEN Claimed(w)
                     ELSE /\ audit' = [audit EXCEPT !.auth = TRUE]
                          /\ busy' = TRUE /\ UNCHANGED clock
                  /\ me' = [me EXCEPT ![w].gone = TRUE, ![w].final = TRUE, ![w].then = "second",
                        ![w].pc = IF me[w].final \/ ~me[w].live THEN "fence" ELSE "quiesce"]
                  /\ UNCHANGED lock
             [] OTHER ->
                  /\ IF ~me[w].live \/ me[w].then = "second" THEN Return(w)
                     ELSE RestoreThen(w, "fail") /\ UNCHANGED lock
                  /\ UNCHANGED <<clock, audit, busy>>
        /\ UNCHANGED <<billing, age, gap, rest, mail, bounds>>

\* BeginDeletion: one purge at a time, over all processes.
Fence(w) ==
    /\ me[w].pc = "fence" /\ lock.fence = None
    /\ lock' = [lock EXCEPT !.fence = w] /\ Goto(w, "index")
    /\ UNCHANGED <<billing, account, deletion, mail, bounds>>

\* A checkpoint is an UPDATE of the audit, if there still is one.
Marked(step) == IF audit.state = "none" THEN audit ELSE [audit EXCEPT !.steps = @ \cup {step}]

\* The manifest of the global artifacts is stored while the rows that name them are
\* there, and read back with its checkpoint.
Index(w) ==
    /\ me[w].pc = "index"
    /\ IF audit.state # "none"
       THEN /\ audit' = Marked("indexed")
            /\ me' = [me EXCEPT ![w].pc = "control",
                                ![w].then = IF "global" \in audit.steps THEN "customer" ELSE "artifacts"]
            /\ UNCHANGED lock
       ELSE UNCHANGED audit /\ Return(w)
    /\ UNCHANGED <<billing, account, busy, rest, mail, bounds>>

\* removeControl: the team, and by cascade its clock, mirror, gaps, notes and leases.
RemoveControl(w) ==
    /\ me[w].pc = "control"
    /\ rest' = rest \ {"team"} /\ busy' = FALSE
    /\ clock' = Stopped /\ gap' = [c \in Lapses |-> "none"] /\ noted' = {}
    /\ bill' = [no |-> 0, state |-> "none"]
    /\ lock' = [lock EXCEPT !.account = None, !.transition = None]
    /\ audit' = Marked("control") /\ Goto(w, "files")
    /\ UNCHANGED <<inv, held, news, age, mail, bounds>>

\* The account's directory, the global artifacts and the Stripe customer: each is
\* removed, which is no error when it is gone already, and then marked.
\* Mutant: the artifacts are marked first.
MarkedFirst(w) == [files |-> "local", local |-> IF me[w].then = "artifacts" THEN "global" ELSE "customer",
                   global |-> "artifacts", artifacts |-> "customer", customer |-> "removed",
                   removed |-> "provider", provider |-> "finish"]
Following(w) == [files |-> "local", local |-> me[w].then, artifacts |-> "global",
                 global |-> "customer", customer |-> "removed", removed |-> "provider",
                 provider |-> "finish"]
Remove(w) ==
    /\ me[w].pc \in {"files", "artifacts", "customer"}
    /\ rest' = IF me[w].pc = "customer" /\ "removed" \in audit.steps THEN rest ELSE rest \ {me[w].pc}
    /\ Goto(w, Following(w)[me[w].pc])
    /\ UNCHANGED <<billing, account, audit, busy, mail, lock, bounds>>
Mark(w) ==
    /\ me[w].pc \in {"local", "global", "removed", "provider"}
    /\ audit' = Marked(me[w].pc) /\ Goto(w, Following(w)[me[w].pc])
    /\ UNCHANGED <<billing, account, busy, rest, mail, lock, bounds>>

\* finishControl: the audit is completed if every step is marked, the warnings go,
\* and the confirmation is due.
AllMarked == {"indexed", "control", "local", "global", "provider"} \subseteq audit.steps
Finish(w) ==
    /\ me[w].pc = "finish"
    /\ IF AllMarked /\ audit.state # "none"
       THEN /\ audit' = [audit EXCEPT !.state = "done"]
            /\ box' = [c \in Keys |-> IF c # 0 THEN NoRow
                                      ELSE IF box[0] = NoRow THEN [NoRow EXCEPT !.state = "open"]
                                      ELSE box[0]]
       ELSE UNCHANGED <<audit, box>>
    /\ Return(w)
    /\ UNCHANGED <<billing, account, busy, rest, sent, bounds>>

-----------------------------------------------------------------------------
(* Faults.  A crash frees what the process held, its leases after their time; a
   stall outlives them, and the worker goes on as if it had them. *)

Lost(w) == [c \in Keys |-> IF box[c].by = w THEN [box[c] EXCEPT !.live = FALSE] ELSE box[c]]
Crash(w) ==
    /\ me[w] # Idle /\ upsets + stalls < MaxFaults /\ upsets' = upsets + 1
    /\ Return(w) /\ box' = Lost(w)
    /\ news' = (news \/ w \in Handlers)
    /\ UNCHANGED <<bill, inv, held, noted, account, deletion, sent, stalls>>

Leased(w) == Holds(w, "account") \/ Holds(w, "transition") \/ \E c \in Keys : box[c].by = w /\ box[c].live
Stall(w) ==
    /\ me[w] # Idle /\ Leased(w) /\ upsets + stalls < MaxFaults /\ stalls' = stalls + 1
    /\ lock' = Free(w, {"account", "transition"}) /\ box' = Lost(w)
    /\ UNCHANGED <<billing, account, deletion, sent, me, upsets>>

-----------------------------------------------------------------------------
(* The specification. *)

Init ==
    /\ clock = Stopped /\ age = 0 /\ gap = [c \in Lapses |-> "none"]
    /\ bill = [no |-> 0, state |-> "paid"]
    /\ inv = [no |-> 0, status |-> "paid", late |-> FALSE]
    /\ held = {} /\ noted = {} /\ news = FALSE
    /\ audit = NoAudit /\ busy = FALSE /\ rest = Everything
    /\ box = [c \in Keys |-> NoRow] /\ sent = [c \in Keys |-> 0]
    /\ lock = [k \in Locks |-> None] /\ me = [w \in Workers |-> Idle]
    /\ upsets = 0 /\ stalls = 0

Lifecycle(w) == Signal(w) \/ Apply(w) \/ CancelMail(w) \/ CloseGap(w)
Reconcile(w) == ReadProvider(w) \/ Save(w)
Warn(w) == OpenGap(w) \/ Reload(w) \/ ClaimMail(w) \/ Mail(w) \/ Record(w)
Calm(w) == Quiesce(w) \/ Look(w) \/ Note(w) \/ Hold(w) \/ Void(w) \/ Restore(w) \/ Forget(w)
              \/ Recover(w) \/ Cancel(w)
Purge(w) == Status(w) \/ Account(w) \/ Promote(w) \/ ClaimNow(w) \/ Claim(w) \/ Fence(w) \/ Index(w)
              \/ RemoveControl(w) \/ Remove(w) \/ Mark(w) \/ Finish(w)
Work(w) == Lifecycle(w) \/ Reconcile(w) \/ Warn(w) \/ Calm(w) \/ Purge(w)
Fault(w) == MailFails(w) \/ StripeFails(w) \/ Crash(w) \/ Stall(w)
Start(w) == \/ w \in Sweepers /\ (Resume(w) \/ Advance(w) \/ Confirm(w))
            \/ w \in Handlers /\ Hook(w)

Next ==
    \/ Lapse \/ Pay \/ Tick
    \/ \E w \in Workers : Work(w) \/ Fault(w) \/ Start(w)
    \/ \E w \in Owners : DeleteNow(w)

Spec == Init /\ [][Next]_vars

\* A process goes on with what it began; the sweep runs again and again and finds
\* everything there is to do; Stripe delivers again; time passes.
Fairness ==
    /\ WF_vars(Tick)
    /\ \A w \in Workers : WF_vars(Work(w))
    /\ \A w \in Sweepers : WF_vars(Resume(w)) /\ WF_vars(Advance(w)) /\ WF_vars(Confirm(w))
    /\ \A w \in Handlers : WF_vars(Hook(w))
FairSpec == Spec /\ Fairness

-----------------------------------------------------------------------------
(* Properties. *)

Pcs == {"idle", "signal", "apply", "cancelMail", "closeGap", "read", "save", "gap", "warn",
        "claimMail", "mail", "record", "status", "account", "promote", "force", "quiesce",
        "look", "note", "hold", "void", "restore", "forget", "recover", "cancel", "claim",
        "fence", "index", "control", "files", "local", "artifacts", "global", "customer",
        "removed", "provider", "finish"}
Clock == [start : Keys, deleted : BOOLEAN]
Worker == [pc : Pcs, start : Keys, gone : BOOLEAN, due : BOOLEAN, req : BOOLEAN,
           force : BOOLEAN, final : BOOLEAN, live : BOOLEAN, settled : BOOLEAN,
           obj : Objects \cup {"none"}, no : Keys,
           then : {"none", "fail", "cancel", "signal", "recover", "second", "artifacts",
                   "customer"},
           sig : {"none", "succeeded", "failed"}, seen : Clock]
InvoiceRow == [no : Keys, status : {"paid", "open", "void"}, late : BOOLEAN]
MirrorRow == [no : Keys, state : {"none", "paid", "failed"}]
AuditRow == [state : {"none", "pending", "done"}, owner : BOOLEAN, auth : BOOLEAN,
             start : Keys, steps : SUBSET Checkpoints, notified : BOOLEAN]
OutboxRow == [state : {"none", "open", "done"}, by : Workers \cup {None}, live : BOOLEAN]
TypeOK ==
    /\ clock \in Clock /\ age \in 0..2 /\ gap \in [Lapses -> {"none", "open", "ended"}]
    /\ bill \in MirrorRow /\ inv \in InvoiceRow /\ audit \in AuditRow
    /\ held \subseteq Objects /\ noted \subseteq Objects /\ rest \subseteq Everything
    /\ news \in BOOLEAN /\ busy \in BOOLEAN
    /\ box \in [Keys -> OutboxRow] /\ sent \in [Keys -> Nat]
    /\ lock \in [Locks -> Workers \cup {None}] /\ me \in [Workers -> Worker]
    /\ upsets \in Nat /\ stalls \in Nat

\* Nothing of the account is lost before a claim of the deletion is durable, unless two
\* workers outlive their leases; no invoice of the first lapse is voided before it; and
\* a completed deletion has removed every part of the account, however often it was
\* interrupted, taken up again or run by two processes at once.
GoneIsGone ==
    /\ stalls <= 1 /\ rest # Everything => audit.state # "none"
    /\ inv.status = "void" /\ inv.no = 1 => audit.state # "none"
    /\ audit.state = "done" => rest = {}

\* The claim and the clock move together: an account that is still there is marked
\* deleted exactly while its audit is pending, so a payment and day 90 have one winner.
OneWinner == Team => (clock.deleted <=> Pending)

\* As long as no lease was outlived, what the purge has suspended at Stripe is
\* remembered while the account is there, whatever crashed, so that it is given back
\* to a customer who pays.
HoldsRemembered == stalls = 0 /\ Team => held \subseteq noted

\* A warning is sent once, and once more for each crash or stall, and only while the
\* clock that it is about runs: never after a payment, nor after the deletion, unless
\* a lease was outlived.
WarnsOnlyRunning ==
    [][\A c \in Lapses : sent'[c] # sent[c] =>
          /\ sent'[c] <= 1 + upsets + stalls
          /\ stalls = 0 => clock = [start |-> c, deleted |-> FALSE]]_vars

\* A scheduled deletion is never claimed by a purge that began when the invoice was
\* paid already, though the mirror may still call it failed.
PaidFirst ==
    [][\A w \in Workers : audit.state = "none" /\ audit'.state = "pending" /\ ~audit'.owner
          /\ me'[w].gone /\ ~me[w].gone => ~me[w].settled]_vars

\* A claimed deletion is completed, or called off by a payment, after any crash.
DeletionFinishes == Pending ~> ~Pending

\* A payment before day 90 stops the clock, or comes after a claim of the deletion.
\* PaidRestoresLate says it of any payment.
Restored == clock.start = 0 \/ clock.start # inv.no \/ audit.state # "none" \/ ~Team
PaidRestores == inv.status = "paid" /\ ~inv.late ~> Restored
PaidRestoresLate == inv.status = "paid" ~> Restored
=============================================================================
