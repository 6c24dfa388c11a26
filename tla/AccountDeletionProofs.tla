------------------------ MODULE AccountDeletionProofs -----------------------
(***************************************************************************)
(* Theorems about AccountDeletion for every value of its constants: any     *)
(* number of sweeps, owners and handlers, lapses, faults and pauses.        *)
(***************************************************************************)
EXTENDS AccountDeletion, FiniteSetTheorems, TLAPS

-----------------------------------------------------------------------------
(* The inductive invariants. *)

\* While the team is there only: its leases, its clock and its files.
TeamInv ==
    /\ ~Team => lock.account = None /\ lock.transition = None /\ clock = Stopped
    /\ Team => rest = Everything

\* A worker knows what comes next, and what it claims it has a reason for.
After == {"files", "local", "artifacts", "global", "customer", "removed", "provider", "finish"}
Passes == {"account", "promote", "force", "quiesce", "look", "note", "hold", "void"}
KnownOK(w) ==
    /\ me[w].pc \in {"gap", "warn", "claimMail"} \/ me[w].due => me[w].start # 0
    /\ me[w].pc \in {"restore", "forget"} => me[w].then \in {"fail", "cancel", "signal", "recover"}
    /\ me[w].pc \in {"control", "files", "local"} => me[w].then \in {"artifacts", "customer"}
    /\ me[w].pc \in {"note", "hold", "forget"} => me[w].obj \in Objects
    /\ me[w].pc = "read" => ~me[w].due
    /\ me[w].pc \in Passes => me[w].live
    /\ me[w].pc = "claim" /\ ~me[w].live => ~Team
    /\ me[w].pc = "promote" \/ me[w].final => me[w].gone
    /\ me[w].pc = "force" => me[w].force
    /\ me[w].pc = "void" => me[w].final /\ me[w].no # 0 /\ me[w].no <= inv.no
    /\ me[w].pc \in After => ~Team
KnownInv == \A w \in Workers : KnownOK(w)

\* What is marked is gone, and what a worker is about to mark is gone.
PartsOK(w) ==
    /\ me[w].pc = "local" => "files" \notin rest
    /\ me[w].pc = "global" => "artifacts" \notin rest
    /\ me[w].pc \in {"removed", "provider"} => "customer" \notin rest
PartsInv ==
    /\ "control" \in audit.steps => ~Team
    /\ "local" \in audit.steps => "files" \notin rest
    /\ "global" \in audit.steps => "artifacts" \notin rest
    /\ audit.steps \cap {"removed", "provider"} # {} => "customer" \notin rest
    /\ audit.state = "done" => rest = {}
    /\ \A w \in Workers : PartsOK(w)

\* The numbers only grow, and a running clock is about an invoice.
NumbersInv ==
    /\ bill.no <= inv.no /\ clock.start <= inv.no
    /\ inv.no = 0 => Settled
    /\ \A w \in Workers : me[w].pc = "save" \/ me[w].due => me[w].start <= inv.no

\* Until an invoice was paid after a lapse, no claim is called off: nobody is about to,
\* but for a claim of the owner, which stands.
Early == inv.no = 0 \/ (inv.no = 1 /\ ~Settled)
Cancelling(w) == \/ me[w].pc = "cancel"
                 \/ me[w].pc \in {"restore", "forget"} /\ me[w].then = "cancel"
EarlyInv ==
    /\ Early =>
       /\ inv.no = 0 /\ Pending => audit.owner
       /\ \A w \in Workers : me[w].gone => audit.state # "none"
       /\ \A w \in Workers : Cancelling(w) => inv.no = 0 /\ audit.state # "none"
    /\ inv.status = "void" /\ inv.no = 1 => audit.state # "none"

\* The workers that must have the account lease, and those that have outlived it.
Guarded == {"signal", "apply", "cancelMail", "closeGap", "read", "save", "promote", "force",
            "quiesce", "look", "note", "hold", "void", "restore", "forget", "recover",
            "cancel", "claim", "fence", "index", "control"}
Stale(w) == me[w].pc \in Guarded /\ lock.account # w
LeaseInv ==
    /\ stalls = 0 /\ Team => \A w \in Workers : ~Stale(w)
    /\ stalls <= 1 /\ Team => \A u, w \in Workers : Stale(u) /\ Stale(w) => u = w

\* A worker that has made its final pass finds nothing to pay any more; nobody calls off
\* the claim on which it destroys the account.
Recovering(v) == \/ me[v].pc = "recover"
                 \/ me[v].pc \in {"restore", "forget"} /\ me[v].then = "recover"
Destroying(w) == me[w].pc \in {"fence", "index", "control"}
PassedOK(w) == me[w].pc = "claim" /\ me[w].final /\ Holds(w, "account") /\ Pending
                  => inv.status # "open"
DestroyOK(w) == Destroying(w) =>
    /\ Pending /\ inv.status # "open"
    /\ stalls = 0 => audit.auth
    /\ ~Holds(w, "account") => audit.auth
    /\ ~Holds(w, "account") => \A v \in Workers : me[v].pc = "void" => ~Holds(v, "account")
    /\ ~audit.auth => \A v \in Workers \ {w} : me[v].pc \in Guarded => Recovering(v)
DestroyInv ==
    /\ \A w \in Workers : PassedOK(w)
    /\ stalls <= 1 /\ Team => \A w \in Workers : DestroyOK(w)
    /\ stalls <= 1 /\ ~Team => audit.state # "none"

\* What is held is noted first and forgotten last.
HoldsInv == stalls = 0 /\ Team =>
    /\ held \subseteq noted
    /\ \A w \in Workers : /\ me[w].pc = "hold" => me[w].obj \in noted
                          /\ me[w].pc = "forget" => me[w].obj \notin held

\* A purge that began when the invoice was paid comes to no scheduled claim.
PaidOK(w) == me[w].due /\ me[w].settled =>
    /\ me[w].pc \notin {"gap", "warn", "claimMail", "mail", "record", "status", "account"}
    /\ ~me[w].gone /\ me[w].pc \in {"quiesce", "look", "note", "hold", "void"} => SettledInvoice(w)
    /\ ~me[w].gone => me[w].pc # "claim"
PaidInv == \A w \in Workers : PaidOK(w)

\* The transition lease, and the clock under it.
Mine(w) == clock = [start |-> me[w].start, deleted |-> FALSE]
Warns(w) == me[w].pc \in {"claimMail", "mail"} /\ me[w].start # 0
ClockInv == stalls = 0 =>
    \A w \in Workers :
       /\ me[w].pc \in {"apply", "cancelMail"} /\ Team => Holds(w, "transition")
       /\ Warns(w) => Team /\ Mine(w) /\ Holds(w, "transition")

\* Every message that was sent is paid for by a fault, but for the one that counts.
Mailers(c) == {w \in Workers : me[w].pc = "mail" /\ me[w].start = c}
Cancellers == {w \in Workers : me[w].pc \in {"apply", "cancelMail"} /\ ~Holds(w, "transition")}
Mailing(w, c) == me[w].pc \in {"mail", "record"} /\ me[w].start = c /\ box[c].by = w /\ box[c].live
InHand(c) == box[c].state = "done" \/ \E w \in Workers : Mailing(w, c)
SentInv ==
    /\ \A c \in Lapses : sent[c] + Cardinality(Mailers(c)) <= 1 + upsets + stalls
    /\ Team => \A c \in Lapses :
          /\ ~InHand(c) => sent[c] + Cardinality(Mailers(c) \cup Cancellers) <= upsets + stalls
          /\ sent[c] + Cardinality(Mailers(c) \cup Cancellers) <= 1 + upsets + stalls
          /\ \A w \in Workers : Mailing(w, c) => Holds(w, "transition")

-----------------------------------------------------------------------------
(* What a step does to the worker that takes it. *)

\* What a purge remembers of the account, its intent and its reading of Stripe.
Keeps(n, o) ==
    /\ n.start = o.start /\ n.gone = o.gone /\ n.due = o.due /\ n.force = o.force
    /\ n.final = o.final /\ n.live = o.live /\ n.settled = o.settled
Like(n, o, pc) ==
    /\ n \in Worker /\ n.pc = pc /\ Keeps(n, o)
    /\ n.obj = o.obj /\ n.no = o.no /\ n.then = o.then

\* The fields of a worker that are written together.
LikeThen(n, o, pc, x) == n \in Worker /\ Keeps(n, o) /\ n.pc = pc /\ n.then = x
LikeRead(n, o, k) ==
    /\ n \in Worker /\ n.pc = "save" /\ n.start = k
    /\ n.gone = o.gone /\ n.due = o.due /\ n.final = o.final
LikeObj(n, o, pc, x) ==
    n \in Worker /\ Keeps(n, o) /\ n.pc = pc /\ n.obj = x /\ n.then = o.then
LikeVoid(n, o, k) == n \in Worker /\ Keeps(n, o) /\ n.pc = "void" /\ n.no = k
LikeNew(n, pc, k, gone, due) ==
    /\ n \in Worker /\ n.pc = pc /\ n.start = k /\ n.gone = gone /\ n.due = due
    /\ ~n.final /\ ~n.settled
LikeStatus(n, o, pc, gone, live, final) ==
    /\ n \in Worker /\ n.pc = pc /\ n.gone = gone /\ n.live = live /\ n.final = final
    /\ n.start = o.start /\ n.due = o.due /\ n.settled = o.settled
LikeAccount(n, o, pc, settled) ==
    /\ n \in Worker /\ n.pc = pc /\ n.start = o.start /\ n.gone = o.gone /\ n.due = o.due
    /\ n.live = o.live /\ n.force = o.force /\ n.final = o.final /\ n.settled = settled
LikeFinal(n, o, pc, gone) ==
    /\ n \in Worker /\ n.pc = pc /\ n.final /\ n.gone = gone
    /\ n.start = o.start /\ n.due = o.due /\ n.live = o.live

\* Only w moves.  It ends, and gives back the leases it still has; or it goes on.
Turn(w) == me' \in [Workers -> Worker] /\ \A v \in Workers \ {w} : me'[v] = me[v]
Ends(w) == Turn(w) /\ me'[w] = Idle /\ lock' = Free(w, Locks)
Goes(w, pc) == Turn(w) /\ lock' = lock /\ Like(me'[w], me[w], pc)
Restores(w, x) ==
    /\ Turn(w) /\ lock' = lock /\ Keeps(me'[w], me[w])
    /\ me'[w].pc = "restore" /\ me'[w].then = x

LEMMA PcsAre ==
    /\ {"idle", "signal", "apply", "cancelMail", "closeGap", "read", "save"} \subseteq Pcs
    /\ {"gap", "warn", "claimMail", "mail", "record", "status", "account"} \subseteq Pcs
    /\ {"promote", "force", "quiesce", "look", "note", "hold", "void"} \subseteq Pcs
    /\ {"restore", "forget", "recover", "cancel", "claim", "fence", "index"} \subseteq Pcs
    /\ {"control", "files", "local", "artifacts", "global", "customer"} \subseteq Pcs
    /\ {"removed", "provider", "finish"} \subseteq Pcs
BY DEF Pcs

LEMMA NumbersAre == 0 \in Keys /\ Lapses \subseteq Keys /\ Keys \subseteq Nat
                    /\ \A k \in Keys : k # 0 => k \in Lapses
BY DeletionAssumption DEF Keys, Lapses

LEMMA StoppedIs == Stopped \in Clock /\ Stopped.start = 0 /\ Stopped.deleted = FALSE
BY NumbersAre DEF Stopped, Clock

LEMMA IdleIs ==
    /\ Idle \in Worker
    /\ Idle.pc = "idle" /\ Idle.start = 0 /\ Idle.gone = FALSE /\ Idle.due = FALSE
    /\ Idle.force = FALSE /\ Idle.final = FALSE /\ Idle.live = FALSE
    /\ Idle.settled = FALSE /\ Idle.no = 0 /\ Idle.then = "none" /\ Idle.obj = "none"
BY NumbersAre, StoppedIs, PcsAre DEF Idle, Worker

LEMMA Turns ==
    ASSUME TypeOK, NEW w \in Workers, NEW n \in Worker, me' = [me EXCEPT ![w] = n]
    PROVE  Turn(w) /\ me'[w] = n
BY DEF TypeOK, Turn

LEMMA OnIs ==
    ASSUME NEW o \in Worker, NEW pc \in Pcs
    PROVE  Like([o EXCEPT !.pc = pc], o, pc)
BY DEF Worker, Like, Keeps

LEMMA OnSeenIs ==
    ASSUME NEW o \in Worker, NEW pc \in Pcs, NEW c \in Clock
    PROVE  Like([o EXCEPT !.pc = pc, !.seen = c], o, pc)
BY DEF Worker, Like, Keeps

LEMMA OnSigIs ==
    ASSUME NEW o \in Worker, NEW pc \in Pcs, NEW x \in {"succeeded", "failed"}
    PROVE  Like([o EXCEPT !.pc = pc, !.sig = x], o, pc)
BY DEF Worker, Like, Keeps

LEMMA OnThenIs ==
    ASSUME NEW o \in Worker, NEW x \in {"fail", "cancel", "signal", "recover"}
    PROVE  LikeThen([o EXCEPT !.pc = "restore", !.then = x, !.sig = "succeeded"],
                    o, "restore", x)
BY PcsAre DEF Worker, Keeps, LikeThen

LEMMA OnIndexIs ==
    ASSUME NEW o \in Worker, NEW x \in {"artifacts", "customer"}
    PROVE  LikeThen([o EXCEPT !.pc = "control", !.then = x], o, "control", x)
BY PcsAre DEF Worker, Keeps, LikeThen

LEMMA OnReadIs ==
    ASSUME NEW o \in Worker, NEW k \in Keys, NEW b \in BOOLEAN,
           NEW x \in {"succeeded", "failed"}
    PROVE  LikeRead([o EXCEPT !.pc = "save", !.start = k, !.settled = b, !.sig = x], o, k)
BY PcsAre DEF Worker, LikeRead

LEMMA OnObjIs ==
    ASSUME NEW o \in Worker, NEW pc \in Pcs, NEW x \in Objects
    PROVE  LikeObj([o EXCEPT !.pc = pc, !.obj = x], o, pc, x)
BY DEF Worker, Keeps, LikeObj

LEMMA OnNoteIs ==
    ASSUME NEW o \in Worker, NEW x \in Objects, NEW k \in Keys
    PROVE  LikeObj([o EXCEPT !.pc = "note", !.obj = x, !.no = k], o, "note", x)
BY PcsAre DEF Worker, Keeps, LikeObj

LEMMA OnVoidIs ==
    ASSUME NEW o \in Worker, NEW k \in Keys
    PROVE  LikeVoid([o EXCEPT !.pc = "void", !.no = k], o, k)
BY PcsAre DEF Worker, Keeps, LikeVoid

LEMMA OnResumeIs ==
    ASSUME NEW k \in Keys
    PROVE  LikeNew([Idle EXCEPT !.pc = "status", !.start = k, !.gone = TRUE],
                   "status", k, TRUE, FALSE)
BY PcsAre, IdleIs DEF Worker, Idle, LikeNew

LEMMA OnAdvanceIs ==
    ASSUME NEW k \in Keys, NEW b \in BOOLEAN
    PROVE  LikeNew([Idle EXCEPT !.pc = "gap", !.start = k, !.due = b], "gap", k, FALSE, b)
BY PcsAre, IdleIs DEF Worker, Idle, LikeNew

LEMMA OnRequestIs ==
    ASSUME NEW k \in Keys, NEW b \in BOOLEAN
    PROVE  LikeNew([Idle EXCEPT !.pc = "status", !.start = k, !.gone = b, !.req = TRUE],
                   "status", k, b, FALSE)
BY PcsAre, IdleIs DEF Worker, Idle, LikeNew

LEMMA OnStatusIs ==
    ASSUME NEW o \in Worker, NEW pc \in Pcs, NEW g \in BOOLEAN, NEW l \in BOOLEAN,
           NEW f \in BOOLEAN, NEW x \in BOOLEAN
    PROVE  LikeStatus([o EXCEPT !.pc = pc, !.gone = g, !.live = l, !.force = f, !.final = x],
                      o, pc, g, l, x)
<1> DEFINE n == [o EXCEPT !.pc = pc, !.gone = g, !.live = l, !.force = f, !.final = x]
<1>1. n \in Worker
  BY DEF Worker
<1>2. n.pc = pc /\ n.gone = g /\ n.live = l /\ n.final = x
  BY DEF Worker
<1>3. n.start = o.start /\ n.due = o.due /\ n.settled = o.settled
  BY DEF Worker
<1> QED BY <1>1, <1>2, <1>3 DEF LikeStatus

LEMMA OnAccountIs ==
    ASSUME NEW o \in Worker, NEW pc \in Pcs, NEW b \in BOOLEAN
    PROVE  LikeAccount([o EXCEPT !.settled = b, !.pc = pc], o, pc, b)
BY DEF Worker, LikeAccount

LEMMA OnPromoteIs ==
    ASSUME NEW o \in Worker
    PROVE  LikeFinal([o EXCEPT !.pc = "quiesce", !.force = TRUE, !.final = TRUE],
                     o, "quiesce", o.gone)
BY PcsAre DEF Worker, LikeFinal

LEMMA OnForceIs ==
    ASSUME NEW o \in Worker
    PROVE  LikeFinal([o EXCEPT !.pc = "quiesce", !.gone = TRUE, !.final = TRUE],
                     o, "quiesce", TRUE)
BY PcsAre DEF Worker, LikeFinal

LEMMA OnClaimIs ==
    ASSUME NEW o \in Worker, NEW pc \in Pcs
    PROVE  LikeFinal([o EXCEPT !.gone = TRUE, !.final = TRUE, !.then = "second", !.pc = pc],
                     o, pc, TRUE)
BY DEF Worker, LikeFinal

\* The two leases and the fence.
LeaseTo(k, x) ==
    /\ lock' \in [Locks -> Workers \cup {None}] /\ lock'[k] = x
    /\ \A j \in Locks \ {k} : lock'[j] = lock[j]

LEMMA LocksAre == "account" \in Locks /\ "transition" \in Locks /\ "fence" \in Locks
BY DEF Locks

LEMMA FreeIs ==
    ASSUME TypeOK, NEW w \in Workers, NEW K \in SUBSET Locks
    PROVE  /\ Free(w, K) \in [Locks -> Workers \cup {None}]
           /\ \A k \in Locks : k \in K /\ lock[k] = w => Free(w, K)[k] = None
           /\ \A k \in Locks : k \notin K \/ lock[k] # w => Free(w, K)[k] = lock[k]
BY DEF TypeOK, Free

LEMMA NoWorker == \A w \in Workers : w # None
BY DeletionAssumption

LEMMA TakesAccount ==
    ASSUME TypeOK, NEW x \in Workers \cup {None}, lock' = [lock EXCEPT !.account = x]
    PROVE  LeaseTo("account", x)
BY LocksAre DEF TypeOK, LeaseTo

LEMMA TakesTransition ==
    ASSUME TypeOK, NEW x \in Workers \cup {None}, lock' = [lock EXCEPT !.transition = x]
    PROVE  LeaseTo("transition", x)
BY LocksAre DEF TypeOK, LeaseTo

LEMMA TakesFence ==
    ASSUME TypeOK, NEW x \in Workers \cup {None}, lock' = [lock EXCEPT !.fence = x]
    PROVE  LeaseTo("fence", x)
BY LocksAre DEF TypeOK, LeaseTo

LEMMA IsWorker == ASSUME TypeOK, NEW w \in Workers PROVE me[w] \in Worker
BY DEF TypeOK

LEMMA Returns ==
    ASSUME TypeOK, NEW w \in Workers, Return(w)
    PROVE  Ends(w)
BY IdleIs, Turns DEF Return, Ends

LEMMA GoesOn ==
    ASSUME TypeOK, NEW w \in Workers, NEW pc \in Pcs, Goto(w, pc)
    PROVE  Turn(w) /\ Like(me'[w], me[w], pc)
<1>1. me[w] \in Worker
  BY DEF TypeOK
<1> DEFINE n == [me[w] EXCEPT !.pc = pc]
<1>2. Like(n, me[w], pc)
  BY <1>1, OnIs
<1>3. me' = [me EXCEPT ![w] = n]
  BY DEF Goto
<1> HIDE DEF n
<1> QED BY <1>2, <1>3, Turns DEF Like

LEMMA RestoresIs ==
    ASSUME TypeOK, NEW w \in Workers, NEW x \in {"fail", "cancel", "signal", "recover"},
           RestoreThen(w, x), lock' = lock
    PROVE  Restores(w, x)
<1>1. me[w] \in Worker
  BY DEF TypeOK
<1> DEFINE n == [me[w] EXCEPT !.pc = "restore", !.then = x, !.sig = "succeeded"]
<1>2. LikeThen(n, me[w], "restore", x)
  BY <1>1, OnThenIs
<1>3. me' = [me EXCEPT ![w] = n]
  BY DEF RestoreThen
<1> HIDE DEF n
<1> QED BY <1>2, <1>3, Turns DEF Restores, LikeThen

LEMMA WarnedIs ==
    ASSUME TypeOK, NEW w \in Workers, Warned(w)
    PROVE  /\ lock' = Free(w, {"transition"})
           /\ Turn(w) /\ (me'[w] = Idle \/ Like(me'[w], me[w], "status"))
<1>1. me[w] \in Worker
  BY DEF TypeOK
<1>2. CASE me' = [me EXCEPT ![w] = Idle]
  BY <1>2, IdleIs, Turns DEF Warned
<1>3. CASE me' = [me EXCEPT ![w] = [me[w] EXCEPT !.pc = "status"]]
  <2> DEFINE n == [me[w] EXCEPT !.pc = "status"]
  <2>1. Like(n, me[w], "status")
    BY <1>1, OnIs, PcsAre
  <2>2. me' = [me EXCEPT ![w] = n]
    BY <1>3
  <2> HIDE DEF n
  <2> QED BY <2>1, <2>2, Turns DEF Like, Warned
<1>4. me' = [me EXCEPT ![w] = IF me[w].start # 0 /\ me[w].due
                              THEN [me[w] EXCEPT !.pc = "status"] ELSE Idle]
  BY DEF Warned
<1> QED BY <1>2, <1>3, <1>4

-----------------------------------------------------------------------------
(* What each step does. *)

\* What no step of the lifecycle clock, of the mail or of a pass changes.
SameStripe == inv' = inv /\ bill' = bill /\ held' = held /\ noted' = noted
SameAccount == clock' = clock /\ audit' = audit /\ rest' = rest
SameMail == box' = box /\ sent' = sent
SameFaults == upsets' = upsets /\ stalls' = stalls
Still == SameStripe /\ SameAccount /\ SameMail /\ SameFaults
SameClaim ==
    /\ audit' \in AuditRow
    /\ audit'.state = audit.state /\ audit'.owner = audit.owner /\ audit'.auth = audit.auth
Stops(w) ==
    /\ lock' = Free(w, {"transition"})
    /\ Turn(w) /\ (me'[w] = Idle \/ Like(me'[w], me[w], "status"))

LEMMA Marks ==
    ASSUME TypeOK, NEW s \in Checkpoints, audit' = Marked(s)
    PROVE  SameClaim /\ audit'.steps \in {audit.steps, audit.steps \cup {s}}
BY DEF TypeOK, AuditRow, Marked, SameClaim

LEMMA SignalDoes ==
    ASSUME TypeOK, NEW w \in Workers, Signal(w)
    PROVE  /\ me[w].pc = "signal" /\ Still
           /\ \/ ~Team /\ Ends(w)
              \/ /\ Team /\ lock["transition"] = None /\ LeaseTo("transition", w)
                 /\ Turn(w) /\ Like(me'[w], me[w], "apply")
<1>1. me[w].pc = "signal" /\ Still
  BY DEF Signal, Still, SameStripe, SameAccount, SameMail, SameFaults, account, deletion, mail,
         bounds
<1>2. CASE ~Team
  BY <1>1, <1>2, Returns DEF Signal
<1>3. CASE Team
  <2> DEFINE n == [me[w] EXCEPT !.pc = "apply", !.seen = clock]
  <2>1. Like(n, me[w], "apply")
    BY IsWorker, OnSeenIs, PcsAre DEF TypeOK
  <2>2. me' = [me EXCEPT ![w] = n]
    BY <1>3 DEF Signal
  <2> HIDE DEF n
  <2>3. Turn(w) /\ me'[w] = n
    BY <2>1, <2>2, Turns DEF Like
  <2>4. lock["transition"] = None /\ LeaseTo("transition", w)
    BY <1>3, TakesTransition DEF Signal
  <2> QED BY <1>1, <1>3, <2>1, <2>3, <2>4
<1> QED BY <1>2, <1>3

\* The clock that Apply writes is running or stopped, and was not deleted before.
LEMMA ApplyDoes ==
    ASSUME TypeOK, NEW w \in Workers, Apply(w)
    PROVE  /\ me[w].pc = "apply" /\ SameMail /\ SameFaults
           /\ bill' = bill /\ held' = held /\ noted' = noted /\ audit' = audit /\ rest' = rest
           /\ inv' \in InvoiceRow /\ inv'.no = inv.no /\ inv'.status = inv.status
           /\ age' \in 0..2
           /\ \/ clock' = clock
              \/ /\ Team /\ ~clock.deleted /\ clock' \in Clock /\ ~clock'.deleted
                 /\ clock'.start \in {0, bill.no}
           /\ Ends(w) \/ Goes(w, "cancelMail")
<1>1. /\ me[w].pc = "apply" /\ SameMail /\ SameFaults
      /\ bill' = bill /\ held' = held /\ noted' = noted /\ audit' = audit /\ rest' = rest
  BY DEF Apply, SameMail, SameFaults, deletion, mail, bounds
<1>2. age' \in 0..2 /\ inv' \in InvoiceRow /\ inv'.no = inv.no /\ inv'.status = inv.status
  <2>1. (age' = age \/ age' = 0) /\ (inv' = inv \/ inv' = [inv EXCEPT !.late = FALSE])
    BY DEF Apply
  <2>2. age' \in 0..2
    BY <2>1 DEF TypeOK
  <2>3. inv \in InvoiceRow
    BY DEF TypeOK
  <2>4. CASE inv' = inv
    BY <2>2, <2>3, <2>4
  <2>5. CASE inv' = [inv EXCEPT !.late = FALSE]
    BY <2>2, <2>3, <2>5 DEF InvoiceRow
  <2> QED BY <2>1, <2>4, <2>5
<1>3. Ends(w) \/ Goes(w, "cancelMail")
  <2>1. CASE Return(w)
    BY <2>1, Returns
  <2>2. CASE Goto(w, "cancelMail") /\ lock' = lock
    BY <2>2, GoesOn, PcsAre DEF Goes
  <2> QED BY <2>1, <2>2 DEF Apply
<1>4. \/ clock' = clock
      \/ ~me[w].seen.deleted /\ clock = me[w].seen /\ Team /\ clock' = Applied(w)
  BY DEF Apply, Unchanged, Terminal
<1>5. ASSUME clock' = Applied(w)
      PROVE  clock' \in Clock /\ ~clock'.deleted /\ clock'.start \in {0, bill.no}
  <2>1. bill.no \in Keys
    BY DEF TypeOK, MirrorRow
  <2>2. CASE Applied(w) = Stopped
    BY <1>5, <2>2, StoppedIs
  <2>3. CASE Applied(w) = [start |-> bill.no, deleted |-> FALSE]
    BY <1>5, <2>1, <2>3 DEF Clock
  <2> QED BY <2>2, <2>3 DEF Applied
<1> QED BY <1>1, <1>2, <1>3, <1>4, <1>5

LEMMA CancelMailDoes ==
    ASSUME TypeOK, NEW w \in Workers, CancelMail(w)
    PROVE  /\ me[w].pc = "cancelMail" /\ SameStripe /\ SameAccount /\ SameFaults
           /\ sent' = sent /\ box' = Cancelled(box) /\ Goes(w, "closeGap")
BY GoesOn, PcsAre DEF CancelMail, SameStripe, SameAccount, SameFaults, billing, account,
   deletion, bounds, Goes

LEMMA CloseGapDoes ==
    ASSUME TypeOK, NEW w \in Workers, CloseGap(w)
    PROVE  me[w].pc = "closeGap" /\ Still /\ Ends(w)
BY Returns DEF CloseGap, Still, SameStripe, SameAccount, SameMail, SameFaults, billing,
   deletion, mail, bounds

LEMMA HookDoes ==
    ASSUME TypeOK, NEW w \in Workers, Hook(w)
    PROVE  /\ me[w] = Idle /\ Still /\ Turn(w) /\ Like(me'[w], me[w], "read")
           /\ \/ Team /\ lock["account"] = None /\ LeaseTo("account", w)
              \/ ~Team /\ lock' = lock
<1>1. me[w] = Idle /\ Still
  BY DEF Hook, Still, SameStripe, SameAccount, SameMail, SameFaults, account, deletion, mail,
         bounds
<1>2. Turn(w) /\ Like(me'[w], me[w], "read")
  BY GoesOn, PcsAre DEF Hook
<1>3. \/ Team /\ lock["account"] = None /\ LeaseTo("account", w)
      \/ ~Team /\ lock' = lock
  BY TakesAccount DEF Hook
<1> QED BY <1>1, <1>2, <1>3

LEMMA ReadProviderDoes ==
    ASSUME TypeOK, NEW w \in Workers, ReadProvider(w)
    PROVE  /\ me[w].pc = "read" /\ Still
           /\ \/ Ends(w)
              \/ lock' = lock /\ Turn(w) /\ LikeRead(me'[w], me[w], inv.no)
<1>1. me[w].pc = "read" /\ Still
  BY DEF ReadProvider, Still, SameStripe, SameAccount, SameMail, SameFaults, billing, account,
         deletion, mail, bounds
<1>2. CASE audit.state # "none"
  BY <1>1, <1>2, Returns DEF ReadProvider
<1>3. CASE audit.state = "none"
  <2> DEFINE x == IF Paying THEN "succeeded" ELSE "failed"
  <2> DEFINE n == [me[w] EXCEPT !.pc = "save", !.start = inv.no, !.settled = Settled, !.sig = x]
  <2>1. Settled \in BOOLEAN /\ inv.no \in Keys /\ x \in {"succeeded", "failed"}
    BY DEF Settled, TypeOK, InvoiceRow
  <2>2. LikeRead(n, me[w], inv.no)
    <3> HIDE DEF x
    <3> QED BY <2>1, IsWorker, OnReadIs
  <2>3. me' = [me EXCEPT ![w] = n] /\ lock' = lock
    BY <1>3 DEF ReadProvider
  <2> HIDE DEF n
  <2> QED BY <1>1, <2>2, <2>3, Turns DEF LikeRead
<1> QED BY <1>2, <1>3

LEMMA SaveDoes ==
    ASSUME TypeOK, NEW w \in Workers, Save(w)
    PROVE  /\ me[w].pc = "save" /\ SameAccount /\ SameMail /\ SameFaults
           /\ inv' = inv /\ held' = held /\ noted' = noted
           /\ bill' = bill \/ (bill' \in MirrorRow /\ bill'.no = me[w].start)
           /\ Ends(w) \/ Goes(w, "signal")
<1>1. /\ me[w].pc = "save" /\ SameAccount /\ SameMail /\ SameFaults
      /\ inv' = inv /\ held' = held /\ noted' = noted
  BY DEF Save, SameAccount, SameMail, SameFaults, account, deletion, mail, bounds
<1>2. bill' = bill \/ bill' = Mirror(me[w].start, me[w].settled)
  BY DEF Save
<1>3. Mirror(me[w].start, me[w].settled) \in MirrorRow
      /\ Mirror(me[w].start, me[w].settled).no = me[w].start
  <2>1. me[w].start \in Keys
    BY IsWorker DEF Worker
  <2> QED BY <2>1 DEF Mirror, MirrorRow
<1>4. CASE Return(w)
  BY <1>1, <1>2, <1>3, <1>4, Returns
<1>5. CASE Goto(w, "signal") /\ lock' = lock
  BY <1>1, <1>2, <1>3, <1>5, GoesOn, PcsAre DEF Goes
<1> QED BY <1>4, <1>5 DEF Save

LEMMA NewWorker ==
    ASSUME TypeOK, NEW w \in Workers, NEW n, NEW pc, NEW k, NEW gone, NEW due,
           LikeNew(n, pc, k, gone, due), me' = [me EXCEPT ![w] = n]
    PROVE  Turn(w) /\ LikeNew(me'[w], pc, k, gone, due)
BY Turns DEF LikeNew

LEMMA ResumeDoes ==
    ASSUME TypeOK, NEW w \in Workers, Resume(w)
    PROVE  /\ me[w] = Idle /\ Pending /\ Still /\ lock' = lock
           /\ Turn(w) /\ LikeNew(me'[w], "status", audit.start, TRUE, FALSE)
<1>1. me[w] = Idle /\ Pending /\ Still /\ lock' = lock
  BY DEF Resume, Unfinished, Still, SameStripe, SameAccount, SameMail, SameFaults, billing,
         account, deletion, mail, bounds
<1> DEFINE n == [Idle EXCEPT !.pc = "status", !.start = audit.start, !.gone = TRUE]
<1>2. audit.start \in Keys
  BY DEF TypeOK, AuditRow
<1>3. LikeNew(n, "status", audit.start, TRUE, FALSE)
  BY <1>2, OnResumeIs
<1>4. me' = [me EXCEPT ![w] = n]
  BY DEF Resume
<1> HIDE DEF n
<1> QED BY <1>1, <1>3, <1>4, NewWorker

LEMMA AdvanceDoes ==
    ASSUME TypeOK, NEW w \in Workers, Advance(w)
    PROVE  /\ me[w] = Idle /\ Team /\ clock.start # 0 /\ Still /\ lock' = lock
           /\ Turn(w) /\ LikeNew(me'[w], "gap", clock.start, FALSE, age = 2)
<1>1. me[w] = Idle /\ Team /\ clock.start # 0 /\ Still /\ lock' = lock
  BY DEF Advance, Still, SameStripe, SameAccount, SameMail, SameFaults, billing,
         account, deletion, mail, bounds
<1> DEFINE n == [Idle EXCEPT !.pc = "gap", !.start = clock.start, !.due = age = 2]
<1>2. clock.start \in Keys /\ (age = 2) \in BOOLEAN
  BY DEF TypeOK, Clock
<1>3. LikeNew(n, "gap", clock.start, FALSE, age = 2)
  BY <1>2, OnAdvanceIs
<1>4. me' = [me EXCEPT ![w] = n]
  BY DEF Advance
<1> HIDE DEF n
<1> QED BY <1>1, <1>3, <1>4, NewWorker

LEMMA DeleteNowDoes ==
    ASSUME TypeOK, NEW w \in Workers, DeleteNow(w)
    PROVE  /\ me[w] = Idle /\ Team /\ Still /\ lock' = lock
           /\ Turn(w) /\ LikeNew(me'[w], "status", clock.start, clock.deleted, FALSE)
<1>1. me[w] = Idle /\ Team /\ Still /\ lock' = lock
  BY DEF DeleteNow, Still, SameStripe, SameAccount, SameMail, SameFaults, billing,
         account, deletion, mail, bounds
<1> DEFINE n == [Idle EXCEPT !.pc = "status", !.start = clock.start, !.gone = clock.deleted,
                             !.req = TRUE]
<1>2. clock.start \in Keys /\ clock.deleted \in BOOLEAN
  BY DEF TypeOK, Clock
<1>3. LikeNew(n, "status", clock.start, clock.deleted, FALSE)
  BY <1>2, OnRequestIs
<1>4. me' = [me EXCEPT ![w] = n]
  BY DEF DeleteNow
<1> HIDE DEF n
<1> QED BY <1>1, <1>3, <1>4, NewWorker

LEMMA OpenGapDoes ==
    ASSUME TypeOK, NEW w \in Workers, OpenGap(w)
    PROVE  me[w].pc = "gap" /\ Still /\ (Ends(w) \/ Goes(w, "warn"))
<1>1. me[w].pc = "gap" /\ Still
  BY DEF OpenGap, Still, SameStripe, SameAccount, SameMail, SameFaults, billing, deletion,
         mail, bounds
<1>2. CASE Return(w)
  BY <1>1, <1>2, Returns
<1>3. CASE Goto(w, "warn") /\ lock' = lock
  BY <1>1, <1>3, GoesOn, PcsAre DEF Goes
<1> QED BY <1>2, <1>3 DEF OpenGap

LEMMA ReloadDoes ==
    ASSUME TypeOK, NEW w \in Workers, Reload(w)
    PROVE  /\ me[w].pc = "warn" /\ Still
           /\ \/ Stops(w)
              \/ /\ Team /\ Mine(w) /\ lock["transition"] = None /\ LeaseTo("transition", w)
                 /\ Turn(w) /\ Like(me'[w], me[w], "claimMail")
<1>1. me[w].pc = "warn" /\ Still
  BY DEF Reload, Still, SameStripe, SameAccount, SameMail, SameFaults, billing, account,
         deletion, mail, bounds
<1>2. CASE Warned(w)
  BY <1>1, <1>2, WarnedIs DEF Stops
<1>3. CASE /\ Team /\ SameClock(w) /\ lock' = [lock EXCEPT !.transition = w]
           /\ Goto(w, "claimMail")
  <2>1. lock["transition"] = None
    BY DEF Reload
  <2> QED BY <1>1, <1>3, <2>1, GoesOn, TakesTransition, PcsAre DEF SameClock, Mine
<1> QED BY <1>2, <1>3 DEF Reload

LEMMA ClaimMailDoes ==
    ASSUME TypeOK, NEW w \in Workers, ClaimMail(w)
    PROVE  /\ me[w].pc = "claimMail" /\ SameStripe /\ SameAccount /\ SameFaults /\ sent' = sent
           /\ box' = IF Claimable(me[w].start) THEN Lease(w, me[w].start) ELSE box
           /\ \/ Stops(w)
              \/ Claimable(me[w].start) /\ Holds(w, "transition") /\ Goes(w, "mail")
<1>1. /\ me[w].pc = "claimMail" /\ SameStripe /\ SameAccount /\ SameFaults /\ sent' = sent
      /\ box' = IF Claimable(me[w].start) THEN Lease(w, me[w].start) ELSE box
  BY DEF ClaimMail, SameStripe, SameAccount, SameFaults, billing, account, deletion, bounds
<1>2. CASE Warned(w)
  BY <1>1, <1>2, WarnedIs DEF Stops
<1>3. CASE /\ Claimable(me[w].start) /\ Holds(w, "transition") /\ Goto(w, "mail")
           /\ lock' = lock
  BY <1>1, <1>3, GoesOn, PcsAre DEF Goes
<1> QED BY <1>2, <1>3 DEF ClaimMail

LEMMA ConfirmDoes ==
    ASSUME TypeOK, NEW w \in Workers, Confirm(w)
    PROVE  /\ me[w] = Idle /\ SameStripe /\ SameAccount /\ SameFaults /\ sent' = sent
           /\ box' = Lease(w, 0) /\ Goes(w, "mail")
BY GoesOn, PcsAre DEF Confirm, SameStripe, SameAccount, SameFaults, billing, account, deletion,
   bounds, Goes

LEMMA MailDoes ==
    ASSUME TypeOK, NEW w \in Workers, Mail(w)
    PROVE  /\ me[w].pc = "mail" /\ SameStripe /\ SameAccount /\ SameFaults /\ box' = box
           /\ sent' = [sent EXCEPT ![me[w].start] = @ + 1] /\ Goes(w, "record")
BY GoesOn, PcsAre DEF Mail, SameStripe, SameAccount, SameFaults, billing, account, deletion,
   bounds, Goes

LEMMA MailFailsDoes ==
    ASSUME TypeOK, NEW w \in Workers, MailFails(w)
    PROVE  /\ me[w].pc = "mail" /\ SameStripe /\ SameAccount /\ sent' = sent
           /\ upsets' = upsets + 1 /\ stalls' = stalls
           /\ box' = IF box[me[w].start].by = w
                     THEN [box EXCEPT ![me[w].start].by = None, ![me[w].start].live = FALSE]
                     ELSE box
           /\ Stops(w)
BY WarnedIs DEF MailFails, SameStripe, SameAccount, billing, account, deletion, Stops

LEMMA RecordDoes ==
    ASSUME TypeOK, NEW w \in Workers, Record(w)
    PROVE  /\ me[w].pc = "record" /\ SameStripe /\ SameFaults /\ sent' = sent
           /\ clock' = clock /\ rest' = rest
           /\ SameClaim /\ audit'.steps = audit.steps
           /\ box' = IF box[me[w].start].by = w
                     THEN [box EXCEPT ![me[w].start] = Completed] ELSE box
           /\ Stops(w)
<1>1. /\ me[w].pc = "record" /\ SameStripe /\ SameFaults /\ sent' = sent
      /\ clock' = clock /\ rest' = rest
      /\ box' = IF box[me[w].start].by = w
                THEN [box EXCEPT ![me[w].start] = Completed] ELSE box
  BY DEF Record, SameStripe, SameFaults, billing, account, bounds
<1>2. audit' = audit \/ audit' = [audit EXCEPT !.notified = TRUE]
  BY DEF Record
<1>3. audit \in AuditRow
  BY DEF TypeOK
<1>4. SameClaim /\ audit'.steps = audit.steps
  BY <1>2, <1>3 DEF AuditRow, SameClaim
<1>5. Stops(w)
  BY WarnedIs DEF Record, Stops
<1> QED BY <1>1, <1>4, <1>5

\* The account as deletionStatus found it.
LEMMA StatusDoes ==
    ASSUME TypeOK, NEW w \in Workers, Status(w)
    PROVE  /\ me[w].pc = "status" /\ Still
           /\ \/ Ends(w)
              \/ /\ lock' = lock /\ Turn(w)
                 /\ LikeStatus(me'[w], me[w], IF Team THEN "account" ELSE "claim",
                               me[w].gone \/ Pending, Team,
                               IF Pending THEN audit.owner \/ audit.auth
                                          ELSE me[w].gone /\ me[w].req)
<1>1. me[w].pc = "status" /\ Still
  BY DEF Status, Still, SameStripe, SameAccount, SameMail, SameFaults, billing, account,
         deletion, mail, bounds
<1>2. CASE Return(w)
  BY <1>1, <1>2, Returns
<1>3. CASE lock' = lock /\ ~Return(w)
  <2> DEFINE pc == IF Team THEN "account" ELSE "claim"
  <2> DEFINE f == IF Pending THEN audit.owner ELSE me[w].req
  <2> DEFINE g == me[w].gone \/ Pending
  <2> DEFINE x == IF Pending THEN audit.owner \/ audit.auth ELSE me[w].gone /\ me[w].req
  <2> DEFINE n == [me[w] EXCEPT !.pc = pc, !.gone = g, !.live = Team, !.force = f, !.final = x]
  <2>1. me' = [me EXCEPT ![w] = n]
    BY <1>3 DEF Status
  <2>2. pc \in Pcs /\ g \in BOOLEAN /\ Team \in BOOLEAN /\ f \in BOOLEAN /\ x \in BOOLEAN
    BY IsWorker, PcsAre DEF TypeOK, AuditRow, Worker, Pending, Team
  <2>3. LikeStatus(n, me[w], pc, g, Team, x)
    <3>1. me[w] \in Worker
      BY IsWorker
    <3> HIDE DEF pc, f, g, x
    <3> QED BY <2>2, <3>1, OnStatusIs, ZenonT(60)
  <2> HIDE DEF n
  <2> QED BY <1>1, <1>3, <2>1, <2>3, Turns DEF LikeStatus
<1> QED BY <1>2, <1>3 DEF Status

LEMMA AccountDoes ==
    ASSUME TypeOK, NEW w \in Workers, Account(w)
    PROVE  /\ me[w].pc = "account" /\ Still
           /\ \/ Ends(w)
              \/ /\ Team /\ lock["account"] = None /\ LeaseTo("account", w) /\ Turn(w)
                 /\ \E pc \in {"promote", "force", "quiesce"} :
                       /\ LikeAccount(me'[w], me[w], pc, Settled)
                       /\ pc = "promote" => me[w].gone
                       /\ pc = "force" => me[w].force
<1>1. me[w].pc = "account" /\ Still
  BY DEF Account, Still, SameStripe, SameAccount, SameMail, SameFaults, billing, account,
         deletion, mail, bounds
<1>2. CASE ~Team
  BY <1>1, <1>2, Returns DEF Account
<1>3. CASE Team
  <2> DEFINE pc == CASE me[w].gone /\ me[w].req /\ ~me[w].force -> "promote"
                     [] me[w].force /\ ~me[w].gone -> "force"
                     [] OTHER -> "quiesce"
  <2> DEFINE n == [me[w] EXCEPT !.settled = Settled, !.pc = pc]
  <2>1. me' = [me EXCEPT ![w] = n] /\ lock["account"] = None /\ LeaseTo("account", w)
    BY <1>3, TakesAccount DEF Account
  <2>2. /\ pc \in {"promote", "force", "quiesce"}
        /\ pc = "promote" => me[w].gone
        /\ pc = "force" => me[w].force
    BY IsWorker DEF Worker
  <2>3. pc \in Pcs /\ Settled \in BOOLEAN
    BY <2>2, PcsAre DEF Settled
  <2>4. LikeAccount(n, me[w], pc, Settled)
    <3> HIDE DEF pc
    <3> QED BY <2>3, IsWorker, OnAccountIs
  <2> HIDE DEF n, pc
  <2>5. Turn(w) /\ me'[w] = n
    BY <2>1, <2>4, Turns DEF LikeAccount
  <2> QED BY <1>1, <1>3, <2>1, <2>2, <2>4, <2>5
<1> QED BY <1>2, <1>3

LEMMA FinalWorker ==
    ASSUME TypeOK, NEW w \in Workers, NEW n, NEW o, NEW pc, NEW gone,
           LikeFinal(n, o, pc, gone), me' = [me EXCEPT ![w] = n]
    PROVE  Turn(w) /\ LikeFinal(me'[w], o, pc, gone)
BY Turns DEF LikeFinal

LEMMA PromoteDoes ==
    ASSUME TypeOK, NEW w \in Workers, Promote(w)
    PROVE  /\ me[w].pc = "promote" /\ SameStripe /\ SameMail /\ SameFaults
           /\ clock' = clock /\ rest' = rest
           /\ \/ Ends(w) /\ audit' = audit
              \/ /\ Team /\ Pending /\ audit' \in AuditRow /\ audit'.state = "pending"
                 /\ audit'.owner /\ audit'.auth /\ audit'.steps = audit.steps
                 /\ lock' = lock /\ Turn(w)
                 /\ LikeFinal(me'[w], me[w], "quiesce", me[w].gone)
<1>1. /\ me[w].pc = "promote" /\ SameStripe /\ SameMail /\ SameFaults
      /\ clock' = clock /\ rest' = rest
  BY DEF Promote, SameStripe, SameMail, SameFaults, billing, account, mail, bounds
<1>2. CASE ~(Team /\ Pending)
  BY <1>1, <1>2, Returns DEF Promote
<1>3. CASE Team /\ Pending
  <2> DEFINE n == [me[w] EXCEPT !.pc = "quiesce", !.force = TRUE, !.final = TRUE]
  <2>1. LikeFinal(n, me[w], "quiesce", me[w].gone)
    BY IsWorker, OnPromoteIs
  <2>2. me' = [me EXCEPT ![w] = n] /\ lock' = lock
    BY <1>3 DEF Promote
  <2> HIDE DEF n
  <2>3. audit' = [audit EXCEPT !.owner = TRUE, !.auth = TRUE] /\ audit \in AuditRow
    BY <1>3 DEF Promote, TypeOK
  <2>4. /\ audit' \in AuditRow /\ audit'.state = audit.state
        /\ audit'.owner /\ audit'.auth /\ audit'.steps = audit.steps
    BY <2>3 DEF AuditRow
  <2> QED BY <1>1, <1>3, <2>1, <2>2, <2>4, FinalWorker DEF Pending
<1> QED BY <1>2, <1>3

\* A claim that is made now.
Claims(w) ==
    /\ clock' \in Clock /\ clock'.start = clock.start /\ clock'.deleted
    /\ audit' \in AuditRow /\ audit'.state = "pending" /\ audit'.owner = me[w].force
    /\ audit'.auth /\ audit'.steps = {}
LEMMA ClaimedIs ==
    ASSUME TypeOK, NEW w \in Workers, Claimed(w)
    PROVE  Claims(w)
<1>1. clock \in Clock /\ clock' = [clock EXCEPT !.deleted = TRUE]
  BY DEF TypeOK, Claimed
<1>2. clock' \in Clock /\ clock'.start = clock.start /\ clock'.deleted
  BY <1>1 DEF Clock
<1>3. me[w].force \in BOOLEAN /\ me[w].start \in Keys
  BY IsWorker DEF Worker
<1>4. audit' = [NoAudit EXCEPT !.state = "pending", !.owner = me[w].force, !.auth = TRUE,
                               !.start = me[w].start]
  BY DEF Claimed
<1>5. audit' = [state |-> "pending", owner |-> me[w].force, auth |-> TRUE,
                start |-> me[w].start, steps |-> {}, notified |-> FALSE]
  BY <1>4 DEF NoAudit
<1>6. audit' \in AuditRow
  BY <1>3, <1>5 DEF AuditRow
<1> QED BY <1>2, <1>5, <1>6 DEF Claims

LEMMA ClaimNowDoes ==
    ASSUME TypeOK, NEW w \in Workers, ClaimNow(w)
    PROVE  /\ me[w].pc = "force" /\ SameStripe /\ SameMail /\ SameFaults /\ rest' = rest
           /\ \/ Ends(w) /\ audit' = audit /\ clock' = clock
              \/ /\ Team /\ Holds(w, "account") /\ Mine(w) /\ lock["transition"] = None
                 /\ Claims(w) /\ lock' = lock /\ Turn(w)
                 /\ LikeFinal(me'[w], me[w], "quiesce", TRUE)
<1>1. me[w].pc = "force" /\ SameStripe /\ SameMail /\ SameFaults /\ rest' = rest
  BY DEF ClaimNow, SameStripe, SameMail, SameFaults, billing, mail, bounds
<1>2. CASE ~(Team /\ Holds(w, "account") /\ Unclaimed(w))
  BY <1>1, <1>2, Returns DEF ClaimNow
<1>3. CASE Team /\ Holds(w, "account") /\ Unclaimed(w)
  <2> DEFINE n == [me[w] EXCEPT !.pc = "quiesce", !.gone = TRUE, !.final = TRUE]
  <2>1. LikeFinal(n, me[w], "quiesce", TRUE)
    BY IsWorker, OnForceIs
  <2>2. me' = [me EXCEPT ![w] = n] /\ lock' = lock /\ Claimed(w) /\ lock["transition"] = None
    BY <1>3 DEF ClaimNow
  <2> HIDE DEF n
  <2> QED BY <1>1, <1>3, <2>1, <2>2, FinalWorker, ClaimedIs DEF Unclaimed, Mine
<1> QED BY <1>2, <1>3

LEMMA ClaimDoes ==
    ASSUME TypeOK, NEW w \in Workers, Claim(w)
    PROVE  /\ me[w].pc = "claim" /\ SameStripe /\ SameMail /\ SameFaults /\ rest' = rest
           /\ \/ (Ends(w) \/ Restores(w, "fail")) /\ audit' = audit /\ clock' = clock
              \/ /\ lock' = lock /\ Turn(w) /\ (me[w].live => Holds(w, "account"))
                 /\ LikeFinal(me'[w], me[w], IF me[w].final \/ ~me[w].live THEN "fence"
                                             ELSE "quiesce", TRUE)
                 /\ \/ /\ ~me[w].gone /\ me[w].due /\ Mine(w) /\ Claims(w)
                       /\ Team => lock["transition"] = None
                    \/ /\ me[w].gone /\ Pending /\ clock' = clock
                       /\ audit' \in AuditRow /\ audit'.state = "pending" /\ audit'.auth
                       /\ audit'.owner = audit.owner /\ audit'.steps = audit.steps
<1>1. me[w].pc = "claim" /\ SameStripe /\ SameMail /\ SameFaults /\ rest' = rest
  BY DEF Claim, SameStripe, SameMail, SameFaults, billing, mail, bounds
<1> DEFINE fresh == ~me[w].gone /\ me[w].due /\ Unclaimed(w)
<1> DEFINE again == me[w].gone /\ Pending
<1>2. CASE UNCHANGED <<clock, audit, busy>> /\ Return(w)
  BY <1>1, <1>2, Returns
<1>3. CASE UNCHANGED <<clock, audit, busy>> /\ RestoreThen(w, "fail") /\ lock' = lock
  BY <1>1, <1>3, RestoresIs
<1>4. CASE /\ me[w].live => Holds(w, "account")
           /\ fresh \/ again
           /\ IF fresh THEN Claimed(w)
              ELSE audit' = [audit EXCEPT !.auth = TRUE] /\ busy' = TRUE /\ UNCHANGED clock
           /\ me' = [me EXCEPT ![w].gone = TRUE, ![w].final = TRUE, ![w].then = "second",
                     ![w].pc = IF me[w].final \/ ~me[w].live THEN "fence" ELSE "quiesce"]
           /\ lock' = lock
  <2> DEFINE pc == IF me[w].final \/ ~me[w].live THEN "fence" ELSE "quiesce"
  <2> DEFINE n == [me[w] EXCEPT !.gone = TRUE, !.final = TRUE, !.then = "second", !.pc = pc]
  <2>1. pc \in Pcs
    BY PcsAre
  <2>2. LikeFinal(n, me[w], pc, TRUE)
    <3>1. me[w] \in Worker
      BY IsWorker
    <3> HIDE DEF pc
    <3> QED BY <2>1, <3>1, OnClaimIs
  <2>3. me' = [me EXCEPT ![w] = n]
    BY <1>4
  <2> HIDE DEF n, pc
  <2>4. Turn(w) /\ LikeFinal(me'[w], me[w], pc, TRUE)
    BY <2>2, <2>3, FinalWorker
  <2>5. CASE fresh
    <3>1. Claims(w) /\ Mine(w)
      BY <1>4, <2>5, ClaimedIs DEF Unclaimed, Mine
    <3>2. Team => lock["transition"] = None
      BY <2>5 DEF Claim
    <3> QED BY <1>1, <1>4, <2>4, <2>5, <3>1, <3>2 DEF pc
  <2>6. CASE again /\ ~fresh
    <3>1. audit' = [audit EXCEPT !.auth = TRUE] /\ audit \in AuditRow /\ clock' = clock
      BY <1>4, <2>6 DEF TypeOK
    <3>2. /\ audit' \in AuditRow /\ audit'.state = audit.state /\ audit'.auth
          /\ audit'.owner = audit.owner /\ audit'.steps = audit.steps
      BY <3>1 DEF AuditRow
    <3> QED BY <1>1, <1>4, <2>4, <2>6, <3>1, <3>2 DEF pc, Pending
  <2> QED BY <1>4, <2>5, <2>6
<1>5. CASE me[w].live /\ ~Holds(w, "account")
  BY <1>2, <1>5 DEF Claim
<1>6. CASE ~(me[w].live /\ ~Holds(w, "account")) /\ Holds(w, "account") = me[w].live
           /\ (fresh \/ again)
  BY <1>4, <1>6 DEF Claim
<1>7. CASE ~(me[w].live /\ ~Holds(w, "account"))
           /\ ~(Holds(w, "account") = me[w].live /\ (fresh \/ again))
  BY <1>2, <1>3, <1>7 DEF Claim
<1> QED BY <1>5, <1>6, <1>7

LEMMA FenceDoes ==
    ASSUME TypeOK, NEW w \in Workers, Fence(w)
    PROVE  /\ me[w].pc = "fence" /\ Still /\ lock["fence"] = None /\ LeaseTo("fence", w)
           /\ Turn(w) /\ Like(me'[w], me[w], "index")
BY GoesOn, TakesFence, PcsAre DEF Fence, Still, SameStripe, SameAccount, SameMail, SameFaults,
   billing, account, deletion, mail, bounds

LEMMA IndexDoes ==
    ASSUME TypeOK, NEW w \in Workers, Index(w)
    PROVE  /\ me[w].pc = "index" /\ SameStripe /\ SameMail /\ SameFaults
           /\ clock' = clock /\ rest' = rest
           /\ SameClaim /\ audit'.steps \subseteq audit.steps \cup {"indexed"}
           /\ \/ Ends(w)
              \/ lock' = lock /\ Turn(w) /\ \E x \in {"artifacts", "customer"} :
                    LikeThen(me'[w], me[w], "control", x)
<1>1. /\ me[w].pc = "index" /\ SameStripe /\ SameMail /\ SameFaults
      /\ clock' = clock /\ rest' = rest
  BY DEF Index, SameStripe, SameMail, SameFaults, billing, account, mail, bounds
<1>2. CASE audit.state = "none"
  <2>1. audit' = audit /\ audit \in AuditRow
    BY <1>2 DEF Index, TypeOK
  <2> QED BY <1>1, <1>2, <2>1, Returns DEF Index, SameClaim
<1>3. CASE audit.state # "none"
  <2>1. SameClaim /\ audit'.steps \subseteq audit.steps \cup {"indexed"}
    BY <1>3, Marks DEF Index, Checkpoints
  <2> DEFINE x == IF "global" \in audit.steps THEN "customer" ELSE "artifacts"
  <2> DEFINE n == [me[w] EXCEPT !.pc = "control", !.then = x]
  <2>2. x \in {"artifacts", "customer"}
    OBVIOUS
  <2>3. LikeThen(n, me[w], "control", x)
    <3>1. me[w] \in Worker
      BY IsWorker
    <3> HIDE DEF x
    <3> QED BY <2>2, <3>1, OnIndexIs
  <2>4. me' = [me EXCEPT ![w] = n] /\ lock' = lock
    BY <1>3 DEF Index
  <2> HIDE DEF n, x
  <2>5. Turn(w) /\ me'[w] = n
    BY <2>3, <2>4, Turns DEF LikeThen
  <2> QED BY <1>1, <2>1, <2>2, <2>3, <2>4, <2>5
<1> QED BY <1>2, <1>3

LEMMA QuiesceDoes ==
    ASSUME TypeOK, NEW w \in Workers, Quiesce(w)
    PROVE  /\ me[w].pc = "quiesce" /\ Still
           /\ \/ Ends(w)
              \/ Holds(w, "account") /\ Goes(w, "look")
              \/ ~me[w].final /\ Settled /\ Pending /\ Restores(w, "cancel")
              \/ ~me[w].final /\ Settled /\ Restores(w, "signal")
<1>1. me[w].pc = "quiesce" /\ Still
  BY DEF Quiesce, Still, SameStripe, SameAccount, SameMail, SameFaults, billing, account,
         deletion, mail, bounds
<1>2. \/ Return(w)
      \/ Holds(w, "account") /\ Goto(w, "look") /\ lock' = lock
      \/ ~me[w].final /\ Settled /\ Pending /\ RestoreThen(w, "cancel") /\ lock' = lock
      \/ ~me[w].final /\ Settled /\ RestoreThen(w, "signal") /\ lock' = lock
  BY DEF Quiesce
<1> QED BY <1>1, <1>2, Returns, GoesOn, RestoresIs, PcsAre DEF Goes

LEMMA LookDoes ==
    ASSUME TypeOK, NEW w \in Workers, Look(w)
    PROVE  /\ me[w].pc = "look" /\ Still
           /\ \/ Ends(w)
              \/ /\ Holds(w, "account")
                 /\ \/ ~me[w].final /\ Restores(w, "recover")
                    \/ /\ me[w].final \/ ~SettledInvoice(w)
                       /\ lock' = lock /\ Turn(w)
                       /\ \E o \in Objects : LikeObj(me'[w], me[w], "note", o)
                    \/ /\ me[w].final /\ inv.status = "open"
                       /\ lock' = lock /\ Turn(w) /\ LikeVoid(me'[w], me[w], inv.no)
                    \/ /\ ~me[w].final => ~SettledInvoice(w)
                       /\ me[w].final => inv.status # "open"
                       /\ Goes(w, "claim")
<1>1. me[w].pc = "look" /\ Still
  BY DEF Look, Still, SameStripe, SameAccount, SameMail, SameFaults, billing, account,
         deletion, mail, bounds
<1>2. CASE ~Holds(w, "account")
  BY <1>1, <1>2, Returns DEF Look
<1>3. CASE Holds(w, "account")
  <2> DEFINE todo == ToHold(me[w].final)
  <2>1. lock' = lock
    BY <1>3 DEF Look
  <2>2. CASE ~me[w].final /\ SettledInvoice(w)
    <3>1. RestoreThen(w, "recover")
      BY <1>3, <2>2 DEF Look, Irrevocable
    <3> HIDE DEF todo
    <3> QED BY <1>1, <1>3, <2>1, <2>2, <3>1, RestoresIs
  <2>3. CASE todo # {} /\ (me[w].final \/ ~SettledInvoice(w))
    <3>1. PICK o \in todo : me' = [me EXCEPT ![w].pc = "note", ![w].obj = o, ![w].no = inv.no]
      BY <1>3, <2>3 DEF Look
    <3> DEFINE n == [me[w] EXCEPT !.pc = "note", !.obj = o, !.no = inv.no]
    <3>2. o \in Objects /\ inv.no \in Keys
      BY DEF ToHold, TypeOK, InvoiceRow
    <3>3. me[w] \in Worker
      BY IsWorker
    <3>4. LikeObj(n, me[w], "note", o)
      BY <3>2, <3>3, OnNoteIs
    <3>5. me' = [me EXCEPT ![w] = n]
      BY <3>1
    <3> HIDE DEF n
    <3>6. Turn(w) /\ me'[w] = n
      BY <3>4, <3>5, Turns DEF LikeObj
    <3> QED BY <1>1, <1>3, <2>1, <2>3, <3>2, <3>4, <3>6
  <2>4. CASE todo = {} /\ me[w].final /\ inv.status = "open"
    <3> DEFINE n == [me[w] EXCEPT !.pc = "void", !.no = inv.no]
    <3>1. me' = [me EXCEPT ![w] = n]
      BY <1>3, <2>4 DEF Look, Irrevocable
    <3>2. inv.no \in Keys /\ me[w] \in Worker
      BY IsWorker DEF TypeOK, InvoiceRow
    <3>3. LikeVoid(n, me[w], inv.no)
      BY <3>2, OnVoidIs
    <3> HIDE DEF n
    <3>4. Turn(w) /\ me'[w] = n
      BY <3>1, <3>3, Turns DEF LikeVoid
    <3> QED BY <1>1, <1>3, <2>1, <2>4, <3>3, <3>4
  <2>5. CASE /\ ~(~me[w].final /\ SettledInvoice(w))
             /\ ~(todo # {} /\ (me[w].final \/ ~SettledInvoice(w)))
             /\ ~(todo = {} /\ me[w].final /\ inv.status = "open")
    <3>1. Goto(w, "claim")
      BY <1>3, <2>5 DEF Look, Irrevocable
    <3>2. Goes(w, "claim")
      BY <2>1, <3>1, GoesOn, PcsAre DEF Goes
    <3> HIDE DEF todo
    <3> QED BY <1>1, <1>3, <2>5, <3>2
  <2> QED BY <2>2, <2>3, <2>4, <2>5
<1> QED BY <1>2, <1>3

LEMMA NoteDoes ==
    ASSUME TypeOK, NEW w \in Workers, Note(w)
    PROVE  /\ me[w].pc = "note" /\ SameAccount /\ SameMail /\ SameFaults
           /\ inv' = inv /\ bill' = bill /\ held' = held
           /\ noted' = IF Team THEN noted \cup {me[w].obj} ELSE noted
           /\ Ends(w) \/ (Holds(w, "account") /\ Goes(w, "hold"))
<1>1. /\ me[w].pc = "note" /\ SameAccount /\ SameMail /\ SameFaults
      /\ inv' = inv /\ bill' = bill /\ held' = held
      /\ noted' = IF Team THEN noted \cup {me[w].obj} ELSE noted
  BY DEF Note, Noted, SameAccount, SameMail, SameFaults, account, deletion, mail, bounds
<1>2. Return(w) \/ (Holds(w, "account") /\ Goto(w, "hold") /\ lock' = lock)
  BY DEF Note
<1> QED BY <1>1, <1>2, Returns, GoesOn, PcsAre DEF Goes

LEMMA FailedIs ==
    ASSUME TypeOK, NEW w \in Workers, Failed(w)
    PROVE  Ends(w) \/ (~me[w].final /\ Restores(w, "fail"))
<1>1. Return(w) \/ (~me[w].final /\ RestoreThen(w, "fail") /\ lock' = lock)
  BY DEF Failed
<1> QED BY <1>1, Returns, RestoresIs

LEMMA HoldDoes ==
    ASSUME TypeOK, NEW w \in Workers, Hold(w)
    PROVE  /\ me[w].pc = "hold" /\ SameAccount /\ SameMail /\ SameFaults
           /\ inv' = inv /\ bill' = bill /\ noted' = noted
           /\ held' = held \/ held' = held \cup {me[w].obj}
           /\ Goes(w, "look") \/ Ends(w) \/ (~me[w].final /\ Restores(w, "fail"))
<1>1. /\ me[w].pc = "hold" /\ SameAccount /\ SameMail /\ SameFaults
      /\ inv' = inv /\ bill' = bill /\ noted' = noted
  BY DEF Hold, SameAccount, SameMail, SameFaults, account, deletion, mail, bounds
<1>2. held' = held \/ held' = held \cup {me[w].obj}
  BY DEF Hold
<1>3. Failed(w) \/ (Goto(w, "look") /\ lock' = lock)
  BY DEF Hold
<1> QED BY <1>1, <1>2, <1>3, FailedIs, GoesOn, PcsAre DEF Goes

LEMMA StripeFailsDoes ==
    ASSUME TypeOK, NEW w \in Workers, StripeFails(w)
    PROVE  /\ me[w].pc \in {"look", "hold", "restore", "void", "customer"}
           /\ SameStripe /\ SameAccount /\ SameMail
           /\ upsets' = upsets + 1 /\ stalls' = stalls
           /\ \/ Ends(w)
              \/ /\ me[w].pc \in {"look", "hold"} /\ ~me[w].final
                 /\ Restores(w, "fail")
<1>1. /\ me[w].pc \in {"look", "hold", "restore", "void", "customer"}
      /\ SameStripe /\ SameAccount /\ SameMail
      /\ upsets' = upsets + 1 /\ stalls' = stalls
  BY DEF StripeFails, SameStripe, SameAccount, SameMail, billing, account, deletion, mail
<1>2. Return(w) \/ (me[w].pc \in {"look", "hold"} /\ Failed(w))
  BY DEF StripeFails
<1> QED BY <1>1, <1>2, FailedIs, Returns

\* The last invoice is voided; or it was paid meanwhile, and the claim is reopened.
LEMMA VoidDoes ==
    ASSUME TypeOK, NEW w \in Workers, Void(w)
    PROVE  /\ me[w].pc = "void" /\ SameMail /\ SameFaults
           /\ bill' = bill /\ noted' = noted /\ clock' = clock /\ rest' = rest
           /\ \/ /\ inv.no = me[w].no /\ inv.status = "open" /\ held' = held \ {"invoice"}
                 /\ inv' \in InvoiceRow /\ inv'.no = inv.no /\ inv'.status = "void"
                 /\ audit' = audit /\ Goes(w, "look")
              \/ /\ ~(inv.no = me[w].no /\ inv.status = "open") /\ SettledInvoice(w)
                 /\ inv' = inv /\ held' = held
                 /\ Pending /\ ~audit.owner /\ audit.auth /\ "control" \notin audit.steps
                 /\ audit' \in AuditRow /\ audit'.state = "pending" /\ ~audit'.owner
                 /\ ~audit'.auth /\ audit'.steps = audit.steps
                 /\ Restores(w, "recover")
              \/ inv' = inv /\ held' = held /\ audit' = audit /\ Ends(w)
<1> DEFINE reopens == ~Payable(w) /\ SettledInvoice(w) /\ Pending /\ ~audit.owner /\ audit.auth
                         /\ audit.steps \cap {"control", "local", "provider"} = {}
<1>1. /\ me[w].pc = "void" /\ SameMail /\ SameFaults
      /\ bill' = bill /\ noted' = noted /\ clock' = clock /\ rest' = rest
  BY DEF Void, SameMail, SameFaults, account, mail, bounds
<1>2. CASE Payable(w)
  <2>1. inv' = [inv EXCEPT !.status = "void"] /\ inv \in InvoiceRow
    BY <1>2 DEF Void, TypeOK
  <2>2. inv' \in InvoiceRow /\ inv'.no = inv.no /\ inv'.status = "void"
    BY <2>1 DEF InvoiceRow
  <2>3. held' = held \ {"invoice"} /\ audit' = audit /\ Goto(w, "look") /\ lock' = lock
    BY <1>2 DEF Void
  <2>4. Goes(w, "look")
    BY <2>3, GoesOn, PcsAre DEF Goes
  <2> QED BY <1>1, <1>2, <2>2, <2>3, <2>4 DEF Payable
<1>3. CASE reopens
  <2>1. audit' = [audit EXCEPT !.auth = FALSE] /\ audit \in AuditRow
    BY <1>3 DEF Void, TypeOK
  <2>2. /\ audit' \in AuditRow /\ audit'.state = audit.state /\ audit'.owner = audit.owner
        /\ ~audit'.auth /\ audit'.steps = audit.steps
    BY <2>1 DEF AuditRow
  <2>3. inv' = inv /\ held' = held /\ RestoreThen(w, "recover") /\ lock' = lock
    BY <1>3 DEF Void
  <2>4. Restores(w, "recover")
    BY <2>3, RestoresIs
  <2>5. "control" \notin audit.steps
    BY <1>3
  <2> QED BY <1>1, <1>3, <2>2, <2>3, <2>4, <2>5 DEF Payable, Pending
<1>4. CASE ~Payable(w) /\ ~reopens
  <2>1. inv' = inv /\ held' = held /\ audit' = audit /\ Return(w)
    BY <1>4 DEF Void
  <2> QED BY <1>1, <2>1, Returns
<1> QED BY <1>2, <1>3, <1>4

LEMMA RestoreDoes ==
    ASSUME TypeOK, NEW w \in Workers, KnownOK(w), Restore(w)
    PROVE  /\ me[w].pc = "restore" /\ SameAccount /\ SameMail /\ SameFaults
           /\ inv' = inv /\ bill' = bill /\ noted' = noted
           /\ \/ held' = held /\ Ends(w)
              \/ /\ held' = held /\ me[w].then \in {"cancel", "signal", "recover"}
                 /\ Goes(w, me[w].then)
              \/ /\ Holds(w, "account") /\ lock' = lock /\ Turn(w)
                 /\ \E o \in Objects : /\ held' = held \ {o}
                                       /\ LikeObj(me'[w], me[w], "forget", o)
<1>1. /\ me[w].pc = "restore" /\ SameAccount /\ SameMail /\ SameFaults
      /\ inv' = inv /\ bill' = bill /\ noted' = noted
  BY DEF Restore, SameAccount, SameMail, SameFaults, account, deletion, mail, bounds
<1>2. CASE held' = held /\ Return(w)
  BY <1>1, <1>2, Returns
<1>3. CASE noted = {} /\ me[w].then # "fail"
  <2>1. me[w].then \in {"cancel", "signal", "recover"}
    BY <1>1, <1>3 DEF KnownOK
  <2>2. held' = held /\ Goto(w, me[w].then) /\ lock' = lock
    BY <1>3 DEF Restore
  <2>3. me[w].then \in Pcs
    BY <2>1, PcsAre
  <2>4. Goes(w, me[w].then)
    BY <2>2, <2>3, GoesOn DEF Goes
  <2> QED BY <1>1, <2>1, <2>2, <2>4
<1>4. CASE noted # {} /\ Holds(w, "account")
  <2>1. PICK o \in noted : /\ held' = held \ {o} /\ lock' = lock
                           /\ me' = [me EXCEPT ![w].pc = "forget", ![w].obj = o]
    BY <1>4 DEF Restore
  <2> DEFINE n == [me[w] EXCEPT !.pc = "forget", !.obj = o]
  <2>2. o \in Objects /\ me[w] \in Worker /\ "forget" \in Pcs
    BY IsWorker, PcsAre DEF TypeOK
  <2>3. LikeObj(n, me[w], "forget", o)
    BY <2>2, OnObjIs
  <2>4. me' = [me EXCEPT ![w] = n]
    BY <2>1
  <2> HIDE DEF n
  <2>5. Turn(w) /\ me'[w] = n
    BY <2>3, <2>4, Turns DEF LikeObj
  <2> QED BY <1>1, <1>4, <2>1, <2>2, <2>3, <2>5
<1>5. CASE ~(noted = {} /\ me[w].then # "fail") /\ ~(noted # {} /\ Holds(w, "account"))
  BY <1>2, <1>5 DEF Restore
<1> QED BY <1>3, <1>4, <1>5

LEMMA ForgetDoes ==
    ASSUME TypeOK, NEW w \in Workers, Forget(w)
    PROVE  /\ me[w].pc = "forget" /\ SameAccount /\ SameMail /\ SameFaults
           /\ inv' = inv /\ bill' = bill /\ held' = held /\ noted' = noted \ {me[w].obj}
           /\ Goes(w, "restore")
BY GoesOn, PcsAre DEF Forget, SameAccount, SameMail, SameFaults, account, deletion, mail,
   bounds, Goes

LEMMA RecoverDoes ==
    ASSUME TypeOK, NEW w \in Workers, Recover(w)
    PROVE  /\ me[w].pc = "recover" /\ SameAccount /\ SameMail /\ SameFaults
           /\ inv' = inv /\ held' = held /\ noted' = noted
           /\ bill' = bill \/ (bill' \in MirrorRow /\ bill'.no = inv.no)
           /\ \/ Ends(w)
              \/ /\ Holds(w, "account")
                 /\ audit.state = "none" \/ (Pending /\ ~audit.owner /\ ~audit.auth)
                 /\ Pending => Settled
                 /\ Goes(w, IF Pending THEN "cancel" ELSE "signal")
<1>1. /\ me[w].pc = "recover" /\ SameAccount /\ SameMail /\ SameFaults
      /\ inv' = inv /\ held' = held /\ noted' = noted
  BY DEF Recover, SameAccount, SameMail, SameFaults, account, deletion, mail, bounds
<1>2. bill' = bill \/ (bill' \in MirrorRow /\ bill'.no = inv.no)
  <2>1. inv.no \in Keys
    BY DEF TypeOK, InvoiceRow
  <2>2. Mirror(inv.no, Settled) \in MirrorRow /\ Mirror(inv.no, Settled).no = inv.no
    BY <2>1 DEF Mirror, MirrorRow
  <2>3. bill' = bill \/ bill' = Mirror(inv.no, Settled)
    BY DEF Recover
  <2> QED BY <2>2, <2>3
<1>3. CASE Return(w)
  BY <1>1, <1>2, <1>3, Returns
<1>4. CASE ~Return(w)
  <2> DEFINE pc == IF Pending THEN "cancel" ELSE "signal"
  <2> DEFINE x == IF Paying THEN "succeeded" ELSE "failed"
  <2> DEFINE n == [me[w] EXCEPT !.pc = pc, !.sig = x]
  <2>1. Holds(w, "account") /\ me' = [me EXCEPT ![w] = n] /\ lock' = lock
    BY <1>4 DEF Recover
  <2>2. pc \in Pcs /\ x \in {"succeeded", "failed"} /\ me[w] \in Worker
    BY PcsAre, IsWorker
  <2>3. Like(n, me[w], pc)
    <3> HIDE DEF pc, x
    <3> QED BY <2>2, OnSigIs
  <2> HIDE DEF n
  <2>4. Turn(w) /\ me'[w] = n
    BY <2>1, <2>3, Turns DEF Like
  <2>5. Goes(w, pc)
    <3> HIDE DEF pc
    <3> QED BY <2>1, <2>3, <2>4 DEF Goes
  <2>6. /\ audit.state = "none" \/ (Pending /\ ~audit.owner /\ ~audit.auth)
        /\ Pending => Settled
    BY <1>4 DEF Recover
  <2> QED BY <1>1, <1>2, <2>1, <2>5, <2>6
<1> QED BY <1>3, <1>4

LEMMA CancelDoes ==
    ASSUME TypeOK, NEW w \in Workers, Cancel(w)
    PROVE  /\ me[w].pc = "cancel" /\ SameStripe /\ SameFaults /\ sent' = sent
           /\ rest' = rest /\ Ends(w)
           /\ \/ /\ Team /\ Pending /\ ~audit.owner /\ ~audit.auth
                 /\ clock' = Stopped /\ audit' = NoAudit /\ box' = Cancelled(box)
                 /\ lock["transition"] = None
              \/ clock' = clock /\ audit' = audit /\ box' = box
BY Returns DEF Cancel, SameStripe, SameFaults, billing, bounds

LEMMA RemoveControlDoes ==
    ASSUME TypeOK, NEW w \in Workers, RemoveControl(w)
    PROVE  /\ me[w].pc = "control" /\ SameMail /\ SameFaults
           /\ inv' = inv /\ held' = held /\ bill' \in MirrorRow /\ bill'.no = 0
           /\ noted' = {} /\ rest' = rest \ {"team"} /\ clock' = Stopped
           /\ SameClaim /\ audit'.steps \subseteq audit.steps \cup {"control"}
           /\ lock' \in [Locks -> Workers \cup {None}]
           /\ lock'["account"] = None /\ lock'["transition"] = None
           /\ Turn(w) /\ Like(me'[w], me[w], "files")
<1>1. /\ me[w].pc = "control" /\ SameMail /\ SameFaults
      /\ inv' = inv /\ held' = held /\ noted' = {} /\ rest' = rest \ {"team"}
      /\ clock' = Stopped
  BY DEF RemoveControl, SameMail, SameFaults, mail, bounds
<1>2. bill' \in MirrorRow /\ bill'.no = 0
  BY NumbersAre DEF RemoveControl, MirrorRow
<1>3. SameClaim /\ audit'.steps \subseteq audit.steps \cup {"control"}
  BY Marks DEF RemoveControl, Checkpoints
<1>4. /\ lock' \in [Locks -> Workers \cup {None}]
      /\ lock'["account"] = None /\ lock'["transition"] = None
  BY LocksAre DEF RemoveControl, TypeOK
<1>5. Turn(w) /\ Like(me'[w], me[w], "files")
  BY GoesOn, PcsAre DEF RemoveControl
<1> QED BY <1>1, <1>2, <1>3, <1>4, <1>5

\* Where the destruction goes on, and what it has removed by then.
LEMMA FollowingIs ==
    ASSUME NEW w
    PROVE  /\ Following(w)["files"] = "local" /\ Following(w)["local"] = me[w].then
           /\ Following(w)["artifacts"] = "global" /\ Following(w)["global"] = "customer"
           /\ Following(w)["customer"] = "removed" /\ Following(w)["removed"] = "provider"
           /\ Following(w)["provider"] = "finish"
BY DEF Following

LEMMA RemoveDoes ==
    ASSUME TypeOK, NEW w \in Workers, Remove(w)
    PROVE  /\ me[w].pc \in {"files", "artifacts", "customer"} /\ SameStripe /\ SameMail
           /\ SameFaults /\ clock' = clock /\ audit' = audit /\ rest' \subseteq rest
           /\ rest' = rest \ {me[w].pc} \/ (rest' = rest /\ "removed" \in audit.steps
                                            /\ me[w].pc = "customer")
           /\ Goes(w, Following(w)[me[w].pc])
<1>1. /\ me[w].pc \in {"files", "artifacts", "customer"} /\ SameStripe /\ SameMail
      /\ SameFaults /\ clock' = clock /\ audit' = audit
      /\ rest' = rest \ {me[w].pc} \/ (rest' = rest /\ "removed" \in audit.steps
                                       /\ me[w].pc = "customer")
      /\ Goto(w, Following(w)[me[w].pc]) /\ lock' = lock
  BY DEF Remove, SameStripe, SameMail, SameFaults, billing, account, mail, bounds
<1>2. Following(w)[me[w].pc] \in Pcs
  BY <1>1, FollowingIs, PcsAre
<1>3. rest' \subseteq rest
  BY <1>1
<1> QED BY <1>1, <1>2, <1>3, GoesOn DEF Goes

LEMMA MarkDoes ==
    ASSUME TypeOK, NEW w \in Workers, KnownOK(w), Mark(w)
    PROVE  /\ me[w].pc \in {"local", "global", "removed", "provider"} /\ SameStripe
           /\ SameMail /\ SameFaults /\ clock' = clock /\ rest' = rest
           /\ SameClaim /\ audit'.steps \in {audit.steps, audit.steps \cup {me[w].pc}}
           /\ me[w].pc = "local" => me[w].then \in {"artifacts", "customer"}
           /\ Goes(w, Following(w)[me[w].pc])
<1>1. /\ me[w].pc \in {"local", "global", "removed", "provider"} /\ SameStripe
      /\ SameMail /\ SameFaults /\ clock' = clock /\ rest' = rest
      /\ Goto(w, Following(w)[me[w].pc]) /\ lock' = lock
  BY DEF Mark, SameStripe, SameMail, SameFaults, billing, account, mail, bounds
<1>2. me[w].pc = "local" => me[w].then \in {"artifacts", "customer"}
  BY DEF KnownOK
<1>3. Following(w)[me[w].pc] \in Pcs
  BY <1>1, <1>2, FollowingIs, PcsAre
<1>4. SameClaim /\ audit'.steps \in {audit.steps, audit.steps \cup {me[w].pc}}
  BY <1>1, Marks DEF Mark, Checkpoints
<1> QED BY <1>1, <1>2, <1>3, <1>4, GoesOn DEF Goes

LEMMA FinishDoes ==
    ASSUME TypeOK, NEW w \in Workers, Finish(w)
    PROVE  /\ me[w].pc = "finish" /\ SameStripe /\ SameFaults /\ sent' = sent
           /\ clock' = clock /\ rest' = rest /\ Ends(w)
           /\ \/ /\ AllMarked /\ audit.state # "none"
                 /\ audit' \in AuditRow /\ audit'.state = "done" /\ audit'.owner = audit.owner
                 /\ audit'.auth = audit.auth /\ audit'.steps = audit.steps
                 /\ box' = [c \in Keys |-> IF c # 0 THEN NoRow
                               ELSE IF box[0] = NoRow THEN [NoRow EXCEPT !.state = "open"]
                               ELSE box[0]]
              \/ audit' = audit /\ box' = box
<1>1. /\ me[w].pc = "finish" /\ SameStripe /\ SameFaults /\ sent' = sent
      /\ clock' = clock /\ rest' = rest /\ Ends(w)
  BY Returns DEF Finish, SameStripe, SameFaults, billing, account, bounds
<1>2. CASE AllMarked /\ audit.state # "none"
  <2>1. audit' = [audit EXCEPT !.state = "done"] /\ audit \in AuditRow
    BY <1>2 DEF Finish, TypeOK
  <2>2. /\ audit' \in AuditRow /\ audit'.state = "done" /\ audit'.owner = audit.owner
        /\ audit'.auth = audit.auth /\ audit'.steps = audit.steps
    BY <2>1 DEF AuditRow
  <2>3. box' = [c \in Keys |-> IF c # 0 THEN NoRow
                   ELSE IF box[0] = NoRow THEN [NoRow EXCEPT !.state = "open"]
                   ELSE box[0]]
    BY <1>2 DEF Finish
  <2> QED BY <1>1, <1>2, <2>2, <2>3
<1>3. CASE ~(AllMarked /\ audit.state # "none")
  BY <1>1, <1>3 DEF Finish
<1> QED BY <1>2, <1>3

LEMMA CrashDoes ==
    ASSUME TypeOK, NEW w \in Workers, Crash(w)
    PROVE  /\ SameStripe /\ SameAccount /\ sent' = sent
           /\ upsets' = upsets + 1 /\ stalls' = stalls
           /\ box' = Lost(w) /\ Ends(w)
BY Returns DEF Crash, SameStripe, SameAccount, account, deletion

LEMMA StallDoes ==
    ASSUME TypeOK, NEW w \in Workers, Stall(w)
    PROVE  /\ SameStripe /\ SameAccount /\ sent' = sent
           /\ upsets' = upsets /\ stalls' = stalls + 1
           /\ box' = Lost(w) /\ me' = me /\ lock' = Free(w, {"account", "transition"})
BY DEF Stall, SameStripe, SameAccount, billing, account, deletion

LEMMA LapseDoes ==
    ASSUME TypeOK, Lapse
    PROVE  /\ bill' = bill /\ held' = held /\ noted' = noted /\ SameAccount /\ SameMail
           /\ SameFaults /\ lock' = lock /\ me' = me
           /\ Settled /\ held = {} /\ clock = Stopped /\ Team
           /\ inv' \in InvoiceRow /\ inv'.no = inv.no + 1 /\ inv'.status = "open"
<1>1. /\ bill' = bill /\ held' = held /\ noted' = noted /\ SameAccount /\ SameMail
      /\ SameFaults /\ lock' = lock /\ me' = me
      /\ Settled /\ held = {} /\ clock = Stopped /\ Team
  BY DEF Lapse, SameAccount, SameMail, SameFaults, deletion, mail, bounds
<1>2. inv' = [no |-> inv.no + 1, status |-> "open", late |-> FALSE]
  BY DEF Lapse
<1>3. inv.no + 1 \in Keys
  BY DeletionAssumption DEF Lapse, TypeOK, InvoiceRow, Keys
<1>4. inv' \in InvoiceRow /\ inv'.no = inv.no + 1 /\ inv'.status = "open"
  BY <1>2, <1>3 DEF InvoiceRow
<1> QED BY <1>1, <1>4

LEMMA PayDoes ==
    ASSUME TypeOK, Pay
    PROVE  /\ bill' = bill /\ noted' = noted /\ SameAccount /\ SameMail /\ SameFaults
           /\ lock' = lock /\ me' = me /\ held' = held \ {"invoice"}
           /\ inv.status = "open" /\ inv' \in InvoiceRow
           /\ inv'.no = inv.no /\ inv'.status = "paid"
<1>1. /\ bill' = bill /\ noted' = noted /\ SameAccount /\ SameMail /\ SameFaults
      /\ lock' = lock /\ me' = me /\ held' = held \ {"invoice"} /\ inv.status = "open"
  BY DEF Pay, SameAccount, SameMail, SameFaults, account, deletion, mail, bounds
<1>2. inv' = [inv EXCEPT !.status = "paid", !.late = age = 2] /\ inv \in InvoiceRow
  BY DEF Pay, TypeOK
<1>3. inv' \in InvoiceRow /\ inv'.no = inv.no /\ inv'.status = "paid"
  BY <1>2 DEF InvoiceRow
<1> QED BY <1>1, <1>3

LEMMA TickDoes ==
    ASSUME TypeOK, Tick
    PROVE  Still /\ lock' = lock /\ me' = me /\ age' \in 0..2
BY DEF TypeOK, Tick, Still, SameStripe, SameAccount, SameMail, SameFaults, billing, deletion,
   mail, bounds

-----------------------------------------------------------------------------
(* The steps of a worker, and the types they keep. *)

Acts(w) == Work(w) \/ Fault(w) \/ Start(w) \/ DeleteNow(w)

LEMMA StepIs ==
    ASSUME Next
    PROVE  Lapse \/ Pay \/ Tick \/ \E w \in Workers : Acts(w)
BY DEF Next, Acts, Workers

LEMMA ActIs ==
    ASSUME NEW w, Acts(w)
    PROVE  \/ Signal(w) \/ Apply(w) \/ CancelMail(w) \/ CloseGap(w) \/ Hook(w)
           \/ ReadProvider(w) \/ Save(w) \/ Resume(w) \/ Advance(w) \/ DeleteNow(w)
           \/ OpenGap(w) \/ Reload(w) \/ ClaimMail(w) \/ Confirm(w) \/ Mail(w)
           \/ MailFails(w) \/ Record(w) \/ Status(w) \/ Account(w) \/ Promote(w)
           \/ ClaimNow(w) \/ Claim(w) \/ Fence(w) \/ Index(w) \/ Quiesce(w) \/ Look(w)
           \/ Note(w) \/ Hold(w) \/ StripeFails(w) \/ Void(w) \/ Restore(w) \/ Forget(w)
           \/ Recover(w) \/ Cancel(w) \/ RemoveControl(w) \/ Remove(w) \/ Mark(w)
           \/ Finish(w) \/ Crash(w) \/ Stall(w)
BY DEF Acts, Work, Fault, Start, Lifecycle, Reconcile, Warn, Calm, Purge

\* A lease is taken when it is free, and given back by its holder.
Locking(w) ==
    /\ lock' \in [Locks -> Workers \cup {None}]
    /\ \A k \in Locks : \/ lock'[k] = lock[k]
                        \/ lock[k] = w /\ lock'[k] = None
                        \/ lock[k] = None /\ lock'[k] = w

LEMMA EndsLocks == ASSUME TypeOK, NEW w \in Workers, Ends(w) PROVE Locking(w)
<1>1. lock' = Free(w, Locks) /\ Locks \in SUBSET Locks
  BY DEF Ends
<1> QED BY <1>1, FreeIs DEF Locking

LEMMA StopsLocks == ASSUME TypeOK, NEW w \in Workers, Stops(w) PROVE Locking(w)
<1>1. lock' = Free(w, {"transition"}) /\ {"transition"} \in SUBSET Locks
  BY LocksAre DEF Stops
<1> QED BY <1>1, FreeIs DEF Locking

LEMMA SameLocks == ASSUME TypeOK, NEW w, lock' = lock PROVE Locking(w)
BY DEF TypeOK, Locking

LEMMA TakesLocks ==
    ASSUME NEW w, NEW k \in Locks, lock[k] = None, LeaseTo(k, w) PROVE Locking(w)
BY DEF LeaseTo, Locking

\* The rows of the outbox.
LEMMA RowsAre ==
    /\ NoRow \in OutboxRow /\ NoRow.state = "none" /\ NoRow.by = None /\ NoRow.live = FALSE
    /\ Completed \in OutboxRow /\ Completed.state = "done" /\ Completed.by = None
    /\ Completed.live = FALSE
    /\ [NoRow EXCEPT !.state = "open"] \in OutboxRow
    /\ [NoRow EXCEPT !.state = "open"].live = FALSE
    /\ [NoRow EXCEPT !.state = "open"].by = None
BY DEF NoRow, Completed, OutboxRow

LEMMA CancelledIs ==
    ASSUME TypeOK
    PROVE  /\ Cancelled(box) \in [Keys -> OutboxRow]
           /\ \A c \in Keys : Cancelled(box)[c] = IF box[c].state = "open" THEN NoRow ELSE box[c]
BY RowsAre DEF TypeOK, Cancelled

LEMMA LeaseIs ==
    ASSUME TypeOK, NEW w \in Workers, NEW c \in Keys
    PROVE  /\ Lease(w, c) \in [Keys -> OutboxRow]
           /\ Lease(w, c)[c].state = "open" /\ Lease(w, c)[c].by = w /\ Lease(w, c)[c].live
           /\ \A d \in Keys \ {c} : Lease(w, c)[d] = box[d]
<1> DEFINE r == [state |-> "open", by |-> w, live |-> TRUE]
<1>1. r \in OutboxRow
  BY DEF OutboxRow
<1>2. r.state = "open" /\ r.by = w /\ r.live = TRUE
  OBVIOUS
<1>3. Lease(w, c) = [box EXCEPT ![c] = r]
  BY DEF Lease
<1> HIDE DEF r
<1> QED BY <1>1, <1>2, <1>3 DEF TypeOK

LEMMA GiveBackIs ==
    ASSUME TypeOK, NEW c \in Keys,
           box' = [box EXCEPT ![c].by = None, ![c].live = FALSE]
    PROVE  /\ box' \in [Keys -> OutboxRow] /\ box'[c].state = box[c].state /\ ~box'[c].live
           /\ \A d \in Keys \ {c} : box'[d] = box[d]
<1> DEFINE r == [box[c] EXCEPT !.by = None, !.live = FALSE]
<1>1. box[c] \in OutboxRow
  BY DEF TypeOK
<1>2. r \in OutboxRow /\ r.state = box[c].state /\ r.live = FALSE
  BY <1>1 DEF OutboxRow
<1>3. box' = [box EXCEPT ![c] = r]
  OBVIOUS
<1> HIDE DEF r
<1> QED BY <1>2, <1>3 DEF TypeOK

LEMMA LostIs ==
    ASSUME TypeOK, NEW w \in Workers
    PROVE  /\ Lost(w) \in [Keys -> OutboxRow]
           /\ \A c \in Keys : /\ Lost(w)[c].state = box[c].state /\ Lost(w)[c].by = box[c].by
                              /\ Lost(w)[c].live => box[c].live /\ box[c].by # w
                              /\ box[c].by # w => Lost(w)[c] = box[c]
<1>1. ASSUME NEW c \in Keys
      PROVE  /\ [box[c] EXCEPT !.live = FALSE] \in OutboxRow
             /\ [box[c] EXCEPT !.live = FALSE].state = box[c].state
             /\ [box[c] EXCEPT !.live = FALSE].by = box[c].by
             /\ [box[c] EXCEPT !.live = FALSE].live = FALSE
             /\ box[c] \in OutboxRow
  <2>1. box[c] \in OutboxRow
    BY DEF TypeOK
  <2> QED BY <2>1 DEF OutboxRow
<1>2. \A c \in Keys : Lost(w)[c] = IF box[c].by = w THEN [box[c] EXCEPT !.live = FALSE]
                                                    ELSE box[c]
  BY DEF Lost
<1>3. Lost(w) \in [Keys -> OutboxRow]
  BY <1>1 DEF Lost
<1>4. \A c \in Keys : box[c].live \in BOOLEAN
  BY <1>1 DEF OutboxRow
<1> QED BY <1>1, <1>2, <1>3, <1>4

LEMMA FinishedIs ==
    ASSUME TypeOK,
           box' = [c \in Keys |-> IF c # 0 THEN NoRow
                      ELSE IF box[0] = NoRow THEN [NoRow EXCEPT !.state = "open"] ELSE box[0]]
    PROVE  box' \in [Keys -> OutboxRow] /\ \A c \in Lapses : box'[c] = NoRow
<1>1. \A c \in Lapses : c \in Keys /\ c # 0
  BY NumbersAre DEF Lapses
<1>2. box[0] \in OutboxRow
  BY NumbersAre DEF TypeOK
<1> QED BY <1>1, <1>2, RowsAre

\* The variables that no invariant is about.
SmallOK ==
    /\ age' \in 0..2 /\ gap' \in [Lapses -> {"none", "open", "ended"}]
    /\ news' \in BOOLEAN /\ busy' \in BOOLEAN
LEMMA SmallTypes ==
    ASSUME TypeOK, NEW w \in Workers, Acts(w)
    PROVE  SmallOK
<1> USE DEF TypeOK, SmallOK
<1>1. CASE Signal(w)
  BY <1>1 DEF Signal, billing, account, deletion
<1>2. CASE Apply(w)
  BY <1>2, ApplyDoes DEF Apply, deletion
<1>3. CASE CancelMail(w)
  BY <1>3 DEF CancelMail, billing, account, deletion
<1>4. CASE CloseGap(w)
  BY <1>4 DEF CloseGap, Ended, billing, deletion
<1>5. CASE Hook(w)
  BY <1>5 DEF Hook, billing, account, deletion
<1>6. CASE ReadProvider(w)
  BY <1>6 DEF ReadProvider, billing, account, deletion
<1>7. CASE Save(w)
  BY <1>7 DEF Save, billing, account, deletion
<1>8. CASE Resume(w)
  BY <1>8 DEF Resume, billing, account, deletion
<1>9. CASE Advance(w)
  BY <1>9 DEF Advance, billing, account, deletion
<1>10. CASE DeleteNow(w)
  BY <1>10 DEF DeleteNow, billing, account, deletion
<1>11. CASE OpenGap(w)
  BY <1>11 DEF OpenGap, billing, deletion
<1>12. CASE Reload(w)
  BY <1>12 DEF Reload, billing, account, deletion
<1>13. CASE ClaimMail(w)
  BY <1>13 DEF ClaimMail, billing, account, deletion
<1>14. CASE Confirm(w)
  BY <1>14 DEF Confirm, billing, account, deletion
<1>15. CASE Mail(w)
  BY <1>15 DEF Mail, billing, account, deletion
<1>16. CASE MailFails(w)
  BY <1>16 DEF MailFails, billing, account, deletion
<1>17. CASE Record(w)
  BY <1>17 DEF Record, billing, account, deletion
<1>18. CASE Status(w)
  BY <1>18 DEF Status, billing, account, deletion
<1>19. CASE Account(w)
  BY <1>19 DEF Account, billing, account, deletion
<1>20. CASE Promote(w)
  BY <1>20 DEF Promote, billing, account, deletion
<1>21. CASE ClaimNow(w)
  BY <1>21 DEF ClaimNow, Claimed, billing
<1>22. CASE Claim(w)
  BY <1>22 DEF Claim, Claimed, billing
<1>23. CASE Fence(w)
  BY <1>23 DEF Fence, billing, account, deletion
<1>24. CASE Index(w)
  BY <1>24 DEF Index, billing, account, deletion
<1>25. CASE Quiesce(w)
  BY <1>25 DEF Quiesce, billing, account, deletion
<1>26. CASE Look(w)
  BY <1>26 DEF Look, billing, account, deletion
<1>27. CASE Note(w)
  BY <1>27 DEF Note, billing, account, deletion
<1>28. CASE Hold(w)
  BY <1>28 DEF Hold, billing, account, deletion
<1>29. CASE StripeFails(w)
  BY <1>29 DEF StripeFails, billing, account, deletion
<1>30. CASE Void(w)
  BY <1>30 DEF Void, billing, account, deletion
<1>31. CASE Restore(w)
  BY <1>31 DEF Restore, billing, account, deletion
<1>32. CASE Forget(w)
  BY <1>32 DEF Forget, billing, account, deletion
<1>33. CASE Recover(w)
  BY <1>33 DEF Recover, billing, account, deletion
<1>34. CASE Cancel(w)
  BY <1>34 DEF Cancel, Ended, billing
<1>35. CASE RemoveControl(w)
  BY <1>35 DEF RemoveControl, billing, account, deletion
<1>36. CASE Remove(w)
  BY <1>36 DEF Remove, billing, account, deletion
<1>37. CASE Mark(w)
  BY <1>37 DEF Mark, billing, account, deletion
<1>38. CASE Finish(w)
  BY <1>38 DEF Finish, billing, account, deletion
<1>39. CASE Crash(w)
  BY <1>39 DEF Crash, billing, account, deletion
<1>40. CASE Stall(w)
  BY <1>40 DEF Stall, billing, account, deletion
<1> QED BY <1>1, <1>2, <1>3, <1>4, <1>5, <1>6, <1>7, <1>8, <1>9, <1>10, <1>11, <1>12,
       <1>13, <1>14, <1>15, <1>16, <1>17, <1>18, <1>19, <1>20, <1>21, <1>22, <1>23,
       <1>24, <1>25, <1>26, <1>27, <1>28, <1>29, <1>30, <1>31, <1>32, <1>33, <1>34,
       <1>35, <1>36, <1>37, <1>38, <1>39, <1>40, ActIs

LEMMA NoAuditIs ==
    NoAudit \in AuditRow /\ NoAudit.state = "none" /\ NoAudit.owner = FALSE
    /\ NoAudit.auth = FALSE /\ NoAudit.steps = {}
BY NumbersAre DEF NoAudit, AuditRow

LEMMA StallLocks ==
    ASSUME TypeOK, NEW w \in Workers, lock' = Free(w, {"account", "transition"})
    PROVE  Locking(w) /\ lock'["account"] # w /\ lock'["transition"] # w
<1>1. {"account", "transition"} \in SUBSET Locks
  BY LocksAre
<1> QED BY <1>1, FreeIs, LocksAre, NoWorker DEF Locking

LEMMA TurnsNot == ASSUME TypeOK, NEW w, me' = me PROVE Turn(w)
BY DEF TypeOK, Turn

\* The frame of every step of a worker.
Framed(w) ==
    /\ clock' \in Clock /\ bill' \in MirrorRow /\ inv' \in InvoiceRow /\ inv'.no = inv.no
    /\ audit' \in AuditRow /\ held' \subseteq Objects /\ noted' \subseteq Objects
    /\ rest' \subseteq rest /\ Turn(w)
    /\ Locking(w) \/ (~Team' /\ lock' \in [Locks -> Workers \cup {None}])
    /\ box' \in [Keys -> OutboxRow] /\ sent' \in [Keys -> Nat]
    /\ upsets' \in Nat /\ stalls' \in Nat /\ upsets' >= upsets /\ stalls' >= stalls

\* What holds of the rows as they are.
LEMMA RowsHold ==
    ASSUME TypeOK
    PROVE  /\ clock \in Clock /\ bill \in MirrorRow /\ inv \in InvoiceRow /\ audit \in AuditRow
           /\ held \subseteq Objects /\ noted \subseteq Objects
           /\ box \in [Keys -> OutboxRow] /\ sent \in [Keys -> Nat]
           /\ upsets \in Nat /\ stalls \in Nat /\ upsets >= upsets /\ stalls >= stalls
           /\ upsets + 1 \in Nat /\ stalls + 1 \in Nat
           /\ upsets + 1 >= upsets /\ stalls + 1 >= stalls
BY DEF TypeOK

LEMMA ActFrames ==
    ASSUME TypeOK, KnownInv, NEW w \in Workers, Acts(w)
    PROVE  Framed(w)
<1> USE RowsHold DEF SameStripe, SameAccount, SameMail, SameFaults, Still, Framed
<1>0. me[w] \in Worker /\ me[w].start \in Keys /\ KnownOK(w)
  BY IsWorker DEF Worker, KnownInv
<1>1. CASE Signal(w)
  BY <1>1, SignalDoes, EndsLocks, TakesLocks, LocksAre DEF Ends
<1>2. CASE Apply(w)
  BY <1>2, ApplyDoes, SameLocks, EndsLocks DEF Ends, Goes
<1>3. CASE CancelMail(w)
  BY <1>3, CancelMailDoes, SameLocks, CancelledIs DEF Goes
<1>4. CASE CloseGap(w)
  BY <1>4, CloseGapDoes, SameLocks, EndsLocks DEF Ends, Goes, Restores
<1>5. CASE Hook(w)
  BY <1>5, HookDoes, SameLocks, TakesLocks, LocksAre
<1>6. CASE ReadProvider(w)
  BY <1>6, ReadProviderDoes, SameLocks, EndsLocks DEF Ends, Goes, Restores
<1>7. CASE Save(w)
  BY <1>7, SaveDoes, SameLocks, EndsLocks DEF Ends, Goes, Restores
<1>8. CASE Resume(w)
  BY <1>8, ResumeDoes, SameLocks, EndsLocks DEF Ends, Goes, Restores
<1>9. CASE Advance(w)
  BY <1>9, AdvanceDoes, SameLocks, EndsLocks DEF Ends, Goes, Restores
<1>10. CASE DeleteNow(w)
  BY <1>10, DeleteNowDoes, SameLocks, EndsLocks DEF Ends, Goes, Restores
<1>11. CASE OpenGap(w)
  BY <1>11, OpenGapDoes, SameLocks, EndsLocks DEF Ends, Goes, Restores
<1>12. CASE Reload(w)
  BY <1>12, ReloadDoes, StopsLocks, TakesLocks, LocksAre DEF Stops
<1>13. CASE ClaimMail(w)
  BY <1>13, ClaimMailDoes, <1>0, StopsLocks, SameLocks, LeaseIs DEF Stops, Goes
<1>14. CASE Confirm(w)
  BY <1>14, ConfirmDoes, SameLocks, LeaseIs, NumbersAre DEF Goes
<1>15. CASE Mail(w)
  BY <1>15, MailDoes, <1>0, SameLocks DEF Goes
<1>16. CASE MailFails(w)
  BY <1>16, MailFailsDoes, <1>0, StopsLocks, GiveBackIs DEF Stops
<1>17. CASE Record(w)
  BY <1>17, RecordDoes, <1>0, StopsLocks, RowsAre DEF Stops, SameClaim
<1>18. CASE Status(w)
  BY <1>18, StatusDoes, SameLocks, EndsLocks DEF Ends, Goes, Restores
<1>19. CASE Account(w)
  BY <1>19, AccountDoes, EndsLocks, TakesLocks, LocksAre DEF Ends
<1>20. CASE Promote(w)
  BY <1>20, PromoteDoes, SameLocks, EndsLocks DEF Ends, Goes, Restores
<1>21. CASE ClaimNow(w)
  BY <1>21, ClaimNowDoes, SameLocks, EndsLocks DEF Ends, Claims
<1>22. CASE Claim(w)
  BY <1>22, ClaimDoes, SameLocks, EndsLocks DEF Ends, Restores, Claims
<1>23. CASE Fence(w)
  BY <1>23, FenceDoes, TakesLocks, LocksAre
<1>24. CASE Index(w)
  BY <1>24, IndexDoes, SameLocks, EndsLocks DEF Ends, SameClaim
<1>25. CASE Quiesce(w)
  BY <1>25, QuiesceDoes, SameLocks, EndsLocks DEF Ends, Goes, Restores
<1>26. CASE Look(w)
  BY <1>26, LookDoes, SameLocks, EndsLocks DEF Ends, Goes, Restores
<1>27. CASE Note(w)
  BY <1>27, NoteDoes, <1>0, SameLocks, EndsLocks DEF Ends, Goes, Restores, KnownOK
<1>28. CASE Hold(w)
  BY <1>28, HoldDoes, <1>0, SameLocks, EndsLocks DEF Ends, Goes, Restores, KnownOK
<1>29. CASE StripeFails(w)
  BY <1>29, StripeFailsDoes, SameLocks, EndsLocks DEF Ends, Goes, Restores
<1>30. CASE Void(w)
  BY <1>30, VoidDoes, SameLocks, EndsLocks DEF Ends, Goes, Restores
<1>31. CASE Restore(w)
  BY <1>31, RestoreDoes, <1>0, SameLocks, EndsLocks DEF Ends, Goes
<1>32. CASE Forget(w)
  BY <1>32, ForgetDoes, SameLocks, EndsLocks DEF Ends, Goes, Restores
<1>33. CASE Recover(w)
  BY <1>33, RecoverDoes, SameLocks, EndsLocks DEF Ends, Goes, Restores
<1>34. CASE Cancel(w)
  BY <1>34, CancelDoes, EndsLocks, CancelledIs, StoppedIs, NoAuditIs DEF Ends
<1>35. CASE RemoveControl(w)
  BY <1>35, RemoveControlDoes, StoppedIs DEF SameClaim, Team
<1>36. CASE Remove(w)
  BY <1>36, RemoveDoes, SameLocks DEF Goes
<1>37. CASE Mark(w)
  BY <1>37, MarkDoes, <1>0, SameLocks DEF Goes, SameClaim
<1>38. CASE Finish(w)
  BY <1>38, FinishDoes, EndsLocks, FinishedIs DEF Ends
<1>39. CASE Crash(w)
  BY <1>39, CrashDoes, EndsLocks, LostIs DEF Ends
<1>40. CASE Stall(w)
  BY <1>40, StallDoes, StallLocks, LostIs, TurnsNot
<1> QED BY <1>1, <1>2, <1>3, <1>4, <1>5, <1>6, <1>7, <1>8, <1>9, <1>10, <1>11, <1>12,
       <1>13, <1>14, <1>15, <1>16, <1>17, <1>18, <1>19, <1>20, <1>21, <1>22, <1>23,
       <1>24, <1>25, <1>26, <1>27, <1>28, <1>29, <1>30, <1>31, <1>32, <1>33, <1>34,
       <1>35, <1>36, <1>37, <1>38, <1>39, <1>40, ActIs

-----------------------------------------------------------------------------
(* The types, and what a worker knows. *)

\* The customer, Stripe and time touch the invoice only.
Env ==
    /\ clock' = clock /\ audit' = audit /\ rest' = rest /\ bill' = bill /\ noted' = noted
    /\ box' = box /\ sent' = sent /\ upsets' = upsets /\ stalls' = stalls
    /\ lock' = lock /\ me' = me
    /\ inv' \in InvoiceRow /\ inv'.no >= inv.no /\ held' \subseteq held
    /\ SmallOK

LEMMA Numbers ==
    ASSUME TypeOK
    PROVE  /\ inv.no \in Nat /\ bill.no \in Nat /\ clock.start \in Nat
           /\ \A w \in Workers : me[w].start \in Nat /\ me[w].no \in Nat
BY NumbersAre DEF TypeOK, InvoiceRow, MirrorRow, Clock, Worker

LEMMA EnvIs ==
    ASSUME TypeOK, Lapse \/ Pay \/ Tick
    PROVE  Env
<1>1. inv.no \in Nat /\ inv \in InvoiceRow
  BY Numbers DEF TypeOK
<1>2. CASE Lapse
  <2>1. SmallOK
    BY <1>2 DEF Lapse, TypeOK, SmallOK, deletion
  <2>2. inv'.no >= inv.no
    BY <1>1, <1>2, LapseDoes
  <2> QED BY <1>2, <2>1, <2>2, LapseDoes DEF Env, SameAccount, SameMail, SameFaults
<1>3. CASE Pay
  <2>1. SmallOK
    BY <1>3 DEF Pay, TypeOK, SmallOK, account, deletion
  <2> QED BY <1>1, <1>3, <2>1, PayDoes DEF Env, SameAccount, SameMail, SameFaults
<1>4. CASE Tick
  <2>1. SmallOK
    BY <1>4 DEF Tick, TypeOK, SmallOK, billing, deletion
  <2> QED BY <1>1, <1>4, <2>1, TickDoes DEF Env, Still, SameStripe, SameAccount, SameMail,
              SameFaults
<1> QED BY <1>2, <1>3, <1>4

LEMMA TypeActs ==
    ASSUME TypeOK, KnownInv, NEW w \in Workers, Acts(w)
    PROVE  TypeOK'
<1>1. Framed(w) /\ SmallOK
  BY ActFrames, SmallTypes
<1>2. rest' \subseteq Everything
  BY <1>1 DEF Framed, TypeOK
<1>3. lock' \in [Locks -> Workers \cup {None}] /\ me' \in [Workers -> Worker]
  BY <1>1 DEF Framed, Locking, Turn
<1> QED BY <1>1, <1>2, <1>3 DEF Framed, SmallOK, TypeOK

LEMMA TypeEnv ==
    ASSUME TypeOK, Env
    PROVE  TypeOK'
<1>1. held' \subseteq Objects
  BY DEF Env, TypeOK
<1> QED BY <1>1 DEF Env, SmallOK, TypeOK

LEMMA KnownOther ==
    ASSUME TypeOK, NEW v \in Workers, KnownOK(v), me'[v] = me[v], rest' \subseteq rest,
           inv' \in InvoiceRow, inv'.no >= inv.no
    PROVE  KnownOK(v)'
<1>1. inv.no \in Nat /\ me[v].no \in Nat /\ inv'.no \in Nat
  BY Numbers, NumbersAre DEF InvoiceRow
<1>2. Team' => Team
  BY DEF Team
<1>3. me[v].no <= inv.no => me[v].no <= inv'.no
  BY <1>1
<1> QED BY <1>2, <1>3 DEF KnownOK

\* An invoice that can still be paid or voided is about a lapse.
LEMMA InvoiceFirst ==
    ASSUME TypeOK, NumbersInv, inv.status # "paid" PROVE inv.no # 0 /\ inv.no <= inv.no
BY Numbers DEF NumbersInv, Settled

LEMMA KnownOwn ==
    ASSUME TypeOK, KnownInv, NumbersInv, NEW w \in Workers, Acts(w)
    PROVE  KnownOK(w)'
<1> USE DEF KnownOK, After, Passes
<1>0. KnownOK(w)
  BY DEF KnownInv
<1>a. inv'.no = inv.no /\ (Team' => Team)
  BY ActFrames DEF Framed, Team
<1>b. ASSUME me'[w] = Idle PROVE KnownOK(w)'
  BY <1>b, IdleIs
<1>1. CASE Signal(w)
  BY <1>1, <1>0, <1>a, <1>b, SignalDoes DEF Ends, Like, Keeps
<1>2. CASE Apply(w)
  BY <1>2, <1>0, <1>a, <1>b, ApplyDoes DEF Ends, Goes, Like, Keeps
<1>3. CASE CancelMail(w)
  BY <1>3, <1>0, <1>a, <1>b, CancelMailDoes DEF Goes, Like, Keeps
<1>4. CASE CloseGap(w)
  BY <1>4, <1>0, <1>a, <1>b, CloseGapDoes DEF Ends
<1>5. CASE Hook(w)
  BY <1>5, <1>0, <1>a, <1>b, HookDoes, IdleIs DEF Like, Keeps
<1>6. CASE ReadProvider(w)
  BY <1>6, <1>0, <1>a, <1>b, ReadProviderDoes DEF Ends, LikeRead
<1>7. CASE Save(w)
  BY <1>7, <1>0, <1>a, <1>b, SaveDoes DEF Ends, Goes, Like, Keeps
<1>8. CASE Resume(w)
  BY <1>8, <1>0, <1>a, <1>b, ResumeDoes DEF LikeNew
<1>9. CASE Advance(w)
  BY <1>9, <1>0, <1>a, <1>b, AdvanceDoes DEF LikeNew
<1>10. CASE DeleteNow(w)
  BY <1>10, <1>0, <1>a, <1>b, DeleteNowDoes DEF LikeNew
<1>11. CASE OpenGap(w)
  BY <1>11, <1>0, <1>a, <1>b, OpenGapDoes DEF Ends, Goes, Like, Keeps
<1>12. CASE Reload(w)
  BY <1>12, <1>0, <1>a, <1>b, ReloadDoes DEF Stops, Like, Keeps
<1>13. CASE ClaimMail(w)
  BY <1>13, <1>0, <1>a, <1>b, ClaimMailDoes DEF Stops, Goes, Like, Keeps
<1>14. CASE Confirm(w)
  BY <1>14, <1>0, <1>a, <1>b, ConfirmDoes, IdleIs DEF Goes, Like, Keeps
<1>15. CASE Mail(w)
  BY <1>15, <1>0, <1>a, <1>b, MailDoes DEF Goes, Like, Keeps
<1>16. CASE MailFails(w)
  BY <1>16, <1>0, <1>a, <1>b, MailFailsDoes DEF Stops, Like, Keeps
<1>17. CASE Record(w)
  BY <1>17, <1>0, <1>a, <1>b, RecordDoes DEF Stops, Like, Keeps
<1>18. CASE Status(w)
  BY <1>18, <1>0, <1>a, <1>b, StatusDoes DEF Ends, LikeStatus
<1>19. CASE Account(w)
  BY <1>19, <1>0, <1>a, <1>b, AccountDoes DEF Ends, LikeAccount
<1>20. CASE Promote(w)
  BY <1>20, <1>0, <1>a, <1>b, PromoteDoes DEF Ends, LikeFinal
<1>21. CASE ClaimNow(w)
  BY <1>21, <1>0, <1>a, <1>b, ClaimNowDoes DEF Ends, LikeFinal
<1>22. CASE Claim(w)
  BY <1>22, <1>0, <1>a, <1>b, ClaimDoes DEF Ends, Restores, Keeps, LikeFinal
<1>23. CASE Fence(w)
  BY <1>23, <1>0, <1>a, <1>b, FenceDoes DEF Like, Keeps
<1>24. CASE Index(w)
  BY <1>24, <1>0, <1>a, <1>b, IndexDoes DEF Ends, LikeThen, Keeps
<1>25. CASE Quiesce(w)
  BY <1>25, <1>0, <1>a, <1>b, QuiesceDoes DEF Ends, Restores, Goes, Like, Keeps
<1>26. CASE Look(w)
    BY <1>26, <1>0, <1>a, <1>b, LookDoes, InvoiceFirst DEF Ends, Restores, LikeObj,
     LikeVoid, Goes, Like, Keeps
<1>27. CASE Note(w)
  BY <1>27, <1>0, <1>a, <1>b, NoteDoes DEF Ends, Goes, Like, Keeps
<1>28. CASE Hold(w)
  BY <1>28, <1>0, <1>a, <1>b, HoldDoes DEF Ends, Restores, Goes, Like, Keeps
<1>29. CASE StripeFails(w)
  BY <1>29, <1>0, <1>a, <1>b, StripeFailsDoes DEF Ends, Restores, Goes, Like, Keeps
<1>30. CASE Void(w)
  BY <1>30, <1>0, <1>a, <1>b, VoidDoes DEF Ends, Restores, Goes, Like, Keeps
<1>31. CASE Restore(w)
  BY <1>31, <1>0, <1>a, <1>b, RestoreDoes DEF Ends, LikeObj, Goes, Like, Keeps
<1>32. CASE Forget(w)
  BY <1>32, <1>0, <1>a, <1>b, ForgetDoes DEF Goes, Like, Keeps
<1>33. CASE Recover(w)
  BY <1>33, <1>0, <1>a, <1>b, RecoverDoes DEF Ends, Goes, Like, Keeps
<1>34. CASE Cancel(w)
  BY <1>34, <1>0, <1>a, <1>b, CancelDoes DEF Ends
<1>35. CASE RemoveControl(w)
  BY <1>35, <1>0, <1>a, <1>b, RemoveControlDoes DEF Like, Keeps, Team
<1>36. CASE Remove(w)
  BY <1>36, <1>0, <1>a, <1>b, RemoveDoes, FollowingIs DEF Goes, Like, Keeps
<1>37. CASE Mark(w)
  BY <1>37, <1>0, <1>a, <1>b, MarkDoes, FollowingIs DEF Goes, Like, Keeps
<1>38. CASE Finish(w)
  BY <1>38, <1>0, <1>a, <1>b, FinishDoes DEF Ends
<1>39. CASE Crash(w)
  BY <1>39, <1>0, <1>a, <1>b, CrashDoes DEF Ends
<1>40. CASE Stall(w)
  BY <1>40, <1>0, <1>a, <1>b, StallDoes DEF SameStripe, SameAccount
<1> QED BY <1>1, <1>2, <1>3, <1>4, <1>5, <1>6, <1>7, <1>8, <1>9, <1>10, <1>11, <1>12,
       <1>13, <1>14, <1>15, <1>16, <1>17, <1>18, <1>19, <1>20, <1>21, <1>22, <1>23,
       <1>24, <1>25, <1>26, <1>27, <1>28, <1>29, <1>30, <1>31, <1>32, <1>33, <1>34,
       <1>35, <1>36, <1>37, <1>38, <1>39, <1>40, ActIs

LEMMA KnownStep ==
    ASSUME TypeOK, KnownInv, NumbersInv, NEW w \in Workers, Acts(w)
    PROVE  KnownInv'
<1>1. Framed(w) /\ KnownOK(w)'
  BY ActFrames, KnownOwn
<1>2. ASSUME NEW v \in Workers \ {w} PROVE KnownOK(v)'
  <2>1. me'[v] = me[v] /\ KnownOK(v) /\ inv'.no >= inv.no
    BY <1>1, Numbers DEF Framed, Turn, KnownInv
  <2> QED BY <1>1, <2>1, KnownOther DEF Framed
<1> QED BY <1>1, <1>2 DEF KnownInv

LEMMA KnownEnv ==
    ASSUME TypeOK, KnownInv, Env
    PROVE  KnownInv'
BY KnownOther DEF Env, KnownInv

-----------------------------------------------------------------------------
(* The team, the parts, the numbers. *)

\* A step that ends gives back leases and takes none.
LEMMA EndsNone ==
    ASSUME TypeOK, NEW w \in Workers, Ends(w) \/ Stops(w)
    PROVE  \A k \in Locks : lock[k] = None => lock'[k] = None
<1>1. CASE Ends(w)
  <2>1. lock' = Free(w, Locks) /\ Locks \in SUBSET Locks
    BY <1>1 DEF Ends
  <2> QED BY <2>1, FreeIs, NoWorker
<1>2. CASE Stops(w)
  <2>1. lock' = Free(w, {"transition"}) /\ {"transition"} \in SUBSET Locks
    BY <1>2, LocksAre DEF Stops
  <2> QED BY <2>1, FreeIs, NoWorker
<1> QED BY <1>1, <1>2

LEMMA StallNone ==
    ASSUME TypeOK, NEW w \in Workers, lock' = Free(w, {"account", "transition"})
    PROVE  \A k \in Locks : lock[k] = None => lock'[k] = None
<1>1. {"account", "transition"} \in SUBSET Locks
  BY LocksAre
<1> QED BY <1>1, FreeIs, NoWorker

LEMMA TeamStep ==
    ASSUME TypeOK, KnownInv, TeamInv, NEW w \in Workers, Acts(w)
    PROVE  TeamInv'
<1> USE LocksAre DEF TeamInv, Team
<1>0. KnownOK(w)
  BY DEF KnownInv
<1>a. Ends(w) \/ Stops(w) => \A k \in Locks : lock[k] = None => lock'[k] = None
  BY EndsNone
<1>1. CASE Signal(w)
  BY <1>1, SignalDoes, <1>a DEF Still, SameStripe, SameAccount, SameMail, SameFaults, Ends,
     LeaseTo
<1>2. CASE Apply(w)
  BY <1>2, ApplyDoes, <1>a DEF SameMail, SameFaults, Ends, Goes
<1>3. CASE CancelMail(w)
  BY <1>3, CancelMailDoes, <1>a DEF SameStripe, SameAccount, SameFaults, Goes
<1>4. CASE CloseGap(w)
  BY <1>4, CloseGapDoes, <1>a DEF Still, SameStripe, SameAccount, SameMail, SameFaults, Ends
<1>5. CASE Hook(w)
  BY <1>5, HookDoes DEF Still, SameStripe, SameAccount, SameMail, SameFaults, LeaseTo
<1>6. CASE ReadProvider(w)
  BY <1>6, ReadProviderDoes, <1>a DEF Still, SameStripe, SameAccount, SameMail, SameFaults,
     Ends
<1>7. CASE Save(w)
  BY <1>7, SaveDoes, <1>a DEF SameAccount, SameMail, SameFaults, Ends, Goes
<1>8. CASE Resume(w)
  BY <1>8, ResumeDoes, <1>a DEF Still, SameStripe, SameAccount, SameMail, SameFaults
<1>9. CASE Advance(w)
  BY <1>9, AdvanceDoes, <1>a DEF Still, SameStripe, SameAccount, SameMail, SameFaults
<1>10. CASE DeleteNow(w)
  BY <1>10, DeleteNowDoes, <1>a DEF Still, SameStripe, SameAccount, SameMail, SameFaults
<1>11. CASE OpenGap(w)
  BY <1>11, OpenGapDoes, <1>a DEF Still, SameStripe, SameAccount, SameMail, SameFaults,
     Ends, Goes
<1>12. CASE Reload(w)
  BY <1>12, ReloadDoes, <1>a DEF Still, SameStripe, SameAccount, SameMail, SameFaults,
     Stops, LeaseTo, Mine
<1>13. CASE ClaimMail(w)
  BY <1>13, ClaimMailDoes, <1>a DEF SameStripe, SameAccount, SameFaults, Stops, Goes
<1>14. CASE Confirm(w)
  BY <1>14, ConfirmDoes, <1>a DEF SameStripe, SameAccount, SameFaults, Goes
<1>15. CASE Mail(w)
  BY <1>15, MailDoes, <1>a DEF SameStripe, SameAccount, SameFaults, Goes
<1>16. CASE MailFails(w)
  BY <1>16, MailFailsDoes, <1>a DEF SameStripe, SameAccount, Stops
<1>17. CASE Record(w)
  BY <1>17, RecordDoes, <1>a DEF SameStripe, SameFaults, SameClaim, Stops
<1>18. CASE Status(w)
  BY <1>18, StatusDoes, <1>a DEF Still, SameStripe, SameAccount, SameMail, SameFaults, Ends
<1>19. CASE Account(w)
  BY <1>19, AccountDoes, <1>a DEF Still, SameStripe, SameAccount, SameMail, SameFaults,
     Ends, LeaseTo
<1>20. CASE Promote(w)
  BY <1>20, PromoteDoes, <1>a DEF SameStripe, SameMail, SameFaults, Ends
<1>21. CASE ClaimNow(w)
  BY <1>21, ClaimNowDoes, <1>a DEF SameStripe, SameMail, SameFaults, Claims, Ends
<1>22. CASE Claim(w)
  <2>1. CASE clock' = clock
    BY <1>22, <2>1, ClaimDoes, <1>a DEF SameStripe, SameMail, SameFaults, Ends, Restores
  <2>2. CASE clock' # clock
    <3>1. me[w].due /\ Mine(w) /\ lock' = lock /\ rest' = rest
      BY <1>22, <2>2, ClaimDoes
    <3>2. clock.start # 0
      BY <1>0, <3>1 DEF Mine, KnownOK
    <3> QED BY <3>1, <3>2, StoppedIs
  <2> QED BY <2>1, <2>2
<1>23. CASE Fence(w)
  BY <1>23, FenceDoes DEF Still, SameStripe, SameAccount, SameMail, SameFaults, LeaseTo
<1>24. CASE Index(w)
  BY <1>24, IndexDoes, <1>a DEF SameStripe, SameMail, SameFaults, SameClaim, Ends
<1>25. CASE Quiesce(w)
  BY <1>25, QuiesceDoes, <1>a DEF Still, SameStripe, SameAccount, SameMail, SameFaults,
     Ends, Restores, Goes
<1>26. CASE Look(w)
  BY <1>26, LookDoes, <1>a DEF Still, SameStripe, SameAccount, SameMail, SameFaults, Ends,
     Restores, Goes
<1>27. CASE Note(w)
  BY <1>27, NoteDoes, <1>a DEF SameAccount, SameMail, SameFaults, Ends, Goes
<1>28. CASE Hold(w)
  BY <1>28, HoldDoes, <1>a DEF SameAccount, SameMail, SameFaults, Ends, Restores, Goes
<1>29. CASE StripeFails(w)
  BY <1>29, StripeFailsDoes, <1>a DEF SameStripe, SameAccount, SameMail, Ends, Restores
<1>30. CASE Void(w)
  BY <1>30, VoidDoes, <1>a DEF SameMail, SameFaults, Ends, Restores, Goes
<1>31. CASE Restore(w)
  BY <1>31, RestoreDoes, <1>0, <1>a DEF SameAccount, SameMail, SameFaults, Ends, Goes
<1>32. CASE Forget(w)
  BY <1>32, ForgetDoes, <1>a DEF SameAccount, SameMail, SameFaults, Goes
<1>33. CASE Recover(w)
  BY <1>33, RecoverDoes, <1>a DEF SameAccount, SameMail, SameFaults, Ends, Goes
<1>34. CASE Cancel(w)
  BY <1>34, CancelDoes, <1>a DEF SameStripe, SameFaults, Ends
<1>35. CASE RemoveControl(w)
  BY <1>35, RemoveControlDoes DEF SameMail, SameFaults, SameClaim
<1>36. CASE Remove(w)
  BY <1>36, RemoveDoes, <1>0 DEF SameStripe, SameMail, SameFaults, Goes, KnownOK, After
<1>37. CASE Mark(w)
  BY <1>37, MarkDoes, <1>0 DEF SameStripe, SameMail, SameFaults, SameClaim, Goes
<1>38. CASE Finish(w)
  BY <1>38, FinishDoes, <1>a DEF SameStripe, SameFaults, Ends
<1>39. CASE Crash(w)
  BY <1>39, CrashDoes, <1>a DEF SameStripe, SameAccount, Ends
<1>40. CASE Stall(w)
  BY <1>40, StallDoes, StallNone DEF SameStripe, SameAccount
<1> QED BY <1>1, <1>2, <1>3, <1>4, <1>5, <1>6, <1>7, <1>8, <1>9, <1>10, <1>11, <1>12,
       <1>13, <1>14, <1>15, <1>16, <1>17, <1>18, <1>19, <1>20, <1>21, <1>22, <1>23,
       <1>24, <1>25, <1>26, <1>27, <1>28, <1>29, <1>30, <1>31, <1>32, <1>33, <1>34,
       <1>35, <1>36, <1>37, <1>38, <1>39, <1>40, ActIs

LEMMA TeamEnv == ASSUME TeamInv, Env PROVE TeamInv'
BY DEF TeamInv, Env, Team

LEMMA NumbersOwn ==
    ASSUME TypeOK, KnownInv, NumbersInv, NEW w \in Workers, Acts(w)
    PROVE  /\ bill'.no <= inv.no /\ clock'.start <= inv.no
           /\ me'[w].pc = "save" \/ me'[w].due => me'[w].start <= inv.no
<1> USE DEF NumbersInv
<1>0. KnownOK(w) /\ 0 <= inv.no /\ inv.no <= inv.no
  BY Numbers DEF KnownInv
<1>a. me'[w] = Idle => ~(me'[w].pc = "save" \/ me'[w].due)
  BY IdleIs
<1>1. CASE Signal(w)
  BY <1>1, SignalDoes, <1>0, <1>a DEF Still, SameStripe, SameAccount, SameMail, SameFaults,
     Ends, Like, Keeps
<1>2. CASE Apply(w)
  BY <1>2, ApplyDoes, <1>0, <1>a, StoppedIs DEF SameMail, SameFaults, Ends, Goes, Like, Keeps
<1>3. CASE CancelMail(w)
  BY <1>3, CancelMailDoes, <1>0, <1>a DEF SameStripe, SameAccount, SameFaults, Goes, Like,
     Keeps
<1>4. CASE CloseGap(w)
  BY <1>4, CloseGapDoes, <1>0, <1>a DEF Still, SameStripe, SameAccount, SameMail,
     SameFaults, Ends
<1>5. CASE Hook(w)
  BY <1>5, HookDoes, <1>0, <1>a, IdleIs DEF Still, SameStripe, SameAccount, SameMail,
     SameFaults, Like, Keeps
<1>6. CASE ReadProvider(w)
  BY <1>6, ReadProviderDoes, <1>0, <1>a DEF Still, SameStripe, SameAccount, SameMail,
     SameFaults, Ends, LikeRead
<1>7. CASE Save(w)
  BY <1>7, SaveDoes, <1>0, <1>a DEF SameAccount, SameMail, SameFaults, Ends, Goes, Like, Keeps
<1>8. CASE Resume(w)
  BY <1>8, ResumeDoes, <1>0, <1>a DEF Still, SameStripe, SameAccount, SameMail, SameFaults,
     LikeNew
<1>9. CASE Advance(w)
  BY <1>9, AdvanceDoes, <1>0, <1>a DEF Still, SameStripe, SameAccount, SameMail, SameFaults,
     LikeNew
<1>10. CASE DeleteNow(w)
  BY <1>10, DeleteNowDoes, <1>0, <1>a DEF Still, SameStripe, SameAccount, SameMail,
     SameFaults, LikeNew
<1>11. CASE OpenGap(w)
  BY <1>11, OpenGapDoes, <1>0, <1>a DEF Still, SameStripe, SameAccount, SameMail,
     SameFaults, Ends, Goes, Like, Keeps
<1>12. CASE Reload(w)
  BY <1>12, ReloadDoes, <1>0, <1>a DEF Still, SameStripe, SameAccount, SameMail, SameFaults,
     Stops, Like, Keeps
<1>13. CASE ClaimMail(w)
  BY <1>13, ClaimMailDoes, <1>0, <1>a DEF SameStripe, SameAccount, SameFaults, Stops, Goes,
     Like, Keeps
<1>14. CASE Confirm(w)
  BY <1>14, ConfirmDoes, <1>0, <1>a, IdleIs DEF SameStripe, SameAccount, SameFaults, Goes,
     Like, Keeps
<1>15. CASE Mail(w)
  BY <1>15, MailDoes, <1>0, <1>a DEF SameStripe, SameAccount, SameFaults, Goes, Like, Keeps
<1>16. CASE MailFails(w)
  BY <1>16, MailFailsDoes, <1>0, <1>a DEF SameStripe, SameAccount, Stops, Like, Keeps
<1>17. CASE Record(w)
  BY <1>17, RecordDoes, <1>0, <1>a DEF SameStripe, SameFaults, SameClaim, Stops, Like, Keeps
<1>18. CASE Status(w)
  BY <1>18, StatusDoes, <1>0, <1>a DEF Still, SameStripe, SameAccount, SameMail, SameFaults,
     Ends, LikeStatus
<1>19. CASE Account(w)
  BY <1>19, AccountDoes, <1>0, <1>a DEF Still, SameStripe, SameAccount, SameMail,
     SameFaults, Ends, LikeAccount
<1>20. CASE Promote(w)
  BY <1>20, PromoteDoes, <1>0, <1>a DEF SameStripe, SameMail, SameFaults, Ends, LikeFinal
<1>21. CASE ClaimNow(w)
  BY <1>21, ClaimNowDoes, <1>0, <1>a DEF SameStripe, SameMail, SameFaults, Claims, Ends,
     LikeFinal
<1>22. CASE Claim(w)
  BY <1>22, ClaimDoes, <1>0, <1>a DEF SameStripe, SameMail, SameFaults, Claims, Ends,
     Restores, Keeps, LikeFinal, KnownOK
<1>23. CASE Fence(w)
  BY <1>23, FenceDoes, <1>0, <1>a DEF Still, SameStripe, SameAccount, SameMail, SameFaults,
     Like, Keeps
<1>24. CASE Index(w)
  BY <1>24, IndexDoes, <1>0, <1>a DEF SameStripe, SameMail, SameFaults, SameClaim, Ends,
     LikeThen, Keeps
<1>25. CASE Quiesce(w)
  BY <1>25, QuiesceDoes, <1>0, <1>a DEF Still, SameStripe, SameAccount, SameMail,
     SameFaults, Ends, Restores, Goes, Like, Keeps
<1>26. CASE Look(w)
  BY <1>26, LookDoes, <1>0, <1>a DEF Still, SameStripe, SameAccount, SameMail, SameFaults,
     Ends, Restores, LikeObj, LikeVoid, Goes, Like, Keeps
<1>27. CASE Note(w)
  BY <1>27, NoteDoes, <1>0, <1>a DEF SameAccount, SameMail, SameFaults, Ends, Goes, Like, Keeps
<1>28. CASE Hold(w)
  BY <1>28, HoldDoes, <1>0, <1>a DEF SameAccount, SameMail, SameFaults, Ends, Restores,
     Goes, Like, Keeps
<1>29. CASE StripeFails(w)
  BY <1>29, StripeFailsDoes, <1>0, <1>a DEF SameStripe, SameAccount, SameMail, Ends,
     Restores, Keeps
<1>30. CASE Void(w)
  BY <1>30, VoidDoes, <1>0, <1>a DEF SameMail, SameFaults, Ends, Restores, Goes, Like, Keeps
<1>31. CASE Restore(w)
  BY <1>31, RestoreDoes, <1>0, <1>a DEF SameAccount, SameMail, SameFaults, Ends, LikeObj,
     Goes, Like, Keeps
<1>32. CASE Forget(w)
  BY <1>32, ForgetDoes, <1>0, <1>a DEF SameAccount, SameMail, SameFaults, Goes, Like, Keeps
<1>33. CASE Recover(w)
  BY <1>33, RecoverDoes, <1>0, <1>a DEF SameAccount, SameMail, SameFaults, Ends, Goes, Like,
     Keeps
<1>34. CASE Cancel(w)
  BY <1>34, CancelDoes, <1>0, <1>a, StoppedIs DEF SameStripe, SameFaults, Ends
<1>35. CASE RemoveControl(w)
  BY <1>35, RemoveControlDoes, <1>0, <1>a, StoppedIs DEF SameMail, SameFaults, SameClaim,
     Like, Keeps
<1>36. CASE Remove(w)
  BY <1>36, RemoveDoes, <1>0, <1>a, FollowingIs DEF SameStripe, SameMail, SameFaults, Goes,
     Like, Keeps
<1>37. CASE Mark(w)
  BY <1>37, MarkDoes, <1>0, <1>a, FollowingIs DEF SameStripe, SameMail, SameFaults,
     SameClaim, Goes, Like, Keeps
<1>38. CASE Finish(w)
  BY <1>38, FinishDoes, <1>0, <1>a DEF SameStripe, SameFaults, Ends
<1>39. CASE Crash(w)
  BY <1>39, CrashDoes, <1>0, <1>a DEF SameStripe, SameAccount, Ends
<1>40. CASE Stall(w)
  BY <1>40, StallDoes, <1>0, <1>a DEF SameStripe, SameAccount
<1> QED BY <1>1, <1>2, <1>3, <1>4, <1>5, <1>6, <1>7, <1>8, <1>9, <1>10, <1>11, <1>12,
       <1>13, <1>14, <1>15, <1>16, <1>17, <1>18, <1>19, <1>20, <1>21, <1>22, <1>23,
       <1>24, <1>25, <1>26, <1>27, <1>28, <1>29, <1>30, <1>31, <1>32, <1>33, <1>34,
       <1>35, <1>36, <1>37, <1>38, <1>39, <1>40, ActIs

\* A worker never opens an invoice, and never touches one that is paid.
LEMMA ActPays ==
    ASSUME TypeOK, KnownInv, NEW w \in Workers, Acts(w)
    PROVE  \/ inv'.no = inv.no /\ inv'.status = inv.status
           \/ /\ inv.status = "open" /\ inv'.no = inv.no
              /\ inv'.status = "void" /\ me[w].pc = "void"
<1>0. KnownOK(w)
  BY DEF KnownInv
<1>1. CASE Signal(w)
  BY <1>1, SignalDoes, <1>0 DEF Still, SameStripe
<1>2. CASE Apply(w)
  BY <1>2, ApplyDoes, <1>0
<1>3. CASE CancelMail(w)
  BY <1>3, CancelMailDoes, <1>0 DEF SameStripe
<1>4. CASE CloseGap(w)
  BY <1>4, CloseGapDoes, <1>0 DEF Still, SameStripe
<1>5. CASE Hook(w)
  BY <1>5, HookDoes, <1>0 DEF Still, SameStripe
<1>6. CASE ReadProvider(w)
  BY <1>6, ReadProviderDoes, <1>0 DEF Still, SameStripe
<1>7. CASE Save(w)
  BY <1>7, SaveDoes, <1>0
<1>8. CASE Resume(w)
  BY <1>8, ResumeDoes, <1>0 DEF Still, SameStripe
<1>9. CASE Advance(w)
  BY <1>9, AdvanceDoes, <1>0 DEF Still, SameStripe
<1>10. CASE DeleteNow(w)
  BY <1>10, DeleteNowDoes, <1>0 DEF Still, SameStripe
<1>11. CASE OpenGap(w)
  BY <1>11, OpenGapDoes, <1>0 DEF Still, SameStripe
<1>12. CASE Reload(w)
  BY <1>12, ReloadDoes, <1>0 DEF Still, SameStripe
<1>13. CASE ClaimMail(w)
  BY <1>13, ClaimMailDoes, <1>0 DEF SameStripe
<1>14. CASE Confirm(w)
  BY <1>14, ConfirmDoes, <1>0 DEF SameStripe
<1>15. CASE Mail(w)
  BY <1>15, MailDoes, <1>0 DEF SameStripe
<1>16. CASE MailFails(w)
  BY <1>16, MailFailsDoes, <1>0 DEF SameStripe
<1>17. CASE Record(w)
  BY <1>17, RecordDoes, <1>0 DEF SameStripe
<1>18. CASE Status(w)
  BY <1>18, StatusDoes, <1>0 DEF Still, SameStripe
<1>19. CASE Account(w)
  BY <1>19, AccountDoes, <1>0 DEF Still, SameStripe
<1>20. CASE Promote(w)
  BY <1>20, PromoteDoes, <1>0 DEF SameStripe
<1>21. CASE ClaimNow(w)
  BY <1>21, ClaimNowDoes, <1>0 DEF SameStripe
<1>22. CASE Claim(w)
  BY <1>22, ClaimDoes, <1>0 DEF SameStripe
<1>23. CASE Fence(w)
  BY <1>23, FenceDoes, <1>0 DEF Still, SameStripe
<1>24. CASE Index(w)
  BY <1>24, IndexDoes, <1>0 DEF SameStripe
<1>25. CASE Quiesce(w)
  BY <1>25, QuiesceDoes, <1>0 DEF Still, SameStripe
<1>26. CASE Look(w)
  BY <1>26, LookDoes, <1>0 DEF Still, SameStripe
<1>27. CASE Note(w)
  BY <1>27, NoteDoes, <1>0
<1>28. CASE Hold(w)
  BY <1>28, HoldDoes, <1>0
<1>29. CASE StripeFails(w)
  BY <1>29, StripeFailsDoes, <1>0 DEF SameStripe
<1>30. CASE Void(w)
  BY <1>30, VoidDoes, <1>0
<1>31. CASE Restore(w)
  BY <1>31, RestoreDoes, <1>0
<1>32. CASE Forget(w)
  BY <1>32, ForgetDoes, <1>0
<1>33. CASE Recover(w)
  BY <1>33, RecoverDoes, <1>0
<1>34. CASE Cancel(w)
  BY <1>34, CancelDoes, <1>0 DEF SameStripe
<1>35. CASE RemoveControl(w)
  BY <1>35, RemoveControlDoes, <1>0
<1>36. CASE Remove(w)
  BY <1>36, RemoveDoes, <1>0 DEF SameStripe
<1>37. CASE Mark(w)
  BY <1>37, MarkDoes, <1>0 DEF SameStripe
<1>38. CASE Finish(w)
  BY <1>38, FinishDoes, <1>0 DEF SameStripe
<1>39. CASE Crash(w)
  BY <1>39, CrashDoes, <1>0 DEF SameStripe
<1>40. CASE Stall(w)
  BY <1>40, StallDoes, <1>0 DEF SameStripe
<1> QED BY <1>1, <1>2, <1>3, <1>4, <1>5, <1>6, <1>7, <1>8, <1>9, <1>10, <1>11, <1>12,
       <1>13, <1>14, <1>15, <1>16, <1>17, <1>18, <1>19, <1>20, <1>21, <1>22, <1>23,
       <1>24, <1>25, <1>26, <1>27, <1>28, <1>29, <1>30, <1>31, <1>32, <1>33, <1>34,
       <1>35, <1>36, <1>37, <1>38, <1>39, <1>40, ActIs

LEMMA NumbersStep ==
    ASSUME TypeOK, KnownInv, NumbersInv, NEW w \in Workers, Acts(w)
    PROVE  NumbersInv'
<1>1. Framed(w)
  BY ActFrames
<1>2. inv.no = 0 => inv'.status = "paid"
  BY ActPays DEF NumbersInv, Settled
<1>3. ASSUME NEW v \in Workers, me'[v].pc = "save" \/ me'[v].due
      PROVE  me'[v].start <= inv'.no
  BY <1>1, <1>3, NumbersOwn DEF Framed, Turn, NumbersInv
<1> QED BY <1>1, <1>2, <1>3, NumbersOwn DEF Framed, NumbersInv, Settled

LEMMA NumbersEnv ==
    ASSUME TypeOK, NumbersInv, Env, Lapse \/ Pay \/ Tick
    PROVE  NumbersInv'
<1>1. inv'.no \in Nat /\ inv'.no >= inv.no /\ inv.no \in Nat /\ bill.no \in Nat
      /\ clock.start \in Nat
  BY Numbers, NumbersAre DEF Env, InvoiceRow
<1>2. \A v \in Workers : me[v].start \in Nat
  BY Numbers
<1>3. inv'.no = 0 => inv'.status = "paid"
  <2>1. CASE Lapse
    BY <1>1, <2>1, LapseDoes
  <2>2. CASE Pay
    BY <2>2, PayDoes
  <2>3. CASE Tick
    BY <2>3, TickDoes DEF Still, SameStripe, NumbersInv, Settled
  <2> QED BY <2>1, <2>2, <2>3
<1> QED BY <1>1, <1>2, <1>3 DEF Env, NumbersInv, Settled

-----------------------------------------------------------------------------
(* What is marked, who wins, and what an early claim and a payment mean. *)

LEMMA PartsAct ==
    ASSUME TypeOK, KnownInv, PartsInv, NEW w \in Workers, Acts(w)
    PROVE  /\ "control" \in audit'.steps => "team" \notin rest'
           /\ "local" \in audit'.steps => "files" \notin rest'
           /\ "global" \in audit'.steps => "artifacts" \notin rest'
           /\ audit'.steps \cap {"removed", "provider"} # {} => "customer" \notin rest'
           /\ audit'.state = "done" => rest' = {}
           /\ PartsOK(w)'
<1> USE DEF PartsInv, PartsOK, Team
<1>0. KnownOK(w) /\ PartsOK(w) /\ rest \subseteq Everything
  BY DEF KnownInv, TypeOK
<1>a. ASSUME me'[w] = Idle PROVE PartsOK(w)'
  BY <1>a, IdleIs
<1>1. CASE Signal(w)
  BY <1>1, SignalDoes, <1>0, <1>a DEF Still, SameStripe, SameAccount, SameMail, SameFaults,
     Ends, Like, Keeps
<1>2. CASE Apply(w)
  BY <1>2, ApplyDoes, <1>0, <1>a DEF SameMail, SameFaults, Ends, Goes, Like, Keeps
<1>3. CASE CancelMail(w)
  BY <1>3, CancelMailDoes, <1>0, <1>a DEF SameStripe, SameAccount, SameFaults, Goes, Like,
     Keeps
<1>4. CASE CloseGap(w)
  BY <1>4, CloseGapDoes, <1>0, <1>a DEF Still, SameStripe, SameAccount, SameMail,
     SameFaults, Ends
<1>5. CASE Hook(w)
  BY <1>5, HookDoes, <1>0, <1>a DEF Still, SameStripe, SameAccount, SameMail, SameFaults,
     Like, Keeps
<1>6. CASE ReadProvider(w)
  BY <1>6, ReadProviderDoes, <1>0, <1>a DEF Still, SameStripe, SameAccount, SameMail,
     SameFaults, Ends, LikeRead
<1>7. CASE Save(w)
  BY <1>7, SaveDoes, <1>0, <1>a DEF SameAccount, SameMail, SameFaults, Ends, Goes, Like, Keeps
<1>8. CASE Resume(w)
  BY <1>8, ResumeDoes, <1>0, <1>a DEF Still, SameStripe, SameAccount, SameMail, SameFaults,
     LikeNew
<1>9. CASE Advance(w)
  BY <1>9, AdvanceDoes, <1>0, <1>a DEF Still, SameStripe, SameAccount, SameMail, SameFaults,
     LikeNew
<1>10. CASE DeleteNow(w)
  BY <1>10, DeleteNowDoes, <1>0, <1>a DEF Still, SameStripe, SameAccount, SameMail,
     SameFaults, LikeNew
<1>11. CASE OpenGap(w)
  BY <1>11, OpenGapDoes, <1>0, <1>a DEF Still, SameStripe, SameAccount, SameMail,
     SameFaults, Ends, Goes, Like, Keeps
<1>12. CASE Reload(w)
  BY <1>12, ReloadDoes, <1>0, <1>a DEF Still, SameStripe, SameAccount, SameMail, SameFaults,
     Stops, Like, Keeps
<1>13. CASE ClaimMail(w)
  BY <1>13, ClaimMailDoes, <1>0, <1>a DEF SameStripe, SameAccount, SameFaults, Stops, Goes,
     Like, Keeps
<1>14. CASE Confirm(w)
  BY <1>14, ConfirmDoes, <1>0, <1>a DEF SameStripe, SameAccount, SameFaults, Goes, Like, Keeps
<1>15. CASE Mail(w)
  BY <1>15, MailDoes, <1>0, <1>a DEF SameStripe, SameAccount, SameFaults, Goes, Like, Keeps
<1>16. CASE MailFails(w)
  <2>1. Stops(w) /\ SameAccount
    BY <1>16, MailFailsDoes
  <2> QED BY <2>1, <1>0, <1>a DEF SameAccount, Stops, Like, Keeps
<1>17. CASE Record(w)
  BY <1>17, RecordDoes, <1>0, <1>a DEF SameStripe, SameFaults, SameClaim, Stops, Like, Keeps
<1>18. CASE Status(w)
  BY <1>18, StatusDoes, <1>0, <1>a DEF Still, SameStripe, SameAccount, SameMail, SameFaults,
     Ends, LikeStatus
<1>19. CASE Account(w)
  BY <1>19, AccountDoes, <1>0, <1>a DEF Still, SameStripe, SameAccount, SameMail,
     SameFaults, Ends, LikeAccount
<1>20. CASE Promote(w)
  BY <1>20, PromoteDoes, <1>0, <1>a DEF SameStripe, SameMail, SameFaults, Ends, LikeFinal,
     Pending
<1>21. CASE ClaimNow(w)
  BY <1>21, ClaimNowDoes, <1>0, <1>a DEF SameStripe, SameMail, SameFaults, Claims, Ends,
     LikeFinal, Pending
<1>22. CASE Claim(w)
  BY <1>22, ClaimDoes, <1>0, <1>a DEF SameStripe, SameMail, SameFaults, Claims, Ends,
     Restores, Keeps, LikeFinal, Pending
<1>23. CASE Fence(w)
  BY <1>23, FenceDoes, <1>0, <1>a DEF Still, SameStripe, SameAccount, SameMail, SameFaults,
     Like, Keeps
<1>24. CASE Index(w)
  BY <1>24, IndexDoes, <1>0, <1>a DEF SameStripe, SameMail, SameFaults, SameClaim, Ends,
     LikeThen, Keeps
<1>25. CASE Quiesce(w)
  BY <1>25, QuiesceDoes, <1>0, <1>a DEF Still, SameStripe, SameAccount, SameMail,
     SameFaults, Ends, Restores, Goes, Like, Keeps
<1>26. CASE Look(w)
  BY <1>26, LookDoes, <1>0, <1>a DEF Still, SameStripe, SameAccount, SameMail, SameFaults,
     Ends, Restores, LikeObj, LikeVoid, Goes, Like, Keeps
<1>27. CASE Note(w)
  BY <1>27, NoteDoes, <1>0, <1>a DEF SameAccount, SameMail, SameFaults, Ends, Goes, Like, Keeps
<1>28. CASE Hold(w)
  BY <1>28, HoldDoes, <1>0, <1>a DEF SameAccount, SameMail, SameFaults, Ends, Restores,
     Goes, Like, Keeps
<1>29. CASE StripeFails(w)
  BY <1>29, StripeFailsDoes, <1>0, <1>a DEF SameStripe, SameAccount, SameMail, Ends,
     Restores, Keeps
<1>30. CASE Void(w)
  BY <1>30, VoidDoes, <1>0, <1>a DEF SameMail, SameFaults, Ends, Restores, Goes, Like, Keeps
<1>31. CASE Restore(w)
  BY <1>31, RestoreDoes, <1>0, <1>a DEF SameAccount, SameMail, SameFaults, Ends, LikeObj,
     Goes, Like, Keeps, KnownOK
<1>32. CASE Forget(w)
  BY <1>32, ForgetDoes, <1>0, <1>a DEF SameAccount, SameMail, SameFaults, Goes, Like, Keeps
<1>33. CASE Recover(w)
  BY <1>33, RecoverDoes, <1>0, <1>a DEF SameAccount, SameMail, SameFaults, Ends, Goes, Like,
     Keeps
<1>34. CASE Cancel(w)
  BY <1>34, CancelDoes, <1>0, <1>a, NoAuditIs DEF SameStripe, SameFaults, Ends
<1>35. CASE RemoveControl(w)
  BY <1>35, RemoveControlDoes, <1>0, <1>a DEF SameMail, SameFaults, SameClaim, Like, Keeps
<1>36. CASE Remove(w)
  BY <1>36, RemoveDoes, <1>0, <1>a, FollowingIs DEF SameStripe, SameMail, SameFaults, Goes,
     Like, Keeps
<1>37. CASE Mark(w)
  BY <1>37, MarkDoes, <1>0, <1>a, FollowingIs DEF SameStripe, SameMail, SameFaults,
     SameClaim, Goes, Like, Keeps
<1>38. CASE Finish(w)
  BY <1>38, FinishDoes, <1>0, <1>a DEF SameStripe, SameFaults, Ends, AllMarked, Everything
<1>39. CASE Crash(w)
  BY <1>39, CrashDoes, <1>0, <1>a DEF SameStripe, SameAccount, Ends
<1>40. CASE Stall(w)
  BY <1>40, StallDoes, <1>0, <1>a DEF SameStripe, SameAccount
<1> QED BY <1>1, <1>2, <1>3, <1>4, <1>5, <1>6, <1>7, <1>8, <1>9, <1>10, <1>11, <1>12,
       <1>13, <1>14, <1>15, <1>16, <1>17, <1>18, <1>19, <1>20, <1>21, <1>22, <1>23,
       <1>24, <1>25, <1>26, <1>27, <1>28, <1>29, <1>30, <1>31, <1>32, <1>33, <1>34,
       <1>35, <1>36, <1>37, <1>38, <1>39, <1>40, ActIs

LEMMA PartsStep ==
    ASSUME TypeOK, KnownInv, PartsInv, NEW w \in Workers, Acts(w)
    PROVE  PartsInv'
<1>1. Framed(w)
  BY ActFrames
<1>2. ASSUME NEW v \in Workers \ {w} PROVE PartsOK(v)'
  BY <1>1 DEF Framed, Turn, PartsInv, PartsOK
<1> QED BY <1>2, PartsAct DEF PartsInv, Team

LEMMA PartsEnv == ASSUME PartsInv, Env PROVE PartsInv'
BY DEF PartsInv, PartsOK, Env, Team

LEMMA WinnerStep ==
    ASSUME TypeOK, KnownInv, PartsInv, OneWinner, NEW w \in Workers, Acts(w)
    PROVE  OneWinner'
<1> USE DEF OneWinner, Team, Pending
<1>0. KnownOK(w)
  BY DEF KnownInv
<1>1. CASE Signal(w)
  BY <1>1, SignalDoes, <1>0 DEF Still, SameStripe, SameAccount, SameMail, SameFaults
<1>2. CASE Apply(w)
  BY <1>2, ApplyDoes, <1>0 DEF SameMail, SameFaults
<1>3. CASE CancelMail(w)
  BY <1>3, CancelMailDoes, <1>0 DEF SameStripe, SameAccount, SameFaults
<1>4. CASE CloseGap(w)
  BY <1>4, CloseGapDoes, <1>0 DEF Still, SameStripe, SameAccount, SameMail, SameFaults
<1>5. CASE Hook(w)
  BY <1>5, HookDoes, <1>0 DEF Still, SameStripe, SameAccount, SameMail, SameFaults
<1>6. CASE ReadProvider(w)
  BY <1>6, ReadProviderDoes, <1>0 DEF Still, SameStripe, SameAccount, SameMail, SameFaults
<1>7. CASE Save(w)
  BY <1>7, SaveDoes, <1>0 DEF SameAccount, SameMail, SameFaults
<1>8. CASE Resume(w)
  BY <1>8, ResumeDoes, <1>0 DEF Still, SameStripe, SameAccount, SameMail, SameFaults
<1>9. CASE Advance(w)
  BY <1>9, AdvanceDoes, <1>0 DEF Still, SameStripe, SameAccount, SameMail, SameFaults
<1>10. CASE DeleteNow(w)
  BY <1>10, DeleteNowDoes, <1>0 DEF Still, SameStripe, SameAccount, SameMail, SameFaults
<1>11. CASE OpenGap(w)
  BY <1>11, OpenGapDoes, <1>0 DEF Still, SameStripe, SameAccount, SameMail, SameFaults
<1>12. CASE Reload(w)
  BY <1>12, ReloadDoes, <1>0 DEF Still, SameStripe, SameAccount, SameMail, SameFaults
<1>13. CASE ClaimMail(w)
  BY <1>13, ClaimMailDoes, <1>0 DEF SameStripe, SameAccount, SameFaults
<1>14. CASE Confirm(w)
  BY <1>14, ConfirmDoes, <1>0 DEF SameStripe, SameAccount, SameFaults
<1>15. CASE Mail(w)
  BY <1>15, MailDoes, <1>0 DEF SameStripe, SameAccount, SameFaults
<1>16. CASE MailFails(w)
  BY <1>16, MailFailsDoes, <1>0 DEF SameStripe, SameAccount
<1>17. CASE Record(w)
  BY <1>17, RecordDoes, <1>0 DEF SameStripe, SameFaults, SameClaim
<1>18. CASE Status(w)
  BY <1>18, StatusDoes, <1>0 DEF Still, SameStripe, SameAccount, SameMail, SameFaults
<1>19. CASE Account(w)
  BY <1>19, AccountDoes, <1>0 DEF Still, SameStripe, SameAccount, SameMail, SameFaults
<1>20. CASE Promote(w)
  BY <1>20, PromoteDoes, <1>0 DEF SameStripe, SameMail, SameFaults
<1>21. CASE ClaimNow(w)
  BY <1>21, ClaimNowDoes, <1>0 DEF SameStripe, SameMail, SameFaults, Claims, Mine
<1>22. CASE Claim(w)
  BY <1>22, ClaimDoes, <1>0 DEF SameStripe, SameMail, SameFaults, Claims, Mine
<1>23. CASE Fence(w)
  BY <1>23, FenceDoes, <1>0 DEF Still, SameStripe, SameAccount, SameMail, SameFaults
<1>24. CASE Index(w)
  BY <1>24, IndexDoes, <1>0 DEF SameStripe, SameMail, SameFaults, SameClaim
<1>25. CASE Quiesce(w)
  BY <1>25, QuiesceDoes, <1>0 DEF Still, SameStripe, SameAccount, SameMail, SameFaults
<1>26. CASE Look(w)
  BY <1>26, LookDoes, <1>0 DEF Still, SameStripe, SameAccount, SameMail, SameFaults
<1>27. CASE Note(w)
  BY <1>27, NoteDoes, <1>0 DEF SameAccount, SameMail, SameFaults
<1>28. CASE Hold(w)
  BY <1>28, HoldDoes, <1>0 DEF SameAccount, SameMail, SameFaults
<1>29. CASE StripeFails(w)
  BY <1>29, StripeFailsDoes, <1>0 DEF SameStripe, SameAccount, SameMail
<1>30. CASE Void(w)
  BY <1>30, VoidDoes, <1>0 DEF SameMail, SameFaults
<1>31. CASE Restore(w)
  BY <1>31, RestoreDoes, <1>0 DEF SameAccount, SameMail, SameFaults
<1>32. CASE Forget(w)
  BY <1>32, ForgetDoes, <1>0 DEF SameAccount, SameMail, SameFaults
<1>33. CASE Recover(w)
  BY <1>33, RecoverDoes, <1>0 DEF SameAccount, SameMail, SameFaults
<1>34. CASE Cancel(w)
  BY <1>34, CancelDoes, <1>0, NoAuditIs, StoppedIs DEF SameStripe, SameFaults
<1>35. CASE RemoveControl(w)
  BY <1>35, RemoveControlDoes, <1>0 DEF SameMail, SameFaults, SameClaim
<1>36. CASE Remove(w)
  BY <1>36, RemoveDoes, <1>0 DEF SameStripe, SameMail, SameFaults
<1>37. CASE Mark(w)
  BY <1>37, MarkDoes, <1>0 DEF SameStripe, SameMail, SameFaults, SameClaim
<1>38. CASE Finish(w)
  BY <1>38, FinishDoes, <1>0 DEF SameStripe, SameFaults, AllMarked, PartsInv
<1>39. CASE Crash(w)
  BY <1>39, CrashDoes, <1>0 DEF SameStripe, SameAccount
<1>40. CASE Stall(w)
  BY <1>40, StallDoes, <1>0 DEF SameStripe, SameAccount
<1> QED BY <1>1, <1>2, <1>3, <1>4, <1>5, <1>6, <1>7, <1>8, <1>9, <1>10, <1>11, <1>12,
       <1>13, <1>14, <1>15, <1>16, <1>17, <1>18, <1>19, <1>20, <1>21, <1>22, <1>23,
       <1>24, <1>25, <1>26, <1>27, <1>28, <1>29, <1>30, <1>31, <1>32, <1>33, <1>34,
       <1>35, <1>36, <1>37, <1>38, <1>39, <1>40, ActIs

LEMMA WinnerEnv == ASSUME OneWinner, Env PROVE OneWinner'
BY DEF OneWinner, Team, Pending, Env

LEMMA PaidOwn ==
    ASSUME TypeOK, KnownInv, PaidInv, NEW w \in Workers, Acts(w)
    PROVE  PaidOK(w)'
<1> USE DEF PaidOK
<1>0. KnownOK(w) /\ PaidOK(w)
  BY DEF KnownInv, PaidInv
<1>a. ASSUME me'[w] = Idle PROVE PaidOK(w)'
  BY <1>a, IdleIs
<1>b. inv'.no = inv.no /\ (Settled => Settled')
  BY ActPays DEF Settled
<1>c. ASSUME me'[w].start = me[w].start, SettledInvoice(w) PROVE SettledInvoice(w)'
  BY <1>b, <1>c DEF SettledInvoice
<1>1. CASE Signal(w)
  BY <1>1, SignalDoes, <1>0, <1>a, <1>b, <1>c DEF Still, SameStripe, Ends, Like, Keeps, KnownOK
<1>2. CASE Apply(w)
  BY <1>2, ApplyDoes, <1>0, <1>a, <1>b, <1>c DEF Ends, Goes, Like, Keeps, KnownOK
<1>3. CASE CancelMail(w)
  BY <1>3, CancelMailDoes, <1>0, <1>a, <1>b, <1>c DEF SameStripe, Goes, Like, Keeps, KnownOK
<1>4. CASE CloseGap(w)
  BY <1>4, CloseGapDoes, <1>0, <1>a, <1>b, <1>c DEF Still, SameStripe, Ends, KnownOK
<1>5. CASE Hook(w)
  BY <1>5, HookDoes, <1>0, <1>a, <1>b, <1>c, IdleIs DEF Still, SameStripe, Like, Keeps, KnownOK
<1>6. CASE ReadProvider(w)
  BY <1>6, ReadProviderDoes, <1>0, <1>a, <1>b, <1>c DEF Still, SameStripe, Ends, LikeRead,
     KnownOK
<1>7. CASE Save(w)
  BY <1>7, SaveDoes, <1>0, <1>a, <1>b, <1>c DEF Ends, Goes, Like, Keeps, KnownOK
<1>8. CASE Resume(w)
  BY <1>8, ResumeDoes, <1>0, <1>a, <1>b, <1>c DEF Still, SameStripe, LikeNew, KnownOK
<1>9. CASE Advance(w)
  BY <1>9, AdvanceDoes, <1>0, <1>a, <1>b, <1>c DEF Still, SameStripe, LikeNew, KnownOK
<1>10. CASE DeleteNow(w)
  BY <1>10, DeleteNowDoes, <1>0, <1>a, <1>b, <1>c DEF Still, SameStripe, LikeNew, KnownOK
<1>11. CASE OpenGap(w)
  BY <1>11, OpenGapDoes, <1>0, <1>a, <1>b, <1>c DEF Still, SameStripe, Ends, Goes, Like,
     Keeps, KnownOK
<1>12. CASE Reload(w)
  BY <1>12, ReloadDoes, <1>0, <1>a, <1>b, <1>c DEF Still, SameStripe, Stops, Like, Keeps,
     KnownOK
<1>13. CASE ClaimMail(w)
  BY <1>13, ClaimMailDoes, <1>0, <1>a, <1>b, <1>c DEF SameStripe, Stops, Goes, Like, Keeps,
     KnownOK
<1>14. CASE Confirm(w)
  BY <1>14, ConfirmDoes, <1>0, <1>a, <1>b, <1>c, IdleIs DEF SameStripe, Goes, Like, Keeps,
     KnownOK
<1>15. CASE Mail(w)
  BY <1>15, MailDoes, <1>0, <1>a, <1>b, <1>c DEF SameStripe, Goes, Like, Keeps, KnownOK
<1>16. CASE MailFails(w)
  BY <1>16, MailFailsDoes, <1>0, <1>a, <1>b, <1>c DEF SameStripe, Stops, Like, Keeps, KnownOK
<1>17. CASE Record(w)
  BY <1>17, RecordDoes, <1>0, <1>a, <1>b, <1>c DEF SameStripe, Stops, Like, Keeps, KnownOK
<1>18. CASE Status(w)
  BY <1>18, StatusDoes, <1>0, <1>a, <1>b, <1>c DEF Still, SameStripe, Ends, LikeStatus, KnownOK
<1>19. CASE Account(w)
  BY <1>19, AccountDoes, <1>0, <1>a, <1>b, <1>c DEF Still, SameStripe, Ends, LikeAccount,
     SettledInvoice
<1>20. CASE Promote(w)
  BY <1>20, PromoteDoes, <1>0, <1>a, <1>b, <1>c DEF SameStripe, Ends, LikeFinal, KnownOK
<1>21. CASE ClaimNow(w)
  BY <1>21, ClaimNowDoes, <1>0, <1>a, <1>b, <1>c DEF SameStripe, Ends, LikeFinal, KnownOK
<1>22. CASE Claim(w)
  BY <1>22, ClaimDoes, <1>0, <1>a, <1>b, <1>c DEF SameStripe, Ends, Restores, Keeps,
     LikeFinal, KnownOK
<1>23. CASE Fence(w)
  BY <1>23, FenceDoes, <1>0, <1>a, <1>b, <1>c DEF Still, SameStripe, Like, Keeps, KnownOK
<1>24. CASE Index(w)
  BY <1>24, IndexDoes, <1>0, <1>a, <1>b, <1>c DEF SameStripe, Ends, LikeThen, Keeps, KnownOK
<1>25. CASE Quiesce(w)
  BY <1>25, QuiesceDoes, <1>0, <1>a, <1>b, <1>c DEF Still, SameStripe, Ends, Restores, Goes,
     Like, Keeps, KnownOK
<1>26. CASE Look(w)
  BY <1>26, LookDoes, <1>0, <1>a, <1>b, <1>c DEF Still, SameStripe, Ends, Restores, LikeObj,
     LikeVoid, Goes, Like, Keeps, KnownOK
<1>27. CASE Note(w)
  BY <1>27, NoteDoes, <1>0, <1>a, <1>b, <1>c DEF Ends, Goes, Like, Keeps, KnownOK
<1>28. CASE Hold(w)
  BY <1>28, HoldDoes, <1>0, <1>a, <1>b, <1>c DEF Ends, Restores, Goes, Like, Keeps, KnownOK
<1>29. CASE StripeFails(w)
  BY <1>29, StripeFailsDoes, <1>0, <1>a, <1>b, <1>c DEF SameStripe, Ends, Restores, Keeps,
     KnownOK
<1>30. CASE Void(w)
  BY <1>30, VoidDoes, <1>0, <1>a, <1>b, <1>c DEF Ends, Restores, Goes, Like, Keeps, KnownOK
<1>31. CASE Restore(w)
  BY <1>31, RestoreDoes, <1>0, <1>a, <1>b, <1>c DEF Ends, LikeObj, Goes, Like, Keeps, KnownOK
<1>32. CASE Forget(w)
  BY <1>32, ForgetDoes, <1>0, <1>a, <1>b, <1>c DEF Goes, Like, Keeps, KnownOK
<1>33. CASE Recover(w)
  BY <1>33, RecoverDoes, <1>0, <1>a, <1>b, <1>c DEF Ends, Goes, Like, Keeps, KnownOK
<1>34. CASE Cancel(w)
  BY <1>34, CancelDoes, <1>0, <1>a, <1>b, <1>c DEF SameStripe, Ends, KnownOK
<1>35. CASE RemoveControl(w)
  BY <1>35, RemoveControlDoes, <1>0, <1>a, <1>b, <1>c DEF Like, Keeps, KnownOK
<1>36. CASE Remove(w)
  BY <1>36, RemoveDoes, <1>0, <1>a, <1>b, <1>c, FollowingIs DEF SameStripe, Goes, Like,
     Keeps, KnownOK
<1>37. CASE Mark(w)
  BY <1>37, MarkDoes, <1>0, <1>a, <1>b, <1>c, FollowingIs DEF SameStripe, Goes, Like, Keeps,
     KnownOK
<1>38. CASE Finish(w)
  BY <1>38, FinishDoes, <1>0, <1>a, <1>b, <1>c DEF SameStripe, Ends, KnownOK
<1>39. CASE Crash(w)
  BY <1>39, CrashDoes, <1>0, <1>a, <1>b, <1>c DEF SameStripe, Ends, KnownOK
<1>40. CASE Stall(w)
  BY <1>40, StallDoes, <1>0, <1>a, <1>b, <1>c DEF SameStripe, KnownOK
<1> QED BY <1>1, <1>2, <1>3, <1>4, <1>5, <1>6, <1>7, <1>8, <1>9, <1>10, <1>11, <1>12,
       <1>13, <1>14, <1>15, <1>16, <1>17, <1>18, <1>19, <1>20, <1>21, <1>22, <1>23,
       <1>24, <1>25, <1>26, <1>27, <1>28, <1>29, <1>30, <1>31, <1>32, <1>33, <1>34,
       <1>35, <1>36, <1>37, <1>38, <1>39, <1>40, ActIs

LEMMA PaidStep ==
    ASSUME TypeOK, KnownInv, PaidInv, NEW w \in Workers, Acts(w)
    PROVE  PaidInv'
<1>1. Framed(w) /\ PaidOK(w)' /\ (Settled => Settled')
  BY ActFrames, PaidOwn, ActPays DEF Settled
<1>2. ASSUME NEW v \in Workers \ {w} PROVE PaidOK(v)'
  BY <1>1 DEF Framed, Turn, PaidInv, PaidOK, SettledInvoice
<1> QED BY <1>1, <1>2 DEF PaidInv

LEMMA PaidEnv ==
    ASSUME TypeOK, NumbersInv, PaidInv, Env, Lapse \/ Pay \/ Tick
    PROVE  PaidInv'
<1>1. \/ inv'.no = inv.no /\ (Settled => Settled')
      \/ inv'.no = inv.no + 1
  BY LapseDoes, PayDoes, TickDoes DEF Still, SameStripe, Settled
<1>2. ASSUME NEW v \in Workers, me[v].due, SettledInvoice(v) PROVE SettledInvoice(v)'
  <2>1. inv.no \in Nat /\ me[v].start \in Nat /\ me[v].start <= inv.no
    BY <1>2, Numbers DEF NumbersInv
  <2>2. me' = me
    BY DEF Env
  <2>3. CASE inv'.no = inv.no /\ (Settled => Settled')
    BY <1>2, <2>2, <2>3 DEF SettledInvoice
  <2>4. CASE inv'.no = inv.no + 1
    BY <2>1, <2>2, <2>4 DEF SettledInvoice
  <2> QED BY <1>1, <2>3, <2>4
<1>3. ASSUME NEW v \in Workers PROVE PaidOK(v)'
  BY <1>2 DEF Env, PaidInv, PaidOK
<1> QED BY <1>3 DEF PaidInv

\* Nothing but a payment ends the early time, and until then no claim is called off.
LEMMA EarlyOwn ==
    ASSUME TypeOK, KnownInv, NumbersInv, PartsInv, OneWinner, EarlyInv, NEW w \in Workers,
           Acts(w), Early'
    PROVE  /\ inv.no = 0 /\ audit'.state = "pending" => audit'.owner
           /\ audit.state # "none" => audit'.state # "none"
           /\ me'[w].gone => audit'.state # "none"
           /\ Cancelling(w)' => inv.no = 0 /\ audit'.state # "none"
<1> USE DEF EarlyInv, Pending, Cancelling
<1>w. KnownOK(w)
  BY DEF KnownInv
<1>e. Early /\ (Settled => inv.no = 0)
  BY ActPays DEF Early, Settled
<1>i. /\ inv.no = 0 /\ Pending => audit.owner
      /\ me[w].gone => audit.state # "none"
      /\ Cancelling(w) => inv.no = 0 /\ audit.state # "none"
  BY <1>e
<1>c. inv.no = 0 => clock.start = 0
  BY Numbers DEF NumbersInv
<1>a. ASSUME me'[w] = Idle PROVE ~me'[w].gone /\ ~Cancelling(w)'
  BY <1>a, IdleIs
<1>1. CASE Signal(w)
  BY <1>1, SignalDoes, <1>w, <1>e, <1>i, <1>c, <1>a DEF Still, SameAccount, Ends, Like,
     Keeps, KnownOK
<1>2. CASE Apply(w)
  BY <1>2, ApplyDoes, <1>w, <1>e, <1>i, <1>c, <1>a DEF Ends, Goes, Like, Keeps, KnownOK
<1>3. CASE CancelMail(w)
  BY <1>3, CancelMailDoes, <1>w, <1>e, <1>i, <1>c, <1>a DEF SameAccount, Goes, Like, Keeps,
     KnownOK
<1>4. CASE CloseGap(w)
  BY <1>4, CloseGapDoes, <1>w, <1>e, <1>i, <1>c, <1>a DEF Still, SameAccount, Ends, KnownOK
<1>5. CASE Hook(w)
  BY <1>5, HookDoes, <1>w, <1>e, <1>i, <1>c, <1>a, IdleIs DEF Still, SameAccount, Like,
     Keeps, KnownOK
<1>6. CASE ReadProvider(w)
  BY <1>6, ReadProviderDoes, <1>w, <1>e, <1>i, <1>c, <1>a DEF Still, SameAccount, Ends,
     LikeRead, KnownOK
<1>7. CASE Save(w)
  BY <1>7, SaveDoes, <1>w, <1>e, <1>i, <1>c, <1>a DEF SameAccount, Ends, Goes, Like, Keeps,
     KnownOK
<1>8. CASE Resume(w)
  BY <1>8, ResumeDoes, <1>w, <1>e, <1>i, <1>c, <1>a DEF Still, SameAccount, LikeNew, KnownOK
<1>9. CASE Advance(w)
  BY <1>9, AdvanceDoes, <1>w, <1>e, <1>i, <1>c, <1>a DEF Still, SameAccount, LikeNew, KnownOK
<1>10. CASE DeleteNow(w)
  BY <1>10, DeleteNowDoes, <1>w, <1>e, <1>i, <1>c, <1>a DEF Still, SameAccount, LikeNew,
     OneWinner, KnownOK
<1>11. CASE OpenGap(w)
  BY <1>11, OpenGapDoes, <1>w, <1>e, <1>i, <1>c, <1>a DEF Still, SameAccount, Ends, Goes,
     Like, Keeps, KnownOK
<1>12. CASE Reload(w)
  BY <1>12, ReloadDoes, <1>w, <1>e, <1>i, <1>c, <1>a DEF Still, SameAccount, Stops, Like,
     Keeps, KnownOK
<1>13. CASE ClaimMail(w)
  BY <1>13, ClaimMailDoes, <1>w, <1>e, <1>i, <1>c, <1>a DEF SameAccount, Stops, Goes, Like,
     Keeps, KnownOK
<1>14. CASE Confirm(w)
  BY <1>14, ConfirmDoes, <1>w, <1>e, <1>i, <1>c, <1>a, IdleIs DEF SameAccount, Goes, Like,
     Keeps, KnownOK
<1>15. CASE Mail(w)
  BY <1>15, MailDoes, <1>w, <1>e, <1>i, <1>c, <1>a DEF SameAccount, Goes, Like, Keeps, KnownOK
<1>16. CASE MailFails(w)
  BY <1>16, MailFailsDoes, <1>w, <1>e, <1>i, <1>c, <1>a DEF SameAccount, Stops, Like, Keeps,
     KnownOK
<1>17. CASE Record(w)
  BY <1>17, RecordDoes, <1>w, <1>e, <1>i, <1>c, <1>a DEF SameClaim, Stops, Like, Keeps, KnownOK
<1>18. CASE Status(w)
  BY <1>18, StatusDoes, <1>w, <1>e, <1>i, <1>c, <1>a DEF Still, SameAccount, Ends,
     LikeStatus, KnownOK
<1>19. CASE Account(w)
  BY <1>19, AccountDoes, <1>w, <1>e, <1>i, <1>c, <1>a DEF Still, SameAccount, Ends,
     LikeAccount, KnownOK
<1>20. CASE Promote(w)
  BY <1>20, PromoteDoes, <1>w, <1>e, <1>i, <1>c, <1>a DEF Ends, LikeFinal, KnownOK
<1>21. CASE ClaimNow(w)
  BY <1>21, ClaimNowDoes, <1>w, <1>e, <1>i, <1>c, <1>a DEF Claims, Ends, LikeFinal, KnownOK,
     Mine
<1>22. CASE Claim(w)
  <2>1. CASE (Ends(w) \/ Restores(w, "fail")) /\ audit' = audit
    BY <2>1, <1>w, <1>e, <1>i, <1>a DEF Ends, Restores, Keeps
  <2>2. CASE /\ Claims(w) /\ Mine(w) /\ me[w].due
             /\ LikeFinal(me'[w], me[w], IF me[w].final \/ ~me[w].live THEN "fence"
                                         ELSE "quiesce", TRUE)
    <3>1. inv.no # 0
      BY <1>w, <1>c, <2>2 DEF Mine, KnownOK
    <3>2. ~Cancelling(w)'
      BY <2>2 DEF LikeFinal
    <3> QED BY <2>2, <3>1, <3>2 DEF Claims
  <2>3. CASE /\ Pending /\ audit'.state = "pending" /\ audit'.owner = audit.owner
             /\ LikeFinal(me'[w], me[w], IF me[w].final \/ ~me[w].live THEN "fence"
                                         ELSE "quiesce", TRUE)
    BY <2>3, <1>w, <1>i DEF LikeFinal
  <2> QED BY <1>22, <2>1, <2>2, <2>3, ClaimDoes
<1>23. CASE Fence(w)
  BY <1>23, FenceDoes, <1>w, <1>e, <1>i, <1>c, <1>a DEF Still, SameAccount, Like, Keeps,
     KnownOK
<1>24. CASE Index(w)
  BY <1>24, IndexDoes, <1>w, <1>e, <1>i, <1>c, <1>a DEF SameClaim, Ends, LikeThen, Keeps,
     KnownOK
<1>25. CASE Quiesce(w)
  BY <1>25, QuiesceDoes, <1>w, <1>e, <1>i, <1>c, <1>a DEF Still, SameAccount, Ends,
     Restores, Goes, Like, Keeps, KnownOK
<1>26. CASE Look(w)
  BY <1>26, LookDoes, <1>w, <1>e, <1>i, <1>c, <1>a DEF Still, SameAccount, Ends, Restores,
     LikeObj, LikeVoid, Goes, Like, Keeps, KnownOK
<1>27. CASE Note(w)
  BY <1>27, NoteDoes, <1>w, <1>e, <1>i, <1>c, <1>a DEF SameAccount, Ends, Goes, Like, Keeps,
     KnownOK
<1>28. CASE Hold(w)
  BY <1>28, HoldDoes, <1>w, <1>e, <1>i, <1>c, <1>a DEF SameAccount, Ends, Restores, Goes,
     Like, Keeps, KnownOK
<1>29. CASE StripeFails(w)
  BY <1>29, StripeFailsDoes, <1>w, <1>e, <1>i, <1>c, <1>a DEF SameAccount, Ends, Restores,
     Keeps, KnownOK
<1>30. CASE Void(w)
  BY <1>30, VoidDoes, <1>w, <1>e, <1>i, <1>c, <1>a DEF Ends, Restores, Goes, Like, Keeps,
     KnownOK
<1>31. CASE Restore(w)
  BY <1>31, RestoreDoes, <1>w, <1>e, <1>i, <1>c, <1>a DEF SameAccount, Ends, LikeObj, Goes,
     Like, Keeps, KnownOK
<1>32. CASE Forget(w)
  BY <1>32, ForgetDoes, <1>w, <1>e, <1>i, <1>c, <1>a DEF SameAccount, Goes, Like, Keeps,
     KnownOK
<1>33. CASE Recover(w)
  BY <1>33, RecoverDoes, <1>w, <1>e, <1>i, <1>c, <1>a DEF SameAccount, Ends, Goes, Like,
     Keeps, KnownOK
<1>34. CASE Cancel(w)
  BY <1>34, CancelDoes, <1>w, <1>e, <1>i, <1>c, <1>a, NoAuditIs DEF Ends, KnownOK
<1>35. CASE RemoveControl(w)
  BY <1>35, RemoveControlDoes, <1>w, <1>e, <1>i, <1>c, <1>a DEF SameClaim, Like, Keeps, KnownOK
<1>36. CASE Remove(w)
  BY <1>36, RemoveDoes, <1>w, <1>e, <1>i, <1>c, <1>a, FollowingIs DEF Goes, Like, Keeps,
     KnownOK
<1>37. CASE Mark(w)
  BY <1>37, MarkDoes, <1>w, <1>e, <1>i, <1>c, <1>a, FollowingIs DEF SameClaim, Goes, Like,
     Keeps, KnownOK
<1>38. CASE Finish(w)
  BY <1>38, FinishDoes, <1>w, <1>e, <1>i, <1>c, <1>a DEF Ends, KnownOK
<1>39. CASE Crash(w)
  BY <1>39, CrashDoes, <1>w, <1>e, <1>i, <1>c, <1>a DEF SameAccount, Ends, KnownOK
<1>40. CASE Stall(w)
  BY <1>40, StallDoes, <1>w, <1>e, <1>i, <1>c, <1>a DEF SameAccount, KnownOK
<1> QED BY <1>1, <1>2, <1>3, <1>4, <1>5, <1>6, <1>7, <1>8, <1>9, <1>10, <1>11, <1>12,
       <1>13, <1>14, <1>15, <1>16, <1>17, <1>18, <1>19, <1>20, <1>21, <1>22, <1>23,
       <1>24, <1>25, <1>26, <1>27, <1>28, <1>29, <1>30, <1>31, <1>32, <1>33, <1>34,
       <1>35, <1>36, <1>37, <1>38, <1>39, <1>40, ActIs

LEMMA EarlyStep ==
    ASSUME TypeOK, KnownInv, NumbersInv, PartsInv, OneWinner, EarlyInv, NEW w \in Workers,
           Acts(w)
    PROVE  EarlyInv'
<1>1. Framed(w)
  BY ActFrames
<1>2. Early' => Early
  BY ActPays DEF Early, Settled
<1>3. KnownOK(w)
  BY DEF KnownInv
<1>4. Early' =>
      /\ inv'.no = 0 /\ Pending' => audit'.owner
      /\ \A v \in Workers : me'[v].gone => audit'.state # "none"
      /\ \A v \in Workers : Cancelling(v)' => inv'.no = 0 /\ audit'.state # "none"
  <2> SUFFICES ASSUME Early' PROVE
        /\ inv'.no = 0 /\ Pending' => audit'.owner
        /\ \A v \in Workers : me'[v].gone => audit'.state # "none"
        /\ \A v \in Workers : Cancelling(v)' => inv'.no = 0 /\ audit'.state # "none"
    OBVIOUS
  <2>1. \A v \in Workers \ {w} : me'[v] = me[v]
    BY <1>1 DEF Framed, Turn
  <2> QED BY <1>1, <1>2, <2>1, EarlyOwn DEF Framed, EarlyInv, Cancelling, Pending
<1>5. inv'.status = "void" /\ inv'.no = 1 => audit'.state # "none"
  <2>1. SUFFICES ASSUME inv'.status = "void", inv'.no = 1 PROVE audit'.state # "none"
    OBVIOUS
  <2>2. Early' /\ Early /\ inv.no = 1
    BY <1>1, <1>2, <2>1 DEF Early, Settled, Framed
  <2>3. audit.state # "none"
    BY <1>3, <2>1, <2>2, ActPays DEF KnownOK, EarlyInv
  <2> QED BY <2>2, <2>3, EarlyOwn
<1> QED BY <1>4, <1>5 DEF EarlyInv

LEMMA EarlyEnv ==
    ASSUME TypeOK, NumbersInv, PartsInv, OneWinner, EarlyInv, Env, Lapse \/ Pay \/ Tick
    PROVE  EarlyInv'
<1>1. inv.no \in Nat
  BY Numbers
<1>2. CASE Lapse
  <2>1. audit.state = "none"
    <3>1. Team /\ ~clock.deleted
      BY <1>2, LapseDoes, StoppedIs
    <3>2. audit.state \in {"none", "pending", "done"}
      BY DEF TypeOK, AuditRow
    <3> QED BY <3>1, <3>2 DEF OneWinner, Pending, PartsInv, Team
  <2>2. Early' => Early
    BY <1>1, <1>2, LapseDoes DEF Early
  <2>3. inv'.no # 0 /\ inv'.status = "open" /\ audit' = audit /\ me' = me
    BY <1>1, <1>2, LapseDoes DEF SameAccount
  <2> QED BY <2>1, <2>2, <2>3 DEF EarlyInv, Cancelling, Pending
<1>3. CASE Pay
  <2>1. inv'.no = inv.no /\ inv'.status = "paid" /\ inv.no # 0
    BY <1>3, PayDoes DEF NumbersInv, Settled
  <2> QED BY <2>1 DEF EarlyInv, Early, Settled
<1>4. CASE Tick
  BY <1>4, TickDoes DEF Still, SameStripe, SameAccount, EarlyInv, Early, Settled, Pending,
     Cancelling
<1> QED BY <1>2, <1>3, <1>4

-----------------------------------------------------------------------------
(* The account lease: who goes on without it. *)

\* Another worker's step leaves a lease where it is.
LEMMA StaleOther ==
    ASSUME NEW w, Locking(w), NEW v \in Workers, v # w, me'[v] = me[v], Stale(v)'
    PROVE  Stale(v)
BY LocksAre, NoWorker DEF Locking, Stale

LEMMA StaleOwn ==
    ASSUME TypeOK, KnownInv, NEW w \in Workers, Acts(w), ~Stall(w), Team', Stale(w)'
    PROVE  Stale(w)
<1> USE LocksAre DEF Stale, Guarded, Team
<1>0. KnownOK(w)
  BY DEF KnownInv
<1>a. ASSUME me'[w] = Idle PROVE ~Stale(w)'
  BY <1>a, IdleIs
<1>1. CASE Signal(w)
  BY <1>1, SignalDoes, <1>0, <1>a DEF Still, SameAccount, Ends, Like, Keeps, LeaseTo
<1>2. CASE Apply(w)
  BY <1>2, ApplyDoes, <1>0, <1>a DEF Ends, Goes, Like, Keeps
<1>3. CASE CancelMail(w)
  BY <1>3, CancelMailDoes, <1>0, <1>a DEF SameAccount, Goes, Like, Keeps
<1>4. CASE CloseGap(w)
  BY <1>4, CloseGapDoes, <1>0, <1>a DEF Still, SameAccount, Ends
<1>5. CASE Hook(w)
  BY <1>5, HookDoes, <1>0, <1>a DEF Still, SameAccount, Like, Keeps, LeaseTo
<1>6. CASE ReadProvider(w)
  BY <1>6, ReadProviderDoes, <1>0, <1>a DEF Still, SameAccount, Ends, LikeRead
<1>7. CASE Save(w)
  BY <1>7, SaveDoes, <1>0, <1>a DEF SameAccount, Ends, Goes, Like, Keeps
<1>8. CASE Resume(w)
  BY <1>8, ResumeDoes, <1>0, <1>a DEF Still, SameAccount, LikeNew
<1>9. CASE Advance(w)
  BY <1>9, AdvanceDoes, <1>0, <1>a DEF Still, SameAccount, LikeNew
<1>10. CASE DeleteNow(w)
  BY <1>10, DeleteNowDoes, <1>0, <1>a DEF Still, SameAccount, LikeNew
<1>11. CASE OpenGap(w)
  BY <1>11, OpenGapDoes, <1>0, <1>a DEF Still, SameAccount, Ends, Goes, Like, Keeps
<1>12. CASE Reload(w)
  BY <1>12, ReloadDoes, <1>0, <1>a DEF Still, SameAccount, Stops, Like, Keeps, LeaseTo
<1>13. CASE ClaimMail(w)
  BY <1>13, ClaimMailDoes, <1>0, <1>a DEF SameAccount, Stops, Goes, Like, Keeps
<1>14. CASE Confirm(w)
  BY <1>14, ConfirmDoes, <1>0, <1>a DEF SameAccount, Goes, Like, Keeps
<1>15. CASE Mail(w)
  BY <1>15, MailDoes, <1>0, <1>a DEF SameAccount, Goes, Like, Keeps
<1>16. CASE MailFails(w)
  BY <1>16, MailFailsDoes, <1>0, <1>a DEF SameAccount, Stops, Like, Keeps
<1>17. CASE Record(w)
  BY <1>17, RecordDoes, <1>0, <1>a DEF Stops, Like, Keeps
<1>18. CASE Status(w)
  BY <1>18, StatusDoes, <1>0, <1>a DEF Still, SameAccount, Ends, LikeStatus
<1>19. CASE Account(w)
  BY <1>19, AccountDoes, <1>0, <1>a DEF Still, SameAccount, Ends, LikeAccount, LeaseTo
<1>20. CASE Promote(w)
  BY <1>20, PromoteDoes, <1>0, <1>a DEF Ends, LikeFinal
<1>21. CASE ClaimNow(w)
  BY <1>21, ClaimNowDoes, <1>0, <1>a DEF Ends, LikeFinal
<1>22. CASE Claim(w)
  BY <1>22, ClaimDoes, <1>0, <1>a DEF Ends, Restores, Keeps, LikeFinal
<1>23. CASE Fence(w)
  BY <1>23, FenceDoes, <1>0, <1>a DEF Still, SameAccount, Like, Keeps, LeaseTo
<1>24. CASE Index(w)
  BY <1>24, IndexDoes, <1>0, <1>a DEF Ends, LikeThen, Keeps
<1>25. CASE Quiesce(w)
  BY <1>25, QuiesceDoes, <1>0, <1>a DEF Still, SameAccount, Ends, Restores, Goes, Like, Keeps
<1>26. CASE Look(w)
  BY <1>26, LookDoes, <1>0, <1>a DEF Still, SameAccount, Ends, Restores, LikeObj, LikeVoid,
     Goes, Like, Keeps
<1>27. CASE Note(w)
  BY <1>27, NoteDoes, <1>0, <1>a DEF SameAccount, Ends, Goes, Like, Keeps
<1>28. CASE Hold(w)
  BY <1>28, HoldDoes, <1>0, <1>a DEF SameAccount, Ends, Restores, Goes, Like, Keeps
<1>29. CASE StripeFails(w)
  BY <1>29, StripeFailsDoes, <1>0, <1>a DEF SameAccount, Ends, Restores, Keeps
<1>30. CASE Void(w)
  BY <1>30, VoidDoes, <1>0, <1>a DEF Ends, Restores, Goes, Like, Keeps
<1>31. CASE Restore(w)
  BY <1>31, RestoreDoes, <1>0, <1>a DEF SameAccount, Ends, LikeObj, Goes, Like, Keeps, KnownOK
<1>32. CASE Forget(w)
  BY <1>32, ForgetDoes, <1>0, <1>a DEF SameAccount, Goes, Like, Keeps
<1>33. CASE Recover(w)
  BY <1>33, RecoverDoes, <1>0, <1>a DEF SameAccount, Ends, Goes, Like, Keeps
<1>34. CASE Cancel(w)
  BY <1>34, CancelDoes, <1>0, <1>a DEF Ends
<1>35. CASE RemoveControl(w)
  BY <1>35, RemoveControlDoes, <1>0, <1>a DEF Like, Keeps
<1>36. CASE Remove(w)
  BY <1>36, RemoveDoes, <1>0, <1>a, FollowingIs DEF Goes, Like, Keeps, KnownOK, After, Team
<1>37. CASE Mark(w)
  BY <1>37, MarkDoes, <1>0, <1>a, FollowingIs DEF Goes, Like, Keeps, KnownOK, After, Team
<1>38. CASE Finish(w)
  BY <1>38, FinishDoes, <1>0, <1>a DEF Ends
<1>39. CASE Crash(w)
  BY <1>39, CrashDoes, <1>0, <1>a DEF SameAccount, Ends
<1>40. CASE Stall(w)
  BY <1>40
<1> QED BY <1>1, <1>2, <1>3, <1>4, <1>5, <1>6, <1>7, <1>8, <1>9, <1>10, <1>11, <1>12,
       <1>13, <1>14, <1>15, <1>16, <1>17, <1>18, <1>19, <1>20, <1>21, <1>22, <1>23,
       <1>24, <1>25, <1>26, <1>27, <1>28, <1>29, <1>30, <1>31, <1>32, <1>33, <1>34,
       <1>35, <1>36, <1>37, <1>38, <1>39, <1>40, ActIs

LEMMA LeaseStep ==
    ASSUME TypeOK, KnownInv, LeaseInv, NEW w \in Workers, Acts(w)
    PROVE  LeaseInv'
<1>1. Framed(w)
  BY ActFrames
<1>2. SUFFICES ASSUME Team' PROVE LeaseInv'
  BY DEF LeaseInv
<1>3. Locking(w) /\ Team
  BY <1>1, <1>2 DEF Framed, Team
<1>4. \A v \in Workers \ {w} : Stale(v)' => Stale(v)
  BY <1>1, <1>3, StaleOther DEF Framed, Turn
<1>5. stalls \in Nat /\ stalls' \in Nat /\ stalls' >= stalls
  BY <1>1 DEF TypeOK, Framed
<1>6. CASE ~Stall(w)
  <2>1. \A v \in Workers : Stale(v)' => Stale(v)
    BY <1>2, <1>4, <1>6, StaleOwn
  <2>2. (stalls' = 0 => stalls = 0) /\ (stalls' <= 1 => stalls <= 1)
    BY <1>5
  <2> QED BY <1>3, <2>1, <2>2 DEF LeaseInv
<1>7. CASE Stall(w)
  <2>1. stalls' = stalls + 1
    BY <1>7, StallDoes
  <2>2. stalls' # 0 /\ (stalls' <= 1 => stalls = 0)
    BY <1>5, <2>1
  <2>3. stalls' <= 1 => \A v \in Workers \ {w} : ~Stale(v)'
    BY <1>3, <1>4, <2>2 DEF LeaseInv
  <2> QED BY <2>2, <2>3 DEF LeaseInv
<1> QED BY <1>6, <1>7

LEMMA LeaseEnv == ASSUME LeaseInv, Env PROVE LeaseInv'
BY DEF LeaseInv, Env, Stale, Team

-----------------------------------------------------------------------------
(* Where the steps lead, and who changes the claim. *)

LEMMA EntersFrom ==
    ASSUME TypeOK, KnownInv, NEW w \in Workers, Acts(w), ~Stall(w)
    PROVE  /\ me'[w].pc = "claim" => Look(w) \/ Status(w)
           /\ me'[w].pc = "fence" => Claim(w)
           /\ me'[w].pc = "index" => Fence(w)
           /\ me'[w].pc = "control" => Index(w)
           /\ me'[w].pc = "void" => Look(w)
           /\ me'[w].pc = "hold" => Note(w)
           /\ me'[w].pc = "forget" => Restore(w)
           /\ me'[w].pc = "apply" => Signal(w)
           /\ me'[w].pc = "cancelMail" => Apply(w)
           /\ me'[w].pc = "claimMail" => Reload(w)
           /\ me'[w].pc = "mail" => ClaimMail(w) \/ Confirm(w)
           /\ me'[w].pc = "record" => Mail(w)
<1>0. KnownOK(w)
  BY DEF KnownInv
<1>a. me'[w] = Idle => me'[w].pc = "idle"
  BY IdleIs
<1>1. CASE Signal(w)
  BY <1>1, SignalDoes, <1>0, <1>a DEF Ends, Like, Keeps
<1>2. CASE Apply(w)
  BY <1>2, ApplyDoes, <1>0, <1>a DEF Ends, Goes, Like, Keeps
<1>3. CASE CancelMail(w)
  BY <1>3, CancelMailDoes, <1>0, <1>a DEF Goes, Like, Keeps
<1>4. CASE CloseGap(w)
  BY <1>4, CloseGapDoes, <1>0, <1>a DEF Ends
<1>5. CASE Hook(w)
  BY <1>5, HookDoes, <1>0, <1>a DEF Like, Keeps
<1>6. CASE ReadProvider(w)
  BY <1>6, ReadProviderDoes, <1>0, <1>a DEF Ends, LikeRead
<1>7. CASE Save(w)
  BY <1>7, SaveDoes, <1>0, <1>a DEF Ends, Goes, Like, Keeps
<1>8. CASE Resume(w)
  BY <1>8, ResumeDoes, <1>0, <1>a DEF LikeNew
<1>9. CASE Advance(w)
  BY <1>9, AdvanceDoes, <1>0, <1>a DEF LikeNew
<1>10. CASE DeleteNow(w)
  BY <1>10, DeleteNowDoes, <1>0, <1>a DEF LikeNew
<1>11. CASE OpenGap(w)
  BY <1>11, OpenGapDoes, <1>0, <1>a DEF Ends, Goes, Like, Keeps
<1>12. CASE Reload(w)
  BY <1>12, ReloadDoes, <1>0, <1>a DEF Stops, Like, Keeps
<1>13. CASE ClaimMail(w)
  BY <1>13, ClaimMailDoes, <1>0, <1>a DEF Stops, Goes, Like, Keeps
<1>14. CASE Confirm(w)
  BY <1>14, ConfirmDoes, <1>0, <1>a DEF Goes, Like, Keeps
<1>15. CASE Mail(w)
  BY <1>15, MailDoes, <1>0, <1>a DEF Goes, Like, Keeps
<1>16. CASE MailFails(w)
  BY <1>16, MailFailsDoes, <1>0, <1>a DEF Stops, Like, Keeps
<1>17. CASE Record(w)
  BY <1>17, RecordDoes, <1>0, <1>a DEF Stops, Like, Keeps
<1>18. CASE Status(w)
  BY <1>18, StatusDoes, <1>0, <1>a DEF Ends, LikeStatus
<1>19. CASE Account(w)
  BY <1>19, AccountDoes, <1>0, <1>a DEF Ends, LikeAccount
<1>20. CASE Promote(w)
  BY <1>20, PromoteDoes, <1>0, <1>a DEF Ends, LikeFinal
<1>21. CASE ClaimNow(w)
  BY <1>21, ClaimNowDoes, <1>0, <1>a DEF Ends, LikeFinal
<1>22. CASE Claim(w)
  BY <1>22, ClaimDoes, <1>0, <1>a DEF Ends, Restores, Keeps, LikeFinal
<1>23. CASE Fence(w)
  BY <1>23, FenceDoes, <1>0, <1>a DEF Like, Keeps
<1>24. CASE Index(w)
  BY <1>24, IndexDoes, <1>0, <1>a DEF Ends, LikeThen, Keeps
<1>25. CASE Quiesce(w)
  BY <1>25, QuiesceDoes, <1>0, <1>a DEF Ends, Restores, Goes, Like, Keeps
<1>26. CASE Look(w)
  BY <1>26, LookDoes, <1>0, <1>a DEF Ends, Restores, LikeObj, LikeVoid, Goes, Like, Keeps
<1>27. CASE Note(w)
  BY <1>27, NoteDoes, <1>0, <1>a DEF Ends, Goes, Like, Keeps
<1>28. CASE Hold(w)
  BY <1>28, HoldDoes, <1>0, <1>a DEF Ends, Restores, Goes, Like, Keeps
<1>29. CASE StripeFails(w)
  BY <1>29, StripeFailsDoes, <1>0, <1>a DEF Ends, Restores, Keeps
<1>30. CASE Void(w)
  BY <1>30, VoidDoes, <1>0, <1>a DEF Ends, Restores, Goes, Like, Keeps
<1>31. CASE Restore(w)
  BY <1>31, RestoreDoes, <1>0, <1>a DEF Ends, LikeObj, Goes, Like, Keeps, KnownOK
<1>32. CASE Forget(w)
  BY <1>32, ForgetDoes, <1>0, <1>a DEF Goes, Like, Keeps
<1>33. CASE Recover(w)
  BY <1>33, RecoverDoes, <1>0, <1>a DEF Ends, Goes, Like, Keeps
<1>34. CASE Cancel(w)
  BY <1>34, CancelDoes, <1>0, <1>a DEF Ends
<1>35. CASE RemoveControl(w)
  BY <1>35, RemoveControlDoes, <1>0, <1>a DEF Like, Keeps
<1>36. CASE Remove(w)
  BY <1>36, RemoveDoes, <1>0, <1>a, FollowingIs DEF Goes, Like, Keeps
<1>37. CASE Mark(w)
  BY <1>37, MarkDoes, <1>0, <1>a, FollowingIs DEF Goes, Like, Keeps
<1>38. CASE Finish(w)
  BY <1>38, FinishDoes, <1>0, <1>a DEF Ends
<1>39. CASE Crash(w)
  BY <1>39, CrashDoes, <1>0, <1>a DEF Ends
<1>40. CASE Stall(w)
  BY <1>40
<1> QED BY <1>1, <1>2, <1>3, <1>4, <1>5, <1>6, <1>7, <1>8, <1>9, <1>10, <1>11, <1>12,
       <1>13, <1>14, <1>15, <1>16, <1>17, <1>18, <1>19, <1>20, <1>21, <1>22, <1>23,
       <1>24, <1>25, <1>26, <1>27, <1>28, <1>29, <1>30, <1>31, <1>32, <1>33, <1>34,
       <1>35, <1>36, <1>37, <1>38, <1>39, <1>40, ActIs

\* Only Hook and Account take the account lease.
LEMMA AccountFrom ==
    ASSUME TypeOK, KnownInv, NEW w \in Workers, Acts(w), lock'["account"] = w
    PROVE  lock["account"] = w \/ Hook(w) \/ Account(w)
<1> USE LocksAre, NoWorker
<1>0. KnownOK(w)
  BY DEF KnownInv
<1>a. Ends(w) \/ Stops(w) => \A k \in Locks : lock'[k] = lock[k] \/ lock'[k] = None
  BY EndsLocks, StopsLocks, EndsNone DEF Locking
<1>1. CASE Signal(w)
  BY <1>1, SignalDoes, <1>a DEF Ends, LeaseTo
<1>2. CASE Apply(w)
  BY <1>2, ApplyDoes, <1>a DEF Ends, Goes
<1>3. CASE CancelMail(w)
  BY <1>3, CancelMailDoes, <1>a DEF Goes
<1>4. CASE CloseGap(w)
  BY <1>4, CloseGapDoes, <1>a DEF Ends
<1>5. CASE Hook(w)
  BY <1>5
<1>6. CASE ReadProvider(w)
  BY <1>6, ReadProviderDoes, <1>a DEF Ends
<1>7. CASE Save(w)
  BY <1>7, SaveDoes, <1>a DEF Ends, Goes
<1>8. CASE Resume(w)
  BY <1>8, ResumeDoes, <1>a DEF Still
<1>9. CASE Advance(w)
  BY <1>9, AdvanceDoes, <1>a DEF Still
<1>10. CASE DeleteNow(w)
  BY <1>10, DeleteNowDoes, <1>a DEF Still
<1>11. CASE OpenGap(w)
  BY <1>11, OpenGapDoes, <1>a DEF Ends, Goes
<1>12. CASE Reload(w)
  BY <1>12, ReloadDoes, <1>a DEF LeaseTo
<1>13. CASE ClaimMail(w)
  BY <1>13, ClaimMailDoes, <1>a DEF Stops, Goes
<1>14. CASE Confirm(w)
  BY <1>14, ConfirmDoes, <1>a DEF Goes
<1>15. CASE Mail(w)
  BY <1>15, MailDoes, <1>a DEF Goes
<1>16. CASE MailFails(w)
  BY <1>16, MailFailsDoes, <1>a DEF Stops
<1>17. CASE Record(w)
  BY <1>17, RecordDoes, <1>a DEF Stops
<1>18. CASE Status(w)
  BY <1>18, StatusDoes, <1>a DEF Ends
<1>19. CASE Account(w)
  BY <1>19
<1>20. CASE Promote(w)
  BY <1>20, PromoteDoes, <1>a DEF Ends
<1>21. CASE ClaimNow(w)
  BY <1>21, ClaimNowDoes, <1>a DEF Ends
<1>22. CASE Claim(w)
  BY <1>22, ClaimDoes, <1>a DEF Ends, Restores
<1>23. CASE Fence(w)
  BY <1>23, FenceDoes, <1>a DEF LeaseTo
<1>24. CASE Index(w)
  BY <1>24, IndexDoes, <1>a DEF Ends
<1>25. CASE Quiesce(w)
  BY <1>25, QuiesceDoes, <1>a DEF Ends, Restores, Goes
<1>26. CASE Look(w)
  BY <1>26, LookDoes, <1>a DEF Ends, Restores, Goes
<1>27. CASE Note(w)
  BY <1>27, NoteDoes, <1>a DEF Ends, Goes
<1>28. CASE Hold(w)
  BY <1>28, HoldDoes, <1>a DEF Ends, Restores, Goes
<1>29. CASE StripeFails(w)
  BY <1>29, StripeFailsDoes, <1>a DEF Ends, Restores
<1>30. CASE Void(w)
  BY <1>30, VoidDoes, <1>a DEF Ends, Restores, Goes
<1>31. CASE Restore(w)
  BY <1>31, RestoreDoes, <1>0, <1>a DEF Ends, Goes
<1>32. CASE Forget(w)
  BY <1>32, ForgetDoes, <1>a DEF Goes
<1>33. CASE Recover(w)
  BY <1>33, RecoverDoes, <1>a DEF Ends, Goes
<1>34. CASE Cancel(w)
  BY <1>34, CancelDoes, <1>a DEF Ends
<1>35. CASE RemoveControl(w)
  BY <1>35, RemoveControlDoes, <1>a
<1>36. CASE Remove(w)
  BY <1>36, RemoveDoes, <1>a DEF Goes
<1>37. CASE Mark(w)
  BY <1>37, MarkDoes, <1>0, <1>a DEF Goes
<1>38. CASE Finish(w)
  BY <1>38, FinishDoes, <1>a DEF Ends
<1>39. CASE Crash(w)
  BY <1>39, CrashDoes, <1>a DEF Ends
<1>40. CASE Stall(w)
  BY <1>40, StallDoes, StallLocks
<1> QED BY <1>1, <1>2, <1>3, <1>4, <1>5, <1>6, <1>7, <1>8, <1>9, <1>10, <1>11, <1>12,
       <1>13, <1>14, <1>15, <1>16, <1>17, <1>18, <1>19, <1>20, <1>21, <1>22, <1>23,
       <1>24, <1>25, <1>26, <1>27, <1>28, <1>29, <1>30, <1>31, <1>32, <1>33, <1>34,
       <1>35, <1>36, <1>37, <1>38, <1>39, <1>40, ActIs

\* A claim that is pending stays so while the team is there, unless it was reopened and
\* is called off; and only a void that was too late reopens it.
LEMMA ClaimMoves ==
    ASSUME TypeOK, KnownInv, PartsInv, OneWinner, NEW w \in Workers, Acts(w), Team', Pending
    PROVE  \/ /\ Pending'
              /\ audit.auth => audit'.auth \/ (Void(w) /\ Restores(w, "recover"))
           \/ Cancel(w) /\ ~audit.auth
<1> USE DEF Pending, Team
<1>w. KnownOK(w) /\ audit.auth \in BOOLEAN
  BY DEF KnownInv, TypeOK, AuditRow
<1>t. Team
  BY ActFrames DEF Framed
<1>d. clock.deleted /\ "control" \notin audit.steps
  BY <1>t DEF OneWinner, PartsInv
<1>1. CASE Signal(w)
  BY <1>1, SignalDoes, <1>w, <1>t, <1>d DEF Still, SameAccount
<1>2. CASE Apply(w)
  BY <1>2, ApplyDoes, <1>w, <1>t, <1>d
<1>3. CASE CancelMail(w)
  BY <1>3, CancelMailDoes, <1>w, <1>t, <1>d DEF SameAccount
<1>4. CASE CloseGap(w)
  BY <1>4, CloseGapDoes, <1>w, <1>t, <1>d DEF Still, SameAccount
<1>5. CASE Hook(w)
  BY <1>5, HookDoes, <1>w, <1>t, <1>d DEF Still, SameAccount
<1>6. CASE ReadProvider(w)
  BY <1>6, ReadProviderDoes, <1>w, <1>t, <1>d DEF Still, SameAccount
<1>7. CASE Save(w)
  BY <1>7, SaveDoes, <1>w, <1>t, <1>d DEF SameAccount
<1>8. CASE Resume(w)
  BY <1>8, ResumeDoes, <1>w, <1>t, <1>d DEF Still, SameAccount
<1>9. CASE Advance(w)
  BY <1>9, AdvanceDoes, <1>w, <1>t, <1>d DEF Still, SameAccount
<1>10. CASE DeleteNow(w)
  BY <1>10, DeleteNowDoes, <1>w, <1>t, <1>d DEF Still, SameAccount
<1>11. CASE OpenGap(w)
  BY <1>11, OpenGapDoes, <1>w, <1>t, <1>d DEF Still, SameAccount
<1>12. CASE Reload(w)
  BY <1>12, ReloadDoes, <1>w, <1>t, <1>d DEF Still, SameAccount
<1>13. CASE ClaimMail(w)
  BY <1>13, ClaimMailDoes, <1>w, <1>t, <1>d DEF SameAccount
<1>14. CASE Confirm(w)
  BY <1>14, ConfirmDoes, <1>w, <1>t, <1>d DEF SameAccount
<1>15. CASE Mail(w)
  BY <1>15, MailDoes, <1>w, <1>t, <1>d DEF SameAccount
<1>16. CASE MailFails(w)
  BY <1>16, MailFailsDoes, <1>w, <1>t, <1>d DEF SameAccount
<1>17. CASE Record(w)
  BY <1>17, RecordDoes, <1>w, <1>t, <1>d DEF SameClaim
<1>18. CASE Status(w)
  BY <1>18, StatusDoes, <1>w, <1>t, <1>d DEF Still, SameAccount
<1>19. CASE Account(w)
  BY <1>19, AccountDoes, <1>w, <1>t, <1>d DEF Still, SameAccount
<1>20. CASE Promote(w)
  BY <1>20, PromoteDoes, <1>w, <1>t, <1>d
<1>21. CASE ClaimNow(w)
  BY <1>21, ClaimNowDoes, <1>w, <1>t, <1>d DEF Claims, Mine
<1>22. CASE Claim(w)
  BY <1>22, ClaimDoes, <1>w, <1>t, <1>d DEF Claims, Mine
<1>23. CASE Fence(w)
  BY <1>23, FenceDoes, <1>w, <1>t, <1>d DEF Still, SameAccount
<1>24. CASE Index(w)
  BY <1>24, IndexDoes, <1>w, <1>t, <1>d DEF SameClaim
<1>25. CASE Quiesce(w)
  BY <1>25, QuiesceDoes, <1>w, <1>t, <1>d DEF Still, SameAccount
<1>26. CASE Look(w)
  BY <1>26, LookDoes, <1>w, <1>t, <1>d DEF Still, SameAccount
<1>27. CASE Note(w)
  BY <1>27, NoteDoes, <1>w, <1>t, <1>d DEF SameAccount
<1>28. CASE Hold(w)
  BY <1>28, HoldDoes, <1>w, <1>t, <1>d DEF SameAccount
<1>29. CASE StripeFails(w)
  BY <1>29, StripeFailsDoes, <1>w, <1>t, <1>d DEF SameAccount
<1>30. CASE Void(w)
  BY <1>30, VoidDoes, <1>w, <1>t, <1>d
<1>31. CASE Restore(w)
  BY <1>31, RestoreDoes, <1>w, <1>t, <1>d DEF SameAccount
<1>32. CASE Forget(w)
  BY <1>32, ForgetDoes, <1>w, <1>t, <1>d DEF SameAccount
<1>33. CASE Recover(w)
  BY <1>33, RecoverDoes, <1>w, <1>t, <1>d DEF SameAccount
<1>34. CASE Cancel(w)
  BY <1>34, CancelDoes, <1>w, <1>t, <1>d
<1>35. CASE RemoveControl(w)
  BY <1>35, RemoveControlDoes, <1>w, <1>t, <1>d DEF SameClaim
<1>36. CASE Remove(w)
  BY <1>36, RemoveDoes, <1>w, <1>t, <1>d
<1>37. CASE Mark(w)
  BY <1>37, MarkDoes, <1>w, <1>t, <1>d DEF SameClaim
<1>38. CASE Finish(w)
  BY <1>38, FinishDoes, <1>w, <1>t, <1>d DEF AllMarked
<1>39. CASE Crash(w)
  BY <1>39, CrashDoes, <1>w, <1>t, <1>d DEF SameAccount
<1>40. CASE Stall(w)
  BY <1>40, StallDoes, <1>w, <1>t, <1>d DEF SameAccount
<1> QED BY <1>1, <1>2, <1>3, <1>4, <1>5, <1>6, <1>7, <1>8, <1>9, <1>10, <1>11, <1>12,
       <1>13, <1>14, <1>15, <1>16, <1>17, <1>18, <1>19, <1>20, <1>21, <1>22, <1>23,
       <1>24, <1>25, <1>26, <1>27, <1>28, <1>29, <1>30, <1>31, <1>32, <1>33, <1>34,
       <1>35, <1>36, <1>37, <1>38, <1>39, <1>40, ActIs

\* Who claims holds the account lease and keeps it.
LEMMA NewClaim ==
    ASSUME TypeOK, TeamInv, KnownInv, NEW w \in Workers, Acts(w), ~Pending, Pending'
    PROVE  Holds(w, "account")
<1> USE DEF Pending, Team
<1>w. KnownOK(w)
  BY DEF KnownInv
<1>t. ~me[w].gone /\ me[w].due /\ Mine(w) => Team
  <2>1. me[w].due => me[w].start # 0
    BY <1>w DEF KnownOK
  <2> QED BY <2>1, StoppedIs DEF Mine, TeamInv
<1>1. CASE Signal(w)
  BY <1>1, SignalDoes, <1>w, <1>t DEF Still, SameAccount
<1>2. CASE Apply(w)
  BY <1>2, ApplyDoes, <1>w, <1>t
<1>3. CASE CancelMail(w)
  BY <1>3, CancelMailDoes, <1>w, <1>t DEF SameAccount
<1>4. CASE CloseGap(w)
  BY <1>4, CloseGapDoes, <1>w, <1>t DEF Still, SameAccount
<1>5. CASE Hook(w)
  BY <1>5, HookDoes, <1>w, <1>t DEF Still, SameAccount
<1>6. CASE ReadProvider(w)
  BY <1>6, ReadProviderDoes, <1>w, <1>t DEF Still, SameAccount
<1>7. CASE Save(w)
  BY <1>7, SaveDoes, <1>w, <1>t DEF SameAccount
<1>8. CASE Resume(w)
  BY <1>8, ResumeDoes, <1>w, <1>t DEF Still, SameAccount
<1>9. CASE Advance(w)
  BY <1>9, AdvanceDoes, <1>w, <1>t DEF Still, SameAccount
<1>10. CASE DeleteNow(w)
  BY <1>10, DeleteNowDoes, <1>w, <1>t DEF Still, SameAccount
<1>11. CASE OpenGap(w)
  BY <1>11, OpenGapDoes, <1>w, <1>t DEF Still, SameAccount
<1>12. CASE Reload(w)
  BY <1>12, ReloadDoes, <1>w, <1>t DEF Still, SameAccount
<1>13. CASE ClaimMail(w)
  BY <1>13, ClaimMailDoes, <1>w, <1>t DEF SameAccount
<1>14. CASE Confirm(w)
  BY <1>14, ConfirmDoes, <1>w, <1>t DEF SameAccount
<1>15. CASE Mail(w)
  BY <1>15, MailDoes, <1>w, <1>t DEF SameAccount
<1>16. CASE MailFails(w)
  BY <1>16, MailFailsDoes, <1>w, <1>t DEF SameAccount
<1>17. CASE Record(w)
  BY <1>17, RecordDoes, <1>w, <1>t DEF SameClaim
<1>18. CASE Status(w)
  BY <1>18, StatusDoes, <1>w, <1>t DEF Still, SameAccount
<1>19. CASE Account(w)
  BY <1>19, AccountDoes, <1>w, <1>t DEF Still, SameAccount
<1>20. CASE Promote(w)
  BY <1>20, PromoteDoes, <1>w, <1>t
<1>21. CASE ClaimNow(w)
  BY <1>21, ClaimNowDoes, <1>w, <1>t
<1>22. CASE Claim(w)
  BY <1>22, ClaimDoes, <1>w, <1>t DEF KnownOK
<1>23. CASE Fence(w)
  BY <1>23, FenceDoes, <1>w, <1>t DEF Still, SameAccount
<1>24. CASE Index(w)
  BY <1>24, IndexDoes, <1>w, <1>t DEF SameClaim
<1>25. CASE Quiesce(w)
  BY <1>25, QuiesceDoes, <1>w, <1>t DEF Still, SameAccount
<1>26. CASE Look(w)
  BY <1>26, LookDoes, <1>w, <1>t DEF Still, SameAccount
<1>27. CASE Note(w)
  BY <1>27, NoteDoes, <1>w, <1>t DEF SameAccount
<1>28. CASE Hold(w)
  BY <1>28, HoldDoes, <1>w, <1>t DEF SameAccount
<1>29. CASE StripeFails(w)
  BY <1>29, StripeFailsDoes, <1>w, <1>t DEF SameAccount
<1>30. CASE Void(w)
  BY <1>30, VoidDoes, <1>w, <1>t
<1>31. CASE Restore(w)
  BY <1>31, RestoreDoes, <1>w, <1>t DEF SameAccount
<1>32. CASE Forget(w)
  BY <1>32, ForgetDoes, <1>w, <1>t DEF SameAccount
<1>33. CASE Recover(w)
  BY <1>33, RecoverDoes, <1>w, <1>t DEF SameAccount
<1>34. CASE Cancel(w)
  BY <1>34, CancelDoes, <1>w, <1>t, NoAuditIs
<1>35. CASE RemoveControl(w)
  BY <1>35, RemoveControlDoes, <1>w, <1>t DEF SameClaim
<1>36. CASE Remove(w)
  BY <1>36, RemoveDoes, <1>w, <1>t
<1>37. CASE Mark(w)
  BY <1>37, MarkDoes, <1>w, <1>t DEF SameClaim
<1>38. CASE Finish(w)
  BY <1>38, FinishDoes, <1>w, <1>t
<1>39. CASE Crash(w)
  BY <1>39, CrashDoes, <1>w, <1>t DEF SameAccount
<1>40. CASE Stall(w)
  BY <1>40, StallDoes, <1>w, <1>t DEF SameAccount
<1> QED BY <1>1, <1>2, <1>3, <1>4, <1>5, <1>6, <1>7, <1>8, <1>9, <1>10, <1>11, <1>12,
       <1>13, <1>14, <1>15, <1>16, <1>17, <1>18, <1>19, <1>20, <1>21, <1>22, <1>23,
       <1>24, <1>25, <1>26, <1>27, <1>28, <1>29, <1>30, <1>31, <1>32, <1>33, <1>34,
       <1>35, <1>36, <1>37, <1>38, <1>39, <1>40, ActIs

LEMMA NoneFrom ==
    ASSUME TypeOK, KnownInv, NEW w \in Workers, Acts(w), audit.state # "none",
           audit'.state = "none"
    PROVE  Cancel(w) /\ Team'
<1> USE DEF Pending, Team
<1>w. KnownOK(w)
  BY DEF KnownInv
<1>1. CASE Signal(w)
  BY <1>1, SignalDoes, <1>w DEF Still, SameAccount
<1>2. CASE Apply(w)
  BY <1>2, ApplyDoes, <1>w
<1>3. CASE CancelMail(w)
  BY <1>3, CancelMailDoes, <1>w DEF SameAccount
<1>4. CASE CloseGap(w)
  BY <1>4, CloseGapDoes, <1>w DEF Still, SameAccount
<1>5. CASE Hook(w)
  BY <1>5, HookDoes, <1>w DEF Still, SameAccount
<1>6. CASE ReadProvider(w)
  BY <1>6, ReadProviderDoes, <1>w DEF Still, SameAccount
<1>7. CASE Save(w)
  BY <1>7, SaveDoes, <1>w DEF SameAccount
<1>8. CASE Resume(w)
  BY <1>8, ResumeDoes, <1>w DEF Still, SameAccount
<1>9. CASE Advance(w)
  BY <1>9, AdvanceDoes, <1>w DEF Still, SameAccount
<1>10. CASE DeleteNow(w)
  BY <1>10, DeleteNowDoes, <1>w DEF Still, SameAccount
<1>11. CASE OpenGap(w)
  BY <1>11, OpenGapDoes, <1>w DEF Still, SameAccount
<1>12. CASE Reload(w)
  BY <1>12, ReloadDoes, <1>w DEF Still, SameAccount
<1>13. CASE ClaimMail(w)
  BY <1>13, ClaimMailDoes, <1>w DEF SameAccount
<1>14. CASE Confirm(w)
  BY <1>14, ConfirmDoes, <1>w DEF SameAccount
<1>15. CASE Mail(w)
  BY <1>15, MailDoes, <1>w DEF SameAccount
<1>16. CASE MailFails(w)
  BY <1>16, MailFailsDoes, <1>w DEF SameAccount
<1>17. CASE Record(w)
  BY <1>17, RecordDoes, <1>w DEF SameClaim
<1>18. CASE Status(w)
  BY <1>18, StatusDoes, <1>w DEF Still, SameAccount
<1>19. CASE Account(w)
  BY <1>19, AccountDoes, <1>w DEF Still, SameAccount
<1>20. CASE Promote(w)
  BY <1>20, PromoteDoes, <1>w
<1>21. CASE ClaimNow(w)
  BY <1>21, ClaimNowDoes, <1>w DEF Claims
<1>22. CASE Claim(w)
  BY <1>22, ClaimDoes, <1>w DEF Claims
<1>23. CASE Fence(w)
  BY <1>23, FenceDoes, <1>w DEF Still, SameAccount
<1>24. CASE Index(w)
  BY <1>24, IndexDoes, <1>w DEF SameClaim
<1>25. CASE Quiesce(w)
  BY <1>25, QuiesceDoes, <1>w DEF Still, SameAccount
<1>26. CASE Look(w)
  BY <1>26, LookDoes, <1>w DEF Still, SameAccount
<1>27. CASE Note(w)
  BY <1>27, NoteDoes, <1>w DEF SameAccount
<1>28. CASE Hold(w)
  BY <1>28, HoldDoes, <1>w DEF SameAccount
<1>29. CASE StripeFails(w)
  BY <1>29, StripeFailsDoes, <1>w DEF SameAccount
<1>30. CASE Void(w)
  BY <1>30, VoidDoes, <1>w
<1>31. CASE Restore(w)
  BY <1>31, RestoreDoes, <1>w DEF SameAccount
<1>32. CASE Forget(w)
  BY <1>32, ForgetDoes, <1>w DEF SameAccount
<1>33. CASE Recover(w)
  BY <1>33, RecoverDoes, <1>w DEF SameAccount
<1>34. CASE Cancel(w)
  BY <1>34, CancelDoes, <1>w
<1>35. CASE RemoveControl(w)
  BY <1>35, RemoveControlDoes, <1>w DEF SameClaim
<1>36. CASE Remove(w)
  BY <1>36, RemoveDoes, <1>w
<1>37. CASE Mark(w)
  BY <1>37, MarkDoes, <1>w DEF SameClaim
<1>38. CASE Finish(w)
  BY <1>38, FinishDoes, <1>w
<1>39. CASE Crash(w)
  BY <1>39, CrashDoes, <1>w DEF SameAccount
<1>40. CASE Stall(w)
  BY <1>40, StallDoes, <1>w DEF SameAccount
<1> QED BY <1>1, <1>2, <1>3, <1>4, <1>5, <1>6, <1>7, <1>8, <1>9, <1>10, <1>11, <1>12,
       <1>13, <1>14, <1>15, <1>16, <1>17, <1>18, <1>19, <1>20, <1>21, <1>22, <1>23,
       <1>24, <1>25, <1>26, <1>27, <1>28, <1>29, <1>30, <1>31, <1>32, <1>33, <1>34,
       <1>35, <1>36, <1>37, <1>38, <1>39, <1>40, ActIs

-----------------------------------------------------------------------------
(* The destruction. *)

LEMMA PassedStep ==
    ASSUME TypeOK, TeamInv, KnownInv, DestroyInv, NEW w \in Workers, Acts(w),
           NEW v \in Workers
    PROVE  PassedOK(v)'
<1> USE LocksAre, NoWorker
<1>1. SUFFICES ASSUME me'[v].pc = "claim", me'[v].final, lock'["account"] = v, Pending'
               PROVE  inv'.status # "open"
  BY DEF PassedOK, Holds
<1>2. inv'.status = "open" => inv.status = "open"
  BY ActPays
<1>3. Framed(w) /\ TeamInv'
  BY ActFrames, TeamStep
<1>4. Team' /\ Locking(w) /\ Team
  BY <1>1, <1>3 DEF TeamInv, Framed, Team
<1>5. CASE v = w
  <2>1. ~Stall(w)
    BY <1>1, <1>5, StallDoes, StallLocks
  <2>2. Look(w) \/ Status(w)
    BY <1>1, <1>5, <2>1, EntersFrom
  <2>3. CASE Look(w)
    BY <1>1, <1>2, <1>5, <2>3, LookDoes, IdleIs
       DEF Ends, Restores, LikeObj, LikeVoid, Goes, Like, Keeps
  <2>4. CASE Status(w)
    BY <1>1, <1>4, <1>5, <2>4, StatusDoes, IdleIs DEF Ends, LikeStatus
  <2> QED BY <2>2, <2>3, <2>4
<1>6. CASE v # w
  <2>1. me'[v] = me[v] /\ lock["account"] = v
    BY <1>1, <1>3, <1>4, <1>6 DEF Framed, Turn, Locking
  <2>2. Pending
    BY <1>1, <1>6, <2>1, NewClaim DEF Holds
  <2> QED BY <1>1, <1>2, <2>1, <2>2 DEF DestroyInv, PassedOK, Holds
<1> QED BY <1>5, <1>6

\* A worker that destroys goes on with what it found.
LEMMA DestroyOwn ==
    ASSUME TypeOK, TeamInv, KnownInv, DestroyInv, NEW w \in Workers, Acts(w),
           Destroying(w)', stalls' <= 1, Team', ~Stall(w)
    PROVE  DestroyOK(w)'
<1>1. Framed(w) /\ KnownOK(w) /\ (inv'.status = "open" => inv.status = "open")
  BY ActFrames, ActPays DEF KnownInv
<1>2. stalls <= 1 /\ Team /\ (stalls' = 0 => stalls = 0)
  BY <1>1 DEF Framed, Team, TypeOK
<1>3. \A v \in Workers \ {w} : me'[v] = me[v]
  BY <1>1 DEF Framed, Turn
<1>4. CASE Claim(w)
  <2>1. LikeFinal(me'[w], me[w], IF me[w].final \/ ~me[w].live THEN "fence" ELSE "quiesce", TRUE)
        /\ lock' = lock /\ (me[w].live => Holds(w, "account"))
        /\ (~me[w].gone \/ Pending) /\ audit'.state = "pending" /\ audit'.auth
    BY <1>4, ClaimDoes, IdleIs DEF Claims, Ends, Restores, Destroying
  <2>2. me[w].live /\ me[w].final /\ me[w].gone /\ me[w].pc = "claim"
    BY <1>1, <1>2, <1>4, <2>1, ClaimDoes DEF KnownOK, LikeFinal, Destroying
  <2>3. inv.status # "open" /\ Holds(w, "account")
    BY <2>1, <2>2 DEF DestroyInv, PassedOK
  <2>4. Holds(w, "account")'
    BY <2>1, <2>3 DEF Holds
  <2> QED BY <1>1, <2>1, <2>3, <2>4 DEF DestroyOK, Pending
<1>5. CASE Fence(w) \/ Index(w)
  <2>1. /\ me[w].pc \in {"fence", "index"} /\ inv' = inv /\ stalls' = stalls
        /\ audit'.state = audit.state /\ audit'.auth = audit.auth
        /\ lock'["account"] = lock["account"]
    <3>1. CASE Fence(w)
      BY <3>1, FenceDoes, LocksAre DEF Still, SameStripe, SameAccount, SameFaults, LeaseTo
    <3>2. CASE Index(w)
      BY <3>2, IndexDoes, IdleIs DEF SameStripe, SameFaults, SameClaim, Ends, Destroying
    <3> QED BY <1>5, <3>1, <3>2
  <2>2. DestroyOK(w) /\ Destroying(w)
    BY <1>2, <2>1 DEF DestroyInv, Destroying
  <2>3. \A v \in Workers \ {w} : Recovering(v) => Recovering(v)'
    BY <1>3 DEF Recovering
  <2>4. me'[w].pc # "void"
    BY DEF Destroying
  <2>5. \A v \in Workers : me'[v].pc = "void" => me[v].pc = "void"
    BY <1>3, <2>4
  <2> QED BY <1>3, <2>1, <2>2, <2>3, <2>5 DEF DestroyOK, Holds, Pending
<1> QED BY <1>4, <1>5, EntersFrom DEF Destroying

\* A worker that gives back what was held, without the lease, comes to nothing else.
LEMMA RecoverOn ==
    ASSUME TypeOK, KnownInv, NEW w \in Workers, Acts(w), Recovering(w), ~Holds(w, "account")
    PROVE  me'[w] = Idle \/ Recovering(w)'
<1> USE DEF Recovering
<1>w. KnownOK(w)
  BY DEF KnownInv
<1>1. CASE Signal(w)
  BY <1>1, SignalDoes, <1>w DEF Ends, Like, Keeps
<1>2. CASE Apply(w)
  BY <1>2, ApplyDoes, <1>w DEF Ends, Goes, Like, Keeps
<1>3. CASE CancelMail(w)
  BY <1>3, CancelMailDoes, <1>w DEF Goes, Like, Keeps
<1>4. CASE CloseGap(w)
  BY <1>4, CloseGapDoes, <1>w DEF Ends
<1>5. CASE Hook(w)
  BY <1>5, HookDoes, <1>w, IdleIs DEF Like, Keeps
<1>6. CASE ReadProvider(w)
  BY <1>6, ReadProviderDoes, <1>w DEF Ends, LikeRead
<1>7. CASE Save(w)
  BY <1>7, SaveDoes, <1>w DEF Ends, Goes, Like, Keeps
<1>8. CASE Resume(w)
  BY <1>8, ResumeDoes, <1>w, IdleIs DEF LikeNew
<1>9. CASE Advance(w)
  BY <1>9, AdvanceDoes, <1>w, IdleIs DEF LikeNew
<1>10. CASE DeleteNow(w)
  BY <1>10, DeleteNowDoes, <1>w, IdleIs DEF LikeNew
<1>11. CASE OpenGap(w)
  BY <1>11, OpenGapDoes, <1>w DEF Ends, Goes, Like, Keeps
<1>12. CASE Reload(w)
  BY <1>12, ReloadDoes, <1>w
<1>13. CASE ClaimMail(w)
  BY <1>13, ClaimMailDoes, <1>w DEF Stops, Goes, Like, Keeps
<1>14. CASE Confirm(w)
  BY <1>14, ConfirmDoes, <1>w, IdleIs DEF Goes, Like, Keeps
<1>15. CASE Mail(w)
  BY <1>15, MailDoes, <1>w DEF Goes, Like, Keeps
<1>16. CASE MailFails(w)
  BY <1>16, MailFailsDoes, <1>w DEF Stops, Like, Keeps
<1>17. CASE Record(w)
  BY <1>17, RecordDoes, <1>w DEF Stops, Like, Keeps
<1>18. CASE Status(w)
  BY <1>18, StatusDoes, <1>w DEF Ends, LikeStatus
<1>19. CASE Account(w)
  BY <1>19, AccountDoes, <1>w DEF Ends, LikeAccount
<1>20. CASE Promote(w)
  BY <1>20, PromoteDoes, <1>w DEF Ends, LikeFinal
<1>21. CASE ClaimNow(w)
  BY <1>21, ClaimNowDoes, <1>w DEF Ends, LikeFinal
<1>22. CASE Claim(w)
  BY <1>22, ClaimDoes, <1>w DEF Ends, Restores, Keeps, LikeFinal
<1>23. CASE Fence(w)
  BY <1>23, FenceDoes, <1>w DEF Like, Keeps
<1>24. CASE Index(w)
  BY <1>24, IndexDoes, <1>w DEF Ends, LikeThen, Keeps
<1>25. CASE Quiesce(w)
  BY <1>25, QuiesceDoes, <1>w DEF Ends, Restores, Goes, Like, Keeps
<1>26. CASE Look(w)
  BY <1>26, LookDoes, <1>w DEF Ends, Restores, LikeObj, LikeVoid, Goes, Like, Keeps
<1>27. CASE Note(w)
  BY <1>27, NoteDoes, <1>w DEF Ends, Goes, Like, Keeps
<1>28. CASE Hold(w)
  BY <1>28, HoldDoes, <1>w DEF Ends, Restores, Goes, Like, Keeps
<1>29. CASE StripeFails(w)
  BY <1>29, StripeFailsDoes, <1>w DEF Ends, Restores, Keeps
<1>30. CASE Void(w)
  BY <1>30, VoidDoes, <1>w DEF Ends, Restores, Goes, Like, Keeps
<1>31. CASE Restore(w)
  BY <1>31, RestoreDoes, <1>w DEF Ends, LikeObj, Goes, Like, Keeps
<1>32. CASE Forget(w)
  BY <1>32, ForgetDoes, <1>w DEF Goes, Like, Keeps
<1>33. CASE Recover(w)
  BY <1>33, RecoverDoes, <1>w DEF Ends, Goes, Like, Keeps
<1>34. CASE Cancel(w)
  BY <1>34, CancelDoes, <1>w DEF Ends
<1>35. CASE RemoveControl(w)
  BY <1>35, RemoveControlDoes, <1>w DEF Like, Keeps
<1>36. CASE Remove(w)
  BY <1>36, RemoveDoes, <1>w DEF Goes, Like, Keeps
<1>37. CASE Mark(w)
  BY <1>37, MarkDoes, <1>w DEF Goes, Like, Keeps
<1>38. CASE Finish(w)
  BY <1>38, FinishDoes, <1>w DEF Ends
<1>39. CASE Crash(w)
  BY <1>39, CrashDoes, <1>w DEF Ends
<1>40. CASE Stall(w)
  BY <1>40, StallDoes, <1>w
<1> QED BY <1>1, <1>2, <1>3, <1>4, <1>5, <1>6, <1>7, <1>8, <1>9, <1>10, <1>11, <1>12,
       <1>13, <1>14, <1>15, <1>16, <1>17, <1>18, <1>19, <1>20, <1>21, <1>22, <1>23,
       <1>24, <1>25, <1>26, <1>27, <1>28, <1>29, <1>30, <1>31, <1>32, <1>33, <1>34,
       <1>35, <1>36, <1>37, <1>38, <1>39, <1>40, ActIs

\* Nobody but a stale worker can be in the way, and there is at most one.
LEMMA DestroyOther ==
    ASSUME TypeOK, TeamInv, KnownInv, PartsInv, OneWinner, LeaseInv, DestroyInv,
           NEW w \in Workers, NEW v \in Workers \ {w}, Acts(v),
           Destroying(w), stalls' <= 1, Team'
    PROVE  DestroyOK(w)'
<1> USE LocksAre, NoWorker
<1>1. Framed(v) /\ KnownOK(v) /\ (inv'.status = "open" => inv.status = "open")
  BY ActFrames, ActPays DEF KnownInv
<1>2. stalls <= 1 /\ Team /\ (stalls' = 0 => stalls = 0)
  BY <1>1 DEF Framed, Team, TypeOK
<1>3. DestroyOK(w) /\ Pending /\ inv.status # "open"
  BY <1>2 DEF DestroyInv, DestroyOK
<1>4. Locking(v) /\ (\A u \in Workers \ {v} : me'[u] = me[u]) /\ me'[w] = me[w]
  BY <1>1 DEF Framed, Turn
<1>5. Holds(w, "account")' <=> Holds(w, "account")
  BY <1>4 DEF Locking, Holds
<1>6. me[w].pc \in Guarded
  BY DEF Destroying, Guarded
<1>7. ~audit.auth => Holds(w, "account") /\ \A u \in Workers \ {w} : me[u].pc \in Guarded =>
   Recovering(u)
  BY <1>3 DEF DestroyOK
<1>8. ~(Cancel(v) /\ ~audit.auth)
  <2>1. SUFFICES ASSUME Cancel(v), ~audit.auth PROVE FALSE
    OBVIOUS
  <2>2. me[v].pc = "cancel"
    BY <2>1, CancelDoes
  <2>3. me[v].pc \in Guarded /\ ~Recovering(v)
    BY <2>2 DEF Guarded, Recovering
  <2> QED BY <1>7, <2>1, <2>3
<1>9. Pending' /\ (audit.auth => audit'.auth \/ (Void(v) /\ Restores(v, "recover")))
  BY <1>3, <1>8, ClaimMoves
<1>10. CASE audit'.auth
  <2>1. ASSUME ~Holds(w, "account")', NEW u \in Workers, me'[u].pc = "void",
               lock'["account"] = u
        PROVE  FALSE
    <3>1. u # w /\ ~Holds(w, "account")
      BY <1>4, <1>5, <2>1 DEF Destroying
    <3>2. CASE u # v
      <4>1. me[u].pc = "void" /\ Holds(u, "account")
        BY <1>4, <2>1, <3>2 DEF Locking, Holds
      <4> QED BY <1>3, <3>1, <4>1 DEF DestroyOK
    <3>3. CASE u = v
      <4>1. ~Stall(v)
        BY <2>1, <3>3, StallDoes, StallLocks
      <4>2. Look(v)
        BY <2>1, <3>3, <4>1, EntersFrom
      <4> QED BY <1>3, <2>1, <3>3, <4>2, LookDoes, IdleIs
              DEF Ends, Restores, LikeObj, LikeVoid, Goes, Like, Keeps
    <3> QED BY <3>2, <3>3
  <2> QED BY <1>1, <1>3, <1>9, <1>10, <2>1 DEF DestroyOK, Holds
<1>11. CASE ~audit'.auth /\ audit.auth
  <2>1. Void(v) /\ Restores(v, "recover")
    BY <1>9, <1>11
  <2>2. me[v].pc = "void" /\ me[v].pc \in Guarded
    BY <2>1, VoidDoes DEF Guarded
  <2>3. Holds(w, "account")
    <3>1. SUFFICES ASSUME ~Holds(w, "account") PROVE FALSE
      OBVIOUS
    <3>2. Stale(w) /\ Stale(v)
      BY <1>3, <1>6, <2>2, <3>1 DEF DestroyOK, Stale, Holds
    <3> QED BY <1>2, <3>2 DEF LeaseInv
  <2>4. Stale(v)
    BY <2>2, <2>3 DEF Stale, Holds
  <2>5. stalls # 0
    BY <1>2, <2>4 DEF LeaseInv
  <2>6. ASSUME NEW u \in Workers \ {w}, me'[u].pc \in Guarded PROVE Recovering(u)'
    <3>1. CASE u = v
      BY <2>1, <3>1 DEF Restores, Recovering
    <3>2. CASE u # v
      <4>1. Stale(u)
        BY <1>4, <2>3, <2>6, <3>2 DEF Stale, Holds
      <4> QED BY <1>2, <2>4, <3>2, <4>1 DEF LeaseInv
    <3> QED BY <3>1, <3>2
  <2> QED BY <1>1, <1>2, <1>3, <1>5, <1>9, <2>3, <2>5, <2>6 DEF DestroyOK
<1>12. CASE ~audit'.auth /\ ~audit.auth
  <2>1. Holds(w, "account") /\ stalls' # 0
    BY <1>2, <1>3, <1>6, <1>12 DEF DestroyOK
  <2>2. ASSUME NEW u \in Workers \ {w}, me'[u].pc \in Guarded PROVE Recovering(u)'
    <3>1. CASE u # v
      <4>1. me'[u] = me[u] /\ Recovering(u)
        BY <1>4, <1>7, <1>12, <2>2, <3>1
      <4> QED BY <4>1 DEF Recovering
    <3>2. CASE u = v /\ Stall(v)
      <4>1. me'[v] = me[v] /\ Recovering(v)
        BY <1>7, <1>12, <2>2, <3>2, StallDoes
      <4> QED BY <3>2, <4>1 DEF Recovering
    <3>3. CASE u = v /\ ~Stall(v)
      <4>1. Stale(v)'
        BY <1>5, <2>1, <2>2, <3>3 DEF Stale, Holds
      <4>2. me[v].pc \in Guarded
        BY <3>3, <4>1, StaleOwn DEF Stale
      <4>3. Recovering(v) /\ ~Holds(v, "account")
        BY <1>7, <1>12, <2>1, <4>2 DEF Holds
      <4>4. me'[v] # Idle
        BY <2>2, <3>3, IdleIs DEF Guarded
      <4> QED BY <3>3, <4>3, <4>4, RecoverOn
    <3> QED BY <3>1, <3>2, <3>3
  <2> QED BY <1>1, <1>3, <1>5, <1>9, <2>1, <2>2 DEF DestroyOK
<1>13. audit'.auth \in BOOLEAN /\ audit.auth \in BOOLEAN
  BY <1>1 DEF Framed, TypeOK, AuditRow
<1> QED BY <1>10, <1>11, <1>12, <1>13

\* A destroyer that outlives its leases had claimed with them.
LEMMA DestroyStall ==
    ASSUME TypeOK, TeamInv, KnownInv, LeaseInv, DestroyInv, NEW w \in Workers, Stall(w),
           Acts(w), Destroying(w), stalls' <= 1, Team'
    PROVE  DestroyOK(w)'
<1> USE LocksAre, NoWorker
<1>1. /\ SameStripe /\ SameAccount /\ stalls' = stalls + 1 /\ me' = me
      /\ lock' = Free(w, {"account", "transition"})
  BY StallDoes
<1>2. stalls = 0 /\ Team
  BY <1>1 DEF TypeOK, SameAccount, Team
<1>3. Locking(w) /\ lock'["account"] # w
  BY <1>1, StallLocks
<1>4. DestroyOK(w) /\ audit.auth
  BY <1>2 DEF DestroyInv, DestroyOK
<1>5. ASSUME NEW v \in Workers, me'[v].pc = "void" PROVE lock'["account"] # v
  <2>1. v # w /\ me[v].pc \in Guarded /\ me[w].pc \in Guarded
    BY <1>1, <1>5 DEF Destroying, Guarded
  <2>2. lock["account"] = v /\ lock["account"] = w
    BY <1>2, <2>1 DEF LeaseInv, Stale
  <2> QED BY <2>1, <2>2
<1> QED BY <1>1, <1>4, <1>5 DEF DestroyOK, SameStripe, SameAccount, Pending, Holds

\* The team goes by removeControl only.
LEMMA TeamFrom ==
    ASSUME TypeOK, KnownInv, NEW w \in Workers, Acts(w), Team, ~Team'
    PROVE  RemoveControl(w)
<1> USE DEF Team
<1>w. KnownOK(w)
  BY DEF KnownInv
<1>1. CASE Signal(w)
  BY <1>1, SignalDoes, <1>w DEF Still, SameAccount
<1>2. CASE Apply(w)
  BY <1>2, ApplyDoes, <1>w
<1>3. CASE CancelMail(w)
  BY <1>3, CancelMailDoes, <1>w DEF SameAccount
<1>4. CASE CloseGap(w)
  BY <1>4, CloseGapDoes, <1>w DEF Still, SameAccount
<1>5. CASE Hook(w)
  BY <1>5, HookDoes, <1>w DEF Still, SameAccount
<1>6. CASE ReadProvider(w)
  BY <1>6, ReadProviderDoes, <1>w DEF Still, SameAccount
<1>7. CASE Save(w)
  BY <1>7, SaveDoes, <1>w DEF SameAccount
<1>8. CASE Resume(w)
  BY <1>8, ResumeDoes, <1>w DEF Still, SameAccount
<1>9. CASE Advance(w)
  BY <1>9, AdvanceDoes, <1>w DEF Still, SameAccount
<1>10. CASE DeleteNow(w)
  BY <1>10, DeleteNowDoes, <1>w DEF Still, SameAccount
<1>11. CASE OpenGap(w)
  BY <1>11, OpenGapDoes, <1>w DEF Still, SameAccount
<1>12. CASE Reload(w)
  BY <1>12, ReloadDoes, <1>w DEF Still, SameAccount
<1>13. CASE ClaimMail(w)
  BY <1>13, ClaimMailDoes, <1>w DEF SameAccount
<1>14. CASE Confirm(w)
  BY <1>14, ConfirmDoes, <1>w DEF SameAccount
<1>15. CASE Mail(w)
  BY <1>15, MailDoes, <1>w DEF SameAccount
<1>16. CASE MailFails(w)
  BY <1>16, MailFailsDoes, <1>w DEF SameAccount
<1>17. CASE Record(w)
  BY <1>17, RecordDoes, <1>w
<1>18. CASE Status(w)
  BY <1>18, StatusDoes, <1>w DEF Still, SameAccount
<1>19. CASE Account(w)
  BY <1>19, AccountDoes, <1>w DEF Still, SameAccount
<1>20. CASE Promote(w)
  BY <1>20, PromoteDoes, <1>w
<1>21. CASE ClaimNow(w)
  BY <1>21, ClaimNowDoes, <1>w
<1>22. CASE Claim(w)
  BY <1>22, ClaimDoes, <1>w
<1>23. CASE Fence(w)
  BY <1>23, FenceDoes, <1>w DEF Still, SameAccount
<1>24. CASE Index(w)
  BY <1>24, IndexDoes, <1>w
<1>25. CASE Quiesce(w)
  BY <1>25, QuiesceDoes, <1>w DEF Still, SameAccount
<1>26. CASE Look(w)
  BY <1>26, LookDoes, <1>w DEF Still, SameAccount
<1>27. CASE Note(w)
  BY <1>27, NoteDoes, <1>w DEF SameAccount
<1>28. CASE Hold(w)
  BY <1>28, HoldDoes, <1>w DEF SameAccount
<1>29. CASE StripeFails(w)
  BY <1>29, StripeFailsDoes, <1>w DEF SameAccount
<1>30. CASE Void(w)
  BY <1>30, VoidDoes, <1>w
<1>31. CASE Restore(w)
  BY <1>31, RestoreDoes, <1>w DEF SameAccount
<1>32. CASE Forget(w)
  BY <1>32, ForgetDoes, <1>w DEF SameAccount
<1>33. CASE Recover(w)
  BY <1>33, RecoverDoes, <1>w DEF SameAccount
<1>34. CASE Cancel(w)
  BY <1>34, CancelDoes, <1>w
<1>35. CASE RemoveControl(w)
  BY <1>35
<1>36. CASE Remove(w)
  BY <1>36, RemoveDoes, <1>w DEF KnownOK, After
<1>37. CASE Mark(w)
  BY <1>37, MarkDoes, <1>w
<1>38. CASE Finish(w)
  BY <1>38, FinishDoes, <1>w
<1>39. CASE Crash(w)
  BY <1>39, CrashDoes, <1>w DEF SameAccount
<1>40. CASE Stall(w)
  BY <1>40, StallDoes, <1>w DEF SameAccount
<1> QED BY <1>1, <1>2, <1>3, <1>4, <1>5, <1>6, <1>7, <1>8, <1>9, <1>10, <1>11, <1>12,
       <1>13, <1>14, <1>15, <1>16, <1>17, <1>18, <1>19, <1>20, <1>21, <1>22, <1>23,
       <1>24, <1>25, <1>26, <1>27, <1>28, <1>29, <1>30, <1>31, <1>32, <1>33, <1>34,
       <1>35, <1>36, <1>37, <1>38, <1>39, <1>40, ActIs

LEMMA DestroyStep ==
    ASSUME TypeOK, TeamInv, KnownInv, PartsInv, OneWinner, LeaseInv, DestroyInv,
           NEW w \in Workers, Acts(w)
    PROVE  DestroyInv'
<1>1. \A v \in Workers : PassedOK(v)'
  BY PassedStep
<1>2. Framed(w)
  BY ActFrames
<1>3. ASSUME stalls' <= 1, Team', NEW v \in Workers PROVE DestroyOK(v)'
  <2>1. SUFFICES ASSUME Destroying(v)' PROVE DestroyOK(v)'
    BY DEF DestroyOK, Destroying
  <2>2. CASE v # w
    <3>1. Destroying(v)
      BY <1>2, <2>1, <2>2 DEF Framed, Turn, Destroying
    <3> QED BY <1>3, <2>2, <3>1, DestroyOther
  <2>3. CASE v = w /\ ~Stall(w)
    BY <1>3, <2>1, <2>3, DestroyOwn
  <2>4. CASE v = w /\ Stall(w)
    <3>1. Destroying(w)
      BY <2>1, <2>4, StallDoes DEF Destroying
    <3> QED BY <1>3, <2>4, <3>1, DestroyStall
  <2> QED BY <2>2, <2>3, <2>4
<1>4. ASSUME stalls' <= 1, ~Team' PROVE audit'.state # "none"
  <2>1. stalls <= 1
    BY <1>2, <1>4 DEF Framed, TypeOK
  <2>2. CASE audit.state # "none"
    BY <1>4, <2>2, NoneFrom
  <2>3. CASE audit.state = "none"
    <3>1. Team
      BY <2>1, <2>3 DEF DestroyInv
    <3>2. RemoveControl(w)
      BY <1>4, <3>1, TeamFrom
    <3>3. Destroying(w) /\ DestroyOK(w)
      BY <2>1, <3>1, <3>2, RemoveControlDoes DEF DestroyInv, Destroying
    <3> QED BY <2>3, <3>3 DEF DestroyOK, Pending
  <2> QED BY <2>2, <2>3
<1> QED BY <1>1, <1>3, <1>4 DEF DestroyInv

LEMMA DestroyEnv ==
    ASSUME TypeOK, TeamInv, OneWinner, DestroyInv, Env, Lapse \/ Pay \/ Tick
    PROVE  DestroyInv'
<1>1. Team /\ Pending /\ inv'.status = "open" => inv.status = "open"
  <2>1. CASE Lapse
    BY <2>1, LapseDoes, StoppedIs DEF OneWinner
  <2>2. CASE Pay
    BY <2>2, PayDoes
  <2>3. CASE Tick
    BY <2>3, TickDoes DEF Still, SameStripe
  <2> QED BY <2>1, <2>2, <2>3
<1>2. ASSUME NEW v \in Workers PROVE PassedOK(v)'
  <2>1. lock["account"] = v => Team
    BY NoWorker DEF TeamInv
  <2> QED BY <1>1, <2>1 DEF PassedOK, DestroyInv, Env, Holds, Pending
<1>3. ASSUME NEW v \in Workers, stalls' <= 1, Team' PROVE DestroyOK(v)'
  <2>1. DestroyOK(v) /\ Team
    BY <1>3 DEF DestroyInv, Env, Team
  <2> QED BY <1>1, <2>1 DEF DestroyOK, Env, Destroying, Holds, Pending, Recovering
<1> QED BY <1>2, <1>3 DEF DestroyInv, Env, Team

-----------------------------------------------------------------------------
(* What is held, and the clock under the transition lease. *)

LEMMA HeldFrom ==
    ASSUME TypeOK, KnownInv, NEW w \in Workers, Acts(w)
    PROVE  \/ held' = held /\ noted' = noted
           \/ Note(w) \/ Hold(w) \/ Void(w) \/ Restore(w) \/ Forget(w) \/ RemoveControl(w)
<1>1. CASE Signal(w)
  BY <1>1, SignalDoes DEF Still, SameStripe
<1>2. CASE Apply(w)
  BY <1>2, ApplyDoes
<1>3. CASE CancelMail(w)
  BY <1>3, CancelMailDoes DEF SameStripe
<1>4. CASE CloseGap(w)
  BY <1>4, CloseGapDoes DEF Still, SameStripe
<1>5. CASE Hook(w)
  BY <1>5, HookDoes DEF Still, SameStripe
<1>6. CASE ReadProvider(w)
  BY <1>6, ReadProviderDoes DEF Still, SameStripe
<1>7. CASE Save(w)
  BY <1>7, SaveDoes
<1>8. CASE Resume(w)
  BY <1>8, ResumeDoes DEF Still, SameStripe
<1>9. CASE Advance(w)
  BY <1>9, AdvanceDoes DEF Still, SameStripe
<1>10. CASE DeleteNow(w)
  BY <1>10, DeleteNowDoes DEF Still, SameStripe
<1>11. CASE OpenGap(w)
  BY <1>11, OpenGapDoes DEF Still, SameStripe
<1>12. CASE Reload(w)
  BY <1>12, ReloadDoes DEF Still, SameStripe
<1>13. CASE ClaimMail(w)
  BY <1>13, ClaimMailDoes DEF SameStripe
<1>14. CASE Confirm(w)
  BY <1>14, ConfirmDoes DEF SameStripe
<1>15. CASE Mail(w)
  BY <1>15, MailDoes DEF SameStripe
<1>16. CASE MailFails(w)
  BY <1>16, MailFailsDoes DEF SameStripe
<1>17. CASE Record(w)
  BY <1>17, RecordDoes DEF SameStripe
<1>18. CASE Status(w)
  BY <1>18, StatusDoes DEF Still, SameStripe
<1>19. CASE Account(w)
  BY <1>19, AccountDoes DEF Still, SameStripe
<1>20. CASE Promote(w)
  BY <1>20, PromoteDoes DEF SameStripe
<1>21. CASE ClaimNow(w)
  BY <1>21, ClaimNowDoes DEF SameStripe
<1>22. CASE Claim(w)
  BY <1>22, ClaimDoes DEF SameStripe
<1>23. CASE Fence(w)
  BY <1>23, FenceDoes DEF Still, SameStripe
<1>24. CASE Index(w)
  BY <1>24, IndexDoes DEF SameStripe
<1>25. CASE Quiesce(w)
  BY <1>25, QuiesceDoes DEF Still, SameStripe
<1>26. CASE Look(w)
  BY <1>26, LookDoes DEF Still, SameStripe
<1>27. CASE Note(w)
  BY <1>27
<1>28. CASE Hold(w)
  BY <1>28
<1>29. CASE StripeFails(w)
  BY <1>29, StripeFailsDoes DEF SameStripe
<1>30. CASE Void(w)
  BY <1>30
<1>31. CASE Restore(w)
  BY <1>31
<1>32. CASE Forget(w)
  BY <1>32
<1>33. CASE Recover(w)
  BY <1>33, RecoverDoes
<1>34. CASE Cancel(w)
  BY <1>34, CancelDoes DEF SameStripe
<1>35. CASE RemoveControl(w)
  BY <1>35
<1>36. CASE Remove(w)
  BY <1>36, RemoveDoes DEF SameStripe
<1>37. CASE Mark(w)
  BY <1>37, MarkDoes DEF KnownInv, SameStripe
<1>38. CASE Finish(w)
  BY <1>38, FinishDoes DEF SameStripe
<1>39. CASE Crash(w)
  BY <1>39, CrashDoes DEF SameStripe
<1>40. CASE Stall(w)
  BY <1>40, StallDoes DEF SameStripe
<1> QED BY <1>1, <1>2, <1>3, <1>4, <1>5, <1>6, <1>7, <1>8, <1>9, <1>10, <1>11, <1>12,
       <1>13, <1>14, <1>15, <1>16, <1>17, <1>18, <1>19, <1>20, <1>21, <1>22, <1>23,
       <1>24, <1>25, <1>26, <1>27, <1>28, <1>29, <1>30, <1>31, <1>32, <1>33, <1>34,
       <1>35, <1>36, <1>37, <1>38, <1>39, <1>40, ActIs

\* While no lease was outlived, two workers are never both in it.
LEMMA OneGuarded ==
    ASSUME LeaseInv, stalls = 0, Team, NEW u \in Workers, NEW v \in Workers,
           me[u].pc \in Guarded, me[v].pc \in Guarded
    PROVE  u = v
BY DEF LeaseInv, Stale

LEMMA HoldsStep ==
    ASSUME TypeOK, KnownInv, LeaseInv, HoldsInv, NEW w \in Workers, Acts(w)
    PROVE  HoldsInv'
<1>1. SUFFICES ASSUME stalls' = 0, Team' PROVE HoldsInv'
  BY DEF HoldsInv
<1>2. Framed(w) /\ KnownOK(w)
  BY ActFrames DEF KnownInv
<1>3. stalls = 0 /\ Team /\ (\A v \in Workers \ {w} : me'[v] = me[v])
  BY <1>1, <1>2 DEF Framed, Turn, Team, TypeOK
<1>4. ~Stall(w)
  BY <1>1, <1>3, StallDoes
<1>5. /\ held \subseteq noted
      /\ \A v \in Workers : /\ me[v].pc = "hold" => me[v].obj \in noted
                            /\ me[v].pc = "forget" => me[v].obj \notin held
  BY <1>3 DEF HoldsInv
<1>6. {"hold", "forget", "note", "void", "restore"} \subseteq Guarded
  BY DEF Guarded
<1>7. SUFFICES
        /\ held' \subseteq noted'
        /\ \A v \in Workers \ {w} : /\ me[v].pc = "hold" => me[v].obj \in noted'
                                    /\ me[v].pc = "forget" => me[v].obj \notin held'
        /\ me'[w].pc = "hold" => me'[w].obj \in noted'
        /\ me'[w].pc = "forget" => me'[w].obj \notin held'
  BY <1>3 DEF HoldsInv
<1>8. CASE held' = held /\ noted' = noted /\ ~Note(w) /\ ~Restore(w)
  BY <1>4, <1>5, <1>8, EntersFrom
<1>9. CASE Note(w)
  <2>1. held' = held /\ noted' = noted \cup {me[w].obj}
    BY <1>3, <1>9, NoteDoes
  <2>2. (me'[w].pc = "hold" => me'[w].obj = me[w].obj) /\ me'[w].pc # "forget"
    BY <1>9, NoteDoes, IdleIs DEF Ends, Goes, Like
  <2> QED BY <1>5, <2>1, <2>2
<1>10. CASE Hold(w)
  <2>1. me[w].pc = "hold" /\ (held' = held \/ held' = held \cup {me[w].obj}) /\ noted' = noted
    BY <1>10, HoldDoes
  <2>2. me'[w].pc \notin {"hold", "forget"}
    BY <1>10, HoldDoes, IdleIs DEF Ends, Goes, Like, Restores
  <2>3. \A v \in Workers \ {w} : me[v].pc # "forget"
    BY <1>3, <1>6, <2>1, OneGuarded
  <2> QED BY <1>5, <2>1, <2>2, <2>3
<1>11. CASE Void(w)
  <2>1. (held' = held \/ held' = held \ {"invoice"}) /\ noted' = noted
    BY <1>11, VoidDoes
  <2>2. me'[w].pc \notin {"hold", "forget"}
    BY <1>11, VoidDoes, IdleIs DEF Ends, Goes, Like, Restores
  <2> QED BY <1>5, <2>1, <2>2
<1>12. CASE Restore(w)
  <2>1. noted' = noted /\ held' \subseteq held
    BY <1>2, <1>12, RestoreDoes
  <2>2. me'[w].pc # "hold" /\ (me'[w].pc = "forget" => me'[w].obj \notin held')
    BY <1>2, <1>12, RestoreDoes, IdleIs DEF Ends, Goes, Like, LikeObj
  <2> QED BY <1>5, <2>1, <2>2
<1>13. CASE Forget(w)
  <2>1. me[w].pc = "forget" /\ held' = held /\ noted' = noted \ {me[w].obj}
        /\ me'[w].pc = "restore"
    BY <1>13, ForgetDoes DEF Goes, Like
  <2>2. \A v \in Workers \ {w} : me[v].pc # "hold"
    BY <1>3, <1>6, <2>1, OneGuarded
  <2> QED BY <1>5, <2>1, <2>2
<1>14. CASE RemoveControl(w)
  BY <1>1, <1>14, RemoveControlDoes DEF Team
<1> QED BY <1>8, <1>9, <1>10, <1>11, <1>12, <1>13, <1>14, HeldFrom

LEMMA HoldsEnv == ASSUME HoldsInv, Env PROVE HoldsInv'
BY DEF HoldsInv, Env, Team

LEMMA ClockFrom ==
    ASSUME TypeOK, TeamInv, KnownInv, NEW w \in Workers, Acts(w), clock' # clock
    PROVE  \/ Team /\ me[w].pc = "apply"
           \/ Team /\ lock["transition"] = None
           \/ RemoveControl(w)
<1>w. KnownOK(w)
  BY DEF KnownInv
<1>t. me[w].due /\ Mine(w) => Team
  <2>1. me[w].due => me[w].start # 0
    BY <1>w DEF KnownOK
  <2> QED BY <2>1, StoppedIs DEF Mine, TeamInv
<1>1. CASE Signal(w)
  BY <1>1, SignalDoes, <1>w, <1>t DEF Still, SameAccount
<1>2. CASE Apply(w)
  BY <1>2, ApplyDoes, <1>w, <1>t
<1>3. CASE CancelMail(w)
  BY <1>3, CancelMailDoes, <1>w, <1>t DEF SameAccount
<1>4. CASE CloseGap(w)
  BY <1>4, CloseGapDoes, <1>w, <1>t DEF Still, SameAccount
<1>5. CASE Hook(w)
  BY <1>5, HookDoes, <1>w, <1>t DEF Still, SameAccount
<1>6. CASE ReadProvider(w)
  BY <1>6, ReadProviderDoes, <1>w, <1>t DEF Still, SameAccount
<1>7. CASE Save(w)
  BY <1>7, SaveDoes, <1>w, <1>t DEF SameAccount
<1>8. CASE Resume(w)
  BY <1>8, ResumeDoes, <1>w, <1>t DEF Still, SameAccount
<1>9. CASE Advance(w)
  BY <1>9, AdvanceDoes, <1>w, <1>t DEF Still, SameAccount
<1>10. CASE DeleteNow(w)
  BY <1>10, DeleteNowDoes, <1>w, <1>t DEF Still, SameAccount
<1>11. CASE OpenGap(w)
  BY <1>11, OpenGapDoes, <1>w, <1>t DEF Still, SameAccount
<1>12. CASE Reload(w)
  BY <1>12, ReloadDoes, <1>w, <1>t DEF Still, SameAccount
<1>13. CASE ClaimMail(w)
  BY <1>13, ClaimMailDoes, <1>w, <1>t DEF SameAccount
<1>14. CASE Confirm(w)
  BY <1>14, ConfirmDoes, <1>w, <1>t DEF SameAccount
<1>15. CASE Mail(w)
  BY <1>15, MailDoes, <1>w, <1>t DEF SameAccount
<1>16. CASE MailFails(w)
  BY <1>16, MailFailsDoes, <1>w, <1>t DEF SameAccount
<1>17. CASE Record(w)
  BY <1>17, RecordDoes, <1>w, <1>t
<1>18. CASE Status(w)
  BY <1>18, StatusDoes, <1>w, <1>t DEF Still, SameAccount
<1>19. CASE Account(w)
  BY <1>19, AccountDoes, <1>w, <1>t DEF Still, SameAccount
<1>20. CASE Promote(w)
  BY <1>20, PromoteDoes, <1>w, <1>t
<1>21. CASE ClaimNow(w)
  BY <1>21, ClaimNowDoes, <1>w, <1>t
<1>22. CASE Claim(w)
  BY <1>22, ClaimDoes, <1>w, <1>t
<1>23. CASE Fence(w)
  BY <1>23, FenceDoes, <1>w, <1>t DEF Still, SameAccount
<1>24. CASE Index(w)
  BY <1>24, IndexDoes, <1>w, <1>t
<1>25. CASE Quiesce(w)
  BY <1>25, QuiesceDoes, <1>w, <1>t DEF Still, SameAccount
<1>26. CASE Look(w)
  BY <1>26, LookDoes, <1>w, <1>t DEF Still, SameAccount
<1>27. CASE Note(w)
  BY <1>27, NoteDoes, <1>w, <1>t DEF SameAccount
<1>28. CASE Hold(w)
  BY <1>28, HoldDoes, <1>w, <1>t DEF SameAccount
<1>29. CASE StripeFails(w)
  BY <1>29, StripeFailsDoes, <1>w, <1>t DEF SameAccount
<1>30. CASE Void(w)
  BY <1>30, VoidDoes, <1>w, <1>t
<1>31. CASE Restore(w)
  BY <1>31, RestoreDoes, <1>w, <1>t DEF SameAccount
<1>32. CASE Forget(w)
  BY <1>32, ForgetDoes, <1>w, <1>t DEF SameAccount
<1>33. CASE Recover(w)
  BY <1>33, RecoverDoes, <1>w, <1>t DEF SameAccount
<1>34. CASE Cancel(w)
  BY <1>34, CancelDoes, <1>w, <1>t
<1>35. CASE RemoveControl(w)
  BY <1>35
<1>36. CASE Remove(w)
  BY <1>36, RemoveDoes, <1>w, <1>t
<1>37. CASE Mark(w)
  BY <1>37, MarkDoes, <1>w, <1>t
<1>38. CASE Finish(w)
  BY <1>38, FinishDoes, <1>w, <1>t
<1>39. CASE Crash(w)
  BY <1>39, CrashDoes, <1>w, <1>t DEF SameAccount
<1>40. CASE Stall(w)
  BY <1>40, StallDoes, <1>w, <1>t DEF SameAccount
<1> QED BY <1>1, <1>2, <1>3, <1>4, <1>5, <1>6, <1>7, <1>8, <1>9, <1>10, <1>11, <1>12,
       <1>13, <1>14, <1>15, <1>16, <1>17, <1>18, <1>19, <1>20, <1>21, <1>22, <1>23,
       <1>24, <1>25, <1>26, <1>27, <1>28, <1>29, <1>30, <1>31, <1>32, <1>33, <1>34,
       <1>35, <1>36, <1>37, <1>38, <1>39, <1>40, ActIs

LEMMA ClockStep ==
    ASSUME TypeOK, TeamInv, KnownInv, OneWinner, DestroyInv, ClockInv,
           NEW w \in Workers, Acts(w)
    PROVE  ClockInv'
<1> USE LocksAre, NoWorker
<1>1. SUFFICES ASSUME stalls' = 0, NEW v \in Workers
           PROVE  /\ me'[v].pc \in {"apply", "cancelMail"} /\ Team'
                                => Holds(v, "transition")'
                  /\ Warns(v)' => Team' /\ Mine(v)' /\ Holds(v, "transition")'
  BY DEF ClockInv
<1>2. Framed(w) /\ KnownOK(w)
  BY ActFrames DEF KnownInv
<1>3. stalls = 0 /\ (\A u \in Workers \ {w} : me'[u] = me[u]) /\ (Team' => Team)
  BY <1>1, <1>2 DEF Framed, Turn, Team, TypeOK
<1>4. ~Stall(w)
  BY <1>1, <1>3, StallDoes
<1>5. \A u \in Workers :
        /\ me[u].pc \in {"apply", "cancelMail"} /\ Team => Holds(u, "transition")
        /\ Warns(u) => Team /\ Mine(u) /\ Holds(u, "transition")
  BY <1>3 DEF ClockInv
<1>6. CASE v = w
  <2>1. CASE me'[w].pc = "apply"
    <3>1. Signal(w)
      BY <1>4, <2>1, EntersFrom
    <3>2. lock'["transition"] = w \/ ~Team'
      BY <1>3, <2>1, <3>1, SignalDoes, IdleIs DEF Ends, LeaseTo
    <3> QED BY <1>6, <2>1, <3>2 DEF Holds, Warns
  <2>2. CASE me'[w].pc = "cancelMail"
    <3>1. Apply(w)
      BY <1>4, <2>2, EntersFrom
    <3>2. me[w].pc = "apply" /\ lock' = lock
      BY <2>2, <3>1, ApplyDoes, IdleIs DEF Ends, Goes
    <3> QED BY <1>3, <1>5, <1>6, <2>2, <3>2 DEF Holds, Warns
  <2>3. CASE me'[w].pc = "claimMail"
    <3>1. Reload(w)
      BY <1>4, <2>3, EntersFrom
    <3>2. Team /\ Mine(w) /\ lock'["transition"] = w /\ Still /\ me'[w].start = me[w].start
      BY <2>3, <3>1, ReloadDoes, IdleIs DEF Stops, Like, Keeps, LeaseTo
    <3> QED BY <1>6, <2>3, <3>2 DEF Still, SameAccount, Team, Mine, Holds
  <2>4. CASE me'[w].pc = "mail"
    <3>1. CASE ClaimMail(w)
      <4>1. me[w].pc = "claimMail" /\ SameAccount /\ lock' = lock /\ me'[w].start = me[w].start
        BY <2>4, <3>1, ClaimMailDoes, IdleIs DEF Stops, Goes, Like, Keeps
      <4> QED BY <1>5, <1>6, <2>4, <4>1 DEF SameAccount, Team, Mine, Holds, Warns
    <3>2. CASE Confirm(w)
      <4>1. me'[w].start = 0
        BY <3>2, ConfirmDoes, IdleIs DEF Goes, Like, Keeps
      <4> QED BY <1>6, <2>4, <4>1 DEF Warns
    <3> QED BY <1>4, <2>4, <3>1, <3>2, EntersFrom
  <2>5. CASE me'[w].pc \notin {"apply", "cancelMail", "claimMail", "mail"}
    BY <1>6, <2>5 DEF Warns
  <2> QED BY <2>1, <2>2, <2>3, <2>4, <2>5
<1>7. CASE v # w
  <2>1. me'[v] = me[v] /\ (Warns(v)' <=> Warns(v))
    BY <1>3, <1>7 DEF Warns
  <2>2. Team' => (Holds(v, "transition")' <=> Holds(v, "transition"))
    BY <1>2, <1>7 DEF Framed, Locking, Holds
  <2>3. ASSUME Warns(v) PROVE Team' /\ clock' = clock
    <3>1. Team /\ Mine(v) /\ Holds(v, "transition") /\ ~clock.deleted
      BY <1>5, <2>3 DEF Mine
    <3>2. ~RemoveControl(w)
      <4>1. SUFFICES ASSUME RemoveControl(w) PROVE FALSE
        OBVIOUS
      <4>2. Destroying(w)
        BY <4>1, RemoveControlDoes DEF Destroying
      <4>3. Pending
        BY <1>3, <3>1, <4>2 DEF DestroyInv, DestroyOK
      <4> QED BY <3>1, <4>3 DEF OneWinner
    <3>3. Team'
      BY <3>1, <3>2, TeamFrom
    <3>4. me[w].pc = "apply" => Holds(w, "transition")
      BY <1>5, <3>1
    <3>5. clock' = clock
      BY <1>7, <3>1, <3>2, <3>4, ClockFrom DEF Holds
    <3> QED BY <3>3, <3>5
  <2>4. Warns(v)' => Team' /\ Mine(v)' /\ Holds(v, "transition")'
    BY <1>5, <2>1, <2>2, <2>3 DEF Mine
  <2>5. me'[v].pc \in {"apply", "cancelMail"} /\ Team' => Holds(v, "transition")'
    BY <1>3, <1>5, <2>1, <2>2
  <2> QED BY <2>4, <2>5
<1> QED BY <1>6, <1>7

LEMMA ClockEnv == ASSUME ClockInv, Env PROVE ClockInv'
BY DEF ClockInv, Env, Team, Warns, Mine, Holds

-----------------------------------------------------------------------------
(* How often a message was sent. *)

LEMMA Fewer ==
    ASSUME NEW B \in SUBSET Workers, NEW A \in SUBSET B
    PROVE  Cardinality(A) \in Nat /\ Cardinality(B) \in Nat /\ Cardinality(A) <= Cardinality(B)
<1>1. IsFiniteSet(B)
  BY DeletionAssumption, FS_Subset
<1>2. IsFiniteSet(A) /\ Cardinality(A) <= Cardinality(B)
  BY <1>1, FS_Subset
<1> QED BY <1>1, <1>2, FS_CardinalityType

LEMMA OneMore ==
    ASSUME NEW B \in SUBSET Workers, NEW x \in Workers, NEW A \in SUBSET (B \cup {x})
    PROVE  /\ Cardinality(A) \in Nat /\ Cardinality(B) \in Nat
           /\ Cardinality(A) <= Cardinality(B) + 1
<1>1. IsFiniteSet(B) /\ Cardinality(B) \in Nat
  BY DeletionAssumption, FS_Subset, FS_CardinalityType
<1>2. Cardinality(B \cup {x}) <= Cardinality(B) + 1
  <2>1. Cardinality(B \cup {x}) = IF x \in B THEN Cardinality(B) ELSE Cardinality(B) + 1
    BY <1>1, FS_AddElement
  <2> QED BY <1>1, <2>1
<1>3. B \cup {x} \in SUBSET Workers
  OBVIOUS
<1> QED BY <1>1, <1>2, <1>3, Fewer

LEMMA OneLess ==
    ASSUME NEW B \in SUBSET Workers, NEW x \in B, NEW A \in SUBSET (B \ {x})
    PROVE  /\ Cardinality(A) \in Nat /\ Cardinality(B) \in Nat
           /\ Cardinality(A) + 1 <= Cardinality(B)
<1>1. IsFiniteSet(B) /\ Cardinality(B) \in Nat
  BY DeletionAssumption, FS_Subset, FS_CardinalityType
<1>2. Cardinality(B \ {x}) = Cardinality(B) - 1
  BY <1>1, FS_RemoveElement
<1>3. B \ {x} \in SUBSET Workers
  OBVIOUS
<1> QED BY <1>1, <1>2, <1>3, Fewer

LEMMA MailFrom ==
    ASSUME TypeOK, KnownInv, NEW w \in Workers, Acts(w)
    PROVE  \/ ClaimMail(w) \/ Mail(w) \/ MailFails(w) \/ Record(w) \/ CancelMail(w)
           \/ Cancel(w) \/ Crash(w) \/ Stall(w) \/ Finish(w)
           \/ /\ sent' = sent /\ me[w].pc \notin {"mail", "record"}
              /\ \A c \in Lapses : box'[c] = box[c]
<1>0. KnownOK(w) /\ (me[w] = Idle => me[w].pc = "idle")
  BY IdleIs DEF KnownInv
<1>1. CASE Signal(w)
  BY <1>1, SignalDoes, <1>0 DEF Still, SameMail
<1>2. CASE Apply(w)
  BY <1>2, ApplyDoes, <1>0 DEF SameMail
<1>3. CASE CancelMail(w)
  BY <1>3
<1>4. CASE CloseGap(w)
  BY <1>4, CloseGapDoes, <1>0 DEF Still, SameMail
<1>5. CASE Hook(w)
  BY <1>5, HookDoes, <1>0 DEF Still, SameMail
<1>6. CASE ReadProvider(w)
  BY <1>6, ReadProviderDoes, <1>0 DEF Still, SameMail
<1>7. CASE Save(w)
  BY <1>7, SaveDoes, <1>0 DEF SameMail
<1>8. CASE Resume(w)
  BY <1>8, ResumeDoes, <1>0 DEF Still, SameMail
<1>9. CASE Advance(w)
  BY <1>9, AdvanceDoes, <1>0 DEF Still, SameMail
<1>10. CASE DeleteNow(w)
  BY <1>10, DeleteNowDoes, <1>0 DEF Still, SameMail
<1>11. CASE OpenGap(w)
  BY <1>11, OpenGapDoes, <1>0 DEF Still, SameMail
<1>12. CASE Reload(w)
  BY <1>12, ReloadDoes, <1>0 DEF Still, SameMail
<1>13. CASE ClaimMail(w)
  BY <1>13
<1>14. CASE Confirm(w)
  <2>1. \A c \in Lapses : c \in Keys \ {0}
      BY NumbersAre DEF Lapses
    <2>2. me[w] = Idle /\ sent' = sent /\ box' = Lease(w, 0)
      BY <1>14, ConfirmDoes
    <2> QED BY <1>0, <2>1, <2>2, LeaseIs, NumbersAre
<1>15. CASE Mail(w)
  BY <1>15
<1>16. CASE MailFails(w)
  BY <1>16
<1>17. CASE Record(w)
  BY <1>17
<1>18. CASE Status(w)
  BY <1>18, StatusDoes, <1>0 DEF Still, SameMail
<1>19. CASE Account(w)
  BY <1>19, AccountDoes, <1>0 DEF Still, SameMail
<1>20. CASE Promote(w)
  BY <1>20, PromoteDoes, <1>0 DEF SameMail
<1>21. CASE ClaimNow(w)
  BY <1>21, ClaimNowDoes, <1>0 DEF SameMail
<1>22. CASE Claim(w)
  BY <1>22, ClaimDoes, <1>0 DEF SameMail
<1>23. CASE Fence(w)
  BY <1>23, FenceDoes, <1>0 DEF Still, SameMail
<1>24. CASE Index(w)
  BY <1>24, IndexDoes, <1>0 DEF SameMail
<1>25. CASE Quiesce(w)
  BY <1>25, QuiesceDoes, <1>0 DEF Still, SameMail
<1>26. CASE Look(w)
  BY <1>26, LookDoes, <1>0 DEF Still, SameMail
<1>27. CASE Note(w)
  BY <1>27, NoteDoes, <1>0 DEF SameMail
<1>28. CASE Hold(w)
  BY <1>28, HoldDoes, <1>0 DEF SameMail
<1>29. CASE StripeFails(w)
  BY <1>29, StripeFailsDoes, <1>0 DEF SameMail
<1>30. CASE Void(w)
  BY <1>30, VoidDoes, <1>0 DEF SameMail
<1>31. CASE Restore(w)
  BY <1>31, RestoreDoes, <1>0 DEF SameMail
<1>32. CASE Forget(w)
  BY <1>32, ForgetDoes, <1>0 DEF SameMail
<1>33. CASE Recover(w)
  BY <1>33, RecoverDoes, <1>0 DEF SameMail
<1>34. CASE Cancel(w)
  BY <1>34
<1>35. CASE RemoveControl(w)
  BY <1>35, RemoveControlDoes, <1>0 DEF SameMail
<1>36. CASE Remove(w)
  BY <1>36, RemoveDoes, <1>0 DEF SameMail
<1>37. CASE Mark(w)
  BY <1>37, MarkDoes, <1>0 DEF SameMail
<1>38. CASE Finish(w)
  BY <1>38
<1>39. CASE Crash(w)
  BY <1>39
<1>40. CASE Stall(w)
  BY <1>40
<1> QED BY <1>1, <1>2, <1>3, <1>4, <1>5, <1>6, <1>7, <1>8, <1>9, <1>10, <1>11, <1>12,
       <1>13, <1>14, <1>15, <1>16, <1>17, <1>18, <1>19, <1>20, <1>21, <1>22, <1>23,
       <1>24, <1>25, <1>26, <1>27, <1>28, <1>29, <1>30, <1>31, <1>32, <1>33, <1>34,
       <1>35, <1>36, <1>37, <1>38, <1>39, <1>40, ActIs

LEMMA SentFrom ==
    ASSUME TypeOK, KnownInv, NEW w \in Workers, Acts(w), ~Mail(w)
    PROVE  sent' = sent
BY MailFrom, ClaimMailDoes, MailFailsDoes, RecordDoes, CancelMailDoes, CancelDoes, CrashDoes,
   StallDoes, FinishDoes

\* A row comes to be held by whoever takes the step; and the row of the first lapse on
\* is left only by these steps.
LEMMA RowFrom ==
    ASSUME TypeOK, KnownInv, NEW w \in Workers, Acts(w), NEW c \in Lapses, Team'
    PROVE  /\ box'[c].live => box'[c] = box[c] \/ box'[c].by = w
           /\ box[c].state = "done" => box'[c].state = "done"
           /\ box[c].live /\ box[c].by # w =>
                 box'[c] = box[c] \/ CancelMail(w) \/ (Cancel(w) /\ lock["transition"] = None)
           /\ box[c].live /\ box[c].by = w /\ me[w].pc \in {"mail", "record"} =>
                 \/ Mail(w) /\ box' = box
                 \/ Record(w) /\ (me[w].start = c => box'[c].state = "done")
                 \/ MailFails(w) \/ Crash(w) \/ Stall(w)
<1>0. /\ c \in Keys /\ box[c] \in OutboxRow /\ me[w].start \in Keys /\ KnownOK(w)
      /\ me[w] # Idle \/ me[w].pc = "idle"
  BY NumbersAre, IdleIs, IsWorker DEF TypeOK, Worker, KnownInv
<1>1. CASE ClaimMail(w)
  <2>1. me[w].pc = "claimMail"
        /\ box' = IF Claimable(me[w].start) THEN Lease(w, me[w].start) ELSE box
    BY <1>1, ClaimMailDoes
  <2>2. CASE Claimable(me[w].start)
    BY <1>0, <2>1, <2>2, LeaseIs DEF Claimable
  <2> QED BY <2>1, <2>2
<1>2. CASE Mail(w)
  BY <1>2, MailDoes
<1>3. CASE MailFails(w)
  <2>1. CASE box[me[w].start].by = w
    <3>1. box' = [box EXCEPT ![me[w].start].by = None, ![me[w].start].live = FALSE]
      BY <1>3, <2>1, MailFailsDoes
    <3>2. /\ box'[me[w].start].state = box[me[w].start].state /\ ~box'[me[w].start].live
          /\ \A d \in Keys \ {me[w].start} : box'[d] = box[d]
      BY <1>0, <3>1, GiveBackIs
    <3> QED BY <1>0, <1>3, <2>1, <3>2
  <2>2. CASE box[me[w].start].by # w
    BY <1>3, <2>2, MailFailsDoes
  <2> QED BY <2>1, <2>2
<1>4. CASE Record(w)
  <2>1. me[w].pc = "record" /\ box' = IF box[me[w].start].by = w
                     THEN [box EXCEPT ![me[w].start] = Completed] ELSE box
    BY <1>4, RecordDoes
  <2>2. box'[c] = IF me[w].start = c /\ box[c].by = w THEN Completed ELSE box[c]
    BY <1>0, <2>1 DEF TypeOK
  <2>3. me[w].start = c /\ box[c].by = w => box'[c].state = "done" /\ ~box'[c].live
    BY <2>2, RowsAre
  <2> QED BY <1>4, <2>1, <2>2, <2>3
<1>5. CASE CancelMail(w)
  <2>1. me[w].pc = "cancelMail" /\ box'[c] = IF box[c].state = "open" THEN NoRow ELSE box[c]
    BY <1>0, <1>5, CancelMailDoes, CancelledIs
  <2> QED BY <1>5, <2>1, RowsAre
<1>6. CASE Cancel(w)
  <2>1. me[w].pc = "cancel" /\ (box' = box \/ (lock["transition"] = None /\ box' =
     Cancelled(box)))
    BY <1>6, CancelDoes
  <2>2. \/ box'[c] = box[c]
        \/ lock["transition"] = None /\ box'[c] = IF box[c].state = "open" THEN NoRow ELSE
           box[c]
    BY <1>0, <2>1, CancelledIs
  <2> QED BY <1>6, <2>1, <2>2, RowsAre
<1>7. CASE Crash(w) \/ Stall(w)
  <2>1. box' = Lost(w)
    BY <1>7, CrashDoes, StallDoes
  <2> QED BY <1>0, <1>7, <2>1, LostIs
<1>8. CASE Finish(w)
  <2>1. ~Team'
    BY <1>0, <1>8, FinishDoes DEF KnownOK, After, Team
  <2> QED BY <2>1
<1>9. CASE box'[c] = box[c] /\ me[w].pc \notin {"mail", "record"}
  BY <1>9
<1> QED BY <1>1, <1>2, <1>3, <1>4, <1>5, <1>6, <1>7, <1>8, <1>9, MailFrom

LEMMA MailersFrom ==
    ASSUME TypeOK, KnownInv, TeamInv, NEW w \in Workers, Acts(w), NEW c \in Lapses,
           ~(ClaimMail(w) /\ Team')
    PROVE  Mailers(c)' \subseteq Mailers(c)
<1>1. Framed(w) /\ KnownOK(w) /\ c # 0
  BY ActFrames, NumbersAre DEF KnownInv, Lapses
<1>2. SUFFICES ASSUME me'[w].pc = "mail", me'[w].start = c
               PROVE  me[w].pc = "mail" /\ me[w].start = c
  BY <1>1 DEF Mailers, Framed, Turn
<1>3. CASE Stall(w)
  BY <1>2, <1>3, StallDoes
<1>4. CASE ClaimMail(w)
  <2>1. Holds(w, "transition") /\ rest' = rest
    BY <1>2, <1>4, ClaimMailDoes, IdleIs DEF Stops, Like, SameAccount
  <2>2. Team
    BY <2>1, NoWorker DEF TeamInv, Holds
  <2> QED BY <1>4, <2>1, <2>2 DEF Team
<1>5. CASE Confirm(w)
  BY <1>1, <1>2, <1>5, ConfirmDoes, IdleIs DEF Goes, Like, Keeps
<1> QED BY <1>2, <1>3, <1>4, <1>5, EntersFrom

LEMMA SentOwn ==
    ASSUME TypeOK, KnownInv, NEW w \in Workers, Acts(w), NEW c \in Lapses
    PROVE  \/ sent'[c] = sent[c]
           \/ /\ Mail(w) /\ sent'[c] = sent[c] + 1 /\ me[w].pc = "mail" /\ me[w].start = c
              /\ me'[w].pc = "record" /\ box' = box /\ lock' = lock
<1>1. CASE Mail(w)
  <2>1. /\ me[w].pc = "mail" /\ sent' = [sent EXCEPT ![me[w].start] = @ + 1]
        /\ me'[w].pc = "record" /\ box' = box /\ lock' = lock
    BY <1>1, MailDoes DEF Goes, Like
  <2>2. c \in Keys /\ sent \in [Keys -> Nat]
    BY NumbersAre DEF TypeOK
  <2> QED BY <1>1, <2>1, <2>2
<1>2. CASE ~Mail(w)
  BY <1>2, SentFrom
<1> QED BY <1>1, <1>2

\* Who owes a message or may take one back, while the team is there.
Owed(c) == Mailers(c) \cup Cancellers

LEMMA OwedFrom ==
    ASSUME TypeOK, KnownInv, TeamInv, NEW w \in Workers, Acts(w), NEW c \in Lapses, Team'
    PROVE  /\ Owed(c)' \subseteq Owed(c) \cup {w}
           /\ ~Stall(w) /\ ~ClaimMail(w) => Owed(c)' \subseteq Owed(c)
           /\ Stall(w) /\ me[w].pc \in {"mail", "record"} => Owed(c)' \subseteq Owed(c)
           /\ Crash(w) => Owed(c)' \subseteq Owed(c)
           /\ me'[w].pc \in {"record", "closeGap"} => w \notin Owed(c)'
           /\ ClaimMail(w) /\ ~(me'[w].pc = "mail" /\ me'[w].start = c)
                => Owed(c)' \subseteq Owed(c)
<1> USE DEF Owed, Mailers, Cancellers
<1>1. Framed(w) /\ KnownOK(w) /\ c # 0
  BY ActFrames, NumbersAre DEF KnownInv, Lapses
<1>2. \A v \in Workers \ {w} : me'[v] = me[v] /\ (Holds(v, "transition")' <=> Holds(v,
   "transition"))
  BY <1>1, LocksAre, NoWorker DEF Framed, Turn, Locking, Holds
<1>3. Owed(c)' \subseteq Owed(c) \cup {w}
  BY <1>2
<1>4. ASSUME ~Stall(w), w \in Owed(c)'
      PROVE  w \in Owed(c) \/ (ClaimMail(w) /\ me'[w].pc = "mail" /\ me'[w].start = c)
  <2>1. CASE me'[w].pc = "mail" /\ me'[w].start = c
    <3>1. CASE Confirm(w)
      BY <1>1, <2>1, <3>1, ConfirmDoes, IdleIs DEF Goes, Like, Keeps
    <3> QED BY <1>4, <2>1, <3>1, EntersFrom
  <2>2. CASE me'[w].pc = "apply" /\ lock'["transition"] # w
    <3>1. Signal(w)
      BY <1>4, <2>2, EntersFrom
    <3> QED BY <2>2, <3>1, SignalDoes, IdleIs DEF Ends, LeaseTo
  <2>3. CASE me'[w].pc = "cancelMail" /\ lock'["transition"] # w
    <3>1. Apply(w)
      BY <1>4, <2>3, EntersFrom
    <3>2. me[w].pc = "apply" /\ lock' = lock
      BY <2>3, <3>1, ApplyDoes, IdleIs DEF Ends, Goes
    <3> QED BY <2>3, <3>2 DEF Holds
  <2> QED BY <1>4, <2>1, <2>2, <2>3 DEF Holds
<1>5. ASSUME Stall(w), me[w].pc \in {"mail", "record"}, w \in Owed(c)' PROVE w \in Owed(c)
  BY <1>5, StallDoes
<1>6. ASSUME me'[w].pc \in {"record", "closeGap", "idle"} PROVE w \notin Owed(c)'
  BY <1>6
<1>7. Crash(w) => me'[w].pc = "idle"
  BY CrashDoes, IdleIs DEF Ends
<1> HIDE DEF Owed, Mailers, Cancellers
<1>8. ~Stall(w) /\ ~ClaimMail(w) => Owed(c)' \subseteq Owed(c)
  BY <1>3, <1>4
<1>9. Crash(w) => Owed(c)' \subseteq Owed(c)
  BY <1>3, <1>6, <1>7
<1>10. Stall(w) /\ me[w].pc \in {"mail", "record"} => Owed(c)' \subseteq Owed(c)
  BY <1>3, <1>5
<1>11. ClaimMail(w) /\ ~(me'[w].pc = "mail" /\ me'[w].start = c)
         => Owed(c)' \subseteq Owed(c)
  <2>1. ClaimMail(w) => ~Stall(w)
    BY ClaimMailDoes, StallDoes, IdleIs DEF Stops, Goes, Like
  <2> QED BY <1>3, <1>4, <2>1
<1> QED BY <1>3, <1>6, <1>8, <1>9, <1>10, <1>11

LEMMA HandFrom ==
    ASSUME TypeOK, KnownInv, TeamInv, NEW w \in Workers, Acts(w), NEW c \in Lapses, Team',
           InHand(c), ~InHand(c)', \A u \in Workers : Mailing(u, c) => Holds(u, "transition")
    PROVE  \/ MailFails(w) \/ Crash(w)
           \/ Stall(w) /\ me[w].pc \in {"mail", "record"}
           \/ CancelMail(w) /\ w \in Owed(c)
<1>1. Framed(w)
  BY ActFrames
<1>2. box[c].state # "done"
  BY RowFrom DEF InHand
<1>3. PICK u \in Workers : Mailing(u, c)
  BY <1>2 DEF InHand
<1>4. CASE u = w
  <2>1. CASE Mail(w) /\ box' = box
    <3>1. me'[w].pc = "record" /\ me'[w].start = me[w].start
      BY <2>1, MailDoes DEF Goes, Like, Keeps
    <3>2. Mailing(w, c)'
      BY <1>3, <1>4, <2>1, <3>1 DEF Mailing
    <3> QED BY <3>2 DEF InHand
  <2>2. CASE Record(w) /\ box'[c].state = "done"
    BY <2>2 DEF InHand
  <2> QED BY <1>3, <1>4, <2>1, <2>2, RowFrom DEF Mailing
<1>5. CASE u # w
  <2>1. me'[u] = me[u] /\ box[c].live /\ box[c].by # w
    BY <1>1, <1>3, <1>5 DEF Framed, Turn, Mailing
  <2>2. box'[c] # box[c]
    <3>1. SUFFICES ASSUME box'[c] = box[c] PROVE FALSE
      OBVIOUS
    <3>2. Mailing(u, c)'
      BY <1>3, <2>1, <3>1 DEF Mailing
    <3> QED BY <3>2 DEF InHand
  <2>3. lock["transition"] = u
    BY <1>3 DEF Holds
  <2>4. CancelMail(w)
    BY <2>1, <2>2, <2>3, NoWorker, RowFrom
  <2>5. me[w].pc = "cancelMail" /\ ~Holds(w, "transition")
    BY <1>5, <2>3, <2>4, CancelMailDoes DEF Holds
  <2> QED BY <2>4, <2>5 DEF Owed, Cancellers
<1> QED BY <1>4, <1>5

LEMMA Sums ==
    ASSUME NEW a \in Nat, NEW b \in Nat, NEW x \in Nat, NEW y \in Nat, a <= x, b <= y
    PROVE  /\ a + b \in Nat /\ x + y \in Nat /\ a + b <= x + y
           /\ (x = a + 1 /\ y = b) => x + y = (a + b) + 1
           /\ (x = a /\ y = b + 1) => x + y = (a + b) + 1
           /\ 1 + a + b = 1 + (a + b) /\ 1 + x + y = 1 + (x + y)
OBVIOUS

LEMMA SentStep ==
    ASSUME TypeOK, KnownInv, TeamInv, SentInv, NEW w \in Workers, Acts(w)
    PROVE  SentInv'
<1> DEFINE f == upsets + stalls
<1> DEFINE g == upsets' + stalls'
<1>1. Framed(w) /\ KnownOK(w)
  BY ActFrames DEF KnownInv
<1>n. /\ upsets \in Nat /\ stalls \in Nat /\ upsets' \in Nat /\ stalls' \in Nat
      /\ upsets <= upsets' /\ stalls <= stalls'
  BY <1>1 DEF TypeOK, Framed
<1>2. f \in Nat /\ g \in Nat /\ f <= g
  BY <1>n, Sums
<1>s. /\ MailFails(w) => sent' = sent /\ upsets' = upsets + 1 /\ stalls' = stalls
      /\ Crash(w) => sent' = sent /\ upsets' = upsets + 1 /\ stalls' = stalls
      /\ Stall(w) => sent' = sent /\ upsets' = upsets /\ stalls' = stalls + 1
  BY MailFailsDoes, CrashDoes, StallDoes
<1>3. MailFails(w) \/ Crash(w) \/ Stall(w) => g = f + 1
  <2>1. (upsets' = upsets + 1 /\ stalls' = stalls) => g = f + 1
    BY <1>n, Sums
  <2>2. (upsets' = upsets /\ stalls' = stalls + 1) => g = f + 1
    BY <1>n, Sums
  <2> QED BY <1>s, <2>1, <2>2
<1>e. 1 + upsets + stalls = 1 + f /\ (1 + upsets + stalls)' = 1 + g
      /\ upsets + stalls = f /\ (upsets + stalls)' = g
  BY <1>n
<1> HIDE DEF f, g
<1>4. SUFFICES ASSUME NEW c \in Lapses
               PROVE  /\ sent'[c] + Cardinality(Mailers(c)') <= 1 + g
                      /\ Team' =>
                         /\ ~InHand(c)' => sent'[c] + Cardinality(Owed(c)') <= g
                         /\ sent'[c] + Cardinality(Owed(c)') <= 1 + g
                         /\ \A v \in Workers : Mailing(v, c)' => Holds(v, "transition")'
  BY <1>e DEF SentInv, Owed
<1>5. /\ sent[c] \in Nat /\ sent'[c] \in Nat
      /\ Mailers(c) \in SUBSET Workers /\ Mailers(c)' \in SUBSET Workers
      /\ Owed(c) \in SUBSET Workers /\ Owed(c)' \in SUBSET Workers
      /\ Mailers(c) \subseteq Owed(c) /\ Mailers(c)' \subseteq Owed(c)'
  BY <1>1, NumbersAre DEF TypeOK, Framed, Mailers, Cancellers, Owed
<1>6. /\ sent[c] + Cardinality(Mailers(c)) <= 1 + f
      /\ Team =>
         /\ ~InHand(c) => sent[c] + Cardinality(Owed(c)) <= f
         /\ sent[c] + Cardinality(Owed(c)) <= 1 + f
         /\ \A v \in Workers : Mailing(v, c) => Holds(v, "transition")
  BY <1>e DEF SentInv, Owed
<1>m. /\ Cardinality(Mailers(c)) \in Nat /\ Cardinality(Mailers(c)') \in Nat
      /\ Cardinality(Owed(c)) \in Nat /\ Cardinality(Owed(c)') \in Nat
      /\ Cardinality(Mailers(c)') <= Cardinality(Owed(c)')
  BY <1>5, Fewer
<1>7. Mail(w) => ~Stall(w) /\ ~ClaimMail(w)
  BY MailDoes, StallDoes, ClaimMailDoes DEF Goes, Like
<1>8. CASE ~Team'
  <2>1. Mailers(c)' \subseteq Mailers(c)
    BY <1>8, MailersFrom
  <2>2. CASE sent'[c] = sent[c]
    BY <1>2, <1>5, <1>6, <1>8, <2>1, <2>2, Fewer
  <2>3. CASE /\ sent'[c] = sent[c] + 1 /\ me[w].pc = "mail" /\ me[w].start = c
             /\ me'[w].pc = "record"
    <3>1. w \in Mailers(c) /\ Mailers(c)' \subseteq Mailers(c) \ {w}
      BY <2>1, <2>3 DEF Mailers
    <3> QED BY <1>2, <1>5, <1>6, <1>8, <2>3, <3>1, OneLess
  <2> QED BY <2>2, <2>3, SentOwn
<1>9. CASE Team'
  <2>1. Team
    BY <1>1, <1>9 DEF Team, Framed
  <2>2. /\ sent'[c] + Cardinality(Owed(c)') <= 1 + g
        /\ ~InHand(c)' => sent'[c] + Cardinality(Owed(c)') <= g
    <3>1. CASE Mail(w) /\ sent'[c] = sent[c] + 1
      <4>1. /\ me[w].pc = "mail" /\ me[w].start = c /\ me'[w].pc = "record"
        BY <3>1, <1>5, SentOwn
      <4>2. w \in Owed(c) /\ Owed(c)' \subseteq Owed(c) \ {w}
        BY <1>7, <1>9, <3>1, <4>1, OwedFrom DEF Owed, Mailers
      <4>3. sent'[c] + Cardinality(Owed(c)') <= sent[c] + Cardinality(Owed(c))
        BY <1>5, <3>1, <4>2, OneLess
      <4>4. ~InHand(c)' => ~InHand(c)
        <5>1. ~MailFails(w) /\ ~Crash(w) /\ ~Stall(w) /\ ~CancelMail(w)
          <6>1. sent' # sent
            BY <1>5, <3>1
          <6> QED BY <6>1, <1>s, CancelMailDoes
        <5> QED BY <1>6, <1>9, <2>1, <5>1, HandFrom
      <4> QED BY <1>2, <1>5, <1>m, <1>6, <2>1, <4>3, <4>4
    <3>2. CASE sent'[c] = sent[c] /\ Owed(c)' \subseteq Owed(c)
      <4>c. Cardinality(Owed(c)') <= Cardinality(Owed(c))
        BY <1>5, <3>2, Fewer
      <4>1. sent'[c] + Cardinality(Owed(c)') <= 1 + f
        BY <1>2, <1>5, <1>m, <1>6, <2>1, <3>2, <4>c
      <4>2. CASE ~InHand(c)
        BY <1>2, <1>5, <1>m, <1>6, <2>1, <3>2, <4>c, <4>2
      <4>3. CASE InHand(c) /\ ~InHand(c)' /\ (MailFails(w) \/ Crash(w) \/ Stall(w))
        BY <1>2, <1>3, <1>5, <1>m, <4>1, <4>3
      <4>4. CASE InHand(c) /\ ~InHand(c)' /\ CancelMail(w) /\ w \in Owed(c)
        <5>1. me'[w].pc = "closeGap"
          BY <4>4, CancelMailDoes DEF Goes, Like
        <5>2. Owed(c)' \subseteq Owed(c) \ {w}
          BY <1>9, <3>2, <5>1, OwedFrom
        <5> QED BY <1>2, <1>5, <1>6, <2>1, <3>2, <4>4, <5>2, OneLess
      <4>5. CASE InHand(c)'
        BY <1>2, <1>5, <1>m, <4>1, <4>5
      <4> QED BY <1>6, <1>9, <2>1, <4>2, <4>3, <4>4, <4>5, HandFrom
    <3>3. CASE Stall(w) /\ me[w].pc \notin {"mail", "record"}
      <4>1. sent'[c] = sent[c] /\ Owed(c)' \subseteq Owed(c) \cup {w}
        BY <1>9, <3>3, StallDoes, OwedFrom
      <4>2. ~InHand(c)' => ~InHand(c)
        <5>1. ~MailFails(w) /\ ~Crash(w) /\ ~CancelMail(w)
          <6>1. ~MailFails(w)
            BY <3>3, MailFailsDoes
          <6>2. ~Crash(w)
            BY <1>n, <3>3, CrashDoes, StallDoes
          <6>3. ~CancelMail(w)
            BY <3>3, CancelMailDoes, StallDoes DEF Goes, Like
          <6> QED BY <6>1, <6>2, <6>3
        <5> QED BY <1>6, <1>9, <2>1, <3>3, <5>1, HandFrom
      <4>3. Cardinality(Owed(c)') <= Cardinality(Owed(c)) + 1
        BY <1>5, <4>1, OneMore
      <4> QED BY <1>2, <1>3, <1>5, <1>m, <1>6, <2>1, <3>3, <4>1, <4>2, <4>3
    <3>4. CASE ClaimMail(w) /\ me'[w].pc = "mail" /\ me'[w].start = c
      <4>1. /\ sent'[c] = sent[c] /\ me[w].start = c /\ Claimable(c)
            /\ box' = Lease(w, c)
        BY <3>4, ClaimMailDoes, IdleIs DEF Stops, Goes, Like, Keeps
      <4>2. ~InHand(c)
        BY <4>1 DEF InHand, Mailing, Claimable
      <4>3. InHand(c)'
        <5>1. box'[c].by = w /\ box'[c].live
          BY <4>1, LeaseIs, NumbersAre
        <5>2. Mailing(w, c)'
          BY <3>4, <5>1 DEF Mailing
        <5> QED BY <5>2 DEF InHand
      <4>4. Owed(c)' \subseteq Owed(c) \cup {w}
        BY <1>9, OwedFrom
      <4>5. Cardinality(Owed(c)') <= Cardinality(Owed(c)) + 1
        BY <1>5, <4>4, OneMore
      <4> QED BY <1>2, <1>5, <1>m, <1>6, <2>1, <4>1, <4>2, <4>3, <4>5
    <3>5. Stall(w) => sent'[c] = sent[c]
      BY StallDoes
    <3>6. ClaimMail(w) => sent'[c] = sent[c]
      BY ClaimMailDoes
    <3> QED BY <1>9, <3>1, <3>2, <3>3, <3>4, <3>5, <3>6, SentOwn, OwedFrom
  <2>3. ASSUME NEW v \in Workers, Mailing(v, c)' PROVE Holds(v, "transition")'
    <3>1. /\ me'[v].pc \in {"mail", "record"} /\ me'[v].start = c
          /\ box'[c].by = v /\ box'[c].live
      BY <2>3 DEF Mailing
    <3>2. CASE v # w
      <4>1. box'[c] = box[c] /\ me'[v] = me[v]
        BY <1>1, <1>9, <3>1, <3>2, RowFrom DEF Framed, Turn
      <4>2. Mailing(v, c)
        BY <3>1, <4>1 DEF Mailing
      <4>3. Holds(v, "transition")
        BY <1>6, <2>1, <4>2
      <4> QED BY <1>1, <1>9, <3>2, <4>3, LocksAre, NoWorker DEF Framed, Locking, Holds
    <3>3. CASE v = w
      <4>1. ~Stall(w)
        <5>1. SUFFICES ASSUME Stall(w) PROVE FALSE
          OBVIOUS
        <5>2. box' = Lost(w) /\ c \in Keys
          BY <5>1, StallDoes, NumbersAre
        <5> QED BY <3>1, <3>3, <5>2, LostIs
      <4>2. CASE ClaimMail(w)
        <5>1. Holds(w, "transition") /\ lock' = lock
          BY <3>1, <3>3, <4>2, ClaimMailDoes, IdleIs DEF Stops, Goes, Like
        <5> QED BY <3>3, <5>1 DEF Holds
      <4>3. CASE Confirm(w)
        <5>1. me'[w].start = 0
          BY <4>3, ConfirmDoes, IdleIs DEF Goes, Like, Keeps
        <5> QED BY <3>1, <3>3, <5>1, NumbersAre DEF Lapses
      <4>4. CASE Mail(w)
        <5>1. /\ me[w].pc = "mail" /\ me'[w].start = me[w].start
              /\ box' = box /\ lock' = lock
          BY <4>4, MailDoes DEF Goes, Like, Keeps
        <5>2. Mailing(w, c)
          BY <3>1, <3>3, <5>1 DEF Mailing
        <5> QED BY <1>6, <2>1, <3>3, <5>1, <5>2 DEF Holds
      <4> QED BY <3>1, <3>3, <4>1, <4>2, <4>3, <4>4, EntersFrom
    <3> QED BY <3>2, <3>3
  <2> QED BY <1>2, <1>5, <1>m, <1>9, <2>2, <2>3
<1> QED BY <1>8, <1>9

LEMMA SentEnv == ASSUME SentInv, Env PROVE SentInv'
<1>1. /\ me' = me /\ lock' = lock /\ box' = box /\ sent' = sent /\ rest' = rest
      /\ upsets' = upsets /\ stalls' = stalls
  BY DEF Env
<1>2. ASSUME NEW c PROVE /\ Mailers(c)' = Mailers(c) /\ Cancellers' = Cancellers
                         /\ (InHand(c)' <=> InHand(c))
                         /\ \A v \in Workers : Mailing(v, c)' <=> Mailing(v, c)
  BY <1>1 DEF Mailers, Cancellers, InHand, Mailing, Holds
<1>3. /\ \A c \in Lapses : sent[c] + Cardinality(Mailers(c)) <= 1 + upsets + stalls
      /\ Team => \A c \in Lapses :
          /\ ~InHand(c) => sent[c] + Cardinality(Mailers(c) \cup Cancellers) <= upsets + stalls
          /\ sent[c] + Cardinality(Mailers(c) \cup Cancellers) <= 1 + upsets + stalls
          /\ \A w \in Workers : Mailing(w, c) => Holds(w, "transition")
  BY DEF SentInv
<1> QED BY <1>1, <1>2, <1>3 DEF SentInv, Team, Holds

-----------------------------------------------------------------------------
(* The theorems. *)

LEMMA ClaimsFrom ==
    ASSUME TypeOK, KnownInv, NEW w \in Workers, Acts(w), audit.state = "none",
           audit'.state = "pending"
    PROVE  ClaimNow(w) \/ Claim(w)
<1>w. KnownOK(w)
  BY DEF KnownInv
<1>1. CASE Signal(w)
  BY <1>1, SignalDoes DEF Still, SameAccount
<1>2. CASE Apply(w)
  BY <1>2, ApplyDoes
<1>3. CASE CancelMail(w)
  BY <1>3, CancelMailDoes DEF SameAccount
<1>4. CASE CloseGap(w)
  BY <1>4, CloseGapDoes DEF Still, SameAccount
<1>5. CASE Hook(w)
  BY <1>5, HookDoes DEF Still, SameAccount
<1>6. CASE ReadProvider(w)
  BY <1>6, ReadProviderDoes DEF Still, SameAccount
<1>7. CASE Save(w)
  BY <1>7, SaveDoes DEF SameAccount
<1>8. CASE Resume(w)
  BY <1>8, ResumeDoes DEF Still, SameAccount
<1>9. CASE Advance(w)
  BY <1>9, AdvanceDoes DEF Still, SameAccount
<1>10. CASE DeleteNow(w)
  BY <1>10, DeleteNowDoes DEF Still, SameAccount
<1>11. CASE OpenGap(w)
  BY <1>11, OpenGapDoes DEF Still, SameAccount
<1>12. CASE Reload(w)
  BY <1>12, ReloadDoes DEF Still, SameAccount
<1>13. CASE ClaimMail(w)
  BY <1>13, ClaimMailDoes DEF SameAccount
<1>14. CASE Confirm(w)
  BY <1>14, ConfirmDoes DEF SameAccount
<1>15. CASE Mail(w)
  BY <1>15, MailDoes DEF SameAccount
<1>16. CASE MailFails(w)
  BY <1>16, MailFailsDoes DEF SameAccount
<1>17. CASE Record(w)
  BY <1>17, RecordDoes DEF SameClaim
<1>18. CASE Status(w)
  BY <1>18, StatusDoes DEF Still, SameAccount
<1>19. CASE Account(w)
  BY <1>19, AccountDoes DEF Still, SameAccount
<1>20. CASE Promote(w)
  BY <1>20, PromoteDoes DEF Pending
<1>21. CASE ClaimNow(w)
  BY <1>21
<1>22. CASE Claim(w)
  BY <1>22
<1>23. CASE Fence(w)
  BY <1>23, FenceDoes DEF Still, SameAccount
<1>24. CASE Index(w)
  BY <1>24, IndexDoes DEF SameClaim
<1>25. CASE Quiesce(w)
  BY <1>25, QuiesceDoes DEF Still, SameAccount
<1>26. CASE Look(w)
  BY <1>26, LookDoes DEF Still, SameAccount
<1>27. CASE Note(w)
  BY <1>27, NoteDoes DEF SameAccount
<1>28. CASE Hold(w)
  BY <1>28, HoldDoes DEF SameAccount
<1>29. CASE StripeFails(w)
  BY <1>29, StripeFailsDoes DEF SameAccount
<1>30. CASE Void(w)
  BY <1>30, VoidDoes DEF Pending
<1>31. CASE Restore(w)
  BY <1>31, <1>w, RestoreDoes DEF SameAccount
<1>32. CASE Forget(w)
  BY <1>32, ForgetDoes DEF SameAccount
<1>33. CASE Recover(w)
  BY <1>33, RecoverDoes DEF SameAccount, Pending
<1>34. CASE Cancel(w)
  BY <1>34, CancelDoes DEF Pending
<1>35. CASE RemoveControl(w)
  BY <1>35, RemoveControlDoes DEF SameClaim
<1>36. CASE Remove(w)
  BY <1>36, RemoveDoes
<1>37. CASE Mark(w)
  BY <1>37, <1>w, MarkDoes DEF SameClaim
<1>38. CASE Finish(w)
  BY <1>38, <1>w, FinishDoes DEF Pending, KnownOK, After, AllMarked
<1>39. CASE Crash(w)
  BY <1>39, CrashDoes DEF SameAccount
<1>40. CASE Stall(w)
  BY <1>40, StallDoes DEF SameAccount
<1> QED BY <1>1, <1>2, <1>3, <1>4, <1>5, <1>6, <1>7, <1>8, <1>9, <1>10, <1>11, <1>12,
       <1>13, <1>14, <1>15, <1>16, <1>17, <1>18, <1>19, <1>20, <1>21, <1>22, <1>23,
       <1>24, <1>25, <1>26, <1>27, <1>28, <1>29, <1>30, <1>31, <1>32, <1>33, <1>34,
       <1>35, <1>36, <1>37, <1>38, <1>39, <1>40, ActIs

DeletionInv ==
    /\ TypeOK /\ KnownInv /\ TeamInv /\ NumbersInv /\ PartsInv /\ OneWinner
    /\ PaidInv /\ EarlyInv /\ LeaseInv /\ DestroyInv /\ HoldsInv /\ ClockInv /\ SentInv

LEMMA StartsTrue == ASSUME Init PROVE DeletionInv
<1>1. /\ clock = Stopped /\ age = 0 /\ gap = [c \in Lapses |-> "none"]
      /\ bill = [no |-> 0, state |-> "paid"]
      /\ inv = [no |-> 0, status |-> "paid", late |-> FALSE]
      /\ held = {} /\ noted = {} /\ news = FALSE
      /\ audit = NoAudit /\ busy = FALSE /\ rest = Everything
      /\ box = [c \in Keys |-> NoRow] /\ sent = [c \in Keys |-> 0]
      /\ lock = [k \in Locks |-> None] /\ me = [w \in Workers |-> Idle]
      /\ upsets = 0 /\ stalls = 0
  BY DEF Init
<1>2. /\ inv.no = 0 /\ inv.status = "paid" /\ bill.no = 0
      /\ audit.state = "none" /\ audit.steps = {} /\ ~audit.owner /\ audit \in AuditRow
      /\ clock.start = 0 /\ clock.deleted = FALSE /\ Team /\ Settled
  BY <1>1, StoppedIs, NumbersAre DEF NoAudit, AuditRow, Team, Everything, Settled
<1>3. \A w \in Workers :
        /\ me[w] = Idle /\ me[w].pc = "idle" /\ me[w].start = 0
        /\ me[w].gone = FALSE /\ me[w].due = FALSE /\ me[w].final = FALSE
  BY <1>1, IdleIs
<1>4. TypeOK
  <2>1. box \in [Keys -> OutboxRow] /\ sent \in [Keys -> Nat]
    BY <1>1, RowsAre
  <2>2. lock \in [Locks -> Workers \cup {None}] /\ me \in [Workers -> Worker]
    BY <1>1, IdleIs
  <2>3. bill \in MirrorRow /\ inv \in InvoiceRow
    BY <1>1, NumbersAre DEF MirrorRow, InvoiceRow
  <2>4. clock \in Clock /\ age \in 0..2 /\ gap \in [Lapses -> {"none", "open", "ended"}]
    BY <1>1, StoppedIs
  <2>5. held \subseteq Objects /\ noted \subseteq Objects /\ rest \subseteq Everything
    BY <1>1
  <2>6. news \in BOOLEAN /\ busy \in BOOLEAN /\ upsets \in Nat /\ stalls \in Nat
    BY <1>1
  <2> QED BY <1>2, <2>1, <2>2, <2>3, <2>4, <2>5, <2>6 DEF TypeOK
<1>5. KnownInv
  BY <1>3 DEF KnownInv, KnownOK, After, Passes
<1>6. TeamInv /\ PartsInv /\ OneWinner
  BY <1>1, <1>2, <1>3 DEF TeamInv, PartsInv, PartsOK, OneWinner, Pending
<1>7. NumbersInv /\ PaidInv
  BY <1>2, <1>3 DEF NumbersInv, PaidInv, PaidOK
<1>8. EarlyInv
  BY <1>2, <1>3 DEF EarlyInv, Early, Cancelling, Pending
<1>9. LeaseInv
  BY <1>3 DEF LeaseInv, Stale, Guarded
<1>10. DestroyInv
  BY <1>2, <1>3 DEF DestroyInv, DestroyOK, Destroying, PassedOK
<1>11. HoldsInv /\ ClockInv
  BY <1>1, <1>3 DEF HoldsInv, ClockInv, Warns
<1>12. SentInv
  <2>1. Cancellers = {} /\ \A c \in Lapses : Mailers(c) = {} /\ ~(\E w \in Workers : Mailing(w, c))
    BY <1>3 DEF Cancellers, Mailers, Mailing
  <2>2. Cardinality({}) = 0
    BY FS_EmptySet
  <2>3. \A c \in Lapses : sent[c] = 0
    BY <1>1, NumbersAre
  <2>4. \A c \in Lapses : Mailers(c) \cup Cancellers = {}
    BY <2>1
  <2>5. upsets = 0 /\ stalls = 0 /\ \A c \in Lapses : ~(\E w \in Workers : Mailing(w, c))
    BY <1>1, <2>1
  <2>6. ASSUME NEW c \in Lapses
        PROVE  /\ Cardinality(Mailers(c)) = 0 /\ sent[c] = 0
               /\ Cardinality(Mailers(c) \cup Cancellers) = 0
    BY <2>1, <2>2, <2>3, <2>4
  <2>7. /\ \A c \in Lapses : sent[c] + Cardinality(Mailers(c)) <= 1 + upsets + stalls
        /\ \A c \in Lapses :
             /\ sent[c] + Cardinality(Mailers(c) \cup Cancellers) <= upsets + stalls
             /\ sent[c] + Cardinality(Mailers(c) \cup Cancellers) <= 1 + upsets + stalls
    <3>1. 0 + 0 <= 1 + 0 + 0 /\ 0 + 0 <= 0 + 0
      OBVIOUS
    <3> QED BY <2>5, <2>6, <3>1
  <2> QED BY <2>5, <2>7 DEF SentInv
<1> QED BY <1>2, <1>4, <1>5, <1>6, <1>7, <1>8, <1>9, <1>10, <1>11, <1>12 DEF DeletionInv

LEMMA Stutters == ASSUME DeletionInv, UNCHANGED vars PROVE DeletionInv'
<1>1. /\ clock' = clock /\ age' = age /\ gap' = gap /\ bill' = bill /\ inv' = inv
      /\ held' = held /\ noted' = noted /\ news' = news /\ audit' = audit /\ busy' = busy
      /\ rest' = rest /\ box' = box /\ sent' = sent /\ lock' = lock /\ me' = me
      /\ upsets' = upsets /\ stalls' = stalls
  BY DEF vars, billing, account, deletion, mail, bounds
<1>2. Env
  <2>1. inv \in InvoiceRow /\ inv.no \in Nat /\ SmallOK
    BY <1>1, Numbers DEF DeletionInv, TypeOK, SmallOK
  <2> QED BY <1>1, <2>1 DEF Env
<1>3. /\ TypeOK' /\ KnownInv' /\ TeamInv' /\ PartsInv' /\ OneWinner' /\ LeaseInv' /\ HoldsInv'
      /\ ClockInv' /\ SentInv'
  BY <1>2, TypeEnv, KnownEnv, TeamEnv, PartsEnv, WinnerEnv, LeaseEnv, HoldsEnv, ClockEnv,
     SentEnv DEF DeletionInv
<1>4. NumbersInv'
  BY <1>1 DEF DeletionInv, NumbersInv, Settled
<1>5. PaidInv'
  BY <1>1 DEF DeletionInv, PaidInv, PaidOK, SettledInvoice, Settled
<1>6. EarlyInv'
  BY <1>1 DEF DeletionInv, EarlyInv, Early, Cancelling, Settled, Pending
<1>7. DestroyInv'
  BY <1>1 DEF DeletionInv, DestroyInv, DestroyOK, Destroying, PassedOK, Recovering, Holds,
              Pending, Team
<1> QED BY <1>3, <1>4, <1>5, <1>6, <1>7 DEF DeletionInv

LEMMA Moves == ASSUME DeletionInv, Next PROVE DeletionInv'
<1>1. CASE Lapse \/ Pay \/ Tick
  <2>1. Env
    BY <1>1, EnvIs DEF DeletionInv
  <2>2. /\ TypeOK' /\ KnownInv' /\ TeamInv' /\ PartsInv' /\ OneWinner' /\ LeaseInv'
        /\ HoldsInv' /\ ClockInv' /\ SentInv'
    BY <2>1, TypeEnv, KnownEnv, TeamEnv, PartsEnv, WinnerEnv, LeaseEnv, HoldsEnv, ClockEnv,
       SentEnv DEF DeletionInv
  <2>3. NumbersInv' /\ PaidInv' /\ EarlyInv' /\ DestroyInv'
    BY <1>1, <2>1, NumbersEnv, PaidEnv, EarlyEnv, DestroyEnv DEF DeletionInv
  <2> QED BY <2>2, <2>3 DEF DeletionInv
<1>2. CASE \E w \in Workers : Acts(w)
  <2>1. PICK w \in Workers : Acts(w)
    BY <1>2
  <2>2. TypeOK' /\ KnownInv' /\ TeamInv' /\ NumbersInv' /\ PartsInv' /\ OneWinner'
    BY <2>1, TypeActs, KnownStep, TeamStep, NumbersStep, PartsStep, WinnerStep
       DEF DeletionInv
  <2>3. PaidInv' /\ EarlyInv' /\ LeaseInv' /\ DestroyInv'
    BY <2>1, PaidStep, EarlyStep, LeaseStep, DestroyStep DEF DeletionInv
  <2>4. HoldsInv' /\ ClockInv' /\ SentInv'
    BY <2>1, HoldsStep, ClockStep, SentStep DEF DeletionInv
  <2> QED BY <2>2, <2>3, <2>4 DEF DeletionInv
<1> QED BY <1>1, <1>2, StepIs

THEOREM Reachable == Spec => []DeletionInv
<1>1. DeletionInv /\ [Next]_vars => DeletionInv'
  BY Moves, Stutters
<1> QED BY <1>1, StartsTrue, PTL DEF Spec

\* The rows, the leases and the workers keep their types.
THEOREM TypeCorrect == Spec => []TypeOK
<1>1. DeletionInv => TypeOK
  BY DEF DeletionInv
<1> QED BY <1>1, Reachable, PTL

\* Nothing is lost before a claim is durable, unless two workers outlive their leases; no
\* invoice of the first lapse is voided before it; and a completed deletion has removed
\* everything (Purger.purge, Service.QuiesceForDeletion, finishControl).
THEOREM GoneHolds == Spec => []GoneIsGone
<1>1. DeletionInv => GoneIsGone
  BY DEF DeletionInv, GoneIsGone, TeamInv, DestroyInv, EarlyInv, PartsInv
<1> QED BY <1>1, Reachable, PTL

\* A payment and day 90 have one winner: clock and audit move together (claim,
\* cancelRecoveredDeletion, SaveIfState), whatever is outlived or crashes.
THEOREM WinnerHolds == Spec => []OneWinner
<1>1. DeletionInv => OneWinner
  BY DEF DeletionInv
<1> QED BY <1>1, Reachable, PTL

\* What the purge suspends at Stripe is noted before and forgotten after (noteQuiescence,
\* restoreQuiescence), as long as no lease was outlived.
THEOREM HoldsHold == Spec => []HoldsRemembered
<1>1. DeletionInv => HoldsRemembered
  BY DEF DeletionInv, HoldsInv, HoldsRemembered
<1> QED BY <1>1, Reachable, PTL

\* A warning is sent once, and once more for each crash or pause, and while no lease was
\* outlived only with the clock it is about running (sendDue, ClaimNotice, FinishEmail).
THEOREM WarnsHold == Spec => WarnsOnlyRunning
<1>1. DeletionInv /\ DeletionInv' /\ [Next]_vars =>
        [\A c \in Lapses : sent'[c] # sent[c] =>
            /\ sent'[c] <= 1 + upsets + stalls
            /\ stalls = 0 => clock = [start |-> c, deleted |-> FALSE]]_vars
  <2> SUFFICES ASSUME DeletionInv, DeletionInv', [Next]_vars,
                      NEW c \in Lapses, sent'[c] # sent[c]
               PROVE  /\ sent'[c] <= 1 + upsets + stalls
                      /\ stalls = 0 => clock = [start |-> c, deleted |-> FALSE]
    OBVIOUS
  <2>1. PICK w \in Workers : Acts(w)
    <3>1. sent' # sent
      OBVIOUS
    <3>2. ~(Lapse \/ Pay \/ Tick)
      BY <3>1, EnvIs DEF DeletionInv, Env
    <3>3. Next
      BY <3>1 DEF vars, mail
    <3> QED BY <3>2, <3>3, StepIs
  <2>2. /\ Mail(w) /\ me[w].pc = "mail" /\ me[w].start = c
        /\ upsets' = upsets /\ stalls' = stalls
    BY <2>1, SentOwn, MailDoes DEF DeletionInv, SameFaults
  <2>3. sent'[c] <= 1 + upsets + stalls
    <3>1. sent'[c] + Cardinality(Mailers(c)') <= 1 + upsets' + stalls'
      BY DEF DeletionInv, SentInv
    <3>2. Mailers(c)' \in SUBSET Workers
      BY DEF Mailers
    <3>3. Cardinality(Mailers(c)') \in Nat
      BY <3>2, Fewer
    <3>4. sent'[c] \in Nat /\ upsets \in Nat /\ stalls \in Nat
      BY NumbersAre DEF DeletionInv, TypeOK
    <3> QED BY <2>2, <3>1, <3>3, <3>4
  <2>4. stalls = 0 => clock = [start |-> c, deleted |-> FALSE]
    BY <2>1, <2>2, NumbersAre DEF DeletionInv, ClockInv, Warns, Mine, Lapses
  <2> QED BY <2>3, <2>4
<1> QED BY <1>1, Reachable, PTL DEF Spec, WarnsOnlyRunning

\* A purge that found the invoice paid makes no scheduled claim, though the mirror may
\* still call it failed (settledInvoice, claim).
THEOREM PaidHolds == Spec => PaidFirst
<1>1. DeletionInv /\ [Next]_vars =>
        [\A w \in Workers : audit.state = "none" /\ audit'.state = "pending" /\ ~audit'.owner
            /\ me'[w].gone /\ ~me[w].gone => ~me[w].settled]_vars
  <2> SUFFICES ASSUME DeletionInv, [Next]_vars, NEW w \in Workers,
                      audit.state = "none", audit'.state = "pending", ~audit'.owner,
                      me'[w].gone, ~me[w].gone
               PROVE  ~me[w].settled
    OBVIOUS
  <2>1. PICK v \in Workers : Acts(v)
    <3>1. audit' # audit
      OBVIOUS
    <3>2. ~(Lapse \/ Pay \/ Tick)
      BY <3>1, EnvIs DEF DeletionInv, Env
    <3>3. Next
      BY <3>1 DEF vars, deletion
    <3> QED BY <3>2, <3>3, StepIs
  <2>2. v = w
    BY <2>1, ActFrames DEF DeletionInv, Framed, Turn
  <2>3. ClaimNow(w) \/ Claim(w)
    BY <2>1, <2>2, ClaimsFrom DEF DeletionInv
  <2>4. CASE ClaimNow(w)
    BY <2>4, ClaimNowDoes DEF DeletionInv, KnownInv, KnownOK, Claims
  <2>5. CASE Claim(w)
    <3>1. me[w].pc = "claim" /\ me[w].due
      BY <2>5, ClaimDoes DEF DeletionInv, Pending
    <3> QED BY <3>1 DEF DeletionInv, PaidInv, PaidOK
  <2> QED BY <2>3, <2>4, <2>5
<1> QED BY <1>1, Reachable, PTL DEF Spec, PaidFirst
=============================================================================
