-------------------------- MODULE BillingCheckout --------------------------
(***************************************************************************)
(* How an account comes to pay: Service.Checkout, the Stripe events that    *)
(* follow, and the mirror of the subscription (internal/billing).  One      *)
(* hosted checkout per account is allowed.  Its intent is a row committed    *)
(* before Stripe is called, with an idempotency key; whatever session is     *)
(* replaced or comes too late waits in a cleanup table until Stripe has      *)
(* closed it.  Events are claimed in a log and delivered again until one     *)
(* attempt succeeds; every attempt reads Stripe's current state.             *)
(*                                                                         *)
(* All work of an account is done under its lease.  A worker that pauses     *)
(* longer than the lease goes on without it until its next Renew, which      *)
(* belongs here to the step before the statement it guards.                  *)
(***************************************************************************)
EXTENDS Naturals, FiniteSets, FiniteSetsExt

CONSTANTS
    Tabs,          \* requests for a checkout
    Handlers,      \* deliveries of Stripe events
    Plans,
    None, Dead,    \* nobody, and a process that died, as holders of the lease
    MaxSessions,   \* bound: checkout sessions at Stripe
    MaxClaims,     \* bound: checkout intents
    MaxEnds,       \* bound: subscriptions that end
    MaxFaults      \* bound: crashes, failed calls and pauses longer than a lease

Workers == Tabs \cup Handlers

ASSUME CheckoutAssumption ==
    /\ {None, Dead} \cap Workers = {} /\ Tabs \cap Handlers = {}
    /\ MaxSessions \in Nat \ {0} /\ MaxClaims \in Nat \ {0}
    /\ MaxEnds \in Nat /\ MaxFaults \in Nat

VARIABLES
    session,   \* Stripe: checkout sessions
    sub,       \* Stripe: the subscription of each completed session
    shown,     \* sessions whose address a customer has
    claim,     \* billing_checkouts
    cleanup,   \* billing_checkout_cleanup
    mirror,    \* subscriptions
    event,     \* Stripe's events, and stripe_events
    lock,      \* billing_account_leases
    me,        \* the workers
    upsets, stalls

stripe == <<session, sub>>
rows == <<claim, cleanup>>
bounds == <<upsets, stalls>>
vars == <<stripe, shown, rows, mirror, event, lock, me, bounds>>

Sessions == 1..MaxSessions
Events == 1..(MaxSessions + MaxEnds)
NoSession == [state |-> "none", key |-> 0, plan |-> None]
NoClaim == [status |-> "none", token |-> 0, ses |-> 0, plan |-> None, aged |-> FALSE]
NoEvent == [kind |-> "none", state |-> "none", by |-> None, live |-> FALSE]
NoMirror == [known |-> FALSE, sub |-> 0, live |-> FALSE, mark |-> 0]

\* A worker: what it does next and what follows, its plan, what it read of the
\* mirror, its copy of the claim, the session in hand, those still to inspect;
\* its event, and the state of Stripe it has read.
Idle == [pc |-> "idle", then |-> "none", plan |-> None, known |-> FALSE,
         token |-> 0, ses |-> 0, cplan |-> None, todo |-> {},
         e |-> 0, read |-> NoMirror]

-----------------------------------------------------------------------------
Holds(w) == lock = w
Release(w) == lock' = IF Holds(w) THEN None ELSE lock
Return(w) == me' = [me EXCEPT ![w] = Idle] /\ Release(w)
Goto(w, pc) == me' = [me EXCEPT ![w].pc = pc]

\* Renew: on with the lease, else an error.
Renewed(w, new) == IF Holds(w) THEN me' = [me EXCEPT ![w] = new] /\ UNCHANGED lock
                   ELSE Return(w)
At(w, pc) == me[w].pc = pc
On(w, pc) == [me[w] EXCEPT !.pc = pc]

Live == {s \in Sessions : sub[s] = "live"}
Happened == {e \in Events : event[e].kind # "none"}
Emit(kind) == event' = [event EXCEPT ![Cardinality(Happened) + 1] =
                          [NoEvent EXCEPT !.kind = kind, !.state = "due"]]

-----------------------------------------------------------------------------
(* The customer, Stripe and time. *)

Pay(s) ==
    /\ s \in shown /\ session[s].state = "open"
    /\ session' = [session EXCEPT ![s].state = "complete"]
    /\ sub' = [sub EXCEPT ![s] = "live"]
    /\ Emit("completed")
    /\ UNCHANGED <<shown, rows, mirror, lock, me, bounds>>

SubscriptionEnds(s) ==
    /\ sub[s] = "live" /\ Cardinality({x \in Sessions : sub[x] = "ended"}) < MaxEnds
    /\ sub' = [sub EXCEPT ![s] = "ended"]
    /\ Emit("ended")
    /\ UNCHANGED <<session, shown, rows, mirror, lock, me, bounds>>

\* A day after its creation a session closes and its key is forgotten; an intent
\* without a session has grown too old an hour before.  Nobody who renews its
\* lease works that long.
SessionEnds(s) ==
    /\ session[s].state = "open" /\ lock = None
    /\ claim.status = "creating" /\ claim.token = session[s].key => claim.aged
    /\ session' = [session EXCEPT ![s].state = "expired", ![s].key = 0]
    /\ UNCHANGED <<sub, shown, rows, mirror, event, lock, me, bounds>>
ClaimAges ==
    /\ claim.status = "creating" /\ claim.ses = 0 /\ ~claim.aged /\ lock = None
    /\ claim' = [claim EXCEPT !.aged = TRUE]
    /\ UNCHANGED <<stripe, shown, cleanup, mirror, event, lock, me, bounds>>

-----------------------------------------------------------------------------
(* Checkout. *)

Visit(t, p) ==
    /\ me[t] = Idle /\ lock = None /\ lock' = t
    /\ me' = [me EXCEPT ![t] = [Idle EXCEPT !.pc = "look", !.plan = p]]
    /\ UNCHANGED <<stripe, shown, rows, mirror, event, bounds>>

\* A customer Stripe still charges manages the plan in the portal.
Look(t) ==
    /\ At(t, "look")
    /\ IF mirror.known /\ Live # {} THEN Return(t)
       ELSE me' = [me EXCEPT ![t].pc = "load", ![t].known = mirror.known] /\ UNCHANGED lock
    /\ UNCHANGED <<stripe, shown, rows, mirror, event, bounds>>

\* CheckoutClaimForAccount, and what its state asks for.
NextFor(t) ==
    CASE claim.status \in {"none", "expired"} -> "list"
      [] claim.ses # 0 -> "inspect"
      [] claim.status = "complete" /\ ~me[t].known -> "blocked"
      [] claim.status = "complete" \/ claim.aged -> "retire"
      [] OTHER -> "create"
Load(t) ==
    /\ At(t, "load")
    /\ LET new == [me[t] EXCEPT !.pc = NextFor(t), !.token = claim.token,
                                !.ses = claim.ses, !.cplan = claim.plan]
       IN  IF new.pc \in {"list", "inspect"}
           THEN me' = [me EXCEPT ![t] = new] /\ UNCHANGED lock
           ELSE IF new.pc = "blocked" THEN Return(t) ELSE Renewed(t, new)
    /\ UNCHANGED <<stripe, shown, rows, mirror, event, bounds>>

\* The session of the claim, as Stripe has it.
Inspect(t) ==
    LET s == me[t].ses
        st == session[s].state
    IN  /\ At(t, "inspect")
        /\ CASE st = "open" /\ me[t].cplan = me[t].plan ->
                  shown' = shown \cup {s} /\ Return(t)
             [] st = "complete" /\ ~me[t].known ->
                  Renewed(t, On(t, "complete")) /\ UNCHANGED shown
             [] st = "complete" /\ me[t].known ->
                  /\ me' = [me EXCEPT ![t].pc = "verify", ![t].then = "retire"]
                  /\ UNCHANGED <<shown, lock>>
             [] OTHER -> Renewed(t, On(t, "retire")) /\ UNCHANGED shown
        /\ UNCHANGED <<stripe, rows, mirror, event, bounds>>

\* verifyCompletedCheckoutIsTerminal.
Verify(t) ==
    /\ At(t, "verify")
    /\ IF Live = {} THEN Renewed(t, On(t, me[t].then)) ELSE Return(t)
    /\ UNCHANGED <<stripe, shown, rows, mirror, event, bounds>>

\* MarkCheckoutClaimStatus, for the claim this worker has read only.
Marked(t, status) == IF claim.token = me[t].token THEN [claim EXCEPT !.status = status]
                     ELSE claim
MarkComplete(t) ==
    /\ At(t, "complete")
    /\ claim' = Marked(t, "complete") /\ Return(t)
    /\ UNCHANGED <<stripe, shown, cleanup, mirror, event, bounds>>

\* retireCheckoutClaim: remember the session, then give up the claim.
\* Mutant: its session is forgotten.
Forgotten(t) == cleanup
Queued(t) == IF me[t].ses # 0 THEN cleanup \cup {me[t].ses} ELSE cleanup
Retire(t) ==
    /\ At(t, "retire")
    /\ cleanup' = Queued(t)
    /\ Renewed(t, On(t, "giveUp"))
    /\ UNCHANGED <<stripe, shown, claim, mirror, event, bounds>>
GiveUp(t) ==
    /\ At(t, "giveUp")
    /\ claim' = Marked(t, "expired")
    /\ IF claim.token = me[t].token THEN Goto(t, "list") /\ UNCHANGED lock ELSE Return(t)
    /\ UNCHANGED <<stripe, shown, cleanup, mirror, event, bounds>>

\* cleanupCheckoutSessions: every session of the account that could still be
\* completed is closed before a new one may be created.
Known == cleanup \cup {s \in Sessions : session[s].state # "none"}
List(t) ==
    /\ At(t, "list")
    /\ Renewed(t, [me[t] EXCEPT !.pc = "clean", !.todo = Known])
    /\ UNCHANGED <<stripe, shown, rows, mirror, event, bounds>>
Clean(t) ==
    /\ At(t, "clean") /\ me[t].todo # {}
    /\ \E s \in me[t].todo :
          /\ cleanup' = cleanup \cup {s}
          /\ me' = [me EXCEPT ![t].pc = "get", ![t].ses = s, ![t].todo = @ \ {s}]
    /\ UNCHANGED <<stripe, shown, claim, mirror, event, lock, bounds>>

\* A completed session that is not in the mirror yet stops the replacement.
\* Mutant: it is passed over.
PassedOver(t) == FALSE
Blocks(t) == ~me[t].known
Get(t) ==
    LET st == session[me[t].ses].state
    IN  /\ At(t, "get")
        /\ CASE st = "complete" /\ Blocks(t) -> Return(t)
             [] st = "complete" /\ ~Blocks(t) /\ me[t].known ->
                  me' = [me EXCEPT ![t].pc = "verify", ![t].then = "finish"] /\ UNCHANGED lock
             [] st = "open" -> Renewed(t, On(t, "close"))
             [] OTHER -> Renewed(t, On(t, "finish"))
        /\ UNCHANGED <<stripe, shown, rows, mirror, event, bounds>>

\* ExpireCheckoutSession: Stripe refuses a session that was completed.
Close(s) == session' = IF session[s].state = "open"
                       THEN [session EXCEPT ![s].state = "expired"] ELSE session
CloseOpen(t) ==
    /\ At(t, "close")
    /\ Close(me[t].ses)
    /\ IF session[me[t].ses].state = "complete" THEN Return(t)
       ELSE Renewed(t, On(t, "finish"))
    /\ UNCHANGED <<sub, shown, rows, mirror, event, bounds>>
FinishCleanup(t) ==
    /\ At(t, "finish")
    /\ cleanup' = cleanup \ {me[t].ses}
    /\ Renewed(t, On(t, "clean"))
    /\ UNCHANGED <<stripe, shown, claim, mirror, event, bounds>>

\* NewCheckoutClaim: INSERT ... ON CONFLICT DO UPDATE ... WHERE status = 'expired'.
NewClaim(t) ==
    /\ At(t, "clean") /\ me[t].todo = {}
    /\ IF claim.status \in {"none", "expired"} /\ claim.token < MaxClaims
       THEN /\ claim' = [NoClaim EXCEPT !.status = "creating", !.token = claim.token + 1,
                                        !.plan = me[t].plan]
            /\ Renewed(t, [me[t] EXCEPT !.pc = "create", !.token = claim'.token, !.ses = 0,
                                        !.cplan = me[t].plan])
       ELSE UNCHANGED claim /\ Return(t)
    /\ UNCHANGED <<stripe, shown, cleanup, mirror, event, bounds>>

\* CreateCheckoutSession: Stripe answers a key it knows with the same session.
OfKey(k) == {s \in Sessions : session[s].key = k}
Fresh == {s \in Sessions : session[s].state = "none"}
Create(t) ==
    LET k == me[t].token
    IN  /\ At(t, "create")
        /\ IF OfKey(k) # {}
           THEN /\ me' = [me EXCEPT ![t].pc = "created", ![t].ses = Min(OfKey(k))]
                /\ UNCHANGED <<session, lock>>
           ELSE IF Fresh = {} THEN Return(t) /\ UNCHANGED session
           ELSE LET s == Min(Fresh)
                IN  /\ session' = [session EXCEPT ![s] =
                           [state |-> "open", key |-> k, plan |-> me[t].cplan]]
                    /\ me' = [me EXCEPT ![t].pc = "created", ![t].ses = s]
                    /\ UNCHANGED lock
        /\ UNCHANGED <<sub, shown, rows, mirror, event, bounds>>

\* Renew after the call: an answer that comes too late is remembered and closed.
Late(t) ==
    /\ At(t, "created") /\ ~Holds(t)
    /\ cleanup' = cleanup \cup {me[t].ses} /\ Goto(t, "lateClose")
    /\ UNCHANGED <<stripe, shown, claim, mirror, event, lock, bounds>>
LateClose(t) ==
    /\ At(t, "lateClose")
    /\ Close(me[t].ses)
    /\ IF session[me[t].ses].state = "complete" THEN Return(t)
       ELSE Goto(t, "lateFinish") /\ UNCHANGED lock
    /\ UNCHANGED <<sub, shown, rows, mirror, event, bounds>>
LateFinish(t) ==
    /\ At(t, "lateFinish")
    /\ cleanup' = cleanup \ {me[t].ses} /\ Return(t)
    /\ UNCHANGED <<stripe, shown, claim, mirror, event, bounds>>

\* SaveCheckoutSession: to the claim with this token, else to the cleanup table.
\* A session recovered for another plan is retired at once.
Save(t) ==
    LET s == me[t].ses
        mine == claim.token = me[t].token
        served == mine /\ me[t].cplan = me[t].plan
    IN  /\ At(t, "created") /\ Holds(t)
        /\ claim' = IF mine THEN [claim EXCEPT !.ses = s, !.status = "open"] ELSE claim
        /\ cleanup' = IF mine THEN cleanup ELSE cleanup \cup {s}
        /\ shown' = IF served THEN shown \cup {s} ELSE shown
        /\ CASE served -> Return(t)
             [] mine /\ ~served -> Renewed(t, On(t, "retire"))
             [] OTHER -> Goto(t, "lateClose") /\ UNCHANGED lock
        /\ UNCHANGED <<stripe, mirror, event, bounds>>

-----------------------------------------------------------------------------
(* Events: Webhook.Handle. *)

\* ClaimEvent: an event nobody handles or has handled, or whose handler's lease is
\* over.
\* Mutant: a handler that died keeps its event.
NewOrFailed(e) == event[e].state = "due"
Claimable(e) == NewOrFailed(e) \/ (event[e].state = "processing" /\ ~event[e].live)
Deliver(h, e) ==
    /\ me[h] = Idle /\ Claimable(e)
    /\ event' = [event EXCEPT ![e].state = "processing", ![e].by = h, ![e].live = TRUE]
    /\ me' = [me EXCEPT ![h] = [Idle EXCEPT !.pc = "wait", !.e = e]]
    /\ UNCHANGED <<stripe, shown, rows, mirror, lock, bounds>>

Acquire(h) ==
    /\ At(h, "wait") /\ lock = None /\ lock' = h
    /\ Goto(h, "read")
    /\ UNCHANGED <<stripe, shown, rows, mirror, event, bounds>>

\* What Stripe says now: the subscription in good standing, else the newest.
Selected == IF Live # {} THEN Max(Live) ELSE Max({0} \cup {s \in Sessions : sub[s] = "ended"})
\* Mutant: what the event says.
Told(e) == [known |-> TRUE, sub |-> Selected, live |-> event[e].kind = "completed",
            mark |-> Max({mirror.mark, e})]
Truth(e) == [known |-> TRUE, sub |-> Selected, live |-> Live # {}, mark |-> Max({mirror.mark, e})]
Failed(h) == Goto(h, "failed") /\ Release(h)
Read(h) ==
    /\ At(h, "read")
    /\ IF Holds(h)
       THEN me' = [me EXCEPT ![h].pc = "mirror", ![h].read = Truth(me[h].e)] /\ UNCHANGED lock
       ELSE Failed(h)
    /\ UNCHANGED <<stripe, shown, rows, mirror, event, bounds>>

\* SaveReconciled: never with an older watermark, unless the subscription is another.
NotOlder(new) == new.sub # mirror.sub \/ new.mark >= mirror.mark
SaveMirror(h) ==
    LET new == me[h].read
    IN  /\ At(h, "mirror")
        /\ mirror' = IF NotOlder(new) THEN new ELSE mirror
        /\ IF NotOlder(new) /\ event[me[h].e].kind = "completed"
           THEN Goto(h, "mark") /\ UNCHANGED lock
           ELSE Goto(h, "done") /\ Release(h)
        /\ UNCHANGED <<stripe, shown, rows, event, bounds>>

\* MarkCheckoutStatus, by the account: whatever claim there is by now.
MarkAny(h) ==
    /\ At(h, "mark")
    /\ claim' = IF claim.status # "none" THEN [claim EXCEPT !.status = "complete"] ELSE claim
    /\ Goto(h, "done") /\ Release(h)
    /\ UNCHANGED <<stripe, shown, cleanup, mirror, event, bounds>>

\* FinishEvent, by the claim that was taken; anything but success is delivered again.
OwnClaim(h) == event[me[h].e].state = "processing" /\ event[me[h].e].by = h
FinishEvent(h) ==
    /\ me[h].pc \in {"done", "failed"}
    /\ event' = IF OwnClaim(h)
                THEN [event EXCEPT ![me[h].e].state = IF At(h, "done") THEN "done" ELSE "due",
                                   ![me[h].e].by = None, ![me[h].e].live = FALSE]
                ELSE event
    /\ me' = [me EXCEPT ![h] = Idle]
    /\ UNCHANGED <<stripe, shown, rows, mirror, lock, bounds>>

-----------------------------------------------------------------------------
(* What goes wrong. *)

\* A statement or a call of Stripe fails.
CallFails(w) ==
    /\ me[w] # Idle /\ upsets + stalls < MaxFaults /\ upsets' = upsets + 1
    /\ IF w \in Handlers
       THEN IF me[w].pc \in {"done", "failed"} THEN Return(w) ELSE Failed(w)
       ELSE Return(w)
    /\ UNCHANGED <<stripe, shown, rows, mirror, event, stalls>>

\* A process dies; its leases run out.
Crash(w) ==
    /\ me[w] # Idle /\ upsets + stalls < MaxFaults /\ upsets' = upsets + 1
    /\ me' = [me EXCEPT ![w] = Idle] /\ lock' = IF Holds(w) THEN Dead ELSE lock
    /\ UNCHANGED <<stripe, shown, rows, mirror, event, stalls>>
LeaseExpires ==
    /\ lock = Dead /\ lock' = None
    /\ UNCHANGED <<stripe, shown, rows, mirror, event, me, bounds>>

\* The lease of an event runs out when its handler died or lost it, or waits for the
\* lease of a process that died, which is as long.
EventExpires(e) ==
    /\ event[e].live
    /\ LET h == event[e].by IN me[h].e # e \/ (At(h, "wait") /\ lock = Dead)
    /\ event' = [event EXCEPT ![e].live = FALSE]
    /\ UNCHANGED <<stripe, shown, rows, mirror, lock, me, bounds>>

\* A process pauses for longer than its leases.
Stall(w) ==
    /\ Holds(w) \/ me[w].e # 0
    /\ upsets + stalls < MaxFaults /\ stalls' = stalls + 1
    /\ Release(w)
    /\ event' = [e \in Events |-> IF event[e].by = w THEN [event[e] EXCEPT !.live = FALSE]
                                  ELSE event[e]]
    /\ UNCHANGED <<stripe, shown, rows, mirror, me, upsets>>

-----------------------------------------------------------------------------
Init ==
    /\ session = [s \in Sessions |-> NoSession] /\ sub = [s \in Sessions |-> "none"]
    /\ shown = {} /\ claim = NoClaim /\ cleanup = {} /\ mirror = NoMirror
    /\ event = [e \in Events |-> NoEvent]
    /\ lock = None /\ me = [w \in Workers |-> Idle]
    /\ upsets = 0 /\ stalls = 0

Checkout(t) ==
    \/ Look(t) \/ Load(t) \/ Inspect(t) \/ Verify(t) \/ MarkComplete(t) \/ Retire(t)
    \/ GiveUp(t) \/ List(t) \/ Clean(t) \/ Get(t) \/ CloseOpen(t) \/ FinishCleanup(t)
    \/ NewClaim(t) \/ Create(t) \/ Late(t) \/ LateClose(t) \/ LateFinish(t)
    \/ Save(t)
Handle(h) == Read(h) \/ SaveMirror(h) \/ MarkAny(h) \/ FinishEvent(h)

Next ==
    \/ \E s \in Sessions : Pay(s) \/ SubscriptionEnds(s) \/ SessionEnds(s)
    \/ \E t \in Tabs : Checkout(t) \/ \E p \in Plans : Visit(t, p)
    \/ \E h \in Handlers : Handle(h) \/ Acquire(h) \/ \E e \in Events : Deliver(h, e)
    \/ \E w \in Workers : CallFails(w) \/ Crash(w) \/ Stall(w)
    \/ \E e \in Events : EventExpires(e)
    \/ LeaseExpires \/ ClaimAges

Spec == Init /\ [][Next]_vars

-----------------------------------------------------------------------------
(* Properties. *)

\* Every variable holds a value of its kind.
SessionRow == [state : {"none", "open", "complete", "expired"}, key : 0..MaxClaims,
               plan : Plans \cup {None}]
ClaimRow == [status : {"none", "creating", "open", "complete", "expired"},
             token : 0..MaxClaims, ses : 0..MaxSessions, plan : Plans \cup {None},
             aged : BOOLEAN]
EventRow == [kind : {"none", "completed", "ended"},
             state : {"none", "due", "processing", "done"},
             by : Handlers \cup {None}, live : BOOLEAN]
MirrorRow == [known : BOOLEAN, sub : 0..MaxSessions, live : BOOLEAN,
              mark : 0..(MaxSessions + MaxEnds)]
TabPcs == {"look", "load", "inspect", "verify", "complete", "retire", "giveUp", "list",
           "clean", "get", "close", "finish", "create", "created", "lateClose", "lateFinish"}
HandlerPcs == {"wait", "read", "mirror", "mark", "done", "failed"}
Worker == [pc : {"idle"} \cup TabPcs \cup HandlerPcs, then : {"none", "retire", "finish"},
           plan : Plans \cup {None}, known : BOOLEAN, token : 0..MaxClaims,
           ses : 0..MaxSessions, cplan : Plans \cup {None}, todo : SUBSET Sessions,
           e : 0..(MaxSessions + MaxEnds), read : MirrorRow]
TypeOK ==
    /\ session \in [Sessions -> SessionRow]
    /\ sub \in [Sessions -> {"none", "live", "ended"}]
    /\ shown \subseteq Sessions /\ cleanup \subseteq Sessions
    /\ claim \in ClaimRow /\ mirror \in MirrorRow
    /\ event \in [Events -> EventRow]
    /\ lock \in Workers \cup {None, Dead}
    /\ me \in [Workers -> Worker]
    /\ upsets \in Nat /\ stalls \in Nat /\ upsets + stalls <= MaxFaults

\* "A crash or a second process can only recover the same session rather than create
\* another customer or subscription" (Checkout): never two at a time, unless a
\* process paused between Renew and the statement it guards.
OneSubscription == stalls = 0 => Cardinality(Live) <= 1

\* A checkout that a customer can still complete is the account's own, or waits to
\* be closed; nobody can pay on a page the account has lost sight of.
ShownIsTracked ==
    \A s \in shown : session[s].state = "open" => claim.ses = s \/ s \in cleanup

\* Events come twice, late, and in any order, and processes die: once every event
\* is handled, the mirror says what Stripe says.
MirrorTrue ==
    stalls = 0 /\ (\A e \in Happened : event[e].state = "done") =>
        mirror.sub = Selected /\ mirror.live = (Live # {})
=============================================================================
