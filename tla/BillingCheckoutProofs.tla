----------------------- MODULE BillingCheckoutProofs -----------------------
(***************************************************************************)
(* Theorems about BillingCheckout for every value of its constants: any     *)
(* number of tabs and handlers, sessions, claims, faults and pauses.        *)
(***************************************************************************)
EXTENDS BillingCheckout, FiniteSetTheorems, WellFoundedInduction, TLAPS

-----------------------------------------------------------------------------
(* The inductive invariants. *)

IsOpen(s) == session[s].state = "open"
Shut(s) == session[s].state \in {"complete", "expired"}
Exists(s) == session[s].state # "none"

\* What Stripe and the rows have at any time: a subscription is a completed
\* session's, and whatever a row or a worker names was created once.
OfClaim == {"inspect", "complete", "retire", "giveUp", "create", "created"}
StripeOK(w) ==
    /\ me[w].ses # 0 => Exists(me[w].ses)
    /\ \A s \in me[w].todo : Exists(s)
    /\ me[w].token <= claim.token
    /\ me[w].pc \in OfClaim \/ (me[w].pc = "verify" /\ me[w].then = "retire") =>
          me[w].token # 0
    /\ me[w].pc \in {"inspect", "verify", "get", "close", "finish", "created", "lateClose",
                     "lateFinish"} => me[w].ses # 0
    /\ me[w].pc = "verify" => me[w].then \in {"retire", "finish"}
StripeRows ==
    /\ \A s \in Sessions : sub[s] # "none" => session[s].state = "complete"
    /\ \A s \in Sessions : session[s].key # 0 => Exists(s)
    /\ \A s \in cleanup : Exists(s)
    /\ claim.ses # 0 => Exists(claim.ses)
    /\ claim.token = 0 => claim.status = "none" /\ claim.ses = 0 /\ ~claim.aged
    /\ claim.status = "open" => claim.ses # 0
StripeInv == StripeRows /\ \A w \in Workers : StripeOK(w)

\* Until a pause: a worker in the middle of its work has the lease of the account.
Leased == {"look", "load", "inspect", "verify", "complete", "retire", "giveUp", "list",
           "clean", "get", "close", "finish", "create", "created", "lateClose",
           "lateFinish", "read", "mirror", "mark"}
LeaseInv == \A w \in Workers : me[w].pc \in Leased => lock = w

\* Until a pause: one page to pay on at most, and none while a subscription runs.
\* Whoever may create a session finds everything closed, or finds the session of
\* its claim; whoever is closing them has those left that are not.
Quiet == Live = {} /\ \A s \in Sessions : ~IsOpen(s)
Ready(k) == OfKey(k) # {} \/ Quiet
Cleaning(w) == \/ me[w].pc \in {"clean", "get", "close", "finish"}
               \/ me[w].pc = "verify" /\ me[w].then = "finish"
Pending(w) == me[w].todo \cup
              {s \in Sessions : me[w].pc \in {"get", "close", "verify"} /\ s = me[w].ses}
Unstarted == claim.status = "creating" /\ ~claim.aged /\ claim.ses = 0
PayOK(w) ==
    /\ me[w].pc \in {"create", "created"} => me[w].token = claim.token
    /\ me[w].pc = "create" => Ready(me[w].token)
    /\ Cleaning(w) => \A s \in Sessions : IsOpen(s) \/ s \in Live => s \in Pending(w)
PayInv ==
    /\ \A s \in Sessions : IsOpen(s) => Live = {} /\ \A x \in Sessions : IsOpen(x) => x = s
    /\ \A s, x \in Live : s = x
    /\ Unstarted => Ready(claim.token)
    /\ \A w \in Workers : PayOK(w)

\* At any time: a page is the claim's or waits in the cleanup table.
Tracked(s) == IsOpen(s) => claim.ses = s \/ s \in cleanup
Gone(s) == s = 0 \/ s \in cleanup \/ Shut(s)
Past(w) == \/ me[w].pc \in {"inspect", "complete", "retire", "giveUp"}
           \/ me[w].pc = "verify" /\ me[w].then = "retire"
Starting(w) == me[w].pc \in {"create", "created"} /\ Holds(w) /\ me[w].token = claim.token
TrackOK(w) ==
    /\ Past(w) /\ me[w].token = claim.token => me[w].ses = claim.ses /\ ~Unstarted
    /\ me[w].pc = "giveUp" => Gone(me[w].ses)
    /\ me[w].pc \in {"verify", "finish", "lateFinish"} => Shut(me[w].ses)
    /\ me[w].pc = "inspect" => Tracked(me[w].ses)
    /\ Starting(w) => claim.ses = 0 /\ claim.status \in {"creating", "complete"}
Alone(w) == \A v \in Workers : me[v].token = claim.token => ~Past(v)
TrackInv ==
    /\ \A s \in shown : Exists(s) /\ Tracked(s)
    /\ claim.status \in {"none", "expired"} => Gone(claim.ses)
    /\ \A w \in Workers : TrackOK(w) /\ (Starting(w) => Alone(w))

\* Until a pause: the mirror is what Stripe says once the last event is handled.
Last == Cardinality(Happened)
Matches(r) == r.sub = Selected /\ r.live = (Live # {})
Handled == \/ Last = 0 \/ event[Last].state = "done"
           \/ \E h \in Workers : me[h].e = Last /\ me[h].pc \in {"mark", "done"}
Paid == {s \in Sessions : sub[s] # "none"}
Ended == {s \in Sessions : sub[s] = "ended"}
EventInv ==
    /\ Happened = 1..Last
    /\ Last = Cardinality(Paid) + Cardinality(Ended)
    /\ Cardinality(Ended) <= MaxEnds
    /\ \A e \in Events : event[e].kind = "none" => event[e].state = "none"
    /\ \A w \in Workers : me[w].e <= Last
MirrorInv ==
    /\ Handled => Matches(mirror)
    /\ \A w \in Workers : me[w].pc = "mirror" =>
          /\ Handled \/ me[w].e = Last => Matches(me[w].read)
          /\ me[w].read.mark >= mirror.mark

Calm == stalls = 0

-----------------------------------------------------------------------------
(* What a step does to the worker that takes it. *)

Pcs == {"idle"} \cup TabPcs \cup HandlerPcs

\* A worker n that was o before, with these fields.
Like(n, o, pc, then, token, ses, todo) ==
    /\ n \in Worker
    /\ n.pc = pc /\ n.then = then /\ n.token = token /\ n.ses = ses /\ n.todo = todo
    /\ n.e = o.e /\ n.read = o.read

\* Only w moves.  It ends, and gives its lease back if it still has it; or it goes on.
Turn(w) == me' \in [Workers -> Worker] /\ \A v \in Workers \ {w} : me'[v] = me[v]
Ends(w) == Turn(w) /\ me'[w] = Idle /\ lock' = (IF lock = w THEN None ELSE lock)
Now(w, pc, then, token, ses, todo) ==
    /\ Turn(w) /\ lock' = lock
    /\ Like(me'[w], me[w], pc, then, token, ses, todo)
Goes(w, pc) == Now(w, pc, me[w].then, me[w].token, me[w].ses, me[w].todo)

LEMMA IdleIs ==
    /\ Idle \in Worker
    /\ Idle.pc = "idle" /\ Idle.then = "none" /\ Idle.token = 0 /\ Idle.ses = 0
    /\ Idle.todo = {} /\ Idle.e = 0
BY CheckoutAssumption DEF Idle, Worker, NoMirror, MirrorRow

LEMMA Turns ==
    ASSUME TypeOK, NEW w \in Workers, NEW n \in Worker, me' = [me EXCEPT ![w] = n]
    PROVE  Turn(w) /\ me'[w] = n
BY DEF TypeOK, Turn

LEMMA Moves ==
    ASSUME TypeOK, NEW w \in Workers, NEW n, me' = [me EXCEPT ![w] = n], lock' = lock,
           NEW pc, NEW then, NEW token, NEW ses, NEW todo,
           Like(n, me[w], pc, then, token, ses, todo)
    PROVE  Now(w, pc, then, token, ses, todo)
BY Turns DEF Now, Like

\* The fields of a worker that are written together.
LEMMA OnIs ==
    ASSUME NEW o \in Worker, NEW pc \in Pcs
    PROVE  Like([o EXCEPT !.pc = pc], o, pc, o.then, o.token, o.ses, o.todo)
BY DEF Worker, Pcs, Like

LEMMA OnSesIs ==
    ASSUME NEW o \in Worker, NEW pc \in Pcs, NEW s \in 0..MaxSessions
    PROVE  Like([o EXCEPT !.pc = pc, !.ses = s], o, pc, o.then, o.token, s, o.todo)
BY DEF Worker, Pcs, Like

LEMMA OnNextIs ==
    ASSUME NEW o \in Worker, NEW pc \in Pcs, NEW s \in 0..MaxSessions,
           NEW T \in SUBSET Sessions
    PROVE  Like([o EXCEPT !.pc = pc, !.ses = s, !.todo = T],
                o, pc, o.then, o.token, s, T)
BY DEF Worker, Pcs, Like

LEMMA OnTodoIs ==
    ASSUME NEW o \in Worker, NEW pc \in Pcs, NEW T \in SUBSET Sessions
    PROVE  Like([o EXCEPT !.pc = pc, !.todo = T], o, pc, o.then, o.token, o.ses, T)
BY DEF Worker, Pcs, Like

LEMMA OnThenIs ==
    ASSUME NEW o \in Worker, NEW pc \in Pcs, NEW x \in {"retire", "finish"}
    PROVE  Like([o EXCEPT !.pc = pc, !.then = x], o, pc, x, o.token, o.ses, o.todo)
BY DEF Worker, Pcs, Like

LEMMA OnKnownIs ==
    ASSUME NEW o \in Worker, NEW pc \in Pcs, NEW b \in BOOLEAN
    PROVE  Like([o EXCEPT !.pc = pc, !.known = b],
                o, pc, o.then, o.token, o.ses, o.todo)
BY DEF Worker, Pcs, Like

LEMMA OnClaimIs ==
    ASSUME NEW o \in Worker, NEW pc \in Pcs, NEW k \in 0..MaxClaims,
           NEW s \in 0..MaxSessions, NEW p \in Plans \cup {None}
    PROVE  Like([o EXCEPT !.pc = pc, !.token = k, !.ses = s, !.cplan = p],
                o, pc, o.then, k, s, o.todo)
BY DEF Worker, Pcs, Like

LEMMA Returns ==
    ASSUME TypeOK, NEW w \in Workers, Return(w)
    PROVE  Ends(w)
BY IdleIs, Turns DEF Return, Release, Holds, Ends

LEMMA GoesOn ==
    ASSUME TypeOK, NEW w \in Workers, NEW pc \in Pcs, Goto(w, pc), lock' = lock
    PROVE  Goes(w, pc)
<1>1. me[w] \in Worker
  BY DEF TypeOK
<1>2. me' = [me EXCEPT ![w] = [me[w] EXCEPT !.pc = pc]]
  BY DEF Goto
<1> DEFINE n == [me[w] EXCEPT !.pc = pc]
<1>3. Like(n, me[w], pc, me[w].then, me[w].token, me[w].ses, me[w].todo)
  BY <1>1, OnIs
<1>4. me' = [me EXCEPT ![w] = n]
  BY <1>2
<1> HIDE DEF n
<1> QED BY <1>3, <1>4, Moves DEF Goes

LEMMA Renews ==
    ASSUME TypeOK, NEW w \in Workers, NEW pc \in Pcs, Renewed(w, On(w, pc))
    PROVE  Ends(w) \/ (lock = w /\ Goes(w, pc))
<1>1. me[w] \in Worker
  BY DEF TypeOK
<1>2. CASE Return(w)
  BY <1>2, Returns
<1>3. CASE lock = w /\ me' = [me EXCEPT ![w] = [me[w] EXCEPT !.pc = pc]] /\ lock' = lock
  <2> DEFINE n == [me[w] EXCEPT !.pc = pc]
  <2>1. Like(n, me[w], pc, me[w].then, me[w].token, me[w].ses, me[w].todo)
    BY <1>1, OnIs
  <2>2. me' = [me EXCEPT ![w] = n]
    BY <1>3
  <2> HIDE DEF n
  <2> QED BY <1>3, <2>1, <2>2, Moves DEF Goes
<1> QED BY <1>2, <1>3 DEF Renewed, Holds, On

-----------------------------------------------------------------------------
(* What each step of a tab does. *)

Keeps == UNCHANGED <<sub, mirror, event, upsets, stalls>>
Still == Keeps /\ UNCHANGED <<session, shown, claim, cleanup>>
ClaimTo(status) ==
    /\ claim' \in ClaimRow /\ claim'.status = status
    /\ claim'.token = claim.token /\ claim'.ses = claim.ses /\ claim'.aged = claim.aged
Closes(s) ==
    /\ session' \in [Sessions -> SessionRow]
    /\ \A x \in Sessions : session'[x].key = session[x].key
    /\ \A x \in Sessions \ {s} : session'[x] = session[x]
    /\ session'[s].state = IF IsOpen(s) THEN "expired" ELSE session[s].state

LEMMA IsWorker == ASSUME TypeOK, NEW w \in Workers PROVE me[w] \in Worker
BY DEF TypeOK

LEMMA NotZero == ASSUME NEW s \in 0..MaxSessions, s # 0 PROVE s \in Sessions
BY CheckoutAssumption DEF Sessions

\* The session a worker has in hand was created.
LEMMA HasSes ==
    ASSUME TypeOK, StripeInv, NEW w \in Workers,
           \/ me[w].ses # 0
           \/ me[w].pc \in {"inspect", "verify", "get", "close", "finish", "created",
                           "lateClose", "lateFinish"}
    PROVE  me[w].ses \in Sessions /\ Exists(me[w].ses) /\ session[me[w].ses].state # "none"
<1>1. me[w].ses \in 0..MaxSessions
  BY IsWorker DEF Worker
<1>2. StripeOK(w)
  BY DEF StripeInv
<1>3. me[w].ses # 0
  BY <1>2 DEF StripeOK
<1>4. me[w].ses \in Sessions
  BY <1>1, <1>3, NotZero
<1>5. Exists(me[w].ses)
  BY <1>2, <1>3 DEF StripeOK
<1> QED BY <1>4, <1>5 DEF Exists

LEMMA MarkedIs ==
    ASSUME TypeOK, NEW status \in {"complete", "expired"},
           claim' = [claim EXCEPT !.status = status]
    PROVE  ClaimTo(status)
<1>1. claim \in ClaimRow
  BY DEF TypeOK
<1> QED BY <1>1 DEF ClaimRow, ClaimTo

LEMMA CloseIs ==
    ASSUME TypeOK, NEW s \in Sessions, Close(s)
    PROVE  Closes(s)
<1>1. session \in [Sessions -> SessionRow]
  BY DEF TypeOK
<1>2. CASE ~IsOpen(s)
  BY <1>1, <1>2 DEF Close, Closes, IsOpen
<1>3. CASE IsOpen(s)
  <2> DEFINE n == [session[s] EXCEPT !.state = "expired"]
  <2>1. n \in SessionRow /\ n.state = "expired" /\ n.key = session[s].key
    BY <1>1 DEF SessionRow
  <2>2. session' = [session EXCEPT ![s] = n]
    BY <1>3 DEF Close, IsOpen
  <2> HIDE DEF n
  <2> QED BY <1>1, <1>3, <2>1, <2>2 DEF Closes
<1> QED BY <1>2, <1>3

LEMMA VisitDoes ==
    ASSUME TypeOK, NEW t \in Tabs, NEW p \in Plans, Visit(t, p)
    PROVE  /\ Still /\ lock = None /\ lock' = t /\ me[t] = Idle
           /\ Turn(t) /\ Like(me'[t], Idle, "look", "none", 0, 0, {})
<1>1. t \in Workers
  BY DEF Workers
<1> DEFINE n == [Idle EXCEPT !.pc = "look", !.plan = p]
<1>2. Like(n, Idle, "look", "none", 0, 0, {})
  BY IdleIs DEF Idle, Worker, TabPcs, Like, NoMirror, MirrorRow
<1>3. me' = [me EXCEPT ![t] = n]
  BY DEF Visit
<1> HIDE DEF n
<1>4. Turn(t) /\ me'[t] = n
  BY <1>1, <1>2, <1>3, Turns DEF Like
<1> QED BY <1>2, <1>4 DEF Visit, Still, Keeps, stripe, rows, bounds

LEMMA LookDoes ==
    ASSUME TypeOK, NEW t \in Tabs, Look(t)
    PROVE  /\ Still /\ me[t].pc = "look"
           /\ Ends(t) \/ Goes(t, "load")
<1>1. t \in Workers /\ me[t] \in Worker
  BY IsWorker DEF Workers
<1>2. Still /\ me[t].pc = "look"
  BY DEF Look, At, Still, Keeps, stripe, rows, bounds
<1>3. CASE Return(t)
  BY <1>1, <1>2, <1>3, Returns
<1>4. CASE me' = [me EXCEPT ![t].pc = "load", ![t].known = mirror.known] /\ lock' = lock
  <2> DEFINE n == [me[t] EXCEPT !.pc = "load", !.known = mirror.known]
  <2>1. mirror.known \in BOOLEAN
    BY DEF TypeOK, MirrorRow
  <2>2. Like(n, me[t], "load", me[t].then, me[t].token, me[t].ses, me[t].todo)
    BY <1>1, <2>1, OnKnownIs, Zenon DEF Pcs, TabPcs
  <2>3. me' = [me EXCEPT ![t] = n]
    BY <1>1, <1>4 DEF TypeOK
  <2> HIDE DEF n
  <2> QED BY <1>1, <1>2, <1>4, <2>2, <2>3, Moves DEF Goes
<1> QED BY <1>3, <1>4 DEF Look

\* A worker that reads the claim, and what it makes of it.
Reads(t, pc) == Now(t, pc, me[t].then, claim.token, claim.ses, me[t].todo)
LEMMA LoadDoes ==
    ASSUME TypeOK, NEW t \in Tabs, Load(t)
    PROVE  /\ Still /\ me[t].pc = "load"
           /\ \/ Ends(t)
              \/ Reads(t, "list") /\ claim.status \in {"none", "expired"}
              \/ Reads(t, "inspect") /\ claim.ses # 0
              \/ Reads(t, "retire") /\ lock = t /\ (claim.status = "complete" \/ claim.aged)
              \/ /\ Reads(t, "create") /\ lock = t /\ claim.ses = 0 /\ ~claim.aged
                 /\ claim.status \notin {"none", "expired", "complete"}
<1>1. t \in Workers /\ me[t] \in Worker
  BY IsWorker DEF Workers
<1>2. Still /\ me[t].pc = "load"
  BY DEF Load, At, Still, Keeps, stripe, rows, bounds
<1> DEFINE pc == NextFor(t)
           n == [me[t] EXCEPT !.pc = pc, !.token = claim.token, !.ses = claim.ses,
                              !.cplan = claim.plan]
<1>3. /\ \/ pc = "list" /\ claim.status \in {"none", "expired"}
         \/ pc = "inspect" /\ claim.ses # 0
         \/ pc = "blocked"
         \/ pc = "retire" /\ (claim.status = "complete" \/ claim.aged)
         \/ /\ pc = "create" /\ claim.ses = 0 /\ ~claim.aged
            /\ claim.status \notin {"none", "expired", "complete"}
  BY DEF NextFor
<1>4. CASE Return(t)
  BY <1>1, <1>2, <1>4, Returns
<1>5. CASE /\ pc \in {"list", "inspect"} \/ (lock = t /\ pc # "blocked")
           /\ me' = [me EXCEPT ![t] = n] /\ lock' = lock
  <2>1. pc \in Pcs
    BY <1>3, <1>5 DEF Pcs, TabPcs
  <2>2. /\ claim.token \in 0..MaxClaims /\ claim.ses \in 0..MaxSessions
        /\ claim.plan \in Plans \cup {None}
    BY DEF TypeOK, ClaimRow
  <2> HIDE DEF pc
  <2>3. Like(n, me[t], pc, me[t].then, claim.token, claim.ses, me[t].todo)
    BY <1>1, <2>1, <2>2, OnClaimIs, Zenon
  <2> HIDE DEF n
  <2>4. Reads(t, pc)
    BY <1>1, <1>5, <2>3, Moves DEF Reads
  <2> QED BY <1>2, <1>3, <1>5, <2>4
<1>6. n.pc = pc
  BY <1>1 DEF Worker
<1>7. \/ n.pc \in {"list", "inspect"} /\ me' = [me EXCEPT ![t] = n] /\ lock' = lock
      \/ Return(t)
      \/ n.pc # "blocked" /\ Renewed(t, n)
  BY DEF Load
<1> HIDE DEF n
<1> QED BY <1>4, <1>5, <1>6, <1>7 DEF Renewed, Holds

LEMMA InspectDoes ==
    ASSUME TypeOK, StripeInv, NEW t \in Tabs, Inspect(t)
    PROVE  LET s == me[t].ses
               st == session[s].state
           IN  /\ Keeps /\ UNCHANGED <<session, claim, cleanup>>
               /\ me[t].pc = "inspect" /\ s \in Sessions /\ st # "none"
               /\ \/ IsOpen(s) /\ shown' = shown \cup {s} /\ Ends(t)
                  \/ shown' = shown /\ Ends(t)
                  \/ shown' = shown /\ lock = t /\ Goes(t, "complete")
                  \/ /\ shown' = shown /\ st = "complete"
                     /\ Now(t, "verify", "retire", me[t].token, s, me[t].todo)
                  \/ shown' = shown /\ lock = t /\ Goes(t, "retire")
<1>1. t \in Workers /\ me[t] \in Worker
  BY IsWorker DEF Workers
<1> DEFINE s == me[t].ses
           st == session[s].state
<1>2. Keeps /\ UNCHANGED <<session, claim, cleanup>> /\ me[t].pc = "inspect"
  BY DEF Inspect, At, Keeps, stripe, rows, bounds
<1>3. s \in Sessions /\ st # "none"
  BY <1>1, <1>2, HasSes
<1>4. CASE IsOpen(s) /\ shown' = shown \cup {s} /\ Return(t)
  BY <1>1, <1>2, <1>3, <1>4, Returns
<1>5. CASE shown' = shown /\ Renewed(t, On(t, "complete"))
  BY <1>1, <1>2, <1>3, <1>5, Renews DEF Pcs, TabPcs
<1>6. CASE shown' = shown /\ Renewed(t, On(t, "retire"))
  BY <1>1, <1>2, <1>3, <1>6, Renews DEF Pcs, TabPcs
<1>7. CASE /\ st = "complete" /\ shown' = shown /\ lock' = lock
           /\ me' = [me EXCEPT ![t].pc = "verify", ![t].then = "retire"]
  <2> DEFINE n == [me[t] EXCEPT !.pc = "verify", !.then = "retire"]
  <2>1. Like(n, me[t], "verify", "retire", me[t].token, me[t].ses, me[t].todo)
    BY <1>1, OnThenIs, Zenon DEF Pcs, TabPcs
  <2>2. me' = [me EXCEPT ![t] = n]
    BY <1>1, <1>7 DEF TypeOK
  <2> HIDE DEF n
  <2>3. Now(t, "verify", "retire", me[t].token, s, me[t].todo)
    BY <1>1, <1>7, <2>1, <2>2, Moves
  <2> QED BY <1>2, <1>3, <1>7, <2>3
<1> QED BY <1>4, <1>5, <1>6, <1>7 DEF Inspect, IsOpen

LEMMA VerifyDoes ==
    ASSUME TypeOK, StripeInv, NEW t \in Tabs, Verify(t)
    PROVE  /\ Still /\ me[t].pc = "verify"
           /\ Ends(t) \/ (Live = {} /\ lock = t /\ Goes(t, me[t].then))
<1>1. t \in Workers
  BY DEF Workers
<1>2. Still /\ me[t].pc = "verify"
  BY DEF Verify, At, Still, Keeps, stripe, rows, bounds
<1>3. me[t].then \in Pcs
  BY <1>1, <1>2 DEF StripeInv, StripeOK, Pcs, TabPcs
<1> QED BY <1>1, <1>2, <1>3, Returns, Renews DEF Verify

LEMMA MarkCompleteDoes ==
    ASSUME TypeOK, NEW t \in Tabs, MarkComplete(t)
    PROVE  /\ Keeps /\ UNCHANGED <<session, shown, cleanup>> /\ me[t].pc = "complete"
           /\ Ends(t)
           /\ claim' = claim \/ (claim.token = me[t].token /\ ClaimTo("complete"))
BY Returns, MarkedIs DEF MarkComplete, Marked, At, Workers, Keeps, stripe, bounds

LEMMA RetireDoes ==
    ASSUME TypeOK, NEW t \in Tabs, Retire(t)
    PROVE  /\ Keeps /\ UNCHANGED <<session, shown, claim>> /\ me[t].pc = "retire"
           /\ cleanup' = Queued(t)
           /\ Ends(t) \/ (lock = t /\ Goes(t, "giveUp"))
<1>1. t \in Workers /\ "giveUp" \in Pcs
  BY DEF Workers, Pcs, TabPcs
<1> QED BY <1>1, Renews DEF Retire, At, Keeps, stripe, bounds

LEMMA GiveUpDoes ==
    ASSUME TypeOK, NEW t \in Tabs, GiveUp(t)
    PROVE  /\ Keeps /\ UNCHANGED <<session, shown, cleanup>> /\ me[t].pc = "giveUp"
           /\ \/ claim.token = me[t].token /\ ClaimTo("expired") /\ Goes(t, "list")
              \/ claim' = claim /\ Ends(t)
<1>1. t \in Workers /\ "list" \in Pcs
  BY DEF Workers, Pcs, TabPcs
<1>2. /\ Keeps /\ UNCHANGED <<session, shown, cleanup>> /\ me[t].pc = "giveUp"
      /\ claim' = Marked(t, "expired")
  BY DEF GiveUp, At, Keeps, stripe, bounds
<1>3. CASE claim.token = me[t].token
  BY <1>1, <1>2, <1>3, MarkedIs, GoesOn DEF GiveUp, Marked
<1>4. CASE claim.token # me[t].token
  BY <1>1, <1>2, <1>4, Returns DEF GiveUp, Marked
<1> QED BY <1>3, <1>4

LEMMA ListDoes ==
    ASSUME TypeOK, NEW t \in Tabs, List(t)
    PROVE  /\ Still /\ me[t].pc = "list"
           /\ \/ Ends(t)
              \/ lock = t /\ Now(t, "clean", me[t].then, me[t].token, me[t].ses, Known)
<1>1. t \in Workers /\ me[t] \in Worker
  BY IsWorker DEF Workers
<1>2. Still /\ me[t].pc = "list"
  BY DEF List, At, Still, Keeps, stripe, rows, bounds
<1> DEFINE n == [me[t] EXCEPT !.pc = "clean", !.todo = Known]
<1>3. Known \in SUBSET Sessions
  BY DEF Known, TypeOK
<1>4. Like(n, me[t], "clean", me[t].then, me[t].token, me[t].ses, Known)
  BY <1>1, <1>3, OnTodoIs, Zenon DEF Pcs, TabPcs
<1>5. Renewed(t, n)
  BY DEF List
<1> HIDE DEF n
<1>6. CASE Return(t)
  BY <1>1, <1>2, <1>6, Returns
<1>7. CASE lock = t /\ me' = [me EXCEPT ![t] = n] /\ lock' = lock
  BY <1>1, <1>2, <1>4, <1>7, Moves
<1> QED BY <1>5, <1>6, <1>7 DEF Renewed, Holds

LEMMA CleanDoes ==
    ASSUME TypeOK, NEW t \in Tabs, Clean(t)
    PROVE  /\ Keeps /\ UNCHANGED <<session, shown, claim>> /\ me[t].pc = "clean"
           /\ \E s \in me[t].todo :
                 /\ s \in Sessions /\ cleanup' = cleanup \cup {s}
                 /\ Now(t, "get", me[t].then, me[t].token, s, me[t].todo \ {s})
<1>1. t \in Workers /\ me[t] \in Worker /\ me[t].todo \in SUBSET Sessions
  BY IsWorker DEF Workers, Worker
<1>2. Keeps /\ UNCHANGED <<session, shown, claim, lock>> /\ me[t].pc = "clean"
  BY DEF Clean, At, Keeps, stripe, bounds
<1>3. PICK s \in me[t].todo :
         /\ cleanup' = cleanup \cup {s}
         /\ me' = [me EXCEPT ![t].pc = "get", ![t].ses = s, ![t].todo = @ \ {s}]
  BY Zenon DEF Clean
<1> DEFINE T == me[t].todo \ {s}
           n == [me[t] EXCEPT !.pc = "get", !.ses = s, !.todo = T]
<1>4. s \in 0..MaxSessions /\ s \in Sessions /\ T \in SUBSET Sessions
  BY <1>1, CheckoutAssumption DEF Sessions
<1>5. Like(n, me[t], "get", me[t].then, me[t].token, s, T)
  BY <1>1, <1>4, OnNextIs, Zenon DEF Pcs, TabPcs
<1>6. me' = [me EXCEPT ![t] = n]
  BY <1>1, <1>3 DEF TypeOK
<1> HIDE DEF n
<1>7. Now(t, "get", me[t].then, me[t].token, s, T)
  BY <1>1, <1>2, <1>5, <1>6, Moves
<1> QED BY <1>2, <1>3, <1>4, <1>7

LEMMA GetDoes ==
    ASSUME TypeOK, StripeInv, NEW t \in Tabs, Get(t)
    PROVE  LET st == session[me[t].ses].state
           IN  /\ Still /\ me[t].pc = "get" /\ me[t].ses \in Sessions
               /\ \/ Ends(t)
                  \/ /\ st = "complete"
                     /\ Now(t, "verify", "finish", me[t].token, me[t].ses, me[t].todo)
                  \/ IsOpen(me[t].ses) /\ lock = t /\ Goes(t, "close")
                  \/ st \notin {"complete", "open"} /\ lock = t /\ Goes(t, "finish")
<1>1. t \in Workers /\ me[t] \in Worker
  BY IsWorker DEF Workers
<1> DEFINE st == session[me[t].ses].state
<1>2. Still /\ me[t].pc = "get"
  BY DEF Get, At, Still, Keeps, stripe, rows, bounds
<1>3. me[t].ses \in Sessions
  BY <1>1, <1>2, HasSes
<1>4. CASE Return(t)
  BY <1>1, <1>2, <1>3, <1>4, Returns
<1>5. CASE IsOpen(me[t].ses) /\ Renewed(t, On(t, "close"))
  BY <1>1, <1>2, <1>3, <1>5, Renews DEF Pcs, TabPcs
<1>6. CASE st \notin {"complete", "open"} /\ Renewed(t, On(t, "finish"))
  BY <1>1, <1>2, <1>3, <1>6, Renews DEF Pcs, TabPcs
<1>7. CASE /\ st = "complete" /\ lock' = lock
           /\ me' = [me EXCEPT ![t].pc = "verify", ![t].then = "finish"]
  <2> DEFINE n == [me[t] EXCEPT !.pc = "verify", !.then = "finish"]
  <2>1. Like(n, me[t], "verify", "finish", me[t].token, me[t].ses, me[t].todo)
    BY <1>1, OnThenIs, Zenon DEF Pcs, TabPcs
  <2>2. me' = [me EXCEPT ![t] = n]
    BY <1>1, <1>7 DEF TypeOK
  <2> HIDE DEF n
  <2>3. Now(t, "verify", "finish", me[t].token, me[t].ses, me[t].todo)
    BY <1>1, <1>7, <2>1, <2>2, Moves
  <2> QED BY <1>2, <1>3, <1>7, <2>3
<1>8. me[t].known \in BOOLEAN
  BY <1>1 DEF Worker
<1> QED BY <1>4, <1>5, <1>6, <1>7, <1>8 DEF Get, Blocks, IsOpen

LEMMA CloseOpenDoes ==
    ASSUME TypeOK, StripeInv, NEW t \in Tabs, CloseOpen(t)
    PROVE  /\ Keeps /\ UNCHANGED <<shown, claim, cleanup>> /\ me[t].pc = "close"
           /\ me[t].ses \in Sessions /\ Closes(me[t].ses)
           /\ \/ Ends(t)
              \/ session[me[t].ses].state # "complete" /\ lock = t /\ Goes(t, "finish")
<1>1. t \in Workers /\ "finish" \in Pcs
  BY DEF Workers, Pcs, TabPcs
<1>2. /\ Keeps /\ UNCHANGED <<shown, claim, cleanup>> /\ me[t].pc = "close"
      /\ Close(me[t].ses)
  BY DEF CloseOpen, At, Keeps, rows, bounds
<1>3. me[t].ses \in Sessions
  BY <1>1, <1>2, HasSes
<1>4. Closes(me[t].ses)
  BY <1>2, <1>3, CloseIs
<1> QED BY <1>1, <1>2, <1>3, <1>4, Returns, Renews DEF CloseOpen

LEMMA FinishCleanupDoes ==
    ASSUME TypeOK, NEW t \in Tabs, FinishCleanup(t)
    PROVE  /\ Keeps /\ UNCHANGED <<session, shown, claim>> /\ me[t].pc = "finish"
           /\ cleanup' = cleanup \ {me[t].ses}
           /\ Ends(t) \/ (lock = t /\ Goes(t, "clean"))
<1>1. t \in Workers /\ "clean" \in Pcs
  BY DEF Workers, Pcs, TabPcs
<1> QED BY <1>1, Renews DEF FinishCleanup, At, Keeps, stripe, bounds

\* The row of a new claim.
Claims ==
    /\ claim' \in ClaimRow /\ claim'.status = "creating" /\ claim'.ses = 0 /\ ~claim'.aged
    /\ claim'.token = claim.token + 1
LEMMA NewClaimDoes ==
    ASSUME TypeOK, NEW t \in Tabs, NewClaim(t)
    PROVE  /\ Keeps /\ UNCHANGED <<session, shown, cleanup>> /\ me[t].pc = "clean"
           /\ me[t].todo = {}
           /\ \/ claim' = claim /\ Ends(t)
              \/ claim.status \in {"none", "expired"} /\ Claims /\ Ends(t)
              \/ /\ claim.status \in {"none", "expired"} /\ Claims /\ lock = t
                 /\ Now(t, "create", me[t].then, claim.token + 1, 0, me[t].todo)
<1>1. t \in Workers /\ me[t] \in Worker /\ me[t].plan \in Plans \cup {None}
  BY IsWorker DEF Workers, Worker
<1>2. /\ Keeps /\ UNCHANGED <<session, shown, cleanup>> /\ me[t].pc = "clean"
      /\ me[t].todo = {}
  BY DEF NewClaim, At, Keeps, stripe, bounds
<1>3. CASE claim' = claim /\ Return(t)
  BY <1>1, <1>2, <1>3, Returns
<1>4. CASE /\ claim.status \in {"none", "expired"} /\ claim.token < MaxClaims
           /\ claim' = [NoClaim EXCEPT !.status = "creating", !.token = claim.token + 1,
                                        !.plan = me[t].plan]
           /\ Renewed(t, [me[t] EXCEPT !.pc = "create", !.token = claim'.token, !.ses = 0,
                                        !.cplan = me[t].plan])
  <2>1. claim.token \in 0..MaxClaims
    BY DEF TypeOK, ClaimRow
  <2>2. claim.token + 1 \in 0..MaxClaims /\ 0 \in 0..MaxSessions
    BY <1>4, <2>1, CheckoutAssumption
  <2>3. Claims
    BY <1>1, <1>4, <2>2 DEF Claims, NoClaim, ClaimRow
  <2> DEFINE n == [me[t] EXCEPT !.pc = "create", !.token = claim.token + 1, !.ses = 0,
                                !.cplan = me[t].plan]
  <2>4. Like(n, me[t], "create", me[t].then, claim.token + 1, 0, me[t].todo)
    BY <1>1, <2>2, OnClaimIs, Zenon DEF Pcs, TabPcs
  <2>5. Renewed(t, n)
    BY <1>4, <2>3 DEF Claims
  <2> HIDE DEF n
  <2>6. CASE Return(t)
    BY <1>1, <1>2, <1>4, <2>3, <2>6, Returns
  <2>7. CASE lock = t /\ me' = [me EXCEPT ![t] = n] /\ lock' = lock
    BY <1>1, <1>2, <1>4, <2>3, <2>4, <2>7, Moves
  <2> QED BY <2>5, <2>6, <2>7 DEF Renewed, Holds
<1> QED BY <1>3, <1>4 DEF NewClaim

LEMMA Least ==
    ASSUME NEW S \in SUBSET Nat, S # {}
    PROVE  Min(S) \in S /\ \A j \in S : Min(S) <= j
<1>1. PICK i \in S : \A j \in S : <<j, i>> \notin OpToRel(<, Nat)
  BY NatLessThanWellFounded, WFMin, Zenon
<1>2. \A j \in S : ~(j < i)
  BY <1>1 DEF OpToRel
<1>3. \A j \in S : i =< j
  BY <1>2
<1> QED BY <1>3 DEF Min

LEMMA Greatest ==
    ASSUME NEW N \in Nat, NEW S \in SUBSET (0..N), S # {}
    PROVE  Max(S) \in S /\ \A j \in S : Max(S) >= j
<1> DEFINE D == {N - x : x \in S}
<1>1. D \in SUBSET Nat /\ D # {}
  <2>1. \A x \in S : N - x \in Nat
    OBVIOUS
  <2>2. D \in SUBSET Nat
    BY <2>1
  <2> QED BY <2>2
<1>2. Min(D) \in D /\ \A d \in D : Min(D) <= d
  BY <1>1, Least
<1>3. PICK x \in S : Min(D) = N - x
  BY <1>2
<1>4. ASSUME NEW y \in S PROVE x >= y
  <2>1. N - y \in D
    OBVIOUS
  <2>2. N - x <= N - y
    BY <1>2, <1>3, <2>1
  <2> QED BY <2>2
<1> QED BY <1>4 DEF Max

\* CreateCheckoutSession makes one session at most, with the key it was given.
Creates(s, k) ==
    /\ session' \in [Sessions -> SessionRow]
    /\ session[s].state = "none" /\ session'[s].state = "open" /\ session'[s].key = k
    /\ \A x \in Sessions \ {s} : session'[x] = session[x]
LEMMA CreateDoes ==
    ASSUME TypeOK, NEW t \in Tabs, Create(t)
    PROVE  LET k == me[t].token
           IN  /\ Keeps /\ UNCHANGED <<shown, claim, cleanup>> /\ me[t].pc = "create"
               /\ \/ session' = session /\ Ends(t)
                  \/ /\ session' = session
                     /\ \E s \in OfKey(k) :
                           Now(t, "created", me[t].then, k, s, me[t].todo)
                  \/ /\ OfKey(k) = {}
                     /\ \E s \in Sessions : Creates(s, k) /\
                           Now(t, "created", me[t].then, k, s, me[t].todo)
<1> DEFINE k == me[t].token
<1>1. t \in Workers /\ me[t] \in Worker /\ k \in 0..MaxClaims
  BY IsWorker DEF Workers, Worker
<1>2. Keeps /\ UNCHANGED <<shown, claim, cleanup>> /\ me[t].pc = "create"
  BY DEF Create, At, Keeps, rows, bounds
<1>3. ASSUME NEW s \in Sessions, lock' = lock,
             me' = [me EXCEPT ![t].pc = "created", ![t].ses = s]
      PROVE  Now(t, "created", me[t].then, k, s, me[t].todo)
  <2> DEFINE n == [me[t] EXCEPT !.pc = "created", !.ses = s]
  <2>1. s \in 0..MaxSessions
    BY CheckoutAssumption DEF Sessions
  <2>2. Like(n, me[t], "created", me[t].then, k, s, me[t].todo)
    BY <1>1, <2>1, OnSesIs, Zenon DEF Pcs, TabPcs
  <2>3. me' = [me EXCEPT ![t] = n]
    BY <1>1, <1>3 DEF TypeOK
  <2> HIDE DEF n
  <2> QED BY <1>1, <1>3, <2>2, <2>3, Moves
<1>4. OfKey(k) \in SUBSET Nat /\ Fresh \in SUBSET Nat
  BY DEF OfKey, Fresh, Sessions
<1>5. CASE OfKey(k) # {}
  <2> DEFINE s == Min(OfKey(k))
  <2>1. s \in OfKey(k)
    BY <1>4, <1>5, Least
  <2>2. s \in Sessions
    BY <2>1 DEF OfKey
  <2>3. /\ me' = [me EXCEPT ![t].pc = "created", ![t].ses = s]
        /\ session' = session /\ lock' = lock
    BY <1>5 DEF Create
  <2> HIDE DEF s
  <2>4. Now(t, "created", me[t].then, k, s, me[t].todo)
    BY <1>3, <2>2, <2>3
  <2> QED BY <1>2, <2>1, <2>3, <2>4
<1>6. CASE OfKey(k) = {} /\ Fresh = {}
  BY <1>1, <1>2, <1>6, Returns DEF Create
<1>7. CASE OfKey(k) = {} /\ Fresh # {}
  <2> DEFINE s == Min(Fresh)
             n == [state |-> "open", key |-> k, plan |-> me[t].cplan]
  <2>1. s \in Fresh
    BY <1>4, <1>7, Least
  <2>2. s \in Sessions /\ session[s].state = "none"
    BY <2>1 DEF Fresh
  <2>3. /\ me' = [me EXCEPT ![t].pc = "created", ![t].ses = s] /\ lock' = lock
        /\ session' = [session EXCEPT ![s] = n]
    BY <1>7 DEF Create
  <2>4. n \in SessionRow /\ n.state = "open" /\ n.key = k
    BY <1>1 DEF SessionRow, Worker
  <2> HIDE DEF s, n
  <2>5. session \in [Sessions -> SessionRow]
    BY DEF TypeOK
  <2>6. Creates(s, k)
    BY <2>2, <2>3, <2>4, <2>5 DEF Creates
  <2>7. Now(t, "created", me[t].then, k, s, me[t].todo)
    BY <1>3, <2>2, <2>3
  <2> QED BY <1>2, <1>7, <2>2, <2>6, <2>7
<1> QED BY <1>5, <1>6, <1>7

LEMMA LateDoes ==
    ASSUME TypeOK, NEW t \in Tabs, Late(t)
    PROVE  /\ Keeps /\ UNCHANGED <<session, shown, claim>> /\ me[t].pc = "created"
           /\ lock # t /\ cleanup' = cleanup \cup {me[t].ses}
           /\ Goes(t, "lateClose")
BY GoesOn DEF Late, At, Holds, Workers, Pcs, TabPcs, Keeps, stripe, bounds

LEMMA LateCloseDoes ==
    ASSUME TypeOK, StripeInv, NEW t \in Tabs, LateClose(t)
    PROVE  /\ Keeps /\ UNCHANGED <<shown, claim, cleanup>> /\ me[t].pc = "lateClose"
           /\ me[t].ses \in Sessions /\ Closes(me[t].ses)
           /\ \/ Ends(t)
              \/ session[me[t].ses].state # "complete" /\ Goes(t, "lateFinish")
<1>1. t \in Workers /\ "lateFinish" \in Pcs
  BY DEF Workers, Pcs, TabPcs
<1>2. /\ Keeps /\ UNCHANGED <<shown, claim, cleanup>> /\ me[t].pc = "lateClose"
      /\ Close(me[t].ses)
  BY DEF LateClose, At, Keeps, rows, bounds
<1>3. me[t].ses \in Sessions
  BY <1>1, <1>2, HasSes
<1>4. Closes(me[t].ses)
  BY <1>2, <1>3, CloseIs
<1> QED BY <1>1, <1>2, <1>3, <1>4, Returns, GoesOn DEF LateClose

LEMMA LateFinishDoes ==
    ASSUME TypeOK, NEW t \in Tabs, LateFinish(t)
    PROVE  /\ Keeps /\ UNCHANGED <<session, shown, claim>> /\ me[t].pc = "lateFinish"
           /\ cleanup' = cleanup \ {me[t].ses} /\ Ends(t)
BY Returns DEF LateFinish, At, Workers, Keeps, stripe, bounds

\* SaveCheckoutSession found the claim of this token.
Saves(s) ==
    /\ claim' \in ClaimRow /\ claim'.ses = s /\ claim'.status = "open"
    /\ claim'.token = claim.token
LEMMA SaveDoes ==
    ASSUME TypeOK, StripeInv, NEW t \in Tabs, Save(t)
    PROVE  LET s == me[t].ses
           IN  /\ Keeps /\ UNCHANGED session /\ me[t].pc = "created" /\ s \in Sessions
               /\ lock = t
               /\ \/ /\ claim.token = me[t].token /\ Saves(s) /\ cleanup' = cleanup
                     /\ shown' = shown \cup {s} /\ Ends(t)
                  \/ /\ claim.token = me[t].token /\ Saves(s) /\ cleanup' = cleanup
                     /\ shown' = shown /\ (Ends(t) \/ Goes(t, "retire"))
                  \/ /\ claim.token # me[t].token /\ claim' = claim
                     /\ cleanup' = cleanup \cup {s} /\ shown' = shown
                     /\ Goes(t, "lateClose")
<1> DEFINE s == me[t].ses
<1>1. t \in Workers /\ {"retire", "lateClose"} \subseteq Pcs
  BY DEF Workers, Pcs, TabPcs
<1>2. Keeps /\ UNCHANGED session /\ me[t].pc = "created" /\ lock = t
  BY DEF Save, At, Holds, Keeps, stripe, bounds
<1>3. s \in Sessions /\ s \in 0..MaxSessions
  <2>1. s \in Sessions
    BY <1>1, <1>2, HasSes
  <2>2. me[t] \in Worker
    BY <1>1, IsWorker
  <2> QED BY <2>1, <2>2 DEF Worker
<1>4. CASE claim.token = me[t].token
  <2>1. claim' = [claim EXCEPT !.ses = s, !.status = "open"] /\ claim \in ClaimRow
    BY <1>4 DEF Save, TypeOK
  <2>2. Saves(s)
    BY <1>3, <2>1 DEF Saves, ClaimRow
  <2>3. CASE me[t].cplan = me[t].plan
    BY <1>1, <1>2, <1>3, <1>4, <2>2, <2>3, Returns DEF Save
  <2>4. CASE me[t].cplan # me[t].plan
    BY <1>1, <1>2, <1>3, <1>4, <2>2, <2>4, Renews DEF Save
  <2> QED BY <2>3, <2>4
<1>5. CASE claim.token # me[t].token
  BY <1>1, <1>2, <1>3, <1>5, GoesOn DEF Save
<1> QED BY <1>4, <1>5

-----------------------------------------------------------------------------
(* What each step of a handler does, and what goes wrong. *)

\* A handler is done with the account's lease.
Drops(h, pc) ==
    /\ Turn(h) /\ lock' = (IF lock = h THEN None ELSE lock)
    /\ Like(me'[h], me[h], pc, me[h].then, me[h].token, me[h].ses, me[h].todo)
Rests == UNCHANGED <<session, sub, shown, cleanup, upsets, stalls>>

LEMMA DropsIs ==
    ASSUME TypeOK, NEW h \in Workers, NEW pc \in Pcs, Goto(h, pc), Release(h)
    PROVE  Drops(h, pc)
<1>1. me[h] \in Worker
  BY IsWorker
<1> DEFINE n == [me[h] EXCEPT !.pc = pc]
<1>2. Like(n, me[h], pc, me[h].then, me[h].token, me[h].ses, me[h].todo)
  BY <1>1, OnIs
<1>3. me' = [me EXCEPT ![h] = n]
  BY DEF Goto
<1> HIDE DEF n
<1>4. Turn(h) /\ me'[h] = n
  BY <1>2, <1>3, Turns DEF Like
<1> QED BY <1>2, <1>4 DEF Drops, Release, Holds

LEMMA DeliverDoes ==
    ASSUME TypeOK, NEW h \in Handlers, NEW e \in Events, Deliver(h, e)
    PROVE  /\ Rests /\ UNCHANGED <<claim, mirror, lock>> /\ me[h] = Idle
           /\ event[e].state \in {"due", "processing"}
           /\ event' \in [Events -> EventRow]
           /\ \A x \in Events \ {e} : event'[x] = event[x]
           /\ event'[e].kind = event[e].kind /\ event'[e].state = "processing"
           /\ Turn(h) /\ me'[h].e = e
           /\ \E n \in Worker : /\ me'[h] = n /\ n.pc = "wait"
                 /\ n.then = "none" /\ n.token = 0 /\ n.ses = 0 /\ n.todo = {}
<1>1. h \in Workers /\ event \in [Events -> EventRow]
  BY DEF Workers, TypeOK
<1>2. /\ Rests /\ UNCHANGED <<claim, mirror, lock>> /\ me[h] = Idle
      /\ event[e].state \in {"due", "processing"}
  BY DEF Deliver, Claimable, NewOrFailed, Rests, stripe, rows, bounds
<1> DEFINE n == [Idle EXCEPT !.pc = "wait", !.e = e]
           r == [event[e] EXCEPT !.state = "processing", !.by = h, !.live = TRUE]
<1>3. /\ n \in Worker /\ n.pc = "wait" /\ n.e = e
      /\ n.then = "none" /\ n.token = 0 /\ n.ses = 0 /\ n.todo = {}
  <2>1. e \in 0..(MaxSessions + MaxEnds)
    BY CheckoutAssumption DEF Events
  <2> QED BY <2>1, IdleIs DEF Idle, Worker, HandlerPcs, NoMirror, MirrorRow
<1>4. r \in EventRow /\ r.kind = event[e].kind /\ r.state = "processing"
  BY <1>1 DEF EventRow
<1>5. me' = [me EXCEPT ![h] = n]
  BY DEF Deliver
<1>6. event' = [event EXCEPT ![e] = r]
  BY <1>1 DEF Deliver
<1> HIDE DEF n, r
<1>7. Turn(h) /\ me'[h] = n
  BY <1>1, <1>3, <1>5, Turns
<1>8. /\ event' \in [Events -> EventRow] /\ event'[e] = r
      /\ \A x \in Events \ {e} : event'[x] = event[x]
  BY <1>1, <1>4, <1>6
<1> QED BY <1>2, <1>3, <1>4, <1>7, <1>8

LEMMA AcquireDoes ==
    ASSUME TypeOK, NEW h \in Handlers, Acquire(h)
    PROVE  /\ Rests /\ UNCHANGED <<claim, mirror, event>> /\ me[h].pc = "wait"
           /\ lock = None /\ lock' = h /\ Turn(h)
           /\ Like(me'[h], me[h], "read", me[h].then, me[h].token, me[h].ses, me[h].todo)
<1>1. h \in Workers /\ me[h] \in Worker
  BY IsWorker DEF Workers
<1> DEFINE n == [me[h] EXCEPT !.pc = "read"]
<1>2. Like(n, me[h], "read", me[h].then, me[h].token, me[h].ses, me[h].todo)
  BY <1>1, OnIs DEF Pcs, HandlerPcs
<1>3. me' = [me EXCEPT ![h] = n]
  BY DEF Acquire, Goto
<1> HIDE DEF n
<1>4. Turn(h) /\ me'[h] = n
  BY <1>1, <1>2, <1>3, Turns DEF Like
<1> QED BY <1>2, <1>4 DEF Acquire, At, Rests, stripe, rows, bounds

LEMMA SelectedIs == ASSUME TypeOK PROVE Selected \in 0..MaxSessions
<1>1. /\ MaxSessions \in Nat /\ Live \in SUBSET (0..MaxSessions)
      /\ ({0} \cup {s \in Sessions : sub[s] = "ended"}) \in SUBSET (0..MaxSessions)
  BY CheckoutAssumption DEF Live, Sessions
<1>2. Live # {} => Max(Live) \in Live
  BY <1>1, Greatest
<1> DEFINE E == {0} \cup {s \in Sessions : sub[s] = "ended"}
<1>3. Max(E) \in E
  <2>1. E # {} /\ E \in SUBSET (0..MaxSessions)
    BY <1>1
  <2> HIDE DEF E
  <2> QED BY <1>1, <2>1, Greatest
<1> QED BY <1>1, <1>2, <1>3 DEF Selected

\* The state of Stripe as it is read.
LEMMA TruthIs ==
    ASSUME TypeOK, NEW e \in 0..(MaxSessions + MaxEnds)
    PROVE  /\ Truth(e) \in MirrorRow /\ Matches(Truth(e))
           /\ Truth(e).mark >= mirror.mark
<1> DEFINE N == MaxSessions + MaxEnds
           m == Max({mirror.mark, e})
<1>1. N \in Nat /\ mirror.mark \in 0..N
  BY CheckoutAssumption DEF TypeOK, MirrorRow
<1>2. {mirror.mark, e} \in SUBSET (0..N) /\ {mirror.mark, e} # {}
  BY <1>1
<1>3. m \in {mirror.mark, e} /\ m >= mirror.mark
  <2> HIDE DEF N
  <2> QED BY <1>1, <1>2, Greatest
<1>4. m \in 0..N
  BY <1>1, <1>3
<1>5. Truth(e) = [known |-> TRUE, sub |-> Selected, live |-> Live # {}, mark |-> m]
  BY DEF Truth
<1> HIDE DEF m
<1> QED BY <1>3, <1>4, <1>5, SelectedIs DEF MirrorRow, Matches

LEMMA ReadDoes ==
    ASSUME TypeOK, NEW h \in Handlers, Read(h)
    PROVE  /\ Rests /\ UNCHANGED <<claim, mirror, event>> /\ me[h].pc = "read"
           /\ \/ Drops(h, "failed")
              \/ /\ lock = h /\ lock' = lock /\ Turn(h)
                 /\ \E n \in Worker : /\ me'[h] = n /\ n.pc = "mirror" /\ n.then = me[h].then
                       /\ n.token = me[h].token /\ n.ses = me[h].ses /\ n.todo = me[h].todo
                       /\ n.e = me[h].e /\ n.read = Truth(me[h].e)
<1>1. h \in Workers /\ me[h] \in Worker
  BY IsWorker DEF Workers
<1>2. Rests /\ UNCHANGED <<claim, mirror, event>> /\ me[h].pc = "read"
  BY DEF Read, At, Rests, stripe, rows, bounds
<1>3. CASE lock # h
  <2>1. Goto(h, "failed") /\ Release(h) /\ "failed" \in Pcs
    BY <1>3 DEF Read, Failed, Holds, Pcs, HandlerPcs
  <2> QED BY <1>1, <1>2, <2>1, DropsIs
<1>4. CASE lock = h
  <2> DEFINE r == Truth(me[h].e)
             n == [me[h] EXCEPT !.pc = "mirror", !.read = r]
  <2>1. r \in MirrorRow
    BY <1>1, TruthIs DEF Worker
  <2>2. me' = [me EXCEPT ![h] = n] /\ lock' = lock
    BY <1>1, <1>4 DEF Read, Holds, TypeOK
  <2> HIDE DEF r
  <2>3. /\ n \in Worker /\ n.pc = "mirror" /\ n.then = me[h].then
        /\ n.token = me[h].token /\ n.ses = me[h].ses /\ n.todo = me[h].todo
        /\ n.e = me[h].e /\ n.read = r
    BY <1>1, <2>1 DEF Worker, HandlerPcs
  <2> HIDE DEF n
  <2>4. Turn(h) /\ me'[h] = n
    BY <1>1, <2>2, <2>3, Turns
  <2> QED BY <1>2, <1>4, <2>2, <2>3, <2>4 DEF r
<1> QED BY <1>3, <1>4

LEMMA SaveMirrorDoes ==
    ASSUME TypeOK, NEW h \in Handlers, SaveMirror(h)
    PROVE  /\ Rests /\ UNCHANGED <<claim, event>> /\ me[h].pc = "mirror"
           /\ mirror' = (IF NotOlder(me[h].read) THEN me[h].read ELSE mirror)
           /\ Goes(h, "mark") \/ Drops(h, "done")
BY GoesOn, DropsIs
   DEF SaveMirror, At, Workers, Pcs, HandlerPcs, Rests, stripe, rows, bounds

LEMMA MarkAnyDoes ==
    ASSUME TypeOK, NEW h \in Handlers, MarkAny(h)
    PROVE  /\ Rests /\ UNCHANGED <<mirror, event>> /\ me[h].pc = "mark"
           /\ claim' = claim \/ (claim.status # "none" /\ ClaimTo("complete"))
           /\ Drops(h, "done")
<1>1. h \in Workers /\ "done" \in Pcs
  BY DEF Workers, Pcs, HandlerPcs
<1>2. Goto(h, "done") /\ Release(h)
  BY DEF MarkAny
<1>3. Drops(h, "done")
  BY <1>1, <1>2, DropsIs
<1>4. claim' = claim \/ (claim.status # "none" /\ ClaimTo("complete"))
  BY MarkedIs DEF MarkAny
<1> QED BY <1>3, <1>4 DEF MarkAny, At, Rests, stripe, bounds

LEMMA FinishEventDoes ==
    ASSUME TypeOK, NEW h \in Handlers, FinishEvent(h)
    PROVE  /\ Rests /\ UNCHANGED <<claim, mirror, lock>> /\ me[h].pc \in {"done", "failed"}
           /\ Turn(h) /\ me'[h] = Idle
           /\ \/ event' = event
              \/ /\ event' \in [Events -> EventRow]
                 /\ \A x \in Events \ {me[h].e} : event'[x] = event[x]
                 /\ me[h].e \in Events => /\ event[me[h].e].state = "processing"
                                          /\ event'[me[h].e].kind = event[me[h].e].kind
                                          /\ event'[me[h].e].state =
                                                IF me[h].pc = "done" THEN "done" ELSE "due"
<1>1. h \in Workers /\ event \in [Events -> EventRow]
  BY DEF Workers, TypeOK
<1>2. Rests /\ UNCHANGED <<claim, mirror, lock>> /\ me[h].pc \in {"done", "failed"}
  BY DEF FinishEvent, Rests, stripe, rows, bounds
<1>3. Turn(h) /\ me'[h] = Idle
  BY <1>1, IdleIs, Turns DEF FinishEvent
<1> DEFINE e == me[h].e
           st == IF me[h].pc = "done" THEN "done" ELSE "due"
           r == [event[e] EXCEPT !.state = st, !.by = None, !.live = FALSE]
<1>4. CASE event' = event
  BY <1>2, <1>3, <1>4
<1>5. CASE event' # event /\ e \notin Events
  <2>1. event' = [event EXCEPT ![e] = r]
    BY <1>1, <1>5 DEF FinishEvent, At
  <2> HIDE DEF r
  <2>2. event' = event
    BY <1>1, <1>5, <2>1
  <2> QED BY <1>5, <2>2
<1>6. CASE event' # event /\ e \in Events
  <2>1. event' = [event EXCEPT ![e] = r] /\ event[e].state = "processing"
    BY <1>1, <1>6 DEF FinishEvent, At, OwnClaim
  <2>2. r \in EventRow /\ r.kind = event[e].kind /\ r.state = st
    BY <1>1, <1>6 DEF EventRow
  <2> HIDE DEF r
  <2>3. event' \in [Events -> EventRow] /\ event'[e] = r
    BY <1>1, <1>6, <2>1, <2>2
  <2>4. \A x \in Events \ {e} : event'[x] = event[x]
    BY <1>1, <2>1
  <2> QED BY <1>2, <1>3, <2>1, <2>2, <2>3, <2>4
<1> QED BY <1>4, <1>5, <1>6

LEMMA CallFailsDoes ==
    ASSUME TypeOK, NEW w \in Workers, CallFails(w)
    PROVE  /\ UNCHANGED <<session, sub, shown, claim, cleanup, mirror, event, stalls>>
           /\ upsets' = upsets + 1 /\ upsets' + stalls <= MaxFaults
           /\ me[w] # Idle
           /\ Ends(w) \/ (w \in Handlers /\ Drops(w, "failed"))
<1>1. "failed" \in Pcs
  BY DEF Pcs, HandlerPcs
<1>2. /\ UNCHANGED <<session, sub, shown, claim, cleanup, mirror, event, stalls>>
      /\ upsets' = upsets + 1 /\ me[w] # Idle
  BY DEF CallFails, stripe, rows
<1>3. upsets' + stalls <= MaxFaults
  BY CheckoutAssumption DEF CallFails, TypeOK
<1> QED BY <1>1, <1>2, <1>3, Returns, DropsIs DEF CallFails, Failed

LEMMA CrashDoes ==
    ASSUME TypeOK, NEW w \in Workers, Crash(w)
    PROVE  /\ UNCHANGED <<session, sub, shown, claim, cleanup, mirror, event, stalls>>
           /\ upsets' = upsets + 1 /\ upsets' + stalls <= MaxFaults
           /\ Turn(w) /\ me'[w] = Idle /\ lock' = (IF lock = w THEN Dead ELSE lock)
<1>1. upsets' + stalls <= MaxFaults
  BY CheckoutAssumption DEF Crash, TypeOK
<1> QED BY <1>1, IdleIs, Turns DEF Crash, Holds, stripe, rows

-----------------------------------------------------------------------------
(* What the customer, Stripe and time do. *)

Emits(kind) ==
    /\ event' \in [Events -> EventRow]
    /\ \A e \in Events \ {Last + 1} : event'[e] = event[e]
    /\ Last + 1 \in Events => event'[Last + 1].kind = kind /\ event'[Last + 1].state = "due"
LEMMA EmitIs ==
    ASSUME TypeOK, NEW kind \in {"completed", "ended"}, Emit(kind)
    PROVE  Emits(kind)
<1> DEFINE r == [NoEvent EXCEPT !.kind = kind, !.state = "due"]
<1>1. event \in [Events -> EventRow]
  BY DEF TypeOK
<1>2. r \in EventRow /\ r.kind = kind /\ r.state = "due"
  BY DEF NoEvent, EventRow
<1>3. event' = [event EXCEPT ![Last + 1] = r]
  BY DEF Emit, Last
<1> HIDE DEF r
<1> QED BY <1>1, <1>2, <1>3 DEF Emits

\* Session s is written: it is in this state, with this key.
Writes(s, state, key) ==
    /\ session' \in [Sessions -> SessionRow]
    /\ session'[s].state = state /\ session'[s].key = key
    /\ \A x \in Sessions \ {s} : session'[x] = session[x]
LEMMA PayDoes ==
    ASSUME TypeOK, NEW s \in Sessions, Pay(s)
    PROVE  /\ UNCHANGED <<shown, rows, mirror, lock, me, bounds>>
           /\ s \in shown /\ IsOpen(s) /\ Writes(s, "complete", session[s].key)
           /\ sub' = [sub EXCEPT ![s] = "live"] /\ Emits("completed")
<1> DEFINE r == [session[s] EXCEPT !.state = "complete"]
<1>1. session \in [Sessions -> SessionRow]
  BY DEF TypeOK
<1>2. r \in SessionRow /\ r.state = "complete" /\ r.key = session[s].key
  BY <1>1 DEF SessionRow
<1>3. session' = [session EXCEPT ![s] = r]
  BY DEF Pay
<1> HIDE DEF r
<1>4. Writes(s, "complete", session[s].key)
  BY <1>1, <1>2, <1>3 DEF Writes
<1> QED BY <1>4, EmitIs DEF Pay, IsOpen

LEMMA SubscriptionEndsDoes ==
    ASSUME TypeOK, NEW s \in Sessions, SubscriptionEnds(s)
    PROVE  /\ UNCHANGED <<session, shown, rows, mirror, lock, me, bounds>>
           /\ sub[s] = "live" /\ Cardinality(Ended) < MaxEnds
           /\ sub' = [sub EXCEPT ![s] = "ended"] /\ Emits("ended")
BY EmitIs DEF SubscriptionEnds, Ended

LEMMA SessionEndsDoes ==
    ASSUME TypeOK, NEW s \in Sessions, SessionEnds(s)
    PROVE  /\ UNCHANGED <<sub, shown, rows, mirror, event, lock, me, bounds>>
           /\ IsOpen(s) /\ lock = None /\ Writes(s, "expired", 0)
           /\ claim.status = "creating" /\ claim.token = session[s].key => claim.aged
<1> DEFINE r == [session[s] EXCEPT !.state = "expired", !.key = 0]
<1>1. session \in [Sessions -> SessionRow]
  BY DEF TypeOK
<1>2. r \in SessionRow /\ r.state = "expired" /\ r.key = 0
  <2>1. 0 \in 0..MaxClaims
    BY CheckoutAssumption
  <2> QED BY <1>1, <2>1 DEF SessionRow
<1>3. session' = [session EXCEPT ![s] = r]
  BY <1>1 DEF SessionEnds
<1> HIDE DEF r
<1>4. Writes(s, "expired", 0)
  BY <1>1, <1>2, <1>3 DEF Writes
<1> QED BY <1>4 DEF SessionEnds, IsOpen

LEMMA ClaimAgesDoes ==
    ASSUME TypeOK, ClaimAges
    PROVE  /\ UNCHANGED <<stripe, shown, cleanup, mirror, event, lock, me, bounds>>
           /\ claim' \in ClaimRow /\ claim'.aged /\ claim'.token = claim.token
           /\ claim'.ses = claim.ses /\ claim'.status = claim.status
           /\ claim.status = "creating"
BY DEF ClaimAges, TypeOK, ClaimRow

LEMMA EventExpiresDoes ==
    ASSUME TypeOK, NEW e \in Events, EventExpires(e)
    PROVE  /\ UNCHANGED <<stripe, shown, rows, mirror, lock, me, bounds>>
           /\ event' \in [Events -> EventRow]
           /\ \A x \in Events : /\ event'[x].kind = event[x].kind
                                /\ event'[x].state = event[x].state
<1> DEFINE r == [event[e] EXCEPT !.live = FALSE]
<1>1. event \in [Events -> EventRow]
  BY DEF TypeOK
<1>2. r \in EventRow /\ r.kind = event[e].kind /\ r.state = event[e].state
  BY <1>1 DEF EventRow
<1>3. event' = [event EXCEPT ![e] = r]
  BY DEF EventExpires
<1> HIDE DEF r
<1> QED BY <1>1, <1>2, <1>3 DEF EventExpires

LEMMA StallDoes ==
    ASSUME TypeOK, NEW w \in Workers, Stall(w)
    PROVE  /\ UNCHANGED <<stripe, shown, rows, mirror, me, upsets>>
           /\ stalls' = stalls + 1 /\ upsets + stalls' <= MaxFaults
           /\ lock' = (IF lock = w THEN None ELSE lock)
           /\ event' \in [Events -> EventRow]
<1>1. event \in [Events -> EventRow]
  BY DEF TypeOK
<1>2. \A e \in Events : [event[e] EXCEPT !.live = FALSE] \in EventRow
  BY <1>1 DEF EventRow
<1>3. event' \in [Events -> EventRow]
  BY <1>1, <1>2 DEF Stall
<1>4. upsets + stalls' <= MaxFaults
  BY CheckoutAssumption DEF Stall, TypeOK
<1> QED BY <1>3, <1>4 DEF Stall, Release, Holds

-----------------------------------------------------------------------------
(* Every variable keeps its type. *)

LEMMA Typed ==
    ASSUME TypeOK, NEW w \in Workers, Turn(w),
           lock' \in {lock, w, None, Dead}
    PROVE  me' \in [Workers -> Worker] /\ lock' \in Workers \cup {None, Dead}
BY DEF Turn, TypeOK

\* Of a step that keeps within a tab's tables, the rest has its type.
LEMMA TabTyped ==
    ASSUME TypeOK, NEW t \in Tabs, Keeps,
           Ends(t) \/ \E pc, then, token, ses, todo : Now(t, pc, then, token, ses, todo),
           session' \in [Sessions -> SessionRow], shown' \subseteq Sessions,
           cleanup' \subseteq Sessions, claim' \in ClaimRow
    PROVE  TypeOK'
<1>1. t \in Workers /\ Turn(t) /\ lock' \in {lock, t, None, Dead}
  BY DEF Workers, Ends, Now
<1>2. me' \in [Workers -> Worker] /\ lock' \in Workers \cup {None, Dead}
  BY <1>1, Typed
<1> QED BY <1>2 DEF TypeOK, Keeps

LEMMA TabTypes ==
    ASSUME TypeOK, StripeInv, NEW t \in Tabs, Checkout(t)
    PROVE  TypeOK'
<1> DEFINE Moved == \E pc, then, token, ses, todo : Now(t, pc, then, token, ses, todo)
<1>1. /\ session \in [Sessions -> SessionRow] /\ shown \subseteq Sessions
      /\ cleanup \subseteq Sessions /\ claim \in ClaimRow
  BY DEF TypeOK
<1>2. t \in Workers
  BY DEF Workers
<1>3. CASE Look(t)
  BY <1>1, <1>3, LookDoes, TabTyped DEF Still, Goes
<1>4. CASE Load(t)
  BY <1>1, <1>4, LoadDoes, TabTyped DEF Still, Reads
<1>5. CASE Inspect(t)
  <2>1. shown' \subseteq Sessions /\ (Ends(t) \/ Moved)
    BY <1>1, <1>5, InspectDoes DEF Goes
  <2> HIDE DEF Moved
  <2>2. Keeps /\ UNCHANGED <<session, claim, cleanup>>
    BY <1>5, InspectDoes
  <2> QED BY <1>1, <2>1, <2>2, TabTyped DEF Moved
<1>6. CASE Verify(t)
  BY <1>1, <1>6, VerifyDoes, TabTyped DEF Still, Goes
<1>7. CASE MarkComplete(t)
  BY <1>1, <1>7, MarkCompleteDoes, TabTyped DEF ClaimTo
<1>8. CASE Retire(t)
  <2>1. cleanup' \subseteq Sessions
    BY <1>1, <1>2, <1>8, RetireDoes, HasSes DEF Queued
  <2> QED BY <1>1, <1>8, <2>1, RetireDoes, TabTyped DEF Goes
<1>9. CASE GiveUp(t)
  BY <1>1, <1>9, GiveUpDoes, TabTyped DEF ClaimTo, Goes
<1>10. CASE List(t)
  BY <1>1, <1>10, ListDoes, TabTyped DEF Still
<1>11. CASE Clean(t)
  <2>1. /\ cleanup' \subseteq Sessions /\ Moved
        /\ Keeps /\ UNCHANGED <<session, shown, claim>>
    BY <1>1, <1>11, CleanDoes
  <2> HIDE DEF Moved
  <2> QED BY <1>1, <2>1, TabTyped DEF Moved
<1>12. CASE Get(t)
  BY <1>1, <1>12, GetDoes, TabTyped DEF Still, Goes
<1>13. CASE CloseOpen(t)
  BY <1>1, <1>13, CloseOpenDoes, TabTyped DEF Closes, Goes
<1>14. CASE FinishCleanup(t)
  BY <1>1, <1>14, FinishCleanupDoes, TabTyped DEF Goes
<1>15. CASE NewClaim(t)
  <2>1. claim' \in ClaimRow /\ (Ends(t) \/ Moved)
    BY <1>1, <1>15, NewClaimDoes DEF Claims
  <2>2. Keeps /\ UNCHANGED <<session, shown, cleanup>>
    BY <1>15, NewClaimDoes
  <2> HIDE DEF Moved
  <2> QED BY <1>1, <2>1, <2>2, TabTyped DEF Moved
<1>16. CASE Create(t)
  <2>1. session' \in [Sessions -> SessionRow] /\ (Ends(t) \/ Moved)
    BY <1>1, <1>16, CreateDoes DEF Creates
  <2>2. Keeps /\ UNCHANGED <<shown, claim, cleanup>>
    BY <1>16, CreateDoes
  <2> HIDE DEF Moved
  <2> QED BY <1>1, <2>1, <2>2, TabTyped DEF Moved
<1>17. CASE Late(t)
  <2>1. me[t].ses \in Sessions
    BY <1>2, <1>17, LateDoes, HasSes
  <2> QED BY <1>1, <1>17, <2>1, LateDoes, TabTyped DEF Goes
<1>18. CASE LateClose(t)
  BY <1>1, <1>18, LateCloseDoes, TabTyped DEF Closes, Goes
<1>19. CASE LateFinish(t)
  BY <1>1, <1>19, LateFinishDoes, TabTyped
<1>20. CASE Save(t)
  <2>1. /\ claim' \in ClaimRow /\ cleanup' \subseteq Sessions /\ shown' \subseteq Sessions
        /\ Ends(t) \/ Moved
    BY <1>1, <1>20, SaveDoes DEF Saves, Goes
  <2>2. Keeps /\ UNCHANGED session
    BY <1>20, SaveDoes
  <2> HIDE DEF Moved
  <2> QED BY <1>1, <2>1, <2>2, TabTyped DEF Moved
<1> QED BY <1>3, <1>4, <1>5, <1>6, <1>7, <1>8, <1>9, <1>10, <1>11, <1>12, <1>13, <1>14,
           <1>15, <1>16, <1>17, <1>18, <1>19, <1>20 DEF Checkout

LEMMA TypeStep ==
    ASSUME TypeOK, StripeInv, Next
    PROVE  TypeOK'
<1>1. /\ session \in [Sessions -> SessionRow] /\ sub \in [Sessions -> {"none", "live", "ended"}]
      /\ shown \subseteq Sessions /\ cleanup \subseteq Sessions
      /\ claim \in ClaimRow /\ mirror \in MirrorRow /\ event \in [Events -> EventRow]
      /\ lock \in Workers \cup {None, Dead} /\ me \in [Workers -> Worker]
      /\ upsets \in Nat /\ stalls \in Nat /\ upsets + stalls <= MaxFaults
  BY DEF TypeOK
<1> USE DEF stripe, rows, bounds
<1>2. ASSUME NEW s \in Sessions, Pay(s) PROVE TypeOK'
  BY <1>1, <1>2, PayDoes DEF TypeOK, Writes, Emits
<1>3. ASSUME NEW s \in Sessions, SubscriptionEnds(s) PROVE TypeOK'
  BY <1>1, <1>3, SubscriptionEndsDoes DEF TypeOK, Emits
<1>4. ASSUME NEW s \in Sessions, SessionEnds(s) PROVE TypeOK'
  BY <1>1, <1>4, SessionEndsDoes DEF TypeOK, Writes
<1>5. ASSUME NEW t \in Tabs, Checkout(t) PROVE TypeOK'
  BY <1>5, TabTypes
<1>6. ASSUME NEW t \in Tabs, NEW p \in Plans, Visit(t, p) PROVE TypeOK'
  <2>1. Turn(t) /\ lock' = t /\ t \in Workers
    BY <1>6, VisitDoes DEF Workers
  <2>2. me' \in [Workers -> Worker] /\ lock' \in Workers \cup {None, Dead}
    BY <2>1 DEF Turn
  <2> QED BY <1>1, <1>6, <2>2, VisitDoes DEF TypeOK, Still, Keeps
<1>7. ASSUME NEW h \in Handlers, NEW e \in Events, Deliver(h, e) PROVE TypeOK'
  <2>1. me' \in [Workers -> Worker] /\ event' \in [Events -> EventRow]
    BY <1>7, DeliverDoes DEF Turn
  <2> QED BY <1>1, <1>7, <2>1, DeliverDoes DEF TypeOK, Rests
<1>8. ASSUME NEW h \in Handlers, Acquire(h) PROVE TypeOK'
  <2>1. me' \in [Workers -> Worker] /\ lock' \in Workers
    BY <1>8, AcquireDoes DEF Turn, Workers
  <2> QED BY <1>1, <1>8, <2>1, AcquireDoes DEF TypeOK, Rests
<1>9. ASSUME NEW h \in Handlers, Read(h) PROVE TypeOK'
  <2>1. h \in Workers /\ Turn(h) /\ lock' \in {lock, h, None, Dead}
    BY <1>9, ReadDoes DEF Drops, Workers
  <2> QED BY <1>1, <1>9, <2>1, Typed, ReadDoes DEF TypeOK, Rests
<1>10. ASSUME NEW h \in Handlers, SaveMirror(h) PROVE TypeOK'
  <2>1. h \in Workers /\ Turn(h) /\ lock' \in {lock, h, None, Dead}
    BY <1>10, SaveMirrorDoes DEF Drops, Goes, Now, Workers
  <2>2. mirror' \in MirrorRow
    <3>1. me[h] \in Worker
      BY <2>1, IsWorker
    <3> QED BY <1>1, <1>10, <3>1, SaveMirrorDoes DEF Worker
  <2> QED BY <1>1, <1>10, <2>1, <2>2, Typed, SaveMirrorDoes DEF TypeOK, Rests
<1>11. ASSUME NEW h \in Handlers, MarkAny(h) PROVE TypeOK'
  <2>1. h \in Workers /\ Turn(h) /\ lock' \in {lock, h, None, Dead}
    BY <1>11, MarkAnyDoes DEF Drops, Workers
  <2>2. claim' \in ClaimRow
    BY <1>1, <1>11, MarkAnyDoes DEF ClaimTo
  <2> QED BY <1>1, <1>11, <2>1, <2>2, Typed, MarkAnyDoes DEF TypeOK, Rests
<1>12. ASSUME NEW h \in Handlers, FinishEvent(h) PROVE TypeOK'
  <2>1. me' \in [Workers -> Worker] /\ event' \in [Events -> EventRow]
    BY <1>1, <1>12, FinishEventDoes DEF Turn
  <2> QED BY <1>1, <1>12, <2>1, FinishEventDoes DEF TypeOK, Rests
<1>13. ASSUME NEW w \in Workers, CallFails(w) PROVE TypeOK'
  <2>1. Turn(w) /\ lock' \in {lock, w, None, Dead}
    BY <1>13, CallFailsDoes DEF Drops, Ends
  <2> QED BY <1>1, <1>13, <2>1, Typed, CallFailsDoes DEF TypeOK
<1>14. ASSUME NEW w \in Workers, Crash(w) PROVE TypeOK'
  <2>1. Turn(w) /\ lock' \in {lock, w, None, Dead}
    BY <1>14, CrashDoes
  <2> QED BY <1>1, <1>14, <2>1, Typed, CrashDoes DEF TypeOK
<1>15. ASSUME NEW w \in Workers, Stall(w) PROVE TypeOK'
  BY <1>1, <1>15, StallDoes DEF TypeOK
<1>16. ASSUME NEW e \in Events, EventExpires(e) PROVE TypeOK'
  BY <1>1, <1>16, EventExpiresDoes DEF TypeOK
<1>17. CASE LeaseExpires
  BY <1>1, <1>17 DEF LeaseExpires, TypeOK
<1>18. CASE ClaimAges
  BY <1>1, <1>18, ClaimAgesDoes DEF TypeOK
<1> QED BY <1>2, <1>3, <1>4, <1>5, <1>6, <1>7, <1>8, <1>9, <1>10, <1>11, <1>12, <1>13, <1>14,
           <1>15, <1>16, <1>17, <1>18 DEF Next, Handle

-----------------------------------------------------------------------------
(* What is named was created: StripeInv. *)

Grows ==
    /\ \A s \in Sessions : session[s].state # "none" => session'[s].state # "none"
    /\ claim'.token >= claim.token
HandPcs == {"inspect", "verify", "get", "close", "finish", "created", "lateClose",
            "lateFinish"}

LEMMA NoLess == ASSUME NEW a \in Nat, NEW b \in Nat, NEW c \in Nat, a <= b, c >= b
                PROVE  a <= c
OBVIOUS

LEMMA TokenIs == ASSUME TypeOK PROVE claim.token \in Nat
BY CheckoutAssumption DEF TypeOK, ClaimRow

LEMMA TokenKept ==
    ASSUME TypeOK, TypeOK', StripeInv, Grows, NEW w \in Workers
    PROVE  me[w].token <= claim'.token
<1>1. me[w].token \in Nat
  BY IsWorker, CheckoutAssumption DEF Worker
<1>2. claim.token \in Nat /\ claim'.token \in Nat
  BY CheckoutAssumption DEF TypeOK, ClaimRow
<1>3. me[w].token <= claim.token
  BY DEF StripeInv, StripeOK
<1>4. claim'.token >= claim.token
  BY DEF Grows
<1> QED BY <1>1, <1>2, <1>3, <1>4, NoLess

LEMMA Grown ==
    ASSUME TypeOK, session' = session, claim' = claim
    PROVE  Grows
BY TokenIs DEF Grows

\* The rows when Stripe and the claim stay.
LEMMA RowsKept ==
    ASSUME StripeInv, UNCHANGED <<session, sub, claim>>,
           \A s \in cleanup' : s \in cleanup \/ session[s].state # "none"
    PROVE  StripeRows'
BY DEF StripeInv, StripeRows, Exists

\* Closing a session keeps the rows as they have to be.
LEMMA ClosesRows ==
    ASSUME TypeOK, StripeInv, UNCHANGED <<sub, claim, cleanup>>, NEW s \in Sessions, Closes(s)
    PROVE  Grows /\ StripeRows'
<1>1. \A x \in Sessions : /\ session[x].state # "none" => session'[x].state # "none"
                          /\ session[x].state = "complete" => session'[x].state = "complete"
                          /\ session'[x].key = session[x].key
  BY DEF Closes, IsOpen
<1>2. claim'.token >= claim.token
  BY TokenIs
<1>3. cleanup \subseteq Sessions /\ (claim.ses # 0 => claim.ses \in Sessions)
  BY NotZero DEF TypeOK, ClaimRow
<1> QED BY <1>1, <1>2, <1>3 DEF StripeInv, StripeRows, Exists, Grows

LEMMA StripeKept ==
    ASSUME TypeOK, TypeOK', StripeInv, Grows, NEW v \in Workers, me'[v] = me[v]
    PROVE  StripeOK(v)'
<1>1. StripeOK(v) /\ me[v] \in Worker
  BY IsWorker DEF StripeInv
<1>2. me[v].ses # 0 => session'[me[v].ses].state # "none"
  BY HasSes DEF Grows
<1>3. \A s \in me[v].todo : session'[s].state # "none"
  BY <1>1 DEF StripeOK, Exists, Worker, Grows
<1>4. me[v].token <= claim'.token
  BY TokenKept
<1> QED BY <1>1, <1>2, <1>3, <1>4 DEF StripeOK, Exists

LEMMA StripeTurn ==
    ASSUME TypeOK, TypeOK', StripeInv, Grows, StripeRows', NEW w \in Workers, Turn(w),
           StripeOK(w)'
    PROVE  StripeInv'
BY StripeKept DEF Turn, StripeInv

\* The worker that moves is at its end, goes on as it was, or has new fields.
LEMMA StripeIdle ==
    ASSUME TypeOK, TypeOK', StripeInv, Grows, StripeRows', NEW w \in Workers,
           Turn(w), me'[w] = Idle
    PROVE  StripeInv'
<1>1. claim'.token \in Nat
  BY CheckoutAssumption DEF TypeOK, ClaimRow
<1>2. me'[w].pc = "idle" /\ me'[w].ses = 0 /\ me'[w].token = 0 /\ me'[w].todo = {}
  BY IdleIs
<1>3. StripeOK(w)'
  BY <1>1, <1>2 DEF StripeOK, OfClaim
<1> QED BY <1>3, StripeTurn

LEMMA StripeEnds ==
    ASSUME TypeOK, TypeOK', StripeInv, Grows, StripeRows', NEW w \in Workers, Ends(w)
    PROVE  StripeInv'
BY StripeIdle DEF Ends

LEMMA StripeMoves ==
    ASSUME TypeOK, TypeOK', StripeInv, Grows, StripeRows',
           NEW w \in Workers, NEW o, NEW pc, NEW then, NEW token, NEW ses, NEW todo,
           Turn(w), Like(me'[w], o, pc, then, token, ses, todo),
           ses # 0 => session'[ses].state # "none",
           \A s \in todo : session'[s].state # "none", token <= claim'.token,
           pc \in OfClaim \/ (pc = "verify" /\ then = "retire") => token # 0,
           pc \in HandPcs => ses # 0, pc = "verify" => then \in {"retire", "finish"}
    PROVE  StripeInv'
<1>1. StripeOK(w)'
  BY DEF Like, StripeOK, Exists, HandPcs
<1> QED BY <1>1, StripeTurn

LEMMA StripeLike ==
    ASSUME TypeOK, TypeOK', StripeInv, Grows, StripeRows', NEW w \in Workers, NEW pc,
           NEW then, Turn(w),
           Like(me'[w], me[w], pc, then, me[w].token, me[w].ses, me[w].todo),
           pc \in HandPcs => me[w].ses # 0,
           pc \in OfClaim \/ (pc = "verify" /\ then = "retire") => me[w].token # 0,
           pc = "verify" => then \in {"retire", "finish"}
    PROVE  StripeInv'
<1>1. StripeOK(w) /\ me[w] \in Worker
  BY IsWorker DEF StripeInv
<1>2. me[w].ses # 0 => session'[me[w].ses].state # "none"
  BY HasSes DEF Grows
<1>3. \A s \in me[w].todo : session'[s].state # "none"
  BY <1>1 DEF StripeOK, Exists, Worker, Grows
<1>4. me[w].token <= claim'.token
  BY TokenKept
<1> QED BY <1>2, <1>3, <1>4, StripeMoves

LEMMA StripeVerify ==
    ASSUME TypeOK, TypeOK', StripeInv, Grows, StripeRows', NEW w \in Workers,
           NEW then \in {"retire", "finish"},
           Now(w, "verify", then, me[w].token, me[w].ses, me[w].todo),
           me[w].ses # 0, then = "retire" => me[w].token # 0
    PROVE  StripeInv'
BY StripeLike DEF Now, OfClaim

LEMMA StripeGoes ==
    ASSUME TypeOK, TypeOK', StripeInv, Grows, StripeRows', NEW w \in Workers, NEW pc,
           Goes(w, pc), pc # "verify",
           pc \in HandPcs => me[w].ses # 0, pc \in OfClaim => me[w].token # 0
    PROVE  StripeInv'
BY StripeLike DEF Goes, Now

LEMMA TabStripe ==
    ASSUME TypeOK, TypeOK', StripeInv, NEW t \in Tabs, Checkout(t)
    PROVE  StripeInv'
<1>1. t \in Workers /\ StripeOK(t) /\ StripeRows /\ me[t] \in Worker
  BY IsWorker DEF Workers, StripeInv
<1>2. claim.token \in Nat /\ claim'.token \in Nat
  BY CheckoutAssumption DEF TypeOK, ClaimRow
<1>3. me[t].pc \in HandPcs => me[t].ses # 0
  BY <1>1 DEF StripeOK, HandPcs
<1>4. me[t].pc \in OfClaim => me[t].token # 0
  BY <1>1 DEF StripeOK
<1> USE DEF HandPcs, OfClaim
<1>5. CASE Look(t)
  <2>1. Grows /\ StripeRows'
    BY <1>5, LookDoes, Grown, RowsKept DEF Still, Keeps
  <2> QED BY <1>1, <1>5, <2>1, LookDoes, StripeEnds, StripeGoes
<1>6. CASE Load(t)
  <2>1. Grows /\ StripeRows' /\ session' = session
    BY <1>6, LoadDoes, Grown, RowsKept DEF Still, Keeps
  <2>2. claim.ses # 0 => session'[claim.ses].state # "none"
    BY <1>1, <2>1 DEF StripeRows, Exists
  <2>3. \A s \in me[t].todo : session'[s].state # "none"
    BY <1>1, <2>1 DEF StripeOK, Exists
  <2>4. claim.token <= claim'.token
    BY <1>2, <2>1 DEF Grows
  <2>5. ASSUME NEW pc, Reads(t, pc), pc # "verify", pc \in OfClaim => claim.token # 0,
               pc \in HandPcs => claim.ses # 0
        PROVE  StripeInv'
    <3>1. Turn(t) /\ Like(me'[t], me[t], pc, me[t].then, claim.token, claim.ses, me[t].todo)
      BY <2>5 DEF Reads, Now
    <3> QED BY <1>1, <2>1, <2>2, <2>3, <2>4, <2>5, <3>1, StripeMoves
  <2>6. /\ claim.status \in {"none", "creating", "open", "complete", "expired"}
        /\ claim.token = 0 => claim.status = "none" /\ claim.ses = 0
        /\ claim.aged => claim.token # 0
    BY <1>1 DEF TypeOK, ClaimRow, StripeRows
  <2>7. CASE Ends(t)
    BY <1>1, <2>1, <2>7, StripeEnds
  <2>8. CASE Reads(t, "list")
    BY <2>5, <2>8
  <2>9. CASE Reads(t, "inspect") /\ claim.ses # 0
    BY <2>5, <2>6, <2>9
  <2>10. CASE Reads(t, "retire") /\ (claim.status = "complete" \/ claim.aged)
    BY <2>5, <2>6, <2>10
  <2>11. CASE Reads(t, "create") /\ claim.status \notin {"none", "expired", "complete"}
    BY <2>5, <2>6, <2>11
  <2> QED BY <1>6, <2>7, <2>8, <2>9, <2>10, <2>11, LoadDoes
<1>7. CASE Inspect(t)
  <2>1. Grows /\ StripeRows'
    BY <1>7, InspectDoes, Grown, RowsKept DEF Keeps
  <2>2. me[t].ses # 0 /\ me[t].token # 0
    BY <1>3, <1>4, <1>7, InspectDoes
  <2> QED BY <1>1, <1>7, <2>1, <2>2, InspectDoes, StripeEnds, StripeGoes, StripeVerify
<1>8. CASE Verify(t)
  <2>1. Grows /\ StripeRows'
    BY <1>8, VerifyDoes, Grown, RowsKept DEF Still, Keeps
  <2>2. /\ me[t].ses # 0 /\ me[t].then \in {"retire", "finish"}
        /\ me[t].then = "retire" => me[t].token # 0
    BY <1>1, <1>8, VerifyDoes DEF StripeOK
  <2>3. CASE Ends(t)
    BY <1>1, <2>1, <2>3, StripeEnds
  <2>4. CASE Goes(t, me[t].then)
    BY <1>1, <2>1, <2>2, <2>4, StripeGoes
  <2> QED BY <1>8, <2>3, <2>4, VerifyDoes
<1>9. CASE MarkComplete(t)
  <2>1. Grows
    BY <1>2, <1>9, MarkCompleteDoes DEF Grows, ClaimTo
  <2>2. me[t].token # 0
    BY <1>4, <1>9, MarkCompleteDoes
  <2>3. StripeRows'
    BY <1>1, <1>9, <2>2, MarkCompleteDoes DEF StripeRows, Exists, ClaimTo, Keeps
  <2> QED BY <1>1, <1>9, <2>1, <2>3, MarkCompleteDoes, StripeEnds
<1>10. CASE Retire(t)
  <2>1. StripeRows' /\ Grows
    BY <1>1, <1>10, RetireDoes, Grown, RowsKept, HasSes DEF Queued, Keeps
  <2> QED BY <1>1, <1>4, <1>10, <2>1, RetireDoes, StripeEnds, StripeGoes
<1>11. CASE GiveUp(t)
  <2>1. Grows
    <3>1. claim'.token = claim.token /\ session' = session
      BY <1>11, GiveUpDoes DEF ClaimTo
    <3> QED BY <1>2, <3>1 DEF Grows
  <2>2. me[t].token # 0
    BY <1>4, <1>11, GiveUpDoes
  <2>3. StripeRows'
    BY <1>1, <1>11, <2>2, GiveUpDoes DEF StripeRows, Exists, ClaimTo, Keeps
  <2> QED BY <1>1, <1>11, <2>1, <2>3, GiveUpDoes, StripeEnds, StripeGoes
<1>12. CASE List(t)
  <2>1. Grows /\ StripeRows' /\ session' = session
    BY <1>12, ListDoes, Grown, RowsKept DEF Still, Keeps
  <2>2. CASE Now(t, "clean", me[t].then, me[t].token, me[t].ses, Known)
    <3>1. me[t].ses # 0 => session'[me[t].ses].state # "none"
      BY <1>1, <2>1, HasSes DEF Grows
    <3>2. \A s \in Known : session'[s].state # "none"
      BY <1>1, <2>1 DEF Known, StripeRows, Exists
    <3>3. me[t].token <= claim'.token
      BY <1>1, <2>1, TokenKept
    <3>4. Turn(t) /\ Like(me'[t], me[t], "clean", me[t].then, me[t].token, me[t].ses, Known)
      BY <2>2 DEF Now
    <3> HIDE DEF HandPcs, OfClaim
    <3>5. "clean" \notin HandPcs /\ "clean" \notin OfClaim
      BY DEF HandPcs, OfClaim
    <3> QED BY <1>1, <2>1, <3>1, <3>2, <3>3, <3>4, <3>5, StripeMoves
  <2> QED BY <1>1, <1>12, <2>1, <2>2, ListDoes, StripeEnds
<1>13. CASE Clean(t)
  <2>1. PICK s \in me[t].todo :
           /\ s \in Sessions /\ cleanup' = cleanup \cup {s}
           /\ Now(t, "get", me[t].then, me[t].token, s, me[t].todo \ {s})
    BY <1>13, CleanDoes
  <2>2. session[s].state # "none" /\ UNCHANGED <<session, sub, claim>>
    BY <1>1, <1>13, <2>1, CleanDoes DEF StripeOK, Exists, Keeps
  <2>3. Grows /\ StripeRows'
    BY <2>1, <2>2, Grown, RowsKept
  <2>4. \A x \in me[t].todo \ {s} : session'[x].state # "none"
    BY <1>1, <2>2 DEF StripeOK, Exists
  <2>5. me[t].token <= claim'.token
    BY <1>1, <2>3, TokenKept
  <2>6. Turn(t) /\ Like(me'[t], me[t], "get", me[t].then, me[t].token, s, me[t].todo \ {s})
    BY <2>1 DEF Now
  <2>7. s # 0 /\ session'[s].state # "none"
    BY <2>1, <2>2 DEF Sessions
  <2>8. StripeOK(t)'
    BY <2>4, <2>5, <2>6, <2>7 DEF Like, StripeOK, Exists
  <2> QED BY <1>1, <2>3, <2>6, <2>8, StripeTurn
<1>14. CASE Get(t)
  <2>1. Grows /\ StripeRows'
    BY <1>14, GetDoes, Grown, RowsKept DEF Still, Keeps
  <2>2. me[t].ses # 0
    BY <1>3, <1>14, GetDoes
  <2> QED BY <1>1, <1>14, <2>1, <2>2, GetDoes, StripeEnds, StripeGoes, StripeVerify
<1>15. CASE CloseOpen(t)
  <2>1. Grows /\ StripeRows'
    BY <1>15, CloseOpenDoes, ClosesRows DEF Keeps
  <2> QED BY <1>1, <1>3, <1>15, <2>1, CloseOpenDoes, StripeEnds, StripeGoes
<1>16. CASE FinishCleanup(t)
  <2>1. Grows /\ StripeRows'
    BY <1>16, FinishCleanupDoes, Grown, RowsKept DEF Keeps
  <2> QED BY <1>1, <1>16, <2>1, FinishCleanupDoes, StripeEnds, StripeGoes
<1>17. CASE NewClaim(t)
  <2>1. UNCHANGED <<session, sub, cleanup>> /\ me[t].todo = {}
    BY <1>17, NewClaimDoes DEF Keeps
  <2>2. claim' = claim \/ Claims
    BY <1>17, NewClaimDoes
  <2>3. Grows /\ StripeRows'
    BY <1>1, <1>2, <2>1, <2>2 DEF Grows, Claims, StripeRows, Exists
  <2>4. CASE /\ Claims /\ Now(t, "create", me[t].then, claim.token + 1, 0, me[t].todo)
    <3>1. Turn(t) /\ Like(me'[t], me[t], "create", me[t].then, claim.token + 1, 0, me[t].todo)
      BY <2>4 DEF Now
    <3>2. claim.token + 1 <= claim'.token /\ claim.token + 1 # 0
      BY <1>2, <2>4 DEF Claims
    <3> HIDE DEF HandPcs, OfClaim
    <3>3. "create" \notin HandPcs
      BY DEF HandPcs
    <3> QED BY <1>1, <2>1, <2>3, <3>1, <3>2, <3>3, StripeMoves
  <2> QED BY <1>1, <1>17, <2>3, <2>4, NewClaimDoes, StripeEnds
<1>18. CASE Create(t)
  <2>1. UNCHANGED <<sub, claim, cleanup>> /\ me[t].token # 0
    BY <1>4, <1>18, CreateDoes DEF Keeps
  <2> DEFINE k == me[t].token
  <2>2. ASSUME NEW s \in Sessions, session'[s].state # "none", Grows, StripeRows',
               Now(t, "created", me[t].then, k, s, me[t].todo)
        PROVE  StripeInv'
    <3>1. Like(me'[t], me[t], "created", me[t].then, k, s, me[t].todo) /\ Turn(t)
      BY <2>2 DEF Now
    <3>2. \A x \in me[t].todo : session'[x].state # "none"
      BY <1>1, <2>2 DEF StripeOK, Exists, Grows, Worker
    <3>3. s # 0 /\ k <= claim'.token
      BY <1>1, <2>2, TokenKept DEF Sessions
    <3>4. StripeOK(t)'
      BY <2>1, <2>2, <3>1, <3>2, <3>3 DEF Like, StripeOK, Exists
    <3> QED BY <1>1, <2>2, <3>1, <3>4, StripeTurn
  <2>3. CASE session' = session
    <3>1. Grows /\ StripeRows'
      BY <2>1, <2>3, Grown, RowsKept
    <3>2. CASE Ends(t)
      BY <1>1, <3>1, <3>2, StripeEnds
    <3>3. ASSUME NEW s \in OfKey(k), Now(t, "created", me[t].then, k, s, me[t].todo)
          PROVE  StripeInv'
      <4>1. s \in Sessions /\ session'[s].state # "none"
        BY <1>1, <2>1, <2>3 DEF OfKey, StripeRows, Exists
      <4> QED BY <2>2, <3>1, <3>3, <4>1
    <3>4. ASSUME NEW s \in Sessions, Creates(s, k) PROVE FALSE
      BY <2>3, <3>4 DEF Creates
    <3> QED BY <1>18, <3>2, <3>3, <3>4, CreateDoes
  <2>4. ASSUME NEW s \in Sessions, Creates(s, k),
               Now(t, "created", me[t].then, k, s, me[t].todo)
        PROVE  StripeInv'
    <3>1. Grows /\ session'[s].state # "none"
      BY <1>2, <2>1, <2>4 DEF Grows, Creates
    <3>2. StripeRows'
      <4>1. \A x \in Sessions \ {s} : session'[x] = session[x]
        BY <2>4 DEF Creates
      <4>2. \A x \in Sessions : sub[x] # "none" => x # s
        BY <1>1, <2>4 DEF StripeRows, Creates
      <4>3. \A x \in cleanup : x # s /\ x \in Sessions
        BY <1>1, <2>4 DEF StripeRows, Exists, Creates, TypeOK
      <4>4. claim.ses # 0 => claim.ses # s /\ claim.ses \in Sessions
        BY <1>1, <2>4, NotZero DEF StripeRows, Exists, Creates, TypeOK, ClaimRow
      <4>5. session'[s].state = "open"
        BY <2>4 DEF Creates
      <4> QED BY <1>1, <2>1, <4>1, <4>2, <4>3, <4>4, <4>5 DEF StripeRows, Exists
    <3> QED BY <2>2, <2>4, <3>1, <3>2
  <2> QED BY <1>18, <2>3, <2>4, CreateDoes
<1>19. CASE Late(t)
  <2>1. Grows /\ StripeRows'
    BY <1>1, <1>19, LateDoes, HasSes, Grown, RowsKept DEF Keeps
  <2> QED BY <1>1, <1>3, <1>19, <2>1, LateDoes, StripeGoes
<1>20. CASE LateClose(t)
  <2>1. Grows /\ StripeRows'
    BY <1>20, LateCloseDoes, ClosesRows DEF Keeps
  <2> QED BY <1>1, <1>3, <1>20, <2>1, LateCloseDoes, StripeEnds, StripeGoes
<1>21. CASE LateFinish(t)
  <2>1. Grows /\ StripeRows'
    BY <1>21, LateFinishDoes, Grown, RowsKept DEF Keeps
  <2> QED BY <1>1, <1>21, <2>1, LateFinishDoes, StripeEnds
<1>22. CASE Save(t)
  <2> DEFINE s == me[t].ses
  <2>1. /\ UNCHANGED <<session, sub>> /\ s \in Sessions /\ me[t].token # 0 /\ s # 0
        /\ session[s].state # "none"
    BY <1>1, <1>3, <1>4, <1>22, SaveDoes, HasSes DEF Keeps
  <2>2. \/ claim.token = me[t].token /\ Saves(s) /\ cleanup' = cleanup
        \/ claim' = claim /\ cleanup' = cleanup \cup {s}
    BY <1>22, SaveDoes
  <2>3. Grows
    BY <1>2, <2>1, <2>2 DEF Grows, Saves
  <2>4. StripeRows'
    BY <1>1, <2>1, <2>2 DEF StripeRows, Exists, Saves
  <2> QED BY <1>1, <1>22, <2>1, <2>3, <2>4, SaveDoes, StripeEnds, StripeGoes
<1> QED BY <1>5, <1>6, <1>7, <1>8, <1>9, <1>10, <1>11, <1>12, <1>13, <1>14,
           <1>15, <1>16, <1>17, <1>18, <1>19, <1>20, <1>21, <1>22 DEF Checkout

\* Nobody moves.
LEMMA StripeStays ==
    ASSUME TypeOK, TypeOK', StripeInv, Grows, StripeRows', me' = me
    PROVE  StripeInv'
BY StripeKept DEF StripeInv

LEMMA StripeStep ==
    ASSUME TypeOK, TypeOK', StripeInv, Next
    PROVE  StripeInv'
<1> USE DEF stripe, rows, bounds
<1>1. ASSUME NEW s \in Sessions, Writes(s, "complete", session[s].key), IsOpen(s),
             sub' = [sub EXCEPT ![s] = "live"], UNCHANGED <<claim, cleanup, me>>
      PROVE  StripeInv'
  <2>1. Grows
    BY <1>1, TokenIs DEF Grows, Writes
  <2>2. StripeRows'
    <3>1. sub \in [Sessions -> {"none", "live", "ended"}]
      BY DEF TypeOK
    <3>2. \A x \in Sessions : sub'[x] # "none" => session'[x].state = "complete"
      BY <1>1, <3>1 DEF Writes, StripeInv, StripeRows
    <3>3. \A x \in Sessions : session'[x].key # 0 => session'[x].state # "none"
      BY <1>1 DEF Writes, StripeInv, StripeRows, Exists
    <3>4. cleanup \subseteq Sessions /\ (claim.ses # 0 => claim.ses \in Sessions)
      BY NotZero DEF TypeOK, ClaimRow
    <3> QED BY <1>1, <2>1, <3>2, <3>3, <3>4 DEF Grows, StripeInv, StripeRows, Exists
  <2> QED BY <1>1, <2>1, <2>2, StripeStays
<1>2. ASSUME NEW s \in Sessions, Pay(s) PROVE StripeInv'
  BY <1>1, <1>2, PayDoes
<1>3. ASSUME NEW s \in Sessions, SubscriptionEnds(s) PROVE StripeInv'
  <2>1. UNCHANGED <<session, claim, cleanup, me>> /\ sub[s] = "live"
        /\ sub' = [sub EXCEPT ![s] = "ended"]
    BY <1>3, SubscriptionEndsDoes
  <2>2. StripeRows'
    BY <2>1 DEF StripeInv, StripeRows, Exists, TypeOK
  <2> QED BY <2>1, <2>2, Grown, StripeStays
<1>4. ASSUME NEW s \in Sessions, SessionEnds(s) PROVE StripeInv'
  <2>1. /\ UNCHANGED <<sub, claim, cleanup, me>> /\ IsOpen(s) /\ Writes(s, "expired", 0)
    BY <1>4, SessionEndsDoes
  <2>2. Grows
    BY <2>1, TokenIs DEF Grows, Writes
  <2>3. sub[s] = "none"
    BY <2>1 DEF StripeInv, StripeRows, IsOpen, TypeOK
  <2>4. cleanup \subseteq Sessions /\ (claim.ses # 0 => claim.ses \in Sessions)
    BY NotZero DEF TypeOK, ClaimRow
  <2>5. \A x \in Sessions : sub'[x] # "none" => session'[x].state = "complete"
    BY <2>1, <2>3 DEF Writes, StripeInv, StripeRows
  <2>6. \A x \in Sessions : session'[x].key # 0 => session'[x].state # "none"
    BY <2>1 DEF Writes, StripeInv, StripeRows, Exists
  <2>7. StripeRows'
    BY <2>1, <2>2, <2>4, <2>5, <2>6 DEF Grows, StripeInv, StripeRows, Exists
  <2> QED BY <2>1, <2>2, <2>7, StripeStays
<1>5. ASSUME NEW t \in Tabs, Checkout(t) PROVE StripeInv'
  BY <1>5, TabStripe
<1>6. ASSUME NEW w \in Workers, NEW o, UNCHANGED <<session, sub, claim, cleanup>>,
             Turn(w), Like(me'[w], o, "look", "none", 0, 0, {})
      PROVE  StripeInv'
  <2>1. Grows /\ StripeRows'
    BY <1>6, Grown, RowsKept
  <2>2. claim'.token \in Nat
    BY CheckoutAssumption DEF TypeOK, ClaimRow
  <2>3. StripeOK(w)'
    BY <1>6, <2>2 DEF Like, StripeOK, OfClaim
  <2> QED BY <1>6, <2>1, <2>3, StripeTurn
<1>7. ASSUME NEW t \in Tabs, NEW p \in Plans, Visit(t, p) PROVE StripeInv'
  BY <1>6, <1>7, VisitDoes DEF Still, Keeps, Workers, HandPcs, OfClaim
<1>8. ASSUME NEW h \in Handlers, NEW e \in Events, Deliver(h, e) PROVE StripeInv'
  <2>1. /\ Turn(h) /\ me'[h].pc = "wait" /\ me'[h].token = 0 /\ me'[h].ses = 0
        /\ me'[h].todo = {} /\ h \in Workers
    BY <1>8, DeliverDoes DEF Workers
  <2>2. Grows /\ StripeRows'
    BY <1>8, DeliverDoes, Grown, RowsKept DEF Rests
  <2>3. claim'.token \in Nat
    BY CheckoutAssumption DEF TypeOK, ClaimRow
  <2>4. StripeOK(h)'
    BY <2>1, <2>3 DEF StripeOK, OfClaim
  <2> QED BY <2>1, <2>2, <2>4, StripeTurn
<1>9. ASSUME NEW w \in Workers, NEW pc, StripeRows', Grows, pc \in HandlerPcs,
             Turn(w), Like(me'[w], me[w], pc, me[w].then, me[w].token, me[w].ses, me[w].todo)
      PROVE  StripeInv'
  <2>1. pc \notin HandPcs /\ pc \notin OfClaim /\ pc # "verify"
    BY <1>9 DEF HandPcs, OfClaim, HandlerPcs
  <2> QED BY <1>9, <2>1, StripeLike
<1>10. ASSUME NEW h \in Handlers, Acquire(h) PROVE StripeInv'
  BY <1>9, <1>10, AcquireDoes, Grown, RowsKept DEF Rests, Workers, HandlerPcs
<1>11. ASSUME NEW h \in Handlers, Read(h) PROVE StripeInv'
  <2>1. Grows /\ StripeRows' /\ h \in Workers
    BY <1>11, ReadDoes, Grown, RowsKept DEF Rests, Workers
  <2>2. CASE Drops(h, "failed")
    BY <1>9, <2>1, <2>2 DEF Drops, HandlerPcs
  <2>3. CASE ~Drops(h, "failed")
    <3>1. /\ Turn(h) /\ me'[h].pc = "mirror" /\ me'[h].token = me[h].token
          /\ me'[h].ses = me[h].ses /\ me'[h].todo = me[h].todo
          /\ UNCHANGED <<session, claim>>
      BY <1>11, <2>3, ReadDoes DEF Rests
    <3>2. StripeOK(h)'
      BY <2>1, <3>1 DEF StripeInv, StripeOK, Exists, OfClaim
    <3> QED BY <2>1, <3>1, <3>2, StripeTurn
  <2> QED BY <2>2, <2>3
<1>12. ASSUME NEW h \in Handlers, SaveMirror(h) PROVE StripeInv'
  <2>1. Grows /\ StripeRows' /\ h \in Workers
    BY <1>12, SaveMirrorDoes, Grown, RowsKept DEF Rests, Workers
  <2>2. CASE Goes(h, "mark")
    BY <1>9, <2>1, <2>2 DEF Goes, Now, HandlerPcs
  <2>3. CASE Drops(h, "done")
    BY <1>9, <2>1, <2>3 DEF Drops, HandlerPcs
  <2> QED BY <1>12, <2>2, <2>3, SaveMirrorDoes
<1>13. ASSUME NEW h \in Handlers, MarkAny(h) PROVE StripeInv'
  <2>1. /\ claim'.token = claim.token /\ claim'.ses = claim.ses
        /\ claim' = claim \/ (claim.status # "none" /\ claim'.status = "complete")
        /\ UNCHANGED <<session, sub, cleanup>> /\ claim'.aged = claim.aged
    BY <1>13, MarkAnyDoes DEF ClaimTo, Rests
  <2>2. Grows
    BY <2>1, TokenIs DEF Grows
  <2>3. StripeRows'
    BY <2>1 DEF StripeInv, StripeRows, Exists
  <2>4. Drops(h, "done") /\ h \in Workers
    BY <1>13, MarkAnyDoes DEF Workers
  <2> QED BY <1>9, <2>2, <2>3, <2>4 DEF Drops, HandlerPcs
<1>14. ASSUME NEW h \in Handlers, FinishEvent(h) PROVE StripeInv'
  BY <1>14, FinishEventDoes, Grown, RowsKept, StripeIdle DEF Rests, Workers
<1>15. ASSUME NEW w \in Workers, CallFails(w) PROVE StripeInv'
  <2>1. Grows /\ StripeRows'
    BY <1>15, CallFailsDoes, Grown, RowsKept
  <2>2. CASE Ends(w)
    BY <2>1, <2>2, StripeEnds
  <2>3. CASE Drops(w, "failed")
    BY <1>9, <2>1, <2>3 DEF Drops, HandlerPcs
  <2> QED BY <1>15, <2>2, <2>3, CallFailsDoes
<1>16. ASSUME NEW w \in Workers, Crash(w) PROVE StripeInv'
  BY <1>16, CrashDoes, Grown, RowsKept, StripeIdle
<1>17. ASSUME UNCHANGED <<session, sub, claim, cleanup, me>> PROVE StripeInv'
  BY <1>17, Grown, RowsKept, StripeStays
<1>18. ASSUME NEW w \in Workers, Stall(w) PROVE StripeInv'
  BY <1>17, <1>18, StallDoes
<1>19. ASSUME NEW e \in Events, EventExpires(e) PROVE StripeInv'
  BY <1>17, <1>19, EventExpiresDoes
<1>20. CASE LeaseExpires
  BY <1>17, <1>20 DEF LeaseExpires
<1>21. CASE ClaimAges
  <2>1. /\ UNCHANGED <<session, sub, cleanup, me>> /\ claim'.token = claim.token
        /\ claim'.ses = claim.ses /\ claim'.status = claim.status
        /\ claim.status = "creating"
    BY <1>21, ClaimAgesDoes
  <2>2. Grows
    BY <2>1, TokenIs DEF Grows
  <2>3. StripeRows'
    BY <2>1 DEF StripeInv, StripeRows, Exists
  <2> QED BY <2>1, <2>2, <2>3, StripeStays
<1> QED BY <1>2, <1>3, <1>4, <1>5, <1>7, <1>8, <1>10, <1>11, <1>12, <1>13, <1>14,
           <1>15, <1>16, <1>18, <1>19, <1>20, <1>21 DEF Next, Handle

-----------------------------------------------------------------------------
(* Until a pause, whoever works has the lease: LeaseInv. *)

LEMMA LeaseTurn ==
    ASSUME LeaseInv, NEW w \in Workers, Turn(w),
           lock' = lock \/ lock = None \/ lock = w, me'[w].pc \in Leased => lock' = w
    PROVE  LeaseInv'
<1>1. ASSUME NEW v \in Workers, v # w, me'[v].pc \in Leased PROVE lock' = v
  <2>1. lock = v /\ v # None
    BY <1>1, CheckoutAssumption DEF LeaseInv, Turn
  <2> QED BY <1>1, <2>1
<1> QED BY <1>1 DEF LeaseInv

LEMMA LeaseEnds ==
    ASSUME LeaseInv, NEW w \in Workers, Ends(w)
    PROVE  LeaseInv'
BY LeaseTurn, IdleIs DEF Ends, Leased

LEMMA LeaseDrops ==
    ASSUME LeaseInv, NEW w \in Workers, NEW pc, Drops(w, pc), pc \notin Leased
    PROVE  LeaseInv'
BY LeaseTurn DEF Drops, Like

LEMMA LeaseNow ==
    ASSUME LeaseInv, NEW w \in Workers, NEW pc, NEW then, NEW token, NEW ses, NEW todo,
           Now(w, pc, then, token, ses, todo), me[w].pc \in Leased
    PROVE  LeaseInv'
<1>1. lock = w
  BY DEF LeaseInv
<1> QED BY <1>1, LeaseTurn DEF Now

LEMMA LeaseGoes ==
    ASSUME LeaseInv, NEW w \in Workers, NEW pc, Goes(w, pc), me[w].pc \in Leased
    PROVE  LeaseInv'
BY LeaseNow DEF Goes

LEMMA LeaseStep ==
    ASSUME TypeOK, TypeOK', StripeInv, LeaseInv, Next, stalls' = stalls
    PROVE  LeaseInv'
<1> USE DEF stripe, rows, bounds
<1>1. ASSUME UNCHANGED <<me, lock>> PROVE LeaseInv'
  BY <1>1 DEF LeaseInv
<1>2. ASSUME NEW s \in Sessions, Pay(s) \/ SubscriptionEnds(s) \/ SessionEnds(s)
      PROVE  LeaseInv'
  BY <1>1, <1>2 DEF Pay, SubscriptionEnds, SessionEnds
<1>3. ASSUME NEW t \in Tabs, Checkout(t) PROVE LeaseInv'
  <2>1. t \in Workers
    BY DEF Workers
  <2>2. ASSUME me[t].pc \in Leased,
               Ends(t) \/ \E pc, then, token, ses, todo : Now(t, pc, then, token, ses, todo)
        PROVE  LeaseInv'
    BY <2>1, <2>2, LeaseEnds, LeaseNow
  <2> USE DEF Leased
  <2>3. CASE Look(t)
    BY <2>1, <2>3, LookDoes, LeaseEnds, LeaseGoes
  <2>4. CASE Load(t)
    BY <2>2, <2>4, LoadDoes DEF Reads
  <2>5. CASE Inspect(t)
    BY <2>1, <2>5, InspectDoes, LeaseEnds, LeaseGoes, LeaseNow
  <2>6. CASE Verify(t)
    BY <2>1, <2>6, VerifyDoes, LeaseEnds, LeaseGoes
  <2>7. CASE MarkComplete(t)
    BY <2>1, <2>7, MarkCompleteDoes, LeaseEnds
  <2>8. CASE Retire(t)
    BY <2>1, <2>8, RetireDoes, LeaseEnds, LeaseGoes
  <2>9. CASE GiveUp(t)
    BY <2>1, <2>9, GiveUpDoes, LeaseEnds, LeaseGoes
  <2>10. CASE List(t)
    BY <2>1, <2>10, ListDoes, LeaseEnds, LeaseNow
  <2>11. CASE Clean(t)
    BY <2>1, <2>11, CleanDoes, LeaseNow
  <2>12. CASE Get(t)
    BY <2>1, <2>12, GetDoes, LeaseEnds, LeaseGoes, LeaseNow
  <2>13. CASE CloseOpen(t)
    BY <2>1, <2>13, CloseOpenDoes, LeaseEnds, LeaseGoes
  <2>14. CASE FinishCleanup(t)
    BY <2>1, <2>14, FinishCleanupDoes, LeaseEnds, LeaseGoes
  <2>15. CASE NewClaim(t)
    BY <2>1, <2>15, NewClaimDoes, LeaseEnds, LeaseNow
  <2>16. CASE Create(t)
    BY <2>1, <2>16, CreateDoes, LeaseEnds, LeaseNow
  <2>17. CASE Late(t)
    BY <2>1, <2>17, LateDoes, LeaseGoes
  <2>18. CASE LateClose(t)
    BY <2>1, <2>18, LateCloseDoes, LeaseEnds, LeaseGoes
  <2>19. CASE LateFinish(t)
    BY <2>1, <2>19, LateFinishDoes, LeaseEnds
  <2>20. CASE Save(t)
    BY <2>1, <2>20, SaveDoes, LeaseEnds, LeaseGoes
  <2> QED BY <1>3, <2>3, <2>4, <2>5, <2>6, <2>7, <2>8, <2>9, <2>10, <2>11, <2>12, <2>13,
             <2>14, <2>15, <2>16, <2>17, <2>18, <2>19, <2>20 DEF Checkout
<1>4. ASSUME NEW t \in Tabs, NEW p \in Plans, Visit(t, p) PROVE LeaseInv'
  BY <1>4, VisitDoes, LeaseTurn DEF Workers
<1>5. ASSUME NEW h \in Handlers, NEW e \in Events, Deliver(h, e) PROVE LeaseInv'
  <2>1. Turn(h) /\ me'[h].pc = "wait" /\ lock' = lock
    BY <1>5, DeliverDoes
  <2> QED BY <2>1, LeaseTurn DEF Workers, Leased
<1>6. ASSUME NEW h \in Handlers, Acquire(h) PROVE LeaseInv'
  BY <1>6, AcquireDoes, LeaseTurn DEF Workers
<1>7. ASSUME NEW h \in Handlers, Read(h) PROVE LeaseInv'
  <2>1. CASE Drops(h, "failed")
    BY <2>1, LeaseDrops DEF Leased, Workers
  <2>2. CASE ~Drops(h, "failed")
    <3>1. Turn(h) /\ lock = h /\ lock' = lock
      BY <1>7, <2>2, ReadDoes
    <3> QED BY <3>1, LeaseTurn DEF Workers
  <2> QED BY <2>1, <2>2
<1>8. ASSUME NEW h \in Handlers, SaveMirror(h) PROVE LeaseInv'
  BY <1>8, SaveMirrorDoes, LeaseGoes, LeaseDrops DEF Leased, Workers
<1>9. ASSUME NEW h \in Handlers, MarkAny(h) PROVE LeaseInv'
  BY <1>9, MarkAnyDoes, LeaseDrops DEF Leased, Workers
<1>10. ASSUME NEW h \in Handlers, FinishEvent(h) PROVE LeaseInv'
  BY <1>10, FinishEventDoes, LeaseTurn, IdleIs DEF Leased, Workers
<1>11. ASSUME NEW w \in Workers, CallFails(w) PROVE LeaseInv'
  BY <1>11, CallFailsDoes, LeaseEnds, LeaseDrops DEF Leased
<1>12. ASSUME NEW w \in Workers, Crash(w) PROVE LeaseInv'
  BY <1>12, CrashDoes, LeaseTurn, IdleIs DEF Leased
<1>13. ASSUME NEW w \in Workers, Stall(w) PROVE FALSE
  <2>1. stalls' = stalls + 1 /\ stalls \in Nat
    BY <1>13, StallDoes DEF TypeOK
  <2> QED BY <2>1
<1>14. ASSUME NEW e \in Events, EventExpires(e) PROVE LeaseInv'
  BY <1>1, <1>14 DEF EventExpires
<1>15. CASE LeaseExpires
  <2>1. ASSUME NEW v \in Workers, me[v].pc \in Leased PROVE FALSE
    BY <1>15, <2>1, CheckoutAssumption DEF LeaseExpires, LeaseInv
  <2> QED BY <1>15, <2>1 DEF LeaseExpires, LeaseInv
<1>16. CASE ClaimAges
  BY <1>1, <1>16 DEF ClaimAges
<1> QED BY <1>2, <1>3, <1>4, <1>5, <1>6, <1>7, <1>8, <1>9, <1>10, <1>11, <1>12, <1>13, <1>14,
           <1>15, <1>16 DEF Next, Handle

-----------------------------------------------------------------------------
(* A page is the claim's or waits to be closed: TrackInv. *)

\* What is gone, shut or tracked stays so.
Closer ==
    \A s \in Sessions : Exists(s) =>
        /\ session'[s].state # "none"
        /\ Gone(s) => (Gone(s))'
        /\ Shut(s) => (Shut(s))'
        /\ Tracked(s) => (Tracked(s))'
\* The claim stays, or is marked complete.
Settled ==
    /\ claim'.token = claim.token /\ claim'.ses = claim.ses
    /\ Unstarted' => Unstarted
    /\ claim.status \in {"creating", "complete"} => claim'.status \in {"creating", "complete"}
    /\ claim'.status \in {"none", "expired"} => claim.status \in {"none", "expired"}

LEMMA Settles == ASSUME claim' = claim PROVE Settled
BY DEF Settled, Unstarted

\* Nothing is open that was not, and the cleanup table loses closed sessions only.
LEMMA Closes2Closer ==
    ASSUME claim'.ses = claim.ses,
           \A s \in Sessions : /\ IsOpen(s)' => IsOpen(s)
                               /\ Shut(s) => Shut(s)'
                               /\ Exists(s) => Exists(s)'
                               /\ s \in cleanup => s \in cleanup' \/ Shut(s)'
    PROVE  Closer
BY DEF Closer, Gone, Tracked, Exists, Shut, IsOpen

LEMMA Shutters ==
    ASSUME UNCHANGED <<session, claim>>, \A s \in cleanup : s \in cleanup' \/ Shut(s)
    PROVE  Closer
BY DEF Closer, Gone, Tracked, Exists, Shut, IsOpen

LEMMA ClosesCloser ==
    ASSUME UNCHANGED <<claim, cleanup>>, NEW s \in Sessions, Closes(s)
    PROVE  Closer
BY Closes2Closer DEF Closes, IsOpen, Shut, Exists

\* A worker that does not move, while the claim is settled.
LEMMA TrackKept ==
    ASSUME TypeOK, StripeInv, TrackInv, Closer, Settled, NEW v \in Workers,
           me'[v] = me[v], lock' = v => lock = v
    PROVE  TrackOK(v)' /\ (Starting(v)' => Starting(v)) /\ (Past(v)' <=> Past(v))
<1>1. TrackOK(v)
  BY DEF TrackInv
<1>2. Past(v)' <=> Past(v)
  BY DEF Past
<1>3. Starting(v)' => Starting(v)
  BY DEF Starting, Holds, Settled
<1>4. me'[v].pc = "giveUp" => (Gone(me[v].ses))'
  <2>1. CASE me[v].ses = 0
    BY <2>1 DEF Gone
  <2>2. CASE me[v].ses # 0
    BY <1>1, <2>2, HasSes DEF TrackOK, Closer
  <2> QED BY <2>1, <2>2
<1>5. me'[v].pc \in {"verify", "finish", "lateFinish"} => (Shut(me[v].ses))'
  BY <1>1, HasSes DEF TrackOK, Closer
<1>6. me'[v].pc = "inspect" => (Tracked(me[v].ses))'
  BY <1>1, HasSes DEF TrackOK, Closer
<1>7. Past(v)' /\ me'[v].token = claim'.token => me'[v].ses = claim'.ses /\ ~Unstarted'
  BY <1>1, <1>2 DEF TrackOK, Settled
<1>8. Starting(v)' => claim'.ses = 0 /\ claim'.status \in {"creating", "complete"}
  BY <1>1, <1>3 DEF TrackOK, Settled
<1> QED BY <1>2, <1>3, <1>4, <1>5, <1>6, <1>7, <1>8 DEF TrackOK

LEMMA NotWorker == None \notin Workers /\ Dead \notin Workers
BY CheckoutAssumption

LEMMA ShownKept ==
    ASSUME TypeOK, TrackInv, Closer, NEW s \in shown
    PROVE  (Exists(s) /\ Tracked(s))'
BY DEF TypeOK, TrackInv, Closer, Exists

LEMMA TrackTurn ==
    ASSUME TypeOK, StripeInv, TrackInv, Closer, Settled, NEW w \in Workers, Turn(w),
           \A v \in Workers \ {w} : lock' = v => lock = v,
           \A s \in shown' : s \in shown \/ (Exists(s) /\ Tracked(s))',
           TrackOK(w)',
           Starting(w)' => \A v \in Workers \ {w} : me[v].token = claim.token => ~Past(v),
           Past(w)' /\ me'[w].token = claim.token => \A v \in Workers \ {w} : ~Starting(v)
    PROVE  TrackInv'
<1>1. \A s \in shown' : (Exists(s) /\ Tracked(s))'
  BY ShownKept
<1>2. claim'.status \in {"none", "expired"} => (Gone(claim.ses))'
  <2>1. claim'.status \in {"none", "expired"} => Gone(claim.ses)
    BY DEF TrackInv, Settled
  <2>2. claim.ses # 0 => claim.ses \in Sessions /\ Exists(claim.ses)
    BY NotZero DEF TypeOK, ClaimRow, StripeInv, StripeRows
  <2>3. claim'.ses = claim.ses
    BY DEF Settled
  <2> QED BY <2>1, <2>2, <2>3 DEF Closer, Gone
<1>3. ASSUME NEW v \in Workers, v # w
      PROVE  TrackOK(v)' /\ (Starting(v)' => Starting(v)) /\ (Past(v)' <=> Past(v))
  BY <1>3, TrackKept DEF Turn
<1>4. claim'.token = claim.token /\ \A v \in Workers : v # w => me'[v] = me[v]
  BY DEF Settled, Turn
<1>5. ASSUME NEW v \in Workers, Starting(v)', NEW x \in Workers,
             me'[x].token = claim'.token, Past(x)'
      PROVE  FALSE
  <2>1. CASE v = w /\ x = w
    BY <1>5, <2>1 DEF Starting, Past
  <2>2. CASE v = w /\ x # w
    BY <1>3, <1>4, <1>5, <2>2
  <2>3. CASE v # w /\ x = w
    BY <1>3, <1>4, <1>5, <2>3
  <2>4. CASE v # w /\ x # w
    BY <1>3, <1>4, <1>5, <2>4 DEF TrackInv, Alone
  <2> QED BY <2>1, <2>2, <2>3, <2>4
<1> QED BY <1>1, <1>2, <1>3, <1>5 DEF TrackInv, Alone

\* The worker that moves is at its end, or is where TrackInv says nothing of it.
LEMMA TrackIdle ==
    ASSUME TypeOK, StripeInv, TrackInv, Closer, Settled, NEW w \in Workers, Turn(w),
           me'[w] = Idle, lock' \in {lock, None, Dead},
           \A s \in shown' : s \in shown \/ (Exists(s) /\ Tracked(s))'
    PROVE  TrackInv'
<1>1. me'[w].pc = "idle"
  BY IdleIs
<1>2. TrackOK(w)' /\ ~Starting(w)' /\ ~Past(w)'
  BY <1>1 DEF TrackOK, Starting, Past
<1> QED BY <1>2, TrackTurn, NotWorker

LEMMA TrackEnds ==
    ASSUME TypeOK, StripeInv, TrackInv, Closer, Settled, NEW w \in Workers, Ends(w),
           \A s \in shown' : s \in shown \/ (Exists(s) /\ Tracked(s))'
    PROVE  TrackInv'
BY TrackIdle DEF Ends

TrackPcs == {"inspect", "complete", "retire", "giveUp", "verify", "finish", "lateFinish",
             "create", "created"}
LEMMA TrackPlain ==
    ASSUME TypeOK, StripeInv, TrackInv, Closer, Settled, shown' = shown,
           NEW w \in Workers, Turn(w), me'[w].pc \notin TrackPcs,
           \A v \in Workers \ {w} : lock' = v => lock = v
    PROVE  TrackInv'
<1>1. TrackOK(w)' /\ ~Starting(w)' /\ ~Past(w)'
  BY DEF TrackOK, Starting, Past, TrackPcs
<1> QED BY <1>1, TrackTurn

LEMMA TrackGoes ==
    ASSUME TypeOK, StripeInv, TrackInv, Closer, Settled, shown' = shown,
           NEW w \in Workers, NEW pc, Goes(w, pc), pc \notin TrackPcs
    PROVE  TrackInv'
BY TrackPlain DEF Goes, Now, Like

LEMMA TrackDrops ==
    ASSUME TypeOK, StripeInv, TrackInv, Closer, Settled, shown' = shown,
           NEW w \in Workers, NEW pc, Drops(w, pc), pc \notin TrackPcs
    PROVE  TrackInv'
<1>1. \A v \in Workers \ {w} : lock' = v => lock = v
  BY NotWorker DEF Drops
<1> QED BY <1>1, TrackPlain DEF Drops, Like

\* It closes a session, which is shut by now.
LEMMA TrackShuts ==
    ASSUME TypeOK, StripeInv, TrackInv, Closer, Settled, shown' = shown,
           NEW w \in Workers, NEW pc, NEW then, Turn(w), lock' = lock,
           Like(me'[w], me[w], pc, then, me[w].token, me[w].ses, me[w].todo),
           pc \in {"finish", "lateFinish"} \/ (pc = "verify" /\ then = "finish"),
           (Shut(me[w].ses))'
    PROVE  TrackInv'
<1>1. TrackOK(w)' /\ ~Starting(w)' /\ ~Past(w)'
  BY DEF TrackOK, Starting, Past, Like
<1> QED BY <1>1, TrackTurn

\* It goes on with what it has read of the claim.
LEMMA TrackPast ==
    ASSUME TypeOK, StripeInv, TrackInv, Closer, Settled, shown' = shown,
           NEW w \in Workers, NEW pc, NEW then, Past(w),
           Now(w, pc, then, me[w].token, me[w].ses, me[w].todo),
           \/ pc \in {"complete", "retire"}
           \/ pc = "giveUp" /\ (Gone(me[w].ses))'
           \/ pc = "verify" /\ then = "retire" /\ (Shut(me[w].ses))'
    PROVE  TrackInv'
<1>1. Turn(w) /\ lock' = lock
  BY DEF Now
<1>2. me'[w].pc = pc /\ me'[w].token = me[w].token /\ me'[w].ses = me[w].ses
  BY DEF Now, Like
<1>3. me[w].token = claim.token => me[w].ses = claim.ses /\ ~Unstarted
  BY DEF TrackInv, TrackOK
<1>4. Past(w)' /\ me'[w].token = claim'.token => me'[w].ses = claim'.ses /\ ~Unstarted'
  BY <1>2, <1>3 DEF Settled
<1>5. ~Starting(w)'
  BY <1>2 DEF Starting
<1>6. TrackOK(w)'
  BY <1>2, <1>4, <1>5 DEF TrackOK
<1>7. me'[w].token = claim.token => \A v \in Workers \ {w} : ~Starting(v)
  BY <1>2 DEF TrackInv, Alone
<1> QED BY <1>1, <1>5, <1>6, <1>7, TrackTurn

\* It takes the claim of the account as it is: to inspect or retire it, or to start.
LEMMA LoadTrack ==
    ASSUME TypeOK, StripeInv, TrackInv, NEW t \in Tabs, Load(t)
    PROVE  TrackInv'
<1>1. t \in Workers
  BY DEF Workers
<1>2. Closer /\ Settled /\ UNCHANGED <<session, claim, cleanup, shown>>
  BY LoadDoes, Shutters, Settles DEF Still, Keeps
<1>3. CASE Ends(t)
  BY <1>1, <1>2, <1>3, TrackEnds
<1>4. ASSUME NEW pc, Reads(t, pc)
      PROVE  /\ Turn(t) /\ lock' = lock /\ me'[t].pc = pc
             /\ me'[t].token = claim.token /\ me'[t].ses = claim.ses
  BY <1>4 DEF Reads, Now, Like
<1>5. CASE Reads(t, "list")
  <2>1. Turn(t) /\ lock' = lock /\ me'[t].pc = "list"
    BY <1>4, <1>5
  <2> QED BY <1>1, <1>2, <2>1, TrackPlain DEF TrackPcs
<1>6. CASE \/ Reads(t, "inspect") /\ claim.ses # 0
           \/ Reads(t, "retire") /\ lock = t /\ (claim.status = "complete" \/ claim.aged)
  <2>1. me'[t].pc \in {"inspect", "retire"} /\ lock' = lock /\ Turn(t) /\ ~Unstarted
        /\ me'[t].token = claim.token /\ me'[t].ses = claim.ses
    BY <1>4, <1>6 DEF Unstarted
  <2>2. ~Unstarted' /\ ~Starting(t)'
    BY <1>2, <2>1 DEF Unstarted, Starting
  <2>3. me'[t].pc = "inspect" => (Tracked(me[t].ses))'
    BY <1>2, <2>1 DEF Tracked
  <2>4. TrackOK(t)'
    BY <1>2, <2>1, <2>2, <2>3 DEF TrackOK
  <2>5. \A v \in Workers \ {t} : ~Starting(v)
    BY <1>6 DEF TrackInv, TrackOK, Starting, Holds
  <2> QED BY <1>1, <1>2, <2>1, <2>2, <2>4, <2>5, TrackTurn
<1>7. CASE /\ Reads(t, "create") /\ lock = t /\ claim.ses = 0 /\ ~claim.aged
           /\ claim.status \notin {"none", "expired", "complete"}
  <2>1. me'[t].pc = "create" /\ lock' = lock /\ Turn(t) /\ me'[t].token = claim.token
    BY <1>4, <1>7
  <2>2. claim.status = "creating"
    BY <1>7 DEF TypeOK, ClaimRow, StripeInv, StripeRows
  <2>3. Unstarted
    BY <1>7, <2>2 DEF Unstarted
  <2>4. TrackOK(t)' /\ ~Past(t)'
    BY <1>2, <1>7, <2>1, <2>2 DEF TrackOK, Past
  <2>5. \A v \in Workers \ {t} : me[v].token = claim.token => ~Past(v)
    BY <2>3 DEF TrackInv, TrackOK
  <2> QED BY <1>1, <1>2, <2>1, <2>4, <2>5, TrackTurn
<1> QED BY <1>3, <1>5, <1>6, <1>7, LoadDoes

\* The claim is given up once its session is closed or waits to be.
LEMMA GiveUpTrack ==
    ASSUME TypeOK, StripeInv, TrackInv, NEW t \in Tabs, GiveUp(t)
    PROVE  TrackInv'
<1>1. t \in Workers /\ me[t].pc = "giveUp" /\ UNCHANGED <<session, shown, cleanup>>
  BY GiveUpDoes DEF Workers
<1>2. CASE claim' = claim /\ Ends(t)
  BY <1>1, <1>2, Shutters, Settles, TrackEnds
<1>3. CASE claim.token = me[t].token /\ ClaimTo("expired") /\ Goes(t, "list")
  <2>1. /\ claim'.token = claim.token /\ claim'.ses = claim.ses /\ claim'.status = "expired"
        /\ lock' = lock /\ me'[t].pc = "list"
        /\ \A v \in Workers : v # t => me'[v] = me[v]
    BY <1>3 DEF ClaimTo, Goes, Now, Like, Turn
  <2>2. Past(t) /\ Gone(claim.ses)
    BY <1>1, <1>3 DEF Past, TrackInv, TrackOK
  <2>3. \A s : Gone(s) => (s = 0 \/ s \in cleanup' \/ session'[s].state \in {"complete", "expired"})
    BY <1>1 DEF Gone, Shut
  <2>4. (Gone(claim.ses))'
    BY <2>1, <2>2, <2>3 DEF Gone, Shut
  <2>5. \A s \in shown' : (Exists(s) /\ Tracked(s))'
    BY <1>1, <2>1 DEF TrackInv, Exists, Tracked, IsOpen
  <2>6. \A v \in Workers : ~Starting(v)'
    <3>1. ASSUME NEW v \in Workers, Starting(v)' PROVE Starting(v)
      BY <2>1, <3>1 DEF Starting, Holds
    <3> QED BY <1>1, <1>3, <2>2, <3>1 DEF TrackInv, Alone
  <2>7. ~Unstarted'
    BY <2>1 DEF Unstarted
  <2>8. ASSUME NEW v \in Workers PROVE TrackOK(v)'
    <3>1. CASE v = t
      BY <2>1, <2>6, <3>1 DEF TrackOK, Past
    <3>2. CASE v # t
      <4>1. TrackOK(v) /\ me'[v] = me[v]
        BY <2>1, <3>2 DEF TrackInv
      <4> QED BY <1>1, <2>1, <2>6, <2>7, <4>1
              DEF TrackOK, Past, Gone, Shut, Tracked, IsOpen
    <3> QED BY <3>1, <3>2
  <2> QED BY <2>4, <2>5, <2>6, <2>8 DEF TrackInv
<1> QED BY <1>2, <1>3, GiveUpDoes

\* A new claim has a token nobody knows.
LEMMA NewClaimTrack ==
    ASSUME TypeOK, StripeInv, TrackInv, NEW t \in Tabs, NewClaim(t)
    PROVE  TrackInv'
<1>1. t \in Workers /\ UNCHANGED <<session, shown, cleanup>>
  BY NewClaimDoes DEF Workers
<1>2. CASE claim' = claim /\ Ends(t)
  BY <1>1, <1>2, Shutters, Settles, TrackEnds
<1>3. CASE claim.status \in {"none", "expired"} /\ Claims /\
           (Ends(t) \/ Now(t, "create", me[t].then, claim.token + 1, 0, me[t].todo))
  <2>1. /\ claim'.status = "creating" /\ claim'.ses = 0 /\ claim'.token = claim.token + 1
        /\ \A v \in Workers : v # t => me'[v] = me[v]
    BY <1>3 DEF Claims, Ends, Now, Turn
  <2>2. me'[t].pc = "idle" \/ (me'[t].pc = "create" /\ me'[t].token = claim'.token)
    BY <1>3, <2>1, IdleIs DEF Ends, Now, Like
  <2>3. ASSUME NEW s \in Sessions, Tracked(s), IsOpen(s) PROVE s \in cleanup
    <3>1. Gone(claim.ses)
      BY <1>3 DEF TrackInv
    <3>2. s # 0 /\ ~Shut(s)
      BY <2>3 DEF Sessions, IsOpen, Shut
    <3> QED BY <2>3, <3>1, <3>2 DEF Tracked, Gone
  <2>4. \A s \in Sessions : Tracked(s) => Tracked(s)'
    BY <1>1, <2>3 DEF Tracked, IsOpen
  <2>5. \A s \in shown' : (Exists(s) /\ Tracked(s))'
    BY <1>1, <2>4 DEF TrackInv, Exists, TypeOK
  <2>6. ASSUME NEW v \in Workers, v # t PROVE me'[v].token # claim'.token
    <3>1. me[v].token <= claim.token
      BY DEF StripeInv, StripeOK
    <3>2. me[v].token \in Nat
      BY IsWorker, CheckoutAssumption DEF Worker
    <3> QED BY <2>1, <2>6, <3>1, <3>2, TokenIs
  <2>7. ASSUME NEW v \in Workers PROVE TrackOK(v)'
    <3>1. CASE v = t
      BY <2>1, <2>2, <3>1 DEF TrackOK, Past
    <3>2. CASE v # t
      <4>1. TrackOK(v) /\ me'[v] = me[v] /\ ~Starting(v)'
        BY <2>1, <2>6, <3>2 DEF TrackInv, Starting
      <4>2. me'[v].pc = "inspect" => (Tracked(me[v].ses))'
        BY <2>4, <4>1, HasSes DEF TrackOK
      <4> QED BY <1>1, <2>6, <3>2, <4>1, <4>2 DEF TrackOK, Gone, Shut
    <3> QED BY <3>1, <3>2
  <2>8. ASSUME NEW v \in Workers, Starting(v)' PROVE Alone(v)'
    <3>1. v = t
      BY <2>6, <2>8 DEF Starting
    <3>2. ~Past(t)'
      BY <2>2 DEF Past
    <3> QED BY <2>6, <3>2 DEF Alone
  <2> QED BY <2>1, <2>5, <2>7, <2>8 DEF TrackInv
<1> QED BY <1>2, <1>3, NewClaimDoes

\* The one that holds the lease and the token saves its session.
LEMMA SaveTrack ==
    ASSUME TypeOK, StripeInv, TrackInv, NEW t \in Tabs, Save(t)
    PROVE  TrackInv'
<1>1. PICK s \in Sessions :
         /\ s = me[t].ses /\ me[t].pc = "created" /\ lock = t /\ session' = session
  BY SaveDoes
<1>2. t \in Workers /\ session[s].state # "none"
  BY <1>1, HasSes DEF Workers
<1>3. CASE /\ claim.token # me[t].token /\ claim' = claim
           /\ cleanup' = cleanup \cup {s} /\ shown' = shown
           /\ Goes(t, "lateClose")
  BY <1>1, <1>2, <1>3, Shutters, Settles, TrackGoes DEF TrackPcs
<1>4. CASE /\ claim.token = me[t].token /\ Saves(s) /\ cleanup' = cleanup
           /\ shown' \subseteq shown \cup {s} /\ (Ends(t) \/ Goes(t, "retire"))
  <2>1. /\ claim'.ses = s /\ claim'.status = "open" /\ claim'.token = claim.token
        /\ \A v \in Workers : v # t => me'[v] = me[v]
        /\ lock' \in {t, None}
    BY <1>1, <1>4 DEF Saves, Ends, Goes, Now, Turn
  <2>2. me'[t].pc = "idle" \/ (me'[t].pc = "retire" /\ me'[t].ses = s)
    BY <1>1, <1>4, IdleIs DEF Ends, Goes, Now, Like
  <2>3. Starting(t)
    BY <1>1, <1>4 DEF Starting, Holds
  <2>4. claim.ses = 0 /\ \A v \in Workers : me[v].token = claim.token => ~Past(v)
    BY <1>2, <2>3 DEF TrackInv, TrackOK, Alone
  <2>5. \A x \in Sessions : Tracked(x) => Tracked(x)'
    BY <1>1, <1>4, <2>4 DEF Tracked, IsOpen, Sessions
  <2>6. (Exists(s) /\ Tracked(s))'
    BY <1>1, <1>2, <2>1 DEF Exists, Tracked
  <2>7. \A x \in shown' : (Exists(x) /\ Tracked(x))'
    BY <1>1, <1>4, <2>5, <2>6 DEF TrackInv, Exists, TypeOK
  <2>8. ASSUME NEW v \in Workers PROVE ~Starting(v)' /\ TrackOK(v)'
    <3>1. ~Unstarted'
      BY <2>1 DEF Unstarted
    <3>2. CASE v = t
      BY <2>1, <2>2, <3>1, <3>2 DEF TrackOK, Past, Starting
    <3>3. CASE v # t
      <4>1. TrackOK(v) /\ me'[v] = me[v] /\ ~Starting(v)'
        BY <2>1, <3>3, NotWorker DEF TrackInv, Starting, Holds
      <4>2. me'[v].pc = "inspect" => (Tracked(me[v].ses))'
        BY <2>5, <4>1, HasSes DEF TrackOK
      <4>3. Past(v)' => me'[v].token # claim'.token
        BY <2>1, <2>4, <4>1 DEF Past
      <4> QED BY <1>1, <1>4, <4>1, <4>2, <4>3 DEF TrackOK, Gone, Shut
    <3> QED BY <3>2, <3>3
  <2> QED BY <2>1, <2>7, <2>8 DEF TrackInv
<1> QED BY <1>1, <1>3, <1>4, SaveDoes

LEMMA ShutIs ==
    ASSUME TypeOK, NEW s \in Sessions, ~IsOpen(s), session[s].state # "none"
    PROVE  Shut(s)
BY DEF TypeOK, SessionRow, IsOpen, Shut

LEMMA ClosedIs ==
    ASSUME TypeOK, StripeInv, NEW w \in Workers, me[w].ses \in Sessions,
           me[w].ses # 0, Closes(me[w].ses), me'[w].ses = me[w].ses
    PROVE  (Shut(me[w].ses))'
<1>1. PICK s \in Sessions : s = me[w].ses
  OBVIOUS
<1>2. IsOpen(s) \/ Shut(s)
  BY <1>1, HasSes, ShutIs
<1>3. (Shut(s))'
  BY <1>1, <1>2 DEF Closes, Shut, IsOpen
<1> QED BY <1>1, <1>3 DEF Shut

LEMMA TabTrack ==
    ASSUME TypeOK, TypeOK', StripeInv, TrackInv, NEW t \in Tabs, Checkout(t)
    PROVE  TrackInv'
<1>1. t \in Workers /\ TrackOK(t)
  BY DEF Workers, TrackInv
<1>2. me[t].pc \in {"inspect", "verify", "get", "close", "finish", "lateClose", "lateFinish"}
      => me[t].ses \in Sessions /\ me[t].ses # 0 /\ session[me[t].ses].state # "none"
  <2>1. 0 \notin Sessions
    BY DEF Sessions
  <2> QED BY <1>1, <2>1, HasSes
<1>4. ASSUME Closer, Settled, shown' = shown, Ends(t) PROVE TrackInv'
  BY <1>1, <1>4, TrackEnds
<1>5. CASE Look(t)
  <2>1. Closer /\ Settled /\ shown' = shown
    BY <1>5, LookDoes, Shutters, Settles DEF Still
  <2> QED BY <1>1, <1>4, <1>5, <2>1, LookDoes, TrackGoes DEF TrackPcs
<1>6. CASE Load(t)
  BY <1>6, LoadTrack
<1>7. CASE Inspect(t)
  <2>1. PICK s \in Sessions : s = me[t].ses /\ session[s].state # "none"
    BY <1>7, InspectDoes
  <2>2. Closer /\ Settled /\ Past(t) /\ UNCHANGED <<session, claim, cleanup>>
    BY <1>7, InspectDoes, Shutters, Settles DEF Past
  <2>3. (Exists(s) /\ Tracked(s))'
    BY <1>1, <1>7, <2>1, <2>2, InspectDoes DEF TrackOK, Closer, Exists
  <2>4. CASE shown' = shown \cup {s} /\ Ends(t)
    BY <1>1, <2>2, <2>3, <2>4, TrackEnds
  <2>5. CASE /\ shown' = shown /\ session[s].state = "complete"
             /\ Now(t, "verify", "retire", me[t].token, me[t].ses, me[t].todo)
    <3>1. (Shut(me[t].ses))'
      BY <2>1, <2>2, <2>5 DEF Now, Like, Shut
    <3> QED BY <1>1, <2>2, <2>5, <3>1, TrackPast
  <2>6. ASSUME NEW pc \in {"complete", "retire"}, shown' = shown, Goes(t, pc) PROVE TrackInv'
    BY <1>1, <2>2, <2>6, TrackPast DEF Goes
  <2> QED BY <1>4, <1>7, <2>1, <2>2, <2>4, <2>5, <2>6, InspectDoes
<1>8. CASE Verify(t)
  <2>1. Closer /\ Settled /\ UNCHANGED <<shown, session, claim, cleanup>>
    BY <1>8, VerifyDoes, Shutters, Settles DEF Still
  <2>2. me[t].pc = "verify" /\ me[t].then \in {"retire", "finish"} /\ Shut(me[t].ses)
    BY <1>1, <1>8, VerifyDoes DEF StripeInv, StripeOK, TrackOK
  <2>3. CASE Goes(t, me[t].then) /\ me[t].then = "retire"
    <3>1. Past(t) /\ Now(t, "retire", "retire", me[t].token, me[t].ses, me[t].todo)
      BY <2>2, <2>3 DEF Past, Goes
    <3> QED BY <1>1, <2>1, <3>1, TrackPast
  <2>4. CASE Goes(t, me[t].then) /\ me[t].then = "finish"
    <3>1. /\ Turn(t) /\ lock' = lock
          /\ Like(me'[t], me[t], "finish", "finish", me[t].token, me[t].ses, me[t].todo)
      BY <2>4 DEF Goes, Now
    <3>2. (Shut(me[t].ses))'
      BY <2>1, <2>2, <3>1 DEF Like, Shut
    <3> QED BY <1>1, <2>1, <3>1, <3>2, TrackShuts
  <2> QED BY <1>4, <1>8, <2>1, <2>2, <2>3, <2>4, VerifyDoes
<1>9. CASE MarkComplete(t)
  <2>1. /\ UNCHANGED <<session, shown, cleanup>> /\ claim'.ses = claim.ses
        /\ claim' = claim \/ ClaimTo("complete")
    BY <1>9, MarkCompleteDoes DEF ClaimTo
  <2>2. Closer
    BY <2>1, Closes2Closer DEF IsOpen, Shut, Exists
  <2>3. Settled
    BY <2>1 DEF Settled, Unstarted, ClaimTo
  <2> QED BY <1>4, <1>9, <2>1, <2>2, <2>3, MarkCompleteDoes
<1>10. CASE Retire(t)
  <2>1. Closer /\ Settled /\ shown' = shown /\ Past(t)
    BY <1>10, RetireDoes, Shutters, Settles DEF Past, Queued
  <2>2. CASE Goes(t, "giveUp")
    <3>1. me'[t].ses = me[t].ses /\ (me[t].ses = 0 \/ me[t].ses \in cleanup')
      BY <1>10, <2>2, RetireDoes DEF Queued, Goes, Now, Like
    <3>2. (Gone(me[t].ses))'
      BY <3>1 DEF Gone
    <3> QED BY <1>1, <2>1, <2>2, <3>2, TrackPast DEF Goes
  <2> QED BY <1>4, <1>10, <2>1, <2>2, RetireDoes
<1>11. CASE GiveUp(t)
  BY <1>11, GiveUpTrack
<1>12. CASE List(t)
  <2>1. Closer /\ Settled /\ shown' = shown
    BY <1>12, ListDoes, Shutters, Settles DEF Still
  <2>2. CASE Now(t, "clean", me[t].then, me[t].token, me[t].ses, Known)
    <3>1. Turn(t) /\ lock' = lock /\ me'[t].pc = "clean"
      BY <2>2 DEF Now, Like
    <3> QED BY <1>1, <2>1, <3>1, TrackPlain DEF TrackPcs
  <2> QED BY <1>4, <1>12, <2>1, <2>2, ListDoes
<1>13. CASE Clean(t)
  <2>1. Closer /\ Settled /\ shown' = shown
    BY <1>13, CleanDoes, Shutters, Settles
  <2>2. Turn(t) /\ lock' = lock /\ me'[t].pc = "get"
    BY <1>13, CleanDoes DEF Now, Like
  <2> QED BY <1>1, <2>1, <2>2, TrackPlain DEF TrackPcs
<1>14. ASSUME NEW pc, NEW then, Closer, Settled, shown' = shown,
              pc \in {"finish", "lateFinish"} \/ (pc = "verify" /\ then = "finish"),
              Now(t, pc, then, me[t].token, me[t].ses, me[t].todo),
              session'[me[t].ses].state \in {"complete", "expired"}
       PROVE  TrackInv'
  <2>1. /\ Turn(t) /\ lock' = lock
        /\ Like(me'[t], me[t], pc, then, me[t].token, me[t].ses, me[t].todo)
    BY <1>14 DEF Now
  <2>2. (Shut(me[t].ses))'
    BY <1>14, <2>1 DEF Like, Shut
  <2> QED BY <1>1, <1>14, <2>1, <2>2, TrackShuts
<1>15. CASE Get(t)
  <2>1. Closer /\ Settled /\ shown' = shown /\ session' = session
    BY <1>15, GetDoes, Shutters, Settles DEF Still
  <2>2. me[t].ses \in Sessions /\ session[me[t].ses].state # "none"
    BY <1>2, <1>15, GetDoes
  <2>3. CASE /\ session[me[t].ses].state = "complete"
             /\ Now(t, "verify", "finish", me[t].token, me[t].ses, me[t].todo)
    BY <1>14, <2>1, <2>3
  <2>4. CASE session[me[t].ses].state \notin {"complete", "open"} /\ Goes(t, "finish")
    <3>1. session[me[t].ses].state = "expired"
      BY <2>2, <2>4 DEF TypeOK, SessionRow
    <3> QED BY <1>14, <2>1, <2>4, <3>1 DEF Goes
  <2>5. CASE Goes(t, "close")
    BY <1>1, <2>1, <2>5, TrackGoes DEF TrackPcs
  <2> QED BY <1>4, <1>15, <2>1, <2>3, <2>4, <2>5, GetDoes
<1>16. ASSUME NEW pc \in {"finish", "lateFinish"}, UNCHANGED <<shown, claim, cleanup>>,
              me[t].ses \in Sessions, Closes(me[t].ses), Ends(t) \/ Goes(t, pc),
              me[t].ses # 0
       PROVE  TrackInv'
  <2>1. Closer /\ Settled
    BY <1>16, ClosesCloser, Settles
  <2>2. CASE Goes(t, pc)
    <3>1. me'[t].ses = me[t].ses
      BY <2>2 DEF Goes, Now, Like
    <3>2. (Shut(me[t].ses))'
      BY <1>1, <1>16, <3>1, ClosedIs
    <3>3. session'[me[t].ses].state \in {"complete", "expired"}
      BY <3>1, <3>2 DEF Shut
    <3> QED BY <1>14, <1>16, <2>1, <2>2, <3>3 DEF Goes
  <2> QED BY <1>4, <1>16, <2>1, <2>2
<1>17. CASE CloseOpen(t)
  BY <1>2, <1>16, <1>17, CloseOpenDoes
<1>18. CASE FinishCleanup(t)
  <2>1. Shut(me[t].ses) /\ shown' = shown
    BY <1>1, <1>18, FinishCleanupDoes DEF TrackOK
  <2>2. Closer /\ Settled
    BY <1>18, <2>1, FinishCleanupDoes, Shutters, Settles
  <2> QED BY <1>1, <1>4, <1>18, <2>1, <2>2, FinishCleanupDoes, TrackGoes DEF TrackPcs
<1>19. CASE NewClaim(t)
  BY <1>19, NewClaimTrack
<1>20. CASE Create(t)
  <2>1. UNCHANGED <<shown, claim, cleanup>> /\ me[t].pc = "create"
    BY <1>20, CreateDoes
  <2>2. CASE session' = session /\ Ends(t)
    BY <1>4, <2>1, <2>2, Shutters, Settles
  <2>3. ASSUME NEW s, Now(t, "created", me[t].then, me[t].token, s, me[t].todo), Closer
        PROVE  TrackInv'
    <3>1. /\ Turn(t) /\ lock' = lock /\ me'[t].pc = "created" /\ me'[t].token = me[t].token
      BY <2>3 DEF Now, Like
    <3>2. Starting(t)' => Starting(t)
      BY <2>1, <3>1 DEF Starting, Holds
    <3>3. TrackOK(t)' /\ ~Past(t)'
      BY <1>1, <2>1, <3>1, <3>2 DEF TrackOK, Past
    <3>4. Starting(t) => \A v \in Workers : me[v].token = claim.token => ~Past(v)
      BY <1>1 DEF TrackInv, Alone
    <3> QED BY <1>1, <2>1, <2>3, <3>1, <3>2, <3>3, <3>4, Settles, TrackTurn
  <2>4. ASSUME NEW s \in Sessions, Creates(s, me[t].token) PROVE Closer
    <3>1. \A x \in Sessions : Exists(x) => session'[x] = session[x]
      BY <2>4 DEF Creates, Exists
    <3> QED BY <2>1, <3>1 DEF Closer, Gone, Tracked, Exists, Shut, IsOpen
  <2>5. CASE session' = session /\
             \E s \in OfKey(me[t].token) :
                Now(t, "created", me[t].then, me[t].token, s, me[t].todo)
    BY <2>1, <2>3, <2>5, Shutters
  <2> QED BY <1>20, <2>2, <2>3, <2>4, <2>5, CreateDoes
<1>21. CASE Late(t)
  BY <1>1, <1>21, LateDoes, Shutters, Settles, TrackGoes DEF TrackPcs
<1>22. CASE LateClose(t)
  BY <1>2, <1>16, <1>22, LateCloseDoes
<1>23. CASE LateFinish(t)
  <2>1. Shut(me[t].ses) /\ shown' = shown
    BY <1>1, <1>23, LateFinishDoes DEF TrackOK
  <2>2. Closer /\ Settled
    BY <1>23, <2>1, LateFinishDoes, Shutters, Settles
  <2> QED BY <1>4, <1>23, <2>1, <2>2, LateFinishDoes
<1>24. CASE Save(t)
  BY <1>24, SaveTrack
<1> QED BY <1>5, <1>6, <1>7, <1>8, <1>9, <1>10, <1>11, <1>12, <1>13, <1>15, <1>17, <1>18,
           <1>19, <1>20, <1>21, <1>22, <1>23, <1>24 DEF Checkout

\* Nobody moves.
LEMMA TrackStays ==
    ASSUME TypeOK, StripeInv, TrackInv, Closer, Settled, me' = me, shown' = shown,
           \A v \in Workers : lock' = v => lock = v
    PROVE  TrackInv'
<1>1. ASSUME NEW v \in Workers
      PROVE  TrackOK(v)' /\ (Starting(v)' => Starting(v)) /\ (Past(v)' <=> Past(v))
  BY TrackKept
<1>2. \A s \in shown' : (Exists(s) /\ Tracked(s))'
  BY ShownKept
<1>3. claim'.status \in {"none", "expired"} => (Gone(claim.ses))'
  <2>1. claim'.status \in {"none", "expired"} => Gone(claim.ses)
    BY DEF TrackInv, Settled
  <2>2. claim.ses # 0 => claim.ses \in Sessions /\ Exists(claim.ses)
    BY NotZero DEF TypeOK, ClaimRow, StripeInv, StripeRows
  <2>3. claim'.ses = claim.ses
    BY DEF Settled
  <2> QED BY <2>1, <2>2, <2>3 DEF Closer, Gone
<1>4. \A v \in Workers : Starting(v)' => Alone(v)'
  BY <1>1 DEF TrackInv, Alone, Settled
<1> QED BY <1>1, <1>2, <1>3, <1>4 DEF TrackInv

LEMMA TrackStep ==
    ASSUME TypeOK, TypeOK', StripeInv, TrackInv, Next
    PROVE  TrackInv'
<1> USE DEF stripe, rows, bounds
<1>1. ASSUME UNCHANGED <<session, claim, cleanup, shown>> PROVE Closer /\ Settled
  BY <1>1, Shutters, Settles
<1>2. ASSUME UNCHANGED <<session, claim, cleanup, shown, me>>,
             \A v \in Workers : lock' = v => lock = v
      PROVE  TrackInv'
  BY <1>1, <1>2, TrackStays
<1>3. ASSUME NEW s \in Sessions, NEW state \in {"complete", "expired"}, NEW k, IsOpen(s),
             Writes(s, state, k), UNCHANGED <<claim, cleanup, shown, me, lock>>
      PROVE  TrackInv'
  <2>1. Closer
    BY <1>3, Closes2Closer DEF Writes, IsOpen, Shut, Exists
  <2> QED BY <1>3, <2>1, Settles, TrackStays
<1>4. ASSUME NEW s \in Sessions, Pay(s) PROVE TrackInv'
  BY <1>3, <1>4, PayDoes
<1>5. ASSUME NEW s \in Sessions, SubscriptionEnds(s) PROVE TrackInv'
  BY <1>2, <1>5, SubscriptionEndsDoes
<1>6. ASSUME NEW s \in Sessions, SessionEnds(s) PROVE TrackInv'
  BY <1>3, <1>6, SessionEndsDoes
<1>7. ASSUME NEW t \in Tabs, Checkout(t) PROVE TrackInv'
  BY <1>7, TabTrack
<1>8. ASSUME NEW t \in Tabs, NEW p \in Plans, Visit(t, p) PROVE TrackInv'
  <2>1. t \in Workers /\ Turn(t) /\ me'[t].pc = "look" /\ lock' = t
        /\ UNCHANGED <<session, claim, cleanup, shown>>
    BY <1>8, VisitDoes DEF Workers, Like, Still
  <2> QED BY <1>1, <2>1, TrackPlain DEF TrackPcs
<1>9. ASSUME NEW h \in Handlers, NEW e \in Events, Deliver(h, e) PROVE TrackInv'
  <2>1. h \in Workers /\ Turn(h) /\ me'[h].pc = "wait" /\ lock' = lock
        /\ UNCHANGED <<session, claim, cleanup, shown>>
    BY <1>9, DeliverDoes DEF Workers, Rests
  <2> QED BY <1>1, <2>1, TrackPlain DEF TrackPcs
<1>10. ASSUME NEW h \in Handlers, Acquire(h) PROVE TrackInv'
  <2>1. h \in Workers /\ Turn(h) /\ me'[h].pc = "read" /\ lock' = h
        /\ UNCHANGED <<session, claim, cleanup, shown>>
    BY <1>10, AcquireDoes DEF Workers, Like, Rests
  <2> QED BY <1>1, <2>1, TrackPlain DEF TrackPcs
<1>11. ASSUME NEW h \in Handlers, Read(h) PROVE TrackInv'
  <2>1. h \in Workers /\ UNCHANGED <<session, claim, cleanup, shown>>
    BY <1>11, ReadDoes DEF Workers, Rests
  <2>2. CASE Drops(h, "failed")
    BY <1>1, <2>1, <2>2, TrackDrops DEF TrackPcs
  <2>3. CASE ~Drops(h, "failed")
    <3>1. Turn(h) /\ me'[h].pc = "mirror" /\ lock' = lock
      BY <1>11, <2>3, ReadDoes
    <3> QED BY <1>1, <2>1, <3>1, TrackPlain DEF TrackPcs
  <2> QED BY <2>2, <2>3
<1>12. ASSUME NEW h \in Handlers, SaveMirror(h) PROVE TrackInv'
  <2>1. h \in Workers /\ UNCHANGED <<session, claim, cleanup, shown>>
    BY <1>12, SaveMirrorDoes DEF Workers, Rests
  <2> QED BY <1>1, <1>12, <2>1, SaveMirrorDoes, TrackDrops, TrackGoes DEF TrackPcs
<1>13. ASSUME NEW h \in Handlers, MarkAny(h) PROVE TrackInv'
  <2>1. /\ h \in Workers /\ UNCHANGED <<session, cleanup, shown>> /\ claim'.ses = claim.ses
        /\ claim' = claim \/ ClaimTo("complete")
    BY <1>13, MarkAnyDoes DEF Workers, Rests, ClaimTo
  <2>2. Closer
    BY <2>1, Closes2Closer DEF IsOpen, Shut, Exists
  <2>3. Settled
    BY <2>1 DEF Settled, Unstarted, ClaimTo
  <2> QED BY <1>13, <2>1, <2>2, <2>3, MarkAnyDoes, TrackDrops DEF TrackPcs
<1>14. ASSUME NEW w \in Workers, UNCHANGED <<session, claim, cleanup, shown>>, Turn(w),
              me'[w] = Idle, lock' \in {lock, None, Dead}
       PROVE  TrackInv'
  BY <1>1, <1>14, TrackIdle
<1>15. ASSUME NEW h \in Handlers, FinishEvent(h) PROVE TrackInv'
  BY <1>14, <1>15, FinishEventDoes DEF Workers, Rests
<1>16. ASSUME NEW w \in Workers, CallFails(w) PROVE TrackInv'
  BY <1>1, <1>16, CallFailsDoes, TrackEnds, TrackDrops DEF TrackPcs
<1>17. ASSUME NEW w \in Workers, Crash(w) PROVE TrackInv'
  BY <1>14, <1>17, CrashDoes
<1>18. ASSUME NEW w \in Workers, Stall(w) PROVE TrackInv'
  BY <1>2, <1>18, StallDoes, NotWorker
<1>19. ASSUME NEW e \in Events, EventExpires(e) PROVE TrackInv'
  BY <1>2, <1>19, EventExpiresDoes
<1>20. CASE LeaseExpires
  BY <1>2, <1>20, NotWorker DEF LeaseExpires
<1>21. CASE ClaimAges
  <2>1. /\ UNCHANGED <<session, cleanup, shown, me, lock>> /\ claim'.ses = claim.ses
        /\ claim'.token = claim.token /\ claim'.status = claim.status /\ claim'.aged
    BY <1>21, ClaimAgesDoes
  <2>2. Closer
    BY <2>1, Closes2Closer DEF IsOpen, Shut, Exists
  <2>3. Settled
    BY <2>1 DEF Settled, Unstarted
  <2> QED BY <2>1, <2>2, <2>3, TrackStays
<1> QED BY <1>4, <1>5, <1>6, <1>7, <1>8, <1>9, <1>10, <1>11, <1>12, <1>13,
           <1>15, <1>16, <1>17, <1>18, <1>19, <1>20, <1>21 DEF Next, Handle

-----------------------------------------------------------------------------
LEMMA Initially == ASSUME Init PROVE TypeOK /\ StripeInv /\ TrackInv
<1>1. /\ NoSession \in SessionRow /\ NoSession.state = "none" /\ NoSession.key = 0
      /\ NoClaim \in ClaimRow /\ NoClaim.status = "none" /\ NoClaim.token = 0
      /\ NoClaim.ses = 0 /\ ~NoClaim.aged /\ NoEvent \in EventRow /\ NoMirror \in MirrorRow
  BY CheckoutAssumption DEF NoSession, SessionRow, NoClaim, ClaimRow, NoEvent, EventRow,
                            NoMirror, MirrorRow
<1>2. TypeOK
  BY <1>1, IdleIs, CheckoutAssumption DEF Init, TypeOK
<1>3. StripeInv
  <2>1. StripeRows
    BY <1>1 DEF Init, StripeRows, Exists
  <2>2. ASSUME NEW w \in Workers PROVE StripeOK(w)
    <3>1. me[w] = Idle /\ claim.token = 0
      BY <1>1 DEF Init
    <3> QED BY <3>1, IdleIs DEF StripeOK, OfClaim
  <2> QED BY <2>1, <2>2 DEF StripeInv
<1>4. TrackInv
  <2>1. \A w \in Workers : TrackOK(w) /\ ~Starting(w)
    BY IdleIs DEF Init, TrackOK, Past, Starting
  <2> QED BY <1>1, <2>1 DEF Init, TrackInv, Gone
<1> QED BY <1>2, <1>3, <1>4

\* What a worker, a row or a customer names exists, and a page that a customer has is the
\* claim's or waits to be closed: whatever fails, and however long a process pauses.
CheckoutInv == TypeOK /\ StripeInv /\ TrackInv
THEOREM Reachable == Spec => []CheckoutInv
<1>1. Init => CheckoutInv
  BY Initially DEF CheckoutInv
<1>2. CheckoutInv /\ [Next]_vars => CheckoutInv'
  <2>1. CASE Next
    BY <2>1, TypeStep, StripeStep, TrackStep DEF CheckoutInv
  <2>2. CASE UNCHANGED vars
    <3>1. TypeOK => TypeOK'
      BY <2>2 DEF vars, stripe, rows, bounds, TypeOK
    <3>2. StripeInv => StripeInv'
      BY <2>2 DEF vars, stripe, rows, bounds, StripeInv, StripeRows, StripeOK, Exists
    <3>3. ASSUME CheckoutInv, TypeOK' PROVE TrackInv'
      BY <2>2, <3>3, Shutters, Settles, TrackStays DEF vars, stripe, rows, bounds, CheckoutInv
    <3> QED BY <3>1, <3>2, <3>3 DEF CheckoutInv
  <2> QED BY <2>1, <2>2
<1> QED BY <1>1, <1>2, PTL DEF Spec

\* Every variable holds a value of its kind.
THEOREM TypeCorrect == Spec => []TypeOK
<1>1. CheckoutInv => TypeOK
  BY DEF CheckoutInv
<1> QED BY <1>1, Reachable, PTL

\* Nobody can pay on a page the account has lost sight of, even when a process pauses
\* for longer than its lease (Checkout, SaveCheckoutSession, retireCheckoutClaim).
THEOREM ShownIsTrackedHolds == Spec => []ShownIsTracked
<1>1. CheckoutInv => ShownIsTracked
  BY DEF CheckoutInv, TrackInv, Tracked, IsOpen, ShownIsTracked
<1> QED BY <1>1, Reachable, PTL

-----------------------------------------------------------------------------
(* Until a pause, one subscription: PayInv. *)

\* Of Stripe and the claim alone.
PayRows ==
    /\ \A s \in Sessions : IsOpen(s) => Live = {} /\ \A x \in Sessions : IsOpen(x) => x = s
    /\ \A s, x \in Live : s = x
    /\ Unstarted => Ready(claim.token)
PayPcs == {"create", "created", "clean", "get", "close", "finish", "verify"}

LEMMA PayParts == PayInv <=> PayRows /\ \A w \in Workers : PayOK(w)
BY DEF PayInv, PayRows

LEMMA PayElsewhere == ASSUME NEW w \in Workers, me'[w].pc \notin PayPcs PROVE PayOK(w)'
BY DEF PayPcs, PayOK, Cleaning

\* Whoever works for a tab has the lease of the account.
LEMMA PayLeased == \A pc \in PayPcs : pc \in Leased
BY Zenon DEF PayPcs, Leased

LEMMA TabLeased ==
    ASSUME LeaseInv, NEW t \in Tabs, Checkout(t)
    PROVE  lock = t
<1>1. t \in Workers
  BY DEF Workers
<1>2. me[t].pc \in Leased
  <2>1. CASE Look(t)
    BY <2>1, Zenon DEF Look, At, Leased
  <2>2. CASE Load(t)
    BY <2>2, Zenon DEF Load, At, Leased
  <2>3. CASE Inspect(t)
    BY <2>3, Zenon DEF Inspect, At, Leased
  <2>4. CASE Verify(t)
    BY <2>4, Zenon DEF Verify, At, Leased
  <2>5. CASE MarkComplete(t)
    BY <2>5, Zenon DEF MarkComplete, At, Leased
  <2>6. CASE Retire(t)
    BY <2>6, Zenon DEF Retire, At, Leased
  <2>7. CASE GiveUp(t)
    BY <2>7, Zenon DEF GiveUp, At, Leased
  <2>8. CASE List(t)
    BY <2>8, Zenon DEF List, At, Leased
  <2>9. CASE Clean(t)
    BY <2>9, Zenon DEF Clean, At, Leased
  <2>10. CASE Get(t)
    BY <2>10, Zenon DEF Get, At, Leased
  <2>11. CASE CloseOpen(t)
    BY <2>11, Zenon DEF CloseOpen, At, Leased
  <2>12. CASE FinishCleanup(t)
    BY <2>12, Zenon DEF FinishCleanup, At, Leased
  <2>13. CASE NewClaim(t)
    BY <2>13, Zenon DEF NewClaim, At, Leased
  <2>14. CASE Create(t)
    BY <2>14, Zenon DEF Create, At, Leased
  <2>15. CASE Late(t)
    BY <2>15, Zenon DEF Late, At, Leased
  <2>16. CASE LateClose(t)
    BY <2>16, Zenon DEF LateClose, At, Leased
  <2>17. CASE LateFinish(t)
    BY <2>17, Zenon DEF LateFinish, At, Leased
  <2>18. CASE Save(t)
    BY <2>18, Zenon DEF Save, At, Leased
  <2> QED BY <2>1, <2>2, <2>3, <2>4, <2>5, <2>6, <2>7, <2>8, <2>9, <2>10, <2>11, <2>12,
             <2>13, <2>14, <2>15, <2>16, <2>17, <2>18 DEF Checkout
<1> QED BY <1>1, <1>2 DEF LeaseInv

\* While w works with the lease of the account nobody else starts or cleans up.
LEMMA PayTurn ==
    ASSUME LeaseInv, NEW w \in Workers, Turn(w), lock = w \/ lock = None,
           PayRows', PayOK(w)'
    PROVE  PayInv'
<1>1. ASSUME NEW v \in Workers, v # w PROVE PayOK(v)'
  <2>1. me'[v] = me[v] /\ lock # v
    BY <1>1, NotWorker DEF Turn
  <2>2. me'[v].pc \notin PayPcs
    BY <2>1, PayLeased DEF LeaseInv
  <2> QED BY <2>2, PayElsewhere
<1>2. PayInv' <=> PayRows' /\ \A v \in Workers : PayOK(v)'
  BY DEF PayInv, PayRows
<1> QED BY <1>1, <1>2

LEMMA PayEnds ==
    ASSUME LeaseInv, NEW w \in Workers, Turn(w), lock = w, PayRows', me'[w].pc \notin PayPcs
    PROVE  PayInv'
BY PayTurn, PayElsewhere

LEMMA PayRowsKept ==
    ASSUME PayInv, UNCHANGED <<session, sub>>, claim' = claim \/ ~Unstarted'
    PROVE  PayRows'
<1>1. Live' = Live /\ (\A s \in Sessions : IsOpen(s)' <=> IsOpen(s))
  BY DEF Live, IsOpen
<1>2. ASSUME claim' = claim PROVE (Unstarted => Ready(claim.token))'
  BY <1>1, <1>2 DEF PayInv, Unstarted, Ready, OfKey, Quiet
<1> QED BY <1>1, <1>2 DEF PayInv, PayRows

\* A worker that stays where it is, or goes to where PayInv says nothing of it.
LEMMA PayKept ==
    ASSUME PayInv, UNCHANGED <<session, sub>>, claim'.token = claim.token,
           NEW v \in Workers, me'[v] = me[v]
    PROVE  PayOK(v)'
<1>1. Live' = Live /\ (\A s \in Sessions : IsOpen(s)' <=> IsOpen(s))
  BY DEF Live, IsOpen
<1>2. PayOK(v)
  BY DEF PayInv
<1>3. me'[v].pc = "create" => (Ready(me[v].token))'
  BY <1>1, <1>2 DEF PayOK, Ready, OfKey, Quiet
<1>4. Cleaning(v)' <=> Cleaning(v)
  BY DEF Cleaning
<1>5. Pending(v)' = Pending(v)
  BY DEF Pending
<1> QED BY <1>1, <1>2, <1>3, <1>4, <1>5 DEF PayOK

LEMMA PayAside ==
    ASSUME PayInv, UNCHANGED <<session, sub>>, claim'.token = claim.token,
           claim' = claim \/ ~Unstarted',
           NEW w \in Workers, Turn(w), me'[w].pc \notin PayPcs
    PROVE  PayInv'
<1>1. \A v \in Workers : PayOK(v)'
  BY PayKept, PayElsewhere DEF Turn
<1>2. PayInv' <=> PayRows' /\ \A v \in Workers : PayOK(v)'
  BY DEF PayInv, PayRows
<1> QED BY <1>1, <1>2, PayRowsKept

\* Closing sessions leaves one page at most.
LEMMA PayCloses ==
    ASSUME TypeOK, PayInv, UNCHANGED <<sub, claim>>, NEW s \in Sessions, Closes(s)
    PROVE  PayRows'
<1>1. /\ Live' = Live /\ (\A x \in Sessions : IsOpen(x)' => IsOpen(x))
      /\ \A k : (OfKey(k))' = OfKey(k)
  BY DEF Live, IsOpen, Closes, OfKey
<1>2. Unstarted' => (Ready(claim.token))'
  BY <1>1 DEF PayInv, Unstarted, Ready, Quiet
<1> QED BY <1>1, <1>2 DEF PayInv, PayRows

LEMMA TabPay ==
    ASSUME TypeOK, StripeInv, TrackInv, LeaseInv, PayInv, NEW t \in Tabs, Checkout(t)
    PROVE  PayInv'
<1>1. t \in Workers /\ TrackOK(t) /\ PayOK(t)
  BY DEF Workers, TrackInv, PayInv
<1>2. lock = t
  BY TabLeased
<1>3. Ends(t) => Turn(t) /\ me'[t].pc = "idle"
  BY IdleIs DEF Ends
<1>4. ASSUME NEW pc, Goes(t, pc)
      PROVE  /\ Turn(t) /\ me'[t].pc = pc /\ me'[t].ses = me[t].ses
             /\ me'[t].todo = me[t].todo /\ me'[t].token = me[t].token
             /\ me'[t].then = me[t].then
  BY <1>4 DEF Goes, Now, Like
<1>5. ASSUME PayRows', Turn(t), me'[t].pc \notin PayPcs PROVE PayInv'
  BY <1>1, <1>2, <1>5, PayEnds
<1>6. ASSUME NEW pc, PayRows', Ends(t) \/ Goes(t, pc), pc \notin PayPcs
      PROVE  PayInv'
  BY <1>3, <1>4, <1>5, <1>6 DEF PayPcs
<1>7. \A s \in Sessions : s \in Live => session[s].state = "complete"
  BY <1>1 DEF Live, StripeInv, StripeRows
<1>8. ASSUME claim' = claim \/ ~Unstarted', UNCHANGED <<session, sub>> PROVE PayRows'
  BY <1>8, PayRowsKept
<1>9. ASSUME Still PROVE PayRows'
  BY <1>8, <1>9 DEF Still, Keeps
<1>10. ASSUME PayRows', Turn(t), PayOK(t)' PROVE PayInv'
  BY <1>1, <1>2, <1>10, PayTurn
<1>11. ASSUME NEW status, ClaimTo(status), status # "creating" PROVE ~Unstarted'
  BY <1>11 DEF ClaimTo, Unstarted
<1>12. CASE Look(t)
  BY <1>6, <1>9, <1>12, LookDoes DEF PayPcs
<1>13. CASE Load(t)
  <2>1. Still /\ me[t].pc = "load" /\ PayRows'
    BY <1>9, <1>13, LoadDoes
  <2>2. CASE Ends(t)
    BY <1>6, <2>1, <2>2 DEF PayPcs
  <2>3. CASE \E pc \in {"list", "inspect", "retire"} : Reads(t, pc)
    <3>1. Turn(t) /\ me'[t].pc \notin PayPcs
      BY <2>3 DEF Reads, Now, Like, PayPcs
    <3> QED BY <1>5, <2>1, <3>1
  <2>4. CASE /\ Reads(t, "create") /\ claim.ses = 0 /\ ~claim.aged
             /\ claim.status \notin {"none", "expired", "complete"}
    <3>1. Unstarted /\ claim' = claim
      BY <1>1, <2>1, <2>4 DEF TypeOK, ClaimRow, StripeInv, StripeRows, Unstarted, Still
    <3>2. (Ready(claim.token))'
      BY <2>1, <3>1 DEF PayRows, Unstarted
    <3>3. Turn(t) /\ me'[t].pc = "create" /\ me'[t].token = claim'.token
      BY <2>4, <3>1 DEF Reads, Now, Like
    <3>4. PayOK(t)'
      BY <3>2, <3>3 DEF PayOK, Cleaning
    <3> QED BY <1>10, <2>1, <3>3, <3>4
  <2> QED BY <1>13, <2>2, <2>3, <2>4, LoadDoes
<1>14. CASE Inspect(t)
  <2>1. me[t].pc = "inspect" /\ PayRows'
    BY <1>8, <1>14, InspectDoes DEF Keeps
  <2>2. CASE \E s : Now(t, "verify", "retire", me[t].token, s, me[t].todo)
    <3>1. Turn(t) /\ me'[t].pc = "verify" /\ me'[t].then = "retire"
      BY <2>2 DEF Now, Like
    <3>2. PayOK(t)'
      BY <3>1 DEF PayOK, Cleaning
    <3> QED BY <1>10, <2>1, <3>1, <3>2
  <2>3. CASE Ends(t) \/ \E pc \in {"complete", "retire"} : Goes(t, pc)
    BY <1>6, <2>1, <2>3 DEF PayPcs
  <2> QED BY <1>14, <2>2, <2>3, InspectDoes
<1>15. CASE Verify(t)
  <2>1. me[t].pc = "verify" /\ PayRows' /\ Still
    BY <1>9, <1>15, VerifyDoes
  <2>2. me[t].then \in {"retire", "finish"} /\ Shut(me[t].ses)
    BY <1>1, <2>1 DEF StripeInv, StripeOK, TrackOK
  <2>3. CASE Ends(t) \/ (me[t].then = "retire" /\ Goes(t, "retire"))
    BY <1>6, <2>1, <2>3 DEF PayPcs
  <2>4. CASE Live = {} /\ me[t].then = "finish" /\ Goes(t, "finish")
    <3>1. Turn(t) /\ me'[t].pc = "finish" /\ me'[t].todo = me[t].todo
      BY <1>4, <2>4
    <3>2. Live' = {} /\ \A s \in Sessions : IsOpen(s)' => IsOpen(s) /\ s # me[t].ses
      BY <2>1, <2>2, <2>4 DEF Still, Keeps, Live, IsOpen, Shut
    <3>3. \A s \in Sessions : IsOpen(s) => s \in Pending(t)
      BY <1>1, <2>1, <2>4 DEF PayOK, Cleaning
    <3>4. \A s \in Sessions : IsOpen(s)' => s \in (Pending(t))'
      BY <3>1, <3>2, <3>3 DEF Pending
    <3>5. PayOK(t)'
      BY <3>1, <3>2, <3>4 DEF PayOK
    <3> QED BY <1>10, <2>1, <3>1, <3>5
  <2> QED BY <1>15, <2>2, <2>3, <2>4, VerifyDoes
<1>16. CASE MarkComplete(t)
  BY <1>6, <1>8, <1>11, <1>16, MarkCompleteDoes DEF PayPcs, Keeps
<1>17. CASE Retire(t)
  BY <1>6, <1>8, <1>17, RetireDoes DEF PayPcs, Keeps
<1>18. CASE GiveUp(t)
  BY <1>6, <1>8, <1>11, <1>18, GiveUpDoes DEF PayPcs, Keeps
<1>19. CASE List(t)
  <2>1. me[t].pc = "list" /\ PayRows' /\ Still
    BY <1>9, <1>19, ListDoes
  <2>2. CASE Now(t, "clean", me[t].then, me[t].token, me[t].ses, Known)
    <3>1. Turn(t) /\ me'[t].pc = "clean" /\ me'[t].todo = Known
      BY <2>2 DEF Now, Like
    <3>2. \A s \in Sessions : IsOpen(s)' \/ s \in Live' => s \in (Pending(t))'
      BY <1>7, <2>1, <3>1 DEF Still, Keeps, Live, IsOpen, Pending, Known
    <3>3. PayOK(t)'
      BY <3>1, <3>2 DEF PayOK
    <3> QED BY <1>10, <2>1, <3>1, <3>3
  <2> QED BY <1>6, <1>19, <2>1, <2>2, ListDoes DEF PayPcs
<1>20. CASE Clean(t)
  <2>1. me[t].pc = "clean" /\ PayRows' /\ UNCHANGED <<session, sub>>
    BY <1>8, <1>20, CleanDoes DEF Keeps
  <2>2. PICK s \in me[t].todo : /\ s \in Sessions
             /\ Now(t, "get", me[t].then, me[t].token, s, me[t].todo \ {s})
    BY <1>20, CleanDoes
  <2>3. Turn(t) /\ me'[t].pc = "get" /\ me'[t].ses = s /\ me'[t].todo = me[t].todo \ {s}
    BY <2>2 DEF Now, Like
  <2>4. \A x \in Sessions : x \in Pending(t) => x \in (Pending(t))'
    BY <2>1, <2>3 DEF Pending
  <2>5. PayOK(t)'
    BY <1>1, <2>1, <2>3, <2>4 DEF PayOK, Cleaning, Live, IsOpen
  <2> QED BY <1>10, <2>1, <2>3, <2>5
<1>21. CASE Get(t)
  <2>1. me[t].pc = "get" /\ PayRows' /\ Still
    BY <1>9, <1>21, GetDoes
  <2>2. \A x \in Sessions : IsOpen(x)' \/ x \in Live' => x \in Pending(t)
    BY <1>1, <2>1 DEF PayOK, Cleaning, Still, Keeps, Live, IsOpen
  <2>3. ASSUME NEW pc, NEW then, pc \in {"verify", "close", "finish"},
               Now(t, pc, then, me[t].token, me[t].ses, me[t].todo),
               pc = "finish" =>
                  \A x \in Sessions : IsOpen(x)' \/ x \in Live' => x # me[t].ses
        PROVE  PayInv'
    <3>1. Turn(t) /\ me'[t].pc = pc /\ me'[t].ses = me[t].ses /\ me'[t].todo = me[t].todo
      BY <2>3 DEF Now, Like
    <3>2. \A x \in Sessions : IsOpen(x)' \/ x \in Live' => x \in (Pending(t))'
      BY <2>1, <2>2, <2>3, <3>1 DEF Pending
    <3>3. PayOK(t)'
      BY <2>3, <3>1, <3>2 DEF PayOK
    <3> QED BY <1>10, <2>1, <3>1, <3>3
  <2>4. CASE /\ session[me[t].ses].state \notin {"complete", "open"}
             /\ Goes(t, "finish")
    <3>1. \A x \in Sessions : IsOpen(x)' \/ x \in Live' => x # me[t].ses
      BY <1>7, <2>1, <2>4 DEF Still, Keeps, Live, IsOpen
    <3> QED BY <2>3, <2>4, <3>1 DEF Goes
  <2>5. CASE Goes(t, "close") \/ Now(t, "verify", "finish", me[t].token, me[t].ses, me[t].todo)
    BY <2>3, <2>5 DEF Goes
  <2> QED BY <1>6, <1>21, <2>1, <2>4, <2>5, GetDoes DEF PayPcs
<1>22. CASE CloseOpen(t)
  <2>1. PICK s \in Sessions : s = me[t].ses
    BY <1>22, CloseOpenDoes
  <2>2. me[t].pc = "close" /\ UNCHANGED <<sub, claim>> /\ Closes(s)
    BY <1>22, <2>1, CloseOpenDoes DEF Keeps
  <2>3. PayRows'
    BY <2>2, PayCloses
  <2>4. CASE session[s].state # "complete" /\ Goes(t, "finish")
    <3>1. Turn(t) /\ me'[t].pc = "finish" /\ me'[t].todo = me[t].todo
      BY <1>4, <2>4
    <3>2. \A x \in Sessions : IsOpen(x)' \/ x \in Live' => (IsOpen(x) \/ x \in Live) /\ x # s
      BY <1>7, <2>2, <2>4 DEF Live, IsOpen, Closes
    <3>3. \A x \in Sessions : IsOpen(x)' \/ x \in Live' => x \in (Pending(t))'
      BY <1>1, <2>1, <2>2, <3>1, <3>2 DEF PayOK, Cleaning, Pending
    <3>4. PayOK(t)'
      BY <3>1, <3>3 DEF PayOK
    <3> QED BY <1>10, <2>2, <2>3, <3>1, <3>4
  <2> QED BY <1>6, <1>22, <2>1, <2>2, <2>3, <2>4, CloseOpenDoes DEF PayPcs
<1>23. CASE FinishCleanup(t)
  <2>1. me[t].pc = "finish" /\ PayRows' /\ UNCHANGED <<session, sub>>
    BY <1>8, <1>23, FinishCleanupDoes DEF Keeps
  <2>2. CASE Goes(t, "clean")
    <3>1. Turn(t) /\ me'[t].pc = "clean" /\ me'[t].todo = me[t].todo
      BY <1>4, <2>2
    <3>2. \A x \in Sessions : IsOpen(x)' \/ x \in Live' => x \in (Pending(t))'
      BY <1>1, <2>1, <3>1 DEF PayOK, Cleaning, Pending, Live, IsOpen
    <3>3. PayOK(t)'
      BY <3>1, <3>2 DEF PayOK
    <3> QED BY <1>10, <2>1, <3>1, <3>3
  <2> QED BY <1>6, <1>23, <2>1, <2>2, FinishCleanupDoes DEF PayPcs
<1>24. CASE NewClaim(t)
  <2>1. me[t].pc = "clean" /\ me[t].todo = {} /\ UNCHANGED <<session, sub>>
    BY <1>24, NewClaimDoes DEF Keeps
  <2>2. Quiet
    BY <1>1, <2>1 DEF PayOK, Cleaning, Pending, Quiet, Live
  <2>3. \A k : (Ready(k))'
    BY <2>1, <2>2 DEF Ready, Quiet, Live, IsOpen
  <2>4. PayRows'
    BY <2>1, <2>3 DEF PayInv, PayRows, Live, IsOpen
  <2>5. CASE Ends(t)
    BY <1>6, <2>1, <2>4, <2>5 DEF PayPcs
  <2>6. CASE Claims /\ Now(t, "create", me[t].then, claim.token + 1, 0, me[t].todo)
    <3>1. Turn(t) /\ me'[t].pc = "create" /\ me'[t].token = claim'.token
      BY <2>6 DEF Now, Like, Claims
    <3>2. PayOK(t)'
      BY <2>3, <3>1 DEF PayOK, Cleaning
    <3> QED BY <1>10, <2>1, <2>4, <3>1, <3>2
  <2> QED BY <1>24, <2>5, <2>6, NewClaimDoes
<1>25. CASE Create(t)
  <2>1. me[t].pc = "create" /\ UNCHANGED <<sub, claim>> /\ me[t].token = claim.token
    BY <1>1, <1>25, CreateDoes DEF Keeps, PayOK
  <2>2. ASSUME NEW s, Now(t, "created", me[t].then, me[t].token, s, me[t].todo), PayRows'
        PROVE  PayInv'
    <3>1. Turn(t) /\ me'[t].pc = "created" /\ me'[t].token = claim'.token
      BY <2>1, <2>2 DEF Now, Like
    <3>2. PayOK(t)'
      BY <3>1 DEF PayOK, Cleaning
    <3> QED BY <1>10, <2>1, <2>2, <3>1, <3>2
  <2>3. ASSUME NEW s \in Sessions, Creates(s, me[t].token), OfKey(me[t].token) = {}
        PROVE  PayRows'
    <3>1. Quiet
      BY <1>1, <2>1, <2>3 DEF PayOK, Ready
    <3>2. Live' = {} /\ \A x \in Sessions : IsOpen(x)' => x = s
      BY <2>1, <2>3, <3>1 DEF Quiet, Live, IsOpen, Creates
    <3>3. s \in (OfKey(claim.token))'
      BY <2>1, <2>3 DEF OfKey, Creates
    <3> QED BY <3>2, <3>3 DEF PayRows, Ready
  <2>4. CASE session' = session /\ Ends(t)
    BY <1>6, <1>8, <2>1, <2>4 DEF PayPcs
  <2>5. CASE session' = session /\
             \E s \in OfKey(me[t].token) :
                Now(t, "created", me[t].then, me[t].token, s, me[t].todo)
    BY <1>8, <2>1, <2>2, <2>5
  <2> QED BY <1>25, <2>2, <2>3, <2>4, <2>5, CreateDoes
<1>26. CASE Late(t)
  BY <1>2, <1>26, LateDoes
<1>27. CASE LateClose(t)
  <2>1. PICK s \in Sessions : s = me[t].ses
    BY <1>27, LateCloseDoes
  <2>2. PayRows' /\ me[t].pc = "lateClose"
    BY <1>27, <2>1, LateCloseDoes, PayCloses DEF Keeps
  <2> QED BY <1>6, <1>27, <2>2, LateCloseDoes DEF PayPcs
<1>28. CASE LateFinish(t)
  BY <1>6, <1>8, <1>28, LateFinishDoes DEF PayPcs, Keeps
<1>29. CASE Save(t)
  <2>1. me[t].pc = "created" /\ UNCHANGED <<session, sub>>
    BY <1>29, SaveDoes DEF Keeps
  <2>2. claim' = claim \/ ~Unstarted'
    BY <1>29, SaveDoes DEF Saves, Unstarted
  <2>3. PayRows'
    BY <1>8, <2>1, <2>2
  <2> QED BY <1>6, <1>29, <2>1, <2>3, SaveDoes DEF PayPcs
<1> QED BY <1>12, <1>13, <1>14, <1>15, <1>16, <1>17, <1>18, <1>19, <1>20, <1>21, <1>22,
           <1>23, <1>24, <1>25, <1>26, <1>27, <1>28, <1>29 DEF Checkout

\* Nobody moves, and the claim is the same or is not to be started any more.
LEMMA PayStays ==
    ASSUME PayInv, UNCHANGED <<session, sub, me>>, claim'.token = claim.token,
           claim' = claim \/ ~Unstarted'
    PROVE  PayInv'
<1>1. \A v \in Workers : PayOK(v)'
  BY PayKept
<1>2. PayInv' <=> PayRows' /\ \A v \in Workers : PayOK(v)'
  BY DEF PayInv, PayRows
<1> QED BY <1>1, <1>2, PayRowsKept

\* The one page there is gets paid for: it was open, so no subscription ran, and nobody
\* finds every page closed.
LEMMA PayPay ==
    ASSUME TypeOK, PayInv, NEW s \in Sessions, Pay(s)
    PROVE  PayInv'
<1>1. /\ UNCHANGED <<claim, me>> /\ IsOpen(s) /\ Writes(s, "complete", session[s].key)
      /\ sub' = [sub EXCEPT ![s] = "live"]
  BY PayDoes DEF rows
<1>2. Live = {} /\ \A x \in Sessions : IsOpen(x) => x = s
  BY <1>1 DEF PayInv
<1>3. Live' = {s} /\ \A x \in Sessions : ~IsOpen(x)'
  BY <1>1, <1>2 DEF TypeOK, Live, IsOpen, Writes
<1>4. ASSUME NEW k, Ready(k) PROVE (Ready(k))'
  <2>1. OfKey(k) # {}
    BY <1>1, <1>4 DEF Ready, Quiet
  <2>2. (OfKey(k))' = OfKey(k)
    BY <1>1 DEF OfKey, Writes
  <2> QED BY <2>1, <2>2 DEF Ready
<1>5. PayRows'
  <2>1. Unstarted' => (Ready(claim.token))'
    <3>1. Unstarted' => Ready(claim.token)
      BY <1>1 DEF Unstarted, PayInv
    <3> QED BY <1>1, <1>4, <3>1
  <2> QED BY <1>3, <2>1 DEF PayRows
<1>6. ASSUME NEW v \in Workers PROVE PayOK(v)'
  <2>1. PayOK(v)
    BY DEF PayInv
  <2>2. me'[v].pc = "create" => (Ready(me[v].token))'
    <3>1. me'[v].pc = "create" => Ready(me'[v].token)
      BY <1>1, <2>1 DEF PayOK
    <3> QED BY <1>1, <1>4, <3>1
  <2>3. (Cleaning(v) <=> Cleaning(v)') /\ (Pending(v))' = Pending(v)
    BY <1>1 DEF Cleaning, Pending
  <2> QED BY <1>1, <1>3, <2>1, <2>2, <2>3 DEF PayOK
<1> QED BY <1>5, <1>6 DEF PayInv, PayRows

LEMMA PayLess ==
    ASSUME PayInv, UNCHANGED <<claim, me>>, Live' \subseteq Live,
           \A x \in Sessions : IsOpen(x)' => IsOpen(x),
           \A v \in Workers : me[v].pc \in PayPcs => \A k : (OfKey(k))' = OfKey(k),
           Unstarted => \/ (OfKey(claim.token))' # {}
                        \/ OfKey(claim.token) = {}
    PROVE  PayInv'
<1>1. Quiet => Quiet'
  BY DEF Quiet
<1>2. PayRows'
  <2>1. Unstarted' => Unstarted /\ Ready(claim.token)
    BY DEF PayInv, Unstarted
  <2> QED BY <1>1, <2>1 DEF PayInv, PayRows, Ready
<1>3. ASSUME NEW v \in Workers PROVE PayOK(v)'
  <2>1. CASE me[v].pc \notin PayPcs
    BY <2>1, PayElsewhere
  <2>2. CASE me[v].pc \in PayPcs
    <3>1. PayOK(v) /\ \A k : (OfKey(k))' = OfKey(k)
      BY <2>2 DEF PayInv
    <3>2. me'[v].pc = "create" => (Ready(me[v].token))'
      BY <1>1, <3>1 DEF PayOK, Ready
    <3>3. (Cleaning(v) <=> Cleaning(v)') /\ (Pending(v))' = Pending(v)
      BY DEF Cleaning, Pending
    <3> QED BY <3>1, <3>2, <3>3 DEF PayOK
  <2> QED BY <2>1, <2>2
<1> QED BY <1>2, <1>3 DEF PayInv, PayRows

\* A day passes: nobody holds the lease, and a claim whose page it was is too old to start.
LEMMA PaySessionEnds ==
    ASSUME TypeOK, StripeInv, LeaseInv, PayInv, NEW s \in Sessions, SessionEnds(s)
    PROVE  PayInv'
<1>1. /\ UNCHANGED <<sub, claim, me>> /\ IsOpen(s) /\ lock = None /\ Writes(s, "expired", 0)
      /\ claim.status = "creating" /\ claim.token = session[s].key => claim.aged
  BY SessionEndsDoes DEF rows
<1>2. \A v \in Workers : me[v].pc \notin PayPcs
  BY <1>1, NotWorker, PayLeased DEF LeaseInv
<1>3. Live' = Live /\ \A x \in Sessions : IsOpen(x)' => IsOpen(x)
  BY <1>1 DEF Live, IsOpen, Writes
<1>4. Unstarted => \A x \in OfKey(claim.token) : x # s /\ x \in (OfKey(claim.token))'
  BY <1>1 DEF Unstarted, OfKey, Writes
<1> QED BY <1>1, <1>2, <1>3, <1>4, PayLess

LEMMA PayStep ==
    ASSUME CheckoutInv, LeaseInv, PayInv, Next, stalls' = stalls
    PROVE  PayInv'
<1> USE DEF stripe, rows, bounds
<1>1. TypeOK /\ StripeInv /\ TrackInv
  BY DEF CheckoutInv
<1>2. ASSUME UNCHANGED <<session, sub, claim, me>> PROVE PayInv'
  BY <1>2, PayStays
<1>3. ASSUME UNCHANGED <<session, sub>>, claim'.token = claim.token,
             claim' = claim \/ ~Unstarted', NEW w \in Workers, Turn(w),
             me'[w].pc \in {"idle", "look", "wait", "read", "mirror", "mark", "done", "failed"}
      PROVE  PayInv'
  BY <1>3, PayAside DEF PayPcs
<1>4. ASSUME UNCHANGED <<session, sub, claim>>, NEW w \in Workers, NEW pc,
             Ends(w) \/ Goes(w, pc) \/ Drops(w, pc), pc \in {"mark", "done", "failed"}
      PROVE  PayInv'
  <2>1. Turn(w) /\ me'[w].pc \in {"idle", pc}
    BY <1>4, IdleIs DEF Ends, Goes, Now, Drops, Like
  <2> QED BY <1>3, <1>4, <2>1
<1>5. ASSUME NEW s \in Sessions, Pay(s) PROVE PayInv'
  BY <1>1, <1>5, PayPay
<1>6. ASSUME NEW s \in Sessions, SubscriptionEnds(s) PROVE PayInv'
  <2>1. UNCHANGED <<session, claim, me>> /\ sub' = [sub EXCEPT ![s] = "ended"]
    BY <1>1, <1>6, SubscriptionEndsDoes
  <2>2. Live' \subseteq Live
    BY <1>1, <2>1 DEF Live, TypeOK
  <2>3. (\A x \in Sessions : IsOpen(x)' => IsOpen(x)) /\ \A k : (OfKey(k))' = OfKey(k)
    BY <2>1 DEF IsOpen, OfKey
  <2> QED BY <2>1, <2>2, <2>3, PayLess
<1>7. ASSUME NEW s \in Sessions, SessionEnds(s) PROVE PayInv'
  BY <1>1, <1>7, PaySessionEnds
<1>8. ASSUME NEW t \in Tabs, Checkout(t) PROVE PayInv'
  BY <1>1, <1>8, TabPay
<1>9. ASSUME NEW t \in Tabs, NEW p \in Plans, Visit(t, p) PROVE PayInv'
  BY <1>1, <1>3, <1>9, VisitDoes DEF Workers, Like, Still, Keeps
<1>10. ASSUME NEW h \in Handlers, NEW e \in Events, Deliver(h, e) PROVE PayInv'
  BY <1>1, <1>3, <1>10, DeliverDoes DEF Workers, Rests
<1>11. ASSUME NEW h \in Handlers, Acquire(h) PROVE PayInv'
  BY <1>1, <1>3, <1>11, AcquireDoes DEF Workers, Like, Rests
<1>12. ASSUME NEW h \in Handlers, Read(h) PROVE PayInv'
  <2>1. h \in Workers /\ UNCHANGED <<session, sub, claim>>
    BY <1>1, <1>12, ReadDoes DEF Workers, Rests
  <2>2. Turn(h) /\ me'[h].pc \in {"mirror", "failed"}
    BY <1>1, <1>12, ReadDoes DEF Drops, Like
  <2> QED BY <1>3, <2>1, <2>2
<1>13. ASSUME NEW h \in Handlers, SaveMirror(h) PROVE PayInv'
  BY <1>1, <1>4, <1>13, SaveMirrorDoes DEF Workers, Rests
<1>14. ASSUME NEW h \in Handlers, MarkAny(h) PROVE PayInv'
  <2>1. /\ h \in Workers /\ UNCHANGED <<session, sub>> /\ Drops(h, "done")
        /\ claim' = claim \/ ClaimTo("complete")
    BY <1>1, <1>14, MarkAnyDoes DEF Workers, Rests
  <2>2. claim'.token = claim.token /\ (claim' = claim \/ ~Unstarted')
    BY <2>1 DEF ClaimTo, Unstarted
  <2>3. Turn(h) /\ me'[h].pc = "done"
    BY <2>1 DEF Drops, Like
  <2> QED BY <1>3, <2>1, <2>2, <2>3
<1>15. ASSUME NEW h \in Handlers, FinishEvent(h) PROVE PayInv'
  BY <1>1, <1>3, <1>15, FinishEventDoes, IdleIs DEF Workers, Rests
<1>16. ASSUME NEW w \in Workers, CallFails(w) PROVE PayInv'
  BY <1>1, <1>4, <1>16, CallFailsDoes
<1>17. ASSUME NEW w \in Workers, Crash(w) PROVE PayInv'
  BY <1>1, <1>3, <1>17, CrashDoes, IdleIs
<1>18. ASSUME NEW w \in Workers, Stall(w) PROVE FALSE
  <2>1. stalls' = stalls + 1 /\ stalls \in Nat
    BY <1>1, <1>18, StallDoes DEF TypeOK
  <2> QED BY <2>1
<1>19. ASSUME NEW e \in Events, EventExpires(e) PROVE PayInv'
  BY <1>1, <1>2, <1>19, EventExpiresDoes
<1>20. CASE LeaseExpires
  BY <1>2, <1>20 DEF LeaseExpires
<1>21. CASE ClaimAges
  BY <1>1, <1>21, ClaimAgesDoes, PayStays DEF Unstarted
<1> QED BY <1>5, <1>6, <1>7, <1>8, <1>9, <1>10, <1>11, <1>12, <1>13, <1>14,
           <1>15, <1>16, <1>17, <1>18, <1>19, <1>20, <1>21 DEF Next, Handle

\* Only a pause counts as one.
LEMMA CalmStays ==
    ASSUME TypeOK, Next, stalls' = 0
    PROVE  stalls' = stalls
<1> USE DEF bounds
<1>1. ASSUME NEW s \in Sessions, Pay(s) \/ SubscriptionEnds(s) \/ SessionEnds(s)
      PROVE  stalls' = stalls
  BY <1>1 DEF Pay, SubscriptionEnds, SessionEnds
<1>2. ASSUME NEW t \in Tabs, Checkout(t) PROVE stalls' = stalls
  <2>1. CASE Look(t) \/ Load(t) \/ Inspect(t)
    BY <2>1 DEF Look, Load, Inspect
  <2>2. CASE Verify(t) \/ MarkComplete(t) \/ Retire(t)
    BY <2>2 DEF Verify, MarkComplete, Retire
  <2>3. CASE GiveUp(t) \/ List(t) \/ Clean(t)
    BY <2>3, Zenon DEF GiveUp, List, Clean
  <2>4. CASE Get(t) \/ CloseOpen(t) \/ FinishCleanup(t)
    BY <2>4 DEF Get, CloseOpen, FinishCleanup
  <2>5. CASE NewClaim(t) \/ Create(t) \/ Late(t)
    BY <2>5 DEF NewClaim, Create, Late
  <2>6. CASE LateClose(t) \/ LateFinish(t) \/ Save(t)
    BY <2>6 DEF LateClose, LateFinish, Save
  <2> QED BY <1>2, <2>1, <2>2, <2>3, <2>4, <2>5, <2>6 DEF Checkout
<1>3. ASSUME NEW t \in Tabs, NEW p \in Plans, Visit(t, p) PROVE stalls' = stalls
  BY <1>3 DEF Visit
<1>4. ASSUME NEW h \in Handlers, Handle(h) \/ Acquire(h) \/ \E e \in Events : Deliver(h, e)
      PROVE  stalls' = stalls
  <2>1. CASE Read(h) \/ SaveMirror(h) \/ MarkAny(h)
    BY <2>1 DEF Read, SaveMirror, MarkAny
  <2>2. CASE FinishEvent(h) \/ Acquire(h) \/ \E e \in Events : Deliver(h, e)
    BY <2>2, Zenon DEF FinishEvent, Acquire, Deliver
  <2> QED BY <1>4, <2>1, <2>2 DEF Handle
<1>5. ASSUME NEW w \in Workers, CallFails(w) \/ Crash(w) PROVE stalls' = stalls
  BY <1>5 DEF CallFails, Crash
<1>6. ASSUME NEW w \in Workers, Stall(w) PROVE FALSE
  <2>1. stalls' = stalls + 1 /\ stalls \in Nat
    BY <1>6, StallDoes DEF TypeOK
  <2> QED BY <2>1
<1>7. CASE (\E e \in Events : EventExpires(e)) \/ LeaseExpires \/ ClaimAges
  BY <1>7 DEF EventExpires, LeaseExpires, ClaimAges
<1> QED BY <1>1, <1>2, <1>3, <1>4, <1>5, <1>6, <1>7 DEF Next

\* Until a process pauses for longer than its lease, the lease keeps out whoever else would
\* start a checkout, and whoever starts one finds every page closed.
CalmInv == Calm => LeaseInv /\ PayInv
THEOREM PayReachable == Spec => []CalmInv
<1>1. Init => CalmInv
  <2> SUFFICES ASSUME Init PROVE LeaseInv /\ PayInv
    BY DEF CalmInv
  <2>1. LeaseInv
    BY IdleIs DEF Init, LeaseInv, Leased
  <2>2. Live = {} /\ ~Unstarted /\ \A s \in Sessions : ~IsOpen(s)
    BY DEF Init, Live, IsOpen, NoSession, Unstarted, NoClaim
  <2>3. \A w \in Workers : PayOK(w)
    BY IdleIs DEF Init, PayOK, Cleaning
  <2> QED BY <2>1, <2>2, <2>3 DEF PayInv
<1>2. CheckoutInv /\ CheckoutInv' /\ CalmInv /\ [Next]_vars => CalmInv'
  <2> SUFFICES ASSUME CheckoutInv, CheckoutInv', CalmInv, [Next]_vars, Calm'
               PROVE  LeaseInv' /\ PayInv'
    BY DEF CalmInv
  <2>1. CASE Next
    <3>1. stalls' = stalls
      BY <2>1, CalmStays DEF CheckoutInv, Calm
    <3>2. LeaseInv /\ PayInv
      BY <3>1 DEF CalmInv, Calm
    <3> QED BY <2>1, <3>1, <3>2, LeaseStep, PayStep DEF CheckoutInv
  <2>2. CASE UNCHANGED vars
    <3>1. LeaseInv /\ PayInv
      BY <2>2 DEF CalmInv, Calm, vars, bounds
    <3>2. LeaseInv'
      BY <2>2, <3>1 DEF vars, LeaseInv
    <3> QED BY <2>2, <3>1, <3>2, PayStays DEF vars, stripe, rows
  <2> QED BY <2>1, <2>2
<1> QED BY <1>1, <1>2, Reachable, PTL DEF Spec

\* Never two subscriptions at a time, whatever fails and whoever dies, unless a process
\* paused for longer than its lease ("can only recover the same session rather than create
\* another customer or subscription", Checkout).
THEOREM OneSubscriptionHolds == Spec => []OneSubscription
<1>1. CalmInv => OneSubscription
  <2> SUFFICES ASSUME PayInv PROVE Cardinality(Live) <= 1
    BY DEF CalmInv, Calm, OneSubscription
  <2>1. CASE Live = {}
    BY <2>1, FS_EmptySet
  <2>2. CASE Live # {}
    <3>1. PICK s \in Live : TRUE
      BY <2>2
    <3>2. Live = {s}
      BY <3>1 DEF PayInv
    <3>3. Cardinality({s}) = 1
      BY FS_Singleton
    <3> QED BY <3>2, <3>3
  <2> QED BY <2>1, <2>2
<1> QED BY <1>1, PayReachable, PTL

-----------------------------------------------------------------------------
(* Every event is a payment or an end: EventInv. *)

LEMMA Counts ==
    /\ MaxSessions \in Nat /\ IsFiniteSet(Sessions) /\ Cardinality(Sessions) = MaxSessions
    /\ IsFiniteSet(Paid) /\ Cardinality(Paid) \in Nat
    /\ IsFiniteSet(Ended) /\ Cardinality(Ended) \in Nat
    /\ Cardinality(Paid) <= MaxSessions
<1>1. MaxSessions \in Nat /\ 1 \in Int /\ MaxSessions \in Int
  BY CheckoutAssumption
<1>2. IsFiniteSet(Sessions)
  BY <1>1, FS_Interval DEF Sessions
<1>3. Cardinality(Sessions) = MaxSessions
  <2>1. Cardinality(1..MaxSessions) = IF 1 > MaxSessions THEN 0 ELSE MaxSessions - 1 + 1
    BY <1>1, FS_Interval
  <2> QED BY <1>1, <2>1 DEF Sessions
<1>4. Paid \subseteq Sessions /\ Ended \subseteq Sessions
  BY DEF Paid, Ended
<1>5. IsFiniteSet(Paid) /\ IsFiniteSet(Ended) /\ Cardinality(Paid) <= MaxSessions
  BY <1>2, <1>3, <1>4, FS_Subset
<1> QED BY <1>1, <1>2, <1>3, <1>5, FS_CardinalityType

LEMMA UpTo == \A n \in Nat : Cardinality(1..n) = n
<1> SUFFICES ASSUME NEW n \in Nat PROVE Cardinality(1..n) = n
  OBVIOUS
<1>1. Cardinality(1..n) = IF 1 > n THEN 0 ELSE n - 1 + 1
  BY FS_Interval
<1> QED BY <1>1

LEMMA LastIs == ASSUME EventInv PROVE Last \in Nat /\ (Last = 0 \/ Last \in Events)
<1>1. Last = Cardinality(Paid) + Cardinality(Ended) /\ Cardinality(Ended) <= MaxEnds
  BY DEF EventInv
<1>2. MaxEnds \in Nat
  BY CheckoutAssumption
<1> QED BY <1>1, <1>2, Counts DEF Events

\* One more payment or end is one more event.
LEMMA OneMore ==
    ASSUME TypeOK, TypeOK', EventInv, NEW kind \in {"completed", "ended"}, Emits(kind), me' = me,
           Cardinality(Paid') + Cardinality(Ended') = Last + 1, Last + 1 \in Events,
           Cardinality(Ended') <= MaxEnds
    PROVE  EventInv' /\ Last' = Last + 1 /\ event'[Last + 1].state = "due"
<1>1. Last \in Nat /\ Last + 1 \in Nat
  BY LastIs
<1>2. /\ event'[Last + 1].kind = kind /\ event'[Last + 1].state = "due"
      /\ \A e \in Events : e # Last + 1 => event'[e] = event[e]
  BY DEF Emits
<1>3. Happened' = Happened \cup {Last + 1}
  BY <1>2 DEF Happened
<1>4. Happened' = 1..(Last + 1)
  BY <1>1, <1>3 DEF EventInv
<1>5. Last' = Last + 1
  BY <1>1, <1>4, UpTo DEF Last
<1>6. \A e \in Events : event'[e].kind = "none" => event'[e].state = "none"
  BY <1>2 DEF EventInv
<1>7. \A w \in Workers : me'[w].e <= Last + 1
  <2> SUFFICES ASSUME NEW w \in Workers PROVE me'[w].e <= Last + 1
    OBVIOUS
  <2>1. me[w].e <= Last /\ me[w].e \in Nat
    BY IsWorker, CheckoutAssumption DEF EventInv, Worker
  <2> QED BY <1>1, <2>1
<1>8. (Last = Cardinality(Paid) + Cardinality(Ended))'
  BY <1>5
<1> QED BY <1>2, <1>4, <1>5, <1>6, <1>7, <1>8 DEF EventInv

LEMMA PayMore ==
    ASSUME TypeOK, TypeOK', StripeInv, EventInv, NEW s \in Sessions, Pay(s)
    PROVE  EventInv' /\ Last' = Last + 1 /\ event'[Last + 1].state = "due"
<1>1. IsOpen(s) /\ sub' = [sub EXCEPT ![s] = "live"] /\ Emits("completed") /\ me' = me
  BY PayDoes
<1>2. sub[s] = "none"
  BY <1>1 DEF StripeInv, StripeRows, IsOpen, TypeOK
<1>3. Paid' = Paid \cup {s} /\ Ended' = Ended /\ s \notin Paid
  BY <1>1, <1>2 DEF Paid, Ended, TypeOK
<1>4. Cardinality(Paid') = Cardinality(Paid) + 1
  BY <1>3, Counts, FS_AddElement
<1>5. Cardinality(Paid) + 1 <= MaxSessions
  <2>1. Paid \cup {s} \subseteq Sessions
    BY DEF Paid
  <2> QED BY <1>3, <1>4, <2>1, Counts, FS_Subset
<1>6. /\ Last = Cardinality(Paid) + Cardinality(Ended) /\ Cardinality(Ended) <= MaxEnds
      /\ MaxEnds \in Nat
  BY CheckoutAssumption DEF EventInv
<1>7. Last + 1 \in Events /\ Cardinality(Paid') + Cardinality(Ended') = Last + 1
  BY <1>3, <1>4, <1>5, <1>6, Counts DEF Events
<1> QED BY <1>1, <1>3, <1>6, <1>7, OneMore

LEMMA EndMore ==
    ASSUME TypeOK, TypeOK', EventInv, NEW s \in Sessions, SubscriptionEnds(s)
    PROVE  EventInv' /\ Last' = Last + 1 /\ event'[Last + 1].state = "due"
<1>1. /\ sub[s] = "live" /\ sub' = [sub EXCEPT ![s] = "ended"] /\ Emits("ended") /\ me' = me
      /\ Cardinality(Ended) < MaxEnds
  BY SubscriptionEndsDoes
<1>2. Paid' = Paid /\ Ended' = Ended \cup {s} /\ s \notin Ended
  BY <1>1 DEF Paid, Ended, TypeOK
<1>3. Cardinality(Ended') = Cardinality(Ended) + 1
  BY <1>2, Counts, FS_AddElement
<1>4. Last = Cardinality(Paid) + Cardinality(Ended) /\ MaxEnds \in Nat
  BY CheckoutAssumption DEF EventInv
<1>5. Last + 1 \in Events /\ Cardinality(Paid') + Cardinality(Ended') = Last + 1
      /\ Cardinality(Ended') <= MaxEnds
  BY <1>1, <1>2, <1>3, <1>4, Counts DEF Events
<1> QED BY <1>1, <1>5, OneMore

-----------------------------------------------------------------------------
(* Until a pause, the mirror follows: MirrorInv. *)

\* A step that brings no event, and after which no more is handled.
Quietly(w) ==
    /\ me'[w].e = 0 \/ me'[w].e = me[w].e \/ me'[w].e \in Happened
    /\ me'[w].pc \in {"mark", "done"} => me[w].pc \in {"mark", "done"} /\ me'[w].e = me[w].e
    /\ me'[w].pc = "mirror" => me[w].pc = "mirror" /\ me'[w].e = me[w].e
                               /\ me'[w].read = me[w].read
NoNews(e) ==
    /\ event'[e].kind = event[e].kind
    /\ event[e].kind = "none" => event'[e].state = "none"
    /\ event'[e].state = "done" =>
          \/ event[e].state = "done"
          \/ \E h \in Workers : me[h].e = e /\ me[h].pc \in {"mark", "done"}

LEMMA SameEvents ==
    ASSUME EventInv, sub' = sub, \A e \in Events : NoNews(e),
           \A w \in Workers : me'[w].e = 0 \/ me'[w].e = me[w].e \/ me'[w].e \in Happened
    PROVE  EventInv' /\ Last' = Last
<1>1. Happened' = Happened
  BY DEF Happened, NoNews
<1>2. Last' = Last
  BY <1>1 DEF Last
<1>3. Paid' = Paid /\ Ended' = Ended
  BY DEF Paid, Ended
<1>4. \A e \in Events : event'[e].kind = "none" => event'[e].state = "none"
  BY DEF NoNews
<1>5. Last \in Nat /\ \A e \in Happened : e <= Last
  BY LastIs DEF EventInv
<1>6. \A w \in Workers : me'[w].e <= Last
  BY <1>5 DEF EventInv
<1> QED BY <1>1, <1>2, <1>3, <1>4, <1>6 DEF EventInv

LEMMA SameMirror ==
    ASSUME EventInv, MirrorInv, UNCHANGED <<sub, mirror>>, Last' = Last,
           \A e \in Events : NoNews(e), \A w \in Workers : Quietly(w)
    PROVE  MirrorInv'
<1>1. Handled' => Handled
  <2>1. CASE Last = 0
    BY <2>1 DEF Handled
  <2>2. CASE Last \in Events
    BY <2>2 DEF Handled, NoNews, Quietly
  <2> QED BY <2>1, <2>2, LastIs
<1>2. Selected' = Selected /\ Live' = Live
  BY DEF Selected, Live
<1>3. \A r : (Matches(r))' <=> Matches(r)
  BY <1>2 DEF Matches
<1> QED BY <1>1, <1>3 DEF MirrorInv, Quietly, Matches

\* A tab has nothing to do with events.
LEMMA TabAside ==
    ASSUME TypeOK, StripeInv, NEW t \in Tabs, Checkout(t)
    PROVE  Keeps /\ Turn(t) /\ me'[t].e \in {0, me[t].e} /\ me'[t].pc \in {"idle"} \cup TabPcs
<1>1. t \in Workers
  BY DEF Workers
<1> DEFINE P == Turn(t) /\ me'[t].e \in {0, me[t].e} /\ me'[t].pc \in {"idle"} \cup TabPcs
<1>2. Ends(t) => P
  BY IdleIs DEF Ends
<1>3. ASSUME NEW pc \in TabPcs, NEW then, NEW token, NEW ses, NEW todo,
             Now(t, pc, then, token, ses, todo)
      PROVE  P
  BY <1>3 DEF Now, Like
<1>4. ASSUME NEW pc \in TabPcs, Goes(t, pc) PROVE P
  BY <1>4 DEF Goes, Now, Like
<1> SUFFICES Keeps /\ P
  OBVIOUS
<1> HIDE DEF P
<1>5. {"load", "list", "inspect", "retire", "create", "complete", "verify", "giveUp", "clean",
       "get", "close", "finish", "created", "lateClose", "lateFinish"} \subseteq TabPcs
  BY DEF TabPcs
<1>6. CASE Look(t)
  BY <1>2, <1>4, <1>5, <1>6, LookDoes DEF Still
<1>7. CASE Load(t)
  BY <1>2, <1>3, <1>5, <1>7, LoadDoes DEF Still, Reads
<1>8. CASE Inspect(t)
  BY <1>2, <1>3, <1>4, <1>5, <1>8, InspectDoes
<1>9. CASE Verify(t)
  <2>1. me[t].then \in TabPcs
    BY <1>1, <1>5, <1>9, VerifyDoes DEF StripeInv, StripeOK
  <2> QED BY <1>2, <1>4, <1>9, <2>1, VerifyDoes DEF Still
<1>10. CASE MarkComplete(t)
  BY <1>2, <1>10, MarkCompleteDoes
<1>11. CASE Retire(t)
  BY <1>2, <1>4, <1>5, <1>11, RetireDoes
<1>12. CASE GiveUp(t)
  BY <1>2, <1>4, <1>5, <1>12, GiveUpDoes
<1>13. CASE List(t)
  BY <1>2, <1>3, <1>5, <1>13, ListDoes DEF Still
<1>14. CASE Clean(t)
  BY <1>3, <1>5, <1>14, CleanDoes
<1>15. CASE Get(t)
  BY <1>2, <1>3, <1>4, <1>5, <1>15, GetDoes DEF Still
<1>16. CASE CloseOpen(t)
  BY <1>2, <1>4, <1>5, <1>16, CloseOpenDoes
<1>17. CASE FinishCleanup(t)
  BY <1>2, <1>4, <1>5, <1>17, FinishCleanupDoes
<1>18. CASE NewClaim(t)
  BY <1>2, <1>3, <1>5, <1>18, NewClaimDoes
<1>19. CASE Create(t)
  BY <1>2, <1>3, <1>5, <1>19, CreateDoes
<1>20. CASE Late(t)
  BY <1>4, <1>5, <1>20, LateDoes
<1>21. CASE LateClose(t)
  BY <1>2, <1>4, <1>5, <1>21, LateCloseDoes
<1>22. CASE LateFinish(t)
  BY <1>2, <1>22, LateFinishDoes
<1>23. CASE Save(t)
  BY <1>2, <1>4, <1>5, <1>23, SaveDoes
<1> QED BY <1>6, <1>7, <1>8, <1>9, <1>10, <1>11, <1>12, <1>13, <1>14, <1>15, <1>16, <1>17, <1>18,
           <1>19, <1>20, <1>21, <1>22, <1>23 DEF Checkout

LEMMA QuietStep ==
    ASSUME TypeOK, StripeInv, EventInv, Next
    PROVE  \/ \E s \in Sessions : Pay(s) \/ SubscriptionEnds(s)
           \/ \E h \in Handlers : Read(h) \/ SaveMirror(h)
           \/ /\ UNCHANGED <<sub, mirror>> /\ \A e \in Events : NoNews(e)
              /\ \A w \in Workers : Quietly(w)
<1> USE DEF stripe, rows, bounds
<1> DEFINE Quiets == /\ UNCHANGED <<sub, mirror>> /\ \A e \in Events : NoNews(e)
                     /\ \A w \in Workers : Quietly(w)
<1>1. event' = event => \A e \in Events : NoNews(e)
  BY DEF EventInv, NoNews
<1>2. ASSUME UNCHANGED <<sub, mirror, me>>, \A e \in Events : NoNews(e) PROVE Quiets
  BY <1>2 DEF Quietly
<1>3. ASSUME UNCHANGED <<sub, mirror>>, \A e \in Events : NoNews(e), NEW w \in Workers,
             Turn(w), Quietly(w)
      PROVE  Quiets
  <2>1. \A v \in Workers : v # w => Quietly(v)
    BY <1>3 DEF Turn, Quietly
  <2> QED BY <1>3, <2>1
<1>4. ASSUME NEW w \in Workers, me'[w].e \in {0, me[w].e},
             me'[w].pc \notin {"mark", "done", "mirror"}
      PROVE  Quietly(w)
  BY <1>4 DEF Quietly
<1>5. ASSUME UNCHANGED <<sub, mirror, event>>, NEW w \in Workers, Turn(w),
             me'[w].e \in {0, me[w].e}, me'[w].pc \notin {"mark", "done", "mirror"}
      PROVE  Quiets
  BY <1>1, <1>3, <1>4, <1>5
<1> HIDE DEF Quiets
<1>6. ASSUME NEW s \in Sessions, SessionEnds(s) PROVE Quiets
  BY <1>1, <1>2, <1>6, SessionEndsDoes
<1>7. ASSUME NEW t \in Tabs, Checkout(t) PROVE Quiets
  <2>1. /\ UNCHANGED <<sub, mirror, event>> /\ Turn(t) /\ me'[t].e \in {0, me[t].e}
        /\ me'[t].pc \in {"idle"} \cup TabPcs
    BY <1>7, TabAside DEF Keeps
  <2>2. me'[t].pc \notin {"mark", "done", "mirror"}
    BY <2>1 DEF TabPcs
  <2> QED BY <1>5, <2>1, <2>2 DEF Workers
<1>8. ASSUME NEW t \in Tabs, NEW p \in Plans, Visit(t, p) PROVE Quiets
  <2>1. /\ UNCHANGED <<sub, mirror, event>> /\ Turn(t) /\ me'[t].e = 0 /\ me'[t].pc = "look"
    BY <1>8, VisitDoes, IdleIs DEF Still, Keeps, Like
  <2> QED BY <1>5, <2>1 DEF Workers
<1>9. ASSUME NEW h \in Handlers, NEW e \in Events, Deliver(h, e) PROVE Quiets
  <2>1. /\ UNCHANGED <<sub, mirror>> /\ Turn(h) /\ me'[h].e = e /\ me'[h].pc = "wait"
        /\ event[e].state \in {"due", "processing"}
        /\ \A x \in Events \ {e} : event'[x] = event[x]
        /\ event'[e].kind = event[e].kind /\ event'[e].state = "processing"
    BY <1>9, DeliverDoes DEF Rests
  <2>2. e \in Happened
    BY <2>1 DEF EventInv, Happened
  <2>3. Quietly(h)
    BY <2>1, <2>2 DEF Quietly
  <2>4. \A x \in Events : NoNews(x)
    BY <2>1, <2>2 DEF EventInv, NoNews, Happened
  <2> QED BY <1>3, <2>1, <2>3, <2>4 DEF Workers
<1>10. ASSUME NEW h \in Handlers, Acquire(h) PROVE Quiets
  BY <1>5, <1>10, AcquireDoes DEF Workers, Like, Rests
<1>11. ASSUME NEW h \in Handlers, MarkAny(h) PROVE Quiets
  <2>1. /\ h \in Workers /\ UNCHANGED <<sub, mirror, event>> /\ Drops(h, "done")
        /\ me[h].pc = "mark"
    BY <1>11, MarkAnyDoes DEF Workers, Rests
  <2>2. Quietly(h)
    BY <2>1 DEF Drops, Like, Quietly
  <2> QED BY <1>1, <1>3, <2>1, <2>2 DEF Drops
<1>12. ASSUME NEW h \in Handlers, FinishEvent(h) PROVE Quiets
  <2>1. h \in Workers /\ UNCHANGED <<sub, mirror>> /\ Turn(h) /\ me'[h] = Idle
        /\ me[h].pc \in {"done", "failed"}
    BY <1>12, FinishEventDoes DEF Workers, Rests
  <2>2. \A x \in Events : NoNews(x)
    <3>1. CASE event' = event
      BY <1>1, <3>1
    <3>2. CASE \A x \in Events \ {me[h].e} : event'[x] = event[x]
      <4>1. \A x \in Events : x # me[h].e => NoNews(x)
        BY <3>2 DEF EventInv, NoNews
      <4>2. ASSUME me[h].e \in Events, event' # event PROVE NoNews(me[h].e)
        <5>1. PICK e \in Events : e = me[h].e
          BY <4>2
        <5>2. /\ event[e].state = "processing" /\ event'[e].kind = event[e].kind
              /\ event'[e].state = IF me[h].pc = "done" THEN "done" ELSE "due"
          BY <1>12, <4>2, <5>1, FinishEventDoes
        <5>3. event[e].kind # "none"
          BY <5>2 DEF EventInv
        <5>4. NoNews(e)
          BY <2>1, <5>1, <5>2, <5>3 DEF NoNews
        <5> QED BY <5>1, <5>4
      <4> QED BY <1>1, <4>1, <4>2
    <3> QED BY <1>12, <3>1, <3>2, FinishEventDoes
  <2>3. Quietly(h)
    BY <1>4, <2>1, IdleIs
  <2> QED BY <1>3, <2>1, <2>2, <2>3
<1>13. ASSUME NEW w \in Workers, CallFails(w) PROVE Quiets
  <2>1. UNCHANGED <<sub, mirror, event>> /\ (Ends(w) \/ Drops(w, "failed"))
    BY <1>13, CallFailsDoes
  <2> QED BY <1>5, <2>1, IdleIs DEF Ends, Drops, Like
<1>14. ASSUME NEW w \in Workers, Crash(w) PROVE Quiets
  BY <1>5, <1>14, CrashDoes, IdleIs
<1>15. ASSUME NEW w \in Workers, Stall(w) PROVE Quiets
  <2>1. /\ UNCHANGED <<sub, mirror, me>>
        /\ event' = [e \in Events |-> IF event[e].by = w
                                      THEN [event[e] EXCEPT !.live = FALSE] ELSE event[e]]
    BY <1>15 DEF Stall
  <2>2. ASSUME NEW e \in Events PROVE NoNews(e)
    <3>1. event[e] \in EventRow
      BY DEF TypeOK
    <3>2. event'[e].kind = event[e].kind /\ event'[e].state = event[e].state
      BY <2>1, <3>1 DEF EventRow
    <3> QED BY <3>2 DEF EventInv, NoNews
  <2> QED BY <1>2, <2>1, <2>2
<1>16. ASSUME NEW e \in Events, EventExpires(e) PROVE Quiets
  <2>1. /\ UNCHANGED <<sub, mirror, me>>
        /\ \A x \in Events : /\ event'[x].kind = event[x].kind
                             /\ event'[x].state = event[x].state
    BY <1>16, EventExpiresDoes
  <2>2. \A x \in Events : NoNews(x)
    BY <2>1 DEF EventInv, NoNews
  <2> QED BY <1>2, <2>1, <2>2
<1>17. ASSUME LeaseExpires PROVE Quiets
  BY <1>1, <1>2, <1>17 DEF LeaseExpires
<1>18. ASSUME ClaimAges PROVE Quiets
  BY <1>1, <1>2, <1>18, ClaimAgesDoes
<1>19. \/ \E s \in Sessions : Pay(s) \/ SubscriptionEnds(s)
       \/ \E h \in Handlers : Read(h) \/ SaveMirror(h)
       \/ Quiets
  BY <1>6, <1>7, <1>8, <1>9, <1>10, <1>11, <1>12, <1>13, <1>14, <1>15, <1>16, <1>17, <1>18
     DEF Next, Handle
<1> QED BY <1>19 DEF Quiets

LEMMA EventStep ==
    ASSUME TypeOK, TypeOK', StripeInv, EventInv, Next
    PROVE  EventInv'
<1>1. ASSUME NEW s \in Sessions, Pay(s) \/ SubscriptionEnds(s) PROVE EventInv'
  BY <1>1, PayMore, EndMore
<1>2. ASSUME NEW h \in Handlers, Read(h) \/ SaveMirror(h) PROVE EventInv'
  <2>1. h \in Workers /\ UNCHANGED <<sub, event>> /\ Turn(h) /\ me'[h].e = me[h].e
    BY <1>2, ReadDoes, SaveMirrorDoes DEF Workers, Rests, Drops, Like, Goes, Now
  <2>2. \A e \in Events : NoNews(e)
    BY <2>1 DEF EventInv, NoNews
  <2>3. \A w \in Workers : me'[w].e = me[w].e
    BY <2>1 DEF Turn
  <2> QED BY <2>1, <2>2, <2>3, SameEvents
<1>3. CASE /\ UNCHANGED <<sub, mirror>> /\ \A e \in Events : NoNews(e)
           /\ \A w \in Workers : Quietly(w)
  BY <1>3, SameEvents DEF Quietly
<1> QED BY <1>1, <1>2, <1>3, QuietStep

\* SaveMirror writes what its worker read, under the lease: nothing newer was written since.
LEMMA SaveMirrorKeeps ==
    ASSUME TypeOK, EventInv, LeaseInv, MirrorInv, NEW h \in Handlers, SaveMirror(h),
           Last' = Last
    PROVE  MirrorInv'
<1>1. /\ h \in Workers /\ UNCHANGED <<sub, event>> /\ me[h].pc = "mirror"
      /\ mirror' = (IF NotOlder(me[h].read) THEN me[h].read ELSE mirror)
      /\ Turn(h) /\ me'[h].pc \in {"mark", "done"} /\ me'[h].e = me[h].e
  BY SaveMirrorDoes DEF Workers, Rests, Drops, Like, Goes, Now
<1>2. mirror' = me[h].read
  BY <1>1 DEF MirrorInv, NotOlder
<1>3. ASSUME NEW v \in Workers, v # h PROVE me'[v] = me[v] /\ me[v].pc # "mirror"
  <2>1. lock = h
    BY <1>1 DEF LeaseInv, Leased
  <2> QED BY <1>1, <1>3, <2>1 DEF LeaseInv, Leased, Turn
<1>4. Handled' => Handled \/ me[h].e = Last
  BY <1>1, <1>3 DEF Handled
<1>5. Handled' => Matches(me[h].read)
  BY <1>1, <1>4 DEF MirrorInv
<1>6. Selected' = Selected /\ Live' = Live
  BY <1>1 DEF Selected, Live
<1>7. Handled' => (Matches(mirror))'
  BY <1>2, <1>5, <1>6 DEF Matches
<1> QED BY <1>1, <1>3, <1>7 DEF MirrorInv

LEMMA ReadKeeps ==
    ASSUME TypeOK, EventInv, MirrorInv, NEW h \in Handlers, Read(h), Last' = Last
    PROVE  MirrorInv'
<1>1. h \in Workers /\ UNCHANGED <<sub, mirror, event>> /\ me[h].pc = "read" /\ Turn(h)
  BY ReadDoes DEF Workers, Rests, Drops
<1>2. /\ me'[h].pc \in {"mirror", "failed"}
      /\ me'[h].pc = "mirror" => me'[h].read = Truth(me[h].e)
  BY ReadDoes DEF Drops, Like
<1>3. \A v \in Workers : v # h => me'[v] = me[v]
  BY <1>1 DEF Turn
<1>4. Handled' => Handled
  BY <1>1, <1>2, <1>3 DEF Handled
<1>5. Selected' = Selected /\ Live' = Live
  BY <1>1 DEF Selected, Live
<1>6. \A r : (r.sub = Selected' /\ r.live = (Live' # {})) <=> Matches(r)
  BY <1>5 DEF Matches
<1>7. me[h].e \in 0..(MaxSessions + MaxEnds)
  BY <1>1, IsWorker DEF Worker
<1>8. me'[h].pc = "mirror" =>
         (me'[h].read.sub = Selected' /\ me'[h].read.live = (Live' # {})) /\
         me'[h].read.mark >= mirror'.mark
  BY <1>1, <1>2, <1>6, <1>7, TruthIs
<1>9. Handled' => (Matches(mirror))'
  BY <1>1, <1>4, <1>6 DEF MirrorInv, Matches
<1>10. ASSUME NEW v \in Workers, me'[v].pc = "mirror"
       PROVE  /\ (Handled \/ me[v].e = Last)' =>
                    me'[v].read.sub = Selected' /\ me'[v].read.live = (Live' # {})
              /\ me'[v].read.mark >= mirror'.mark
  <2>1. CASE v = h
    BY <1>8, <1>10, <2>1
  <2>2. CASE v # h
    BY <1>1, <1>3, <1>4, <1>6, <1>10, <2>2 DEF MirrorInv
  <2> QED BY <2>1, <2>2
<1> QED BY <1>9, <1>10 DEF MirrorInv, Matches

LEMMA MirrorStep ==
    ASSUME TypeOK, TypeOK', StripeInv, EventInv, LeaseInv, MirrorInv, Next, stalls' = stalls
    PROVE  MirrorInv'
<1>1. ASSUME NEW s \in Sessions, Pay(s) \/ SubscriptionEnds(s) PROVE MirrorInv'
  <2>1. Last' = Last + 1 /\ event'[Last + 1].state = "due" /\ UNCHANGED <<me, mirror>>
    BY <1>1, PayMore, EndMore, PayDoes, SubscriptionEndsDoes
  <2>2. Last \in Nat /\ \A w \in Workers : me[w].e <= Last /\ me[w].e \in Nat
    BY LastIs, IsWorker, CheckoutAssumption DEF EventInv, Worker
  <2>3. Last' # 0 /\ \A w \in Workers : me'[w].e # Last'
    BY <2>1, <2>2
  <2>4. ~Handled'
    BY <2>1, <2>3 DEF Handled
  <2> QED BY <2>1, <2>3, <2>4 DEF MirrorInv
<1>2. ASSUME NEW h \in Handlers, Read(h) \/ SaveMirror(h) PROVE MirrorInv'
  <2>1. event' = event
    BY <1>2, ReadDoes, SaveMirrorDoes DEF Rests
  <2>2. Last' = Last
    BY <2>1 DEF Last, Happened
  <2> QED BY <1>2, <2>2, ReadKeeps, SaveMirrorKeeps
<1>3. CASE /\ UNCHANGED <<sub, mirror>> /\ \A e \in Events : NoNews(e)
           /\ \A w \in Workers : Quietly(w)
  <2>1. Last' = Last
    BY <1>3, SameEvents DEF Quietly
  <2> QED BY <1>3, <2>1, SameMirror
<1> QED BY <1>1, <1>2, <1>3, QuietStep

LEMMA StartsTrue == ASSUME Init PROVE EventInv /\ MirrorInv
<1>1. Happened = {} /\ Paid = {} /\ Ended = {} /\ Live = {}
  BY DEF Init, Happened, NoEvent, Paid, Ended, Live
<1>2. Last = 0 /\ 1..0 = {} /\ Cardinality(Paid) = 0 /\ Cardinality(Ended) = 0
  BY <1>1, FS_EmptySet DEF Last
<1>3. EventInv
  <2>1. \A w \in Workers : me[w].e = 0
    BY IdleIs DEF Init
  <2>2. \A e \in Events : event[e].state = "none"
    BY DEF Init, NoEvent
  <2>3. 0 <= MaxEnds
    BY CheckoutAssumption
  <2> QED BY <1>1, <1>2, <2>1, <2>2, <2>3 DEF EventInv
<1>4. Selected = 0
  <2>1. Selected = Max({0})
    BY <1>1 DEF Selected, Ended
  <2>2. Max({0}) \in {0}
    BY Greatest
  <2> QED BY <2>1, <2>2
<1>5. MirrorInv
  <2>1. mirror.sub = 0 /\ mirror.live = FALSE /\ \A w \in Workers : me[w].pc = "idle"
    BY IdleIs DEF Init, NoMirror
  <2> QED BY <1>1, <1>4, <2>1 DEF MirrorInv, Matches
<1> QED BY <1>3, <1>5

EventsInv == EventInv /\ (Calm => MirrorInv)
THEOREM EventsReachable == Spec => []EventsInv
<1>1. Init => EventsInv
  BY StartsTrue DEF EventsInv
<1>2. /\ CheckoutInv /\ CheckoutInv' /\ CalmInv /\ EventsInv /\ [Next]_vars
      => EventsInv'
  <2> SUFFICES ASSUME CheckoutInv, CheckoutInv', CalmInv, EventsInv, [Next]_vars
               PROVE  EventsInv'
    OBVIOUS
  <2>1. CASE Next
    <3>1. EventInv'
      BY <2>1, EventStep DEF CheckoutInv, EventsInv
    <3>2. ASSUME Calm' PROVE MirrorInv'
      <4>1. stalls' = stalls
        BY <2>1, <3>2, CalmStays DEF CheckoutInv, Calm
      <4>2. LeaseInv /\ MirrorInv
        BY <3>2, <4>1 DEF CalmInv, EventsInv, Calm
      <4> QED BY <2>1, <4>1, <4>2, MirrorStep DEF CheckoutInv, EventsInv
    <3> QED BY <3>1, <3>2 DEF EventsInv
  <2>2. CASE UNCHANGED vars
    <3>1. UNCHANGED <<sub, mirror, event, me, stalls>>
      BY <2>2 DEF vars, stripe, bounds
    <3>2. \A e \in Events : NoNews(e)
      BY <3>1 DEF EventsInv, EventInv, NoNews
    <3>3. \A w \in Workers : Quietly(w)
      BY <3>1 DEF Quietly
    <3>4. EventInv' /\ Last' = Last
      BY <3>1, <3>2, SameEvents DEF EventsInv
    <3>5. MirrorInv => MirrorInv'
      BY <3>1, <3>2, <3>3, <3>4, SameMirror DEF EventsInv
    <3> QED BY <3>1, <3>4, <3>5 DEF EventsInv, Calm
  <2> QED BY <2>1, <2>2
<1> QED BY <1>1, <1>2, Reachable, PayReachable, PTL DEF Spec

\* Once every event is handled, the mirror says what Stripe says, however often and in
\* whatever order they came and whoever died over them (Handle, SaveReconciled), unless a
\* process paused for longer than its lease.
THEOREM MirrorTrueHolds == Spec => []MirrorTrue
<1>1. EventsInv => MirrorTrue
  <2> SUFFICES ASSUME EventInv, MirrorInv, \A e \in Happened : event[e].state = "done"
               PROVE  mirror.sub = Selected /\ mirror.live = (Live # {})
    BY DEF EventsInv, Calm, MirrorTrue
  <2>1. Last = 0 \/ Last \in Happened
    BY LastIs DEF EventInv
  <2>2. Handled
    BY <2>1 DEF Handled
  <2> QED BY <2>2 DEF MirrorInv, Matches
<1> QED BY <1>1, EventsReachable, PTL
=============================================================================
