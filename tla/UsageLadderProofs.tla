------------------------- MODULE UsageLadderProofs --------------------------
(***************************************************************************)
(* Theorems about UsageLadder for every value of its constants: any number *)
(* of processes and commands, events, months, rungs, faults and stops.     *)
(***************************************************************************)
EXTENDS UsageLadder, FiniteSetTheorems, TLAPS

-----------------------------------------------------------------------------
(* The inductive invariants. *)

\* Nobody has counted more than was stored.
Counted(p, m) == pending[p][m] + batch[p][m]
CountInv ==
    /\ CountedOnce
    /\ \A p \in Procs, m \in Months : Counted(p, m) <= stored[m]

\* A sweep is no later than the clock, and at most a third of a month behind; while it
\* has a notice in hand there is one to send.
ClockOK(s) == ~At(s, "idle") => /\ sweep[s].now \in 1..time
                                /\ time <= sweep[s].now + 1
                                /\ sweep[s].pc \in {"mail", "release"} => sweep[s].todo # <<>>
ClocksOK == \A s \in Sweepers : ClockOK(s)

\* The notice a sweep has claimed and not sent.  One holds a claim, and what was sent
\* stays claimed.
Key(s) == <<Period(s), IF sweep[s].pc \in {"mail", "release"} THEN Head(sweep[s].todo)
                       ELSE "second_month">>
ClaimInv ==
    /\ \A s \in Sweepers : Claiming(s) => Key(s) \in notices /\ mails[Key(s)] = 0
    /\ \A s, t \in Sweepers : Claiming(s) /\ Claiming(t) /\ Key(s) = Key(t) => s = t
    /\ \A k \in Notices : mails[k] <= 1 /\ (mails[k] = 1 => k \in notices)

\* A conversation, stored or read: about two months over the limit, begun before now.
OverBefore(m) == m \in Months /\ m >= 3 /\ stored[m - 1] > Limit /\ stored[m - 2] > Limit
TalkOK(t) == t = NoTalk \/ /\ OverBefore(t.period) /\ t.asked \in 1..time
Asked(t) == mails[<<t.period, "second_month">>] = 1
Asking(s) == /\ sweep[s].pc \in {"ask mail", "take back"}
             /\ sweep[s].now = overage.asked /\ Period(s) = overage.period
DecidedOK(s) ==
    /\ TalkOK(sweep[s].talk)
    /\ sweep[s].pc \in {"ask", "save"} => OverBefore(Period(s)) /\ sweep[s].talk = NoTalk
    /\ sweep[s].pc = "lock" => sweep[s].talk # NoTalk /\ sweep[s].now >= DueAt(sweep[s].talk)
TalkInv == TalkOK(overage) /\ \A s \in Sweepers : DecidedOK(s)

\* Whoever the row says was asked was asked, or is being asked; whoever read such a row
\* before the mail is not going to lock the dashboard.
SawAsked(s) == sweep[s].talk # NoTalk =>
    Asked(sweep[s].talk) \/ sweep[s].now <= sweep[s].talk.asked + 1
AskedInv == ~cut =>
    /\ overage # NoTalk => Asked(overage) \/ \E s \in Sweepers : Asking(s)
    /\ overage.locked => Asked(overage) /\ time >= DueAt(overage)
    /\ \A s \in Sweepers : SawAsked(s)

\* After a reply that raced with nobody, every sweep that is to decide has read it.
ReplyInv == reply = "yes" =>
    /\ overage.replied /\ ~overage.locked
    /\ \A s \in Sweepers : ~At(s, "lock") /\ (At(s, "decide") => sweep[s].talk.replied)

UsageInv ==
    /\ TypeOK /\ CountInv /\ ClocksOK
    /\ ClaimInv /\ TalkInv /\ AskedInv /\ ReplyInv

-----------------------------------------------------------------------------
(* Months. *)

LEMMA MonthIs ==
    ASSUME NEW t \in 1..MaxTime
    PROVE  MonthAt(t) \in Months /\ MonthAt(t) >= 3 /\ MonthAt(t) \in Nat
BY UsageAssumption DEF MonthAt, Months

LEMMA MonthsAre == Months \subseteq Nat /\ {1, 2, 3} \subseteq Months
<1>1. MonthAt(MaxTime) >= 3 /\ MonthAt(MaxTime) \in Nat
  BY UsageAssumption, MonthIs
<1> QED BY <1>1 DEF Months

-----------------------------------------------------------------------------
(* Who takes a step, and what it leaves alone. *)

Counting(p) ==
    \/ Record(p) \/ Swap(p) \/ Signal(p) \/ Exit(p) \/ Start(p)
    \/ \E m \in Months : Add(p, m) \/ AddFails(p, m)
Sweeping(s) == Begin(s) \/ SweepStep(s) \/ MailFails(s) \/ StatementFails(s)

LEMMA StepIs ==
    ASSUME Next
    PROVE  \/ \E p \in Procs : Counting(p) \/ Crash(p)
           \/ \E s \in Sweepers : Sweeping(s)
           \/ MarkReplied \/ Tick
<1>1. ASSUME NEW p \in Procs, Flush(p) PROVE Counting(p)
  BY <1>1 DEF Flush, Counting
<1> QED BY <1>1 DEF Next, Counting, Sweeping

LEMMA TickIs ==
    ASSUME Tick
    PROVE  time < MaxTime /\ time' = time + 1
           /\ UNCHANGED <<counts, talk, process, sweep, cut, upsets>>
           /\ \A s \in Sweepers : At(s, "idle") \/ sweep[s].now = time
BY DEF Tick

LEMMA CountingFrames ==
    ASSUME NEW p \in Procs, Counting(p)
    PROVE  UNCHANGED <<time, talk, sweep, cut>>
<1>1. CASE Record(p)
  BY <1>1 DEF Record
<1>2. CASE Swap(p)
  BY <1>2 DEF Swap
<1>3. CASE Signal(p)
  BY <1>3 DEF Signal
<1>4. CASE Exit(p)
  BY <1>4 DEF Exit, Gone
<1>5. CASE Start(p)
  BY <1>5 DEF Start
<1>6. ASSUME NEW m \in Months, Add(p, m) \/ AddFails(p, m) PROVE UNCHANGED <<time, talk, sweep, cut>>
  BY <1>6 DEF Add, AddFails
<1> QED BY <1>1, <1>2, <1>3, <1>4, <1>5, <1>6 DEF Counting

LEMMA CrashFrames ==
    ASSUME NEW p \in Procs, Crash(p)
    PROVE  /\ UNCHANGED <<time, stored, counter, talk>>
           /\ sweep' = [sweep EXCEPT ![p] = Idle] /\ cut' = (cut \/ Claiming(p))
BY DEF Crash, Gone, Return

LEMMA ReplyFrames ==
    ASSUME MarkReplied
    PROVE  /\ UNCHANGED <<time, counts, notices, mails, process, sweep, cut, upsets>>
           /\ overage # NoTalk /\ ~overage.replied
           /\ overage' = [overage EXCEPT !.replied = TRUE, !.locked = FALSE]
           /\ reply' \in {"yes", "raced"}
           /\ reply' = "yes" => \A s \in Sweepers : sweep[s].pc \notin {"decide", "lock"}
BY DEF MarkReplied

LEMMA SweepingFrames ==
    ASSUME NEW s \in Sweepers, Sweeping(s)
    PROVE  UNCHANGED <<time, counts, process>>
<1>1. CASE Begin(s) \/ MailFails(s) \/ StatementFails(s)
  BY <1>1 DEF Begin, MailFails, StatementFails
<1>2. CASE Count(s) \/ Claim(s) \/ Mail(s) \/ Release(s) \/ ReadTalk(s) \/ RunOverage(s)
  BY <1>2 DEF Count, Claim, Mail, Release, ReadTalk, RunOverage
<1>3. CASE Ask(s) \/ SaveAsked(s) \/ AskMail(s) \/ TakeBack(s) \/ Unclaim(s)
  BY <1>3 DEF Ask, SaveAsked, AskMail, TakeBack, Unclaim
<1>4. CASE Lock(s) \/ Clear(s) \/ Cancelled(s)
  BY <1>4 DEF Lock, Clear, Cancelled
<1> QED BY <1>1, <1>2, <1>3, <1>4 DEF Sweeping, SweepStep

-----------------------------------------------------------------------------
(* Counting. *)

CountTypes ==
    /\ stored \in [Months -> Nat] /\ counter \in [Months -> Nat]
    /\ pending \in [Procs -> [Months -> Nat]] /\ batch \in [Procs -> [Months -> Nat]]
    /\ lost \subseteq Months

LEMMA TokenIs ==
    ASSUME CountTypes, NEW m \in Months, NEW p, NEW i
    PROVE  <<p, i>> \in Waiting(m) <=> p \in Procs /\ i \in 1..Counted(p, m)
BY DEF Waiting, Counted

LEMMA TokensArePairs ==
    ASSUME CountTypes, NEW m \in Months, NEW t \in Waiting(m)
    PROVE  \E p \in Procs : \E i \in 1..Counted(p, m) : t = <<p, i>>
BY DEF Waiting, Counted

LEMMA WaitingIsFinite ==
    ASSUME CountTypes, NEW m \in Months,
           \A p \in Procs : Counted(p, m) <= stored[m]
    PROVE  IsFiniteSet(Waiting(m)) /\ Unwritten(m) \in Nat
<1>1. stored[m] \in Nat /\ \A p \in Procs : Counted(p, m) \in Nat
  BY DEF CountTypes, Counted
<1>2. IsFiniteSet(1..stored[m])
  BY <1>1, FS_Interval
<1>3. IsFiniteSet(Procs \X (1..stored[m]))
  BY <1>2, FS_Product, UsageAssumption
<1>4. Waiting(m) \subseteq Procs \X (1..stored[m])
  BY <1>1, TokensArePairs
<1>5. IsFiniteSet(Waiting(m))
  BY <1>3, <1>4, FS_Subset
<1> QED BY <1>5, FS_CardinalityType DEF Unwritten

\* What a step does to the numbers of process p: the others keep theirs.
Others(p) == \A q \in Procs \ {p}, m \in Months : Counted(q, m)' = Counted(q, m)

LEMMA WaitingSame ==
    ASSUME CountTypes, CountTypes', NEW m \in Months,
           \A p \in Procs : Counted(p, m)' = Counted(p, m)
    PROVE  Waiting(m)' = Waiting(m) /\ Unwritten(m)' = Unwritten(m)
<1>1. Waiting(m)' = Waiting(m)
  BY DEF Waiting, Counted
<1> QED BY <1>1 DEF Unwritten

\* The invariant of one month.
MonthOK(m) ==
    /\ counter[m] + Unwritten(m) <= stored[m]
    /\ m \notin lost => counter[m] + Unwritten(m) = stored[m]
    /\ \A p \in Procs : Counted(p, m) <= stored[m]

LEMMA CountInvIs == CountInv <=> \A m \in Months : MonthOK(m)
BY DEF CountInv, CountedOnce, MonthOK

LEMMA MonthKept ==
    ASSUME CountTypes, CountTypes', NEW m \in Months, MonthOK(m),
           \A p \in Procs : Counted(p, m)' = Counted(p, m),
           counter'[m] = counter[m], stored'[m] = stored[m], m \in lost => m \in lost'
    PROVE  MonthOK(m)'
BY WaitingSame DEF MonthOK

LEMMA OneMore ==
    ASSUME CountTypes, CountTypes', NEW m \in Months, MonthOK(m), NEW p \in Procs,
           Counted(p, m)' = Counted(p, m) + 1,
           \A q \in Procs \ {p} : Counted(q, m)' = Counted(q, m),
           counter'[m] = counter[m], stored'[m] = stored[m] + 1, lost' = lost
    PROVE  MonthOK(m)'
<1> DEFINE t == <<p, Counted(p, m) + 1>>
<1>1. /\ stored[m] \in Nat /\ stored'[m] \in Nat /\ counter[m] \in Nat
      /\ \A q \in Procs : Counted(q, m) \in Nat
  BY DEF CountTypes, Counted
<1>2. t \notin Waiting(m)
  BY <1>1, TokenIs
<1>3. Waiting(m)' = Waiting(m) \cup {t}
  <2>1. Waiting(m)' = UNION {{q} \X (1..Counted(q, m)') : q \in Procs}
    BY DEF Waiting, Counted
  <2>2. ASSUME NEW x, x \in Waiting(m)' PROVE x \in Waiting(m) \cup {t}
    <3>1. PICK q \in Procs : x \in {q} \X (1..Counted(q, m)')
      BY <2>1, <2>2
    <3>2. PICK i \in 1..Counted(q, m)' : x = <<q, i>>
      BY <3>1
    <3>3. CASE i \in 1..Counted(q, m)
      BY <3>2, <3>3, TokenIs
    <3>4. CASE i \notin 1..Counted(q, m)
      <4>1. q = p
        BY <3>4, <3>2
      <4>2. i = Counted(p, m) + 1
        BY <4>1, <3>4, <3>2, <1>1
      <4> QED BY <4>1, <4>2, <3>2
    <3> QED BY <3>3, <3>4
  <2>3. ASSUME NEW x, x \in Waiting(m) \cup {t} PROVE x \in Waiting(m)'
    <3>1. CASE x = t
      <4>1. Counted(p, m) + 1 \in 1..Counted(p, m)'
        BY <1>1
      <4> QED BY <2>1, <3>1, <4>1
    <3>2. CASE x \in Waiting(m)
      <4>1. PICK q \in Procs : \E i \in 1..Counted(q, m) : x = <<q, i>>
        BY <3>2, TokensArePairs
      <4>2. PICK i \in 1..Counted(q, m) : x = <<q, i>>
        BY <4>1
      <4>3. i \in 1..Counted(q, m)'
        BY <4>2, <1>1
      <4> QED BY <2>1, <4>2, <4>3
    <3> QED BY <3>1, <3>2, <2>3
  <2> QED BY <2>2, <2>3
<1>4. IsFiniteSet(Waiting(m)) /\ Unwritten(m) \in Nat
  BY WaitingIsFinite DEF MonthOK
<1>5. Unwritten(m)' = Unwritten(m) + 1
  <2>1. Cardinality(Waiting(m) \cup {t}) = Cardinality(Waiting(m)) + 1
    BY <1>2, <1>4, FS_AddElement
  <2> QED BY <1>3, <2>1 DEF Unwritten
<1>6. \A q \in Procs : Counted(q, m)' <= stored'[m]
  <2> SUFFICES ASSUME NEW q \in Procs PROVE Counted(q, m)' <= stored'[m]
    OBVIOUS
  <2>1. Counted(q, m) <= stored[m]
    BY DEF MonthOK
  <2> QED BY <1>1, <2>1
<1>7. counter'[m] + Unwritten(m)' <= stored'[m]
  BY <1>1, <1>4, <1>5 DEF MonthOK
<1>8. m \notin lost' => counter'[m] + Unwritten(m)' = stored'[m]
  BY <1>1, <1>4, <1>5 DEF MonthOK
<1> QED BY <1>6, <1>7, <1>8 DEF MonthOK

LEMMA SomeWritten ==
    ASSUME CountTypes, CountTypes', NEW m \in Months, MonthOK(m), NEW p \in Procs,
           NEW b \in Nat, Counted(p, m) = Counted(p, m)' + b, Counted(p, m)' \in Nat,
           \A q \in Procs \ {p} : Counted(q, m)' = Counted(q, m),
           counter'[m] = counter[m] + b, stored'[m] = stored[m], lost' = lost
    PROVE  MonthOK(m)'
<1> DEFINE a == Counted(p, m)'
           T == {p} \X ((a + 1)..(a + b))
<1>1. /\ stored[m] \in Nat /\ counter[m] \in Nat /\ a \in Nat
      /\ \A q \in Procs : Counted(q, m) \in Nat
  BY DEF CountTypes, Counted
<1>2. IsFiniteSet(T) /\ Cardinality(T) = b
  <2>0. a + 1 \in Int /\ a + b \in Int /\ (a + 1 > a + b => b = 0) /\ (a + b) - (a + 1) + 1 = b
    BY <1>1
  <2>1. IsFiniteSet((a + 1)..(a + b)) /\ Cardinality((a + 1)..(a + b)) = b
    <3> HIDE DEF a
    <3> QED BY <2>0, FS_Interval
  <2>2. IsFiniteSet({p}) /\ Cardinality({p}) = 1
    BY FS_Singleton
  <2> HIDE DEF a
  <2>3. IsFiniteSet(T) /\ Cardinality(T) = Cardinality({p}) * Cardinality((a + 1)..(a + b))
    BY <2>1, <2>2, FS_Product
  <2> QED BY <2>1, <2>2, <2>3
<1>3. IsFiniteSet(Waiting(m)) /\ Unwritten(m) \in Nat
  BY WaitingIsFinite DEF MonthOK
<1>4. T \subseteq Waiting(m)
  <2>1. ASSUME NEW x \in T PROVE x \in Waiting(m)
    <3>1. PICK i \in (a + 1)..(a + b) : x = <<p, i>>
      BY <2>1
    <3>2. i \in 1..Counted(p, m)
      BY <3>1, <1>1
    <3> QED BY <3>1, <3>2, TokenIs
  <2> QED BY <2>1
<1>5. Waiting(m)' = Waiting(m) \ T
  <2>1. Waiting(m)' = UNION {{q} \X (1..Counted(q, m)') : q \in Procs}
    BY DEF Waiting, Counted
  <2>2. ASSUME NEW x, x \in Waiting(m)' PROVE x \in Waiting(m) \ T
    <3>1. PICK q \in Procs : x \in {q} \X (1..Counted(q, m)')
      BY <2>1, <2>2
    <3>2. PICK i \in 1..Counted(q, m)' : x = <<q, i>>
      BY <3>1
    <3>3. i \in 1..Counted(q, m)
      BY <3>2, <1>1
    <3>4. x \notin T
      BY <3>2, <1>1
    <3> QED BY <3>2, <3>3, <3>4, TokenIs
  <2>3. ASSUME NEW x, x \in Waiting(m) \ T PROVE x \in Waiting(m)'
    <3>1. PICK q \in Procs : \E i \in 1..Counted(q, m) : x = <<q, i>>
      BY <2>3, TokensArePairs
    <3>2. PICK i \in 1..Counted(q, m) : x = <<q, i>>
      BY <3>1
    <3>3. i \in 1..Counted(q, m)'
      <4>1. CASE q = p
        <5>1. i \notin (a + 1)..(a + b)
          BY <2>3, <3>2, <4>1
        <5> QED BY <5>1, <4>1, <3>2, <1>1
      <4>2. CASE q # p
        BY <4>2, <3>2
      <4> QED BY <4>1, <4>2
    <3> QED BY <2>1, <3>2, <3>3
  <2> QED BY <2>2, <2>3
<1>6. Unwritten(m)' = Unwritten(m) - b
  <2>1. Cardinality(Waiting(m) \ T) = Cardinality(Waiting(m)) - Cardinality(Waiting(m) \cap T)
    BY <1>3, FS_Difference
  <2>2. Waiting(m) \cap T = T
    BY <1>4
  <2> QED BY <1>5, <1>2, <2>1, <2>2 DEF Unwritten
<1>7. \A q \in Procs : Counted(q, m)' <= stored'[m]
  <2> SUFFICES ASSUME NEW q \in Procs PROVE Counted(q, m)' <= stored'[m]
    OBVIOUS
  <2>1. Counted(q, m) <= stored[m]
    BY DEF MonthOK
  <2> QED BY <1>1, <2>1
<1>8. counter'[m] + Unwritten(m)' <= stored'[m]
  BY <1>1, <1>3, <1>6 DEF MonthOK
<1>9. m \notin lost' => counter'[m] + Unwritten(m)' = stored'[m]
  BY <1>1, <1>3, <1>6 DEF MonthOK
<1> QED BY <1>7, <1>8, <1>9 DEF MonthOK

LEMMA SomeLost ==
    ASSUME CountTypes, CountTypes', NEW m \in Months, MonthOK(m), NEW p \in Procs,
           Counted(p, m)' = 0,
           \A q \in Procs \ {p} : Counted(q, m)' = Counted(q, m),
           counter'[m] = counter[m], stored'[m] = stored[m],
           m \notin lost' => m \notin lost /\ Counted(p, m) = 0
    PROVE  MonthOK(m)'
<1>1. /\ stored[m] \in Nat /\ counter[m] \in Nat
      /\ \A q \in Procs : Counted(q, m) \in Nat
  BY DEF CountTypes, Counted
<1>2. IsFiniteSet(Waiting(m)) /\ Unwritten(m) \in Nat
  BY WaitingIsFinite DEF MonthOK
<1>3. Waiting(m)' \subseteq Waiting(m)
  <2>1. Waiting(m)' = UNION {{q} \X (1..Counted(q, m)') : q \in Procs}
    BY DEF Waiting, Counted
  <2>2. ASSUME NEW x, x \in Waiting(m)' PROVE x \in Waiting(m)
    <3>1. PICK q \in Procs : x \in {q} \X (1..Counted(q, m)')
      BY <2>1, <2>2
    <3>2. PICK i \in 1..Counted(q, m)' : x = <<q, i>>
      BY <3>1
    <3>3. i \in 1..Counted(q, m)
      BY <3>2, <1>1
    <3> QED BY <3>2, <3>3, TokenIs
  <2> QED BY <2>2
<1>4. Unwritten(m)' \in Nat /\ Unwritten(m)' <= Unwritten(m)
  <2>1. IsFiniteSet(Waiting(m)') /\ Cardinality(Waiting(m)') <= Cardinality(Waiting(m))
    BY <1>2, <1>3, FS_Subset
  <2> QED BY <2>1, FS_CardinalityType DEF Unwritten
<1>5. \A q \in Procs : Counted(q, m)' <= stored'[m]
  BY <1>1 DEF MonthOK
<1>6. counter'[m] + Unwritten(m)' <= stored'[m]
  BY <1>1, <1>2, <1>4 DEF MonthOK
<1>7. ASSUME m \notin lost' PROVE counter'[m] + Unwritten(m)' = stored'[m]
  <2>1. \A q \in Procs : Counted(q, m)' = Counted(q, m)
    BY <1>7
  <2>2. Unwritten(m)' = Unwritten(m)
    BY <2>1, WaitingSame
  <2> QED BY <1>7, <2>2 DEF MonthOK
<1> QED BY <1>5, <1>6, <1>7 DEF MonthOK

\* Every step that counts keeps the numbers natural and the books balanced.
LEMMA CountKept ==
    ASSUME CountTypes, time \in 1..MaxTime, NEW p \in Procs, Counting(p) \/ Crash(p)
    PROVE  CountTypes' /\ \A m \in Months : MonthOK(m) => MonthOK(m)'
<1>1. Month \in Months
  BY MonthIs DEF Month
<1>2. Nothing \in [Months -> Nat] /\ \A m \in Months : Nothing[m] = 0
  BY DEF Nothing
<1>3. CASE Record(p)
  <2>0. PICK n \in Months : n = Month
    BY <1>1
  <2>1. /\ stored' = [stored EXCEPT ![n] = @ + 1]
        /\ pending' = [pending EXCEPT ![p][n] = @ + 1]
        /\ batch' = batch /\ counter' = counter /\ lost' = lost
    BY <1>3, <2>0 DEF Record
  <2>2. CountTypes'
    BY <1>1, <2>1 DEF CountTypes
  <2>3. Others(p)
    BY <2>1 DEF Others, Counted, CountTypes
  <2>4. /\ Counted(p, n)' = Counted(p, n) + 1 /\ stored'[n] = stored[n] + 1
        /\ \A m \in Months \ {n} : Counted(p, m)' = Counted(p, m) /\ stored'[m] = stored[m]
    <3>1. /\ pending'[p] = [pending[p] EXCEPT ![n] = @ + 1] /\ pending[p] \in [Months -> Nat]
          /\ batch[p] \in [Months -> Nat]
      BY <2>1 DEF CountTypes
    <3>2. /\ pending'[p][n] = pending[p][n] + 1
          /\ \A m \in Months \ {n} : pending'[p][m] = pending[p][m]
      BY <3>1, <1>1
    <3>3. pending[p][n] \in Nat /\ batch[p][n] \in Nat
      BY <3>1, <1>1
    <3>4. /\ stored'[n] = stored[n] + 1
          /\ \A m \in Months \ {n} : stored'[m] = stored[m]
      BY <2>1, <1>1 DEF CountTypes
    <3> QED BY <2>1, <3>2, <3>3, <3>4 DEF Counted
  <2>5. ASSUME NEW m \in Months, MonthOK(m) PROVE MonthOK(m)'
    <3>1. \A q \in Procs \ {p} : Counted(q, m)' = Counted(q, m)
      BY <2>3 DEF Others
    <3>2. CASE m = n
      <4>1. Counted(p, m)' = Counted(p, m) + 1 /\ stored'[m] = stored[m] + 1
        BY <2>4, <3>2
      <4> QED BY <2>1, <2>2, <2>5, <3>1, <4>1, OneMore
    <3>3. CASE m # n
      <4>1. \A q \in Procs : Counted(q, m)' = Counted(q, m)
        BY <2>4, <3>1, <3>3
      <4>2. stored'[m] = stored[m]
        BY <2>4, <3>3
      <4> QED BY <2>1, <2>2, <2>5, <4>1, <4>2, MonthKept
    <3> QED BY <3>2, <3>3
  <2> QED BY <2>2, <2>5
<1>4. CASE Swap(p)
  <2>1. /\ batch[p] = Nothing /\ batch' = [batch EXCEPT ![p] = pending[p]]
        /\ pending' = [pending EXCEPT ![p] = Nothing]
        /\ stored' = stored /\ counter' = counter /\ lost' = lost
    BY <1>4 DEF Swap
  <2>2. CountTypes'
    BY <1>2, <2>1 DEF CountTypes
  <2>3. \A q \in Procs, m \in Months : Counted(q, m)' = Counted(q, m)
    <3> SUFFICES ASSUME NEW q \in Procs, NEW m \in Months PROVE Counted(q, m)' = Counted(q, m)
      OBVIOUS
    <3>1. CASE q = p
      <4>1. batch'[p] = pending[p] /\ pending'[p] = Nothing
        BY <2>1 DEF CountTypes
      <4>2. pending[p][m] \in Nat
        BY DEF CountTypes
      <4> QED BY <3>1, <4>1, <4>2, <2>1, <1>2 DEF Counted
    <3>2. CASE q # p
      BY <2>1, <3>2 DEF Counted, CountTypes
    <3> QED BY <3>1, <3>2
  <2> QED BY <2>1, <2>2, <2>3, MonthKept
<1>5. CASE Signal(p) \/ Start(p)
  <2>1. UNCHANGED counts
    BY <1>5 DEF Signal, Start
  <2>2. CountTypes'
    BY <2>1 DEF CountTypes, counts
  <2>3. \A q \in Procs, m \in Months : Counted(q, m)' = Counted(q, m)
    BY <2>1 DEF counts, Counted
  <2> QED BY <2>1, <2>2, <2>3, MonthKept DEF counts
<1>6. ASSUME NEW n \in Months, Add(p, n)
      PROVE  CountTypes' /\ \A m \in Months : MonthOK(m) => MonthOK(m)'
  <2>1. /\ counter' = [counter EXCEPT ![n] = @ + batch[p][n]]
        /\ batch' = [batch EXCEPT ![p][n] = 0]
        /\ stored' = stored /\ pending' = pending /\ lost' = lost
    BY <1>6 DEF Add
  <2>2. batch[p] \in [Months -> Nat] /\ pending[p] \in [Months -> Nat] /\ counter \in [Months -> Nat]
    BY DEF CountTypes
  <2>3. CountTypes'
    <3>1. batch'[p] = [batch[p] EXCEPT ![n] = 0]
      BY <2>1 DEF CountTypes
    <3>2. batch' \in [Procs -> [Months -> Nat]]
      BY <2>1, <2>2 DEF CountTypes
    <3>3. counter' \in [Months -> Nat]
      BY <2>1, <2>2
    <3> QED BY <2>1, <3>2, <3>3 DEF CountTypes
  <2>4. Others(p)
    BY <2>1 DEF Others, Counted, CountTypes
  <2>5. /\ Counted(p, n) = Counted(p, n)' + batch[p][n] /\ Counted(p, n)' \in Nat
        /\ counter'[n] = counter[n] + batch[p][n]
        /\ \A m \in Months \ {n} : Counted(p, m)' = Counted(p, m) /\ counter'[m] = counter[m]
    <3>1. /\ batch'[p][n] = 0 /\ \A m \in Months \ {n} : batch'[p][m] = batch[p][m]
      BY <2>1, <2>2 DEF CountTypes
    <3>2. pending[p][n] \in Nat /\ batch[p][n] \in Nat
      BY <2>2
    <3>3. /\ counter'[n] = counter[n] + batch[p][n]
          /\ \A m \in Months \ {n} : counter'[m] = counter[m]
      BY <2>1, <2>2
    <3> QED BY <2>1, <3>1, <3>2, <3>3 DEF Counted
  <2>6. ASSUME NEW m \in Months, MonthOK(m) PROVE MonthOK(m)'
    <3>1. \A q \in Procs \ {p} : Counted(q, m)' = Counted(q, m)
      BY <2>4 DEF Others
    <3>2. CASE m = n
      <4>1. batch[p][n] \in Nat
        BY <2>2
      <4> QED BY <2>1, <2>3, <2>5, <2>6, <3>1, <3>2, <4>1, SomeWritten
    <3>3. CASE m # n
      <4>1. \A q \in Procs : Counted(q, m)' = Counted(q, m)
        BY <2>5, <3>1, <3>3
      <4> QED BY <2>1, <2>3, <2>5, <2>6, <3>3, <4>1, MonthKept
    <3> QED BY <3>2, <3>3
  <2> QED BY <2>3, <2>6
<1>7. ASSUME NEW n \in Months, AddFails(p, n)
      PROVE  CountTypes' /\ \A m \in Months : MonthOK(m) => MonthOK(m)'
  <2>1. /\ pending' = [pending EXCEPT ![p] = [pending[p] EXCEPT ![n] = @ + batch[p][n]]]
        /\ batch' = [batch EXCEPT ![p][n] = 0]
        /\ stored' = stored /\ counter' = counter /\ lost' = lost
    BY <1>7 DEF AddFails, PutBack
  <2>2. batch[p] \in [Months -> Nat] /\ pending[p] \in [Months -> Nat]
    BY DEF CountTypes
  <2>3. CountTypes'
    <3>1. [pending[p] EXCEPT ![n] = @ + batch[p][n]] \in [Months -> Nat]
      BY <2>2
    <3>2. [batch[p] EXCEPT ![n] = 0] \in [Months -> Nat]
      BY <2>2
    <3> QED BY <2>1, <3>1, <3>2 DEF CountTypes
  <2>4. \A q \in Procs, m \in Months : Counted(q, m)' = Counted(q, m)
    <3> SUFFICES ASSUME NEW q \in Procs, NEW m \in Months PROVE Counted(q, m)' = Counted(q, m)
      OBVIOUS
    <3>1. CASE q = p
      <4>1. /\ batch'[p] = [batch[p] EXCEPT ![n] = 0]
            /\ pending'[p] = [pending[p] EXCEPT ![n] = @ + batch[p][n]]
        BY <2>1 DEF CountTypes
      <4>2. pending[p][m] \in Nat /\ batch[p][m] \in Nat
        BY <2>2
      <4>3. CASE m = n
        BY <2>2, <3>1, <4>1, <4>2, <4>3 DEF Counted
      <4>4. CASE m # n
        BY <2>2, <3>1, <4>1, <4>4 DEF Counted
      <4> QED BY <4>3, <4>4
    <3>2. CASE q # p
      BY <2>1, <3>2 DEF Counted, CountTypes
    <3> QED BY <3>1, <3>2
  <2> QED BY <2>1, <2>3, <2>4, MonthKept
<1>8. ASSUME NEW h, Gone(p, h), \A m \in Months : h[m] \in Nat,
             \A m \in Months : h[m] = 0 => Counted(p, m) = 0
      PROVE  CountTypes' /\ \A m \in Months : MonthOK(m) => MonthOK(m)'
  <2>1. /\ lost' = lost \cup {m \in Months : h[m] > 0} /\ stored' = stored /\ counter' = counter
        /\ pending' = [pending EXCEPT ![p] = Nothing] /\ batch' = [batch EXCEPT ![p] = Nothing]
    BY <1>8 DEF Gone
  <2>2. CountTypes'
    BY <1>2, <2>1 DEF CountTypes
  <2>3. Others(p)
    BY <2>1 DEF Others, Counted, CountTypes
  <2>4. \A m \in Months : Counted(p, m)' = 0
    <3>1. pending'[p] = Nothing /\ batch'[p] = Nothing
      BY <2>1 DEF CountTypes
    <3> QED BY <3>1, <1>2 DEF Counted
  <2>5. ASSUME NEW m \in Months, MonthOK(m) PROVE MonthOK(m)'
    <3>1. m \notin lost' => m \notin lost /\ Counted(p, m) = 0
      BY <1>8, <2>1
    <3> QED BY <2>1, <2>2, <2>3, <2>4, <2>5, <3>1, SomeLost DEF Others
  <2> QED BY <2>2, <2>5
<1>9. CASE Exit(p)
  <2>1. Gone(p, pending[p]) /\ batch[p] = Nothing /\ pending[p] \in [Months -> Nat]
    BY <1>9 DEF Exit, CountTypes
  <2>2. \A m \in Months : pending[p][m] \in Nat /\ (pending[p][m] = 0 => Counted(p, m) = 0)
    BY <2>1, <1>2 DEF Counted
  <2> QED BY <2>1, <2>2, <1>8
<1>10. CASE Crash(p)
  <2> DEFINE h == [m \in Months |-> pending[p][m] + batch[p][m]]
  <2>1. Gone(p, h)
    BY <1>10 DEF Crash
  <2>2. \A m \in Months : h[m] \in Nat /\ (h[m] = 0 => Counted(p, m) = 0)
    BY DEF Counted, CountTypes
  <2> HIDE DEF h
  <2> QED BY <2>1, <2>2, <1>8
<1> QED BY <1>3, <1>4, <1>5, <1>6, <1>7, <1>9, <1>10 DEF Counting

-----------------------------------------------------------------------------
(* What a step of a sweep does. *)

TalkTypes ==
    /\ notices \subseteq Notices /\ mails \in [Notices -> Nat]
    /\ overage \in Talk /\ sweep \in [Sweepers -> Sweep]
    /\ cut \in BOOLEAN /\ reply \in {"no", "yes", "raced"}

\* Sweep s alone moves; its clock and what else it remembers stay.
Turn(s) == \A t \in Sweepers \ {s} : sweep'[t] = sweep[t]
Like(s) == /\ sweep'[s].now = sweep[s].now /\ sweep'[s].todo = sweep[s].todo
           /\ sweep'[s].talk = sweep[s].talk
Begun(s) == sweep[s].pc # "idle" => sweep[s].now \in 1..time /\ time \in 1..MaxTime

LEMMA NoTalkIs ==
    /\ NoTalk \in Talk /\ NoTalk.period = 0 /\ NoTalk.asked = 0 /\ ~NoTalk.replied
    /\ ~NoTalk.locked
BY UsageAssumption DEF NoTalk, Talk

LEMMA IdleIs ==
    /\ Idle \in Sweep /\ Idle.pc = "idle" /\ Idle.now = 0 /\ Idle.talk = NoTalk
    /\ Idle.todo = <<>>
BY NoTalkIs, UsageAssumption DEF Idle, Sweep, Pcs

LEMMA TailIs ==
    ASSUME NEW q \in Seq(Levels), q # <<>>
    PROVE  Tail(q) \in Seq(Levels)
OBVIOUS

LEMMA FieldsAre ==
    ASSUME TalkTypes, NEW s \in Sweepers
    PROVE  /\ sweep[s] \in Sweep /\ sweep[s].pc \in Pcs /\ sweep[s].now \in 0..MaxTime
           /\ sweep[s].talk \in Talk /\ sweep[s].todo \in Seq(Levels)
           /\ sweep[s].billable \in Nat
BY DEF TalkTypes, Sweep

LEMMA UpdateDoes ==
    ASSUME TalkTypes, NEW s \in Sweepers, NEW r \in Sweep, sweep' = [sweep EXCEPT ![s] = r]
    PROVE  Turn(s) /\ sweep'[s] = r /\ sweep' \in [Sweepers -> Sweep]
BY DEF TalkTypes, Turn

LEMMA ReturnDoes ==
    ASSUME TalkTypes, NEW s \in Sweepers, Return(s)
    PROVE  Turn(s) /\ sweep'[s] = Idle /\ sweep' \in [Sweepers -> Sweep]
BY UpdateDoes, IdleIs DEF Return

LEMMA GotoDoes ==
    ASSUME TalkTypes, NEW s \in Sweepers, NEW pc \in Pcs, Goto(s, pc)
    PROVE  Turn(s) /\ sweep'[s].pc = pc /\ Like(s) /\ sweep' \in [Sweepers -> Sweep]
<1> DEFINE r == [sweep[s] EXCEPT !.pc = pc]
<1>1. r \in Sweep /\ r.pc = pc /\ r.now = sweep[s].now /\ r.todo = sweep[s].todo
      /\ r.talk = sweep[s].talk
  BY FieldsAre DEF Sweep
<1>2. sweep' = [sweep EXCEPT ![s] = r]
  BY DEF Goto
<1> HIDE DEF r
<1> QED BY <1>1, <1>2, UpdateDoes DEF Like

LEMMA PeriodIs ==
    ASSUME NEW s \in Sweepers, Begun(s), sweep[s].pc # "idle"
    PROVE  Period(s) \in Months /\ Period(s) >= 3 /\ Period(s) \in Nat
<1>1. sweep[s].now \in 1..MaxTime
  BY UsageAssumption DEF Begun
<1> QED BY <1>1, MonthIs DEF Period

LEMMA PeriodSame ==
    ASSUME NEW s, sweep'[s].now = sweep[s].now
    PROVE  Period(s)' = Period(s)
BY DEF Period, MonthAt

LEMMA BeginDoes ==
    ASSUME TalkTypes, time \in 1..MaxTime, NEW s \in Sweepers, Begin(s)
    PROVE  /\ Turn(s) /\ TalkTypes' /\ UNCHANGED <<time, talk, cut>> /\ At(s, "idle")
           /\ sweep'[s].pc = "count" /\ sweep'[s].now = time /\ sweep'[s].talk = NoTalk
<1> DEFINE r == [Idle EXCEPT !.pc = "count", !.now = time]
<1>1. r \in Sweep /\ r.pc = "count" /\ r.now = time /\ r.talk = NoTalk
  <2>1. time \in 0..MaxTime
    BY UsageAssumption
  <2> QED BY <2>1, IdleIs DEF Sweep, Pcs
<1>2. sweep' = [sweep EXCEPT ![s] = r] /\ UNCHANGED <<time, talk, cut>> /\ At(s, "idle")
  BY DEF Begin
<1> HIDE DEF r
<1> QED BY <1>1, <1>2, UpdateDoes DEF TalkTypes, talk

LEMMA ReachedIs == ASSUME NEW n \in Nat PROVE Reached(n) \in Seq(Levels)
<1>1. \A l \in Levels : Passed(l, n) \in Seq(Levels)
  BY DEF Passed
<1>2. "warn" \in Levels /\ "reached" \in Levels
  BY DEF Levels
<1>3. Passed("warn", n) \in Seq(Levels) /\ Passed("reached", n) \in Seq(Levels)
  BY <1>1, <1>2
<1> QED BY <1>3 DEF Reached

LEMMA CountDoes ==
    ASSUME TalkTypes, CountTypes, NEW s \in Sweepers, Begun(s), Count(s)
    PROVE  /\ Turn(s) /\ TalkTypes' /\ UNCHANGED <<time, talk, cut>> /\ At(s, "count")
           /\ sweep'[s].pc = "rungs" /\ sweep'[s].now = sweep[s].now
           /\ sweep'[s].talk = sweep[s].talk
<1> DEFINE n == counter[Period(s)]
           r == [sweep[s] EXCEPT !.pc = "rungs", !.billable = n, !.todo = Reached(n)]
<1>1. At(s, "count") /\ UNCHANGED <<time, talk, cut>> /\ sweep' = [sweep EXCEPT ![s] = r]
  BY DEF Count
<1>2. n \in Nat
  BY <1>1, PeriodIs DEF CountTypes, At
<1>3. Reached(n) \in Seq(Levels)
  BY <1>2, ReachedIs
<1> HIDE DEF n
<1>4. r \in Sweep /\ r.pc = "rungs" /\ r.now = sweep[s].now /\ r.talk = sweep[s].talk
  BY <1>2, <1>3, FieldsAre DEF Sweep, Pcs
<1> HIDE DEF r
<1> QED BY <1>1, <1>4, UpdateDoes DEF TalkTypes, talk

LEMMA ReadTalkDoes ==
    ASSUME TalkTypes, NEW s \in Sweepers, ReadTalk(s)
    PROVE  /\ Turn(s) /\ TalkTypes' /\ UNCHANGED <<time, talk, cut>> /\ At(s, "rungs")
           /\ sweep'[s].pc = "decide" /\ sweep'[s].now = sweep[s].now
           /\ sweep'[s].talk = overage
<1> DEFINE r == [sweep[s] EXCEPT !.pc = "decide", !.talk = overage]
<1>1. At(s, "rungs") /\ UNCHANGED <<time, talk, cut>> /\ sweep' = [sweep EXCEPT ![s] = r]
  BY DEF ReadTalk
<1>2. r \in Sweep /\ r.pc = "decide" /\ r.now = sweep[s].now /\ r.talk = overage
  BY FieldsAre DEF Sweep, Pcs, TalkTypes
<1> HIDE DEF r
<1> QED BY <1>1, <1>2, UpdateDoes DEF TalkTypes, talk

\* What the ladder decides: two complete months before this one, a question that was
\* not asked before, or one that was, whose time is over and to which nobody replied.
LEMMA TwoMonths ==
    ASSUME CountTypes, NEW m \in Months, m >= 3, ConsecutiveOver(m) >= 2
    PROVE  counter[m - 1] > Limit /\ counter[m - 2] > Limit
<1> DEFINE J == {j \in 1..(m - 1) : \A i \in j..(m - 1) : counter[i] > Limit}
<1>1. m \in Nat
  BY MonthsAre
<1>2. IsFiniteSet(1..(m - 1))
  BY <1>1, FS_Interval
<1>3. IsFiniteSet(J) /\ Cardinality(J) >= 2 /\ Cardinality(J) \in Nat
  BY <1>2, FS_Subset, FS_CardinalityType DEF ConsecutiveOver
<1>4. J # {} /\ J # {m - 1}
  BY <1>3, FS_EmptySet, FS_Singleton
<1>5. PICK j \in J : j # m - 1
  BY <1>4
<1>6. j \in 1..(m - 2)
  BY <1>5, <1>1
<1>7. m - 1 \in j..(m - 1) /\ m - 2 \in j..(m - 1)
  BY <1>6, <1>1
<1> QED BY <1>5, <1>7

LEMMA DecideIs ==
    ASSUME NEW t \in Talk, NEW n \in Nat, NEW over \in BOOLEAN, NEW now \in Nat
    PROVE  /\ Decide(t, n, over, now) \in {"idle", "clear", "ask", "lock"}
           /\ Decide(t, n, over, now) = "ask" => n >= 2 /\ t.asked = 0
           /\ Decide(t, n, over, now) = "lock" =>
                 n >= 2 /\ t.asked > 0 /\ ~t.replied /\ ~t.locked /\ now >= DueAt(t)
<1>1. t.asked \in Nat
  BY DEF Talk
<1>2. CASE ~over /\ n < 2 /\ t # NoTalk
  <2>1. ~(n >= 2)
    BY <1>2
  <2>2. Decide(t, n, over, now) = "clear"
    BY <1>2, <2>1 DEF Decide
  <2> QED BY <2>2
<1>3. CASE n >= 2 /\ t.asked = 0
  <2>1. ~(n < 2) /\ ~(t.asked > 0)
    BY <1>3
  <2>2. Decide(t, n, over, now) = "ask"
    BY <1>3, <2>1 DEF Decide
  <2> QED BY <2>2, <1>3
<1>4. CASE n >= 2 /\ t.asked > 0 /\ Unanswered(t) /\ ~t.locked /\ now >= DueAt(t)
  <2>1. ~(n < 2) /\ ~(t.asked = 0)
    BY <1>4
  <2>2. Decide(t, n, over, now) = "lock"
    BY <1>4, <2>1 DEF Decide
  <2> QED BY <2>2, <1>4 DEF Unanswered
<1>5. CASE /\ ~(~over /\ n < 2 /\ t # NoTalk) /\ ~(n >= 2 /\ t.asked = 0)
           /\ ~(n >= 2 /\ t.asked > 0 /\ Unanswered(t) /\ ~t.locked /\ now >= DueAt(t))
  <2>1. Decide(t, n, over, now) = "idle"
    BY <1>5 DEF Decide
  <2> QED BY <2>1
<1> QED BY <1>2, <1>3, <1>4, <1>5

LEMMA RunOverageDoes ==
    ASSUME TalkTypes, CountTypes, NEW s \in Sweepers, Begun(s), RunOverage(s)
    PROVE  /\ Turn(s) /\ TalkTypes' /\ UNCHANGED <<time, talk, cut>> /\ At(s, "decide")
           /\ \/ sweep'[s] = Idle
              \/ sweep'[s].pc = "clear" /\ Like(s)
              \/ /\ sweep'[s].pc = "ask" /\ Like(s) /\ sweep[s].talk.asked = 0
                 /\ counter[Period(s) - 1] > Limit /\ counter[Period(s) - 2] > Limit
              \/ /\ sweep'[s].pc = "lock" /\ Like(s) /\ sweep[s].talk.asked > 0
                 /\ ~sweep[s].talk.replied /\ sweep[s].now >= DueAt(sweep[s].talk)
<1> DEFINE n == ConsecutiveOver(Period(s))
           d == Decide(sweep[s].talk, n, sweep[s].billable > Limit, sweep[s].now)
<1>1. /\ At(s, "decide") /\ UNCHANGED <<time, talk, cut>>
      /\ IF d = "idle" THEN Return(s) ELSE Goto(s, d)
  BY DEF RunOverage
<1>2. Period(s) \in Months /\ Period(s) >= 3 /\ Period(s) \in Nat
  BY <1>1, PeriodIs DEF At
<1>3. n \in Nat
  <2>1. IsFiniteSet(1..(Period(s) - 1))
    BY <1>2, FS_Interval
  <2> QED BY <2>1, FS_Subset, FS_CardinalityType DEF ConsecutiveOver
<1>4. sweep[s].now \in Nat /\ sweep[s].talk \in Talk
  BY FieldsAre
<1>5. /\ d \in {"idle", "clear", "ask", "lock"}
      /\ d = "ask" => n >= 2 /\ sweep[s].talk.asked = 0
      /\ d = "lock" => /\ sweep[s].talk.asked > 0 /\ ~sweep[s].talk.replied
                       /\ sweep[s].now >= DueAt(sweep[s].talk)
  <2>1. (sweep[s].billable > Limit) \in BOOLEAN
    OBVIOUS
  <2> HIDE DEF n
  <2> QED BY <1>3, <1>4, <2>1, DecideIs
<1>6. n >= 2 => counter[Period(s) - 1] > Limit /\ counter[Period(s) - 2] > Limit
  BY <1>2, TwoMonths
<1> HIDE DEF n, d
<1>7. CASE d = "idle"
  BY <1>1, <1>7, ReturnDoes DEF TalkTypes, talk
<1>8. CASE d \in {"clear", "ask", "lock"}
  <2>1. Goto(s, d) /\ d \in Pcs
    BY <1>1, <1>8 DEF Pcs
  <2>2. Turn(s) /\ sweep'[s].pc = d /\ Like(s) /\ sweep' \in [Sweepers -> Sweep]
    BY <2>1, GotoDoes
  <2> QED BY <1>1, <1>5, <1>6, <1>8, <2>2 DEF TalkTypes, talk
<1> QED BY <1>5, <1>7, <1>8

LEMMA MailFailsDoes ==
    ASSUME TalkTypes, NEW s \in Sweepers, MailFails(s)
    PROVE  /\ Turn(s) /\ TalkTypes' /\ UNCHANGED <<time, talk, cut>> /\ Like(s)
           /\ \/ sweep[s].pc = "mail" /\ sweep'[s].pc = "release"
              \/ sweep[s].pc = "ask mail" /\ sweep'[s].pc = "take back"
<1>1. /\ UNCHANGED <<time, talk, cut>> /\ sweep[s].pc \in {"mail", "ask mail"}
      /\ Goto(s, IF At(s, "mail") THEN "release" ELSE "take back")
  BY DEF MailFails
<1>2. CASE sweep[s].pc = "mail"
  <2>1. Goto(s, "release") /\ "release" \in Pcs
    BY <1>1, <1>2 DEF At, Pcs
  <2> QED BY <1>1, <1>2, <2>1, GotoDoes DEF TalkTypes, talk
<1>3. CASE sweep[s].pc = "ask mail"
  <2>1. Goto(s, "take back") /\ "take back" \in Pcs
    BY <1>1, <1>3 DEF At, Pcs
  <2> QED BY <1>1, <1>3, <2>1, GotoDoes DEF TalkTypes, talk
<1> QED BY <1>1, <1>2, <1>3

LEMMA EndsDoes ==
    ASSUME TalkTypes, NEW s \in Sweepers, StatementFails(s) \/ Cancelled(s)
    PROVE  /\ Turn(s) /\ TalkTypes' /\ UNCHANGED <<time, talk>> /\ cut' = (cut \/ Claiming(s))
           /\ \/ sweep'[s] = Idle
              \/ sweep[s].pc = "take back" /\ sweep'[s].pc = "unclaim" /\ Like(s)
<1>1. /\ UNCHANGED <<time, talk>> /\ cut' = (cut \/ Claiming(s))
      /\ Return(s) \/ (At(s, "take back") /\ Goto(s, "unclaim"))
  BY DEF StatementFails, Cancelled
<1>2. cut' \in BOOLEAN
  BY <1>1 DEF TalkTypes
<1>3. CASE Return(s)
  BY <1>1, <1>2, <1>3, ReturnDoes DEF TalkTypes, talk
<1>4. CASE At(s, "take back") /\ Goto(s, "unclaim")
  <2>1. "unclaim" \in Pcs
    BY DEF Pcs
  <2> QED BY <1>1, <1>2, <1>4, <2>1, GotoDoes DEF TalkTypes, talk, At
<1> QED BY <1>1, <1>3, <1>4

\* The claim of a notice and its mail.
LEMMA ClaimDoes ==
    ASSUME TalkTypes, NEW s \in Sweepers, Begun(s), Claim(s)
    PROVE  /\ Turn(s) /\ TalkTypes' /\ UNCHANGED <<time, overage, mails, reply, cut>>
           /\ At(s, "rungs") /\ sweep'[s].now = sweep[s].now /\ sweep'[s].talk = sweep[s].talk
           /\ \/ sweep'[s].pc = "rungs" /\ notices' = notices
              \/ /\ sweep'[s].pc = "mail" /\ Like(s) /\ sweep[s].todo # <<>>
                 /\ <<Period(s), Head(sweep[s].todo)>> \notin notices
                 /\ notices' = notices \cup {<<Period(s), Head(sweep[s].todo)>>}
<1> DEFINE k == <<Period(s), Head(sweep[s].todo)>>
           r == [sweep[s] EXCEPT !.todo = Tail(@)]
<1>1. /\ At(s, "rungs") /\ sweep[s].todo # <<>> /\ UNCHANGED <<time, overage, mails, reply, cut>>
      /\ IF Unclaimed(k) THEN notices' = notices \cup {k} /\ Goto(s, "mail")
         ELSE notices' = notices /\ sweep' = [sweep EXCEPT ![s] = r]
  BY DEF Claim
<1>2. k \in Notices
  <2>1. Period(s) \in Months
    BY <1>1, PeriodIs DEF At
  <2>2. Head(sweep[s].todo) \in Levels
    BY <1>1, FieldsAre
  <2> QED BY <2>1, <2>2 DEF Notices
<1>3. CASE Unclaimed(k)
  <2>1. "mail" \in Pcs /\ Goto(s, "mail") /\ notices' = notices \cup {k} /\ k \notin notices
    BY <1>1, <1>3 DEF Pcs, Unclaimed
  <2>2. Turn(s) /\ sweep'[s].pc = "mail" /\ Like(s) /\ sweep' \in [Sweepers -> Sweep]
    BY <2>1, GotoDoes
  <2>3. TalkTypes'
    BY <1>1, <1>2, <2>1, <2>2 DEF TalkTypes
  <2> QED BY <1>1, <2>1, <2>2, <2>3 DEF Like
<1>4. CASE ~Unclaimed(k)
  <2>1. r \in Sweep /\ r.pc = sweep[s].pc /\ r.now = sweep[s].now /\ r.talk = sweep[s].talk
    <3>1. Tail(sweep[s].todo) \in Seq(Levels)
      BY <1>1, FieldsAre, TailIs
    <3> DEFINE q == Tail(sweep[s].todo)
    <3>2. r = [sweep[s] EXCEPT !.todo = q]
      OBVIOUS
    <3> HIDE DEF q, r
    <3> QED BY <3>1, <3>2, FieldsAre DEF Sweep, q
  <2>2. sweep' = [sweep EXCEPT ![s] = r] /\ notices' = notices
    BY <1>1, <1>4
  <2> HIDE DEF r
  <2>3. Turn(s) /\ sweep'[s] = r /\ sweep' \in [Sweepers -> Sweep]
    BY <2>1, <2>2, UpdateDoes
  <2> QED BY <1>1, <2>1, <2>2, <2>3 DEF TalkTypes, At
<1> QED BY <1>3, <1>4

LEMMA MailDoes ==
    ASSUME TalkTypes, NEW s \in Sweepers, Begun(s), Mail(s), sweep[s].todo # <<>>
    PROVE  /\ Turn(s) /\ TalkTypes' /\ UNCHANGED <<time, notices, overage, reply, cut>>
           /\ At(s, "mail") /\ sweep'[s].pc = "rungs" /\ sweep'[s].now = sweep[s].now
           /\ sweep'[s].talk = sweep[s].talk
           /\ mails' = [mails EXCEPT ![<<Period(s), Head(sweep[s].todo)>>] = @ + 1]
           /\ <<Period(s), Head(sweep[s].todo)>> \in Notices
<1> DEFINE k == <<Period(s), Head(sweep[s].todo)>>
           r == [sweep[s] EXCEPT !.pc = "rungs", !.todo = Tail(@)]
<1>1. /\ At(s, "mail") /\ UNCHANGED <<time, notices, overage, reply, cut>>
      /\ mails' = [mails EXCEPT ![k] = @ + 1] /\ sweep' = [sweep EXCEPT ![s] = r]
  BY DEF Mail, Delivered
<1>2. k \in Notices
  <2>1. Period(s) \in Months
    BY <1>1, PeriodIs DEF At
  <2>2. Head(sweep[s].todo) \in Levels
    BY FieldsAre
  <2> QED BY <2>1, <2>2 DEF Notices
<1>3. r \in Sweep /\ r.pc = "rungs" /\ r.now = sweep[s].now /\ r.talk = sweep[s].talk
  <2>1. Tail(sweep[s].todo) \in Seq(Levels)
    BY FieldsAre, TailIs
  <2> DEFINE q == Tail(sweep[s].todo)
  <2>2. r = [sweep[s] EXCEPT !.pc = "rungs", !.todo = q]
    OBVIOUS
  <2> HIDE DEF q, r
  <2> QED BY <2>1, <2>2, FieldsAre DEF Sweep, Pcs, q
<1> HIDE DEF r
<1>4. Turn(s) /\ sweep'[s] = r /\ sweep' \in [Sweepers -> Sweep]
  BY <1>1, <1>3, UpdateDoes
<1> HIDE DEF k
<1>5. mails' \in [Notices -> Nat]
  BY <1>1, <1>2 DEF TalkTypes
<1>6. TalkTypes'
  BY <1>1, <1>4, <1>5 DEF TalkTypes
<1> QED BY <1>1, <1>2, <1>3, <1>4, <1>6 DEF k

LEMMA ReleaseDoes ==
    ASSUME TalkTypes, NEW s \in Sweepers, Release(s)
    PROVE  /\ Turn(s) /\ TalkTypes' /\ UNCHANGED <<time, mails, overage, reply, cut>>
           /\ At(s, "release") /\ sweep'[s] = Idle
           /\ notices' = notices \ {<<Period(s), Head(sweep[s].todo)>>}
BY ReturnDoes DEF Release, Released, TalkTypes

LEMMA AskDoes ==
    ASSUME TalkTypes, NEW s \in Sweepers, Begun(s), Ask(s)
    PROVE  /\ Turn(s) /\ TalkTypes' /\ UNCHANGED <<time, mails, overage, reply, cut>>
           /\ At(s, "ask")
           /\ \/ sweep'[s] = Idle /\ notices' = notices
              \/ /\ sweep'[s].pc = "save" /\ Like(s)
                 /\ <<Period(s), "second_month">> \notin notices
                 /\ notices' = notices \cup {<<Period(s), "second_month">>}
<1> DEFINE k == <<Period(s), "second_month">>
<1>1. /\ At(s, "ask") /\ UNCHANGED <<time, mails, overage, reply, cut>>
      /\ IF Unclaimed(k) THEN notices' = notices \cup {k} /\ Goto(s, "save")
         ELSE notices' = notices /\ Return(s)
  BY DEF Ask
<1>2. k \in Notices
  BY <1>1, PeriodIs DEF At, Notices
<1>3. CASE Unclaimed(k)
  <2>1. "save" \in Pcs /\ Goto(s, "save") /\ notices' = notices \cup {k} /\ k \notin notices
    BY <1>1, <1>3 DEF Pcs, Unclaimed
  <2>2. Turn(s) /\ sweep'[s].pc = "save" /\ Like(s) /\ sweep' \in [Sweepers -> Sweep]
    BY <2>1, GotoDoes
  <2>3. TalkTypes'
    BY <1>1, <1>2, <2>1, <2>2 DEF TalkTypes
  <2> QED BY <1>1, <2>1, <2>2, <2>3
<1>4. CASE ~Unclaimed(k)
  BY <1>1, <1>4, ReturnDoes DEF TalkTypes
<1> QED BY <1>3, <1>4

LEMMA SaveAskedDoes ==
    ASSUME TalkTypes, NEW s \in Sweepers, Begun(s), SaveAsked(s)
    PROVE  /\ Turn(s) /\ TalkTypes' /\ UNCHANGED <<time, mails, notices, cut>>
           /\ At(s, "save") /\ sweep'[s].pc = "ask mail" /\ Like(s) /\ reply' = "no"
           /\ overage' = [sweep[s].talk EXCEPT !.period = Period(s), !.asked = sweep[s].now]
           /\ overage'.period = Period(s) /\ overage'.asked = sweep[s].now
           /\ overage'.locked = sweep[s].talk.locked
<1>1. /\ At(s, "save") /\ UNCHANGED <<time, mails, notices, cut>> /\ reply' = "no"
      /\ overage' = [sweep[s].talk EXCEPT !.period = Period(s), !.asked = sweep[s].now]
      /\ Goto(s, "ask mail")
  BY DEF SaveAsked
<1>2. Period(s) \in Months
  BY <1>1, PeriodIs DEF At
<1>3. /\ overage' \in Talk /\ overage'.period = Period(s) /\ overage'.asked = sweep[s].now
      /\ overage'.locked = sweep[s].talk.locked
  BY <1>1, <1>2, FieldsAre DEF Talk
<1>4. "ask mail" \in Pcs
  BY DEF Pcs
<1> QED BY <1>1, <1>3, <1>4, GotoDoes DEF TalkTypes

LEMMA AskMailDoes ==
    ASSUME TalkTypes, NEW s \in Sweepers, Begun(s), AskMail(s)
    PROVE  /\ Turn(s) /\ TalkTypes' /\ UNCHANGED <<time, overage, notices, reply, cut>>
           /\ At(s, "ask mail") /\ sweep'[s] = Idle
           /\ mails' = [mails EXCEPT ![<<Period(s), "second_month">>] = @ + 1]
           /\ <<Period(s), "second_month">> \in Notices
<1>1. /\ At(s, "ask mail") /\ UNCHANGED <<time, overage, notices, reply, cut>> /\ Return(s)
      /\ mails' = [mails EXCEPT ![<<Period(s), "second_month">>] = @ + 1]
  BY DEF AskMail, Delivered
<1>2. <<Period(s), "second_month">> \in Notices
  BY <1>1, PeriodIs DEF At, Notices
<1>3. mails' \in [Notices -> Nat]
  <2> DEFINE k == <<Period(s), "second_month">>
  <2>1. k \in Notices /\ mails' = [mails EXCEPT ![k] = @ + 1]
    BY <1>1, <1>2
  <2> HIDE DEF k
  <2> QED BY <2>1 DEF TalkTypes
<1> QED BY <1>1, <1>2, <1>3, ReturnDoes DEF TalkTypes

LEMMA TakeBackDoes ==
    ASSUME TalkTypes, NEW s \in Sweepers, TakeBack(s)
    PROVE  /\ Turn(s) /\ TalkTypes' /\ UNCHANGED <<time, mails, notices, cut>>
           /\ At(s, "take back") /\ sweep'[s].pc = "unclaim" /\ Like(s)
           /\ overage' = NoTalk /\ reply' = "no"
<1>1. "unclaim" \in Pcs
  BY DEF Pcs
<1> QED BY <1>1, GotoDoes, NoTalkIs DEF TakeBack, Taken, TalkTypes

LEMMA UnclaimDoes ==
    ASSUME TalkTypes, NEW s \in Sweepers, Unclaim(s)
    PROVE  /\ Turn(s) /\ TalkTypes' /\ UNCHANGED <<time, mails, overage, reply, cut>>
           /\ At(s, "unclaim") /\ sweep'[s] = Idle
           /\ notices' = notices \ {<<Period(s), "second_month">>}
BY ReturnDoes DEF Unclaim, Released, TalkTypes

LEMMA LockDoes ==
    ASSUME TalkTypes, NEW s \in Sweepers, Lock(s)
    PROVE  /\ Turn(s) /\ TalkTypes' /\ UNCHANGED <<time, mails, notices, reply, cut>>
           /\ At(s, "lock") /\ sweep'[s] = Idle
           /\ overage'.period = sweep[s].talk.period /\ overage'.asked = sweep[s].talk.asked
<1>1. /\ At(s, "lock") /\ UNCHANGED <<time, mails, notices, reply, cut>> /\ Return(s)
      /\ overage' = [sweep[s].talk EXCEPT !.locked = TRUE]
  BY DEF Lock
<1>2. /\ overage' \in Talk /\ overage'.period = sweep[s].talk.period
      /\ overage'.asked = sweep[s].talk.asked
  BY <1>1, FieldsAre DEF Talk
<1> QED BY <1>1, <1>2, ReturnDoes DEF TalkTypes

LEMMA ClearDoes ==
    ASSUME TalkTypes, NEW s \in Sweepers, Clear(s)
    PROVE  /\ Turn(s) /\ TalkTypes' /\ UNCHANGED <<time, mails, notices, cut>>
           /\ At(s, "clear") /\ sweep'[s] = Idle /\ overage' = NoTalk /\ reply' = "no"
BY ReturnDoes, NoTalkIs DEF Clear, TalkTypes

-----------------------------------------------------------------------------
(* The clock of a sweep. *)

LEMMA BegunIs ==
    ASSUME ClocksOK, time \in 1..MaxTime, NEW s \in Sweepers
    PROVE  Begun(s)
BY DEF ClocksOK, ClockOK, Begun, At

\* A sweep keeps the clock it began with, and the notices it still has to send.
LEMMA SweepTurns ==
    ASSUME TalkTypes, CountTypes, time \in 1..MaxTime, ClocksOK, NEW s \in Sweepers, Sweeping(s)
    PROVE  /\ Turn(s) /\ TalkTypes' /\ time' = time
           /\ ~At(s, "idle")' => sweep'[s].now = IF At(s, "idle") THEN time ELSE sweep[s].now
           /\ sweep'[s].pc \in {"mail", "release"} => sweep'[s].todo # <<>>
<1>1. Begun(s) /\ (sweep[s].pc \in {"mail", "release"} => sweep[s].todo # <<>>)
  BY BegunIs DEF ClocksOK, ClockOK, At
<1>2. CASE Begin(s)
  BY <1>2, BeginDoes DEF At
<1>3. CASE Count(s)
  BY <1>1, <1>3, CountDoes DEF At
<1>4. CASE Claim(s)
  BY <1>1, <1>4, ClaimDoes DEF At, Like
<1>5. CASE Mail(s)
  <2>1. sweep[s].todo # <<>>
    BY <1>1, <1>5 DEF Mail, At
  <2> QED BY <1>1, <1>5, <2>1, MailDoes DEF At
<1>6. CASE Release(s)
  BY <1>6, ReleaseDoes, IdleIs DEF At
<1>7. CASE ReadTalk(s)
  BY <1>7, ReadTalkDoes DEF At
<1>8. CASE RunOverage(s)
  BY <1>1, <1>8, RunOverageDoes, IdleIs DEF At, Like
<1>9. CASE Ask(s)
  BY <1>1, <1>9, AskDoes, IdleIs DEF At, Like
<1>10. CASE SaveAsked(s)
  BY <1>1, <1>10, SaveAskedDoes DEF At, Like
<1>11. CASE AskMail(s)
  BY <1>1, <1>11, AskMailDoes, IdleIs DEF At
<1>12. CASE TakeBack(s)
  BY <1>12, TakeBackDoes DEF At, Like
<1>13. CASE Unclaim(s)
  BY <1>13, UnclaimDoes, IdleIs DEF At
<1>14. CASE Lock(s)
  BY <1>14, LockDoes, IdleIs DEF At
<1>15. CASE Clear(s)
  BY <1>15, ClearDoes, IdleIs DEF At
<1>16. CASE MailFails(s)
  BY <1>1, <1>16, MailFailsDoes DEF At, Like
<1>17. CASE StatementFails(s) \/ Cancelled(s)
  BY <1>17, EndsDoes, IdleIs DEF At, Like
<1> QED BY <1>2, <1>3, <1>4, <1>5, <1>6, <1>7, <1>8, <1>9, <1>10, <1>11, <1>12, <1>13, <1>14,
           <1>15, <1>16, <1>17 DEF Sweeping, SweepStep

LEMMA CrashDoes ==
    ASSUME TalkTypes, NEW p \in Procs, Crash(p)
    PROVE  /\ p \in Sweepers /\ Turn(p) /\ sweep'[p] = Idle /\ TalkTypes'
           /\ UNCHANGED <<time, stored, counter, talk>> /\ cut' = (cut \/ Claiming(p))
<1>1. /\ UNCHANGED <<time, stored, counter, talk>> /\ cut' = (cut \/ Claiming(p)) /\ p \in Sweepers
      /\ Return(p)
  BY CrashFrames DEF Return, Sweepers
<1>2. cut' \in BOOLEAN
  BY <1>1 DEF TalkTypes
<1> QED BY <1>1, <1>2, ReturnDoes DEF TalkTypes, talk

LEMMA ReplyDoes ==
    ASSUME TalkTypes, MarkReplied
    PROVE  TalkTypes'
<1>1. [overage EXCEPT !.replied = TRUE, !.locked = FALSE] \in Talk
  BY DEF TalkTypes, Talk
<1> QED BY <1>1, ReplyFrames DEF TalkTypes

LEMMA ClocksStep ==
    ASSUME TalkTypes, CountTypes, time \in 1..MaxTime, ClocksOK, Next
    PROVE  ClocksOK'
<1>1. ASSUME NEW p \in Procs, Counting(p) PROVE ClocksOK'
  <2>1. sweep' = sweep /\ time' = time
    BY <1>1, CountingFrames
  <2> QED BY <2>1 DEF ClocksOK, ClockOK, At
<1>2. ASSUME NEW p \in Procs, Crash(p) PROVE ClocksOK'
  <2>1. Turn(p) /\ sweep'[p].pc = "idle" /\ time' = time
    BY <1>2, CrashDoes, IdleIs
  <2> QED BY <2>1 DEF ClocksOK, ClockOK, At, Turn
<1>3. ASSUME NEW s \in Sweepers, Sweeping(s) PROVE ClocksOK'
  <2>1. ASSUME NEW t \in Sweepers PROVE ClockOK(t)'
    <3>1. CASE t = s
      <4>1. ~At(s, "idle") => /\ sweep[s].now \in 1..time /\ time <= sweep[s].now + 1
        BY DEF ClocksOK, ClockOK
      <4>2. time \in 1..time /\ time <= time + 1
        BY UsageAssumption
      <4> QED BY <1>3, <3>1, <4>1, <4>2, SweepTurns DEF ClockOK
    <3>2. CASE t # s
      <4>1. sweep'[t] = sweep[t] /\ time' = time
        BY <1>3, <3>2, SweepTurns DEF Turn
      <4> QED BY <4>1 DEF ClocksOK, ClockOK, At
    <3> QED BY <3>1, <3>2
  <2> QED BY <2>1 DEF ClocksOK
<1>4. CASE MarkReplied
  BY <1>4, ReplyFrames DEF ClocksOK, ClockOK, At
<1>5. CASE Tick
  <2>1. ASSUME NEW s \in Sweepers PROVE ClockOK(s)'
    <3>1. /\ sweep' = sweep /\ time' = time + 1 /\ time \in Nat
          /\ At(s, "idle") \/ sweep[s].now = time
      BY <1>5, TickIs, UsageAssumption
    <3> QED BY <3>1 DEF ClocksOK, ClockOK, At
  <2> QED BY <2>1 DEF ClocksOK
<1> QED BY <1>1, <1>2, <1>3, <1>4, <1>5, StepIs

-----------------------------------------------------------------------------
(* The claims of notices. *)

\* The five things a sweep does about a claim.
Frees(s) == ~Claiming(s)' /\ UNCHANGED <<notices, mails>>
Carries(s) == Claiming(s) /\ Claiming(s)' /\ Key(s)' = Key(s) /\ UNCHANGED <<notices, mails>>
Takes(s) == /\ ~Claiming(s) /\ Claiming(s)' /\ Key(s)' \notin notices
            /\ notices' = notices \cup {Key(s)'} /\ mails' = mails
Sends(s) == /\ Claiming(s) /\ ~Claiming(s)' /\ notices' = notices
            /\ Key(s) \in Notices /\ mails' = [mails EXCEPT ![Key(s)] = @ + 1]
GivesBack(s) == /\ Claiming(s) /\ ~Claiming(s)'
                /\ notices' = notices \ {Key(s)} /\ mails' = mails

LEMMA OfClaims ==
    ASSUME TalkTypes, CountTypes, time \in 1..MaxTime, ClocksOK, NEW s \in Sweepers, Sweeping(s)
    PROVE  Frees(s) \/ Carries(s) \/ Takes(s) \/ Sends(s) \/ GivesBack(s)
<1>1. Begun(s) /\ (sweep[s].pc \in {"mail", "release"} => sweep[s].todo # <<>>)
  BY BegunIs DEF ClocksOK, ClockOK, At
<1>2. CASE Begin(s)
  BY <1>2, BeginDoes DEF Frees, Claiming, talk
<1>3. CASE Count(s)
  BY <1>1, <1>3, CountDoes DEF Frees, Claiming, talk
<1>4. CASE Claim(s)
  <2>1. CASE sweep'[s].pc = "rungs" /\ notices' = notices
    BY <1>1, <1>4, <2>1, ClaimDoes DEF Frees, Claiming
  <2>2. CASE /\ sweep'[s].pc = "mail" /\ Like(s)
             /\ <<Period(s), Head(sweep[s].todo)>> \notin notices
             /\ notices' = notices \cup {<<Period(s), Head(sweep[s].todo)>>}
    <3>1. Key(s)' = <<Period(s), Head(sweep[s].todo)>>
      BY <2>2, PeriodSame DEF Key, Like
    <3>2. ~Claiming(s) /\ Claiming(s)' /\ mails' = mails
      BY <1>1, <1>4, <2>2, ClaimDoes DEF Claiming, At
    <3> QED BY <2>2, <3>1, <3>2 DEF Takes
  <2> QED BY <1>1, <1>4, <2>1, <2>2, ClaimDoes
<1>5. CASE Mail(s)
  <2>1. sweep[s].todo # <<>> /\ At(s, "mail")
    BY <1>1, <1>5 DEF Mail, At
  <2>2. Key(s) = <<Period(s), Head(sweep[s].todo)>> /\ Claiming(s)
    BY <2>1 DEF Key, Claiming, At
  <2>3. /\ sweep'[s].pc = "rungs" /\ notices' = notices
        /\ mails' = [mails EXCEPT ![<<Period(s), Head(sweep[s].todo)>>] = @ + 1]
        /\ <<Period(s), Head(sweep[s].todo)>> \in Notices
    BY <1>1, <1>5, <2>1, MailDoes
  <2>4. ~Claiming(s)'
    BY <2>3 DEF Claiming
  <2> QED BY <2>2, <2>3, <2>4 DEF Sends
<1>6. CASE Release(s)
  <2>1. /\ At(s, "release") /\ sweep'[s] = Idle /\ mails' = mails
        /\ notices' = notices \ {<<Period(s), Head(sweep[s].todo)>>}
    BY <1>6, ReleaseDoes
  <2>2. Key(s) = <<Period(s), Head(sweep[s].todo)>> /\ Claiming(s)
    BY <2>1 DEF Key, Claiming, At
  <2>3. ~Claiming(s)'
    BY <2>1, IdleIs DEF Claiming
  <2> QED BY <2>1, <2>2, <2>3 DEF GivesBack
<1>7. CASE ReadTalk(s)
  BY <1>7, ReadTalkDoes DEF Frees, Claiming, talk
<1>8. CASE RunOverage(s)
  BY <1>1, <1>8, RunOverageDoes, IdleIs DEF Frees, Claiming, talk
<1>9. CASE Ask(s)
  <2>1. CASE sweep'[s] = Idle /\ notices' = notices
    BY <1>1, <1>9, <2>1, AskDoes, IdleIs DEF Frees, Claiming
  <2>2. CASE /\ sweep'[s].pc = "save" /\ Like(s)
             /\ <<Period(s), "second_month">> \notin notices
             /\ notices' = notices \cup {<<Period(s), "second_month">>}
    <3>1. Key(s)' = <<Period(s), "second_month">>
      BY <2>2, PeriodSame DEF Key, Like
    <3>2. ~Claiming(s) /\ Claiming(s)' /\ mails' = mails
      BY <1>1, <1>9, <2>2, AskDoes DEF Claiming, At
    <3> QED BY <2>2, <3>1, <3>2 DEF Takes
  <2> QED BY <1>1, <1>9, <2>1, <2>2, AskDoes
<1>10. CASE SaveAsked(s)
  <2>1. /\ At(s, "save") /\ sweep'[s].pc = "ask mail" /\ Like(s)
        /\ notices' = notices /\ mails' = mails
    BY <1>1, <1>10, SaveAskedDoes
  <2>2. Key(s) = <<Period(s), "second_month">> /\ Key(s)' = <<Period(s), "second_month">>
    BY <2>1, PeriodSame DEF Key, Like, At
  <2>3. Claiming(s) /\ Claiming(s)'
    BY <2>1 DEF Claiming, At
  <2> QED BY <2>1, <2>2, <2>3 DEF Carries
<1>11. CASE AskMail(s)
  <2>1. /\ At(s, "ask mail") /\ sweep'[s] = Idle /\ notices' = notices
        /\ mails' = [mails EXCEPT ![<<Period(s), "second_month">>] = @ + 1]
        /\ <<Period(s), "second_month">> \in Notices
    BY <1>1, <1>11, AskMailDoes
  <2>2. Key(s) = <<Period(s), "second_month">> /\ Claiming(s)
    BY <2>1 DEF Key, Claiming, At
  <2>3. ~Claiming(s)'
    BY <2>1, IdleIs DEF Claiming
  <2> QED BY <2>1, <2>2, <2>3 DEF Sends
<1>12. CASE TakeBack(s)
  <2>1. /\ At(s, "take back") /\ sweep'[s].pc = "unclaim" /\ Like(s)
        /\ notices' = notices /\ mails' = mails
    BY <1>12, TakeBackDoes
  <2>2. Key(s) = <<Period(s), "second_month">> /\ Key(s)' = <<Period(s), "second_month">>
    BY <2>1, PeriodSame DEF Key, Like, At
  <2>3. Claiming(s) /\ Claiming(s)'
    BY <2>1 DEF Claiming, At
  <2> QED BY <2>1, <2>2, <2>3 DEF Carries
<1>13. CASE Unclaim(s)
  <2>1. /\ At(s, "unclaim") /\ sweep'[s] = Idle /\ mails' = mails
        /\ notices' = notices \ {<<Period(s), "second_month">>}
    BY <1>13, UnclaimDoes
  <2>2. Key(s) = <<Period(s), "second_month">> /\ Claiming(s)
    BY <2>1 DEF Key, Claiming, At
  <2>3. ~Claiming(s)'
    BY <2>1, IdleIs DEF Claiming
  <2> QED BY <2>1, <2>2, <2>3 DEF GivesBack
<1>14. CASE Lock(s)
  BY <1>14, LockDoes, IdleIs DEF Frees, Claiming
<1>15. CASE Clear(s)
  BY <1>15, ClearDoes, IdleIs DEF Frees, Claiming
<1>16. CASE MailFails(s)
  <2>1. /\ Like(s) /\ notices' = notices /\ mails' = mails
        /\ \/ sweep[s].pc = "mail" /\ sweep'[s].pc = "release"
           \/ sweep[s].pc = "ask mail" /\ sweep'[s].pc = "take back"
    BY <1>16, MailFailsDoes DEF talk
  <2>2. Key(s)' = Key(s)
    BY <2>1, PeriodSame DEF Key, Like
  <2>3. Claiming(s) /\ Claiming(s)'
    BY <2>1 DEF Claiming
  <2> QED BY <2>1, <2>2, <2>3 DEF Carries
<1>17. CASE StatementFails(s) \/ Cancelled(s)
  <2>1. /\ notices' = notices /\ mails' = mails
        /\ \/ sweep'[s] = Idle
           \/ sweep[s].pc = "take back" /\ sweep'[s].pc = "unclaim" /\ Like(s)
    BY <1>17, EndsDoes DEF talk
  <2>2. CASE sweep'[s] = Idle
    BY <2>1, <2>2, IdleIs DEF Frees, Claiming
  <2>3. CASE sweep[s].pc = "take back" /\ sweep'[s].pc = "unclaim" /\ Like(s)
    <3>1. Key(s)' = Key(s)
      BY <2>3, PeriodSame DEF Key, Like
    <3> QED BY <2>1, <2>3, <3>1 DEF Carries, Claiming
  <2> QED BY <2>1, <2>2, <2>3
<1> QED BY <1>2, <1>3, <1>4, <1>5, <1>6, <1>7, <1>8, <1>9, <1>10, <1>11, <1>12, <1>13, <1>14,
           <1>15, <1>16, <1>17 DEF Sweeping, SweepStep

LEMMA OthersClaim ==
    ASSUME NEW s \in Sweepers, Turn(s), NEW t \in Sweepers, t # s
    PROVE  Claiming(t)' = Claiming(t) /\ Key(t)' = Key(t)
<1>1. sweep'[t] = sweep[t]
  BY DEF Turn
<1> QED BY <1>1 DEF Claiming, Key, Period, MonthAt

LEMMA ClaimsKept ==
    ASSUME TalkTypes, TalkTypes', ClaimInv, NEW s \in Sweepers, Turn(s),
           Frees(s) \/ Carries(s) \/ Takes(s) \/ Sends(s) \/ GivesBack(s)
    PROVE  ClaimInv'
<1>1. \A t \in Sweepers \ {s} : (Claiming(t)' <=> Claiming(t)) /\ Key(t)' = Key(t)
  BY OthersClaim
<1>2. /\ \A t \in Sweepers : Claiming(t) => Key(t) \in notices /\ mails[Key(t)] = 0
      /\ \A t, u \in Sweepers : Claiming(t) /\ Claiming(u) /\ Key(t) = Key(u) => t = u
      /\ \A k \in Notices : mails[k] \in Nat /\ mails[k] <= 1 /\ (mails[k] = 1 => k \in notices)
      /\ notices \subseteq Notices /\ notices' \subseteq Notices
  BY DEF ClaimInv, TalkTypes
<1>3. CASE Frees(s)
  BY <1>1, <1>2, <1>3 DEF Frees, ClaimInv
<1>4. CASE Carries(s)
  BY <1>1, <1>2, <1>4 DEF Carries, ClaimInv
<1>5. CASE Takes(s)
  <2>1. Key(s)' \in Notices /\ Key(s)' \notin notices /\ notices' = notices \cup {Key(s)'}
        /\ mails' = mails /\ Claiming(s)'
    BY <1>2, <1>5 DEF Takes
  <2>2. mails[Key(s)'] = 0
    BY <1>2, <2>1
  <2>3. \A t \in Sweepers \ {s} : Claiming(t)' => Key(t)' # Key(s)'
    BY <1>1, <1>2, <2>1
  <2>4. \A t \in Sweepers : Claiming(t)' => Key(t)' \in notices' /\ mails'[Key(t)'] = 0
    BY <1>1, <1>2, <2>1, <2>2
  <2>5. \A t, u \in Sweepers : Claiming(t)' /\ Claiming(u)' /\ Key(t)' = Key(u)' => t = u
    BY <1>1, <1>2, <2>3
  <2>6. \A k \in Notices : mails'[k] <= 1 /\ (mails'[k] = 1 => k \in notices')
    BY <1>2, <2>1
  <2> QED BY <2>4, <2>5, <2>6 DEF ClaimInv
<1>6. CASE Sends(s)
  <2>1. /\ Claiming(s) /\ ~Claiming(s)' /\ notices' = notices /\ Key(s) \in Notices
        /\ mails' = [mails EXCEPT ![Key(s)] = @ + 1]
    BY <1>6 DEF Sends
  <2>2. mails'[Key(s)] = 1 /\ \A k \in Notices \ {Key(s)} : mails'[k] = mails[k]
    BY <1>2, <2>1 DEF TalkTypes
  <2>3. \A t \in Sweepers : Claiming(t)' => Key(t)' \in notices' /\ mails'[Key(t)'] = 0
    <3> SUFFICES ASSUME NEW t \in Sweepers, Claiming(t)'
                 PROVE  Key(t)' \in notices' /\ mails'[Key(t)'] = 0
      OBVIOUS
    <3>1. t # s /\ Claiming(t) /\ Key(t)' = Key(t) /\ Key(t) # Key(s)
      BY <1>1, <1>2, <2>1
    <3>2. Key(t) \in notices /\ mails[Key(t)] = 0 /\ Key(t) \in Notices
      BY <1>2, <3>1
    <3> QED BY <2>1, <2>2, <3>1, <3>2
  <2>4. \A t, u \in Sweepers : Claiming(t)' /\ Claiming(u)' /\ Key(t)' = Key(u)' => t = u
    BY <1>1, <1>2, <2>1
  <2>5. \A k \in Notices : mails'[k] <= 1 /\ (mails'[k] = 1 => k \in notices')
    BY <1>2, <2>1, <2>2
  <2> QED BY <2>3, <2>4, <2>5 DEF ClaimInv
<1>7. CASE GivesBack(s)
  <2>1. /\ Claiming(s) /\ ~Claiming(s)' /\ notices' = notices \ {Key(s)} /\ mails' = mails
    BY <1>7 DEF GivesBack
  <2>2. \A t \in Sweepers : Claiming(t)' => Key(t)' \in notices' /\ mails'[Key(t)'] = 0
    BY <1>1, <1>2, <2>1
  <2>3. \A t, u \in Sweepers : Claiming(t)' /\ Claiming(u)' /\ Key(t)' = Key(u)' => t = u
    BY <1>1, <1>2, <2>1
  <2>4. \A k \in Notices : mails'[k] <= 1 /\ (mails'[k] = 1 => k \in notices')
    <3>1. mails[Key(s)] = 0
      BY <1>2, <2>1
    <3> QED BY <1>2, <2>1, <3>1
  <2> QED BY <2>2, <2>3, <2>4 DEF ClaimInv
<1> QED BY <1>3, <1>4, <1>5, <1>6, <1>7

LEMMA ClaimsStep ==
    ASSUME TalkTypes, CountTypes, time \in 1..MaxTime, ClocksOK, ClaimInv, Next
    PROVE  ClaimInv'
<1>1. ASSUME UNCHANGED <<notices, mails, sweep>> PROVE ClaimInv'
  BY <1>1 DEF ClaimInv, Claiming, Key, Period, MonthAt
<1>2. ASSUME NEW p \in Procs, Counting(p) PROVE ClaimInv'
  BY <1>1, <1>2, CountingFrames DEF talk
<1>3. ASSUME NEW p \in Procs, Crash(p) PROVE ClaimInv'
  <2>1. p \in Sweepers /\ Turn(p) /\ sweep'[p] = Idle /\ TalkTypes' /\ UNCHANGED talk
    BY <1>3, CrashDoes
  <2>2. Frees(p)
    BY <2>1, IdleIs DEF Frees, Claiming, talk
  <2> QED BY <2>1, <2>2, ClaimsKept
<1>4. ASSUME NEW s \in Sweepers, Sweeping(s) PROVE ClaimInv'
  BY <1>4, SweepTurns, OfClaims, ClaimsKept
<1>5. CASE MarkReplied
  BY <1>1, <1>5, ReplyFrames
<1>6. CASE Tick
  BY <1>1, <1>6, TickIs DEF talk
<1> QED BY <1>2, <1>3, <1>4, <1>5, <1>6, StepIs

-----------------------------------------------------------------------------
(* What a conversation is about. *)

\* Events are stored and time passes; neither goes back.
Grows == /\ \A m \in Months : stored'[m] >= stored[m]
         /\ time \in Nat /\ time' \in Nat /\ time' >= time

LEMMA NextGrows ==
    ASSUME CountTypes, time \in 1..MaxTime, Next
    PROVE  Grows
<1>1. \A m \in Months : stored[m] \in Nat
  BY DEF CountTypes
<1>2. time \in Nat
  BY UsageAssumption
<1>3. ASSUME stored' = stored, time' = time PROVE Grows
  BY <1>1, <1>2, <1>3 DEF Grows
<1>4. ASSUME NEW p \in Procs, Counting(p) PROVE Grows
  <2>1. time' = time
    BY <1>4, CountingFrames
  <2>2. CASE Record(p)
    <3>1. stored' = [stored EXCEPT ![Month] = @ + 1] /\ Month \in Months
      BY <2>2, MonthIs DEF Record, Month
    <3>2. \A m \in Months : stored'[m] >= stored[m]
      BY <1>1, <3>1 DEF CountTypes
    <3> QED BY <1>2, <2>1, <3>2 DEF Grows
  <2>3. CASE ~Record(p)
    <3>1. ASSUME NEW m \in Months, Add(p, m) \/ AddFails(p, m) PROVE stored' = stored
      BY <3>1 DEF Add, AddFails
    <3>2. ASSUME Swap(p) \/ Signal(p) \/ Exit(p) \/ Start(p) PROVE stored' = stored
      BY <3>2 DEF Swap, Signal, Exit, Start, Gone, counts
    <3> QED BY <1>3, <1>4, <2>1, <2>3, <3>1, <3>2 DEF Counting
  <2> QED BY <2>2, <2>3
<1>5. ASSUME NEW p \in Procs, Crash(p) PROVE Grows
  BY <1>3, <1>5, CrashFrames
<1>6. ASSUME NEW s \in Sweepers, Sweeping(s) PROVE Grows
  BY <1>3, <1>6, SweepingFrames DEF counts
<1>7. CASE MarkReplied
  BY <1>3, <1>7, ReplyFrames DEF counts
<1>8. CASE Tick
  BY <1>1, <1>2, <1>8, TickIs DEF counts, Grows
<1> QED BY <1>4, <1>5, <1>6, <1>7, <1>8, StepIs

LEMMA OverGrows ==
    ASSUME CountTypes, CountTypes', Grows, NEW m, OverBefore(m)
    PROVE  OverBefore(m)'
<1>1. m \in Months /\ m >= 3 /\ m \in Nat
  BY MonthsAre DEF OverBefore
<1>2. m - 1 \in Months /\ m - 2 \in Months
  <2>1. MonthAt(MaxTime) \in Nat /\ m <= MonthAt(MaxTime)
    BY <1>1, UsageAssumption, MonthIs DEF Months
  <2> QED BY <1>1, <2>1 DEF Months
<1>3. /\ stored[m - 1] \in Nat /\ stored[m - 2] \in Nat
      /\ stored'[m - 1] \in Nat /\ stored'[m - 2] \in Nat
  BY <1>2 DEF CountTypes
<1>4. stored'[m - 1] >= stored[m - 1] /\ stored'[m - 2] >= stored[m - 2]
  BY <1>2 DEF Grows
<1> QED BY <1>1, <1>3, <1>4, UsageAssumption DEF OverBefore

\* It is enough to look at the month and the day of the question.
LEMMA TalkGrows ==
    ASSUME CountTypes, CountTypes', Grows, NEW t \in Talk, NEW u \in Talk,
           TalkOK(t), t # NoTalk, u.period = t.period, u.asked = t.asked
    PROVE  TalkOK(u)'
<1>1. OverBefore(t.period)' /\ t.asked \in 1..time
  BY OverGrows DEF TalkOK
<1>2. t.asked \in 1..time'
  BY <1>1 DEF Grows
<1> QED BY <1>1, <1>2 DEF TalkOK

LEMMA TalkStays ==
    ASSUME CountTypes, CountTypes', Grows, NEW t \in Talk, TalkOK(t)
    PROVE  TalkOK(t)'
<1>1. CASE t = NoTalk
  BY <1>1 DEF TalkOK
<1>2. CASE t # NoTalk
  BY <1>2, TalkGrows
<1> QED BY <1>1, <1>2

LEMMA DecidedStays ==
    ASSUME CountTypes, CountTypes', Grows, TalkTypes, NEW s \in Sweepers, DecidedOK(s),
           sweep'[s] = sweep[s]
    PROVE  DecidedOK(s)'
<1>1. TalkOK(sweep[s].talk)'
  <2>1. sweep[s].talk \in Talk /\ TalkOK(sweep[s].talk)
    BY FieldsAre DEF DecidedOK
  <2> QED BY <2>1, TalkStays DEF TalkOK, OverBefore
<1>2. Period(s)' = Period(s)
  BY DEF Period, MonthAt
<1>3. sweep[s].pc \in {"ask", "save"} => OverBefore(Period(s))'
  <2>1. sweep[s].pc \in {"ask", "save"} => OverBefore(Period(s))
    BY DEF DecidedOK
  <2> QED BY <1>2, <2>1, OverGrows DEF OverBefore
<1> QED BY <1>1, <1>3 DEF DecidedOK

LEMMA TalkCore ==
    ASSUME NEW t \in Talk, TalkOK(t)
    PROVE  /\ t.asked = 0 <=> t = NoTalk
           /\ t # NoTalk => OverBefore(t.period) /\ t.asked \in 1..time
BY NoTalkIs DEF TalkOK

\* A month for which the counters say so was over the limit.
LEMMA CounterIsStored ==
    ASSUME CountTypes, NEW m \in Months, MonthOK(m)
    PROVE  counter[m] <= stored[m] /\ counter[m] \in Nat /\ stored[m] \in Nat
<1>1. counter[m] \in Nat /\ stored[m] \in Nat /\ Unwritten(m) \in Nat
  BY WaitingIsFinite DEF CountTypes, MonthOK
<1> QED BY <1>1 DEF MonthOK

LEMMA SweepTalks ==
    ASSUME TalkTypes, CountTypes, time \in 1..MaxTime, ClocksOK, CountInv, TalkInv,
           CountTypes', Grows, NEW s \in Sweepers, Sweeping(s)
    PROVE  TalkOK(overage)' /\ DecidedOK(s)'
<1>1. /\ Begun(s) /\ TalkOK(overage) /\ DecidedOK(s) /\ overage \in Talk /\ sweep[s].talk \in Talk
      /\ TalkOK(sweep[s].talk)
  BY BegunIs, FieldsAre DEF TalkInv, TalkTypes, DecidedOK
<1>2. overage' = overage => TalkOK(overage)'
  <2>1. TalkOK(overage)' <=> overage' = NoTalk
                              \/ (OverBefore(overage.period)' /\ overage'.asked \in 1..time')
    BY DEF TalkOK
  <2> QED BY <1>1, <2>1, TalkStays DEF TalkOK, OverBefore
<1>3. sweep'[s].talk = sweep[s].talk => TalkOK(sweep[s].talk)'
  BY <1>1, TalkStays DEF TalkOK, OverBefore
<1>4. sweep'[s].talk = NoTalk => TalkOK(sweep[s].talk)'
  BY DEF TalkOK
<1>5. sweep'[s] = Idle => DecidedOK(s)'
  BY <1>4, IdleIs DEF DecidedOK
<1>7. sweep'[s].pc \notin {"ask", "save", "lock"} /\ sweep'[s].talk = sweep[s].talk => DecidedOK(s)'
  BY <1>3 DEF DecidedOK
<1>8. CASE Begin(s)
  BY <1>2, <1>4, <1>8, BeginDoes DEF DecidedOK, talk
<1>9. CASE Count(s)
  BY <1>1, <1>2, <1>7, <1>9, CountDoes DEF talk
<1>10. CASE Claim(s)
  BY <1>1, <1>2, <1>7, <1>10, ClaimDoes DEF Like
<1>11. CASE Mail(s)
  <2>1. sweep[s].todo # <<>>
    BY <1>11 DEF Mail, At, ClocksOK, ClockOK
  <2> QED BY <1>1, <1>2, <1>7, <1>11, <2>1, MailDoes
<1>12. CASE Release(s)
  BY <1>2, <1>5, <1>12, ReleaseDoes
<1>13. CASE ReadTalk(s)
  <2>1. /\ overage' = overage /\ sweep'[s].pc = "decide" /\ sweep'[s].talk = overage
    BY <1>13, ReadTalkDoes DEF talk
  <2>2. TalkOK(sweep[s].talk)'
    BY <1>2, <2>1 DEF TalkOK, OverBefore
  <2> QED BY <1>2, <2>1, <2>2 DEF DecidedOK
<1>14. CASE RunOverage(s)
  <2>1. overage' = overage /\ TalkOK(overage)' /\ At(s, "decide")
    BY <1>1, <1>2, <1>14, RunOverageDoes DEF talk
  <2>2. CASE sweep'[s] = Idle
    BY <1>5, <2>1, <2>2
  <2>3. CASE sweep'[s].pc = "clear" /\ Like(s)
    BY <1>7, <2>1, <2>3 DEF Like
  <2>4. CASE /\ sweep'[s].pc = "ask" /\ Like(s) /\ sweep[s].talk.asked = 0
             /\ counter[Period(s) - 1] > Limit /\ counter[Period(s) - 2] > Limit
    <3>1. Period(s) \in Months /\ Period(s) >= 3 /\ Period(s) \in Nat
      BY <1>1, <2>1, PeriodIs DEF At
    <3>2. Period(s) - 1 \in Months /\ Period(s) - 2 \in Months
      <4>1. MonthAt(MaxTime) \in Nat /\ Period(s) <= MonthAt(MaxTime)
        BY <3>1, UsageAssumption, MonthIs DEF Months
      <4> QED BY <3>1, <4>1 DEF Months
    <3>3. MonthOK(Period(s) - 1) /\ MonthOK(Period(s) - 2)
      BY <3>2, CountInvIs
    <3>4. OverBefore(Period(s))
      <4>1. /\ counter[Period(s) - 1] <= stored[Period(s) - 1]
            /\ counter[Period(s) - 1] \in Nat /\ stored[Period(s) - 1] \in Nat
        BY <3>2, <3>3, CounterIsStored
      <4>2. /\ counter[Period(s) - 2] <= stored[Period(s) - 2]
            /\ counter[Period(s) - 2] \in Nat /\ stored[Period(s) - 2] \in Nat
        BY <3>2, <3>3, CounterIsStored
      <4>3. stored[Period(s) - 1] > Limit /\ stored[Period(s) - 2] > Limit
        BY <2>4, <4>1, <4>2, UsageAssumption
      <4> QED BY <3>1, <4>3 DEF OverBefore
    <3>5. sweep'[s].talk = NoTalk
      BY <1>1, <2>4, TalkCore DEF Like
    <3>6. OverBefore(Period(s))'
      <4>1. Period(s)' = Period(s)
        BY <2>4, PeriodSame DEF Like
      <4> QED BY <3>4, <4>1, OverGrows DEF OverBefore
    <3> QED BY <1>4, <2>1, <2>4, <3>5, <3>6 DEF DecidedOK
  <2>5. CASE /\ sweep'[s].pc = "lock" /\ Like(s) /\ sweep[s].talk.asked > 0
             /\ sweep[s].now >= DueAt(sweep[s].talk)
    <3>1. sweep[s].talk # NoTalk
      BY <2>5, NoTalkIs
    <3> QED BY <1>3, <2>1, <2>5, <3>1 DEF DecidedOK, Like, DueAt
  <2> QED BY <1>1, <1>14, <2>2, <2>3, <2>4, <2>5, RunOverageDoes
<1>15. CASE Ask(s)
  <2>1. overage' = overage /\ At(s, "ask")
    BY <1>1, <1>15, AskDoes
  <2>2. CASE sweep'[s] = Idle
    BY <1>2, <1>5, <2>1, <2>2
  <2>3. CASE sweep'[s].pc = "save" /\ Like(s)
    <3>1. OverBefore(Period(s)) /\ sweep[s].talk = NoTalk
      BY <1>1, <2>1 DEF DecidedOK, At
    <3>2. OverBefore(Period(s))'
      <4>1. Period(s)' = Period(s)
        BY <2>3, PeriodSame DEF Like
      <4> QED BY <3>1, <4>1, OverGrows DEF OverBefore
    <3> QED BY <1>2, <1>3, <2>1, <2>3, <3>1, <3>2 DEF DecidedOK, Like
  <2> QED BY <1>1, <1>15, <2>2, <2>3, AskDoes
<1>16. CASE SaveAsked(s)
  <2>1. /\ At(s, "save") /\ sweep'[s].pc = "ask mail" /\ Like(s)
        /\ overage'.period = Period(s) /\ overage'.asked = sweep[s].now
    BY <1>1, <1>16, SaveAskedDoes
  <2>2. OverBefore(Period(s))' /\ Period(s)' = Period(s)
    <3>1. OverBefore(Period(s)) /\ Period(s)' = Period(s)
      BY <1>1, <2>1, PeriodSame DEF DecidedOK, At, Like
    <3> QED BY <3>1, OverGrows DEF OverBefore
  <2>3. sweep[s].now \in 1..time'
    <3>1. sweep[s].now \in 1..time
      BY <1>1, <2>1 DEF Begun, At
    <3>2. time \in Nat /\ time' \in Nat /\ time' >= time
      BY DEF Grows
    <3> QED BY <3>1, <3>2
  <2>4. TalkOK(overage)'
    BY <2>1, <2>2, <2>3 DEF TalkOK, OverBefore
  <2> QED BY <1>7, <2>1, <2>4 DEF Like
<1>17. CASE AskMail(s)
  BY <1>1, <1>2, <1>5, <1>17, AskMailDoes
<1>18. CASE TakeBack(s)
  <2>1. TalkOK(overage)'
    BY <1>18, TakeBackDoes DEF TalkOK
  <2> QED BY <1>7, <1>18, <2>1, TakeBackDoes DEF Like
<1>19. CASE Unclaim(s)
  BY <1>2, <1>5, <1>19, UnclaimDoes
<1>20. CASE Lock(s)
  <2>1. /\ At(s, "lock") /\ sweep'[s] = Idle /\ TalkTypes'
        /\ overage'.period = sweep[s].talk.period /\ overage'.asked = sweep[s].talk.asked
    BY <1>20, LockDoes
  <2>2. sweep[s].talk # NoTalk
    BY <1>1, <2>1 DEF DecidedOK, At
  <2>3. OverBefore(sweep[s].talk.period) /\ sweep[s].talk.asked \in 1..time
    BY <1>1, <2>2, TalkCore
  <2>4. OverBefore(overage.period)' /\ overage'.asked \in 1..time'
    BY <2>1, <2>3, OverGrows DEF OverBefore, Grows
  <2>5. TalkOK(overage)'
    BY <2>4 DEF TalkOK
  <2> QED BY <1>5, <2>1, <2>5
<1>21. CASE Clear(s)
  <2>1. TalkOK(overage)'
    BY <1>21, ClearDoes DEF TalkOK
  <2> QED BY <1>5, <1>21, <2>1, ClearDoes
<1>22. CASE MailFails(s)
  BY <1>2, <1>7, <1>22, MailFailsDoes DEF Like, talk
<1>23. CASE StatementFails(s) \/ Cancelled(s)
  BY <1>2, <1>5, <1>7, <1>23, EndsDoes DEF Like, talk
<1> QED BY <1>8, <1>9, <1>10, <1>11, <1>12, <1>13, <1>14, <1>15, <1>16, <1>17, <1>18, <1>19,
           <1>20, <1>21, <1>22, <1>23 DEF Sweeping, SweepStep

LEMMA TalksStep ==
    ASSUME TalkTypes, CountTypes, time \in 1..MaxTime, ClocksOK, CountInv, TalkInv,
           CountTypes', Next
    PROVE  TalkInv'
<1>1. Grows
  BY NextGrows
<1>2. TalkOK(overage) /\ overage \in Talk /\ \A s \in Sweepers : DecidedOK(s)
  BY DEF TalkInv, TalkTypes
<1>3. overage' = overage => TalkOK(overage)'
  BY <1>1, <1>2, TalkStays DEF TalkOK, OverBefore
<1>4. \A s \in Sweepers : sweep'[s] = sweep[s] => DecidedOK(s)'
  BY <1>1, <1>2, DecidedStays
<1>5. ASSUME UNCHANGED <<overage, sweep>> PROVE TalkInv'
  BY <1>3, <1>4, <1>5 DEF TalkInv
<1>6. ASSUME NEW p \in Procs, Counting(p) PROVE TalkInv'
  BY <1>5, <1>6, CountingFrames DEF talk
<1>7. ASSUME NEW p \in Procs, Crash(p) PROVE TalkInv'
  <2>1. p \in Sweepers /\ Turn(p) /\ sweep'[p] = Idle /\ overage' = overage
    BY <1>7, CrashDoes DEF talk
  <2>2. DecidedOK(p)'
    BY <2>1, IdleIs DEF DecidedOK, TalkOK
  <2> QED BY <1>3, <1>4, <2>1, <2>2 DEF TalkInv, Turn
<1>8. ASSUME NEW s \in Sweepers, Sweeping(s) PROVE TalkInv'
  <2>1. Turn(s) /\ TalkOK(overage)' /\ DecidedOK(s)'
    BY <1>1, <1>8, SweepTurns, SweepTalks
  <2> QED BY <1>4, <2>1 DEF TalkInv, Turn
<1>9. CASE MarkReplied
  <2>1. /\ sweep' = sweep /\ overage # NoTalk
        /\ overage' = [overage EXCEPT !.replied = TRUE, !.locked = FALSE]
    BY <1>9, ReplyFrames
  <2>2. overage'.period = overage.period /\ overage'.asked = overage.asked
    BY <1>2, <2>1 DEF Talk
  <2>3. OverBefore(overage.period) /\ overage.asked \in 1..time
    BY <1>2, <2>1, TalkCore
  <2>4. OverBefore(overage.period)' /\ overage'.asked \in 1..time'
    BY <1>1, <2>2, <2>3, OverGrows DEF OverBefore, Grows
  <2> QED BY <1>4, <2>1, <2>4 DEF TalkInv, TalkOK
<1>10. CASE Tick
  BY <1>5, <1>10, TickIs DEF talk
<1> QED BY <1>6, <1>7, <1>8, <1>9, <1>10, StepIs

-----------------------------------------------------------------------------
(* Who was asked. *)

\* Whom a mail has reached it has reached for good.
LEMMA AskedStays ==
    ASSUME TalkTypes, CountTypes, time \in 1..MaxTime, ClocksOK, ClaimInv, Next,
           NEW t \in Talk, t.period \in Months, Asked(t)
    PROVE  Asked(t)'
<1> DEFINE k == <<t.period, "second_month">>
<1>1. k \in Notices /\ mails[k] = 1
  BY DEF Notices, Asked
<1>2. ASSUME mails' = mails PROVE Asked(t)'
  BY <1>1, <1>2 DEF Asked
<1>3. ASSUME NEW p \in Procs, Counting(p) \/ Crash(p) PROVE Asked(t)'
  BY <1>2, <1>3, CountingFrames, CrashFrames DEF talk
<1>4. ASSUME NEW s \in Sweepers, Sweeping(s) PROVE Asked(t)'
  <2>1. CASE Sends(s)
    <3>1. mails[Key(s)] = 0 /\ mails' = [mails EXCEPT ![Key(s)] = @ + 1]
      BY <2>1 DEF Sends, ClaimInv
    <3> HIDE DEF k
    <3>2. mails'[k] = mails[k]
      BY <1>1, <3>1 DEF TalkTypes
    <3> QED BY <1>1, <3>2 DEF Asked, k
  <2>2. CASE ~Sends(s)
    BY <1>2, <1>4, <2>2, OfClaims DEF Frees, Carries, Takes, GivesBack
  <2> QED BY <2>1, <2>2
<1>5. CASE MarkReplied \/ Tick
  BY <1>2, <1>5, ReplyFrames, TickIs DEF talk
<1> QED BY <1>3, <1>4, <1>5, StepIs

LEMMA OtherAsks ==
    ASSUME NEW s \in Sweepers, sweep'[s] = sweep[s], overage'.asked = overage.asked,
           overage'.period = overage.period, Asking(s)
    PROVE  Asking(s)'
BY DEF Asking, Period, MonthAt

LEMMA Saw ==
    ASSUME TalkTypes, CountTypes, time \in 1..MaxTime, ClocksOK, ClaimInv, Next, TalkInv,
           NEW s \in Sweepers, SawAsked(s), sweep'[s].now = sweep[s].now,
           sweep'[s].talk = sweep[s].talk
    PROVE  SawAsked(s)'
<1>1. sweep[s].talk \in Talk /\ TalkOK(sweep[s].talk)
  BY FieldsAre DEF TalkInv, DecidedOK
<1>2. CASE sweep[s].talk = NoTalk
  BY <1>2 DEF SawAsked
<1>3. CASE sweep[s].talk # NoTalk /\ Asked(sweep[s].talk)
  <2>1. sweep[s].talk.period \in Months
    BY <1>1, <1>3, TalkCore DEF OverBefore
  <2>2. mails'[<<sweep[s].talk.period, "second_month">>] = 1
    BY <1>1, <1>3, <2>1, AskedStays DEF Asked
  <2> QED BY <2>2 DEF SawAsked, Asked
<1>4. CASE sweep[s].talk # NoTalk /\ sweep[s].now <= sweep[s].talk.asked + 1
  BY <1>4 DEF SawAsked
<1> QED BY <1>2, <1>3, <1>4 DEF SawAsked

\* The row stays, and so do whoever is asking and what is known.
LEMMA RowStays ==
    ASSUME TalkTypes, CountTypes, time \in 1..MaxTime, ClocksOK, ClaimInv, TalkInv, AskedInv,
           Next, ~cut, overage' = overage,
           \A s \in Sweepers : Asking(s) => Asking(s)' \/ Asked(overage)'
    PROVE  /\ overage' # NoTalk => Asked(overage)' \/ \E s \in Sweepers : Asking(s)'
           /\ overage'.locked => Asked(overage)' /\ time' >= DueAt(overage)'
<1>1. overage \in Talk /\ TalkOK(overage)
  BY DEF TalkTypes, TalkInv
<1>2. Asked(overage) /\ overage # NoTalk => Asked(overage)'
  <2>1. overage # NoTalk => overage.period \in Months
    BY <1>1, TalkCore DEF OverBefore
  <2>2. Asked(overage) /\ overage # NoTalk =>
          mails'[<<overage.period, "second_month">>] = 1
    BY <1>1, <2>1, AskedStays DEF Asked
  <2> QED BY <2>2 DEF Asked
<1>3. overage.locked => Asked(overage)' /\ time' >= DueAt(overage)'
  <2>1. overage.locked => overage # NoTalk
    BY NoTalkIs
  <2>2. overage.locked => Asked(overage) /\ time >= DueAt(overage)
    BY DEF AskedInv
  <2>3. time \in Nat /\ time' \in Nat /\ time' >= time
    BY NextGrows DEF Grows
  <2>4. overage.asked \in Nat
    BY <1>1 DEF Talk
  <2> QED BY <1>2, <2>1, <2>2, <2>3, <2>4 DEF DueAt
<1>4. overage # NoTalk => Asked(overage) \/ \E s \in Sweepers : Asking(s)
  BY DEF AskedInv
<1> QED BY <1>2, <1>3, <1>4

LEMMA SweepAsks ==
    ASSUME TalkTypes, CountTypes, time \in 1..MaxTime, ClocksOK, ClaimInv, TalkInv, AskedInv,
           Next, NEW s \in Sweepers, Sweeping(s), ~cut, ~cut'
    PROVE  /\ overage' # NoTalk => Asked(overage)' \/ \E u \in Sweepers : Asking(u)'
           /\ overage'.locked => Asked(overage)' /\ time' >= DueAt(overage)'
           /\ SawAsked(s)'
<1>1. /\ Begun(s) /\ TalkOK(overage) /\ DecidedOK(s) /\ overage \in Talk /\ sweep[s].talk \in Talk
      /\ TalkOK(sweep[s].talk) /\ SawAsked(s) /\ sweep[s].now \in Nat
  BY BegunIs, FieldsAre DEF TalkInv, TalkTypes, DecidedOK, AskedInv
<1>2. Turn(s) /\ TalkTypes' /\ time' = time
  BY SweepTurns
<1>3. ASSUME overage' = overage, Asking(s) => Asking(s)' \/ Asked(overage)'
      PROVE  /\ overage' # NoTalk => Asked(overage)' \/ \E u \in Sweepers : Asking(u)'
             /\ overage'.locked => Asked(overage)' /\ time' >= DueAt(overage)'
  <2>1. \A u \in Sweepers : Asking(u) => Asking(u)' \/ Asked(overage)'
    BY <1>2, <1>3, OtherAsks DEF Turn
  <2> QED BY <1>3, <2>1, RowStays
<1>4. ASSUME overage' = overage, sweep[s].pc \notin {"ask mail", "take back"}
      PROVE  /\ overage' # NoTalk => Asked(overage)' \/ \E u \in Sweepers : Asking(u)'
             /\ overage'.locked => Asked(overage)' /\ time' >= DueAt(overage)'
  <2>1. ~Asking(s)
    BY <1>4 DEF Asking
  <2> QED BY <1>3, <1>4, <2>1
<1>5. sweep'[s].talk = NoTalk => SawAsked(s)'
  BY DEF SawAsked
<1>6. sweep'[s] = Idle => SawAsked(s)'
  BY <1>5, IdleIs
<1>7. sweep'[s].now = sweep[s].now /\ sweep'[s].talk = sweep[s].talk => SawAsked(s)'
  BY <1>1, Saw
<1>8. CASE Begin(s)
  BY <1>4, <1>5, <1>8, BeginDoes DEF At, talk
<1>9. CASE Count(s)
  BY <1>1, <1>4, <1>7, <1>9, CountDoes DEF At, talk
<1>10. CASE Claim(s)
  BY <1>1, <1>4, <1>7, <1>10, ClaimDoes DEF At
<1>11. CASE Mail(s)
  <2>1. sweep[s].todo # <<>>
    BY <1>11 DEF Mail, At, ClocksOK, ClockOK
  <2> QED BY <1>1, <1>4, <1>7, <1>11, <2>1, MailDoes DEF At
<1>12. CASE Release(s)
  BY <1>4, <1>6, <1>12, ReleaseDoes DEF At
<1>13. CASE ReadTalk(s)
  <2>1. /\ overage' = overage /\ At(s, "rungs") /\ sweep'[s].now = sweep[s].now
        /\ sweep'[s].talk = overage /\ mails' = mails
    BY <1>13, ReadTalkDoes DEF talk
  <2>2. SawAsked(s)'
    <3> SUFFICES ASSUME overage # NoTalk
                 PROVE  Asked(overage)' \/ sweep'[s].now <= overage.asked + 1
      BY <2>1 DEF SawAsked, Asked
    <3>1. CASE Asked(overage)
      BY <2>1, <3>1 DEF Asked
    <3>2. CASE \E u \in Sweepers : Asking(u)
      <4>1. PICK u \in Sweepers : Asking(u)
        BY <3>2
      <4>2. sweep[u].now = overage.asked /\ ~At(u, "idle")
        BY <4>1 DEF Asking, At
      <4>3. time <= overage.asked + 1 /\ time \in Nat /\ overage.asked \in Nat
        BY <1>1, <4>2, UsageAssumption DEF ClocksOK, ClockOK, Talk
      <4>4. sweep[s].now <= time
        BY <1>1, <2>1, <4>3 DEF Begun, At
      <4> QED BY <1>1, <2>1, <4>3, <4>4
    <3> QED BY <3>1, <3>2 DEF AskedInv
  <2> QED BY <1>4, <2>1, <2>2 DEF At
<1>14. CASE RunOverage(s)
  BY <1>1, <1>4, <1>6, <1>7, <1>14, RunOverageDoes DEF At, Like, talk
<1>15. CASE Ask(s)
  BY <1>1, <1>4, <1>6, <1>7, <1>15, AskDoes DEF At, Like
<1>16. CASE SaveAsked(s)
  <2>1. /\ At(s, "save") /\ sweep'[s].pc = "ask mail" /\ Like(s)
        /\ overage'.period = Period(s) /\ overage'.asked = sweep[s].now
        /\ overage'.locked = sweep[s].talk.locked
    BY <1>1, <1>16, SaveAskedDoes
  <2>2. Asking(s)'
    BY <2>1, PeriodSame DEF Asking, Like
  <2>3. ~overage'.locked
    BY <1>1, <2>1, NoTalkIs DEF DecidedOK, At
  <2> QED BY <1>7, <2>1, <2>2, <2>3 DEF Like
<1>17. CASE AskMail(s)
  <2>1. /\ overage' = overage /\ At(s, "ask mail") /\ sweep'[s] = Idle
        /\ mails' = [mails EXCEPT ![<<Period(s), "second_month">>] = @ + 1]
        /\ <<Period(s), "second_month">> \in Notices
    BY <1>1, <1>17, AskMailDoes
  <2>2. mails[<<Period(s), "second_month">>] = 0
    <3>1. Claiming(s) /\ Key(s) = <<Period(s), "second_month">>
      BY <2>1 DEF Claiming, Key, At
    <3> QED BY <3>1 DEF ClaimInv
  <2>3. mails'[<<Period(s), "second_month">>] = 1
    <3> DEFINE k == <<Period(s), "second_month">>
    <3>1. k \in Notices /\ mails[k] = 0 /\ mails' = [mails EXCEPT ![k] = @ + 1]
      BY <2>1, <2>2
    <3> HIDE DEF k
    <3>2. mails'[k] = 1
      BY <3>1 DEF TalkTypes
    <3> QED BY <3>2 DEF k
  <2>4. Asking(s) => Asked(overage)'
    BY <2>1, <2>3 DEF Asking, Asked
  <2> QED BY <1>3, <1>6, <2>1, <2>4
<1>18. CASE TakeBack(s)
  BY <1>7, <1>18, TakeBackDoes, NoTalkIs DEF Like
<1>19. CASE Unclaim(s)
  BY <1>4, <1>6, <1>19, UnclaimDoes DEF At
<1>20. CASE Lock(s)
  <2>1. /\ At(s, "lock") /\ sweep'[s] = Idle /\ mails' = mails
        /\ overage'.period = sweep[s].talk.period /\ overage'.asked = sweep[s].talk.asked
    BY <1>20, LockDoes
  <2>2. sweep[s].talk # NoTalk /\ sweep[s].now >= sweep[s].talk.asked + 2
    BY <1>1, <2>1 DEF DecidedOK, At, DueAt
  <2>3. sweep[s].talk.asked \in Nat
    BY <1>1 DEF Talk
  <2>4. Asked(sweep[s].talk)
    <3>1. ~(sweep[s].now <= sweep[s].talk.asked + 1)
      BY <1>1, <2>2, <2>3
    <3> QED BY <1>1, <2>2, <3>1 DEF SawAsked
  <2>5. Asked(overage)'
    BY <2>1, <2>4 DEF Asked
  <2>6. time' >= DueAt(overage)'
    <3>1. sweep[s].now <= time /\ time \in Nat
      BY <1>1, <2>1, UsageAssumption DEF Begun, At
    <3> QED BY <1>1, <1>2, <2>1, <2>2, <2>3, <3>1 DEF DueAt
  <2> QED BY <1>6, <2>1, <2>5, <2>6
<1>21. CASE Clear(s)
  BY <1>6, <1>21, ClearDoes, NoTalkIs
<1>22. CASE MailFails(s)
  <2>1. /\ overage' = overage /\ Like(s)
        /\ \/ sweep[s].pc = "mail" /\ sweep'[s].pc = "release"
           \/ sweep[s].pc = "ask mail" /\ sweep'[s].pc = "take back"
    BY <1>22, MailFailsDoes DEF talk
  <2>2. Asking(s) => Asking(s)'
    BY <2>1, PeriodSame DEF Asking, Like
  <2> QED BY <1>3, <1>7, <2>1, <2>2 DEF Like
<1>23. CASE StatementFails(s) \/ Cancelled(s)
  <2>1. /\ overage' = overage /\ ~Claiming(s) /\ (sweep'[s] = Idle \/ Like(s))
    BY <1>23, EndsDoes DEF talk
  <2>2. sweep[s].pc \notin {"ask mail", "take back"}
    BY <2>1 DEF Claiming
  <2> QED BY <1>4, <1>6, <1>7, <2>1, <2>2 DEF Like
<1> QED BY <1>8, <1>9, <1>10, <1>11, <1>12, <1>13, <1>14, <1>15, <1>16, <1>17, <1>18, <1>19,
           <1>20, <1>21, <1>22, <1>23 DEF Sweeping, SweepStep

LEMMA AsksStep ==
    ASSUME TalkTypes, CountTypes, time \in 1..MaxTime, ClocksOK, ClaimInv, TalkInv, AskedInv,
           Next
    PROVE  AskedInv'
<1>1. ASSUME cut => cut', ~cut', overage' = overage, sweep' = sweep PROVE AskedInv'
  <2>1. ~cut
    BY <1>1
  <2>2. \A s \in Sweepers : Asking(s) => Asking(s)'
    BY <1>1, OtherAsks
  <2>3. \A s \in Sweepers : SawAsked(s)'
    BY <1>1, <2>1, Saw DEF AskedInv
  <2> QED BY <1>1, <2>1, <2>2, <2>3, RowStays DEF AskedInv
<1>2. cut' => AskedInv'
  BY DEF AskedInv
<1>3. ASSUME NEW p \in Procs, Counting(p) PROVE AskedInv'
  BY <1>1, <1>2, <1>3, CountingFrames DEF talk
<1>4. ASSUME NEW p \in Procs, Crash(p), ~cut' PROVE AskedInv'
  <2>1. /\ p \in Sweepers /\ Turn(p) /\ sweep'[p] = Idle /\ overage' = overage /\ ~cut
        /\ ~Claiming(p)
    BY <1>4, CrashDoes DEF talk
  <2>2. ~Asking(p)
    BY <2>1 DEF Claiming, Asking
  <2>3. \A s \in Sweepers : Asking(s) => Asking(s)'
    BY <2>1, <2>2, OtherAsks DEF Turn
  <2>4. \A s \in Sweepers \ {p} : SawAsked(s)'
    BY <2>1, Saw DEF AskedInv, Turn
  <2>5. SawAsked(p)'
    BY <2>1, IdleIs DEF SawAsked
  <2> QED BY <2>1, <2>3, <2>4, <2>5, RowStays DEF AskedInv
<1>5. ASSUME NEW s \in Sweepers, Sweeping(s), ~cut' PROVE AskedInv'
  <2>1. ~cut
    <3>1. CASE StatementFails(s) \/ Cancelled(s)
      BY <1>5, <3>1, EndsDoes
    <3>2. CASE ~(StatementFails(s) \/ Cancelled(s))
      <4>1. ASSUME Begin(s) \/ MailFails(s) \/ Count(s) \/ Claim(s) \/ Mail(s) \/ Release(s)
            PROVE  cut' = cut
        BY <4>1 DEF Begin, MailFails, Count, Claim, Mail, Release
      <4>2. ASSUME ReadTalk(s) \/ RunOverage(s) \/ Ask(s) \/ SaveAsked(s) \/ AskMail(s)
            PROVE  cut' = cut
        BY <4>2 DEF ReadTalk, RunOverage, Ask, SaveAsked, AskMail
      <4>3. ASSUME TakeBack(s) \/ Unclaim(s) \/ Lock(s) \/ Clear(s) PROVE cut' = cut
        BY <4>3 DEF TakeBack, Unclaim, Lock, Clear
      <4> QED BY <1>5, <3>2, <4>1, <4>2, <4>3 DEF Sweeping, SweepStep
    <3> QED BY <3>1, <3>2
  <2>2. Turn(s)
    BY <1>5, SweepTurns
  <2>3. \A u \in Sweepers \ {s} : SawAsked(u)'
    BY <2>1, <2>2, Saw DEF AskedInv, Turn
  <2>4. /\ overage' # NoTalk => Asked(overage)' \/ \E u \in Sweepers : Asking(u)'
        /\ overage'.locked => Asked(overage)' /\ time' >= DueAt(overage)'
        /\ SawAsked(s)'
    BY <1>5, <2>1, SweepAsks
  <2> QED BY <2>3, <2>4 DEF AskedInv
<1>6. CASE MarkReplied
  <2>1. /\ UNCHANGED <<mails, sweep, cut>> /\ overage # NoTalk
        /\ overage' = [overage EXCEPT !.replied = TRUE, !.locked = FALSE] /\ overage \in Talk
    BY <1>6, ReplyFrames DEF TalkTypes
  <2>2. overage'.period = overage.period /\ overage'.asked = overage.asked /\ ~overage'.locked
    BY <2>1 DEF Talk
  <2>3. \A s \in Sweepers : Asking(s) => Asking(s)'
    BY <2>1, <2>2, OtherAsks
  <2>4. Asked(overage) => Asked(overage)'
    BY <2>1, <2>2 DEF Asked
  <2>5. ~cut => \A s \in Sweepers : SawAsked(s)'
    BY <2>1, Saw DEF AskedInv
  <2> QED BY <2>1, <2>2, <2>3, <2>4, <2>5 DEF AskedInv
<1>7. CASE Tick
  BY <1>1, <1>2, <1>7, TickIs DEF talk
<1> QED BY <1>2, <1>3, <1>4, <1>5, <1>6, <1>7, StepIs

-----------------------------------------------------------------------------
(* The reply. *)

\* A sweep that has not read the reply is past its decision.
SawReply(s) == ~At(s, "lock") /\ (At(s, "decide") => sweep[s].talk.replied)

LEMMA SweepReplies ==
    ASSUME TalkTypes, CountTypes, time \in 1..MaxTime, ClocksOK, ReplyInv,
           NEW s \in Sweepers, Sweeping(s), reply' = "yes"
    PROVE  overage' = overage /\ reply = "yes" /\ SawReply(s)'
<1>1. Begun(s)
  BY BegunIs
<1>2. sweep'[s].pc \notin {"lock", "decide"} => SawReply(s)'
  BY DEF SawReply, At
<1>3. sweep'[s] = Idle => SawReply(s)'
  BY <1>2, IdleIs
<1>4. CASE Begin(s)
  BY <1>2, <1>4, BeginDoes DEF talk
<1>5. CASE Count(s)
  BY <1>1, <1>2, <1>5, CountDoes DEF talk
<1>6. CASE Claim(s)
  BY <1>1, <1>2, <1>6, ClaimDoes
<1>7. CASE Mail(s)
  <2>1. sweep[s].todo # <<>>
    BY <1>7 DEF Mail, At, ClocksOK, ClockOK
  <2> QED BY <1>1, <1>2, <1>7, <2>1, MailDoes
<1>8. CASE Release(s)
  BY <1>3, <1>8, ReleaseDoes
<1>9. CASE ReadTalk(s)
  <2>1. overage' = overage /\ reply' = reply /\ sweep'[s].pc = "decide" /\ sweep'[s].talk = overage
    BY <1>9, ReadTalkDoes DEF talk
  <2> QED BY <2>1 DEF ReplyInv, SawReply, At
<1>10. CASE RunOverage(s)
  <2>1. /\ overage' = overage /\ reply' = reply /\ At(s, "decide")
        /\ sweep'[s] = Idle \/ sweep'[s].pc \in {"clear", "ask"} \/ ~sweep[s].talk.replied
    BY <1>1, <1>10, RunOverageDoes DEF talk
  <2> QED BY <1>2, <1>3, <2>1 DEF ReplyInv
<1>11. CASE Ask(s)
  BY <1>1, <1>2, <1>3, <1>11, AskDoes
<1>12. CASE SaveAsked(s)
  BY <1>1, <1>12, SaveAskedDoes
<1>13. CASE AskMail(s)
  BY <1>1, <1>3, <1>13, AskMailDoes
<1>14. CASE TakeBack(s)
  BY <1>14, TakeBackDoes
<1>15. CASE Unclaim(s)
  BY <1>3, <1>15, UnclaimDoes
<1>16. CASE Lock(s)
  BY <1>16, LockDoes DEF ReplyInv
<1>17. CASE Clear(s)
  BY <1>17, ClearDoes
<1>18. CASE MailFails(s)
  BY <1>2, <1>18, MailFailsDoes DEF talk
<1>19. CASE StatementFails(s) \/ Cancelled(s)
  BY <1>2, <1>3, <1>19, EndsDoes DEF talk
<1> QED BY <1>4, <1>5, <1>6, <1>7, <1>8, <1>9, <1>10, <1>11, <1>12, <1>13, <1>14, <1>15, <1>16,
           <1>17, <1>18, <1>19 DEF Sweeping, SweepStep

LEMMA RepliesStep ==
    ASSUME TalkTypes, CountTypes, time \in 1..MaxTime, ClocksOK, ReplyInv, Next
    PROVE  ReplyInv'
<1> SUFFICES ASSUME reply' = "yes" PROVE ReplyInv'
  BY DEF ReplyInv
<1>1. ASSUME UNCHANGED <<overage, reply, sweep>> PROVE ReplyInv'
  BY <1>1 DEF ReplyInv, At
<1>2. ASSUME NEW p \in Procs, Counting(p) PROVE ReplyInv'
  BY <1>1, <1>2, CountingFrames DEF talk
<1>3. ASSUME NEW p \in Procs, Crash(p) PROVE ReplyInv'
  BY <1>3, CrashDoes, IdleIs DEF ReplyInv, At, Turn, talk
<1>4. ASSUME NEW s \in Sweepers, Sweeping(s) PROVE ReplyInv'
  <2>1. overage' = overage /\ reply = "yes" /\ SawReply(s)' /\ Turn(s)
    BY <1>4, SweepReplies, SweepTurns
  <2> QED BY <2>1 DEF ReplyInv, SawReply, Turn, At
<1>5. CASE MarkReplied
  <2>1. /\ sweep' = sweep /\ overage \in Talk
        /\ overage' = [overage EXCEPT !.replied = TRUE, !.locked = FALSE]
        /\ \A s \in Sweepers : sweep[s].pc \notin {"decide", "lock"}
    BY <1>5, ReplyFrames DEF TalkTypes
  <2>2. overage'.replied /\ ~overage'.locked
    BY <2>1 DEF Talk
  <2> QED BY <2>1, <2>2 DEF ReplyInv, At
<1>6. CASE Tick
  BY <1>1, <1>6, TickIs DEF talk
<1> QED BY <1>2, <1>3, <1>4, <1>5, <1>6, StepIs

-----------------------------------------------------------------------------
(* The types, and all of it. *)

LEMMA ProcessStep ==
    ASSUME process \in [Procs -> {"up", "stopping", "flushing", "down"}], Next
    PROVE  process' \in [Procs -> {"up", "stopping", "flushing", "down"}]
<1>1. ASSUME NEW p \in Procs, Counting(p)
      PROVE  process' \in [Procs -> {"up", "stopping", "flushing", "down"}]
  <2>1. ASSUME Record(p) \/ Swap(p)
        PROVE  process' \in [Procs -> {"up", "stopping", "flushing", "down"}]
    BY <2>1 DEF Record, Swap
  <2>2. ASSUME Signal(p) \/ Exit(p) \/ Start(p)
        PROVE  process' \in [Procs -> {"up", "stopping", "flushing", "down"}]
    BY <2>2 DEF Signal, Exit, Start, Gone
  <2>3. ASSUME NEW m \in Months, Add(p, m) \/ AddFails(p, m)
        PROVE  process' \in [Procs -> {"up", "stopping", "flushing", "down"}]
    BY <2>3 DEF Add, AddFails
  <2> QED BY <1>1, <2>1, <2>2, <2>3 DEF Counting
<1>2. ASSUME NEW p \in Procs, Crash(p)
      PROVE  process' \in [Procs -> {"up", "stopping", "flushing", "down"}]
  BY <1>2 DEF Crash, Gone
<1>3. ASSUME NEW s \in Sweepers, Sweeping(s)
      PROVE  process' \in [Procs -> {"up", "stopping", "flushing", "down"}]
  BY <1>3, SweepingFrames
<1>4. ASSUME MarkReplied \/ Tick
      PROVE  process' \in [Procs -> {"up", "stopping", "flushing", "down"}]
  BY <1>4, ReplyFrames, TickIs
<1> QED BY <1>1, <1>2, <1>3, <1>4, StepIs

LEMMA UpsetsStep ==
    ASSUME upsets \in 0..MaxUpsets, Next
    PROVE  upsets' \in 0..MaxUpsets
<1>1. Upset => upsets' \in 0..MaxUpsets
  BY UsageAssumption DEF Upset
<1>2. ASSUME NEW p \in Procs, Counting(p) PROVE upsets' \in 0..MaxUpsets
  <2>1. ASSUME Record(p) \/ Swap(p) PROVE upsets' \in 0..MaxUpsets
    BY <2>1 DEF Record, Swap
  <2>2. ASSUME Signal(p) \/ Exit(p) \/ Start(p) PROVE upsets' \in 0..MaxUpsets
    BY <1>1, <2>2 DEF Signal, Exit, Start
  <2>3. ASSUME NEW m \in Months, Add(p, m) \/ AddFails(p, m) PROVE upsets' \in 0..MaxUpsets
    BY <1>1, <2>3 DEF Add, AddFails
  <2> QED BY <1>2, <2>1, <2>2, <2>3 DEF Counting
<1>3. ASSUME NEW p \in Procs, Crash(p) PROVE upsets' \in 0..MaxUpsets
  BY <1>1, <1>3 DEF Crash
<1>4. ASSUME NEW s \in Sweepers, Sweeping(s) PROVE upsets' \in 0..MaxUpsets
  <2>1. ASSUME Begin(s) \/ MailFails(s) \/ StatementFails(s) PROVE upsets' \in 0..MaxUpsets
    BY <1>1, <2>1 DEF Begin, MailFails, StatementFails
  <2>2. ASSUME Count(s) \/ Claim(s) \/ Mail(s) \/ Release(s) \/ ReadTalk(s) \/ RunOverage(s)
        PROVE  upsets' = upsets
    BY <2>2 DEF Count, Claim, Mail, Release, ReadTalk, RunOverage
  <2>3. ASSUME Ask(s) \/ SaveAsked(s) \/ AskMail(s) \/ TakeBack(s) \/ Unclaim(s)
        PROVE  upsets' = upsets
    BY <2>3 DEF Ask, SaveAsked, AskMail, TakeBack, Unclaim
  <2>4. ASSUME Lock(s) \/ Clear(s) \/ Cancelled(s) PROVE upsets' = upsets
    BY <2>4 DEF Lock, Clear, Cancelled
  <2> QED BY <1>4, <2>1, <2>2, <2>3, <2>4 DEF Sweeping, SweepStep
<1>5. ASSUME MarkReplied \/ Tick PROVE upsets' \in 0..MaxUpsets
  BY <1>5, ReplyFrames, TickIs
<1> QED BY <1>2, <1>3, <1>4, <1>5, StepIs

LEMMA CountTypesStep ==
    ASSUME CountTypes, time \in 1..MaxTime, Next
    PROVE  CountTypes' /\ (CountInv => CountInv')
<1>1. ASSUME UNCHANGED counts PROVE CountTypes' /\ (CountInv => CountInv')
  <2>1. CountTypes'
    BY <1>1 DEF CountTypes, counts
  <2>2. \A m \in Months : MonthOK(m) => MonthOK(m)'
    <3> SUFFICES ASSUME NEW m \in Months, MonthOK(m) PROVE MonthOK(m)'
      OBVIOUS
    <3>1. \A p \in Procs : Counted(p, m)' = Counted(p, m)
      BY <1>1 DEF Counted, counts
    <3> QED BY <1>1, <2>1, <3>1, MonthKept DEF counts
  <2>3. CountInv' <=> \A m \in Months : MonthOK(m)'
    BY DEF CountInv, CountedOnce, MonthOK
  <2> QED BY <2>1, <2>2, <2>3, CountInvIs
<1>2. ASSUME NEW p \in Procs, Counting(p) \/ Crash(p)
      PROVE  CountTypes' /\ (CountInv => CountInv')
  <2>1. CountTypes' /\ \A m \in Months : MonthOK(m) => MonthOK(m)'
    BY <1>2, CountKept
  <2>2. CountInv' <=> \A m \in Months : MonthOK(m)'
    BY DEF CountInv, CountedOnce, MonthOK
  <2> QED BY <2>1, <2>2, CountInvIs
<1>3. ASSUME NEW s \in Sweepers, Sweeping(s) PROVE CountTypes' /\ (CountInv => CountInv')
  BY <1>1, <1>3, SweepingFrames
<1>4. ASSUME MarkReplied \/ Tick PROVE CountTypes' /\ (CountInv => CountInv')
  BY <1>1, <1>4, ReplyFrames, TickIs
<1> QED BY <1>2, <1>3, <1>4, StepIs

LEMMA TalkTypesStep ==
    ASSUME TalkTypes, CountTypes, time \in 1..MaxTime, ClocksOK, Next
    PROVE  TalkTypes' /\ time' \in 1..MaxTime
<1>1. ASSUME NEW p \in Procs, Counting(p) PROVE TalkTypes' /\ time' \in 1..MaxTime
  BY <1>1, CountingFrames DEF TalkTypes, talk
<1>2. ASSUME NEW p \in Procs, Crash(p) PROVE TalkTypes' /\ time' \in 1..MaxTime
  BY <1>2, CrashDoes
<1>3. ASSUME NEW s \in Sweepers, Sweeping(s) PROVE TalkTypes' /\ time' \in 1..MaxTime
  BY <1>3, SweepTurns
<1>4. CASE MarkReplied
  BY <1>4, ReplyDoes, ReplyFrames
<1>5. CASE Tick
  <2>1. time < MaxTime /\ time' = time + 1 /\ UNCHANGED <<talk, sweep, cut>>
    BY <1>5, TickIs
  <2> QED BY <2>1, UsageAssumption DEF TalkTypes, talk
<1> QED BY <1>1, <1>2, <1>3, <1>4, <1>5, StepIs

LEMMA TypesAre == TypeOK <=>
    /\ CountTypes /\ TalkTypes /\ time \in 1..MaxTime /\ upsets \in 0..MaxUpsets
    /\ process \in [Procs -> {"up", "stopping", "flushing", "down"}]
BY DEF TypeOK, CountTypes, TalkTypes

LEMMA StartsTrue == ASSUME Init PROVE UsageInv
<1>1. /\ time = 1 /\ notices = {} /\ overage = NoTalk /\ mails = [k \in Notices |-> 0]
      /\ counter = stored /\ pending = [p \in Procs |-> Nothing] /\ batch = pending
      /\ process = [p \in Procs |-> "up"] /\ sweep = [s \in Sweepers |-> Idle]
      /\ lost = {} /\ cut = FALSE /\ reply = "no" /\ upsets = 0
  BY DEF Init
<1>2. stored \in [Months -> Nat]
  <2>1. PICK n \in {0, Limit + 1} : stored = [Nothing EXCEPT ![1] = n, ![2] = Limit + 1]
    BY DEF Init
  <2>2. Nothing \in [Months -> Nat] /\ n \in Nat /\ Limit + 1 \in Nat
    BY UsageAssumption DEF Nothing
  <2> QED BY <2>1, <2>2
<1>3. Nothing \in [Months -> Nat] /\ \A m \in Months : Nothing[m] = 0
  BY DEF Nothing
<1>4. CountTypes
  BY <1>1, <1>2, <1>3 DEF CountTypes
<1>5. TypeOK
  <2>1. TalkTypes
    BY <1>1, NoTalkIs, IdleIs DEF TalkTypes
  <2>2. time \in 1..MaxTime /\ upsets \in 0..MaxUpsets
    BY <1>1, UsageAssumption
  <2> QED BY <1>1, <1>4, <2>1, <2>2, TypesAre
<1>6. CountInv
  <2>1. ASSUME NEW m \in Months PROVE MonthOK(m)
    <3>1. \A p \in Procs : Counted(p, m) = 0
      BY <1>1, <1>3 DEF Counted
    <3>2. Waiting(m) = {}
      <4> SUFFICES ASSUME NEW t \in Waiting(m) PROVE FALSE
        OBVIOUS
      <4>1. PICK p \in Procs : \E i \in 1..Counted(p, m) : t = <<p, i>>
        BY <1>4, TokensArePairs
      <4> QED BY <3>1, <4>1
    <3>3. Unwritten(m) = 0
      BY <3>2, FS_EmptySet DEF Unwritten
    <3>4. stored[m] \in Nat
      BY <1>2
    <3> QED BY <1>1, <3>1, <3>3, <3>4 DEF MonthOK
  <2> QED BY <2>1, CountInvIs
<1>7. \A s \in Sweepers : sweep[s] = Idle
  BY <1>1
<1>8. ClocksOK
  BY <1>7, IdleIs DEF ClocksOK, ClockOK, At
<1>9. ClaimInv
  <2>1. \A s \in Sweepers : ~Claiming(s)
    BY <1>7, IdleIs DEF Claiming
  <2>2. \A k \in Notices : mails[k] = 0
    BY <1>1
  <2> QED BY <2>1, <2>2 DEF ClaimInv
<1>10. TalkInv
  BY <1>1, <1>7, IdleIs DEF TalkInv, DecidedOK, TalkOK
<1>11. AskedInv
  BY <1>1, <1>7, IdleIs, NoTalkIs DEF AskedInv, SawAsked
<1>12. ReplyInv
  BY <1>1 DEF ReplyInv
<1> QED BY <1>5, <1>6, <1>8, <1>9, <1>10, <1>11, <1>12 DEF UsageInv

LEMMA Moves == ASSUME UsageInv, Next PROVE UsageInv'
<1>1. /\ CountTypes /\ TalkTypes /\ time \in 1..MaxTime /\ upsets \in 0..MaxUpsets
      /\ process \in [Procs -> {"up", "stopping", "flushing", "down"}]
      /\ CountInv /\ ClocksOK /\ ClaimInv /\ TalkInv /\ AskedInv /\ ReplyInv
  BY TypesAre DEF UsageInv
<1>2. CountTypes' /\ CountInv'
  BY <1>1, CountTypesStep
<1>3. TalkTypes' /\ time' \in 1..MaxTime
  BY <1>1, TalkTypesStep
<1>4. upsets' \in 0..MaxUpsets /\ process' \in [Procs -> {"up", "stopping", "flushing", "down"}]
  BY <1>1, UpsetsStep, ProcessStep
<1>5. TypeOK'
  BY <1>2, <1>3, <1>4 DEF TypeOK, CountTypes, TalkTypes
<1>6. ClocksOK' /\ ClaimInv'
  BY <1>1, ClocksStep, ClaimsStep
<1>7. TalkInv' /\ AskedInv' /\ ReplyInv'
  BY <1>1, <1>2, TalksStep, AsksStep, RepliesStep
<1> QED BY <1>2, <1>5, <1>6, <1>7 DEF UsageInv

LEMMA Stutters == ASSUME UsageInv, UNCHANGED vars PROVE UsageInv'
<1>1. TypeOK' /\ ClocksOK' /\ ClaimInv'
  BY DEF UsageInv, vars, counts, talk, TypeOK, ClocksOK, ClockOK, At, ClaimInv, Claiming, Key,
         Period, MonthAt
<1>2. TalkInv' /\ AskedInv' /\ ReplyInv'
  BY DEF UsageInv, vars, counts, talk, TalkInv, DecidedOK, TalkOK, OverBefore, AskedInv, Asked,
         Asking, SawAsked, ReplyInv, At, Period, MonthAt, DueAt
<1>3. CountInv'
  <2>1. UNCHANGED counts
    BY DEF vars
  <2> QED BY <2>1 DEF UsageInv, counts, CountInv, CountedOnce, Counted, Unwritten, Waiting
<1> QED BY <1>1, <1>2, <1>3 DEF UsageInv

THEOREM Reachable == Spec => []UsageInv
<1>1. UsageInv /\ [Next]_vars => UsageInv'
  BY Moves, Stutters
<1> QED BY <1>1, StartsTrue, PTL DEF Spec

\* The counters, the notices, the conversation and the sweeps keep their types.
THEOREM TypeCorrect == Spec => []TypeOK
<1>1. UsageInv => TypeOK
  BY DEF UsageInv
<1> QED BY <1>1, Reachable, PTL

\* An event that was stored is counted once, wherever it waits, unless its process died
\* with it; one that was not is never counted (Recorder.Record, Flush, Store.Add).
THEOREM CountedHolds == Spec => []CountedOnce
<1>1. UsageInv => CountedOnce
  BY DEF UsageInv, CountInv
<1> QED BY <1>1, Reachable, PTL

\* The question is about two months over the limit, and a locked dashboard belongs to a
\* customer who was asked and had two weeks (runOverage, Decide, SaveOverage).
THEOREM LockedHolds == Spec => []LockedFairly
<1>1. UsageInv => LockedFairly
  <2> SUFFICES ASSUME UsageInv PROVE LockedFairly
    OBVIOUS
  <2>1. overage # NoTalk =>
          stored[overage.period - 1] > Limit /\ stored[overage.period - 2] > Limit
    BY DEF UsageInv, TalkInv, TalkOK, OverBefore
  <2>2. overage.locked /\ ~cut =>
          mails[<<overage.period, "second_month">>] = 1 /\ time >= DueAt(overage)
    BY DEF UsageInv, AskedInv, Asked
  <2> QED BY <2>1, <2>2 DEF LockedFairly
<1> QED BY <1>1, Reachable, PTL

\* A reply that fell between no sweep's reading and writing is never overwritten
\* (MarkReplied, runOverage, SaveOverage).
THEOREM ReplyHolds == Spec => []ReplyEndsIt
<1>1. UsageInv => ReplyEndsIt
  BY DEF UsageInv, ReplyInv, ReplyEndsIt
<1> QED BY <1>1, Reachable, PTL
=============================================================================
