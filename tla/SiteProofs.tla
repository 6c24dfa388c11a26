---------------------------- MODULE SiteProofs ----------------------------
(***************************************************************************)
(* What a site is promised, for any number of teams, requests, events,     *)
(* exports, days and commands: that a reset or a deletion erases what it   *)
(* says (SiteErase), and that the summary tables a report reads say what   *)
(* the events say (Rollup).                                                *)
(*                                                                         *)
(* SiteErase.  As long as no request outlasts its lease, one request at    *)
(* most works, and the operation's row carries its token; while the row is *)
(* there the owner cannot change.  What the operation was claimed over     *)
(* disappears in the order of the steps, and nothing brings it back: an    *)
(* event and an archive are written once.                                  *)
(*                                                                         *)
(* Rollup.  A row inside the window of its grain is right or due to be     *)
(* rewritten, and a row outside of it is empty or so in the zone it was    *)
(* written in.  A pass knows this of the rows it built, of the window it   *)
(* read and may join them to, and of the days it sums its weeks out of;    *)
(* two passes are of one zone, and their windows overlap, unless they are  *)
(* seen to have overlapped.                                                *)
(***************************************************************************)
EXTENDS SiteErase, Rollup, FiniteSetTheorems, WellFoundedInduction, TLAPS

-----------------------------------------------------------------------------
(***************************************************************************)
(* Types.                                                                  *)
(***************************************************************************)

LEMMA InitTypes == Init => TypeOK
<1> USE SiteEraseAssumption DEF Init, Ids, Jobs
<1>1. Init => /\ doomed \in [data : SUBSET (1..facts), files : SUBSET Jobs]
              /\ data \subseteq 1..facts
  OBVIOUS
<1>2. Init => /\ record \in [Ids -> {None, "pending", "completed"}]
              /\ file \in [Ids -> 0..MaxJobs]
              /\ job \in [Jobs -> Job] /\ \A j \in Jobs : job[j].at = None
              /\ request \in [Requests -> Request \cup {Idle}]
  BY DEF Job, NoJob, None
<1>3. MaxFacts \in Nat /\ MaxClaims \in Nat /\ MaxUpsets \in Nat
  OBVIOUS
<1>4. Init => facts \in 0..MaxFacts /\ tokens \in 0..MaxClaims /\ upsets \in 0..MaxUpsets
  BY <1>3
<1>6. Init => overrun \in BOOLEAN
  OBVIOUS
<1>5. Init => owner \in Teams \cup {None} /\ closing \subseteq Teams /\ op \in Op \cup {NoOp}
  OBVIOUS
<1> QED BY <1>1, <1>2, <1>4, <1>5, <1>6 DEF TypeOK

\* Deleting the rows of the waiting jobs leaves jobs.
LEMMA StoppedTypes ==
  ASSUME TypeOK
  PROVE  Stopped \in [Jobs -> Job] /\ \A j \in Jobs : Stopped[j].at # None => Stopped[j].id \in Ids
<1>1. Stopped \in [Jobs -> Job]
  BY DEF Stopped, TypeOK, Job
<1>2. ASSUME NEW j \in Jobs
      PROVE  Stopped[j].id = job[j].id /\ (Stopped[j].at # None => job[j].at # None)
  <2>1. job[j] \in Job
    BY DEF TypeOK
  <2> QED BY <2>1 DEF Stopped, Job, None
<1> QED BY <1>1, <1>2 DEF TypeOK

LEMMA NextTypes ==
  ASSUME TypeOK, [Next]_vars
  PROVE  TypeOK'
<1> USE SiteEraseAssumption DEF Ids, Jobs, counts, analytics
<1>0. request \in [Requests -> Request \cup {Idle}] /\ job \in [Jobs -> Job]
  BY DEF TypeOK
<1>1. CASE UNCHANGED vars
  BY <1>1 DEF vars, TypeOK
<1>2. ASSUME Store PROVE TypeOK'
  BY <1>2 DEF Store, TypeOK
<1>3. ASSUME CloseTeam PROVE TypeOK'
  BY <1>3 DEF CloseTeam, Upset, TypeOK
<1>4. ASSUME LeaseExpires PROVE TypeOK'
  <2>0. op \in Op
    BY <1>4 DEF LeaseExpires, TypeOK, NoOp
  <2>1. op' \in Op
    BY <2>0, <1>4 DEF LeaseExpires, Op
  <2>2. CASE Working
    BY <2>1, <2>2, <1>4 DEF LeaseExpires, Upset, TypeOK
  <2>3. CASE ~Working
    BY <2>1, <2>3, <1>4 DEF LeaseExpires, TypeOK
  <2> QED BY <2>2, <2>3
<1>5. ASSUME NEW j \in Jobs, CreateExport(j) PROVE TypeOK'
  BY <1>5 DEF CreateExport, TypeOK, Job
<1>6. ASSUME NEW j \in Jobs, EnqueueExport(j) PROVE TypeOK'
  <2>1. job[j] \in Job /\ job[j].id \in Ids
    BY <1>6 DEF EnqueueExport, TypeOK, None
  <2>2. job'[j] \in Job /\ job' \in [Jobs -> Job]
    BY <2>1, <1>6 DEF EnqueueExport, TypeOK, Job
  <2>4. \A k \in Jobs : job'[k].id = job[k].id /\ (job[k].at = None => job'[k].at = None)
    BY <1>0, <2>1, <1>6 DEF EnqueueExport, Job, None
  <2> QED BY <2>2, <2>4, <1>6 DEF EnqueueExport, TypeOK
<1>7. ASSUME NEW j \in Jobs, BuildExport(j) PROVE TypeOK'
  <2>1. job[j] \in Job /\ job[j].id \in Ids
    BY <1>7 DEF BuildExport, TypeOK, None
  <2>2. job' \in [Jobs -> Job]
    BY <2>1, <1>7 DEF BuildExport, TypeOK, Job
  <2>3. file' \in [Ids -> 0..MaxJobs]
    BY <2>1, <1>7 DEF BuildExport, TypeOK, Job
  <2>4. \A k \in Jobs : job'[k].id = job[k].id /\ (job[k].at = None => job'[k].at = None)
    BY <1>0, <2>1, <1>7 DEF BuildExport, Job, None
  <2> QED BY <2>2, <2>3, <2>4, <1>7 DEF BuildExport, TypeOK
<1>8. ASSUME NEW j \in Jobs, CompleteExport(j) PROVE TypeOK'
  <2>1. job[j] \in Job /\ job[j].id \in Ids
    BY <1>8 DEF CompleteExport, TypeOK, None
  <2>2. job' \in [Jobs -> Job]
    BY <2>1, <1>8 DEF CompleteExport, TypeOK, Job
  <2>3. record' \in [Ids -> {None, "pending", "completed"}]
    BY <2>1, <1>8 DEF CompleteExport, TypeOK, Job
  <2> QED BY <2>2, <2>3, <1>8 DEF CompleteExport, TypeOK
<1>9. ASSUME NEW t \in Teams, Transfer(t) PROVE TypeOK'
  <2>1. job' \in [Jobs -> Job] /\ \A j \in Jobs : job'[j].at # None => job'[j].id \in Ids
    BY <1>9, StoppedTypes DEF Transfer
  <2>2. owner' \in Teams \cup {None} /\ upsets' \in 0..MaxUpsets
    BY <1>9, SiteEraseAssumption DEF Transfer, Upset, TypeOK
  <2> QED BY <2>1, <2>2, <1>9 DEF Transfer, TypeOK
<1>10. ASSUME NEW r \in Requests, Ask(r) PROVE TypeOK'
  <2>1. PICK k \in Kinds : request' =
          [request EXCEPT ![r] = [at |-> "asked", kind |-> k, owner |-> owner,
                                  token |-> 0, paths |-> {}]]
    BY <1>10 DEF Ask
  <2>2. [at |-> "asked", kind |-> k, owner |-> owner, token |-> 0, paths |-> {}] \in Request
    BY <1>10 DEF Ask, Exists, TypeOK, Request
  <2> QED BY <2>1, <2>2, <1>10 DEF Ask, TypeOK
<1>11. ASSUME NEW r \in Requests, Claim(r) PROVE TypeOK'
  <2>0. request[r] \in Request
    BY <1>11 DEF Claim, At, TypeOK, Idle
  <2>1. CASE owner = request[r].owner /\ (Fresh(r) \/ LeftBehind(r))
    <3>1. tokens' = tokens + 1 /\ tokens' \in 1..MaxClaims
      BY <2>1, <1>11 DEF Claim, TypeOK
    <3>2. request' \in [Requests -> Request \cup {Idle}]
      <4>1. [request[r] EXCEPT !.at = "rows", !.token = tokens'] \in Request
        <5>1. tokens' \in 0..MaxClaims
          BY <3>1
        <5> QED BY <5>1, <2>0 DEF Request
      <4>2. request' = [request EXCEPT ![r] = [request[r] EXCEPT !.at = "rows", !.token = tokens']]
        BY <2>1, <1>11 DEF Claim
      <4> QED BY <4>1, <4>2 DEF TypeOK
    <3>3. op' \in Op
      <4>1. CASE op # NoOp
        BY <4>1, <3>1, <2>1, <1>11 DEF Claim, TypeOK, Op
      <4>2. CASE op = NoOp
        <5>1. request[r].kind \in Kinds /\ owner \in Teams
          BY <2>0, <2>1 DEF Request
        <5>2. op' = [kind |-> request[r].kind, owner |-> owner, state |-> "claimed",
                     token |-> tokens', live |-> TRUE]
          BY <4>2, <2>1, <1>11 DEF Claim
        <5> QED BY <5>1, <5>2, <3>1 DEF Op
      <4> QED BY <4>1, <4>2
    <3>4. doomed' \in [data : SUBSET (1..facts), files : SUBSET Jobs]
      BY <2>1, <1>11 DEF Claim, TypeOK, Named
    <3> QED BY <3>1, <3>2, <3>3, <3>4, <2>1, <1>11 DEF Claim, TypeOK
  <2>2. CASE ~(owner = request[r].owner /\ (Fresh(r) \/ LeftBehind(r)))
    BY <2>2, <1>11 DEF Claim, TypeOK
  <2> QED BY <2>1, <2>2
<1>12. ASSUME NEW r \in Requests, EraseRows(r) PROVE TypeOK'
  <2>0. request[r] \in Request /\ Named \in SUBSET Ids
    BY <1>12 DEF EraseRows, At, TypeOK, Idle, Named
  <2>1. request' \in [Requests -> Request \cup {Idle}]
    BY <2>0, <1>12 DEF EraseRows, TypeOK, Request
  <2> QED BY <2>1, <1>12 DEF EraseRows, TypeOK, Kept
<1>13. ASSUME NEW r \in Requests, RemoveFile(r) PROVE TypeOK'
  <2>0. request[r] \in Request
    BY <1>13 DEF RemoveFile, At, TypeOK, Idle
  <2>1. CASE request[r].paths = {}
    <3>1. request' \in [Requests -> Request \cup {Idle}]
      BY <1>0, <2>0, <2>1, <1>13 DEF RemoveFile, Goes, Request
    <3> QED BY <3>1, <2>1, <1>13 DEF RemoveFile, TypeOK
  <2>2. CASE request[r].paths # {}
    <3>1. PICK x \in request[r].paths :
             /\ file' = [file EXCEPT ![x] = 0]
             /\ request' = [request EXCEPT ![r].paths = @ \ {x}]
      BY <2>2, <1>13 DEF RemoveFile
    <3>2. request' \in [Requests -> Request \cup {Idle}]
      BY <3>1, <2>0 DEF TypeOK, Request
    <3>3. file' \in [Ids -> 0..MaxJobs]
      BY <3>1, <2>0 DEF TypeOK, Request
    <3> QED BY <3>2, <3>3, <1>13 DEF RemoveFile, TypeOK
  <2> QED BY <2>1, <2>2
<1>14. ASSUME NEW r \in Requests, EraseRecords(r) PROVE TypeOK'
  <2>0. request[r] \in Request
    BY <1>14 DEF EraseRecords, At, TypeOK, Idle
  <2>1. request' \in [Requests -> Request \cup {Idle}]
    BY <2>0, <1>14 DEF EraseRecords, Goes, TypeOK, Request
  <2> QED BY <2>1, <1>14 DEF EraseRecords, TypeOK
<1>15. ASSUME NEW r \in Requests, Mark(r) PROVE TypeOK'
  <2>0. request[r] \in Request
    BY <1>15 DEF Mark, At, TypeOK, Idle
  <2>1. CASE Holds(r)
    <3>1. request' \in [Requests -> Request \cup {Idle}]
      BY <1>0, <2>0, <2>1, <1>15 DEF Mark, Goes, Request
    <3>2. op \in Op
      BY <2>0, <2>1 DEF Holds, TypeOK, NoOp, Request, Kinds, None
    <3>3. op' \in Op
      BY <3>2, <2>1, <1>15 DEF Mark, Op
    <3> QED BY <3>1, <3>3, <2>1, <1>15 DEF Mark, TypeOK
  <2>2. CASE ~Holds(r)
    BY <2>2, <1>15 DEF Mark, TypeOK
  <2> QED BY <2>1, <2>2
<1>16. ASSUME NEW r \in Requests, Finish(r) PROVE TypeOK'
  <2>1. request' \in [Requests -> Request \cup {Idle}]
    BY <1>16 DEF Finish, TypeOK
  <2> QED BY <2>1, StoppedTypes, <1>16 DEF Finish, TypeOK
<1>17. ASSUME NEW r \in Requests, Fails(r) PROVE TypeOK'
  BY <1>17 DEF Fails, Upset, TypeOK
<1> QED
  BY <1>1, <1>2, <1>3, <1>4, <1>5, <1>6, <1>7, <1>8, <1>9, <1>10, <1>11, <1>12,
     <1>13, <1>14, <1>15, <1>16, <1>17 DEF Next, Operation

\* Every variable keeps its kind: no operation's row has a kind, a state or a token
\* that the code did not write, and no event or archive is doomed that was not stored.
THEOREM TypeCorrect == Spec => []TypeOK
  BY InitTypes, NextTypes, PTL DEF Spec

-----------------------------------------------------------------------------
(***************************************************************************)
(* The operation's row: while it is there the owner stays, and without an  *)
(* overrun one request works, the one whose token the row carries.         *)
(***************************************************************************)
Works(r) == request[r].at \in {"rows", "files", "records", "mark", "finish"}

Frozen == op # NoOp => owner = op.owner
OneWorks == ~overrun => \A r \in Requests : Works(r) =>
               op # NoOp /\ op.token = request[r].token /\ \A q \in Requests : Works(q) => q = r
LeftAlone == ~overrun /\ op # NoOp /\ ~op.live => \A r \in Requests : ~Works(r)
ClaimInv == Frozen /\ OneWorks /\ LeftAlone

LEMMA InitClaim == Init => ClaimInv
  BY DEF Init, ClaimInv, Frozen, OneWorks, LeftAlone, Works, Idle, None

\* A step that leaves the row and the owner, and starts no work, keeps the invariant.
LEMMA QuietClaim ==
  ASSUME ClaimInv, UNCHANGED <<op, owner, overrun>>,
         \A r \in Requests : Works(r)' => Works(r) /\ request'[r].token = request[r].token
  PROVE  ClaimInv'
  BY DEF ClaimInv, Frozen, OneWorks, LeftAlone

LEMMA NextClaim ==
  ASSUME TypeOK, ClaimInv, [Next]_vars
  PROVE  ClaimInv'
<1> USE DEF counts, analytics
<1>0. request \in [Requests -> Request \cup {Idle}] /\ op \in Op \cup {NoOp}
  BY DEF TypeOK
<1>1. CASE UNCHANGED vars
  BY <1>1, QuietClaim DEF vars, Works
<1>2. ASSUME Store PROVE ClaimInv'
  BY <1>2, QuietClaim DEF Store, Works
<1>3. ASSUME CloseTeam PROVE ClaimInv'
  BY <1>3, QuietClaim DEF CloseTeam, Works
<1>4. ASSUME LeaseExpires PROVE ClaimInv'
  <2>1. op \in Op /\ op # NoOp
    BY <1>0, <1>4 DEF LeaseExpires, NoOp, Op, Kinds, None
  <2>2. op' # NoOp /\ op'.owner = op.owner /\ op'.token = op.token
    BY <2>1, <1>4 DEF LeaseExpires, Op, NoOp, Kinds, None
  <2>3. Frozen'
    BY <2>1, <2>2, <1>4 DEF LeaseExpires, ClaimInv, Frozen
  <2>4. CASE Working
    BY <2>3, <2>4, <1>4 DEF LeaseExpires, ClaimInv, OneWorks, LeftAlone
  <2>5. CASE ~Working
    <3>1. op.token # 0
      BY <2>1 DEF Op
    <3>2. ASSUME ~overrun PROVE \A r \in Requests : ~Works(r)
      BY <3>1, <3>2, <2>1, <2>5 DEF Working, ClaimInv, OneWorks
    <3> QED BY <3>2, <2>3, <2>5, <1>4 DEF LeaseExpires, ClaimInv, OneWorks, LeftAlone, Works
  <2> QED BY <2>4, <2>5
<1>5. ASSUME NEW j \in Jobs, CreateExport(j) \/ EnqueueExport(j) \/ BuildExport(j) \/ CompleteExport(j)
      PROVE ClaimInv'
  BY <1>5, QuietClaim DEF CreateExport, EnqueueExport, BuildExport, CompleteExport, Works
<1>6. ASSUME NEW t \in Teams, Transfer(t) PROVE ClaimInv'
  BY <1>6 DEF Transfer, Transferable, ClaimInv, Frozen, OneWorks, LeftAlone, Works
<1>7. ASSUME NEW r \in Requests, Ask(r) PROVE ClaimInv'
  <2>1. \A q \in Requests : Works(q)' => q # r /\ request'[q] = request[q]
    BY <1>0, <1>7 DEF Ask, Works
  <2> QED BY <2>1, <1>7, QuietClaim DEF Ask, Works
<1>8. ASSUME NEW r \in Requests, Claim(r) PROVE ClaimInv'
  <2>1. CASE ~(owner = request[r].owner /\ (Fresh(r) \/ LeftBehind(r)))
    <3>1. \A q \in Requests : Works(q)' => Works(q) /\ request'[q] = request[q]
      BY <1>0, <2>1, <1>8 DEF Claim, Works, Idle, None
    <3> QED BY <3>1, <2>1, <1>8, QuietClaim DEF Claim
  <2>2. CASE owner = request[r].owner /\ (Fresh(r) \/ LeftBehind(r))
    <3>0. request[r] \in Request /\ tokens \in 0..MaxClaims
      BY <1>0, <1>8 DEF Claim, At, Idle, None, TypeOK
    <3>1. LeftBehind(r) => op # NoOp /\ ~op.live
      BY <3>0 DEF LeftBehind, NoOp, Request, Kinds, None
    <3>2. ~overrun => \A q \in Requests : ~Works(q)
      BY <3>1, <2>2 DEF Fresh, ClaimInv, OneWorks, LeftAlone
    <3>3. /\ request'[r].token = tokens'
          /\ \A q \in Requests : q # r => request'[q] = request[q]
      <4>1. request' = [request EXCEPT ![r] = [request[r] EXCEPT !.at = "rows", !.token = tokens']]
        BY <2>2, <1>8 DEF Claim
      <4> QED BY <4>1, <3>0, <1>0 DEF Request
    <3>4. op'.token = tokens' /\ op'.live = TRUE /\ op'.owner = owner /\ op' # NoOp
      <4>0. tokens' # 0
        BY <3>0, <2>2, <1>8 DEF Claim
      <4>1. CASE op # NoOp
        <5>1. op \in Op /\ op' = [op EXCEPT !.token = tokens', !.live = TRUE]
          BY <1>0, <4>1, <2>2, <1>8 DEF Claim
        <5>2. op.owner = owner
          BY <4>1 DEF ClaimInv, Frozen
        <5> QED BY <4>0, <5>1, <5>2 DEF Op, NoOp
      <4>2. CASE op = NoOp
        BY <4>0, <4>2, <2>2, <1>8 DEF Claim, NoOp
      <4> QED BY <4>1, <4>2
    <3>5. ~overrun' => ~overrun /\ \A q \in Requests : Works(q)' => q = r
      BY <3>2, <3>3, <1>8 DEF Claim, Works
    <3> QED BY <3>3, <3>4, <3>5, <1>8 DEF Claim, ClaimInv, Frozen, OneWorks, LeftAlone
  <2> QED BY <2>1, <2>2
<1>9. ASSUME NEW r \in Requests, EraseRows(r) PROVE ClaimInv'
  <2>1. request[r] \in Request
    BY <1>0, <1>9 DEF EraseRows, At, Idle, None
  <2>2. Works(r) /\ request'[r].token = request[r].token
        /\ \A q \in Requests : q # r => request'[q] = request[q]
    BY <2>1, <1>0, <1>9 DEF EraseRows, At, Works, Request
  <2> QED BY <2>2, <1>9, QuietClaim DEF EraseRows, Works
<1>10. ASSUME NEW r \in Requests, RemoveFile(r) PROVE ClaimInv'
  <2>1. request[r] \in Request
    BY <1>0, <1>10 DEF RemoveFile, At, Idle, None
  <2>2. Works(r) /\ request'[r].token = request[r].token
        /\ \A q \in Requests : q # r => request'[q] = request[q]
    BY <2>1, <1>0, <1>10 DEF RemoveFile, At, Goes, Works, Request
  <2> QED BY <2>2, <1>10, QuietClaim DEF RemoveFile, Works
<1>11. ASSUME NEW r \in Requests, EraseRecords(r) PROVE ClaimInv'
  <2>1. request[r] \in Request
    BY <1>0, <1>11 DEF EraseRecords, At, Idle, None
  <2>2. Works(r) /\ request'[r].token = request[r].token
        /\ \A q \in Requests : q # r => request'[q] = request[q]
    BY <2>1, <1>0, <1>11 DEF EraseRecords, At, Goes, Works, Request
  <2> QED BY <2>2, <1>11, QuietClaim DEF EraseRecords, Works
<1>12. ASSUME NEW r \in Requests, Mark(r) PROVE ClaimInv'
  <2>1. request[r] \in Request
    BY <1>0, <1>12 DEF Mark, At, Idle, None
  <2>2. CASE ~Holds(r)
    <3>1. \A q \in Requests : Works(q)' => Works(q) /\ request'[q] = request[q]
      BY <1>0, <2>2, <1>12 DEF Mark, Works, Idle, None
    <3> QED BY <3>1, <2>2, <1>12, QuietClaim DEF Mark
  <2>3. CASE Holds(r)
    <3>1. op \in Op /\ op # NoOp
      BY <1>0, <2>1, <2>3 DEF Holds, NoOp, Request, Kinds, None
    <3>2. op'.owner = op.owner /\ op'.token = op.token /\ op'.live = TRUE /\ op' # NoOp
      <4>1. op' = [op EXCEPT !.state = "analytics_deleted", !.live = TRUE]
        BY <2>3, <1>12 DEF Mark
      <4>2. op'.owner = op.owner /\ op'.token = op.token /\ op'.live = TRUE
        BY <4>1, <3>1 DEF Op
      <4>3. op'.token # 0
        BY <4>2, <3>1 DEF Op
      <4> QED BY <4>2, <4>3 DEF NoOp
    <3>3. Works(r) /\ request'[r].token = request[r].token
          /\ \A q \in Requests : q # r => request'[q] = request[q]
      BY <2>1, <2>3, <1>0, <1>12 DEF Mark, At, Goes, Works, Request
    <3>4. \A q \in Requests : Works(q)' => Works(q) /\ request'[q].token = request[q].token
      BY <3>3 DEF Works
    <3> QED BY <3>1, <3>2, <3>4, <1>12 DEF Mark, ClaimInv, Frozen, OneWorks, LeftAlone
  <2> QED BY <2>2, <2>3
<1>13. ASSUME NEW r \in Requests, Finish(r) PROVE ClaimInv'
  <2>1. Works(r) /\ \A q \in Requests : Works(q)' => Works(q) /\ q # r /\ request'[q] = request[q]
    BY <1>0, <1>13 DEF Finish, At, Works, Idle, None
  <2>2. CASE owner = request[r].owner /\ Holds(r) /\ op.state = "analytics_deleted"
    BY <2>1, <2>2, <1>13 DEF Finish, ClaimInv, Frozen, OneWorks, LeftAlone
  <2>3. CASE ~(owner = request[r].owner /\ Holds(r) /\ op.state = "analytics_deleted")
    BY <2>1, <2>3, <1>13, QuietClaim DEF Finish
  <2> QED BY <2>2, <2>3
<1>14. ASSUME NEW r \in Requests, Fails(r) PROVE ClaimInv'
  <2>1. \A q \in Requests : Works(q)' => Works(q) /\ request'[q] = request[q]
    BY <1>0, <1>14 DEF Fails, Works, Idle, None
  <2> QED BY <2>1, <1>14, QuietClaim DEF Fails
<1> QED
  BY <1>1, <1>2, <1>3, <1>4, <1>5, <1>6, <1>7, <1>8, <1>9, <1>10, <1>11, <1>12,
     <1>13, <1>14 DEF Next, Operation

\* Only EraseRows removes events, and it is the owner's operation that does.
LEMMA StepErasedByOwner ==
  ASSUME TypeOK, ClaimInv, [Next]_vars, ~overrun, ~(data \subseteq data')
  PROVE  Exists /\ op.owner = owner
<1> USE DEF counts, analytics
<1>1. PICK r \in Requests : EraseRows(r)
  BY DEF Next, Operation, vars, Store, CloseTeam, LeaseExpires, CreateExport, EnqueueExport,
         BuildExport, CompleteExport, Transfer, Ask, Claim, RemoveFile, EraseRecords, Mark,
         Finish, Fails
<1>2. op # NoOp /\ op.owner = owner
  BY <1>1 DEF EraseRows, At, Works, ClaimInv, Frozen, OneWorks
<1> QED BY <1>2, SiteEraseAssumption DEF TypeOK, Op, Exists, None

\* Whatever erases a site's events is an operation that its owner of that moment asked
\* for and that is not over, unless a request outlasted its lease (eraseSite, claimSite,
\* TransferSiteFrom).
THEOREM ErasedByOwnerHolds == Spec => ErasedByOwner
<1>1. TypeOK /\ ClaimInv /\ [Next]_vars =>
         [~overrun /\ ~(data \subseteq data') => Exists /\ op.owner = owner]_vars
  BY StepErasedByOwner
<1> QED BY <1>1, InitTypes, NextTypes, InitClaim, NextClaim, PTL DEF Spec, ErasedByOwner
-----------------------------------------------------------------------------
(***************************************************************************)
(* What the operation was claimed over: it disappears in the order of the  *)
(* steps.                                                                  *)
(***************************************************************************)
WasWritten(j) == job[j].at \in {"built", "over"}

\* An archive is where the job that wrote it put it, and a job writes once.
WrittenOnce == /\ \A x \in Ids : file[x] # 0 => WasWritten(file[x]) /\ job[file[x]].id = x
               /\ \A j \in doomed.files : WasWritten(j)

\* As long as its archive is there, so is its record.
StillNamed == ~overrun /\ op # NoOp =>
                 \A x \in Ids : file[x] \in doomed.files => record[x] = "completed"

Gone == \A x \in Ids : file[x] \notin doomed.files
EventsGone == doomed.data \cap data = {}
ErasedSoFar == ~overrun => \A r \in Requests :
    /\ At(r, "files") => /\ \A x \in Ids : file[x] \in doomed.files => x \in request[r].paths
                         /\ EventsGone
    /\ At(r, "records") \/ At(r, "mark") \/ At(r, "finish") => Gone /\ EventsGone
EraseInv == WrittenOnce /\ StillNamed /\ ErasedSoFar

LEMMA InitErase == Init => EraseInv
  BY DEF Init, EraseInv, WrittenOnce, StillNamed, ErasedSoFar, At, Idle, None, Ids

\* A step that leaves the files, the records and what is doomed, and by which no event
\* comes back and no request gets further, keeps the invariant.
LEMMA QuietErase ==
  ASSUME EraseInv, UNCHANGED <<file, record, doomed>>, overrun => overrun',
         op' # NoOp => op # NoOp, EventsGone => EventsGone',
         \A j \in Jobs : job'[j].id = job[j].id \/ ~WasWritten(j),
         \A j \in Jobs : WasWritten(j) => WasWritten(j)',
         doomed.files \subseteq Jobs, file \in [Ids -> 0..MaxJobs],
         \A r \in Requests : request'[r] = request[r] \/ request'[r].at \in {"idle", "asked", "rows"}
  PROVE  EraseInv'
<1>1. WrittenOnce'
  <2>1. \A x \in Ids : file[x] # 0 => file[x] \in Jobs
    BY DEF Jobs
  <2> QED BY <2>1 DEF EraseInv, WrittenOnce
<1>2. StillNamed'
  BY DEF EraseInv, StillNamed
<1>3. ErasedSoFar'
  BY DEF EraseInv, ErasedSoFar, At, Gone
<1> QED BY <1>1, <1>2, <1>3 DEF EraseInv

\* Deleting the rows of the waiting jobs takes no written archive back.
LEMMA StoppedKeeps ==
  ASSUME job \in [Jobs -> Job]
  PROVE  \A i \in Jobs : /\ Stopped[i].id = job[i].id
                         /\ WasWritten(i) => Stopped[i].at \in {"built", "over"}
  BY DEF Stopped, Job, WasWritten

LEMMA NextErase ==
  ASSUME TypeOK, ClaimInv, EraseInv, [Next]_vars
  PROVE  EraseInv'
<1> USE DEF counts, analytics
<1>0. /\ request \in [Requests -> Request \cup {Idle}] /\ op \in Op \cup {NoOp}
      /\ job \in [Jobs -> Job] /\ \A j \in Jobs : job[j].at # None => job[j].id \in Ids
      /\ file \in [Ids -> 0..MaxJobs] /\ record \in [Ids -> {None, "pending", "completed"}]
      /\ doomed.files \subseteq Jobs /\ doomed.data \subseteq 1..facts /\ data \subseteq 1..facts
      /\ facts \in Nat
  BY SiteEraseAssumption DEF TypeOK
<1>1. CASE UNCHANGED vars
  BY <1>0, <1>1, QuietErase DEF vars, EventsGone, WasWritten
<1>2. ASSUME Store PROVE EraseInv'
  <2>1. EventsGone => EventsGone'
    BY <1>0, <1>2 DEF Store, EventsGone
  <2> QED BY <2>1, <1>0, <1>2, QuietErase DEF Store, WasWritten
<1>3. ASSUME CloseTeam PROVE EraseInv'
  BY <1>0, <1>3, QuietErase DEF CloseTeam, EventsGone, WasWritten
<1>4. ASSUME LeaseExpires PROVE EraseInv'
  <2>1. op # NoOp
    BY <1>4 DEF LeaseExpires, NoOp
  <2>2. overrun => overrun'
    BY <1>4 DEF LeaseExpires
  <2> QED BY <2>1, <2>2, <1>0, <1>4, QuietErase DEF LeaseExpires, EventsGone, WasWritten
<1>5. ASSUME NEW j \in Jobs, CreateExport(j) PROVE EraseInv'
  <2>1. PICK x \in Ids : /\ NewId(x)
                         /\ record' = [record EXCEPT ![x] = "pending"]
                         /\ job' = [job EXCEPT ![j] = [at |-> "created", id |-> x, row |-> FALSE]]
    BY <1>5 DEF CreateExport
  <2>2. record[x] = None /\ \A y \in Ids : y # x => record'[y] = record[y]
    BY <2>1, <1>0 DEF NewId, Ids
  <2>3. \A i \in Jobs : WasWritten(i) => i # j /\ job'[i] = job[i]
    BY <2>1, <1>0, <1>5 DEF CreateExport, WasWritten, NoJob, None
  <2>4. \A y \in Ids : file[y] # 0 => file[y] \in Jobs
    BY <1>0 DEF Jobs
  <2>5. WrittenOnce'
    BY <2>3, <2>4, <1>0, <1>5 DEF CreateExport, EraseInv, WrittenOnce, WasWritten
  <2>6. StillNamed'
    BY <2>2, <1>5 DEF CreateExport, EraseInv, StillNamed, None
  <2> QED BY <2>5, <2>6, <1>5 DEF CreateExport, EraseInv, ErasedSoFar, At, Gone, EventsGone
<1>6. ASSUME NEW j \in Jobs, EnqueueExport(j) PROVE EraseInv'
  <2>1. \A i \in Jobs : job'[i].id = job[i].id /\ (WasWritten(i) => WasWritten(i)')
    BY <1>0, <1>6 DEF EnqueueExport, WasWritten, Job
  <2> QED BY <2>1, <1>0, <1>6, QuietErase DEF EnqueueExport, EventsGone
<1>7. ASSUME NEW j \in Jobs, BuildExport(j) PROVE EraseInv'
  <2>1. /\ ~WasWritten(j) /\ job[j].id \in Ids
        /\ \A i \in Jobs : job'[i].id = job[i].id /\ (WasWritten(i) => WasWritten(i)')
    BY <1>0, <1>7 DEF BuildExport, WasWritten, Job, None
  <2>2. CASE job[j].at = "queued"
    BY <2>1, <2>2, <1>0, <1>7, QuietErase DEF BuildExport, EventsGone
  <2>3. CASE job[j].at = "running"
    <3>1. /\ file' = [file EXCEPT ![job[j].id] = j] /\ WasWritten(j)'
      BY <2>1, <2>3, <1>0, <1>7 DEF BuildExport, WasWritten, Job
    <3>2. j \notin doomed.files
      BY <2>1 DEF EraseInv, WrittenOnce
    <3>3. \A y \in Ids : file[y] # 0 => file[y] \in Jobs
      BY <1>0 DEF Jobs
    <3>4. WrittenOnce'
      BY <2>1, <3>1, <3>3, <1>0, <1>7 DEF BuildExport, EraseInv, WrittenOnce
    <3>5. \A y \in Ids : file'[y] \in doomed.files => file'[y] = file[y]
      BY <3>1, <3>2, <1>0
    <3> QED BY <3>4, <3>5, <1>7
          DEF BuildExport, EraseInv, StillNamed, ErasedSoFar, At, Gone, EventsGone
  <2> QED BY <2>2, <2>3, <1>7 DEF BuildExport
<1>8. ASSUME NEW j \in Jobs, CompleteExport(j) PROVE EraseInv'
  <2>1. \A i \in Jobs : job'[i].id = job[i].id /\ (WasWritten(i) => WasWritten(i)')
    BY <1>0, <1>8 DEF CompleteExport, WasWritten, Job
  <2>2. \A y \in Ids : record[y] = "completed" => record'[y] = "completed"
    BY <1>0, <1>8 DEF CompleteExport, None
  <2>3. \A y \in Ids : file[y] # 0 => file[y] \in Jobs
    BY <1>0 DEF Jobs
  <2>4. WrittenOnce'
    BY <2>1, <2>3, <1>0, <1>8 DEF CompleteExport, EraseInv, WrittenOnce
  <2> QED BY <2>2, <2>4, <1>8
        DEF CompleteExport, EraseInv, StillNamed, ErasedSoFar, At, Gone, EventsGone
<1>9. ASSUME NEW t \in Teams, Transfer(t) PROVE EraseInv'
  <2>1. \A i \in Jobs : job'[i].id = job[i].id /\ (WasWritten(i) => WasWritten(i)')
    BY <1>0, <1>9, StoppedKeeps DEF Transfer, WasWritten
  <2> QED BY <2>1, <1>0, <1>9, QuietErase DEF Transfer, EventsGone
<1>10. ASSUME NEW r \in Requests, Ask(r) PROVE EraseInv'
  <2>1. \A q \in Requests : request'[q] = request[q] \/ request'[q].at \in {"idle", "asked", "rows"}
    BY <1>0, <1>10 DEF Ask
  <2> QED BY <2>1, <1>0, <1>10, QuietErase DEF Ask, EventsGone, WasWritten
<1>11. ASSUME NEW r \in Requests, Claim(r) PROVE EraseInv'
  <2>0. request[r] \in Request
    BY <1>0, <1>11 DEF Claim, At, Idle, None
  <2>1. \A q \in Requests : request'[q] = request[q] \/ request'[q].at \in {"idle", "asked", "rows"}
    <3>1. CASE owner = request[r].owner /\ (Fresh(r) \/ LeftBehind(r))
      <4>1. request' = [request EXCEPT ![r] = [request[r] EXCEPT !.at = "rows", !.token = tokens']]
        BY <3>1, <1>11 DEF Claim
      <4> QED BY <4>1, <2>0, <1>0 DEF Request
    <3>2. CASE ~(owner = request[r].owner /\ (Fresh(r) \/ LeftBehind(r)))
      BY <3>2, <1>0, <1>11 DEF Claim, Idle, None
    <3> QED BY <3>1, <3>2
  <2>2. CASE ~(Fresh(r) /\ owner = request[r].owner)
    <3>1. LeftBehind(r) => op # NoOp
      BY <2>0 DEF LeftBehind, NoOp, Request, Kinds, None
    <3>2. op' # NoOp => op # NoOp /\ doomed' = doomed
      BY <3>1, <2>2, <1>11 DEF Claim
    <3>3. doomed' = doomed
      BY <3>1, <2>2, <1>11 DEF Claim
    <3> QED BY <2>1, <3>2, <3>3, <1>0, <1>11, QuietErase DEF Claim, EventsGone, WasWritten
  <2>3. CASE Fresh(r) /\ owner = request[r].owner
    <3>1. doomed'.files = {file[x] : x \in Named} \ {0}
      BY <2>3, <1>11 DEF Claim, Fresh
    <3>2. \A x \in Ids : file[x] # 0 => file[x] \in Jobs
      BY <1>0 DEF Jobs
    <3>3. WrittenOnce'
      BY <3>1, <3>2, <1>11 DEF Claim, EraseInv, WrittenOnce, WasWritten, Named
    <3>4. \A x \in Ids : file[x] \in doomed'.files => record[x] = "completed"
      <4> SUFFICES ASSUME NEW x \in Ids, file[x] \in doomed'.files PROVE record[x] = "completed"
        OBVIOUS
      <4>1. PICK y \in Named : file[y] = file[x] /\ file[x] # 0
        BY <3>1
      <4>2. y \in Ids /\ y = x
        BY <4>1 DEF EraseInv, WrittenOnce, Named
      <4> QED BY <4>1, <4>2 DEF Named
    <3>5. StillNamed'
      BY <3>4, <1>11 DEF Claim, StillNamed
    <3>6. ~overrun => \A q \in Requests : ~Works(q)
      BY <2>3 DEF Fresh, ClaimInv, OneWorks
    <3>7. ErasedSoFar'
      BY <3>6, <2>1, <1>11 DEF Claim, ErasedSoFar, At, Works
    <3> QED BY <3>3, <3>5, <3>7 DEF EraseInv
  <2> QED BY <2>2, <2>3
<1>12. ASSUME NEW r \in Requests, EraseRows(r) PROVE EraseInv'
  <2>0. request[r] \in Request
    BY <1>0, <1>12 DEF EraseRows, At, Idle, None
  <2>1. /\ request'[r].at = "files" /\ request'[r].paths = Named
        /\ \A q \in Requests : q # r => request'[q] = request[q]
    <3>1. request' = [request EXCEPT ![r] = [request[r] EXCEPT !.at = "files", !.paths = Named]]
      BY <1>12 DEF EraseRows
    <3> QED BY <3>1, <2>0, <1>0 DEF Request
  <2>2. ~overrun => op # NoOp /\ \A q \in Requests : Works(q) => q = r
    BY <1>12 DEF EraseRows, At, Works, ClaimInv, OneWorks
  <2>3. ErasedSoFar'
    BY <2>1, <2>2, <1>12
       DEF EraseRows, At, Works, EraseInv, ErasedSoFar, StillNamed, Named, EventsGone, Gone
  <2> QED BY <2>3, <1>12 DEF EraseRows, Kept, EraseInv, WrittenOnce, StillNamed, WasWritten
<1>13. ASSUME NEW r \in Requests, RemoveFile(r) PROVE EraseInv'
  <2>0. request[r] \in Request /\ At(r, "files")
    BY <1>0, <1>13 DEF RemoveFile, At, Idle, None
  <2>1. CASE request[r].paths = {}
    <3>1. request'[r].at = "records" /\ \A q \in Requests : q # r => request'[q] = request[q]
      BY <2>0, <2>1, <1>0, <1>13 DEF RemoveFile, Goes, Request
    <3>2. ErasedSoFar'
      BY <2>0, <2>1, <3>1, <1>13 DEF RemoveFile, EraseInv, ErasedSoFar, At, Gone, EventsGone
    <3> QED BY <3>2, <2>1, <1>13 DEF RemoveFile, EraseInv, WrittenOnce, StillNamed, WasWritten
  <2>2. CASE request[r].paths # {}
    <3>1. PICK x \in request[r].paths :
             /\ file' = [file EXCEPT ![x] = 0]
             /\ request' = [request EXCEPT ![r].paths = @ \ {x}]
      BY <2>2, <1>13 DEF RemoveFile
    <3>2. /\ x \in Ids /\ file'[x] = 0 /\ \A y \in Ids : y # x => file'[y] = file[y]
          /\ request'[r].at = "files" /\ request'[r].paths = request[r].paths \ {x}
          /\ \A q \in Requests : q # r => request'[q] = request[q]
      BY <3>1, <2>0, <1>0 DEF Request, At
    <3>3. 0 \notin doomed.files
      BY <1>0 DEF Jobs
    <3>4. WrittenOnce'
      BY <3>2, <1>13 DEF RemoveFile, EraseInv, WrittenOnce, WasWritten
    <3>5. StillNamed'
      BY <3>2, <3>3, <1>13 DEF RemoveFile, EraseInv, StillNamed
    <3>6. ErasedSoFar'
      BY <2>0, <3>2, <3>3, <1>13 DEF RemoveFile, EraseInv, ErasedSoFar, At, Gone, EventsGone
    <3> QED BY <3>4, <3>5, <3>6 DEF EraseInv
  <2> QED BY <2>1, <2>2
<1>14. ASSUME NEW r \in Requests, EraseRecords(r) PROVE EraseInv'
  <2>1. At(r, "records") /\ (~overrun => Gone /\ EventsGone)
    BY <1>14 DEF EraseRecords, EraseInv, ErasedSoFar
  <2>2. \A q \in Requests : q # r => request'[q] = request[q]
    BY <1>0, <1>14 DEF EraseRecords, Goes
  <2>3. StillNamed'
    BY <2>1, <1>14 DEF EraseRecords, StillNamed, Gone
  <2>4. ErasedSoFar'
    <3>1. ~overrun => Gone' /\ EventsGone'
      BY <2>1, <1>14 DEF EraseRecords, Gone, EventsGone
    <3>2. request'[r].at = "mark"
      BY <1>0, <2>1, <1>14 DEF EraseRecords, Goes, At, Request, Idle, None
    <3> QED BY <2>2, <3>1, <3>2, <1>14 DEF EraseRecords, EraseInv, ErasedSoFar, At
  <2> QED BY <2>3, <2>4, <1>14 DEF EraseRecords, EraseInv, WrittenOnce, WasWritten
<1>15. ASSUME NEW r \in Requests, Mark(r) PROVE EraseInv'
  <2>0. request[r] \in Request
    BY <1>0, <1>15 DEF Mark, At, Idle, None
  <2>1. CASE ~Holds(r)
    <3>1. \A q \in Requests : request'[q] = request[q] \/ request'[q].at \in {"idle", "asked", "rows"}
      BY <2>1, <1>0, <1>15 DEF Mark, Idle, None
    <3> QED BY <3>1, <2>1, <1>0, <1>15, QuietErase DEF Mark, EventsGone, WasWritten
  <2>2. CASE Holds(r)
    <3>1. request'[r].at = "finish" /\ \A q \in Requests : q # r => request'[q] = request[q]
      BY <2>0, <2>2, <1>0, <1>15 DEF Mark, Goes, Request
    <3>2. op # NoOp
      BY <2>0, <2>2 DEF Holds, NoOp, Request, Kinds, None
    <3>3. ErasedSoFar'
      BY <3>1, <1>15 DEF Mark, EraseInv, ErasedSoFar, At, Gone, EventsGone
    <3> QED BY <3>2, <3>3, <1>15 DEF Mark, EraseInv, WrittenOnce, StillNamed, WasWritten
  <2> QED BY <2>1, <2>2
<1>16. ASSUME NEW r \in Requests, Finish(r) PROVE EraseInv'
  <2>1. \A q \in Requests : request'[q] = request[q] \/ request'[q].at \in {"idle", "asked", "rows"}
    BY <1>0, <1>16 DEF Finish, Idle, None
  <2>2. \A i \in Jobs : job'[i].id = job[i].id /\ (WasWritten(i) => WasWritten(i)')
    BY <1>0, <1>16, StoppedKeeps DEF Finish, WasWritten
  <2>3. op' # NoOp => op # NoOp
    BY <1>16 DEF Finish
  <2> QED BY <2>1, <2>2, <2>3, <1>0, <1>16, QuietErase DEF Finish, EventsGone
<1>17. ASSUME NEW r \in Requests, Fails(r) PROVE EraseInv'
  <2>1. \A q \in Requests : request'[q] = request[q] \/ request'[q].at \in {"idle", "asked", "rows"}
    BY <1>0, <1>17 DEF Fails, Idle, None
  <2> QED BY <2>1, <1>0, <1>17, QuietErase DEF Fails, EventsGone, WasWritten
<1> QED
  BY <1>1, <1>2, <1>3, <1>4, <1>5, <1>6, <1>7, <1>8, <1>9, <1>10, <1>11, <1>12,
     <1>13, <1>14, <1>15, <1>16, <1>17 DEF Next, Operation

\* Only Finish removes the row, from a request that has erased everything.
LEMMA StepFinishedIsErased ==
  ASSUME TypeOK, EraseInv, [Next]_vars, ~overrun, op # NoOp, op' = NoOp
  PROVE  doomed.data \cap data' = {} /\ \A x \in Ids : file'[x] \notin doomed.files
<1> USE DEF counts, analytics
<1>1. op \in Op /\ op.token # 0
  BY DEF TypeOK, Op
<1>2. ~LeaseExpires
  BY <1>1 DEF LeaseExpires, Op, NoOp
<1>3. ASSUME NEW r \in Requests PROVE ~Claim(r)
  <2> SUFFICES ASSUME Claim(r) PROVE FALSE
    OBVIOUS
  <2>1. op' = [op EXCEPT !.token = tokens', !.live = TRUE] /\ tokens' = tokens + 1
    BY DEF Claim
  <2>2. op'.token # 0
    BY <2>1, <1>1 DEF TypeOK, Op
  <2> QED BY <2>2 DEF NoOp
<1>4. ASSUME NEW r \in Requests PROVE ~Mark(r)
  <2> SUFFICES ASSUME Mark(r) PROVE FALSE
    OBVIOUS
  <2>1. op' = [op EXCEPT !.state = "analytics_deleted", !.live = TRUE]
    BY DEF Mark
  <2>2. op'.token # 0
    BY <2>1, <1>1 DEF Op
  <2> QED BY <2>2 DEF NoOp
<1>5. PICK r \in Requests : Finish(r)
  BY <1>2, <1>3, <1>4 DEF Next, Operation, vars, Store, CloseTeam, CreateExport, EnqueueExport,
       BuildExport, CompleteExport, Transfer, Ask, EraseRows, RemoveFile, EraseRecords, Fails
<1> QED BY <1>5 DEF Finish, EraseInv, ErasedSoFar, Gone, EventsGone

\* Once an operation is over, nothing of what it was claimed over is left in a database
\* or on the disk, however often it failed and was taken up again, unless a request
\* outlasted its lease (eraseSite, finishSite).
THEOREM FinishedIsErasedHolds == Spec => FinishedIsErased
<1>1. TypeOK /\ EraseInv /\ [Next]_vars =>
         [~overrun /\ op # NoOp /\ op' = NoOp =>
            doomed.data \cap data' = {} /\ \A x \in Ids : file'[x] \notin doomed.files]_vars
  BY StepFinishedIsErased
<1> QED BY <1>1, InitTypes, NextTypes, InitClaim, NextClaim, InitErase, NextErase,
           PTL DEF Spec, FinishedIsErased

-----------------------------------------------------------------------------
(***************************************************************************)
(* The calendar: days fall into buckets that follow each other.            *)
(***************************************************************************)
WeekOf(d) == d - ((d - 1) % Week)

LEMMA WeekLong == Week \in Nat \ {0} /\ Week \in Int /\ Week > 0
  BY RollupAssumption

LEMMA Divides == ASSUME NEW n \in Int, NEW w \in Int, w > 0
                 PROVE  n \div w \in Int /\ n = w * (n \div w) + (n % w)
  BY SMTT(30)
LEMMA Grows == ASSUME NEW n \in Int, NEW w \in Int, w > 0, n >= 1 PROVE w * n >= w
  BY SMTT(30)
LEMMA Multiple == ASSUME NEW n \in Int, NEW w \in Int, w > 0 PROVE (w * n) % w = 0
  BY SMTT(30)
LEMMA Spread == ASSUME NEW w \in Int, NEW q \in Int, NEW r \in Int
                PROVE  w * r - w * q = w * (r - q)
  BY SMTT(30)

LEMMA WeekStarts == ASSUME NEW d \in Int
                    PROVE  WeekOf(d) \in Int /\ WeekOf(d) <= d /\ d < WeekOf(d) + Week
  BY WeekLong DEF WeekOf

LEMMA WeekHolds ==
  ASSUME NEW b \in Int, NEW d \in Int, WeekOf(b) = b, b <= d, d < b + Week
  PROVE  WeekOf(d) = b
<1> DEFINE q == (b - 1) \div Week
           r == (d - 1) \div Week
           y == (d - 1) % Week
<1>1. q \in Int /\ b - 1 = Week * q + ((b - 1) % Week)
  BY WeekLong, Divides
<1>2. r \in Int /\ d - 1 = Week * r + y
  <2>1. d - 1 \in Int /\ Week \in Int /\ Week > 0
    BY WeekLong
  <2> QED BY <2>1, Divides
<1>3. (b - 1) % Week = 0
  BY WeekLong DEF WeekOf
<1>4. y \in 0..(Week - 1)
  BY WeekLong
<1> HIDE DEF q, r, y
<1>5. d - b = Week * (r - q) + y
  BY <1>1, <1>2, <1>3, <1>4, WeekLong, Spread
<1> DEFINE n == r - q
<1>0. n \in Int /\ d - b = Week * n + y
  <2>1. r \in Int /\ q \in Int
    BY <1>1, <1>2
  <2>2. n \in Int
    BY <2>1
  <2> QED BY <2>2, <1>5, Zenon
<1> HIDE DEF n
<1>6. ~ (n >= 1)
  <2> SUFFICES ASSUME n >= 1 PROVE FALSE
    OBVIOUS
  <2>1. Week * n >= Week
    BY <1>0, WeekLong, Grows
  <2> QED BY <2>1, <1>0, <1>4, WeekLong
<1>7. ~ (n <= -1)
  <2> SUFFICES ASSUME n <= -1 PROVE FALSE
    OBVIOUS
  <2>0. -n \in Int /\ -n >= 1
    BY <1>0
  <2>1. Week * (-n) >= Week
    BY <2>0, WeekLong, Grows
  <2>2. Week * (-n) = -(Week * n)
    BY <1>0, WeekLong
  <2>3. Week * n \in Int
    BY <1>0, WeekLong
  <2> QED BY <2>1, <2>2, <2>3, <1>0, <1>4, WeekLong
<1>8. n = 0
  BY <1>6, <1>7, <1>0
<1>9. y = d - b
  BY <1>8, <1>0, <1>4, WeekLong
<1> QED BY <1>9, WeekLong DEF WeekOf, y

LEMMA WeekStays == ASSUME NEW d \in Int PROVE WeekOf(WeekOf(d)) = WeekOf(d)
<1> DEFINE q == (d - 1) \div Week
           y == (d - 1) % Week
<1>1. q \in Int /\ d - 1 = Week * q + y
  BY WeekLong, Divides
<1>4. y \in 0..(Week - 1)
  BY WeekLong
<1>2. WeekOf(d) = d - y
  BY DEF WeekOf
<1> HIDE DEF q, y
<1>3. Week * q \in Int
  BY <1>1, WeekLong
<1>5. WeekOf(d) - 1 = Week * q
  BY <1>1, <1>2, <1>3, <1>4
<1>6. (WeekOf(d) - 1) % Week = 0
  BY <1>5, <1>1, WeekLong, Multiple
<1> QED BY <1>6, <1>2, <1>4 DEF WeekOf

LEMMA BucketFacts ==
  ASSUME NEW g \in Grains, NEW d \in Int
  PROVE  /\ Bucket(g, d) \in Int /\ Bucket(g, d) <= d /\ d < After(g, Bucket(g, d))
         /\ Bucket(g, Bucket(g, d)) = Bucket(g, d)
         /\ After(g, d) \in Int /\ After(g, d) > d
         /\ g # "week" => Bucket(g, d) = d /\ After(g, d) = d + 1
<1>1. Bucket("week", d) = WeekOf(d) /\ Bucket("week", WeekOf(d)) = WeekOf(WeekOf(d))
  BY DEF Bucket, WeekOf
<1>2. CASE g = "week"
  BY <1>1, <1>2, WeekStarts, WeekStays, WeekLong DEF After
<1>3. CASE g # "week"
  BY <1>3 DEF After, Bucket
<1> QED BY <1>2, <1>3

LEMMA InBucket ==
  ASSUME NEW g \in Grains, NEW b \in Int, NEW d \in Int, Bucket(g, b) = b, b <= d, d < After(g, b)
  PROVE  Bucket(g, d) = b
<1>1. CASE g = "week"
  <2>1. WeekOf(b) = b /\ d < b + Week
    BY <1>1 DEF Bucket, WeekOf, After
  <2> QED BY <2>1, <1>1, WeekHolds DEF Bucket, WeekOf
<1>2. CASE g # "week"
  BY <1>2 DEF Bucket, After
<1> QED BY <1>1, <1>2

\* Two buckets do not overlap.
LEMMA BucketsApart ==
  ASSUME NEW g \in Grains, NEW b \in Int, NEW c \in Int,
         Bucket(g, b) = b, Bucket(g, c) = c, b < c
  PROVE  After(g, b) <= c
<1>1. SUFFICES ASSUME c < After(g, b) PROVE FALSE
  BY BucketFacts
<1> QED BY <1>1, InBucket

LEMMA AfterAligned ==
  ASSUME NEW g \in Grains, NEW b \in Int, Bucket(g, b) = b
  PROVE  Bucket(g, After(g, b)) = After(g, b)
<1> DEFINE a == After(g, b)
           c == Bucket(g, a)
<1>1. a \in Int /\ b < a
  BY BucketFacts
<1>2. c \in Int /\ c <= a /\ a < After(g, c) /\ Bucket(g, c) = c
  BY <1>1, BucketFacts
<1>3. After(g, c) = c + (a - b)
  BY <1>1, <1>2, WeekLong DEF After
<1> HIDE DEF a, c
<1>4. b < c
  BY <1>1, <1>2, <1>3
<1>5. a <= c
  BY <1>2, <1>4, BucketsApart DEF a
<1> QED BY <1>1, <1>2, <1>5 DEF c, a

LEMMA BucketPositive ==
  ASSUME NEW g \in Grains, NEW d \in Int, 1 <= d
  PROVE  1 <= Bucket(g, d)
<1> DEFINE b == Bucket(g, d)
<1>1. b \in Int /\ b <= d /\ d < After(g, b) /\ Bucket(g, b) = b
  BY BucketFacts
<1>2. Bucket(g, 1) = 1
  BY WeekLong DEF Bucket
<1>3. SUFFICES ASSUME b < 1 PROVE FALSE
  BY <1>1
<1> HIDE DEF b
<1>4. Bucket(g, 1) = b
  <2>1. b \in Int /\ 1 \in Int /\ Bucket(g, b) = b /\ b <= 1 /\ 1 < After(g, b)
    <3>1. After(g, b) \in Int
      BY <1>1, BucketFacts
    <3> QED BY <1>1, <1>3, <3>1
  <2> QED BY <2>1, InBucket
<1> QED BY <1>2, <1>3, <1>4

\* The bucket before ends where a bucket begins.
LEMMA BucketBefore ==
  ASSUME NEW g \in Grains, NEW b \in Int, Bucket(g, b) = b
  PROVE  /\ Bucket(g, b - 1) \in Int /\ Bucket(g, b - 1) < b
         /\ After(g, Bucket(g, b - 1)) = b
<1> DEFINE c == Bucket(g, b - 1)
<1>1. c \in Int /\ c <= b - 1 /\ b - 1 < After(g, c) /\ Bucket(g, c) = c
  BY BucketFacts
<1> HIDE DEF c
<1>2. After(g, c) \in Int /\ c < b
  BY <1>1, BucketFacts
<1>3. After(g, c) <= b
  BY <1>1, <1>2, BucketsApart
<1> QED BY <1>1, <1>2, <1>3 DEF c

-----------------------------------------------------------------------------
(***************************************************************************)
(* What the events say.                                                    *)
(***************************************************************************)

LEMMA EventFacts ==
  ASSUME RollupTypeOK, NEW e \in Events, NEW z \in Zones
  PROVE  /\ e[1] \in Days /\ e[1] \in Int /\ 1 <= e[1] /\ e[2] \in {0, 1}
         /\ Local(e, z) \in Int /\ Local(e, z) \in {e[1], e[1] + 1}
         /\ Local(e, z) <= e[1] + e[2]
<1>1. e \in Days \X {0, 1} /\ MaxDay \in Nat
  BY RollupAssumption
<1>2. e[1] \in Days /\ e[2] \in {0, 1}
  BY <1>1
<1>3. e[1] \in Int /\ 1 <= e[1]
  BY <1>1, <1>2 DEF Days
<1> QED BY <1>2, <1>3 DEF Local, Zones

LEMMA VisitorDays ==
  ASSUME RollupTypeOK, NEW z \in Zones, NEW D, NEW v
  PROVE  v \in Visitors(D, z) <=>
            /\ v \in Days
            /\ \E e \in raw : e[1] = v /\ Local(e, z) \in {v, v + 1} \cap D
<1>1. \A e \in raw : e[1] \in Days /\ Local(e, z) \in {e[1], e[1] + 1}
  BY EventFacts DEF RollupTypeOK
<1> QED BY <1>1 DEF Visitors

LEMMA DaysFinite == IsFiniteSet(Days)
<1>1. 1 \in Int /\ MaxDay \in Int
  BY RollupAssumption
<1>2. IsFiniteSet(1..MaxDay)
  BY <1>1, FS_Interval
<1> QED BY <1>2 DEF Days

LEMMA VisitorsFinite ==
  ASSUME RollupTypeOK, NEW z \in Zones, NEW D
  PROVE  IsFiniteSet(Visitors(D, z))
<1>1. Visitors(D, z) \subseteq Days
  BY VisitorDays
<1> QED BY <1>1, DaysFinite, FS_Subset

LEMMA TruthIsRow ==
  ASSUME RollupTypeOK, NEW g \in Grains, NEW b \in Int, NEW z \in Zones
  PROVE  Truth(g, b, z) \in Row
<1> DEFINE V == Visitors(DaysOf(g, b), z)
           W == Visitors(DaysOf(g, Bucket(g, b - 1)), z)
<1>1. IsFiniteSet(V) /\ IsFiniteSet(V \cap W)
  BY VisitorsFinite, FS_Intersection
<1>2. Cardinality(V) \in Nat /\ Cardinality(V \cap W) \in Nat
  BY <1>1, FS_CardinalityType
<1> QED BY <1>2 DEF Truth, Row

\* A bucket without events is empty.
LEMMA EmptyTruth ==
  ASSUME NEW g, NEW b, NEW z, \A e \in raw : Local(e, z) \notin DaysOf(g, b)
  PROVE  Truth(g, b, z) = Zero
<1>1. Visitors(DaysOf(g, b), z) = {}
  BY DEF Visitors
<1>2. Visitors(DaysOf(g, b), z) \cap Visitors(DaysOf(g, Bucket(g, b - 1)), z) = {}
  BY <1>1
<1>3. Cardinality({}) = 0
  BY FS_EmptySet
<1> QED BY <1>1, <1>2, <1>3 DEF Truth, Zero

\* An event changes the truth of no bucket but those it is owed to.
LEMMA ArriveTruth ==
  ASSUME RollupTypeOK, NEW e \in Events, Arrive(e),
         NEW g \in Grains, NEW b \in Buckets(g), NEW z \in Zones, b \notin owed'[g]
  PROVE  Truth(g, b, z)' = Truth(g, b, z)
<1> DEFINE d == Local(e, z)
           D == DaysOf(g, b)
           P == DaysOf(g, Bucket(g, b - 1))
<1>0. raw' = raw \cup {e} /\ raw \subseteq Events
  BY DEF Arrive, RollupTypeOK
<1>1. b \in Int /\ Bucket(g, b) = b
  BY DEF Buckets, Days
<1>2. After(g, b) \in Int /\ b < After(g, b)
  BY <1>1, BucketFacts
<1>3. Bucket(g, d) # b /\ Bucket(g, d + 1) # b
  BY DEF Arrive, RollupTypeOK
<1>4. d \in Int /\ e[1] \in Int /\ d \in {e[1], e[1] + 1}
  BY EventFacts
<1>d. D = b..(After(g, b) - 1) /\ P = Bucket(g, b - 1)..(b - 1) /\ Bucket(g, b - 1) \in Int
  <2>1. After(g, Bucket(g, b - 1)) = b /\ Bucket(g, b - 1) \in Int
    BY <1>1, BucketBefore
  <2> QED BY <2>1 DEF DaysOf
<1> HIDE DEF d, D, P
<1>5. d \notin D
  BY <1>1, <1>2, <1>3, <1>4, <1>d, InBucket
<1>6. Visitors(D, z)' = Visitors(D, z)
  BY <1>0, <1>5 DEF Visitors, Local, d
<1>7. Visitors(P, z)' = Visitors(P, z) \/ e[1] \notin Visitors(D, z)
  <2>1. SUFFICES ASSUME d \in P PROVE e[1] \notin Visitors(D, z)
    BY <1>0 DEF Visitors, Local, d
  <2>2. d + 1 < b
    BY <2>1, <1>1, <1>3, <1>4, <1>d
  <2>3. ASSUME NEW x \in raw, x[1] = e[1], Local(x, z) \in D PROVE FALSE
    <3>1. Local(x, z) \in {x[1], x[1] + 1}
      BY <1>0, EventFacts
    <3>2. b <= Local(x, z)
      BY <2>3, <1>d, <1>1, <1>2
    <3> QED BY <3>1, <3>2, <2>2, <2>3, <1>4, <1>1
  <2> QED BY <2>3 DEF Visitors
<1>8. (Visitors(D, z) \cap Visitors(P, z))' = Visitors(D, z) \cap Visitors(P, z)
  <2>1. Visitors(P, z) \subseteq Visitors(P, z)' /\ Visitors(P, z)' \subseteq Visitors(P, z) \cup {e[1]}
    BY <1>0 DEF Visitors, Local
  <2> QED BY <2>1, <1>6, <1>7
<1> QED BY <1>6, <1>8 DEF Truth, D, P

\* What a week adds up is a number, whatever its days hold.
LEMMA DerivedIsRow ==
  ASSUME RollupTypeOK, NEW b \in Days
  PROVE  Derived(b) \in Row
<1> DEFINE S == DaysOf("week", b) \cap Days
           A == [d \in S |-> {d} \X (1..Adds(b, d))]
           T == {{d} \X (1..Adds(b, d)) : d \in S}
<1>0. \A d \in Days : row["day"][d].n \in Nat /\ row["day"][d].carried \in Nat
  BY DEF RollupTypeOK, Grains, Row
<1>1. \A d \in S : Adds(b, d) \in Int
  BY <1>0 DEF Adds
<1>2. IsFiniteSet(S)
  <2>1. S \subseteq Days
    OBVIOUS
  <2> HIDE DEF S
  <2> QED BY <2>1, DaysFinite, FS_Subset
<1>3. A \in Surjection(S, T)
  BY DEF Surjection
<1>4. IsFiniteSet(T)
  BY <1>2, <1>3, FS_Surjection
<1>5. \A t \in T : IsFiniteSet(t)
  <2> TAKE t \in T
  <2>1. PICK d \in S : t = {d} \X (1..Adds(b, d))
    OBVIOUS
  <2>2. Adds(b, d) \in Int
    BY <1>1
  <2>3. IsFiniteSet(1..Adds(b, d)) /\ IsFiniteSet({d})
    <3>1. IsFiniteSet(1..Adds(b, d))
      BY <2>2, FS_Interval
    <3>2. IsFiniteSet({d})
      BY FS_Singleton
    <3> QED BY <3>1, <3>2
  <2> QED BY <2>1, <2>3, FS_Product
<1>6. IsFiniteSet(Units(b))
  BY <1>4, <1>5, FS_UNION DEF Units
<1>7. Cardinality(Units(b)) \in Nat
  BY <1>6, FS_CardinalityType
<1> QED BY <1>0, <1>7 DEF Derived, Row

\* A week whose days are right is right: a visitor is counted on the first of his days
\* in the week, of which he has two at most, one after the other.
LEMMA DerivedTrue ==
  ASSUME RollupTypeOK, NEW b \in Int, Bucket("week", b) = b, NEW z \in Zones,
         DaysOf("week", b) \subseteq Days,
         \A d \in DaysOf("week", b) : row["day"][d] = Truth("day", d, z)
  PROVE  Derived(b) = Truth("week", b, z)
<1> DEFINE D == DaysOf("week", b)
           V(d) == Visitors({d}, z)
           N(d) == IF d = b THEN V(b) ELSE V(d) \ V(d - 1)
           a == After("week", b)
           c == Bucket("week", b - 1)
<1>1. D = b..(a - 1) /\ a \in Int /\ b < a /\ b \in D
  BY BucketFacts DEF DaysOf, Grains
<1>2. c \in Int /\ c < b /\ DaysOf("week", c) = c..(b - 1)
  BY BucketBefore DEF DaysOf, Grains
<1>3. ASSUME NEW d \in D
      PROVE  /\ row["day"][d].n = Cardinality(V(d))
             /\ row["day"][d].carried = Cardinality(V(d) \cap V(d - 1))
  <2>1. d \in Int
    BY <1>1
  <2>2. DaysOf("day", d) = {d} /\ DaysOf("day", Bucket("day", d - 1)) = {d - 1}
    BY <2>1 DEF DaysOf, After, Bucket
  <2>3. row["day"][d] = Truth("day", d, z)
    OBVIOUS
  <2>4. "day" # "hour"
    OBVIOUS
  <2>5. Truth("day", d, z) =
            [n |-> Cardinality(V(d)), carried |-> Cardinality(V(d) \cap V(d - 1))]
    BY <2>2, <2>4, Zenon DEF Truth
  <2> HIDE DEF V
  <2> QED BY <2>3, <2>5
<1>4. ASSUME NEW d \in D PROVE Adds(b, d) = Cardinality(N(d)) /\ IsFiniteSet(N(d))
  <2>1. IsFiniteSet(V(d)) /\ IsFiniteSet(V(d - 1))
    BY VisitorsFinite
  <2>2. /\ Cardinality(V(d) \ V(d - 1)) = Cardinality(V(d)) - Cardinality(V(d) \cap V(d - 1))
        /\ IsFiniteSet(V(d) \ V(d - 1))
    BY <2>1, FS_Difference
  <2>3. Cardinality(V(d)) \in Nat
    BY <2>1, FS_CardinalityType
  <2>4. row["day"][d].n = Cardinality(V(d))
        /\ row["day"][d].carried = Cardinality(V(d) \cap V(d - 1))
    BY <1>3
  <2>5. CASE d = b
    BY <2>1, <2>3, <2>4, <2>5 DEF Adds
  <2>6. CASE d # b
    <3>1. N(d) = V(d) \ V(d - 1)
      BY <2>6
    <3> HIDE DEF V, N
    <3> QED BY <2>2, <2>4, <2>6, <3>1 DEF Adds
  <2> QED BY <2>5, <2>6
\* One unit for each visitor of a day who is new to the week.
<1> DEFINE H(d) == CHOOSE h : h \in Bijection(1..Cardinality(N(d)), N(d))
           U == Units(b)
           W == Visitors(D, z)
           f == [u \in U |-> H(u[1])[u[2]]]
<1>5. ASSUME NEW d \in D PROVE H(d) \in Bijection(1..Cardinality(N(d)), N(d))
  <2>1. ExistsBijection(1..Cardinality(N(d)), N(d))
    BY <1>4, FS_CardinalityType
  <2> QED BY <2>1 DEF ExistsBijection
<1>6. \A u : u \in U <=> \E d \in D : \E i \in 1..Cardinality(N(d)) : u = <<d, i>>
  <2>1. D \cap Days = D
    OBVIOUS
  <2> HIDE DEF N
  <2>2. \A d \in D : Adds(b, d) = Cardinality(N(d))
    BY <1>4
  <2> QED BY <2>1, <2>2 DEF Units
<1>7. ASSUME NEW v \in W
      PROVE  \E d \in D : v \in N(d)
  <2>1. v \in Days /\ v \in Int
    BY VisitorDays DEF Days
  <2>2. PICK d \in D : v \in V(d) /\ d \in {v, v + 1}
    BY VisitorDays DEF Visitors
  <2>3. CASE v \in N(d)
    BY <2>3
  <2>4. CASE v \notin N(d)
    <3>1. d # b /\ v \in V(d - 1)
      BY <2>2, <2>4
    <3>2. d - 1 \in {v, v + 1}
      BY <3>1, VisitorDays
    <3>3. d = v + 1
      BY <2>1, <2>2, <3>2
    <3>4. v \in D /\ v \in V(v)
      BY <3>1, <3>3, <2>1, <1>1
    <3>5. v \notin V(v - 1)
      <4>1. v - 1 \notin {v, v + 1}
        BY <2>1
      <4> QED BY <4>1, VisitorDays
    <3> QED BY <3>4, <3>5
  <2> QED BY <2>3, <2>4
<1>8. ASSUME NEW d \in D, NEW k \in D, NEW v, v \in N(d), v \in N(k)
      PROVE  d = k
  <2>0. d \in Int /\ k \in Int
    BY <1>1
  <2>1. v \in V(d) /\ v \in V(k)
    BY <1>8
  <2>2. v \in Int /\ d \in {v, v + 1} /\ k \in {v, v + 1}
    BY <2>1, VisitorDays DEF Days
  <2>3. ASSUME d = k + 1 PROVE FALSE
    BY <2>0, <2>1, <2>3, <1>1, <1>8
  <2>4. ASSUME k = d + 1 PROVE FALSE
    BY <2>0, <2>1, <2>4, <1>1, <1>8
  <2> QED BY <2>0, <2>2, <2>3, <2>4
<1>9. ASSUME NEW d \in D PROVE N(d) \subseteq W
  BY DEF Visitors
<1> HIDE DEF N, H, U, W, D
<1>10. f \in Bijection(U, W)
  <2>1. \A u \in U : u[1] \in D /\ u[2] \in 1..Cardinality(N(u[1])) /\ u = <<u[1], u[2]>>
    BY <1>6
  <2>2. \A u \in U : f[u] \in N(u[1])
    BY <2>1, <1>5 DEF Bijection, Surjection
  <2>3. f \in [U -> W]
    BY <2>1, <2>2, <1>9
  <2>4. ASSUME NEW u \in U, NEW w \in U, f[u] = f[w] PROVE u = w
    <3>1. u[1] = w[1]
      BY <2>1, <2>2, <2>4, <1>8
    <3>2. H(u[1])[u[2]] = H(u[1])[w[2]]
      BY <3>1, <2>4
    <3>3. u[2] = w[2]
      <4> DEFINE k == H(u[1])
                 S == 1..Cardinality(N(u[1]))
      <4>1. k \in Injection(S, N(u[1]))
        BY <2>1, <1>5 DEF Bijection
      <4>2. u[2] \in S /\ w[2] \in S /\ k[u[2]] = k[w[2]]
        BY <2>1, <3>1, <3>2
      <4> HIDE DEF k, S
      <4> QED BY <4>1, <4>2 DEF Injection, IsInjective
    <3> QED BY <2>1, <3>1, <3>3
  <2>5. ASSUME NEW v \in W PROVE \E u \in U : f[u] = v
    <3>1. PICK d \in D : v \in N(d)
      BY <1>7
    <3>2. PICK i \in 1..Cardinality(N(d)) : H(d)[i] = v
      BY <3>1, <1>5 DEF Bijection, Surjection
    <3>3. <<d, i>> \in U
      BY <1>6
    <3> QED BY <3>2, <3>3
  <2>6. f \in Injection(U, W)
    BY <2>3, <2>4 DEF Injection, IsInjective
  <2>7. f \in Surjection(U, W)
    BY <2>3, <2>5 DEF Surjection
  <2> QED BY <2>6, <2>7 DEF Bijection
<1>11. Cardinality(U) = Cardinality(W)
  <2>1. IsFiniteSet(W)
    BY VisitorsFinite DEF W
  <2>2. f \in Injection(U, W) /\ f \in Surjection(U, W)
    BY <1>10 DEF Bijection
  <2> HIDE DEF f
  <2> QED BY <2>1, <2>2, FS_Injection
<1>12. W \cap Visitors(DaysOf("week", c), z) = V(b) \cap V(b - 1)
  <2> SUFFICES ASSUME NEW v \in Days
               PROVE  v \in W /\ v \in Visitors(DaysOf("week", c), z) <=> v \in V(b) /\ v \in V(b - 1)
    BY VisitorDays DEF W
  <2>1. v \in Int
    BY DEF Days
  <2>2. b \in D /\ b - 1 \in DaysOf("week", c)
    BY <1>1, <1>2
  <2>3. v \in V(b) => v \in W
    BY <2>2 DEF Visitors, W
  <2>4. v \in V(b - 1) => v \in Visitors(DaysOf("week", c), z)
    BY <2>2 DEF Visitors
  <2>5. ASSUME v \in W, v \in Visitors(DaysOf("week", c), z)
        PROVE  v \in V(b) /\ v \in V(b - 1)
    <3>1. PICK e \in raw : e[1] = v /\ Local(e, z) \in {v, v + 1} \cap D
      BY <2>5, VisitorDays DEF W
    <3>2. PICK x \in raw : x[1] = v /\ Local(x, z) \in {v, v + 1} \cap DaysOf("week", c)
      BY <2>5, VisitorDays
    <3>3. Local(e, z) >= b /\ Local(x, z) <= b - 1
      BY <3>1, <3>2, <1>1, <1>2
    <3>4. Local(e, z) = b /\ Local(x, z) = b - 1
      BY <3>1, <3>2, <3>3, <2>1
    <3> QED BY <3>1, <3>2, <3>4 DEF Visitors
  <2> QED BY <2>3, <2>4, <2>5
<1>13. row["day"][b].carried = Cardinality(V(b) \cap V(b - 1))
  BY <1>1, <1>3
<1> QED BY <1>11, <1>12, <1>13 DEF Derived, Truth, U, W, D

-----------------------------------------------------------------------------
(***************************************************************************)
(* The roll-ups: what a pass r knows, and what the tables hold.            *)
(***************************************************************************)
Aligned(g, d) == Bucket(g, d) = d
Covers(w, g, b) == w.from <= b /\ After(g, b) <= w.through
Clean(g) == g \notin clearing \cup strays
Agrees(z, g) == cover[g] = NoCover \/ cover[g].zone = z

\* A row is right, or due to be rewritten, or due to be pruned.
Good(g, b, z) == \/ b \in owed[g]
                 \/ row[g][b] = Truth(g, b, z)
                 \/ g = "hour" /\ b < today - Retention

\* Nothing is known of a bucket outside of the pass's days but that it is not owed to.
Blank(g, b, z) == \/ b \in owed[g]
                  \/ Truth(g, b, z) = Zero
                  \/ g = "hour" /\ b < today - Retention
                  \/ Agrees(z, g) /\ (row[g][b] = Truth(g, b, z) \/ ~Clean(g))

Resets(r) == r.at \in {"rows", "state"} /\ ~r.rebuild
Building(r) == r.at \in {"build", "read", "bank"}
InZone(r) == r.at \in {"window", "build", "read", "bank", "daily"} \/ Resets(r)
BuiltBy(r) == Earlier(r.next, Bucket(r.grain, r.today))

TimeInv ==
    /\ \A e \in raw : e[1] + e[2] <= today
    /\ \A g \in Grains : /\ cover[g].through <= today
                         /\ cover[g] # NoCover => Aligned(g, cover[g].through)
                         /\ cover[g].zone = -1 => cover[g] = NoCover
    /\ cover["day"].from <= cover["day"].through
    /\ \A d \in owed["day"] : Bucket("week", d) \in owed["week"]

\* What a pass keeps of its range, whatever the others do.
PassOK(r) ==
    /\ r.today <= today
    /\ InZone(r) =>
          /\ ~r.rebuild /\ 1 <= r.first /\ r.first <= r.today
          /\ r.daily # NoCover => r.daily.zone = r.zone /\ r.grain # "day"
          /\ r.grain = "week" => r.daily # NoCover
    /\ r.at = "daily" => r.grain = "day"
    /\ Building(r) \/ Resets(r) =>
          /\ r.to = (IF r.grain = "day" THEN r.today + 1 ELSE Bucket(r.grain, r.today))
          /\ 1 <= r.from /\ r.from <= r.next /\ r.next <= r.to /\ r.from < r.to
          /\ Aligned(r.grain, r.from) /\ Aligned(r.grain, r.next)
          /\ r.grain = "day" => r.from < r.today \/ r.from <= r.first
          /\ r.grain = "week" => r.daily.from <= r.from
    /\ Resets(r) => r.next = r.from
    /\ r.at = "build" => r.next < r.to
    /\ r.at = "bank" => /\ r.from < BuiltBy(r) /\ r.seen.through <= today
                        /\ r.seen # NoCover => Aligned(r.grain, r.seen.through)

\* What it relies on the others for.
Zoned(r) ==
    /\ Building(r) => Agrees(r.zone, r.grain)
    /\ Building(r) /\ cover[r.grain] = NoCover /\ r.grain \notin strays =>
          bare[r.grain] \subseteq {r.zone}
    /\ Resets(r) => ~Agrees(r.zone, r.grain)
    /\ r.at = "daily" => Agrees(r.zone, "day")
Cleared(r) == r.at = "state" => /\ r.grain \in clearing /\ bare[r.grain] = {}
                                /\ \A b \in Days : row[r.grain][b] = Zero
Made(r) == Building(r) /\ Clean(r.grain) => \A b \in Buckets(r.grain) :
    r.from <= b /\ After(r.grain, b) <= r.next => Good(r.grain, b, r.zone)
Edges(r) == InZone(r) => \A g \in Grains : \A b \in Buckets(g) :
    After(g, b) <= r.first \/ b > r.today => Blank(g, b, r.zone)
Seen(r) == r.at = "bank" /\ r.seen # NoCover =>
    /\ r.seen.zone = r.zone
    /\ Clean(r.grain) => \A b \in Buckets(r.grain) :
          Covers(r.seen, r.grain, b) => Good(r.grain, b, r.zone)
    /\ r.grain = "day" => /\ cover["day"] # NoCover
                          /\ cover["day"].from <= r.seen.through
                          /\ r.seen.from <= cover["day"].through
Daily(r) == Clean("day") =>
    /\ r.at = "daily" => \A d \in Days :
          cover["day"] = NoCover \/ cover["day"].from <= d => Good("day", d, r.zone)
    /\ InZone(r) /\ r.daily # NoCover => \A d \in Days :
          r.daily.from <= d => Good("day", d, r.zone)
Knows(r) == Zoned(r) /\ Cleared(r) /\ Made(r) /\ Edges(r) /\ Seen(r) /\ Daily(r)

\* What two passes are to each other.
Banks(r) == r.at = "bank" /\ r.grain = "day" /\ r.seen # NoCover
Apart(r, s) == r.at = "state" => s.at = "idle" \/ (s.at = "rows" /\ s.rebuild)
Pair(r, s) == /\ InZone(r) /\ InZone(s) => r.zone = s.zone
              /\ Banks(r) /\ Banks(s) => r.seen.from <= s.seen.through

\* The zones the rows of a grain may be of.
Spoken(g) == IF cover[g] = NoCover THEN bare[g] ELSE {cover[g].zone}
Rows(g) == /\ g \notin strays => \A b \in Buckets(g) : \A z \in Spoken(g) :
                row[g][b] = Zero \/ Good(g, b, z)
           /\ Spoken(g) = {} => \A b \in Days : row[g][b] = Zero
Vouched(g) == Clean(g) /\ cover[g] # NoCover => \A b \in Buckets(g) :
    Covers(cover[g], g, b) => Good(g, b, cover[g].zone)

Tables == \A g \in Grains : Rows(g) /\ Vouched(g)
Passes == \A p \in Builders : \A r \in Pass : pass[p] = r => Knows(r)
Pairs == \A p, q \in Builders : \A r, s \in Pass :
             p # q /\ pass[p] = r /\ pass[q] = s => Pair(r, s) /\ Apart(r, s)
Ranges == \A p \in Builders : \A r \in Pass : pass[p] = r => PassOK(r)

Basics == RollupTypeOK /\ TimeInv /\ Ranges
RollupInv == Basics /\ (~overlapped => Tables /\ Passes /\ Pairs)

-----------------------------------------------------------------------------
(***************************************************************************)
(* Types, and what a pass keeps of its range.                              *)
(***************************************************************************)

LEMMA PassFacts ==
  ASSUME NEW r \in Pass
  PROVE  /\ r.rebuild \in BOOLEAN /\ r.grain \in Grains /\ r.zone \in Zones
         /\ r.zone \in Int /\ r.today \in Int /\ 0 <= r.today /\ r.today <= MaxDay
         /\ r.first \in Int /\ r.from \in Int /\ r.to \in Int /\ r.next \in Int
         /\ r.daily \in Cover /\ r.seen \in Cover
<1> MaxDay \in Nat /\ Week \in Nat
  BY RollupAssumption
<1> QED BY DEF Pass, Zones, Days

LEMMA CoverFacts ==
  ASSUME NEW w \in Cover
  PROVE  /\ w.zone \in Int /\ w.zone \in Zones \cup {-1}
         /\ w.from \in Int /\ 0 <= w.from /\ w.through \in Int /\ 0 <= w.through
         /\ w # NoCover <=> (w.zone # -1 \/ w.from # 0 \/ w.through # 0)
<1> MaxDay \in Nat /\ Week \in Nat
  BY RollupAssumption
<1> QED BY DEF Cover, Zones, Days, NoCover

LEMMA NumberFacts ==
  /\ MaxDay \in Nat /\ MaxDay \in Int /\ Week \in Nat /\ Week \in Int /\ 1 <= Week
  /\ ReworkDays \in Int /\ 1 <= ReworkDays /\ Reach \in Int /\ 1 <= Reach
  /\ Retention \in Int /\ 1 <= Retention /\ FirstDay \in Days /\ MaxFaults \in Nat
  BY RollupAssumption

LEMMA NoPassFacts ==
  /\ NoPass \in Pass /\ NoCover \in Cover
  /\ NoPass.at = "idle" /\ NoPass.today = 0
<1> MaxDay \in Nat /\ Week \in Nat
  BY RollupAssumption
<1>1. NoCover \in Cover
  BY DEF NoCover, Cover
<1> QED BY <1>1 DEF NoPass, Pass, Grains, Zones

\* One pass moves.
LEMMA PassMoves ==
  ASSUME RollupTypeOK, NEW p \in Builders, NEW s \in Pass, pass' = [pass EXCEPT ![p] = s]
  PROVE  /\ pass' \in [Builders -> Pass] /\ pass'[p] = s
         /\ \A q \in Builders : q # p => pass'[q] = pass[q]
  BY DEF RollupTypeOK

LEMMA RangesKept ==
  ASSUME RollupTypeOK, Ranges, NEW p \in Builders, NEW s \in Pass,
         pass' = [pass EXCEPT ![p] = s], PassOK(s)', today' \in Int, today <= today'
  PROVE  Ranges'
<1> SUFFICES ASSUME NEW q \in Builders, NEW r \in Pass, pass'[q] = r PROVE PassOK(r)'
  BY DEF Ranges
<1>1. CASE q = p
  BY <1>1, PassMoves
<1>2. CASE q # p
  <2>1. PassOK(r)
    BY <1>2, PassMoves DEF Ranges
  <2>2. today \in Int /\ r.today \in Int /\ r.seen \in Cover
    BY PassFacts DEF RollupTypeOK, Days
  <2>3. r.seen.through \in Int
    BY <2>2, CoverFacts
  <2> QED BY <2>1, <2>2, <2>3 DEF PassOK
<1> QED BY <1>1, <1>2

\* A step that writes neither events nor tables.
LEMMA PassStep ==
  ASSUME Basics, NEW p \in Builders, NEW s \in Pass,
         pass' = [pass EXCEPT ![p] = s], PassOK(s),
         UNCHANGED <<truth, row, cover, owed, missed>>,
         swept' \in BOOLEAN, overlapped' \in BOOLEAN, faults' \in Nat,
         clearing' \subseteq Grains, strays' \subseteq Grains, bare' = bare
  PROVE  Basics'
<1> USE DEF Basics
<1>0. today' = today /\ raw' = raw /\ cover' = cover /\ owed' = owed
  BY DEF truth
<1>1. PassOK(s)'
  BY <1>0 DEF PassOK
<1>2. Ranges'
  <2>1. today \in Int
    BY DEF RollupTypeOK, Days
  <2>2. today' \in Int /\ today <= today'
    BY <1>0, <2>1
  <2> QED BY <1>1, <2>2, RangesKept
<1>3. TimeInv'
  BY <1>0 DEF TimeInv
<1>4. RollupTypeOK'
  BY PassMoves DEF RollupTypeOK, truth
<1> QED BY <1>2, <1>3, <1>4

LEMMA NextGrainFacts ==
  ASSUME NEW r \in Pass
  PROVE  /\ NextGrain(r) \in Pass /\ NextGrain(r).today = r.today
         /\ r.grain = "day" => /\ NextGrain(r).at = "daily" /\ NextGrain(r).grain = "day"
                               /\ NextGrain(r).rebuild = r.rebuild
                               /\ NextGrain(r).zone = r.zone /\ NextGrain(r).first = r.first
                               /\ NextGrain(r).daily = r.daily
         /\ r.grain = "hour" /\ r.daily # NoCover =>
               /\ NextGrain(r).at = "window" /\ NextGrain(r).grain = "week"
               /\ NextGrain(r).rebuild = r.rebuild
               /\ NextGrain(r).zone = r.zone /\ NextGrain(r).first = r.first
               /\ NextGrain(r).daily = r.daily
         /\ r.grain # "day" /\ ~(r.grain = "hour" /\ r.daily # NoCover) =>
               NextGrain(r).at = "prune" /\ NextGrain(r).rebuild = FALSE
<1> DEFINE d == Done(r)
<1>0. MaxDay \in Nat /\ Week \in Nat /\ NoCover \in Cover /\ NoPass \in Pass
  BY NumberFacts, NoPassFacts
<1>1. d \in Pass /\ d.today = r.today /\ d.rebuild = r.rebuild /\ d.zone = r.zone
      /\ d.first = r.first /\ d.daily = r.daily /\ d.grain = r.grain
  <2>1. 0 \in 0..(MaxDay + Week)
    BY <1>0
  <2>2. d \in Pass
    BY <1>0, <2>1 DEF Done, Pass
  <2> QED BY <2>2 DEF Done, Pass
<1> HIDE DEF d
<1>2. CASE r.grain = "day"
  <2>1. NextGrain(r) = [d EXCEPT !.at = "daily"]
    BY <1>2 DEF NextGrain, d
  <2> QED BY <2>1, <1>1, <1>2 DEF Pass
<1>3. CASE r.grain = "hour" /\ r.daily # NoCover
  <2>1. NextGrain(r) = [d EXCEPT !.at = "window", !.grain = "week"]
    BY <1>3 DEF NextGrain, d
  <2> QED BY <2>1, <1>1, <1>3 DEF Pass, Grains
<1>4. CASE r.grain # "day" /\ ~(r.grain = "hour" /\ r.daily # NoCover)
  <2>1. NextGrain(r) = [NoPass EXCEPT !.at = "prune", !.today = r.today]
    BY <1>4 DEF NextGrain
  <2> QED BY <2>1, <1>0, <1>4 DEF NoPass, Pass
<1> QED BY <1>2, <1>3, <1>4

\* Where a pass begins and ends to rewrite a grain.
LEMMA WindowRange ==
  ASSUME Basics, NEW p \in Builders, NEW r \in Pass, pass[p] = r, r.at = "window"
  PROVE  /\ From(p) \in Int /\ 1 <= From(p) /\ Aligned(r.grain, From(p))
         /\ To(p) = (IF r.grain = "day" THEN r.today + 1 ELSE Bucket(r.grain, r.today))
         /\ To(p) \in Int /\ To(p) <= r.today + 1
         /\ r.grain = "day" => From(p) < To(p) /\ (From(p) < r.today \/ From(p) <= r.first)
         /\ r.grain = "week" => r.daily.from <= From(p)
<1> DEFINE g == r.grain
           c == cover[g]
<1>1. /\ g \in Grains /\ r.today \in Int /\ r.first \in Int /\ r.daily \in Cover
      /\ 1 <= r.first /\ r.first <= r.today /\ 1 <= r.today
  <2>1. PassOK(r)
    BY DEF Basics, Ranges
  <2> QED BY <2>1, PassFacts DEF PassOK, InZone
<1>2. c \in Cover /\ c.from \in Int /\ c.through \in Int
  <2>1. c \in Cover
    BY <1>1 DEF Basics, RollupTypeOK
  <2> QED BY <2>1, CoverFacts
<1>d. r.daily.from \in Int
  BY <1>1, CoverFacts
<1>n. ReworkDays \in Int /\ 1 <= ReworkDays /\ Reach \in Int /\ 1 <= Reach /\ Retention \in Int
  BY NumberFacts
<1> HIDE DEF g, c
<1>3. Oldest(p) \in Int /\ 1 <= Oldest(p) /\ (g = "day" => Oldest(p) = r.first)
  BY <1>1, <1>n DEF Oldest, Later, g
<1>4. ASSUME NEW d \in Int
      PROVE  BackTo(p, d) \in Int /\ 1 <= BackTo(p, d)
             /\ (g = "day" => BackTo(p, d) = Later(r.first, d - Reach))
  BY <1>3, <1>n DEF BackTo, Later, g
<1>5. Bucket(g, r.today - ReworkDays) \in Int /\ Bucket(g, r.today - ReworkDays) < r.today
  <2>1. g \in Grains /\ r.today - ReworkDays \in Int /\ r.today - ReworkDays < r.today
    BY <1>1, <1>n DEF g
  <2>2. Bucket(g, r.today - ReworkDays) \in Int
        /\ Bucket(g, r.today - ReworkDays) <= r.today - ReworkDays
    BY <2>1, BucketFacts
  <2> QED BY <2>1, <2>2, <1>1
<1>6. Rework(p, c) \in Int /\ Rework(p, c) < r.today
  BY <1>1, <1>2, <1>5 DEF Rework, Earlier, g
<1>7. ExtendFrom(p, c) \in Int /\ 1 <= ExtendFrom(p, c)
      /\ (g = "day" => ExtendFrom(p, c) < r.today \/ ExtendFrom(p, c) <= r.first)
  <2>1. BackTo(p, c.from) \in Int /\ 1 <= BackTo(p, c.from)
    BY <1>2, <1>4
  <2> QED BY <1>1, <1>2, <1>3, <1>6, <2>1 DEF ExtendFrom, Later, Earlier, g
<1>8. WindowStart(p) \in Int /\ 1 <= WindowStart(p)
      /\ (g = "day" => WindowStart(p) < r.today \/ WindowStart(p) <= r.first)
  <2>1. BackTo(p, r.today) \in Int /\ 1 <= BackTo(p, r.today)
        /\ (g = "day" => BackTo(p, r.today) < r.today \/ BackTo(p, r.today) <= r.first)
    BY <1>1, <1>4, <1>n DEF Later
  <2>2. WindowStart(p) \in {ExtendFrom(p, c), BackTo(p, r.today)}
    BY DEF WindowStart, c, g
  <2> QED BY <1>7, <2>1, <2>2
<1>9. ASSUME g = "week"
      PROVE  From(p) \in Int /\ 1 <= From(p) /\ Bucket("week", From(p)) = From(p)
             /\ r.daily.from <= From(p)
  <2> DEFINE d == Later(WindowStart(p), Later(r.daily.from, r.first))
             b == Bucket("week", d)
  <2>1. d \in Int /\ 1 <= d /\ r.daily.from <= d
    BY <1>1, <1>d, <1>8 DEF Later
  <2>2. From(p) = FirstWhole(p, d)
    BY <1>9 DEF From, g
  <2> HIDE DEF d
  <2>3. b \in Int /\ 1 <= b /\ Bucket("week", b) = b /\ b <= d /\ d < After("week", b)
    BY <2>1, BucketFacts, BucketPositive DEF Grains
  <2> HIDE DEF b
  <2>4. After("week", b) \in Int /\ Bucket("week", After("week", b)) = After("week", b)
    BY <2>3, BucketFacts, AfterAligned DEF Grains
  <2>5. WholeBucket("week", d) \in Int /\ d <= WholeBucket("week", d)
        /\ Bucket("week", WholeBucket("week", d)) = WholeBucket("week", d)
    BY <2>1, <2>3, <2>4 DEF WholeBucket, b
  <2>6. CASE r.daily.from = 0
    BY <2>2, <2>3, <2>6 DEF FirstWhole, b
  <2>7. CASE r.daily.from # 0
    <3>1. From(p) = WholeBucket("week", d)
      BY <2>2, <2>7 DEF FirstWhole
    <3> QED BY <2>1, <2>5, <3>1, <1>d
  <2> QED BY <2>6, <2>7
<1>10. ASSUME g # "week"
       PROVE  From(p) = WindowStart(p) /\ Bucket(g, From(p)) = From(p)
  <2>1. From(p) = WindowStart(p)
    BY <1>10 DEF From, g
  <2> QED BY <2>1, <1>10 DEF Bucket
<1>11. Bucket(g, r.today) \in Int /\ Bucket(g, r.today) <= r.today
  BY <1>1, BucketFacts DEF g
<1>12. To(p) = (IF g = "day" THEN r.today + 1 ELSE Bucket(g, r.today))
  BY DEF To, g
<1>13. g = "day" => From(p) < To(p) /\ (From(p) < r.today \/ From(p) <= r.first)
  BY <1>1, <1>8, <1>10, <1>12
<1>14. To(p) \in Int /\ To(p) <= r.today + 1
  BY <1>1, <1>11, <1>12
<1>15. From(p) \in Int /\ 1 <= From(p) /\ Bucket(g, From(p)) = From(p)
  BY <1>8, <1>9, <1>10
<1> QED BY <1>9, <1>12, <1>13, <1>14, <1>15 DEF Aligned, g

-----------------------------------------------------------------------------
(***************************************************************************)
(* What the steps of one pass leave to the others.                         *)
(***************************************************************************)

\* Nothing is asked of a pass that is not between its first window and its last.
LEMMA NothingKnown ==
  ASSUME NEW s \in Pass, ~InZone(s), s.at # "state"
  PROVE  Knows(s) /\ Knows(s)'
  BY DEF Knows, Zoned, Cleared, Made, Edges, Seen, Daily, InZone, Building, Resets

\* A step that writes no table.
LEMMA KnowsKept ==
  ASSUME NEW t \in Pass, UNCHANGED <<today, raw, row, owed, cover, clearing, bare>>,
         strays \subseteq strays', Knows(t)
  PROVE  Knows(t)'
<1>1. \A g, b, z : Good(g, b, z) <=> Good(g, b, z)'
  BY DEF Good, Truth, Visitors, Local
<1>2. \A g : Clean(g)' => Clean(g)
  BY DEF Clean
<1>3. \A g, z : Agrees(z, g) <=> Agrees(z, g)'
  BY DEF Agrees
<1>4. \A g, b, z : Blank(g, b, z) => Blank(g, b, z)'
  BY <1>2, <1>3 DEF Blank, Truth, Visitors, Local
<1>5. Zoned(t)'
  BY <1>3 DEF Knows, Zoned
<1>6. Cleared(t)'
  BY DEF Knows, Cleared
<1>7. Made(t)'
  BY <1>1, <1>2 DEF Knows, Made
<1>8. Edges(t)'
  BY <1>4 DEF Knows, Edges
<1>9. Seen(t)'
  BY <1>1, <1>2 DEF Knows, Seen
<1>10. Daily(t)'
  BY <1>1, <1>2 DEF Knows, Daily
<1> QED BY <1>5, <1>6, <1>7, <1>8, <1>9, <1>10 DEF Knows

LEMMA TablesKept ==
  ASSUME UNCHANGED <<today, raw, row, owed, cover, clearing, bare>>,
         strays \subseteq strays', Tables
  PROVE  Tables'
<1>1. \A g, b, z : Good(g, b, z) <=> Good(g, b, z)'
  BY DEF Good, Truth, Visitors, Local
<1>2. \A g : Clean(g)' => Clean(g)
  BY DEF Clean
<1>3. \A g : Spoken(g)' = Spoken(g)
  BY DEF Spoken
<1>4. ASSUME NEW g \in Grains PROVE Rows(g)'
  <2>1. Rows(g)
    BY DEF Tables
  <2>2. \A z : z \in Spoken(g) <=> z \in Spoken(g)'
    BY <1>3
  <2> QED BY <2>1, <2>2, <1>1, <1>3 DEF Rows
<1>5. ASSUME NEW g \in Grains PROVE Vouched(g)'
  <2>1. Vouched(g)
    BY DEF Tables
  <2>2. PICK w : cover[g] = w
    OBVIOUS
  <2>3. cover'[g] = w
    BY <2>2
  <2> QED BY <2>1, <2>2, <2>3, <1>1, <1>2 DEF Vouched
<1> QED BY <1>4, <1>5 DEF Tables

LEMMA PassesKept ==
  ASSUME RollupTypeOK, Passes, Pairs, NEW p \in Builders, NEW r \in Pass, pass[p] = r,
         NEW s \in Pass, pass' = [pass EXCEPT ![p] = s], Knows(s)',
         \A q \in Builders : \A t \in Pass : q # p /\ pass[q] = t /\ Knows(t) => Knows(t)',
         \A q \in Builders : \A t \in Pass :
            q # p /\ pass[q] = t /\ Pair(r, t) /\ Pair(t, r) /\ Apart(r, t) /\ Apart(t, r) /\ Knows(t)
               => Pair(s, t) /\ Pair(t, s) /\ Apart(s, t) /\ Apart(t, s)
  PROVE  Passes' /\ Pairs'
<1>0. pass'[p] = s /\ \A q \in Builders : q # p => pass'[q] = pass[q]
  BY PassMoves
<1>1. Passes'
  <2> SUFFICES ASSUME NEW q \in Builders, NEW t \in Pass, pass'[q] = t PROVE Knows(t)'
    BY DEF Passes
  <2>1. CASE q = p
    BY <2>1, <1>0
  <2>2. CASE q # p
    <3>1. pass[q] = t
      BY <2>2, <1>0
    <3>2. Knows(t)
      BY <3>1 DEF Passes
    <3> QED BY <2>2, <3>1, <3>2
  <2> QED BY <2>1, <2>2
<1>2. Pairs'
  <2> SUFFICES ASSUME NEW a \in Builders, NEW b \in Builders, NEW x \in Pass, NEW y \in Pass,
                      a # b, pass'[a] = x, pass'[b] = y
               PROVE  Pair(x, y) /\ Apart(x, y)
    BY DEF Pairs, Pair, Apart, Banks, InZone, Resets
  <2>1. ASSUME NEW q \in Builders, NEW t \in Pass, q # p, pass[q] = t
        PROVE  Pair(s, t) /\ Pair(t, s) /\ Apart(s, t) /\ Apart(t, s)
    <3>1. Pair(r, t) /\ Pair(t, r) /\ Apart(r, t) /\ Apart(t, r)
      BY <2>1 DEF Pairs
    <3>2. Knows(t)
      BY <2>1 DEF Passes
    <3> QED BY <2>1, <3>1, <3>2
  <2>2. CASE a = p
    BY <2>1, <2>2, <1>0
  <2>3. CASE b = p
    BY <2>1, <2>3, <1>0
  <2>4. CASE a # p /\ b # p
    BY <2>4, <1>0 DEF Pairs
  <2> QED BY <2>2, <2>3, <2>4
<1> QED BY <1>1, <1>2

\* What every pass that gets on with r keeps.
LEMMA PassesOn ==
  ASSUME RollupTypeOK, Passes, Pairs, NEW p \in Builders, NEW r \in Pass, pass[p] = r,
         NEW s \in Pass, pass' = [pass EXCEPT ![p] = s], Knows(s)',
         \A t \in Pass :
            Pair(r, t) /\ Pair(t, r) /\ Apart(r, t) /\ Apart(t, r) /\ Knows(t)
               => Knows(t)' /\ Pair(s, t) /\ Pair(t, s) /\ Apart(s, t) /\ Apart(t, s)
  PROVE  Passes' /\ Pairs'
<1>1. ASSUME NEW q \in Builders, NEW t \in Pass, q # p, pass[q] = t
      PROVE  Knows(t)' /\ Pair(s, t) /\ Pair(t, s) /\ Apart(s, t) /\ Apart(t, s)
  <2>1. Pair(r, t) /\ Pair(t, r) /\ Apart(r, t) /\ Apart(t, r)
    BY <1>1 DEF Pairs
  <2>2. Knows(t)
    BY <1>1 DEF Passes
  <2> QED BY <2>1, <2>2
<1>2. pass'[p] = s /\ \A q \in Builders : q # p => pass'[q] = pass[q]
  BY PassMoves
<1>3. Passes'
  <2> SUFFICES ASSUME NEW q \in Builders, NEW t \in Pass, pass'[q] = t PROVE Knows(t)'
    BY DEF Passes
  <2>1. CASE q = p
    BY <2>1, <1>2
  <2>2. CASE q # p
    BY <2>2, <1>1, <1>2
  <2> QED BY <2>1, <2>2
<1>4. Pairs'
  <2> SUFFICES ASSUME NEW a \in Builders, NEW b \in Builders, NEW x \in Pass, NEW y \in Pass,
                      a # b, pass'[a] = x, pass'[b] = y
               PROVE  Pair(x, y) /\ Apart(x, y)
    BY DEF Pairs, Pair, Apart, Banks, InZone, Resets
  <2>1. CASE a = p
    BY <2>1, <1>1, <1>2
  <2>2. CASE b = p
    BY <2>2, <1>1, <1>2
  <2>3. CASE a # p /\ b # p
    BY <2>3, <1>2 DEF Pairs
  <2> QED BY <2>1, <2>2, <2>3
<1> QED BY <1>3, <1>4

\* A pass that goes on in its zone.
LEMMA PairGoesOn ==
  ASSUME NEW r \in Pass, NEW s \in Pass, NEW t \in Pass,
         InZone(r) \/ r.at \in {"prune", "pruned"},
         InZone(s) => InZone(r) /\ s.zone = r.zone, s.at # "state",
         Banks(s) => Banks(r) /\ s.seen = r.seen,
         Pair(r, t), Pair(t, r), Apart(t, r)
  PROVE  Pair(s, t) /\ Pair(t, s) /\ Apart(s, t) /\ Apart(t, s)
  BY DEF Pair, Apart, InZone, Resets

\* A pass that is nowhere.
LEMMA PairGone ==
  ASSUME NEW s \in Pass, NEW t \in Pass, s.at = "idle" \/ (s.at = "rows" /\ s.rebuild)
  PROVE  Pair(s, t) /\ Pair(t, s) /\ Apart(s, t) /\ Apart(t, s)
  BY DEF Pair, Apart, InZone, Resets, Banks

\* A step of one pass when no other is on its way.
LEMMA PassesAtRest ==
  ASSUME RollupTypeOK, NEW p \in Builders, NEW s \in Pass, pass' = [pass EXCEPT ![p] = s],
         Knows(s)',
         \A q \in Builders : q # p =>
            pass[q].at = "idle" \/ (pass[q].at = "rows" /\ pass[q].rebuild)
  PROVE  Passes' /\ Pairs'
<1>0. pass'[p] = s /\ \A q \in Builders : q # p => pass'[q] = pass[q]
  BY PassMoves
<1>1. ASSUME NEW q \in Builders, NEW t \in Pass, q # p, pass'[q] = t
      PROVE  t.at = "idle" \/ (t.at = "rows" /\ t.rebuild)
  BY <1>0, <1>1
<1>2. Passes'
  <2> SUFFICES ASSUME NEW q \in Builders, NEW t \in Pass, pass'[q] = t PROVE Knows(t)'
    BY DEF Passes
  <2>1. CASE q = p
    BY <2>1, <1>0
  <2>2. CASE q # p
    <3>1. ~InZone(t) /\ t.at # "state"
      BY <1>1, <2>2 DEF InZone, Resets
    <3> QED BY <3>1, NothingKnown
  <2> QED BY <2>1, <2>2
<1>3. Pairs'
  <2> SUFFICES ASSUME NEW a \in Builders, NEW b \in Builders, NEW x \in Pass, NEW y \in Pass,
                      a # b, pass'[a] = x, pass'[b] = y
               PROVE  Pair(x, y) /\ Apart(x, y)
    BY DEF Pairs, Pair, Apart, Banks, InZone, Resets
  <2>1. CASE a # p
    <3>1. x.at = "idle" \/ (x.at = "rows" /\ x.rebuild)
      BY <1>1, <2>1
    <3> QED BY <3>1, PairGone
  <2>2. CASE b # p
    <3>1. y.at = "idle" \/ (y.at = "rows" /\ y.rebuild)
      BY <1>1, <2>2
    <3> QED BY <3>1, PairGone
  <2> QED BY <2>1, <2>2
<1> QED BY <1>2, <1>3

\* A step of one pass that writes no table.
LEMMA SteadyStep ==
  ASSUME RollupInv, NEW p \in Builders, NEW r \in Pass, pass[p] = r, NEW s \in Pass,
         pass' = [pass EXCEPT ![p] = s], PassOK(s),
         UNCHANGED <<truth, row, cover, owed, clearing, bare, missed>>,
         strays \subseteq strays', strays' \subseteq Grains,
         swept' \in BOOLEAN, overlapped' \in BOOLEAN, overlapped => overlapped', faults' \in Nat,
         ~overlapped' /\ Tables /\ Passes /\ Pairs => Knows(s)',
         \A q \in Builders : \A t \in Pass :
            /\ ~overlapped' /\ q # p /\ pass[q] = t
            /\ Pair(r, t) /\ Pair(t, r) /\ Apart(r, t) /\ Apart(t, r) /\ Knows(t)
            => Pair(s, t) /\ Pair(t, s) /\ Apart(s, t) /\ Apart(t, s)
  PROVE  RollupInv'
<1>0. UNCHANGED <<today, raw, row, owed, cover, clearing, bare>>
  BY DEF truth
<1>1. Basics'
  <2>1. clearing' \subseteq Grains
    BY <1>0 DEF RollupInv, Basics, RollupTypeOK
  <2> QED BY <2>1, PassStep DEF RollupInv
<1>2. ASSUME ~overlapped' PROVE Tables' /\ Passes' /\ Pairs'
  <2>1. Tables /\ Passes /\ Pairs /\ RollupTypeOK
    BY <1>2 DEF RollupInv, Basics
  <2>2. Tables'
    BY <1>0, <2>1, TablesKept
  <2>3. Knows(s)'
    BY <1>2, <2>1
  <2>4. \A t \in Pass : Knows(t) => Knows(t)'
    BY <1>0, KnowsKept
  <2>5. \A q \in Builders : \A t \in Pass :
            q # p /\ pass[q] = t /\ Pair(r, t) /\ Pair(t, r) /\ Apart(r, t) /\ Apart(t, r) /\ Knows(t)
               => Pair(s, t) /\ Pair(t, s) /\ Apart(s, t) /\ Apart(t, s)
    BY <1>2
  <2>6. Passes' /\ Pairs'
    BY <2>1, <2>3, <2>4, <2>5, PassesKept
  <2> QED BY <2>2, <2>6
<1> QED BY <1>1, <1>2 DEF RollupInv

-----------------------------------------------------------------------------
(***************************************************************************)
(* The steps that write no table.                                          *)
(***************************************************************************)

LEMMA StartRebuildKeeps ==
  ASSUME RollupInv, NEW p \in Builders, StartRebuild(p)
  PROVE  RollupInv'
<1>1. PICK r \in Pass : pass[p] = r
  BY DEF RollupInv, Basics, RollupTypeOK
<1> DEFINE s == [NoPass EXCEPT !.at = "rows", !.rebuild = TRUE]
<1>2. s \in Pass /\ s.at = "rows" /\ s.rebuild /\ s.today = 0
  BY NoPassFacts DEF NoPass, Pass
<1>3. pass' = [pass EXCEPT ![p] = s]
  BY DEF StartRebuild
<1> HIDE DEF s
<1>4. PassOK(s) /\ ~InZone(s)
  <2>1. 0 <= today
    BY DEF RollupInv, Basics, RollupTypeOK, Days
  <2> QED BY <1>2, <2>1 DEF PassOK, InZone, Building, Resets
<1>5. Knows(s)'
  BY <1>2, <1>4, NothingKnown
<1>6. \A t \in Pass : Pair(s, t) /\ Pair(t, s) /\ Apart(s, t) /\ Apart(t, s)
  BY <1>2, PairGone
<1>7. /\ UNCHANGED <<truth, row, cover, owed, clearing, bare, missed>>
      /\ strays \subseteq strays' /\ strays' \subseteq Grains
      /\ swept' \in BOOLEAN /\ overlapped' \in BOOLEAN /\ faults' \in Nat
      /\ (overlapped => overlapped')
  BY DEF StartRebuild, Fault, origin, RollupInv, Basics, RollupTypeOK
<1> QED BY <1>1, <1>2, <1>3, <1>4, <1>5, <1>6, <1>7, SteadyStep

LEMMA CrashKeeps ==
  ASSUME RollupInv, NEW p \in Builders, Crash(p)
  PROVE  RollupInv'
<1>1. PICK r \in Pass : pass[p] = r
  BY DEF RollupInv, Basics, RollupTypeOK
<1>2. NoPass \in Pass /\ NoPass.at = "idle" /\ NoPass.today = 0
  BY NoPassFacts
<1>3. pass' = [pass EXCEPT ![p] = NoPass]
  BY DEF Crash
<1>4. PassOK(NoPass) /\ ~InZone(NoPass)
  <2>1. 0 <= today
    BY DEF RollupInv, Basics, RollupTypeOK, Days
  <2> QED BY <1>2, <2>1 DEF PassOK, InZone, Building, Resets
<1>5. Knows(NoPass)'
  BY <1>2, <1>4, NothingKnown
<1>6. \A t \in Pass : /\ Pair(NoPass, t) /\ Pair(t, NoPass)
                      /\ Apart(NoPass, t) /\ Apart(t, NoPass)
  BY <1>2, PairGone
<1>7. /\ UNCHANGED <<truth, row, cover, owed, clearing, bare, missed>>
      /\ strays \subseteq strays' /\ strays' \subseteq Grains
      /\ swept' \in BOOLEAN /\ overlapped' \in BOOLEAN /\ faults' \in Nat
      /\ (overlapped => overlapped')
  BY DEF Crash, Fault, origin, RollupInv, Basics, RollupTypeOK
<1> QED BY <1>1, <1>2, <1>3, <1>4, <1>5, <1>6, <1>7, SteadyStep

\* The first day there is.
LEMMA FirstFacts ==
  ASSUME RollupTypeOK, TimeInv, raw # {}, NEW z \in Zones
  PROVE  /\ First(z) \in Days /\ First(z) <= today
         /\ \A e \in raw : First(z) <= Local(e, z)
<1> DEFINE S == {Local(e, z) : e \in raw}
<1>1. \A e \in raw : Local(e, z) \in Int /\ 1 <= Local(e, z) /\ Local(e, z) <= today
  <2> TAKE e \in raw
  <2>1. e \in Events
    BY DEF RollupTypeOK
  <2>2. e[1] + e[2] <= today /\ today \in Int
    BY DEF TimeInv, RollupTypeOK, Days
  <2>3. e[1] \in Int /\ e[2] \in Int
    BY <2>1, EventFacts, 0 \in Zones DEF Zones
  <2> QED BY <2>1, <2>2, <2>3, EventFacts
<1>2. S \subseteq Nat /\ S # {}
  BY <1>1
<1>3. PICK m \in S : \A c \in S : ~(<<c, m>> \in OpToRel(<, Nat))
  BY <1>2, NatLessThanWellFounded, WFMin
<1>4. \A c \in S : m <= c
  <2> TAKE c \in S
  <2>1. c \in Nat /\ m \in Nat
    BY <1>2
  <2>2. ~(c < m)
    BY <1>3, <2>1 DEF OpToRel
  <2> QED BY <2>1, <2>2
<1>5. First(z) = CHOOSE d \in S : \A c \in S : d <= c
  BY DEF First
<1> HIDE DEF S
<1>6. First(z) \in S /\ \A c \in S : First(z) <= c
  BY <1>4, <1>5
<1>7. PICK e \in raw : First(z) = Local(e, z)
  BY <1>6 DEF S
<1>8. today \in Int /\ today <= MaxDay /\ MaxDay \in Int
  BY NumberFacts DEF RollupTypeOK, Days
<1>9. First(z) \in Days /\ First(z) <= today
  BY <1>1, <1>7, <1>8 DEF Days
<1> QED BY <1>6, <1>9 DEF S

LEMMA StartKeeps ==
  ASSUME RollupInv, NEW p \in Builders, Start(p)
  PROVE  RollupInv'
<1>0. /\ RollupTypeOK /\ TimeInv /\ raw # {} /\ zone \in Zones
      /\ today \in Int /\ today \in Days /\ 1 <= today
  BY NumberFacts DEF RollupInv, Basics, RollupTypeOK, Start, Days
<1>1. PICK r \in Pass : pass[p] = r
  BY <1>0 DEF RollupTypeOK
<1>a. PICK z \in Zones, d \in Days, f \in Days : z = zone /\ d = today /\ f = First(zone)
  BY <1>0, FirstFacts
<1> DEFINE s == [NoPass EXCEPT !.at = "window", !.zone = z, !.today = d, !.first = f]
<1>b. f \in 0..(MaxDay + 1)
  BY NumberFacts DEF Days
<1>2. s \in Pass /\ s.at = "window" /\ ~s.rebuild /\ s.zone = zone /\ s.today = today
      /\ s.first = f /\ s.daily = NoCover /\ s.grain = "day"
  BY <1>a, <1>b, NoPassFacts DEF NoPass, Pass
<1>3. pass' = [pass EXCEPT ![p] = s]
  BY <1>a DEF Start
<1> HIDE DEF s
<1>4. PassOK(s)
  <2>1. 1 <= f /\ f <= today
    BY <1>0, <1>a, FirstFacts DEF Days
  <2> QED BY <1>0, <1>2, <2>1 DEF PassOK, Building, Resets
<1>5. Knows(s)'
  <2>1. ASSUME NEW g \in Grains, NEW b \in Buckets(g), After(g, b) <= f \/ b > today
        PROVE  Truth(g, b, zone)' = Zero
    <3>1. b \in Int /\ After(g, b) \in Int
      BY BucketFacts DEF Buckets, Days
    <3>2. ASSUME NEW e \in raw PROVE Local(e, zone) \notin DaysOf(g, b)
      <4>1. f <= Local(e, zone) /\ e \in Events
        BY <1>0, <1>a, FirstFacts DEF RollupTypeOK
      <4>2. Local(e, zone) <= e[1] + e[2] /\ e[1] + e[2] <= today /\ Local(e, zone) \in Int
            /\ e[1] \in Int /\ e[2] \in Int
        BY <1>0, <4>1, EventFacts DEF TimeInv
      <4>3. Local(e, zone) <= today
        BY <4>2, <1>0
      <4> QED BY <2>1, <3>1, <4>1, <4>2, <4>3, <1>0 DEF DaysOf, Days
    <3>3. Truth(g, b, zone) = Zero
      BY <3>2, EmptyTruth
    <3>4. raw' = raw /\ zone' = zone
      BY DEF Start, truth
    <3> QED BY <3>3, <3>4 DEF Truth, Visitors, Local
  <2>2. Edges(s)'
    <3> SUFFICES ASSUME NEW g \in Grains, NEW b \in Buckets(g),
                        After(g, b) <= s.first \/ b > s.today
                 PROVE  Blank(g, b, s.zone)'
      BY DEF Edges
    <3>1. Truth(g, b, zone)' = Zero
      BY <1>2, <2>1
    <3>2. zone' = z /\ s.zone = z
      BY <1>2, <1>a DEF Start, truth
    <3>3. Truth(g, b, z)' = Zero
      BY <3>1, <3>2 DEF Truth, Visitors, Local
    <3> QED BY <3>2, <3>3 DEF Blank
  <2> QED BY <2>2, <1>2 DEF Knows, Zoned, Cleared, Made, Seen, Daily, InZone, Building, Resets
<1>6. ASSUME NEW q \in Builders, NEW t \in Pass, ~overlapped', q # p, pass[q] = t
      PROVE  Pair(s, t) /\ Pair(t, s) /\ Apart(s, t) /\ Apart(t, s)
  <2>1. t.at = "idle" \/ (t.zone = zone /\ ~t.rebuild /\ t.at # "state")
    BY <1>6 DEF Start, PassAt
  <2> QED BY <2>1, <1>2 DEF Pair, Apart, Banks, InZone, Resets
<1>7. /\ UNCHANGED <<truth, row, cover, owed, clearing, bare, missed>>
      /\ strays \subseteq strays' /\ strays' \subseteq Grains
      /\ swept' \in BOOLEAN /\ (overlapped => overlapped')
  BY DEF Start, origin, RollupInv, Basics, RollupTypeOK
<1>8. overlapped' \in BOOLEAN /\ faults' \in Nat
  <2>1. overlapped \in BOOLEAN /\ faults \in Nat
    BY <1>0 DEF RollupTypeOK
  <2> QED BY <2>1 DEF Start, Fault
<1> QED BY <1>1, <1>2, <1>3, <1>4, <1>5, <1>6, <1>7, <1>8, SteadyStep

LEMMA DayBuckets ==
  /\ \A d \in Days : d \in Buckets("day") /\ After("day", d) = d + 1
  /\ \A g, b : b \in Buckets(g) <=> b \in Days /\ Aligned(g, b)
  BY DEF Buckets, Bucket, After, Aligned

\* Where nothing was found nothing is written, or the right thing.
LEMMA BlankGood ==
  ASSUME Tables, NEW g \in Grains, NEW b \in Buckets(g), NEW z \in Zones,
         Blank(g, b, z), Clean(g), Agrees(z, g), cover[g] = NoCover => bare[g] \subseteq {z}
  PROVE  Good(g, b, z)
<1>1. CASE Truth(g, b, z) = Zero
  <2>1. Rows(g) /\ g \notin strays /\ b \in Days
    BY DEF Tables, Clean, Buckets
  <2>2. Spoken(g) = {} \/ z \in Spoken(g)
    BY DEF Spoken, Agrees
  <2>3. row[g][b] = Zero \/ Good(g, b, z)
    BY <2>1, <2>2 DEF Rows
  <2> QED BY <1>1, <2>3 DEF Good
<1>2. CASE Truth(g, b, z) # Zero
  BY <1>2 DEF Blank, Good
<1> QED BY <1>1, <1>2

\* A pass that built the days to the end knows them all, from its first day on.
LEMMA DaysBuilt ==
  ASSUME RollupTypeOK, Tables, NEW r \in Pass, Knows(r), PassOK(r), Building(r),
         r.grain = "day", Clean("day"), r.next = r.to,
         NEW d \in Days, r.from <= d \/ r.from <= r.first
  PROVE  Good("day", d, r.zone)
<1>1. /\ r.zone \in Zones /\ r.today \in Int /\ r.first \in Int /\ r.from \in Int
      /\ d \in Int /\ r.grain \in Grains
  BY PassFacts DEF Days
<1>2. r.to = r.today + 1 /\ InZone(r)
  BY DEF PassOK, InZone, Building
<1>3. d \in Buckets("day") /\ After("day", d) = d + 1
  BY DayBuckets
<1>4. CASE r.from <= d /\ d <= r.today
  <2>1. After("day", d) <= r.next
    BY <1>1, <1>2, <1>3, <1>4
  <2> QED BY <1>3, <1>4, <2>1 DEF Knows, Made
<1>5. CASE d > r.today \/ (d < r.from /\ r.from <= r.first)
  <2>1. After("day", d) <= r.first \/ d > r.today
    BY <1>1, <1>3, <1>5
  <2>2. Blank("day", d, r.zone)
    BY <1>1, <1>2, <1>3, <2>1 DEF Knows, Edges, Grains
  <2>3. Agrees(r.zone, "day") /\ (cover["day"] = NoCover => bare["day"] \subseteq {r.zone})
    BY DEF Knows, Zoned, Clean
  <2> QED BY <1>1, <1>3, <2>2, <2>3, BlankGood DEF Grains
<1> QED BY <1>1, <1>4, <1>5

\* What a pass must know to leave the days.
DaysKnown(r) ==
    /\ Agrees(r.zone, "day")
    /\ Clean("day") => \A d \in Days :
          cover["day"] = NoCover \/ cover["day"].from <= d => Good("day", d, r.zone)

LEMMA NextGrainKnows ==
  ASSUME NEW r \in Pass, InZone(r), PassOK(r), r.at \in {"window", "read", "bank"}
  PROVE  /\ PassOK(NextGrain(r)) /\ NextGrain(r).at # "state" /\ ~Banks(NextGrain(r))
         /\ InZone(NextGrain(r)) => NextGrain(r).zone = r.zone
         /\ Knows(r) /\ (r.grain = "day" => DaysKnown(r)) => Knows(NextGrain(r))
         /\ (Knows(r) /\ (r.grain = "day" => DaysKnown(r)))' => Knows(NextGrain(r))'
<1> DEFINE s == NextGrain(r)
<1>0. s \in Pass
  BY NextGrainFacts
<1>1. CASE r.grain = "day"
  <2>1. /\ s.at = "daily" /\ s.grain = "day" /\ s.rebuild = r.rebuild /\ s.zone = r.zone
        /\ s.first = r.first /\ s.daily = r.daily /\ s.today = r.today
    BY <1>1, NextGrainFacts
  <2> HIDE DEF s
  <2>2. PassOK(s) /\ InZone(s) /\ ~Banks(s) /\ r.daily = NoCover
    BY <1>1, <2>1 DEF PassOK, Building, Resets, InZone, Banks
  <2>3. Knows(r) /\ DaysKnown(r) => Knows(s)
    BY <2>1, <2>2
       DEF DaysKnown, Knows, Zoned, Cleared, Made, Edges, Seen, Daily, InZone, Building, Resets
  <2>4. (Knows(r) /\ DaysKnown(r))' => Knows(s)'
    BY <2>1, <2>2
       DEF DaysKnown, Knows, Zoned, Cleared, Made, Edges, Seen, Daily, InZone, Building, Resets
  <2> QED BY <1>1, <2>1, <2>2, <2>3, <2>4 DEF s
<1>2. CASE r.grain = "hour" /\ r.daily # NoCover
  <2>1. /\ s.at = "window" /\ s.grain = "week" /\ s.rebuild = r.rebuild /\ s.zone = r.zone
        /\ s.first = r.first /\ s.daily = r.daily /\ s.today = r.today
    BY <1>2, NextGrainFacts
  <2> HIDE DEF s
  <2>2. PassOK(s) /\ InZone(s) /\ ~Banks(s)
    BY <1>2, <2>1 DEF PassOK, Building, Resets, InZone, Banks
  <2>3. Knows(r) => Knows(s)
    BY <2>1, <2>2 DEF Knows, Zoned, Cleared, Made, Edges, Seen, Daily, InZone, Building, Resets
  <2>4. Knows(r)' => Knows(s)'
    BY <2>1, <2>2 DEF Knows, Zoned, Cleared, Made, Edges, Seen, Daily, InZone, Building, Resets
  <2> QED BY <1>2, <2>1, <2>2, <2>3, <2>4 DEF s
<1>3. CASE r.grain # "day" /\ ~(r.grain = "hour" /\ r.daily # NoCover)
  <2>1. s.at = "prune" /\ s.today = r.today
    BY <1>3, NextGrainFacts
  <2> HIDE DEF s
  <2>2. PassOK(s) /\ ~InZone(s) /\ ~Banks(s)
    BY <2>1 DEF PassOK, Building, Resets, InZone, Banks
  <2>3. Knows(s) /\ Knows(s)'
    BY <1>0, <2>1, <2>2, NothingKnown
  <2> QED BY <1>3, <2>1, <2>2, <2>3 DEF s
<1> QED BY <1>1, <1>2, <1>3

LEMMA DailyWindowKeeps ==
  ASSUME RollupInv, NEW p \in Builders, DailyWindow(p)
  PROVE  RollupInv'
<1>0. RollupTypeOK /\ TimeInv /\ Ranges
  BY DEF RollupInv, Basics
<1>1. PICK r \in Pass : pass[p] = r
  BY <1>0 DEF RollupTypeOK
<1>a. PICK w \in Cover : w = (IF Found(p, cover["day"]) THEN cover["day"] ELSE NoCover)
  BY <1>0, NoPassFacts DEF RollupTypeOK, Grains
<1> DEFINE s == [r EXCEPT !.at = "window", !.grain = "hour", !.daily = w]
<1>2. /\ s \in Pass /\ s.at = "window" /\ s.rebuild = r.rebuild /\ s.zone = r.zone
      /\ s.today = r.today /\ s.first = r.first /\ s.daily = w /\ s.grain = "hour"
  BY DEF Pass, Grains
<1>3. pass' = [pass EXCEPT ![p] = s]
  BY <1>1, <1>a DEF DailyWindow
<1> HIDE DEF s
<1>4. r.at = "daily" /\ InZone(r) /\ PassOK(r) /\ ~r.rebuild
  BY <1>0, <1>1 DEF DailyWindow, PassAt, InZone, Ranges, PassOK
<1>b. w # NoCover => w = cover["day"] /\ w.zone = r.zone
  BY <1>1, <1>a DEF Found
<1>5. PassOK(s) /\ InZone(s)
  BY <1>2, <1>4, <1>b DEF PassOK, Building, Resets, InZone
<1>6. ASSUME Passes PROVE Knows(s)'
  <2>1. Knows(r)
    BY <1>1, <1>6 DEF Passes
  <2>2. Daily(s)
    BY <1>2, <1>4, <1>b, <2>1 DEF Knows, Daily
  <2>3. Knows(s)
    BY <1>2, <1>4, <2>1, <2>2 DEF Knows, Zoned, Cleared, Made, Edges, Seen, InZone, Building, Resets
  <2>4. UNCHANGED <<today, raw, row, owed, cover, clearing, bare>> /\ strays \subseteq strays'
    BY DEF DailyWindow, truth, history, origin
  <2> QED BY <1>2, <2>3, <2>4, KnowsKept
<1>7. ASSUME NEW t \in Pass, Pair(r, t), Pair(t, r), Apart(t, r)
      PROVE  Pair(s, t) /\ Pair(t, s) /\ Apart(s, t) /\ Apart(t, s)
  <2>1. InZone(r) /\ s.at # "state" /\ ~Banks(s)
    BY <1>2, <1>4 DEF Banks
  <2> QED BY <1>2, <1>7, <2>1, PairGoesOn
<1>8. /\ UNCHANGED <<truth, row, cover, owed, clearing, bare, missed>>
      /\ strays \subseteq strays' /\ strays' \subseteq Grains
      /\ swept' \in BOOLEAN /\ overlapped' \in BOOLEAN /\ faults' \in Nat
      /\ (overlapped => overlapped')
  BY <1>0 DEF DailyWindow, history, origin, RollupTypeOK
<1> QED BY <1>1, <1>2, <1>3, <1>5, <1>6, <1>7, <1>8, SteadyStep

\* What is read of the window is what a pass may join its own days with.
LEMMA ReadCoverKeeps ==
  ASSUME RollupInv, NEW p \in Builders, ReadCover(p)
  PROVE  RollupInv'
<1>0. RollupTypeOK /\ TimeInv /\ Ranges
  BY DEF RollupInv, Basics
<1>1. PICK r \in Pass : pass[p] = r
  BY <1>0 DEF RollupTypeOK
<1> DEFINE g == r.grain
<1>2. r.at = "read" /\ InZone(r) /\ Building(r) /\ PassOK(r) /\ ~r.rebuild /\ g \in Grains
  BY <1>0, <1>1, PassFacts DEF ReadCover, PassAt, InZone, Building, Ranges, PassOK
<1>3. Built(p) = BuiltBy(r)
  BY <1>1 DEF Built, BuiltBy
<1>4. PICK w \in Cover : w = cover[g]
  BY <1>0, <1>2 DEF RollupTypeOK
<1>5. UNCHANGED <<today, raw, row, owed, cover, clearing, bare>> /\ strays' = strays
  BY DEF ReadCover, truth, history, origin
<1>6. /\ UNCHANGED <<truth, row, cover, owed, clearing, bare, missed>>
      /\ strays \subseteq strays' /\ strays' \subseteq Grains
      /\ swept' \in BOOLEAN /\ overlapped' \in BOOLEAN /\ faults' \in Nat
      /\ (overlapped => overlapped')
  BY <1>0 DEF ReadCover, history, origin, RollupTypeOK
<1>7. CASE BuiltBy(r) > r.from
  <2> DEFINE s == [r EXCEPT !.at = "bank", !.seen = w]
  <2>1. /\ s \in Pass /\ s.at = "bank" /\ s.seen = w
        /\ \A f \in {"rebuild", "zone", "today", "first", "daily", "grain", "from", "to", "next"} :
              s[f] = r[f]
    BY <1>4 DEF Pass
  <2>2. pass' = [pass EXCEPT ![p] = s]
    BY <1>1, <1>3, <1>4, <1>7 DEF ReadCover
  <2>3. /\ s.rebuild = r.rebuild /\ s.zone = r.zone /\ s.today = r.today /\ s.first = r.first
        /\ s.daily = r.daily /\ s.grain = g /\ s.from = r.from /\ s.to = r.to /\ s.next = r.next
    BY DEF Pass
  <2> HIDE DEF s
  <2>4. InZone(s) /\ Building(s)
    BY <2>1 DEF InZone, Building
  <2>5. PassOK(s)
    <3>1. BuiltBy(s) = BuiltBy(r)
      BY <2>3 DEF BuiltBy
    <3>2. w.through <= today /\ (w # NoCover => Aligned(g, w.through))
      BY <1>0, <1>2, <1>4 DEF TimeInv
    <3>3. BuiltBy(r) \in Int /\ r.from \in Int
      BY <1>2, PassFacts, BucketFacts DEF BuiltBy, Earlier
    <3>4. r.from < BuiltBy(s)
      BY <1>7, <3>1, <3>3
    <3> QED BY <1>2, <2>1, <2>3, <2>4, <3>2, <3>4 DEF PassOK, Resets
  <2>6. ASSUME Tables, Passes PROVE Knows(s)'
    <3>1. Knows(r)
      BY <1>1, <2>6 DEF Passes
    <3>2. w # NoCover => w.zone = r.zone
      BY <1>2, <1>4, <3>1 DEF Knows, Zoned, Agrees
    <3>3. Seen(s)
      <4>1. Vouched(g)
        BY <1>2, <2>6 DEF Tables
      <4>2. cover["day"].from <= cover["day"].through
        BY <1>0 DEF TimeInv
      <4> QED BY <1>4, <2>1, <2>3, <3>2, <4>1, <4>2 DEF Seen, Vouched
    <3>4. Knows(s)
      BY <1>2, <2>1, <2>3, <2>4, <3>1, <3>3 DEF Knows, Zoned, Cleared, Made, Edges, Daily, Resets
    <3> QED BY <1>5, <2>1, <3>4, KnowsKept
  <2>7. ASSUME NEW t \in Pass, Pair(r, t), Pair(t, r), Apart(t, r), Knows(t)
        PROVE  Pair(s, t) /\ Pair(t, s) /\ Apart(s, t) /\ Apart(t, s)
    <3>1. Apart(s, t) /\ Apart(t, s)
      BY <1>2, <2>1, <2>7 DEF Apart
    <3>2. InZone(t) => t.zone = s.zone
      BY <1>2, <2>3, <2>7 DEF Pair
    <3>3. ASSUME Banks(s), Banks(t)
          PROVE  s.seen.from <= t.seen.through /\ t.seen.from <= s.seen.through
      BY <1>4, <2>1, <2>3, <2>7, <3>3 DEF Banks, Knows, Seen
    <3> QED BY <3>1, <3>2, <3>3 DEF Pair
  <2> QED BY <1>1, <1>6, <2>1, <2>2, <2>5, <2>6, <2>7, SteadyStep
<1>8. CASE ~(BuiltBy(r) > r.from) /\ r.next < r.to
  <2> DEFINE s == [r EXCEPT !.at = "build"]
  <2>1. s \in Pass /\ s.at = "build"
    BY DEF Pass
  <2>2. pass' = [pass EXCEPT ![p] = s]
    BY <1>1, <1>3, <1>8 DEF ReadCover
  <2>3. /\ s.rebuild = r.rebuild /\ s.zone = r.zone /\ s.today = r.today /\ s.first = r.first
        /\ s.daily = r.daily /\ s.grain = g /\ s.from = r.from /\ s.to = r.to /\ s.next = r.next
        /\ s.seen = r.seen
    BY DEF Pass
  <2> HIDE DEF s
  <2>4. InZone(s) /\ Building(s) /\ ~Banks(s)
    BY <2>1 DEF InZone, Building, Banks
  <2>5. PassOK(s)
    BY <1>2, <1>8, <2>1, <2>3, <2>4 DEF PassOK, Resets
  <2>6. ASSUME Tables, Passes PROVE Knows(s)'
    <3>1. Knows(r)
      BY <1>1, <2>6 DEF Passes
    <3>4. Knows(s)
      BY <1>2, <2>1, <2>3, <2>4, <3>1 DEF Knows, Zoned, Cleared, Made, Edges, Daily, Seen, Resets
    <3> QED BY <1>5, <2>1, <3>4, KnowsKept
  <2>7. ASSUME NEW t \in Pass, Pair(r, t), Pair(t, r), Apart(t, r)
        PROVE  Pair(s, t) /\ Pair(t, s) /\ Apart(s, t) /\ Apart(t, s)
    BY <1>2, <2>1, <2>3, <2>4, <2>7, PairGoesOn
  <2> QED BY <1>1, <1>6, <2>1, <2>2, <2>5, <2>6, <2>7, SteadyStep
<1>9. CASE ~(BuiltBy(r) > r.from) /\ ~(r.next < r.to)
  <2> DEFINE s == NextGrain(r)
  <2>1. s \in Pass
    BY NextGrainFacts
  <2>2. pass' = [pass EXCEPT ![p] = s]
    BY <1>1, <1>3, <1>9 DEF ReadCover
  <2> HIDE DEF s
  <2>3. PassOK(s) /\ s.at # "state" /\ ~Banks(s) /\ (InZone(s) => s.zone = r.zone)
    BY <1>2, NextGrainKnows DEF s
  <2>4. ASSUME Tables, Passes PROVE Knows(s)'
    <3>1. Knows(r)
      BY <1>1, <2>4 DEF Passes
    <3>2. ASSUME g = "day" PROVE DaysKnown(r)
      <4>1. r.next = r.to /\ r.to = r.today + 1 /\ r.today \in Int /\ r.next \in Int /\ r.from \in Int
        BY <1>2, <1>9, <3>2, PassFacts DEF PassOK
      <4>2. BuiltBy(r) = r.today
        BY <4>1, <3>2 DEF BuiltBy, Earlier, Bucket
      <4>3. r.from <= r.first
        BY <1>2, <1>9, <3>2, <4>1, <4>2 DEF PassOK
      <4>4. Clean("day") => \A d \in Days : Good("day", d, r.zone)
        BY <1>0, <1>2, <2>4, <3>1, <3>2, <4>1, <4>3, DaysBuilt
      <4>5. Agrees(r.zone, "day")
        BY <1>2, <3>1, <3>2 DEF Knows, Zoned
      <4> QED BY <4>4, <4>5 DEF DaysKnown
    <3>3. Knows(s)
      BY <1>2, <3>1, <3>2, NextGrainKnows DEF s
    <3> QED BY <1>5, <2>1, <3>3, KnowsKept
  <2>5. ASSUME NEW t \in Pass, Pair(r, t), Pair(t, r), Apart(t, r)
        PROVE  Pair(s, t) /\ Pair(t, s) /\ Apart(s, t) /\ Apart(t, s)
    BY <1>2, <2>1, <2>3, <2>5, PairGoesOn
  <2> QED BY <1>1, <1>6, <2>1, <2>2, <2>3, <2>4, <2>5, SteadyStep
<1> QED BY <1>7, <1>8, <1>9

LEMMA WindowKeeps ==
  ASSUME RollupInv, NEW p \in Builders, Window(p)
  PROVE  RollupInv'
<1>0. RollupTypeOK /\ TimeInv /\ Ranges /\ Basics
  BY DEF RollupInv, Basics
<1>1. PICK r \in Pass : pass[p] = r
  BY <1>0 DEF RollupTypeOK
<1> DEFINE g == r.grain
<1>2. r.at = "window" /\ InZone(r) /\ ~Building(r) /\ PassOK(r) /\ ~r.rebuild /\ g \in Grains
  BY <1>0, <1>1, PassFacts DEF Window, PassAt, InZone, Building, Ranges, PassOK
<1>3. UNCHANGED <<today, raw, row, owed, cover, clearing, bare>> /\ strays \subseteq strays'
  BY DEF Window, truth
<1>4. /\ UNCHANGED <<truth, row, cover, owed, clearing, bare, missed>>
      /\ strays \subseteq strays' /\ strays' \subseteq Grains
      /\ swept' \in BOOLEAN /\ overlapped' \in BOOLEAN /\ faults' \in Nat
      /\ (overlapped => overlapped')
  <2>1. strays' \subseteq strays \cup {g}
    BY <1>1 DEF Window
  <2> QED BY <1>0, <1>2, <1>3, <2>1 DEF Window, RollupTypeOK
<1>5. /\ From(p) \in Int /\ 1 <= From(p) /\ Aligned(g, From(p))
      /\ To(p) = (IF g = "day" THEN r.today + 1 ELSE Bucket(g, r.today))
      /\ To(p) \in Int /\ To(p) <= r.today + 1
      /\ g = "day" => From(p) < To(p) /\ (From(p) < r.today \/ From(p) <= r.first)
      /\ g = "week" => r.daily.from <= From(p)
  BY <1>0, <1>1, <1>2, WindowRange
<1>6. CASE From(p) >= To(p)
  <2> DEFINE s == NextGrain(r)
  <2>1. s \in Pass
    BY NextGrainFacts
  <2>2. pass' = [pass EXCEPT ![p] = s]
    BY <1>1, <1>6 DEF Window
  <2> HIDE DEF s
  <2>3. PassOK(s) /\ s.at # "state" /\ ~Banks(s) /\ (InZone(s) => s.zone = r.zone)
    BY <1>2, NextGrainKnows DEF s
  <2>4. ASSUME Passes PROVE Knows(s)'
    <3>1. Knows(r) /\ g # "day"
      BY <1>1, <1>5, <1>6, <2>4 DEF Passes
    <3>2. Knows(s)
      BY <1>2, <3>1, NextGrainKnows DEF s
    <3> QED BY <1>3, <2>1, <3>2, KnowsKept
  <2>5. ASSUME NEW t \in Pass, Pair(r, t), Pair(t, r), Apart(t, r)
        PROVE  Pair(s, t) /\ Pair(t, s) /\ Apart(s, t) /\ Apart(t, s)
    BY <1>2, <2>1, <2>3, <2>5, PairGoesOn
  <2> QED BY <1>1, <1>4, <2>1, <2>2, <2>3, <2>4, <2>5, SteadyStep
<1>7. CASE From(p) < To(p)
  <2>1. PICK c \in Cover : c = cover[g]
    BY <1>0, <1>2 DEF RollupTypeOK
  <2>2. PICK from \in 0..(MaxDay + Week), to \in 0..(MaxDay + Week) :
               from = From(p) /\ to = To(p)
    <3>1. r.today \in Int /\ r.today <= MaxDay
      BY PassFacts
    <3> QED BY <1>5, <1>7, <3>1, NumberFacts
  <2> DEFINE at == IF c = NoCover \/ c.zone = r.zone THEN "build" ELSE "rows"
             s == [r EXCEPT !.from = from, !.to = to, !.next = from, !.at = at]
  <2>3. /\ s \in Pass /\ s.at = at /\ s.from = from /\ s.to = to /\ s.next = from
        /\ s.rebuild = r.rebuild /\ s.zone = r.zone /\ s.today = r.today /\ s.first = r.first
        /\ s.daily = r.daily /\ s.grain = g
    BY DEF Pass
  <2>4. pass' = [pass EXCEPT ![p] = s]
    <3>1. ~(From(p) >= To(p))
      BY <1>5, <1>7
    <3> QED BY <1>1, <2>1, <2>2, <3>1 DEF Window, Found
  <2> HIDE DEF s
  <2>5. at \in {"build", "rows"}
    OBVIOUS
  <2>6. s.at = "build" <=> Agrees(r.zone, g)
    BY <2>1, <2>3 DEF Agrees
  <2> HIDE DEF at
  <2>7. InZone(s) /\ ~Banks(s) /\ s.at # "state" /\ s.at # "bank" /\ s.at # "daily"
        /\ (Building(s) <=> s.at = "build") /\ (Resets(s) <=> s.at = "rows")
    BY <1>2, <2>3, <2>5 DEF InZone, Banks, Building, Resets
  <2>8. PassOK(s)
    <3>1. g = "week" => r.daily # NoCover
      BY <1>2 DEF PassOK
    <3> QED BY <1>2, <1>5, <1>7, <2>2, <2>3, <2>7, <3>1 DEF PassOK
  <2>9. ASSUME Passes PROVE Knows(s)'
    <3>1. Knows(r)
      BY <1>1, <2>9 DEF Passes
    <3>2. Knows(r)'
      BY <1>3, <3>1, KnowsKept
    <3>3. (Agrees(r.zone, g))' <=> Agrees(r.zone, g)
      BY <1>3 DEF Agrees
    <3>4. Zoned(s)'
      <4>1. ASSUME cover[g] = NoCover, g \notin strays' PROVE bare[g] \ {r.zone} = {}
        BY <4>1, <1>1, <1>7 DEF Window
      <4>2. cover'[g] = cover[g] /\ bare'[g] = bare[g]
        BY <1>3
      <4> QED BY <2>3, <2>6, <2>7, <3>3, <4>1, <4>2 DEF Zoned
    <3>5. Made(s)'
      <4>1. ASSUME NEW b \in Buckets(g) PROVE ~(from <= b /\ After(g, b) <= from)
        <5>1. b \in Int /\ b < After(g, b) /\ After(g, b) \in Int
          BY <1>2, BucketFacts DEF Buckets, Days
        <5> QED BY <5>1, <1>5, <2>2
      <4>2. Buckets(g)' = Buckets(g)
        BY DEF Buckets
      <4> QED BY <2>3, <4>1, <4>2 DEF Made
    <3> QED BY <1>2, <2>3, <2>7, <3>2, <3>4, <3>5 DEF Knows, Cleared, Edges, Seen, Daily
  <2>10. ASSUME NEW t \in Pass, Pair(r, t), Pair(t, r), Apart(t, r)
         PROVE  Pair(s, t) /\ Pair(t, s) /\ Apart(s, t) /\ Apart(t, s)
    BY <1>2, <2>3, <2>7, <2>10, PairGoesOn
  <2> QED BY <1>1, <1>4, <2>3, <2>4, <2>8, <2>9, <2>10, SteadyStep
<1> QED BY <1>5, <1>6, <1>7

-----------------------------------------------------------------------------
(***************************************************************************)
(* The steps that write events or rows.                                    *)
(***************************************************************************)

\* What a pass knows outlives a step that makes no right row wrong.
LEMMA KnowsGrows ==
  ASSUME NEW t \in Pass, UNCHANGED <<cover, clearing>>, strays \subseteq strays', Knows(t),
         Zoned(t)', Cleared(t)',
         InZone(t) => \A g \in Grains : \A b \in Buckets(g) :
            /\ Blank(g, b, t.zone) => Blank(g, b, t.zone)'
            /\ Clean(g)' /\ Good(g, b, t.zone) => Good(g, b, t.zone)'
  PROVE  Knows(t)'
<1>0. t.grain \in Grains /\ "day" \in Grains /\ \A d \in Days : d \in Buckets("day")
  BY PassFacts, DayBuckets DEF Grains
<1>1. \A g : Clean(g)' => Clean(g)
  BY DEF Clean
<1>2. Made(t)'
  <2> SUFFICES ASSUME Building(t), Clean(t.grain)', NEW b \in Buckets(t.grain),
                      t.from <= b /\ After(t.grain, b) <= t.next
               PROVE  Good(t.grain, b, t.zone)'
    BY DEF Made
  <2>1. Good(t.grain, b, t.zone) /\ InZone(t)
    BY <1>1 DEF Knows, Made, Building, InZone
  <2> QED BY <1>0, <2>1
<1>3. Edges(t)'
  BY DEF Knows, Edges
<1>4. Seen(t)'
  <2>1. t.at = "bank" => InZone(t)
    BY DEF InZone
  <2> QED BY <1>0, <1>1, <2>1 DEF Knows, Seen
<1>5. Daily(t)'
  <2>1. t.at = "daily" => InZone(t)
    BY DEF InZone
  <2> QED BY <1>0, <1>1, <2>1 DEF Knows, Daily
<1> QED BY <1>2, <1>3, <1>4, <1>5 DEF Knows

LEMMA TablesGrow ==
  ASSUME UNCHANGED <<cover, clearing, bare, strays>>, RollupTypeOK, TimeInv, Tables,
         \A g \in Grains : \A b \in Days : row[g][b] = Zero => row'[g][b] = Zero,
         \A g \in Grains : \A b \in Buckets(g) : \A z \in Zones :
            Good(g, b, z) => Good(g, b, z)'
  PROVE  Tables'
<1> SUFFICES ASSUME NEW g \in Grains PROVE Rows(g)' /\ Vouched(g)'
  BY DEF Tables
<1>1. Rows(g) /\ Vouched(g)
  BY DEF Tables
<1>2. PICK w \in Cover : w = cover[g]
  BY DEF RollupTypeOK
<1>3. w # NoCover => w.zone \in Zones
  BY <1>2, CoverFacts DEF TimeInv
<1>4. cover'[g] = w /\ bare'[g] = bare[g] /\ bare[g] \subseteq Zones
  BY <1>2 DEF RollupTypeOK
<1>5. PICK S : S = Spoken(g)
  OBVIOUS
<1>6. S = Spoken(g)' /\ S \subseteq Zones
  BY <1>2, <1>3, <1>4, <1>5 DEF Spoken
<1>7. \A b : b \in Buckets(g) => b \in Days
  BY DEF Buckets
<1>8. Rows(g)'
  <2>1. ASSUME g \notin strays', NEW b \in Buckets(g), NEW z \in S
        PROVE  row'[g][b] = Zero \/ Good(g, b, z)'
    <3>1. row[g][b] = Zero \/ Good(g, b, z)
      BY <1>1, <1>5, <2>1 DEF Rows
    <3>2. z \in Zones /\ b \in Days
      BY <1>6, <1>7
    <3> QED BY <3>1, <3>2
  <2>2. S = {} => \A b \in Days : row'[g][b] = Zero
    BY <1>1, <1>5 DEF Rows
  <2>3. Zero' = Zero
    BY DEF Zero
  <2> QED BY <1>6, <2>1, <2>2 DEF Rows
<1>9. Vouched(g)'
  <2>1. Clean(g)' => Clean(g)
    BY DEF Clean
  <2>2. ASSUME Clean(g), w # NoCover, NEW b \in Buckets(g), Covers(w, g, b)
        PROVE  Good(g, b, w.zone)'
    <3>1. Good(g, b, w.zone)
      BY <1>1, <1>2, <2>2 DEF Vouched
    <3> QED BY <1>3, <2>2, <3>1
  <2> QED BY <1>4, <2>1, <2>2 DEF Vouched
<1> QED BY <1>8, <1>9

\* A step of the site that starts no pass.
LEMMA SiteStep ==
  ASSUME RollupTypeOK, TimeInv, Tables, Passes, Pairs,
         UNCHANGED <<cover, clearing, bare, strays, pass>>,
         \A g \in Grains : \A b \in Days : row[g][b] = Zero => row'[g][b] = Zero,
         \A g \in Grains : \A b \in Buckets(g) : \A z \in Zones :
            (Good(g, b, z) => Good(g, b, z)') /\ (Blank(g, b, z) => Blank(g, b, z)')
  PROVE  Tables' /\ Passes' /\ Pairs'
<1>1. Tables'
  BY TablesGrow
<1>2. ASSUME NEW t \in Pass, Knows(t) PROVE Knows(t)'
  <2>1. Zoned(t)'
    BY <1>2 DEF Knows, Zoned, Agrees
  <2>2. Cleared(t)'
    BY <1>2, PassFacts DEF Knows, Cleared
  <2> QED BY <1>2, <2>1, <2>2, PassFacts, KnowsGrows
<1>3. Passes'
  BY <1>2 DEF Passes
<1>4. Pairs'
  BY DEF Pairs
<1> QED BY <1>1, <1>3, <1>4

LEMMA ChangeZoneKeeps ==
  ASSUME RollupInv, ChangeZone
  PROVE  RollupInv'
<1>1. /\ UNCHANGED <<today, raw, row, cover, pass, owed, clearing, bare, strays, overlapped>>
      /\ swept' = swept /\ missed' = missed /\ faults' \in Nat /\ zone' \in Zones
  BY DEF ChangeZone, origin, Fault, RollupInv, Basics, RollupTypeOK, Zones
<1>2. Basics'
  <2>1. RollupTypeOK'
    BY <1>1 DEF RollupInv, Basics, RollupTypeOK
  <2>2. TimeInv'
    BY <1>1 DEF RollupInv, Basics, TimeInv
  <2>3. Ranges'
    BY <1>1 DEF RollupInv, Basics, Ranges, PassOK
  <2> QED BY <2>1, <2>2, <2>3 DEF Basics
<1>3. ASSUME ~overlapped' PROVE Tables' /\ Passes' /\ Pairs'
  <2>1. Tables /\ Passes /\ Pairs /\ RollupTypeOK /\ TimeInv
    BY <1>1, <1>3 DEF RollupInv, Basics
  <2>2. \A g \in Grains : \A b \in Buckets(g) : \A z \in Zones :
            (Good(g, b, z) => Good(g, b, z)') /\ (Blank(g, b, z) => Blank(g, b, z)')
    BY <1>1 DEF Good, Blank, Truth, Visitors, Local, Agrees, Clean
  <2> QED BY <1>1, <2>1, <2>2, SiteStep
<1> QED BY <1>2, <1>3 DEF RollupInv

LEMMA MidnightKeeps ==
  ASSUME RollupInv, Midnight
  PROVE  RollupInv'
<1>0. RollupTypeOK /\ TimeInv /\ Ranges
  BY DEF RollupInv, Basics
<1>n. today \in Int /\ MaxDay \in Int /\ Retention \in Int /\ 1 <= today
  BY <1>0, NumberFacts DEF RollupTypeOK, Days
<1>1. /\ UNCHANGED <<zone, raw, row, cover, pass, owed, clearing, bare, strays, overlapped>>
      /\ swept' \in BOOLEAN /\ missed' \in BOOLEAN /\ faults' \in Nat
      /\ today' = today + 1 /\ today' \in Days
  <2>1. today' = today + 1 /\ today' \in Days
    BY <1>n DEF Midnight, Days
  <2>2. UNCHANGED <<zone, raw, row, cover, pass, owed, clearing, bare, strays, overlapped>>
        /\ swept' = FALSE
    BY DEF Midnight, origin
  <2>3. faults \in Nat /\ faults' \in {faults, faults + 1}
    BY <1>0 DEF Midnight, Fault, RollupTypeOK
  <2>4. missed \in BOOLEAN /\ (missed' = missed \/ missed' = TRUE)
    BY <1>0 DEF Midnight, RollupTypeOK
  <2>5. missed' \in BOOLEAN /\ swept' \in BOOLEAN
    BY <2>2, <2>4
  <2> QED BY <2>1, <2>2, <2>3, <2>5
<1>2. RollupTypeOK'
  BY <1>0, <1>1 DEF RollupTypeOK
<1>3. TimeInv'
  <2>1. ASSUME NEW e \in raw PROVE e[1] + e[2] <= today'
    <3>1. e[1] \in Int /\ e[2] \in Int
      BY <1>0, EventFacts, 0 \in Zones DEF RollupTypeOK, Zones
    <3> QED BY <1>0, <1>n, <1>1, <3>1 DEF TimeInv
  <2>2. ASSUME NEW g \in Grains PROVE cover[g].through <= today'
    <3>1. cover[g].through \in Int
      BY <1>0, CoverFacts DEF RollupTypeOK
    <3> QED BY <1>0, <1>n, <1>1, <3>1 DEF TimeInv
  <2> QED BY <1>0, <1>1, <2>1, <2>2 DEF TimeInv
<1>4. Ranges'
  <2> SUFFICES ASSUME NEW q \in Builders, NEW r \in Pass, pass[q] = r PROVE PassOK(r)'
    BY <1>1 DEF Ranges
  <2>1. PassOK(r)
    BY <1>0 DEF Ranges
  <2>2. r.today \in Int /\ r.seen.through \in Int
    BY PassFacts, CoverFacts
  <2> QED BY <1>n, <1>1, <2>1, <2>2 DEF PassOK
<1>5. ASSUME ~overlapped' PROVE Tables' /\ Passes' /\ Pairs'
  <2>1. Tables /\ Passes /\ Pairs
    BY <1>1, <1>5 DEF RollupInv
  <2>2. ASSUME NEW g \in Grains, NEW b \in Buckets(g), NEW z \in Zones
        PROVE  (Good(g, b, z) => Good(g, b, z)') /\ (Blank(g, b, z) => Blank(g, b, z)')
    <3>1. Truth(g, b, z)' = Truth(g, b, z)
      BY <1>1 DEF Truth, Visitors, Local
    <3>2. b < today - Retention => b < today' - Retention
      BY <1>n, <1>1 DEF Buckets, Days
    <3> QED BY <1>1, <3>1, <3>2 DEF Good, Blank, Agrees, Clean
  <2> QED BY <1>0, <1>1, <2>1, <2>2, SiteStep
<1> QED BY <1>2, <1>3, <1>4, <1>5 DEF RollupInv, Basics

LEMMA ArriveKeeps ==
  ASSUME RollupInv, NEW e \in Events, Arrive(e)
  PROVE  RollupInv'
<1>0. RollupTypeOK /\ TimeInv /\ Ranges
  BY DEF RollupInv, Basics
<1> DEFINE fresh == UNION {{Local(e, z), Local(e, z) + 1} : z \in Zones}
<1>n. today \in Int /\ MaxDay \in Int /\ 1 <= today /\ today <= MaxDay
  BY <1>0, NumberFacts DEF RollupTypeOK, Days
<1>1. /\ UNCHANGED <<today, zone, row, cover, pass, swept, clearing, bare, strays,
                     overlapped, missed, faults>>
      /\ raw' = raw \cup {e}
      /\ owed' = [g \in Grains |-> owed[g] \cup {Bucket(g, d) : d \in fresh}]
  BY DEF Arrive, origin
<1>2. \A d \in fresh : d \in Int /\ 1 <= d /\ d <= MaxDay + 1
  <2> SUFFICES ASSUME NEW z \in Zones
               PROVE  Local(e, z) \in Int /\ 1 <= Local(e, z) /\ Local(e, z) <= MaxDay
    BY <1>n
  <2>1. Local(e, z) \in Int /\ Local(e, z) \in {e[1], e[1] + 1} /\ e[1] \in Int /\ 1 <= e[1]
    BY <1>0, EventFacts
  <2>2. Local(e, z) <= today
    BY <2>1, <1>n, NumberFacts DEF Arrive
  <2> QED BY <2>1, <2>2, <1>n
<1> HIDE DEF fresh
<1>3. RollupTypeOK'
  <2>1. owed' \in [Grains -> SUBSET (0..(MaxDay + 2))]
    <3>1. ASSUME NEW g \in Grains, NEW d \in fresh PROVE Bucket(g, d) \in 0..(MaxDay + 2)
      <4>1. Bucket(g, d) \in Int /\ Bucket(g, d) <= d /\ 1 <= Bucket(g, d)
        BY <1>2, BucketFacts, BucketPositive
      <4> QED BY <4>1, <1>2, <1>n
    <3> QED BY <1>0, <1>1, <3>1 DEF RollupTypeOK
  <2>2. raw' \subseteq Events
    BY <1>0, <1>1 DEF RollupTypeOK
  <2> QED BY <1>0, <1>1, <2>1, <2>2 DEF RollupTypeOK
<1>4. TimeInv'
  <2>1. e[1] + e[2] <= today
    <3>1. Local(e, 1) <= today /\ 1 \in Zones
      <4>1. 1 \in Zones
        BY DEF Zones
      <4>2. Local(e, 1) \in Int
        BY <1>0, <4>1, EventFacts
      <4> QED BY <4>1, <4>2, <1>n, NumberFacts DEF Arrive
    <3> QED BY <3>1 DEF Local
  <2>2. ASSUME NEW d \in owed'["day"] PROVE Bucket("week", d) \in owed'["week"]
    <3>1. CASE d \in owed["day"]
      BY <1>0, <1>1, <3>1 DEF TimeInv, Grains
    <3>2. CASE d \notin owed["day"]
      <4>1. PICK x \in fresh : d = Bucket("day", x)
        BY <1>1, <2>2, <3>2 DEF Grains
      <4>2. d = x
        BY <4>1 DEF Bucket
      <4> QED BY <1>1, <4>2 DEF Grains
    <3> QED BY <3>1, <3>2
  <2>3. \A x \in raw' : x[1] + x[2] <= today'
    BY <1>0, <1>1, <2>1 DEF TimeInv
  <2> QED BY <1>0, <1>1, <2>2, <2>3 DEF TimeInv
<1>5. Ranges'
  BY <1>0, <1>1 DEF Ranges, PassOK
<1>6. ASSUME ~overlapped' PROVE Tables' /\ Passes' /\ Pairs'
  <2>1. Tables /\ Passes /\ Pairs
    BY <1>1, <1>6 DEF RollupInv
  <2>2. ASSUME NEW g \in Grains, NEW b \in Buckets(g), NEW z \in Zones
        PROVE  (Good(g, b, z) => Good(g, b, z)') /\ (Blank(g, b, z) => Blank(g, b, z)')
    <3>1. b \in owed'[g] \/ Truth(g, b, z)' = Truth(g, b, z)
      BY <1>0, ArriveTruth
    <3>2. b \in owed[g] => b \in owed'[g]
      BY <1>1
    <3> QED BY <1>1, <3>1, <3>2 DEF Good, Blank, Agrees, Clean
  <2> QED BY <1>0, <1>1, <2>1, <2>2, SiteStep
<1> QED BY <1>3, <1>4, <1>5, <1>6 DEF RollupInv, Basics

LEMMA PruneRowsKeeps ==
  ASSUME RollupInv, NEW p \in Builders, PruneRows(p)
  PROVE  RollupInv'
<1>0. RollupTypeOK /\ TimeInv /\ Ranges
  BY DEF RollupInv, Basics
<1>1. PICK r \in Pass : pass[p] = r
  BY <1>0 DEF RollupTypeOK
<1> DEFINE s == [r EXCEPT !.at = "pruned"]
<1>2. s \in Pass /\ s.at = "pruned" /\ s.today = r.today
  BY DEF Pass
<1>3. pass' = [pass EXCEPT ![p] = s]
  BY <1>1 DEF PruneRows, PassGoes
<1> HIDE DEF s
<1>4. r.at = "prune" /\ r.today <= today /\ r.today \in Int /\ today \in Int /\ Retention \in Int
  BY <1>0, <1>1, PassFacts, NumberFacts
     DEF PruneRows, PassAt, Ranges, PassOK, RollupTypeOK, Days
<1>5. PassOK(s) /\ ~InZone(s) /\ ~Banks(s)
  BY <1>2, <1>4 DEF PassOK, InZone, Building, Resets, Banks
<1>6. UNCHANGED <<today, zone, raw, cover, swept, owed, clearing, bare, strays, overlapped,
                  missed, faults>>
  BY DEF PruneRows, truth, history, origin
<1>7. Zero \in Row
  BY DEF Zero, Row
<1>8. row' \in [Grains -> [Days -> Row]]
      /\ \A g \in Grains : \A b \in Days :
            \/ row'[g][b] = row[g][b]
            \/ row'[g][b] = Zero /\ g = "hour" /\ b < today - Retention
  <2>1. row' = [row EXCEPT !["hour"] = [d \in Days |->
                   IF d < r.today - Retention THEN Zero ELSE row["hour"][d]]]
    BY <1>0, <1>1 DEF PruneRows, RollupTypeOK, Grains
  <2>2. \A d \in Days : d < r.today - Retention => d < today - Retention
    BY <1>4 DEF Days
  <2>3. row \in [Grains -> [Days -> Row]]
    BY <1>0 DEF RollupTypeOK
  <2> QED BY <2>1, <2>2, <2>3, <1>7
<1>9. Basics'
  <2>1. RollupTypeOK'
    <3>1. pass' \in [Builders -> Pass]
      BY <1>0, <1>2, <1>3, PassMoves
    <3> QED BY <1>0, <1>6, <1>8, <3>1 DEF RollupTypeOK
  <2>2. TimeInv'
    BY <1>0, <1>6 DEF TimeInv
  <2>3. Ranges'
    <3>1. PassOK(s)' /\ today' \in Int /\ today <= today'
      BY <1>4, <1>5, <1>6 DEF PassOK
    <3> QED BY <1>0, <1>2, <1>3, <3>1, RangesKept
  <2> QED BY <2>1, <2>2, <2>3 DEF Basics
<1>10. ASSUME ~overlapped' PROVE Tables' /\ Passes' /\ Pairs'
  <2>1. Tables /\ Passes /\ Pairs
    BY <1>6, <1>10 DEF RollupInv
  <2>2. ASSUME NEW g \in Grains, NEW b \in Buckets(g), NEW z \in Zones
        PROVE  (Good(g, b, z) => Good(g, b, z)') /\ (Blank(g, b, z) => Blank(g, b, z)')
    <3>1. Truth(g, b, z)' = Truth(g, b, z)
      BY <1>6 DEF Truth, Visitors, Local
    <3>2. row'[g][b] = row[g][b] \/ (g = "hour" /\ b < today - Retention)
      BY <1>8 DEF Buckets
    <3> QED BY <1>6, <3>1, <3>2 DEF Good, Blank, Agrees, Clean
  <2>3. \A g \in Grains : \A b \in Days : row[g][b] = Zero => row'[g][b] = Zero
    BY <1>8
  <2>4. Tables'
    BY <1>0, <1>6, <2>1, <2>2, <2>3, TablesGrow
  <2>5. ASSUME NEW t \in Pass, Knows(t) PROVE Knows(t)'
    <3>1. Zoned(t)'
      BY <1>6, <2>5 DEF Knows, Zoned, Agrees
    <3>2. Cleared(t)'
      BY <1>6, <2>3, <2>5, PassFacts DEF Knows, Cleared
    <3>3. t.zone \in Zones
      BY PassFacts
    <3> QED BY <1>6, <2>2, <2>5, <3>1, <3>2, <3>3, KnowsGrows
  <2>6. ASSUME NEW t \in Pass, Pair(r, t), Pair(t, r), Apart(t, r)
        PROVE  Pair(s, t) /\ Pair(t, s) /\ Apart(s, t) /\ Apart(t, s)
    BY <1>2, <1>4, <1>5, <2>6, PairGoesOn
  <2>7. Knows(s)'
    BY <1>2, <1>5, NothingKnown
  <2>8. Passes' /\ Pairs'
    BY <1>0, <1>1, <1>2, <1>3, <2>1, <2>5, <2>6, <2>7, PassesKept
  <2> QED BY <2>4, <2>8
<1> QED BY <1>9, <1>10 DEF RollupInv

LEMMA PruneStateKeeps ==
  ASSUME RollupInv, NEW p \in Builders, PruneState(p)
  PROVE  RollupInv'
<1>0. RollupTypeOK /\ TimeInv /\ Ranges
  BY DEF RollupInv, Basics
<1>1. PICK r \in Pass : pass[p] = r
  BY <1>0 DEF RollupTypeOK
<1> DEFINE s == NoPass
           cut == r.today - Retention
<1>2. s \in Pass /\ s.at = "idle" /\ s.today = 0
  BY NoPassFacts
<1>3. pass' = [pass EXCEPT ![p] = s]
  BY DEF PruneState
<1> HIDE DEF s
<1>4. r.today <= today /\ r.today \in Int /\ today \in Int /\ today <= MaxDay /\ MaxDay \in Int
      /\ Retention \in Int /\ 1 <= Retention /\ 1 <= today
  BY <1>0, <1>1, PassFacts, NumberFacts DEF Ranges, PassOK, RollupTypeOK, Days
<1>5. PassOK(s) /\ ~InZone(s) /\ ~Banks(s)
  BY <1>2, <1>4 DEF PassOK, InZone, Building, Resets, Banks
<1>6. UNCHANGED <<today, zone, raw, row, owed, clearing, bare, strays, overlapped, missed, faults>>
      /\ swept' \in BOOLEAN
  BY <1>0 DEF PruneState, truth, origin, RollupTypeOK
\* The window of the hours may begin later; nothing else changes.
<1>7. ASSUME NEW g \in Grains
      PROVE  /\ cover'[g] \in Cover /\ cover'[g].zone = cover[g].zone
             /\ cover'[g].through = cover[g].through
             /\ cover[g].from <= cover'[g].from /\ (cover'[g] = NoCover <=> cover[g] = NoCover)
             /\ g # "hour" => cover'[g] = cover[g]
  <2> DEFINE c == cover["hour"]
  <2>1. c \in Cover /\ c.from \in Int /\ 0 <= c.from /\ c.zone \in Zones \cup {-1} /\ cover[g] \in Cover
        /\ cover[g].from \in Int
    BY <1>0, CoverFacts DEF RollupTypeOK, Grains
  <2>2. CASE c # NoCover /\ c.from < cut
    <3>1. cover' = [cover EXCEPT !["hour"].from = cut]
      BY <1>1, <2>2 DEF PruneState
    <3>2. cut \in Days
      BY <1>4, <2>1, <2>2 DEF Days
    <3>3. cover'["hour"] = [c EXCEPT !.from = cut]
      BY <3>1, <1>0 DEF RollupTypeOK, Grains
    <3>4. cover'["hour"] \in Cover /\ cover'["hour"].zone = c.zone /\ cover'["hour"].from = cut
          /\ cover'["hour"].through = c.through /\ c.from <= cut
      BY <2>1, <2>2, <3>2, <3>3 DEF Cover, Days
    <3>5. c.zone # -1
      BY <1>0, <2>2 DEF TimeInv, Grains
    <3>6. cover'["hour"] # NoCover
      BY <3>4, <3>5 DEF NoCover
    <3>7. g # "hour" => cover'[g] = cover[g]
      BY <3>1, <1>0 DEF RollupTypeOK
    <3> QED BY <2>1, <2>2, <3>4, <3>6, <3>7
  <2>3. CASE ~(c # NoCover /\ c.from < cut)
    <3>1. cover' = cover
      BY <1>1, <2>3 DEF PruneState
    <3> QED BY <3>1, <2>1
  <2> QED BY <2>2, <2>3
<1>8. cover' \in [Grains -> Cover]
  <2>1. cover' = [g \in Grains |-> cover'[g]]
    BY <1>0 DEF PruneState, RollupTypeOK
  <2> QED BY <1>7, <2>1
<1>9. Basics'
  <2>1. RollupTypeOK'
    <3>1. pass' \in [Builders -> Pass]
      BY <1>0, <1>2, <1>3, PassMoves
    <3> QED BY <1>0, <1>6, <1>8, <3>1 DEF RollupTypeOK
  <2>2. TimeInv'
    BY <1>0, <1>6, <1>7 DEF TimeInv, Grains
  <2>3. Ranges'
    <3>1. PassOK(s)' /\ today' \in Int /\ today <= today'
      BY <1>4, <1>5, <1>6 DEF PassOK
    <3> QED BY <1>0, <1>2, <1>3, <3>1, RangesKept
  <2> QED BY <2>1, <2>2, <2>3 DEF Basics
<1>10. ASSUME ~overlapped' PROVE Tables' /\ Passes' /\ Pairs'
  <2>1. Tables /\ Passes /\ Pairs
    BY <1>6, <1>10 DEF RollupInv
  <2>2. \A g, b, z : Good(g, b, z) <=> Good(g, b, z)'
    BY <1>6 DEF Good, Truth, Visitors, Local
  <2>3. \A g \in Grains : \A z : Agrees(z, g) <=> Agrees(z, g)'
    BY <1>7 DEF Agrees
  <2>4. \A g \in Grains : \A b, z : Blank(g, b, z) => Blank(g, b, z)'
    BY <1>6, <2>3 DEF Blank, Truth, Visitors, Local, Clean
  <2>5. ASSUME NEW t \in Pass, Knows(t) PROVE Knows(t)'
    <3>0. t.grain \in Grains
      BY PassFacts
    <3>1. Zoned(t)'
      BY <1>6, <1>7, <2>3, <2>5, <3>0 DEF Knows, Zoned, Grains
    <3>2. Cleared(t)'
      BY <1>6, <2>5 DEF Knows, Cleared
    <3>3. Made(t)'
      BY <1>6, <2>2, <2>5 DEF Knows, Made, Clean
    <3>4. Edges(t)'
      BY <2>4, <2>5 DEF Knows, Edges
    <3>5. cover'["day"] = cover["day"]
      BY <1>7 DEF Grains
    <3>6. Seen(t)'
      BY <1>6, <2>2, <2>5, <3>5 DEF Knows, Seen, Clean
    <3>7. Daily(t)'
      BY <1>6, <2>2, <2>5, <3>5 DEF Knows, Daily, Clean
    <3> QED BY <3>1, <3>2, <3>3, <3>4, <3>6, <3>7 DEF Knows
  <2>6. ASSUME NEW t \in Pass
        PROVE  Pair(s, t) /\ Pair(t, s) /\ Apart(s, t) /\ Apart(t, s)
    BY <1>2, PairGone
  <2>7. Knows(s)'
    BY <1>2, <1>5, NothingKnown
  <2>8. Passes' /\ Pairs'
    BY <1>0, <1>1, <1>2, <1>3, <2>1, <2>5, <2>6, <2>7, PassesKept
  <2>9. ASSUME NEW g \in Grains PROVE Rows(g)' /\ Vouched(g)'
    <3>1. Rows(g) /\ Vouched(g)
      BY <2>1 DEF Tables
    <3>2. PICK S : S = Spoken(g)
      OBVIOUS
    <3>3. S = Spoken(g)'
      BY <1>6, <1>7, <3>2 DEF Spoken
    <3>4. Rows(g)'
      BY <1>6, <2>2, <3>1, <3>2, <3>3 DEF Rows
    <3>5. PICK w \in Cover, v \in Cover : w = cover[g] /\ v = cover'[g]
      BY <1>0, <1>8 DEF RollupTypeOK
    <3>6. \A b \in Buckets(g) : Covers(v, g, b) => Covers(w, g, b)
      <4>1. v.from \in Int /\ w.from \in Int /\ w.from <= v.from /\ v.through = w.through
        BY <1>7, <3>5, CoverFacts
      <4> QED BY <4>1 DEF Covers, Buckets, Days
    <3>7. v.zone = w.zone /\ (v = NoCover <=> w = NoCover)
      BY <1>7, <3>5
    <3>8. Vouched(g)'
      BY <1>6, <2>2, <3>1, <3>5, <3>6, <3>7 DEF Vouched, Clean
    <3> QED BY <3>4, <3>8
  <2>10. Tables'
    BY <2>9 DEF Tables
  <2> QED BY <2>8, <2>10
<1> QED BY <1>9, <1>10 DEF RollupInv

\* A reset clears the rows of a grain: no other pass is on its way.
LEMMA ClearRowsKeeps ==
  ASSUME RollupInv, NEW p \in Builders, ClearRows(p)
  PROVE  RollupInv'
<1>0. RollupTypeOK /\ TimeInv /\ Ranges
  BY DEF RollupInv, Basics
<1>1. PICK r \in Pass : pass[p] = r
  BY <1>0 DEF RollupTypeOK
<1> DEFINE g == r.grain
           s == [r EXCEPT !.at = "state"]
<1>2. /\ s \in Pass /\ s.at = "state" /\ s.rebuild = r.rebuild /\ s.zone = r.zone
      /\ s.today = r.today /\ s.first = r.first /\ s.daily = r.daily /\ s.grain = g
      /\ s.from = r.from /\ s.to = r.to /\ s.next = r.next
  BY DEF Pass
<1>3. pass' = [pass EXCEPT ![p] = s]
  BY <1>1 DEF ClearRows, PassGoes
<1> HIDE DEF s
<1>4. r.at = "rows" /\ PassOK(r) /\ g \in Grains /\ (InZone(s) <=> InZone(r))
      /\ (Resets(s) <=> Resets(r)) /\ ~Building(s) /\ (InZone(r) <=> Resets(r))
  BY <1>0, <1>1, <1>2, PassFacts
     DEF ClearRows, PassAt, Ranges, InZone, Resets, Building
<1>5. PassOK(s)
  BY <1>2, <1>4 DEF PassOK, InZone, Building, Resets
<1>6. /\ UNCHANGED <<today, zone, raw, cover, swept, owed, missed, faults>>
      /\ clearing' = clearing \cup {g} /\ strays' = strays \ {g}
      /\ bare' = [bare EXCEPT ![g] = {}]
      /\ row' = [row EXCEPT ![g] = [d \in Days |-> Zero]]
  BY <1>1 DEF ClearRows, truth
<1>7. /\ row' \in [Grains -> [Days -> Row]] /\ bare' \in [Grains -> SUBSET Zones]
      /\ bare'[g] = {} /\ \A b \in Days : row'[g][b] = Zero
      /\ \A h \in Grains \ {g} : row'[h] = row[h] /\ bare'[h] = bare[h]
  <2>1. Zero \in Row
    BY DEF Zero, Row
  <2> QED BY <1>0, <1>4, <1>6, <2>1 DEF RollupTypeOK
<1>8. overlapped' \in BOOLEAN /\ (overlapped => overlapped')
      /\ (~overlapped' => \A q \in Builders : q # p => pass[q].at = "idle")
  <2>1. overlapped' = (overlapped \/ Busy(p))
    BY DEF ClearRows
  <2>2. overlapped \in BOOLEAN
    BY <1>0 DEF RollupTypeOK
  <2> QED BY <2>1, <2>2 DEF Busy, PassAt
<1>9. Basics'
  <2>1. RollupTypeOK'
    <3>1. pass' \in [Builders -> Pass]
      BY <1>0, <1>2, <1>3, PassMoves
    <3>2. clearing' \subseteq Grains /\ strays' \subseteq Grains
      BY <1>0, <1>4, <1>6 DEF RollupTypeOK
    <3> QED BY <1>0, <1>6, <1>7, <1>8, <3>1, <3>2 DEF RollupTypeOK
  <2>2. TimeInv'
    BY <1>0, <1>6 DEF TimeInv
  <2>3. Ranges'
    <3>1. today \in Int
      BY <1>0 DEF RollupTypeOK, Days
    <3>2. PassOK(s)' /\ today' \in Int /\ today <= today'
      BY <1>5, <1>6, <3>1 DEF PassOK
    <3> QED BY <1>0, <1>2, <1>3, <3>2, RangesKept
  <2> QED BY <2>1, <2>2, <2>3 DEF Basics
<1>10. ASSUME ~overlapped' PROVE Tables' /\ Passes' /\ Pairs'
  <2>1. Tables /\ Passes /\ Pairs
    BY <1>8, <1>10 DEF RollupInv
  <2>2. Knows(r)
    BY <1>1, <2>1 DEF Passes
  <2>3. ASSUME NEW h \in Grains \ {g}
        PROVE  /\ Clean(h)' <=> Clean(h)
               /\ \A b, z : Good(h, b, z) <=> Good(h, b, z)'
               /\ \A b, z : Blank(h, b, z) => Blank(h, b, z)'
    <3>1. Clean(h)' <=> Clean(h)
      BY <1>6 DEF Clean
    <3>2. \A b, z : Truth(h, b, z)' = Truth(h, b, z)
      BY <1>6 DEF Truth, Visitors, Local
    <3> QED BY <1>6, <1>7, <3>1, <3>2 DEF Good, Blank, Agrees
  <2>4. ~Clean(g)'
    BY <1>6 DEF Clean
  <2>5. Knows(s)'
    <3>1. Zoned(s)'
      BY <1>2, <1>4, <1>6, <2>2 DEF Knows, Zoned, Agrees
    <3>2. Cleared(s)'
      BY <1>2, <1>6, <1>7 DEF Cleared
    <3>3. Edges(s)'
      <4> SUFFICES ASSUME InZone(s), NEW h \in Grains, NEW b \in Buckets(h),
                          After(h, b) <= s.first \/ b > s.today
                   PROVE  Blank(h, b, s.zone)'
        BY DEF Edges
      <4>1. Blank(h, b, r.zone)
        BY <1>2, <1>4, <2>2 DEF Knows, Edges
      <4>2. CASE h # g
        BY <1>2, <2>3, <4>1, <4>2
      <4>3. CASE h = g
        <5>1. ~Agrees(r.zone, g)
          BY <1>4, <2>2 DEF Knows, Zoned
        <5>2. Truth(h, b, r.zone)' = Truth(h, b, r.zone)
          BY <1>6 DEF Truth, Visitors, Local
        <5> QED BY <1>2, <1>6, <4>1, <4>3, <5>1, <5>2 DEF Blank
      <4> QED BY <4>2, <4>3
    <3>4. Daily(s)'
      <4> SUFFICES ASSUME Clean("day")', s.daily # NoCover, InZone(s), NEW d \in Days, s.daily.from <= d
                   PROVE  Good("day", d, s.zone)'
        BY <1>2 DEF Daily
      <4>1. "day" \in Grains \ {g}
        BY <2>4 DEF Grains
      <4>2. Good("day", d, r.zone)
        BY <1>2, <1>4, <2>2, <2>3, <4>1 DEF Knows, Daily
      <4> QED BY <1>2, <2>3, <4>1, <4>2
    <3> QED BY <1>2, <1>4, <3>1, <3>2, <3>3, <3>4 DEF Knows, Made, Seen
  <2>6. \A q \in Builders : q # p => pass[q].at = "idle"
    BY <1>8, <1>10
  <2>7. Passes' /\ Pairs'
    BY <1>0, <1>2, <1>3, <2>5, <2>6, PassesAtRest
  <2>8. ASSUME NEW h \in Grains PROVE Rows(h)' /\ Vouched(h)'
    <3>1. Rows(h) /\ Vouched(h)
      BY <2>1 DEF Tables
    <3>2. CASE h = g
      <4>1. Vouched(h)'
        BY <2>4, <3>2 DEF Vouched
      <4>2. Rows(h)'
        BY <1>7, <3>2 DEF Rows, Buckets
      <4> QED BY <4>1, <4>2
    <3>3. CASE h # g
      <4>1. PICK S, w : S = Spoken(h) /\ w = cover[h]
        OBVIOUS
      <4>2. S = Spoken(h)' /\ w = cover'[h]
        BY <1>6, <1>7, <3>3, <4>1 DEF Spoken
      <4>3. (h \notin strays') <=> (h \notin strays)
        BY <1>6, <3>3
      <4>4. Rows(h)'
        BY <1>7, <2>3, <3>1, <3>3, <4>1, <4>2, <4>3 DEF Rows
      <4>5. Vouched(h)'
        BY <2>3, <3>1, <3>3, <4>1, <4>2 DEF Vouched
      <4> QED BY <4>4, <4>5
    <3> QED BY <3>2, <3>3
  <2>9. Tables'
    BY <2>8 DEF Tables
  <2> QED BY <2>7, <2>9
<1> QED BY <1>8, <1>9, <1>10 DEF RollupInv

LEMMA ClearStateKeeps ==
  ASSUME RollupInv, NEW p \in Builders, ClearState(p)
  PROVE  RollupInv'
<1>0. RollupTypeOK /\ TimeInv /\ Ranges
  BY DEF RollupInv, Basics
<1>1. PICK r \in Pass : pass[p] = r
  BY <1>0 DEF RollupTypeOK
<1> DEFINE g == r.grain
           s == IF ~r.rebuild THEN [r EXCEPT !.at = "build"]
                ELSE IF g = "week" THEN [r EXCEPT !.at = "begin"]
                ELSE [r EXCEPT !.at = "rows", !.grain = IF g = "day" THEN "hour" ELSE "week"]
<1>2. /\ s \in Pass /\ s.today = r.today /\ s.rebuild = r.rebuild
      /\ r.rebuild => s.at \in {"begin", "rows"}
      /\ ~r.rebuild => /\ s.at = "build" /\ s.zone = r.zone /\ s.first = r.first
                       /\ s.daily = r.daily /\ s.grain = g
                       /\ s.from = r.from /\ s.to = r.to /\ s.next = r.next
  BY DEF Pass, Grains
<1>3. pass' = [pass EXCEPT ![p] = s]
  <2>1. CASE ~r.rebuild
    BY <1>1, <2>1 DEF ClearState
  <2>2. CASE r.rebuild /\ g = "week"
    BY <1>1, <2>2 DEF ClearState
  <2>3. CASE r.rebuild /\ g # "week"
    BY <1>1, <2>3 DEF ClearState
  <2> QED BY <2>1, <2>2, <2>3
<1> HIDE DEF s
<1>4. /\ r.at = "state" /\ PassOK(r) /\ g \in Grains
      /\ (~r.rebuild <=> Resets(r)) /\ (Resets(r) => InZone(r))
  BY <1>0, <1>1, PassFacts DEF ClearState, PassAt, Ranges, Resets, InZone
<1>a. s.at # "state" /\ s.at # "bank" /\ s.at # "daily" /\ ~Resets(s)
      /\ (InZone(s) <=> ~r.rebuild) /\ (Building(s) <=> ~r.rebuild)
  BY <1>2 DEF InZone, Building, Resets
<1>5. PassOK(s)
  BY <1>2, <1>4, <1>a DEF PassOK
<1>6. /\ UNCHANGED <<today, zone, raw, row, swept, owed, bare, strays, overlapped, missed, faults>>
      /\ clearing' = clearing \ {g} /\ cover' = [cover EXCEPT ![g] = NoCover]
  BY <1>1 DEF ClearState, truth, origin
<1>7. /\ cover' \in [Grains -> Cover] /\ cover'[g] = NoCover
      /\ \A h \in Grains \ {g} : cover'[h] = cover[h]
  BY <1>0, <1>4, <1>6, NoPassFacts DEF RollupTypeOK
<1>9. Basics'
  <2>1. RollupTypeOK'
    <3>1. pass' \in [Builders -> Pass]
      BY <1>0, <1>2, <1>3, PassMoves
    <3>2. clearing' \subseteq Grains
      BY <1>0, <1>6 DEF RollupTypeOK
    <3> QED BY <1>0, <1>6, <1>7, <3>1, <3>2 DEF RollupTypeOK
  <2>2. TimeInv'
    <3>1. ASSUME NEW h \in Grains
          PROVE  /\ cover'[h].through <= today
                 /\ cover'[h] # NoCover => Aligned(h, cover'[h].through)
                 /\ cover'[h].zone = -1 => cover'[h] = NoCover
                 /\ h = "day" => cover'[h].from <= cover'[h].through
      <4>1. CASE h = g
        <5>1. 0 <= today
          BY <1>0 DEF RollupTypeOK, Days
        <5> QED BY <1>7, <4>1, <5>1 DEF NoCover
      <4>2. CASE h # g
        BY <1>0, <1>7, <4>2 DEF TimeInv
      <4> QED BY <4>1, <4>2
    <3> QED BY <1>0, <1>6, <3>1 DEF TimeInv, Grains
  <2>3. Ranges'
    <3>1. today \in Int
      BY <1>0 DEF RollupTypeOK, Days
    <3>2. PassOK(s)' /\ today' \in Int /\ today <= today'
      BY <1>5, <1>6, <3>1 DEF PassOK
    <3> QED BY <1>0, <1>2, <1>3, <3>2, RangesKept
  <2> QED BY <2>1, <2>2, <2>3 DEF Basics
<1>10. ASSUME ~overlapped' PROVE Tables' /\ Passes' /\ Pairs'
  <2>1. Tables /\ Passes /\ Pairs
    BY <1>6, <1>10 DEF RollupInv
  <2>2. Knows(r)
    BY <1>1, <2>1 DEF Passes
  <2>g. \A h, b, z : Good(h, b, z) <=> Good(h, b, z)'
    BY <1>6 DEF Good, Truth, Visitors, Local
  <2>3. ASSUME NEW h \in Grains \ {g}
        PROVE  /\ Clean(h)' <=> Clean(h)
               /\ \A b, z : Blank(h, b, z) => Blank(h, b, z)'
    <3>1. Clean(h)' <=> Clean(h)
      BY <1>6 DEF Clean
    <3>2. \A b, z : Truth(h, b, z)' = Truth(h, b, z)
      BY <1>6 DEF Truth, Visitors, Local
    <3> QED BY <1>6, <1>7, <3>1, <3>2 DEF Blank, Agrees
  <2>4. bare[g] = {} /\ \A b \in Days : row[g][b] = Zero
    BY <1>4, <2>2 DEF Knows, Cleared
  <2>5. Knows(s)'
    <3>0. CASE r.rebuild
      BY <1>2, <1>a, <3>0, NothingKnown
    <3>n. CASE ~r.rebuild
      <4>1. Zoned(s)'
        BY <1>2, <1>6, <1>7, <1>a, <2>4, <3>n DEF Zoned, Agrees
      <4>2. Made(s)'
        <5>1. ASSUME NEW b \in Buckets(g) PROVE ~(s.from <= b /\ After(g, b) <= s.next)
          <6>1. b \in Int /\ b < After(g, b) /\ After(g, b) \in Int
            BY <1>4, BucketFacts DEF Buckets, Days
          <6>2. s.from = s.next /\ s.from \in Int
            BY <1>2, <1>4, <3>n, PassFacts DEF PassOK
          <6> QED BY <6>1, <6>2
        <5>2. Buckets(g)' = Buckets(g)
          BY DEF Buckets
        <5> QED BY <1>2, <3>n, <5>1, <5>2 DEF Made
      <4>3. Edges(s)'
        <5> SUFFICES ASSUME NEW h \in Grains, NEW b \in Buckets(h),
                            After(h, b) <= s.first \/ b > s.today
                     PROVE  Blank(h, b, s.zone)'
          BY DEF Edges
        <5>1. Blank(h, b, r.zone)
          BY <1>2, <1>4, <2>2, <3>n DEF Knows, Edges
        <5>2. CASE h # g
          BY <1>2, <2>3, <3>n, <5>1, <5>2
        <5>3. CASE h = g
          <6>1. ~Agrees(r.zone, g)
            BY <1>4, <2>2, <3>n DEF Knows, Zoned
          <6>2. Truth(h, b, r.zone)' = Truth(h, b, r.zone)
            BY <1>6 DEF Truth, Visitors, Local
          <6> QED BY <1>2, <1>6, <3>n, <5>1, <5>3, <6>1, <6>2 DEF Blank
        <5> QED BY <5>2, <5>3
      <4>4. Daily(s)'
        <5> SUFFICES ASSUME Clean("day")', s.daily # NoCover, NEW d \in Days, s.daily.from <= d
                     PROVE  Good("day", d, s.zone)'
          BY <1>a DEF Daily
        <5>1. "day" \in Grains \ {g}
          BY <1>2, <1>4, <3>n DEF PassOK, Grains
        <5>2. Good("day", d, r.zone)
          BY <1>2, <1>4, <2>2, <2>3, <3>n, <5>1 DEF Knows, Daily
        <5> QED BY <1>2, <2>g, <3>n, <5>2
      <4> QED BY <1>2, <1>a, <4>1, <4>2, <4>3, <4>4 DEF Knows, Cleared, Seen
    <3> QED BY <3>0, <3>n
  <2>6. ASSUME NEW q \in Builders, q # p
        PROVE  pass[q].at = "idle" \/ (pass[q].at = "rows" /\ pass[q].rebuild)
    <3>1. PICK t \in Pass : pass[q] = t
      BY <1>0 DEF RollupTypeOK
    <3> QED BY <1>1, <1>4, <2>1, <2>6, <3>1 DEF Pairs, Apart
  <2>7. Passes' /\ Pairs'
    BY <1>0, <1>2, <1>3, <2>5, <2>6, PassesAtRest
  <2>8. ASSUME NEW h \in Grains PROVE Rows(h)' /\ Vouched(h)'
    <3>1. Rows(h) /\ Vouched(h)
      BY <2>1 DEF Tables
    <3>2. CASE h = g
      <4>1. Vouched(h)'
        BY <1>7, <3>2 DEF Vouched
      <4>2. Rows(h)'
        BY <1>6, <1>7, <2>4, <3>2 DEF Rows, Spoken
      <4> QED BY <4>1, <4>2
    <3>3. CASE h # g
      <4>1. PICK S, w : S = Spoken(h) /\ w = cover[h]
        OBVIOUS
      <4>2. S = Spoken(h)' /\ w = cover'[h]
        BY <1>6, <1>7, <3>3, <4>1 DEF Spoken
      <4>4. Rows(h)'
        BY <1>6, <2>g, <3>1, <4>1, <4>2 DEF Rows
      <4>5. Vouched(h)'
        BY <2>3, <2>g, <3>1, <3>3, <4>1, <4>2 DEF Vouched
      <4> QED BY <4>4, <4>5
    <3> QED BY <3>2, <3>3
  <2>9. Tables'
    BY <2>8 DEF Tables
  <2> QED BY <2>7, <2>9
<1> QED BY <1>6, <1>9, <1>10 DEF RollupInv

\* The rows of a chunk are right, or still owed.
LEMMA ChunkRight ==
  ASSUME Basics, NEW r \in Pass, PassOK(r), Knows(r), r.at = "build",
         NEW end \in Int, end <= r.to, Aligned(r.grain, end),
         NEW b \in Buckets(r.grain), r.next <= b, b < end,
         r.grain = "week" => Clean("day"),
         row'[r.grain][b] = (IF r.grain = "week" THEN Derived(b) ELSE Truth(r.grain, b, r.zone)),
         r.grain = "week" /\ b \in owed["week"] /\ DaysOf("week", b) \cap owed["day"] # {}
            => b \in owed'["week"]
  PROVE  b \in owed'[r.grain] \/ row'[r.grain][b] = Truth(r.grain, b, r.zone)
<1>1. CASE r.grain # "week"
  BY <1>1
<1>2. CASE r.grain = "week"
  <2>0. RollupTypeOK /\ TimeInv /\ InZone(r) /\ Building(r) /\ "week" \in Grains /\ "day" \in Grains
    BY DEF Basics, InZone, Building, Grains
  <2>1. /\ r.zone \in Zones /\ r.today \in Int /\ r.from \in Int /\ r.next \in Int /\ r.to \in Int
        /\ r.daily.from \in Int
    BY PassFacts, CoverFacts
  <2>2. b \in Int /\ 1 <= b /\ Bucket("week", b) = b
    BY <1>2 DEF Buckets, Days
  <2>3. r.daily # NoCover /\ r.daily.from <= b
    BY <1>2, <2>0, <2>1, <2>2 DEF PassOK
  <2>4. After("week", b) \in Int /\ After("week", b) <= MaxDay /\ MaxDay \in Int
    <3>1. After("week", b) <= end /\ After("week", b) \in Int
      BY <1>2, <2>0, <2>2, BucketsApart, BucketFacts DEF Aligned
    <3>2. r.to <= r.today /\ r.today <= MaxDay
      BY <1>2, <2>0, <2>1, BucketFacts, PassFacts DEF PassOK
    <3> QED BY <2>1, <3>1, <3>2, NumberFacts
  <2>5. DaysOf("week", b) \subseteq Days
    BY <2>2, <2>4 DEF DaysOf, Days
  <2>6. CASE DaysOf("week", b) \cap owed["day"] # {}
    <3>1. PICK d \in DaysOf("week", b) : d \in owed["day"]
      BY <2>6
    <3>2. d \in Int /\ b <= d /\ d < After("week", b)
      BY <2>2, <2>4, <3>1 DEF DaysOf
    <3>3. Bucket("week", d) = b
      BY <2>0, <2>2, <3>2, InBucket
    <3>4. b \in owed["week"]
      BY <2>0, <3>1, <3>3 DEF TimeInv
    <3> QED BY <1>2, <2>6, <3>4
  <2>7. CASE DaysOf("week", b) \cap owed["day"] = {}
    <3>1. ASSUME NEW d \in DaysOf("week", b) PROVE row["day"][d] = Truth("day", d, r.zone)
      <4>1. d \in Days /\ d \in Int /\ b <= d
        BY <2>2, <2>4, <2>5 DEF DaysOf
      <4>2. r.daily.from <= d
        BY <2>1, <2>2, <2>3, <4>1
      <4>3. Good("day", d, r.zone)
        BY <1>2, <2>0, <2>3, <4>1, <4>2 DEF Knows, Daily
      <4> QED BY <2>7, <4>3 DEF Good
    <3>2. Derived(b) = Truth("week", b, r.zone)
      BY <2>0, <2>1, <2>2, <2>5, <3>1, DerivedTrue
    <3> QED BY <1>2, <3>2
  <2> QED BY <2>6, <2>7
<1> QED BY <1>1, <1>2

LEMMA BuildKeeps ==
  ASSUME RollupInv, NEW p \in Builders, Build(p)
  PROVE  RollupInv'
<1>0. RollupTypeOK /\ TimeInv /\ Ranges /\ Basics
  BY DEF RollupInv, Basics
<1>1. PICK r \in Pass : pass[p] = r
  BY <1>0 DEF RollupTypeOK
<1> DEFINE g == r.grain
           C(end) == {b \in Buckets(g) : r.next <= b /\ b < end}
<1>c. \A end : Chunk(p, end) = C(end)
  BY <1>1 DEF Chunk
<1>e. PICK end \in (pass[p].next + 1)..pass[p].to :
          /\ end = Bucket(pass[p].grain, end)
          /\ row' = [row EXCEPT ![pass[p].grain] = [d \in Days |->
                IF d \notin Chunk(p, end) THEN row[pass[p].grain][d]
                ELSE IF pass[p].grain = "week" THEN Derived(d)
                ELSE Truth(pass[p].grain, d, pass[p].zone)]]
          /\ owed' = [owed EXCEPT ![pass[p].grain] = owed[pass[p].grain] \
                {b \in Chunk(p, end) :
                    pass[p].grain = "week" => DaysOf(pass[p].grain, b) \cap owed["day"] = {}}]
          /\ pass' = [pass EXCEPT ![p].at = "read", ![p].next = end]
  BY DEF Build
<1>2. /\ end \in (r.next + 1)..r.to
          /\ end = Bucket(g, end)
          /\ row' = [row EXCEPT ![g] = [d \in Days |->
                IF d \notin C(end) THEN row[g][d]
                ELSE IF g = "week" THEN Derived(d) ELSE Truth(g, d, r.zone)]]
          /\ owed' = [owed EXCEPT ![g] = owed[g] \
                {b \in C(end) : g = "week" => DaysOf(g, b) \cap owed["day"] = {}}]
          /\ pass' = [pass EXCEPT ![p].at = "read", ![p].next = end]
  BY <1>1, <1>c, <1>e
<1> DEFINE s == [r EXCEPT !.at = "read", !.next = end]
<1>3. pass' = [pass EXCEPT ![p] = s]
  BY <1>0, <1>1, <1>2 DEF RollupTypeOK
<1>4. /\ r.at = "build" /\ PassOK(r) /\ g \in Grains /\ InZone(r) /\ Building(r) /\ ~Resets(r)
      /\ r.zone \in Zones
  BY <1>0, <1>1, PassFacts DEF Build, PassAt, Ranges, InZone, Resets, Building
<1>5. /\ r.next \in Int /\ r.to \in Int /\ r.from \in Int /\ end \in Int
      /\ r.next < end /\ end <= r.to /\ r.from <= r.next /\ Aligned(g, end) /\ Aligned(g, r.next)
  BY <1>2, <1>4, PassFacts DEF PassOK, Aligned
<1>6. /\ s \in Pass /\ s.at = "read" /\ s.rebuild = r.rebuild /\ s.zone = r.zone
      /\ s.today = r.today /\ s.first = r.first /\ s.daily = r.daily /\ s.grain = g
      /\ s.from = r.from /\ s.to = r.to /\ s.next = end
  <2>1. r.to \in 0..(MaxDay + Week) /\ r.next \in 0..(MaxDay + Week)
    BY DEF Pass
  <2>2. end \in 0..(MaxDay + Week)
    BY <1>5, <2>1, NumberFacts
  <2> QED BY <2>2 DEF Pass
<1> DEFINE K == C(end)
<1> HIDE DEF s, K
<1>7. InZone(s) /\ Building(s) /\ ~Resets(s) /\ ~Banks(s)
  BY <1>6 DEF InZone, Building, Resets, Banks
<1>8. PassOK(s)
  BY <1>4, <1>5, <1>6, <1>7 DEF PassOK
<1>9. /\ UNCHANGED <<today, zone, raw, cover, swept, clearing, overlapped, missed, faults>>
      /\ bare' = (IF cover[g] = NoCover THEN [bare EXCEPT ![g] = bare[g] \cup {r.zone}] ELSE bare)
      /\ strays' = (IF g = "week" /\ "day" \in strays \cup clearing
                    THEN strays \cup {"week"} ELSE strays)
  BY <1>1 DEF Build, truth
<1>10. /\ \A h \in Grains \ {g} : row'[h] = row[h] /\ owed'[h] = owed[h] /\ bare'[h] = bare[h]
       /\ \A d \in Days : row'[g][d] = (IF d \notin K THEN row[g][d]
                                        ELSE IF g = "week" THEN Derived(d)
                                        ELSE Truth(g, d, r.zone))
       /\ owed'[g] = owed[g] \ {b \in K : g = "week" => DaysOf(g, b) \cap owed["day"] = {}}
       /\ bare'[g] = (IF cover[g] = NoCover THEN bare[g] \cup {r.zone} ELSE bare[g])
       /\ strays \subseteq strays'
  BY <1>0, <1>2, <1>4, <1>9 DEF RollupTypeOK, K
<1>11. Basics'
  <2>1. row' \in [Grains -> [Days -> Row]]
    <3>1. ASSUME NEW d \in Days PROVE Derived(d) \in Row /\ Truth(g, d, r.zone) \in Row
      <4>1. d \in Days /\ d \in Int
        BY <3>1 DEF Days
      <4>2. Derived(d) \in Row
        BY <1>0, <4>1, DerivedIsRow
      <4>3. Truth(g, d, r.zone) \in Row
        BY <1>0, <1>4, <4>1, TruthIsRow
      <4> QED BY <4>2, <4>3
    <3>2. row \in [Grains -> [Days -> Row]]
      BY <1>0 DEF RollupTypeOK
    <3>3. [d \in Days |-> IF d \notin C(end) THEN row[g][d]
                ELSE IF g = "week" THEN Derived(d) ELSE Truth(g, d, r.zone)] \in [Days -> Row]
      BY <1>4, <3>1, <3>2
    <3> QED BY <1>2, <3>2, <3>3
  <2>2. owed' \in [Grains -> SUBSET (0..(MaxDay + 2))]
    BY <1>0, <1>2 DEF RollupTypeOK
  <2>3. bare' \in [Grains -> SUBSET Zones] /\ strays' \subseteq Grains
    BY <1>0, <1>4, <1>9 DEF RollupTypeOK, Grains
  <2>4. RollupTypeOK'
    <3>1. pass' \in [Builders -> Pass]
      BY <1>0, <1>3, <1>6, PassMoves
    <3> QED BY <1>0, <1>9, <2>1, <2>2, <2>3, <3>1 DEF RollupTypeOK
  <2>5. TimeInv'
    <3>1. ASSUME NEW d \in owed'["day"] PROVE Bucket("week", d) \in owed'["week"]
      <4>0. "week" \in Grains /\ "day" \in Grains
        BY DEF Grains
      <4>1. d \in owed["day"]
        BY <1>10, <3>1, <4>0
      <4>2. Bucket("week", d) \in owed["week"]
        BY <1>0, <4>1 DEF TimeInv
      <4>3. d \in DaysOf("week", Bucket("week", d))
        <5>1. d \in Int
          BY <1>0, <4>0, <4>1, NumberFacts DEF RollupTypeOK
        <5>2. Bucket("week", d) \in Int
          BY <4>0, <5>1, BucketFacts
        <5>3. Bucket("week", d) <= d /\ d < After("week", Bucket("week", d))
              /\ After("week", Bucket("week", d)) \in Int
          BY <4>0, <5>1, <5>2, BucketFacts
        <5> QED BY <5>1, <5>2, <5>3 DEF DaysOf
      <4> QED BY <1>10, <4>0, <4>1, <4>2, <4>3
    <3> QED BY <1>0, <1>9, <3>1 DEF TimeInv
  <2>6. Ranges'
    <3>1. today \in Int
      BY <1>0 DEF RollupTypeOK, Days
    <3>2. PassOK(s)' /\ today' \in Int /\ today <= today'
      BY <1>8, <1>9, <3>1 DEF PassOK
    <3> QED BY <1>0, <1>3, <1>6, <3>2, RangesKept
  <2> QED BY <2>4, <2>5, <2>6 DEF Basics
<1>12. ASSUME ~overlapped' PROVE Tables' /\ Passes' /\ Pairs'
  <2> DEFINE Z == r.zone
  <2>1. Tables /\ Passes /\ Pairs
    BY <1>9, <1>12 DEF RollupInv
  <2>2. Knows(r)
    BY <1>1, <2>1 DEF Passes
  <2>3. ASSUME NEW h \in Grains PROVE Clean(h)' => Clean(h)
    BY <1>9, <1>10 DEF Clean
  <2>4. g = "week" /\ g \notin strays' => Clean("day")
    BY <1>9 DEF Clean
  <2>5. Agrees(Z, g)
    BY <1>4, <2>2 DEF Knows, Zoned
  <2>t. \A h, b, z : Truth(h, b, z)' = Truth(h, b, z)
    BY <1>9 DEF Truth, Visitors, Local
  <2>6. ASSUME NEW b \in K, g \notin strays' PROVE b \in owed'[g] \/ row'[g][b] = Truth(g, b, Z)
    <3>1. b \in Buckets(g) /\ b \in Days /\ r.next <= b /\ b < end
      BY DEF K, Buckets
    <3>2. row'[g][b] = (IF g = "week" THEN Derived(b) ELSE Truth(g, b, Z))
      BY <1>10, <3>1
    <3>3. g = "week" /\ b \in owed["week"] /\ DaysOf("week", b) \cap owed["day"] # {}
            => b \in owed'["week"]
      BY <1>10
    <3>4. g = "week" => Clean("day")
      BY <2>4, <2>6
    <3> QED BY <1>0, <1>4, <1>5, <2>2, <3>1, <3>2, <3>3, <3>4, ChunkRight
  <2>7. ASSUME NEW h \in Grains, NEW b \in Buckets(h), Clean(h)', Good(h, b, Z)
        PROVE  Good(h, b, Z)'
    <3>1. CASE h # g
      BY <1>9, <1>10, <2>t, <2>7, <3>1 DEF Good
    <3>2. CASE h = g /\ b \notin K
      <4>1. b \in Days
        BY DEF Buckets
      <4> QED BY <1>9, <1>10, <2>t, <2>7, <3>2, <4>1 DEF Good
    <3>3. CASE h = g /\ b \in K
      BY <2>6, <2>7, <2>t, <3>3 DEF Good, Clean
    <3> QED BY <3>1, <3>2, <3>3
  <2>8. ASSUME NEW h \in Grains, NEW b \in Buckets(h), Blank(h, b, Z)
        PROVE  Blank(h, b, Z)'
    <3>0. Agrees(Z, h)' <=> Agrees(Z, h)
      BY <1>9 DEF Agrees
    <3>1. CASE h # g
      BY <1>9, <1>10, <2>t, <2>3, <2>8, <3>0, <3>1 DEF Blank
    <3>2. CASE h = g /\ b \notin K
      <4>1. b \in Days
        BY DEF Buckets
      <4> QED BY <1>9, <1>10, <2>t, <2>3, <2>8, <3>0, <3>2, <4>1 DEF Blank
    <3>3. CASE h = g /\ b \in K
      BY <2>5, <2>6, <2>t, <3>0, <3>3 DEF Blank, Clean
    <3> QED BY <3>1, <3>2, <3>3
  <2>z. ASSUME NEW t \in Pass, t.zone = Z, Knows(t)
        PROVE  Zoned(t)'
    <3>1. \A h : Agrees(t.zone, h)' <=> Agrees(t.zone, h)
      BY <1>9 DEF Agrees
    <3>2. t.zone \in Zones /\ t.grain \in Grains
      BY PassFacts
    <3>3. Building(t) => t.zone = Z
      BY <2>z DEF Building, InZone
    <3>4. ASSUME Building(t), cover'[t.grain] = NoCover, t.grain \notin strays'
          PROVE  bare'[t.grain] \subseteq {t.zone}
      <4>1. bare[t.grain] \subseteq {t.zone}
        BY <1>9, <1>10, <2>z, <3>2, <3>4 DEF Knows, Zoned
      <4>2. bare'[t.grain] \subseteq bare[t.grain] \cup {Z}
        BY <1>10, <3>2
      <4> QED BY <3>3, <3>4, <4>1, <4>2
    <3> QED BY <2>z, <3>1, <3>4 DEF Knows, Zoned
  <2>9. ASSUME NEW t \in Pass, InZone(t) => t.zone = Z, t.at # "state", Knows(t)
        PROVE  Knows(t)'
    <3>0. CASE ~InZone(t)
      BY <2>9, <3>0, NothingKnown
    <3>1. CASE InZone(t)
      <4>1. Zoned(t)' /\ t.zone = Z
        BY <2>9, <2>z, <3>1
      <4>2. Cleared(t)'
        BY <2>9 DEF Cleared
      <4>c. UNCHANGED <<cover, clearing>> /\ strays \subseteq strays'
        BY <1>9, <1>10
      <4> QED BY <2>9, <2>3, <2>7, <2>8, <4>1, <4>2, <4>c, KnowsGrows
    <3> QED BY <3>0, <3>1
  <2>10. Knows(s)'
    <3>1. Knows(r)'
      BY <1>4, <2>2, <2>9
    <3>2. Zoned(s)'
      BY <1>4, <1>6, <1>7, <3>1 DEF Knows, Zoned
    <3>3. Made(s)'
      <4> SUFFICES ASSUME Clean(g)', NEW b \in Buckets(g), s.from <= b, After(g, b) <= s.next
                   PROVE  Good(g, b, Z)'
        BY <1>6 DEF Made
      <4>1. b \in Int /\ b \in Days /\ After(g, b) \in Int /\ b < After(g, b) /\ Bucket(g, b) = b
        BY <1>4, BucketFacts DEF Buckets, Days
      <4>2. CASE b < r.next
        <5>1. After(g, b) <= r.next
          BY <1>4, <1>5, <4>1, <4>2, BucketsApart DEF Aligned
        <5> QED BY <1>4, <1>6, <3>1, <5>1 DEF Knows, Made
      <4>3. CASE b >= r.next
        <5>1. b \in K
          BY <1>5, <1>6, <4>1, <4>3 DEF K
        <5> QED BY <2>6, <2>t, <5>1 DEF Good, Clean
      <4> QED BY <1>5, <4>1, <4>2, <4>3
    <3>4. Edges(s)' /\ Daily(s)'
      BY <1>4, <1>6, <1>7, <3>1 DEF Knows, Edges, Daily
    <3> QED BY <1>6, <3>2, <3>3, <3>4 DEF Knows, Cleared, Seen
  <2>11. ASSUME NEW t \in Pass, Pair(r, t), Pair(t, r), Apart(r, t), Apart(t, r), Knows(t)
         PROVE  Knows(t)' /\ Pair(s, t) /\ Pair(t, s) /\ Apart(s, t) /\ Apart(t, s)
    <3>2. InZone(t) => t.zone = Z
      BY <1>4, <2>11 DEF Pair
    <3>3. t.at # "state"
      BY <1>4, <2>11 DEF Apart
    <3>4. Knows(t)'
      BY <2>9, <2>11, <3>2, <3>3
    <3>5. Pair(s, t) /\ Pair(t, s) /\ Apart(s, t) /\ Apart(t, s)
      BY <1>4, <1>6, <1>7, <2>11, PairGoesOn
    <3> QED BY <3>4, <3>5
  <2>13. Passes' /\ Pairs'
    BY <1>0, <1>1, <1>3, <1>6, <2>1, <2>10, <2>11, PassesOn
  <2>14. ASSUME NEW h \in Grains PROVE Rows(h)' /\ Vouched(h)'
    <3>1. Rows(h) /\ Vouched(h)
      BY <2>1 DEF Tables
    <3>2. CASE h # g
      <4>1. PICK S, w : S = Spoken(h) /\ w = cover[h]
        OBVIOUS
      <4>2. S = Spoken(h)' /\ w = cover'[h]
        BY <1>9, <1>10, <3>2, <4>1 DEF Spoken
      <4>g. \A b, z : Good(h, b, z) <=> Good(h, b, z)'
        BY <1>9, <1>10, <2>t, <3>2 DEF Good
      <4>s. h \notin strays' => h \notin strays
        BY <1>10
      <4>3. Rows(h)'
        BY <1>10, <3>1, <3>2, <4>1, <4>2, <4>g, <4>s DEF Rows
      <4>4. Vouched(h)'
        BY <2>3, <3>1, <4>1, <4>2, <4>g DEF Vouched
      <4> QED BY <4>3, <4>4
    <3>3. CASE h = g
      <4>1. PICK w \in Cover : w = cover[g]
        BY <1>0, <1>4 DEF RollupTypeOK
      <4>2. w = cover'[g] /\ (w = NoCover \/ w.zone = Z)
        BY <1>9, <2>5, <4>1 DEF Agrees
      <4>3. Vouched(g)'
        BY <2>3, <2>7, <1>4, <3>1, <3>3, <4>1, <4>2 DEF Vouched
      <4>4. ASSUME g \notin strays' PROVE Spoken(g)' \subseteq {Z}
        <5>1. CASE w = NoCover
          <6>1. bare[g] \subseteq {Z}
            BY <1>4, <1>10, <2>2, <4>1, <4>4, <5>1 DEF Knows, Zoned
          <6> QED BY <1>10, <4>1, <4>2, <5>1, <6>1 DEF Spoken
        <5>2. CASE w # NoCover
          BY <4>2, <5>2 DEF Spoken
        <5> QED BY <5>1, <5>2
      <4>5. ASSUME g \notin strays', NEW b \in Buckets(g)
            PROVE  row'[g][b] = Zero \/ Good(g, b, Z)'
        <5>1. b \in Days
          BY DEF Buckets
        <5>2. CASE b \notin K
          <6>1. row'[g][b] = row[g][b] /\ (b \in owed'[g] <=> b \in owed[g])
            BY <1>10, <5>1, <5>2
          <6>2. row[g][b] = Zero \/ Good(g, b, Z)
            <7>1. CASE Spoken(g) = {}
              BY <3>1, <3>3, <5>1, <7>1 DEF Rows
            <7>2. CASE Spoken(g) # {}
              <8>1. Spoken(g) \subseteq Spoken(g)'
                BY <1>10, <4>1, <4>2 DEF Spoken
              <8>2. Z \in Spoken(g)
                BY <4>4, <4>5, <7>2, <8>1
              <8>3. g \notin strays
                BY <1>10, <4>5
              <8> QED BY <3>1, <3>3, <4>5, <8>2, <8>3 DEF Rows
            <7> QED BY <7>1, <7>2
          <6> QED BY <1>9, <2>t, <6>1, <6>2 DEF Good
        <5>3. CASE b \in K
          BY <2>6, <2>t, <4>5, <5>3 DEF Good
        <5> QED BY <5>2, <5>3
      <4>6. Spoken(g)' # {}
        BY <1>10, <4>1, <4>2 DEF Spoken
      <4>7. Rows(g)'
        BY <4>4, <4>5, <4>6 DEF Rows
      <4> QED BY <3>3, <4>3, <4>7
    <3> QED BY <3>2, <3>3
  <2>15. Tables'
    BY <2>14 DEF Tables
  <2> QED BY <2>13, <2>15
<1> QED BY <1>9, <1>11, <1>12 DEF RollupInv

\* A bucket of two windows that touch is a bucket of one of them.
LEMMA JoinedWindow ==
  ASSUME NEW g \in Grains, NEW b \in Int, Aligned(g, b),
         NEW f \in Int, NEW n \in Int, Aligned(g, n),
         NEW w \in Cover, Aligned(g, w.through), f <= w.through, n >= w.from,
         Earlier(f, w.from) <= b, After(g, b) <= Later(n, w.through)
  PROVE  (f <= b /\ After(g, b) <= n) \/ Covers(w, g, b)
<1>1. w.from \in Int /\ w.through \in Int /\ After(g, b) \in Int /\ b < After(g, b)
  BY CoverFacts, BucketFacts
<1>2. CASE b < f
  <2>1. b < w.through /\ w.from <= b
    BY <1>1, <1>2 DEF Earlier
  <2>2. After(g, b) <= w.through
    BY <1>1, <2>1, BucketsApart DEF Aligned
  <2> QED BY <2>1, <2>2 DEF Covers
<1>3. CASE b >= f /\ After(g, b) > n
  <2>1. ~(b < n)
    BY <1>1, <1>3, BucketsApart DEF Aligned
  <2>2. w.from <= b /\ After(g, b) <= w.through
    BY <1>1, <1>3, <2>1 DEF Later
  <2> QED BY <2>2 DEF Covers
<1> QED BY <1>1, <1>2, <1>3

LEMMA WriteCoverKeeps ==
  ASSUME RollupInv, NEW p \in Builders, WriteCover(p)
  PROVE  RollupInv'
<1>0. RollupTypeOK /\ TimeInv /\ Ranges /\ Basics
  BY DEF RollupInv, Basics
<1>1. PICK r \in Pass : pass[p] = r
  BY <1>0 DEF RollupTypeOK
<1> DEFINE g == r.grain
           Z == r.zone
           f == IF r.from <= r.first THEN 0 ELSE r.from
           n == BuiltBy(r)
           w == r.seen
           T == w.zone = Z /\ f <= w.through /\ n >= w.from
           F == IF T THEN Earlier(f, w.from) ELSE f
           H == IF T THEN Later(n, w.through) ELSE n
           W == [zone |-> Z, from |-> F, through |-> H]
           s == IF r.next < r.to THEN [r EXCEPT !.at = "build", !.seen = NoCover] ELSE NextGrain(r)
<1>2. /\ r.at = "bank" /\ PassOK(r) /\ g \in Grains /\ InZone(r) /\ Building(r) /\ ~Resets(r)
      /\ Z \in Zones /\ w \in Cover
  BY <1>0, <1>1, PassFacts DEF WriteCover, PassAt, Ranges, InZone, Resets, Building
<1>3. Touches(p, f) <=> T
  BY <1>1 DEF Touches, Built, BuiltBy
<1>4. /\ cover' = [cover EXCEPT ![g] = W]
      /\ pass' = [pass EXCEPT ![p] = s]
      /\ overlapped' = (overlapped \/ (Busy(p) /\ ~T /\ (w # NoCover \/ cover[g] # NoCover)))
      /\ bare' = [bare EXCEPT ![g] = {}]
  <2>1. Built(p) = n
    BY <1>1 DEF Built, BuiltBy
  <2>2. /\ cover' = [cover EXCEPT ![g] =
              [zone |-> Z, from |-> IF Touches(p, f) THEN Earlier(f, w.from) ELSE f,
               through |-> IF Touches(p, f) THEN Later(Built(p), w.through) ELSE Built(p)]]
        /\ pass' = [pass EXCEPT ![p] = s]
        /\ overlapped' = (overlapped \/ (Busy(p) /\ ~Touches(p, f)
                                         /\ (w # NoCover \/ cover[g] # NoCover)))
        /\ bare' = [bare EXCEPT ![g] = {}]
    BY <1>1 DEF WriteCover
  <2> QED BY <1>3, <2>1, <2>2
<1>5. UNCHANGED <<today, zone, raw, row, swept, owed, clearing, strays, missed, faults>>
  BY DEF WriteCover, truth
<1>6. /\ r.from \in Int /\ r.first \in Int /\ r.next \in Int /\ r.to \in Int /\ r.today \in Int
      /\ w.from \in Int /\ w.through \in Int /\ today \in Int /\ today <= MaxDay /\ r.today <= today
      /\ 1 <= r.from /\ w.from \in Days \cup {0} /\ 0 <= w.from
      /\ (w # NoCover => Aligned(g, w.through)) /\ w.through <= today
  <2>1. w.from \in Days \cup {0} /\ 0 <= w.from /\ w.from \in Int /\ w.through \in Int
    BY <1>2, CoverFacts DEF Cover
  <2>2. today \in Int /\ today <= MaxDay
    BY <1>0 DEF RollupTypeOK, Days
  <2> QED BY <1>2, <2>1, <2>2, PassFacts DEF PassOK
<1>7. /\ n \in Int /\ Aligned(g, n) /\ n <= r.next /\ n <= r.today /\ r.from < n
      /\ (g = "day" /\ r.next = r.to => n = r.today)
  <2>1. Bucket(g, r.today) \in Int /\ Bucket(g, r.today) <= r.today /\ Aligned(g, Bucket(g, r.today))
    BY <1>2, <1>6, BucketFacts DEF Aligned
  <2>2. Aligned(g, r.next) /\ r.from < n /\ (g = "day" => r.to = r.today + 1)
    BY <1>2 DEF PassOK
  <2>3. g = "day" => Bucket(g, r.today) = r.today
    BY DEF Bucket
  <2> QED BY <1>6, <2>1, <2>2, <2>3 DEF BuiltBy, Earlier
<1>8. f \in Int /\ f <= r.from /\ 0 <= f /\ f \in Days \cup {0}
  <2>1. r.from \in Days
    BY <1>6, <1>7, NumberFacts DEF Days
  <2> QED BY <1>6, <2>1
<1> HIDE DEF n, f
<1>9. /\ F \in Int /\ H \in Int /\ F <= f /\ n <= H /\ H <= today /\ F \in Days \cup {0}
      /\ (T => F <= w.from /\ w.through <= H)
  BY <1>6, <1>7, <1>8 DEF Earlier, Later
<1>10. W \in Cover /\ W.zone = Z /\ W.from = F /\ W.through = H /\ W # NoCover
  <2>1. H \in 0..(MaxDay + Week)
    BY <1>6, <1>7, <1>8, <1>9, NumberFacts
  <2>2. W \in Cover
    BY <1>2, <1>9, <2>1 DEF Cover
  <2>3. W.zone = Z /\ W.from = F /\ W.through = H
    OBVIOUS
  <2>4. Z # -1
    BY <1>2 DEF Zones
  <2> QED BY <2>2, <2>3, <2>4 DEF NoCover
<1>11. Aligned(g, H)
  <2>1. T => w # NoCover
    BY <1>2 DEF NoCover, Zones
  <2> QED BY <1>6, <1>7, <2>1 DEF Later
<1> DEFINE r0 == [r EXCEPT !.at = "read"]
<1>12. /\ r0 \in Pass /\ r0.at = "read" /\ r0.rebuild = r.rebuild /\ r0.zone = Z
       /\ r0.today = r.today /\ r0.first = r.first /\ r0.daily = r.daily /\ r0.grain = g
       /\ r0.from = r.from /\ r0.to = r.to /\ r0.next = r.next /\ r0.seen = r.seen
  BY DEF Pass
<1>13. NextGrain(r0) = NextGrain(r)
  BY DEF NextGrain, Done, Pass
<1>14. /\ InZone(r0) /\ Building(r0) /\ ~Resets(r0) /\ PassOK(r0)
  <2>1. InZone(r0) /\ Building(r0) /\ ~Resets(r0)
    BY <1>12 DEF InZone, Building, Resets
  <2> QED BY <1>2, <1>12, <2>1 DEF PassOK
<1> HIDE DEF r0
<1>15. /\ s \in Pass /\ s.at # "state" /\ ~Banks(s) /\ PassOK(s)
       /\ (InZone(s) => s.zone = Z)
       /\ Knows(r0)' /\ (g = "day" /\ r.next = r.to => DaysKnown(r0)') => Knows(s)'
  <2>1. CASE r.next < r.to
    <3> DEFINE u == [r EXCEPT !.at = "build", !.seen = NoCover]
    <3>1. s = u
      BY <2>1
    <3>u. u \in Pass /\ u.at = "build"
      BY NoPassFacts DEF Pass
    <3>v. /\ u.rebuild = r.rebuild /\ u.zone = Z
          /\ u.today = r.today /\ u.first = r.first /\ u.daily = r.daily /\ u.grain = g
          /\ u.from = r.from /\ u.to = r.to /\ u.next = r.next
      BY DEF Pass
    <3> HIDE DEF u, s
    <3>2. /\ s \in Pass /\ s.at = "build" /\ s.rebuild = r.rebuild /\ s.zone = Z
          /\ s.today = r.today /\ s.first = r.first /\ s.daily = r.daily /\ s.grain = g
          /\ s.from = r.from /\ s.to = r.to /\ s.next = r.next
      BY <3>1, <3>u, <3>v
    <3>3. InZone(s) /\ Building(s) /\ ~Resets(s) /\ ~Banks(s)
      BY <3>2 DEF InZone, Building, Resets, Banks
    <3>4. PassOK(s)
      BY <1>2, <2>1, <3>2, <3>3 DEF PassOK
    <3>5. Knows(r0)' => Knows(s)'
      BY <1>12, <1>14, <3>2, <3>3 DEF Knows, Zoned, Cleared, Made, Edges, Seen, Daily
    <3> QED BY <3>2, <3>3, <3>4, <3>5
  <2>2. CASE ~(r.next < r.to)
    <3>1. s = NextGrain(r0)
      BY <1>13, <2>2
    <3>2. s \in Pass
      BY <1>12, <3>1, NextGrainFacts
    <3> HIDE DEF s
    <3>3. r.next = r.to
      BY <1>2, <1>6, <2>2 DEF PassOK
    <3> QED BY <1>12, <1>14, <3>1, <3>2, <3>3, NextGrainKnows
  <2> QED BY <2>1, <2>2
<1> HIDE DEF s, F, H, W, T
<1>16. /\ cover' \in [Grains -> Cover] /\ cover'[g] = W /\ bare'[g] = {}
       /\ \A h \in Grains \ {g} : cover'[h] = cover[h] /\ bare'[h] = bare[h]
       /\ bare' \in [Grains -> SUBSET Zones]
  BY <1>0, <1>2, <1>4, <1>10 DEF RollupTypeOK
<1>17. Basics'
  <2>1. RollupTypeOK'
    <3>1. pass' \in [Builders -> Pass]
      BY <1>0, <1>4, <1>15, PassMoves
    <3>2. overlapped' \in BOOLEAN
      BY <1>0, <1>4 DEF RollupTypeOK
    <3>3. {swept, overlapped, missed}' \subseteq BOOLEAN
      BY <1>0, <1>5, <3>2 DEF RollupTypeOK
    <3> QED BY <1>0, <1>5, <1>16, <3>1, <3>3 DEF RollupTypeOK
  <2>2. TimeInv'
    <3>1. ASSUME NEW h \in Grains
          PROVE  /\ cover'[h].through <= today
                 /\ cover'[h] # NoCover => Aligned(h, cover'[h].through)
                 /\ cover'[h].zone = -1 => cover'[h] = NoCover
                 /\ h = "day" => cover'[h].from <= cover'[h].through
      <4>1. CASE h = g
        <5>1. H <= today /\ F <= H
          BY <1>6, <1>7, <1>8, <1>9
        <5>2. Z # -1
          BY <1>2 DEF Zones
        <5> QED BY <1>10, <1>11, <1>16, <4>1, <5>1, <5>2
      <4>2. CASE h # g
        BY <1>0, <1>16, <4>2 DEF TimeInv
      <4> QED BY <4>1, <4>2
    <3> QED BY <1>0, <1>5, <3>1 DEF TimeInv, Grains
  <2>3. Ranges'
    <3>1. PassOK(s)' /\ today' \in Int /\ today <= today'
      BY <1>5, <1>6, <1>15 DEF PassOK
    <3> QED BY <1>0, <1>4, <1>15, <3>1, RangesKept
  <2> QED BY <2>1, <2>2, <2>3 DEF Basics
<1>18. ASSUME ~overlapped' PROVE Tables' /\ Passes' /\ Pairs'
  <2>1. Tables /\ Passes /\ Pairs /\ ~overlapped
    BY <1>4, <1>18 DEF RollupInv
  <2>2. Knows(r)
    BY <1>1, <2>1 DEF Passes
  <2>3. Agrees(Z, g) /\ (cover[g] = NoCover /\ g \notin strays => bare[g] \subseteq {Z})
    BY <1>2, <2>2 DEF Knows, Zoned
  <2>4. \A h, b, z : Good(h, b, z) <=> Good(h, b, z)'
    BY <1>5 DEF Good, Truth, Visitors, Local
  <2>5. \A h : Clean(h)' <=> Clean(h)
    BY <1>5 DEF Clean
  <2>6. ASSUME NEW h \in Grains PROVE Agrees(Z, h)' <=> Agrees(Z, h)
    BY <1>10, <1>16, <2>3, <2>6 DEF Agrees
  <2>7. ASSUME NEW h \in Grains, NEW b, Blank(h, b, Z) PROVE Blank(h, b, Z)'
    <3>1. Truth(h, b, Z)' = Truth(h, b, Z)
      BY <1>5 DEF Truth, Visitors, Local
    <3> QED BY <1>5, <2>5, <2>6, <2>7, <3>1 DEF Blank
  <2>8. ASSUME Clean(g), NEW b \in Buckets(g), Covers(W, g, b) PROVE Good(g, b, Z)
    <3>1. b \in Int /\ b \in Days /\ Aligned(g, b) /\ After(g, b) \in Int /\ b < After(g, b)
      BY <1>2, BucketFacts DEF Buckets, Days, Aligned
    <3>2. ASSUME f <= b, After(g, b) <= n PROVE Good(g, b, Z)
      <4>1. CASE r.from <= b
        <5>1. After(g, b) <= r.next
          BY <1>6, <1>7, <3>1, <3>2
        <5> QED BY <1>2, <2>2, <2>8, <4>1, <5>1 DEF Knows, Made
      <4>2. CASE b < r.from
        <5>1. r.from <= r.first
          BY <1>6, <3>1, <3>2, <4>2 DEF f
        <5>2. After(g, b) <= r.from
          BY <1>2, <1>6, <3>1, <4>2, BucketsApart DEF PassOK, Aligned
        <5>3. After(g, b) <= r.first
          BY <1>6, <3>1, <5>1, <5>2
        <5>4. Blank(g, b, Z)
          BY <1>2, <2>2, <5>3 DEF Knows, Edges
        <5>5. cover[g] = NoCover => bare[g] \subseteq {Z}
          BY <2>3, <2>8 DEF Clean
        <5> QED BY <1>2, <2>1, <2>3, <2>8, <5>4, <5>5, BlankGood
      <4> QED BY <1>6, <3>1, <4>1, <4>2
    <3>3. CASE T
      <4>1. w # NoCover
        BY <1>2, <3>3 DEF NoCover, Zones, T
      <4>2. f <= w.through /\ n >= w.from /\ F = Earlier(f, w.from) /\ H = Later(n, w.through)
        BY <3>3 DEF T, F, H
      <4>3. Earlier(f, w.from) <= b /\ After(g, b) <= Later(n, w.through)
        BY <1>10, <2>8, <4>2 DEF Covers
      <4>4. (f <= b /\ After(g, b) <= n) \/ Covers(w, g, b)
        BY <1>2, <1>6, <1>7, <1>8, <3>1, <4>1, <4>2, <4>3, JoinedWindow
      <4>5. Covers(w, g, b) => Good(g, b, Z)
        BY <1>2, <2>2, <2>8, <4>1 DEF Knows, Seen
      <4> QED BY <3>2, <4>4, <4>5
    <3>4. CASE ~T
      <4>1. F = f /\ H = n
        BY <3>4 DEF F, H
      <4> QED BY <1>10, <2>8, <3>2, <4>1 DEF Covers
    <3> QED BY <3>3, <3>4
  <2>9. ASSUME g = "day", Clean("day"), NEW d \in Days, F <= d, d < H PROVE Good("day", d, Z)
    <3>1. d \in Buckets("day") /\ After("day", d) = d + 1 /\ d \in Int
      BY DayBuckets DEF Days
    <3>2. Covers(W, "day", d)
      BY <1>9, <1>10, <2>9, <3>1 DEF Covers
    <3> QED BY <2>8, <2>9, <3>1, <3>2
  <2>10. Knows(r0)'
    <3>1. Zoned(r0)'
      BY <1>2, <1>10, <1>12, <1>14, <1>16, <2>6, <2>3 DEF Zoned
    <3>2. Made(r0)'
      BY <1>2, <1>12, <2>2, <2>4, <2>5 DEF Knows, Made
    <3>3. Edges(r0)'
      BY <1>2, <1>12, <2>2, <2>7 DEF Knows, Edges
    <3>4. Daily(r0)'
      BY <1>2, <1>12, <2>2, <2>4, <2>5 DEF Knows, Daily
    <3> QED BY <1>12, <3>1, <3>2, <3>3, <3>4 DEF Knows, Cleared, Seen
  <2>11. ASSUME g = "day", r.next = r.to PROVE DaysKnown(r0)'
    <3>1. ASSUME Clean("day"), NEW d \in Days, F <= d PROVE Good("day", d, Z)
      <4>0. d \in Int
        BY DEF Days
      <4>1. CASE d < H
        BY <2>9, <2>11, <3>1, <4>1
      <4>2. CASE ~(d < H)
        <5>1. r.from <= d
          BY <1>6, <1>7, <1>9, <4>0, <4>2
        <5> QED BY <1>0, <1>2, <2>1, <2>2, <2>11, <3>1, <5>1, DaysBuilt
      <4> QED BY <4>1, <4>2
    <3>2. cover'["day"].from = F /\ cover'["day"] # NoCover
      BY <1>10, <1>16, <2>11
    <3>3. ASSUME Clean("day")', NEW d \in Days, cover'["day"].from <= d
          PROVE  Good("day", d, r0.zone)'
      BY <1>12, <2>4, <2>5, <3>1, <3>2, <3>3
    <3>4. Agrees(r0.zone, "day")'
      BY <1>2, <1>12, <2>3, <2>6, <2>11
    <3> QED BY <3>2, <3>3, <3>4 DEF DaysKnown
  <2>12. Knows(s)'
    BY <1>15, <2>10, <2>11
  <2>13. ASSUME NEW t \in Pass, InZone(t), t.zone = Z, t.at # "state", Knows(t),
                ~T => cover[g] = NoCover,
                T => Pair(r, t) /\ Pair(t, r)
         PROVE  Knows(t)'
    <3>0. t.grain \in Grains /\ t.seen \in Cover /\ t.seen.from \in Int /\ t.seen.through \in Int
      <4>1. t.grain \in Grains /\ t.seen \in Cover
        BY PassFacts
      <4> QED BY <4>1, CoverFacts
    <3>1. Zoned(t)'
      <4>1. Building(t) => Agrees(Z, t.grain)'
        BY <2>6, <2>13, <3>0 DEF Knows, Zoned
      <4>2. ASSUME Building(t), cover'[t.grain] = NoCover, t.grain \notin strays'
            PROVE  bare'[t.grain] \subseteq {Z}
        <5>1. t.grain \in Grains \ {g}
          BY <1>10, <1>16, <3>0, <4>2
        <5> QED BY <1>5, <1>16, <2>13, <4>2, <5>1 DEF Knows, Zoned
      <4>3. Resets(t) => ~Agrees(Z, t.grain)'
        BY <2>6, <2>13, <3>0 DEF Knows, Zoned
      <4>4. t.at = "daily" => Agrees(Z, "day")'
        BY <2>6, <2>13 DEF Knows, Zoned, Grains
      <4> QED BY <2>13, <4>1, <4>2, <4>3, <4>4 DEF Zoned
    <3>2. Made(t)'
      BY <2>4, <2>5, <2>13 DEF Knows, Made
    <3>3. Edges(t)'
      BY <2>7, <2>13 DEF Knows, Edges
    <3>4. Seen(t)'
      <4> SUFFICES ASSUME t.at = "bank", t.seen # NoCover PROVE Seen(t)'
        BY DEF Seen
      <4>1. Seen(t)
        BY <2>13 DEF Knows
      <4>2. t.grain = "day" => /\ cover'["day"] # NoCover
                               /\ cover'["day"].from <= t.seen.through
                               /\ t.seen.from <= cover'["day"].through
        <5>1. CASE g # "day"
          BY <1>16, <4>1, <5>1 DEF Seen, Grains
        <5>2. CASE g = "day"
          <6> SUFFICES ASSUME t.grain = "day" PROVE F <= t.seen.through /\ t.seen.from <= H
            BY <1>10, <1>16, <5>2
          <6>1. T
            BY <2>13, <4>1, <5>2 DEF Seen
          <6>2. w # NoCover
            BY <1>2, <6>1 DEF T, NoCover, Zones
          <6>3. Banks(r) /\ Banks(t)
            BY <1>2, <5>2, <6>2 DEF Banks
          <6>4. w.from <= t.seen.through /\ t.seen.from <= w.through
            BY <2>13, <6>1, <6>3 DEF Pair
          <6> QED BY <1>6, <1>9, <3>0, <6>1, <6>4
        <5> QED BY <5>1, <5>2
      <4> QED BY <2>4, <2>5, <4>1, <4>2 DEF Seen
    <3>5. Daily(t)'
      <4> SUFFICES ASSUME Clean("day") PROVE Daily(t)'
        BY <2>5 DEF Daily
      <4>1. ASSUME t.at = "daily", NEW d \in Days,
                   cover'["day"] = NoCover \/ cover'["day"].from <= d
            PROVE  Good("day", d, Z)
        <5>0. "day" \in Grains /\ d \in Int
          BY DEF Grains, Days
        <5>1. cover["day"] = NoCover \/ cover["day"].from <= d => Good("day", d, Z)
          BY <2>13, <4>1 DEF Knows, Daily
        <5>2. CASE g # "day"
          BY <1>16, <4>1, <5>0, <5>1, <5>2
        <5>3. CASE g = "day"
          <6>1. F <= d
            BY <1>10, <1>16, <4>1, <5>3
          <6>2. SUFFICES ASSUME cover["day"] # NoCover PROVE d < H \/ cover["day"].from <= d
            BY <2>9, <5>1, <5>3, <6>1
          <6>3. T
            BY <2>13, <5>3, <6>2
          <6>4. w # NoCover
            BY <1>2, <6>3 DEF T, NoCover, Zones
          <6>5. cover["day"].from <= w.through
            BY <1>2, <2>2, <5>3, <6>4 DEF Knows, Seen
          <6>6. cover["day"].from \in Int
            BY <1>0, <5>0, CoverFacts DEF RollupTypeOK
          <6> QED BY <1>6, <1>9, <5>0, <6>3, <6>5, <6>6
        <5> QED BY <5>2, <5>3
      <4> QED BY <2>4, <2>13, <4>1 DEF Knows, Daily
    <3> QED BY <2>13, <3>1, <3>2, <3>3, <3>4, <3>5 DEF Knows, Cleared
  <2>14. Passes' /\ Pairs'
    <3>1. CASE ~Busy(p)
      <4>1. ASSUME NEW q \in Builders, q # p PROVE pass[q].at = "idle"
        BY <3>1, <4>1 DEF Busy, PassAt
      <4> QED BY <1>0, <1>4, <1>15, <2>12, <4>1, PassesAtRest
    <3>2. CASE Busy(p)
      <4>1. ~T => cover[g] = NoCover
        BY <1>4, <1>18, <3>2
      <4>2. ASSUME NEW t \in Pass, Pair(r, t), Pair(t, r), Apart(r, t), Apart(t, r), Knows(t)
            PROVE  Knows(t)' /\ Pair(s, t) /\ Pair(t, s) /\ Apart(s, t) /\ Apart(t, s)
        <5>1. t.at # "state" /\ (InZone(t) => t.zone = Z)
          BY <1>2, <4>2 DEF Apart, Pair
        <5>2. Knows(t)'
          <6>1. CASE InZone(t)
            BY <2>13, <4>1, <4>2, <5>1, <6>1
          <6>2. CASE ~InZone(t)
            BY <5>1, <6>2, NothingKnown
          <6> QED BY <6>1, <6>2
        <5>3. Pair(s, t) /\ Pair(t, s) /\ Apart(s, t) /\ Apart(t, s)
          BY <1>2, <1>15, <4>2, PairGoesOn
        <5> QED BY <5>2, <5>3
      <4> QED BY <1>0, <1>1, <1>4, <1>15, <2>1, <2>12, <4>2, PassesOn
    <3> QED BY <3>1, <3>2
  <2>15. ASSUME NEW h \in Grains PROVE Rows(h)' /\ Vouched(h)'
    <3>1. Rows(h) /\ Vouched(h)
      BY <2>1 DEF Tables
    <3>2. CASE h # g
      <4>1. PICK S, v : S = Spoken(h) /\ v = cover[h]
        OBVIOUS
      <4>2. S = Spoken(h)' /\ v = cover'[h]
        BY <1>16, <3>2, <4>1 DEF Spoken
      <4>3. Rows(h)'
        BY <1>5, <2>4, <3>1, <4>1, <4>2 DEF Rows
      <4>4. Vouched(h)'
        BY <2>4, <2>5, <3>1, <4>1, <4>2 DEF Vouched
      <4> QED BY <4>3, <4>4
    <3>3. CASE h = g
      <4>1. Vouched(g)'
        BY <1>10, <1>16, <2>4, <2>5, <2>8 DEF Vouched
      <4>2. Spoken(g)' = {Z}
        BY <1>10, <1>16 DEF Spoken
      <4>3. ASSUME g \notin strays, NEW b \in Buckets(g)
            PROVE  row[g][b] = Zero \/ Good(g, b, Z)
        <5>1. Spoken(g) \subseteq {Z}
          BY <2>3, <4>3 DEF Spoken, Agrees
        <5>2. CASE Spoken(g) = {}
          BY <3>1, <3>3, <5>2 DEF Rows, Buckets
        <5>3. CASE Z \in Spoken(g)
          BY <3>1, <3>3, <4>3, <5>3 DEF Rows
        <5> QED BY <5>1, <5>2, <5>3
      <4>4. Rows(g)'
        BY <1>5, <2>4, <4>2, <4>3 DEF Rows
      <4> QED BY <3>3, <4>1, <4>4
    <3> QED BY <3>2, <3>3
  <2>16. Tables'
    BY <2>15 DEF Tables
  <2> QED BY <2>14, <2>16
<1> QED BY <1>4, <1>17, <1>18 DEF RollupInv

-----------------------------------------------------------------------------
(***************************************************************************)
(* The theorems.                                                           *)
(***************************************************************************)

LEMMA InitInv == RollupInit => RollupInv
<1> SUFFICES ASSUME RollupInit PROVE RollupInv
  OBVIOUS
<1>1. /\ FirstDay \in Int /\ 1 <= FirstDay /\ Zero \in Row /\ NoPass \in Pass /\ NoCover \in Cover
      /\ NoCover.through = 0 /\ NoCover.from = 0 /\ NoCover.zone = -1
  BY NumberFacts, NoPassFacts DEF Days, Zero, Row, NoCover
<1>2. RollupTypeOK
  <2>1. today \in Days /\ zone \in Zones /\ raw \subseteq Events /\ faults \in Nat
    BY RollupAssumption DEF RollupInit, Zones
  <2>2. row \in [Grains -> [Days -> Row]] /\ cover \in [Grains -> Cover] /\ pass \in [Builders -> Pass]
    BY <1>1 DEF RollupInit
  <2>3. /\ owed \in [Grains -> SUBSET (0..(MaxDay + 2))]
        /\ clearing \subseteq Grains /\ strays \subseteq Grains
        /\ bare \in [Grains -> SUBSET Zones]
    BY DEF RollupInit
  <2>4. {swept, overlapped, missed} \subseteq BOOLEAN
    BY DEF RollupInit
  <2> QED BY <2>1, <2>2, <2>3, <2>4 DEF RollupTypeOK
<1>3. TimeInv
  <2>1. \A e \in raw : e[1] + e[2] <= today
    BY RollupAssumption DEF RollupInit
  <2> QED BY <1>1, <2>1 DEF RollupInit, TimeInv, Grains
<1>4. /\ ~InZone(NoPass) /\ ~Building(NoPass) /\ ~Resets(NoPass)
      /\ NoPass.at = "idle" /\ NoPass.today = 0
  BY NoPassFacts DEF InZone, Building, Resets
<1>5. Ranges
  <2>1. PassOK(NoPass)
    BY <1>1, <1>4 DEF PassOK, RollupInit
  <2> QED BY <2>1 DEF Ranges, RollupInit
<1>6. Tables
  BY DEF Tables, Rows, Vouched, Spoken, RollupInit, Buckets
<1>7. Passes
  BY <1>1, <1>4, NothingKnown DEF Passes, RollupInit
<1>8. Pairs
  <2>1. ASSUME NEW p \in Builders PROVE pass[p] = NoPass
    BY DEF RollupInit
  <2>2. Pair(NoPass, NoPass) /\ Apart(NoPass, NoPass)
    BY <1>1, <1>4, PairGone
  <2> QED BY <2>1, <2>2 DEF Pairs
<1> QED BY <1>2, <1>3, <1>5, <1>6, <1>7, <1>8 DEF RollupInv, Basics

LEMMA NextKeeps == RollupInv /\ [RollupNext]_rollupVars => RollupInv'
<1> SUFFICES ASSUME RollupInv, [RollupNext]_rollupVars PROVE RollupInv'
  OBVIOUS
<1>1. ASSUME NEW e \in Events, Arrive(e) PROVE RollupInv'
  BY <1>1, ArriveKeeps
<1>2. CASE Midnight
  BY <1>2, MidnightKeeps
<1>3. CASE ChangeZone
  BY <1>3, ChangeZoneKeeps
<1>4. ASSUME NEW p \in Builders, StartRebuild(p) PROVE RollupInv'
  BY <1>4, StartRebuildKeeps
<1>5. ASSUME NEW p \in Builders, Start(p) PROVE RollupInv'
  BY <1>5, StartKeeps
<1>6. ASSUME NEW p \in Builders, Crash(p) PROVE RollupInv'
  BY <1>6, CrashKeeps
<1>7. ASSUME NEW p \in Builders, Step(p) PROVE RollupInv'
  <2>1. CASE Window(p)
    BY <2>1, WindowKeeps
  <2>2. CASE ClearRows(p)
    BY <2>2, ClearRowsKeeps
  <2>3. CASE ClearState(p)
    BY <2>3, ClearStateKeeps
  <2>4. CASE Build(p)
    BY <2>4, BuildKeeps
  <2>5. CASE ReadCover(p)
    BY <2>5, ReadCoverKeeps
  <2>6. CASE WriteCover(p)
    BY <2>6, WriteCoverKeeps
  <2>7. CASE DailyWindow(p)
    BY <2>7, DailyWindowKeeps
  <2>8. CASE PruneRows(p)
    BY <2>8, PruneRowsKeeps
  <2>9. CASE PruneState(p)
    BY <2>9, PruneStateKeeps
  <2> QED BY <1>7, <2>1, <2>2, <2>3, <2>4, <2>5, <2>6, <2>7, <2>8, <2>9 DEF Step
<1>8. CASE UNCHANGED rollupVars
  <2>1. UNCHANGED <<today, zone, raw, row, cover, pass, swept, owed, clearing, bare, strays,
                    overlapped, missed, faults>>
    BY <1>8 DEF rollupVars, truth, history, origin
  <2>2. Basics'
    BY <2>1 DEF RollupInv, Basics, RollupTypeOK, TimeInv, Ranges, PassOK
  <2>3. ASSUME ~overlapped' PROVE Tables' /\ Passes' /\ Pairs'
    <3>1. Tables /\ Passes /\ Pairs
      BY <2>1, <2>3 DEF RollupInv
    <3>2. Tables'
      BY <2>1, <3>1, TablesKept
    <3>3. ASSUME NEW t \in Pass, Knows(t) PROVE Knows(t)'
      BY <2>1, <3>3, KnowsKept
    <3>4. Passes'
      BY <2>1, <3>1, <3>3 DEF Passes
    <3>5. Pairs'
      BY <2>1, <3>1 DEF Pairs
    <3> QED BY <3>2, <3>4, <3>5
  <2> QED BY <2>2, <2>3 DEF RollupInv
<1> QED BY <1>1, <1>2, <1>3, <1>4, <1>5, <1>6, <1>7, <1>8 DEF RollupNext

LEMMA InvTrusted == RollupInv => Trusted
<1> SUFFICES ASSUME RollupInv, ~overlapped,
                    NEW g \in Grains, g \notin clearing \cup strays, NEW b \in Buckets(g),
                    Covered(g, b), b \in owed[g] => today \in DaysOf(g, b),
                    g = "hour" => b >= today - Retention
             PROVE  row[g][b] = Truth(g, b, zone)
  BY DEF Trusted
<1>1. RollupTypeOK /\ TimeInv /\ Vouched(g) /\ Clean(g)
  BY DEF RollupInv, Basics, Tables, Clean
<1>2. PICK w \in Cover : cover[g] = w
  BY <1>1 DEF RollupTypeOK
<1>3. /\ b \in Int /\ After(g, b) \in Int /\ b < After(g, b) /\ today \in Int
      /\ w.through \in Int /\ w.through <= today /\ Retention \in Int
  <2>1. b \in Int /\ today \in Int /\ Retention \in Int
    BY <1>1, NumberFacts DEF Buckets, Days, RollupTypeOK
  <2>2. After(g, b) \in Int /\ b < After(g, b)
    BY <2>1, BucketFacts
  <2>3. w.through \in Int
    BY CoverFacts
  <2>4. w.through <= today
    BY <1>1, <1>2 DEF TimeInv
  <2> QED BY <2>1, <2>2, <2>3, <2>4
<1>4. w.zone = zone /\ Covers(w, g, b) /\ w # NoCover
  <2>1. zone # -1
    BY <1>1 DEF RollupTypeOK, Zones
  <2> QED BY <1>2, <2>1 DEF Covered, Covers, NoCover
<1>5. Good(g, b, zone)
  BY <1>1, <1>2, <1>4 DEF Vouched
<1>6. b \notin owed[g]
  <2>1. today \notin DaysOf(g, b)
    BY <1>3, <1>4 DEF DaysOf, Covers
  <2> QED BY <2>1
<1>7. ~(g = "hour" /\ b < today - Retention)
  BY <1>3
<1> QED BY <1>5, <1>6, <1>7 DEF Good

\* What RollupInv says holds at every step of every pass, so that no interleaving of the
\* server's passes with the commands' leaves a window over rows nobody vouches for.
THEOREM RollupInvHolds == RollupSpec => []RollupInv
  BY InitInv, NextKeeps, PTL DEF RollupSpec

\* Every variable holds a value of its kind, a week that is summed out of days that were
\* summed wrong included (deriveTable in internal/rollup/rollup.go).
THEOREM RollupTypeCorrect == RollupSpec => []RollupTypeOK
<1>1. RollupInv => RollupTypeOK
  BY DEF RollupInv, Basics
<1> QED BY <1>1, RollupInvHolds, PTL

\* A report that RollupRouter answers from the summary says what the events say, at
\* every moment of every pass, reset, prune, crash and change of zone, for any calendar,
\* any events and any number of `rollup` commands (internal/rollup/rollup.go,
\* internal/query/rollup.go).
THEOREM TrustedHolds == RollupSpec => []Trusted
  BY RollupInvHolds, InvTrusted, PTL
=============================================================================
