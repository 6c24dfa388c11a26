---------------------------- MODULE SiteErase ----------------------------
(***************************************************************************)
(* The reset and the deletion of a site (internal/destructive).  The       *)
(* site's row and the operation's are in system.db, its analytics and the  *)
(* records of its exports in the account's database, the archives in the   *)
(* file system; no transaction spans two of them.  The operation's row,    *)
(* with a lease, is what transfers and other operations consult meanwhile. *)
(* A crashed operation is taken up only when somebody asks for it again.   *)
(*                                                                         *)
(* Events and exports go on beside it.  Of what a site has in the          *)
(* account's database only its events and its exports are kept apart here; *)
(* imports are removed as exports are, by a deletion only.                 *)
(***************************************************************************)
EXTENDS Integers

CONSTANTS
    Teams,         \* teams that may own the site
    Storage,       \* the team whose account stores it: sites.account_id
    Requests,      \* requests to reset or delete, one at a time each
    MaxFacts,      \* model bound: events
    MaxJobs,       \* model bound: exports
    MaxClaims,     \* model bound: claims, each with a token
    MaxUpsets      \* model bound: failures, slow workers and transfers

ASSUME SiteEraseAssumption ==
    /\ Storage \in Teams /\ "none" \notin Teams
    /\ {MaxFacts, MaxJobs, MaxClaims, MaxUpsets} \subseteq Nat

VARIABLES
    owner,         \* sites.owner_team_id; None once the row is deleted
    closing,       \* teams with an operation row of their own
    op,            \* the site's row in destructive_operations
    data,          \* its events
    record,        \* its rows in exports
    file,          \* the archive of each export id: the job that wrote it
    job,           \* export jobs
    request,       \* what each request is doing
    facts,         \* history: events stored so far
    doomed,        \* history: events and archives the operation was claimed over
    overrun,       \* history: a request outlasted its lease
    tokens,        \* claims so far
    upsets         \* upsets spent

vars == <<owner, closing, op, data, record, file, job, request, facts, doomed,
          overrun, tokens, upsets>>
analytics == <<data, record, file>>
counts == <<facts, tokens, upsets>>

None == "none"
Kinds == {"reset", "delete"}
Jobs == 1..MaxJobs
Ids == 1..MaxJobs
NoOp == [kind |-> None, owner |-> None, state |-> None, token |-> 0, live |-> FALSE]
Op == [kind : Kinds, owner : Teams, state : {"claimed", "analytics_deleted"},
       token : 1..MaxClaims, live : BOOLEAN]
Idle == [at |-> "idle", kind |-> None, owner |-> None, token |-> 0, paths |-> {}]
Request == [at : {"asked", "rows", "files", "records", "mark", "finish"},
            kind : Kinds, owner : Teams, token : 0..MaxClaims, paths : SUBSET Ids]
NoJob == [at |-> None, id |-> 0, row |-> FALSE]
Job == [at : {None, "created", "queued", "running", "built", "over"}, id : 0..MaxJobs,
        row : BOOLEAN]

Exists == owner # None
Upset == upsets < MaxUpsets /\ upsets' = upsets + 1
At(r, at) == request[r].at = at
Goes(r, at) == request' = [request EXCEPT ![r].at = at]

-----------------------------------------------------------------------------
(***************************************************************************)
(* The site's life beside the operation.                                   *)
(***************************************************************************)

\* An event is stored, also of a site whose row was deleted a moment ago.
Store ==
    /\ facts < MaxFacts
    /\ facts' = facts + 1
    /\ data' = data \cup {facts'}
    /\ UNCHANGED <<owner, closing, op, record, file, job, request, doomed, overrun,
                   tokens, upsets>>

\* createExport: a record, whose id SQLite may have given before, and a job.
NewId(x) == /\ \A y \in Ids : record[y] # None => y < x
            /\ x # 1 => record[x - 1] # None
CreateExport(j) ==
    /\ Exists /\ job[j] = NoJob
    /\ \A i \in Jobs : i < j => job[i] # NoJob
    /\ \E x \in Ids :
          /\ NewId(x)
          /\ record' = [record EXCEPT ![x] = "pending"]
          /\ job' = [job EXCEPT ![j] = [at |-> "created", id |-> x, row |-> FALSE]]
    /\ UNCHANGED <<owner, closing, op, data, file, request, doomed, overrun, counts>>
\* The unique key refuses a second live job of one id.
Taken(x) == \E j \in Jobs : job[j].row /\ job[j].id = x
EnqueueExport(j) ==
    /\ job[j].at = "created"
    /\ job' = [job EXCEPT ![j] =
          IF Taken(@.id) THEN [@ EXCEPT !.at = "over"]
                         ELSE [@ EXCEPT !.at = "queued", !.row = TRUE]]
    /\ UNCHANGED <<owner, closing, op, analytics, request, doomed, overrun, counts>>

\* RunExport: the archive is written under a path made of the id, then recorded.  An
\* export that fails leaves what one that waits for ever leaves.
BuildExport(j) ==
    /\ job[j].at \in {"queued", "running"}
    /\ job' = [job EXCEPT ![j].at = IF @ = "queued" THEN "running" ELSE "built"]
    /\ file' = IF job[j].at = "queued" THEN file ELSE [file EXCEPT ![job[j].id] = j]
    /\ UNCHANGED <<owner, closing, op, data, record, request, doomed, overrun, counts>>
CompleteExport(j) ==
    LET x == job[j].id IN
    /\ job[j].at = "built"
    /\ record' = [record EXCEPT ![x] = IF @ = None THEN None ELSE "completed"]
    /\ job' = [job EXCEPT ![j] = [@ EXCEPT !.at = "over", !.row = FALSE]]
    /\ UNCHANGED <<owner, closing, op, data, file, request, doomed, overrun, counts>>

\* The site's jobs are deleted; one that runs already is not stopped.
Stopped == [j \in Jobs |-> [job[j] EXCEPT !.row = FALSE,
                                          !.at = IF @ = "queued" THEN "over" ELSE @]]

\* TransferSiteFrom.
Transferable(t) == op = NoOp /\ closing \cap {owner, t} = {}
Transfer(t) ==
    /\ Exists /\ t # owner /\ Transferable(t) /\ Upset
    /\ owner' = t /\ job' = Stopped
    /\ UNCHANGED <<closing, op, analytics, request, facts, doomed, overrun, tokens>>

\* claimTeamOperationTx: the deletion of the account is claimed.
CloseTeam ==
    /\ owner = Storage /\ Storage \notin closing /\ Upset
    /\ closing' = closing \cup {Storage}
    /\ UNCHANGED <<owner, op, analytics, job, request, facts, doomed, overrun, tokens>>

-----------------------------------------------------------------------------
(***************************************************************************)
(* ResetSite and DeleteSite.                                               *)
(***************************************************************************)

\* The handler resolves the site and its team, ...
Ask(r) ==
    /\ At(r, "idle") /\ Exists
    /\ \E kind \in Kinds : request' =
          [request EXCEPT ![r] = [at |-> "asked", kind |-> kind, owner |-> owner,
                                  token |-> 0, paths |-> {}]]
    /\ UNCHANGED <<owner, closing, op, analytics, job, doomed, overrun, counts>>

\* ... and claimSite looks again: a new claim, or one that a request of the same
\* kind left behind.
Fresh(r) == op = NoOp /\ request[r].owner \notin closing
\* Mutant: the lease is not looked at.
LeftOrHeld(r) == op.kind = request[r].kind /\ op.owner = request[r].owner
LeftBehind(r) ==
    op.kind = request[r].kind /\ op.owner = request[r].owner /\ ~op.live

\* siteFilePaths.
Named == {x \in Ids : record[x] = "completed"}

Claim(r) ==
    /\ At(r, "asked") /\ tokens < MaxClaims
    /\ IF owner = request[r].owner /\ (Fresh(r) \/ LeftBehind(r))
       THEN /\ tokens' = tokens + 1
            /\ op' = IF op # NoOp THEN [op EXCEPT !.token = tokens', !.live = TRUE]
                     ELSE [kind |-> request[r].kind, owner |-> owner, state |-> "claimed",
                           token |-> tokens', live |-> TRUE]
            /\ request' = [request EXCEPT ![r] = [@ EXCEPT !.at = "rows", !.token = tokens']]
            /\ doomed' = IF op # NoOp THEN doomed
                         ELSE [data |-> data,
                               files |-> {file[x] : x \in Named} \ {0}]
       ELSE /\ request' = [request EXCEPT ![r] = Idle]
            /\ UNCHANGED <<op, tokens, doomed>>
    /\ UNCHANGED <<owner, closing, analytics, job, overrun, facts, upsets>>

\* eraseSite, which does not look at the claim again: the events and what else the
\* site has, except the records that name its files; ...
\* Mutant: the records go with the events.
NoneKept == [x \in Ids |-> None]
Kept == record
EraseRows(r) ==
    /\ At(r, "rows")
    /\ data' = {}
    /\ record' = Kept
    /\ request' = [request EXCEPT ![r] = [@ EXCEPT !.at = "files", !.paths = Named]]
    /\ UNCHANGED <<owner, closing, op, file, job, doomed, overrun, counts>>

\* ... the files, one by one; ...
RemoveFile(r) ==
    /\ At(r, "files")
    /\ IF request[r].paths = {}
       THEN Goes(r, "records") /\ UNCHANGED file
       ELSE \E x \in request[r].paths :
               /\ file' = [file EXCEPT ![x] = 0]
               /\ request' = [request EXCEPT ![r].paths = @ \ {x}]
    /\ UNCHANGED <<owner, closing, op, data, record, job, doomed, overrun, counts>>

\* ... and the records, whichever are there by now.
EraseRecords(r) ==
    /\ At(r, "records")
    /\ record' = [x \in Ids |-> None]
    /\ Goes(r, "mark")
    /\ UNCHANGED <<owner, closing, op, data, file, job, doomed, overrun, counts>>

\* markAnalyticsDeleted, which renews the lease.
Holds(r) == op.kind = request[r].kind /\ op.token = request[r].token
Mark(r) ==
    /\ At(r, "mark")
    /\ IF Holds(r)
       THEN /\ op' = [op EXCEPT !.state = "analytics_deleted", !.live = TRUE]
            /\ Goes(r, "finish")
       ELSE UNCHANGED op /\ request' = [request EXCEPT ![r] = Idle]
    /\ UNCHANGED <<owner, closing, analytics, job, doomed, overrun, counts>>

\* finishSite: the site's jobs and the operation's row, with a deletion the site's
\* too.
Finish(r) ==
    /\ At(r, "finish")
    /\ IF owner = request[r].owner /\ Holds(r) /\ op.state = "analytics_deleted"
       THEN /\ op' = NoOp /\ job' = Stopped
            /\ owner' = IF request[r].kind = "delete" THEN None ELSE owner
       ELSE UNCHANGED <<op, job, owner>>
    /\ request' = [request EXCEPT ![r] = Idle]
    /\ UNCHANGED <<closing, analytics, doomed, overrun, counts>>

\* A statement fails, or the process dies.
Fails(r) ==
    /\ ~At(r, "idle") /\ ~At(r, "asked") /\ Upset
    /\ request' = [request EXCEPT ![r] = Idle]
    /\ UNCHANGED <<owner, closing, op, analytics, job, facts, doomed, overrun, tokens>>

\* The lease runs out, on a request that failed or on one that is slow.
Working == \E r \in Requests : op.token = request[r].token /\ request[r].token # 0
LeaseExpires ==
    /\ op.live
    /\ op' = [op EXCEPT !.live = FALSE]
    /\ IF Working THEN Upset /\ overrun' = TRUE ELSE UNCHANGED <<upsets, overrun>>
    /\ UNCHANGED <<owner, closing, analytics, job, request, facts, doomed, tokens>>

-----------------------------------------------------------------------------
Init ==
    /\ owner = Storage /\ closing = {}
    /\ op = NoOp
    /\ data = {} /\ record = [x \in Ids |-> None] /\ file = [x \in Ids |-> 0]
    /\ job = [j \in Jobs |-> NoJob]
    /\ request = [r \in Requests |-> Idle]
    /\ facts = 0 /\ doomed = [data |-> {}, files |-> {}]
    /\ overrun = FALSE /\ tokens = 0 /\ upsets = 0

Operation(r) ==
    \/ Claim(r) \/ EraseRows(r) \/ RemoveFile(r) \/ EraseRecords(r) \/ Mark(r) \/ Finish(r)

Next ==
    \/ Store \/ CloseTeam \/ LeaseExpires
    \/ \E j \in Jobs : CreateExport(j) \/ EnqueueExport(j) \/ BuildExport(j) \/ CompleteExport(j)
    \/ \E t \in Teams : Transfer(t)
    \/ \E r \in Requests : Ask(r) \/ Operation(r) \/ Fails(r)

Spec == Init /\ [][Next]_vars

-----------------------------------------------------------------------------
(***************************************************************************)
(* Properties.                                                             *)
(***************************************************************************)

\* Every variable holds a value of its kind.
TypeOK ==
    /\ owner \in Teams \cup {None} /\ closing \subseteq Teams
    /\ op \in Op \cup {NoOp}
    /\ data \subseteq 1..facts
    /\ doomed \in [data : SUBSET (1..facts), files : SUBSET Jobs]
    /\ record \in [Ids -> {None, "pending", "completed"}]
    /\ file \in [Ids -> 0..MaxJobs]
    /\ job \in [Jobs -> Job] /\ \A j \in Jobs : job[j].at # None => job[j].id \in Ids
    /\ request \in [Requests -> Request \cup {Idle}]
    /\ facts \in 0..MaxFacts /\ tokens \in 0..MaxClaims /\ upsets \in 0..MaxUpsets
    /\ overrun \in BOOLEAN

\* "The durable row blocks transfers even after this lease" (LeaseDuration): what
\* erases a site's events is an operation that its owner of that moment asked for and
\* that is not over, unless a request outlasted its lease.
ErasedByOwner ==
    [][~overrun /\ ~(data \subseteq data') => Exists /\ op.owner = owner]_vars

\* "The tombstone records which step committed" (DeleteSite): once an operation is
\* over, nothing of what it was claimed over is left in a database or on the disk,
\* however often it failed and was taken up again, unless a request outlasted its lease.
FinishedIsErased ==
    [][~overrun /\ op # NoOp /\ op' = NoOp =>
          doomed.data \cap data' = {} /\ \A x \in Ids : file'[x] \notin doomed.files]_vars

\* Two that do not hold.  An export recorded between the reading of the paths and
\* the removal of the records leaves its archive on the disk, with nothing that names it.
NoOrphanFile ==
    \A x \in Ids : file[x] # 0 =>
        record[x] # None \/ \E j \in Jobs : job[j].at \in {"running", "built"} /\ job[j].id = x

\* And an export whose id was another's before offers the archive that the other's
\* job was still building when the site was reset.
OffersItsOwn ==
    \A x \in Ids : record[x] = "completed" =>
        \A j \in Jobs : job[j].id = x /\ file[x] = j => \A i \in Jobs : i > j => job[i].id # x
=============================================================================
