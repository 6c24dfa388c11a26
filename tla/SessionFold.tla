------------------------------ MODULE SessionFold ------------------------------
(***************************************************************************)
(* The session fold of the ingest tier (internal/ingest/session.go, fold.go *)
(* and the fold half of writer.go): one visitor of one site, whose events   *)
(* the account writer folds into visits, one transaction per batch, in      *)
(* whatever order and in whatever batches they arrive.                      *)
(*                                                                          *)
(* An event is a number that is also its order key: a smaller number has    *)
(* the earlier timestamp, or the same one and the earlier derive stamp.     *)
(* stream gives its timestamp and its kind; a custom event is one the       *)
(* tracker raises by itself, all on one path.  A visitor has one            *)
(* fingerprint before midnight and another after it, and an event also      *)
(* carries the fingerprint of the day before.  A session is named by the    *)
(* event that opened it, which stands for the identity reserved for it.     *)
(***************************************************************************)
EXTENDS Integers, FiniteSets, Sequences, SequencesExt

CONSTANTS
    Events,         \* 1..n, in the order of timestamp and order key
    MaxAt,          \* timestamps are 0..MaxAt
    Streams,        \* model bound: the streams of events of an instance
    Midnights,      \* when the salt may rotate
    Timeout,        \* sessionTimeoutSeconds
    Retention,      \* foldStateRetention
    Unengaged,      \* UnengagedPageviews
    MaxBatch        \* model bound: events of one batch

VARIABLES
    stream,         \* the events that will arrive
    midnight,       \* when the salt rotates
    receipts,       \* recent_event_ids
    events,         \* the stored rows: session, attribution block, visit reason
    sessions,       \* the sessions table with its companion fold state
    orphans,        \* ingest_orphan_engagements
    history         \* what the properties need to know of the batches so far

vars == <<stream, midnight, receipts, events, sessions, orphans, history>>

Kinds == {"pageview", "custom", "engagement"}
At(e) == stream[e].at
IsPageview(e) == stream[e].kind = "pageview"
IsEngagement(e) == stream[e].kind = "engagement"

\* The salts' days: the fingerprint of an event, and the one of the day before.
UserID(e) == IF At(e) < midnight THEN 1 ELSE 2
PreviousUserID(e) == UserID(e) - 1

Lower(a, b) == IF a < b THEN a ELSE b
Upper(a, b) == IF a > b THEN a ELSE b

-----------------------------------------------------------------------------
(* One session                                                             *)

\* The event a block or a page was taken from, and how it is ordered.
Point(e) == [at |-> At(e), tie |-> e, of |-> e, page |-> IsPageview(e)]
NoFirst == [at |-> MaxAt + 1, tie |-> 0, of |-> 0, page |-> FALSE]
NoExit == [at |-> -1, tie |-> 0, of |-> 0, page |-> FALSE]

Earlier(p, q) == p.at < q.at \/ (p.at = q.at /\ p.tie < q.tie)

\* A pageview's block replaces one that is not a page's whatever the times are.
Replaces(p, q) == (p.page /\ ~q.page) \/ (p.page = q.page /\ Earlier(p, q))

NewSession(e) ==
    [key |-> UserID(e), start |-> At(e), last |-> At(e), pages |-> 0,
     automatic |-> FALSE, engaged |-> FALSE, marked |-> FALSE,
     first |-> NoFirst, exit |-> NoExit, kept |-> TRUE]

\* A mutant: the window reaches forwards only.
CoversOnwards(s, t) == s.start <= t /\ t <= s.last + Timeout
Covers(s, t) == s.start - Timeout <= t /\ t <= s.last + Timeout
Distance(s, t) == IF t < s.start THEN s.start - t ELSE IF t > s.last THEN t - s.last ELSE 0

Folded(s, e) ==
    [s EXCEPT
        !.start = Lower(@, At(e)),
        !.last = Upper(@, At(e)),
        !.pages = @ + (IF IsPageview(e) THEN 1 ELSE 0),
        !.automatic = @ \/ (~IsPageview(e) /\ ~IsEngagement(e)),
        !.engaged = @ \/ IsEngagement(e),
        !.first = IF Replaces(Point(e), @) THEN Point(e) ELSE @,
        !.exit = IF IsPageview(e) /\ Earlier(@, Point(e)) THEN Point(e) ELSE @]

Absorbing(s, o) ==
    [s EXCEPT
        !.start = Lower(@, o.start),
        !.last = Upper(@, o.last),
        !.pages = @ + o.pages,
        !.automatic = @ \/ o.automatic,
        !.engaged = @ \/ o.engaged,
        !.marked = @ \/ o.marked,
        !.first = IF Replaces(o.first, @) THEN o.first ELSE @,
        !.exit = IF Earlier(@, o.exit) THEN o.exit ELSE @]

\* Why a visit is thought to be automatic, from a browser that gave its width
\* and its system.
AutomatedReason(s) ==
    CASE s.pages = 0 -> IF s.automatic /\ ~s.engaged THEN "pageless_visit" ELSE ""
      [] s.pages > 0 -> IF ~s.engaged /\ s.pages >= Unengaged THEN "unengaged_visit" ELSE ""

-----------------------------------------------------------------------------
(* One batch in memory.  fold is the transaction's cache: the sessions it   *)
(* loaded or opened, the pings waiting, the session of every row to write,  *)
(* the merges, and the sessions that changed or changed their block.        *)

Near(fold, key, t) ==
    {i \in DOMAIN fold.live : fold.live[i].key = key /\ Covers(fold.live[i], t)}

\* The nearest session, and of two as near the one that started earlier.
Winner(fold, near, t) ==
    CHOOSE i \in near : \A j \in near :
        \/ Distance(fold.live[i], t) < Distance(fold.live[j], t)
        \/ /\ Distance(fold.live[i], t) = Distance(fold.live[j], t)
           /\ fold.live[i].start <= fold.live[j].start

\* The winner takes every other session the event reaches.
Merged(fold, i, near) ==
    LET absorb(f, j) ==
            [f EXCEPT
                !.live = [k \in DOMAIN f.live \ {j} |->
                            IF k = i THEN Absorbing(f.live[i], f.live[j]) ELSE f.live[k]],
                !.restamp = IF Replaces(f.live[j].first, f.live[i].first) THEN @ \union {i} ELSE @,
                !.merges = Append(@, <<i, j>>)]
    IN  FoldLeft(absorb, fold, SetToSeq(near \ {i}))

\* Event e goes into session i, and its row names that session.
Into(fold, i, e) ==
    LET s == fold.live[i]
    IN  [fold EXCEPT
            !.live[i] = Folded(s, e),
            !.dirty = @ \union {i},
            !.restamp = IF Replaces(Point(e), s.first) /\ s.first # NoFirst THEN @ \union {i} ELSE @,
            !.rows = [r \in DOMAIN @ \union {e} |-> IF r = e THEN i ELSE @[r]]]

\* One pass over the pings waiting under a fingerprint: each that the session
\* covers by then is folded into it.
Adopted(fold, i, key) ==
    LET adopt(f, o) ==
            IF UserID(o) = key /\ Covers(f.live[i], At(o))
            THEN [Into(f, i, o) EXCEPT !.waiting = SelectSeq(@, LAMBDA p : p # o)]
            ELSE f
    IN  FoldLeft(adopt, fold, fold.waiting)

Joined(fold, i, e) ==
    LET own == Adopted(Into(fold, i, e), i, UserID(e))
    IN  IF own.live[i].key = UserID(e) THEN own ELSE Adopted(own, i, own.live[i].key)

Apply(fold, e) ==
    LET own == Near(fold, UserID(e), At(e))
        near == IF own # {} THEN own ELSE Near(fold, PreviousUserID(e), At(e))
        i == Winner(fold, near, At(e))
    IN  CASE near # {} -> Joined(Merged(fold, i, near), i, e)
          [] near = {} /\ IsEngagement(e) ->
                [fold EXCEPT !.waiting = Append(@, e), !.parked = @ \union {e}]
          [] OTHER ->
                Joined([fold EXCEPT !.live = [k \in DOMAIN @ \union {e} |->
                                                IF k = e THEN NewSession(e) ELSE @[k]]], e, e)

-----------------------------------------------------------------------------
(* One batch on disk                                                       *)

\* Nothing older than this is kept: it trails the oldest event of the batch.
Cutoff(batch) ==
    LET oldest == CHOOSE e \in ToSet(batch) : \A f \in ToSet(batch) : At(e) <= At(f)
    IN  At(oldest) - Retention

\* The times at which a batch asks about a fingerprint.
Asked(batch, key) == {At(e) : e \in {f \in ToSet(batch) : key \in {UserID(f), PreviousUserID(f)}}}

\* A session whose fold state was pruned, as its rows can still tell it: no
\* order keys, and nothing of the events that were not pages.
Hydrated(i) ==
    LET s == sessions[i]
        pages == {e \in DOMAIN events : events[e].session = i /\ IsPageview(e)}
        ends == [from |-> CHOOSE e \in pages : \A f \in pages : e <= f,
                 to |-> CHOOSE e \in pages : \A f \in pages : f <= e]
    IN  [s EXCEPT
            !.automatic = FALSE,
            !.marked = FALSE,
            !.engaged = \E e \in DOMAIN events : events[e].session = i /\ IsEngagement(e),
            !.first = [at |-> IF pages = {} THEN s.start ELSE At(ends.from), tie |-> 0,
                       of |-> s.first.of, page |-> pages # {}],
            !.exit = IF pages = {} THEN NoExit
                     ELSE [at |-> At(ends.to), tie |-> 0, of |-> s.exit.of, page |-> TRUE]]

\* loadDurableFold: the sessions and the parked pings within reach of what the
\* batch asks, the pings in time order.
Loaded(batch, cutoff) ==
    LET near(key, from, to) ==
            LET asked == Asked(batch, key)
            IN  /\ \E t \in asked : from <= t + Timeout
                /\ \E t \in asked : t - Timeout <= to
        live == {i \in DOMAIN sessions : near(sessions[i].key, sessions[i].start, sessions[i].last)}
        pings == {o \in orphans : At(o) >= cutoff /\ near(UserID(o), At(o), At(o))}
    IN  [live |-> [i \in live |-> IF sessions[i].kept /\ sessions[i].last >= cutoff
                                  THEN sessions[i] ELSE Hydrated(i)],
         waiting |-> SetToSortSeq(pings, <),
         rows |-> <<>>, merges |-> <<>>, dirty |-> {}, restamp |-> {}, parked |-> {}]

\* A mutant: the rows already stored are left where they were.
NotRepointed(fold, dirty) == events

\* The merges in order, then the blocks that changed, on the rows already stored.
Repointed(fold, dirty) ==
    LET restamp(row) == [row EXCEPT !.block = fold.live[row.session].first.of]
        merge(rows, m) ==
            [e \in DOMAIN rows |->
                LET moved == [rows[e] EXCEPT !.session = m[1]]
                IN  IF rows[e].session # m[2] THEN rows[e]
                    ELSE IF m[1] \in dirty THEN restamp(moved) ELSE moved]
        merged == FoldLeft(merge, events, fold.merges)
    IN  [e \in DOMAIN merged |->
            IF merged[e].session \in dirty \intersect fold.restamp
            THEN restamp(merged[e]) ELSE merged[e]]

\* A row carries the block of the session its event was folded into, if that
\* session is still there at the end of the batch.
Inserted(fold, dirty, stored) ==
    [e \in DOMAIN stored \union DOMAIN fold.rows |->
        IF e \in DOMAIN stored THEN stored[e]
        ELSE [session |-> fold.rows[e],
              block |-> IF fold.rows[e] \in dirty THEN fold.live[fold.rows[e]].first.of ELSE e,
              reason |-> ""]]

\* markAutomatedVisits: the rows of every session that changed follow its verdict;
\* there is one to take back only where the session was marked.
Judged(fold, dirty, rows) ==
    [e \in DOMAIN rows |->
        LET s == fold.live[rows[e].session]
        IN  IF rows[e].session \in dirty /\ (s.marked \/ AutomatedReason(s) # "")
            THEN [rows[e] EXCEPT !.reason = AutomatedReason(s)]
            ELSE rows[e]]

\* One account transaction: the prune, the fold, its repairs and its rows, all or
\* nothing.
WriteBatch(batch) ==
    LET cutoff == Cutoff(batch)
        fold == FoldLeft(Apply, Loaded(batch, cutoff), batch)
        dirty == fold.dirty \intersect DOMAIN fold.live
        absorbed == {m[2] : m \in ToSet(fold.merges)}
        expired == {o \in orphans : At(o) < cutoff}
    IN  /\ ToSet(batch) \intersect receipts = {}
        /\ receipts' = receipts \union ToSet(batch)
        /\ events' = Judged(fold, dirty, Inserted(fold, dirty, Repointed(fold, dirty)))
        /\ sessions' =
            [i \in (DOMAIN sessions \union dirty) \ absorbed |->
                IF i \in dirty
                THEN [fold.live[i] EXCEPT !.kept = TRUE, !.marked = AutomatedReason(fold.live[i]) # ""]
                ELSE [sessions[i] EXCEPT !.kept = @ /\ sessions[i].last >= cutoff]]
        /\ orphans' = ((orphans \ expired) \union fold.parked) \ DOMAIN fold.rows
        /\ history' =
            [ordered |-> /\ history.ordered
                         /\ \A j, k \in DOMAIN batch : j < k => batch[j] < batch[k]
                         /\ \A f \in receipts : f < batch[1],
             bridged |-> history.bridged \/ \E e \in DOMAIN fold.rows : fold.rows[e] \in absorbed,
             dropped |-> history.dropped \union expired]
        /\ UNCHANGED <<stream, midnight>>

\* A batch delivered again: every event of it is claimed, and nothing else is done.
WriteAgain(batch) ==
    /\ ToSet(batch) \subseteq receipts
    /\ UNCHANGED vars

Batches == UNION {{b \in [1..n -> Events] : IsInjective(b)} : n \in 1..MaxBatch}

Init ==
    /\ stream \in Streams
    /\ midnight \in Midnights
    /\ receipts = {}
    /\ events = <<>>
    /\ sessions = <<>>
    /\ orphans = {}
    /\ history = [ordered |-> TRUE, bridged |-> FALSE, dropped |-> {}]

Next == \E batch \in Batches : WriteBatch(batch) \/ WriteAgain(batch)

Spec == Init /\ [][Next]_vars

-----------------------------------------------------------------------------
(* What the visits should be, from the events alone                        *)

\* No silence longer than the timeout separates e from a later f.
Together(E, e, f) ==
    \A g \in E : (At(e) <= At(g) /\ At(g) < At(f)) =>
        \E h \in E : At(g) < At(h) /\ At(h) <= At(g) + Timeout
Visit(E, e) == {f \in E : IF At(e) <= At(f) THEN Together(E, e, f) ELSE Together(E, f, e)}
Visits(E) == {Visit(E, e) : e \in {f \in E : ~IsEngagement(f)}}

Foremost(E) == CHOOSE e \in E : \A f \in E : e <= f
Hindmost(E) == CHOOSE e \in E : \A f \in E : f <= e
Pages(E) == {e \in E : IsPageview(e)}

Described(V) ==
    [start |-> At(Foremost(V)), last |-> At(Hindmost(V)), pages |-> Cardinality(Pages(V)),
     block |-> IF Pages(V) = {} THEN Foremost(V) ELSE Foremost(Pages(V)),
     exit |-> IF Pages(V) = {} THEN 0 ELSE Hindmost(Pages(V))]

\* What of a stored session the events determine, and what of that outlives a prune.
Row(s) == [start |-> s.start, last |-> s.last, pages |-> s.pages, block |-> s.first.of, exit |-> s.exit.of]
Span(r) == <<r.start, r.last, r.pages>>

\* Two pings within one timeout are both within it of one event that is not a ping.
Anchored ==
    \A p, q \in receipts : (IsEngagement(p) /\ IsEngagement(q) /\ p < q /\ At(q) - At(p) <= Timeout) =>
        \E e \in receipts : /\ ~IsEngagement(e)
                            /\ \A r \in {p, q} : At(r) - Timeout <= At(e) /\ At(e) <= At(r) + Timeout
OneDay == \A e, f \in receipts : UserID(e) = UserID(f)
Recent == \A e, f \in receipts : At(f) - At(e) <= Retention

\* "A retried or reordered stream produces exactly the same row" (fold): whatever
\* the order and the batches, the sessions are the visits of the events claimed so
\* far.  It holds of one fingerprint, and across midnight when the events come in
\* order; of pings that a page anchors; and, once fold state was pruned, only of the
\* ends and the pages of a visit.
SameVisits ==
    /\ (Anchored /\ Recent /\ (OneDay \/ (history.ordered /\ orphans = {}))) =>
           {Row(sessions[i]) : i \in DOMAIN sessions} = {Described(V) : V \in Visits(receipts)}
    /\ (Anchored /\ OneDay /\ history.dropped = {}) =>
           {Span(Row(sessions[i])) : i \in DOMAIN sessions} = {Span(Described(V)) : V \in Visits(receipts)}

\* Every event claimed is stored once, parked, or a ping that expired; and a stored
\* event names a session that is there, carries its block and, while no fold state
\* was pruned, its verdict: "the same events have to end up with the same rows
\* whichever order they arrived in" (markAutomatedVisits).  Not where one batch
\* writes an event into a session and merges that session away.
RowsFollow ==
    /\ receipts = DOMAIN events \union orphans \union history.dropped
    /\ DOMAIN events \intersect orphans = {}
    /\ ~history.bridged => \A e \in DOMAIN events :
           /\ events[e].session \in DOMAIN sessions
           /\ LET s == sessions[events[e].session]
              IN  /\ s.start <= At(e) /\ At(e) <= s.last
                  /\ events[e].block = s.first.of
                  /\ Recent => events[e].reason = AutomatedReason(s)
=============================================================================
