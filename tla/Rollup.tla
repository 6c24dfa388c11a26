------------------------------ MODULE Rollup ------------------------------
(***************************************************************************)
(* The pre-aggregated report tables of one site (internal/rollup, and the  *)
(* commands of internal/cli/rollup.go): a pass rewrites the daily rows of  *)
(* the last days from the raw events, the hourly ones that are retained,   *)
(* sums the weeks out of the daily rows, and after every chunk widens the  *)
(* window a report may read from the summary instead of the events         *)
(* (RollupRouter.Route in internal/query/rollup.go).                       *)
(*                                                                         *)
(* Time is counted in the site's local days.  The hourly rows of one day   *)
(* are one bucket, and the month is built as the week is.  A visitor id    *)
(* lives for a UTC day, which in a zone other than UTC falls in two local  *)
(* days.  Every statement on the account's database is a step of its own.  *)
(***************************************************************************)
EXTENDS Integers, FiniteSets

CONSTANTS
    Server,        \* the worker of `feasible serve`
    Commands,      \* `rollup build` and `rollup rebuild` processes
    MaxDay,        \* model bound: the last local day
    FirstDay,      \* the day the summary tables ship ...
    History,       \* ... and the events stored by then
    Events,        \* events: the UTC day of each, and which half of it
    Week,          \* days in a week
    ReworkDays,    \* reworkDays
    Reach,         \* backfillPerPass, in days
    Retention,     \* HourlyRetention, in days
    MaxChunk,      \* the largest chunk, in buckets
    MaxEvents,     \* model bound: events in all
    MaxFaults      \* model bound: crashes, zone changes, days down and commands

Builders == {Server} \cup Commands
Days == 1..MaxDay
Zones == {0, 1}
Grains == {"day", "hour", "week"}

ASSUME RollupAssumption ==
    /\ Server \notin Commands
    /\ MaxDay \in Nat /\ FirstDay \in Days
    /\ Events \subseteq Days \X {0, 1} /\ History \subseteq Events
    /\ {Week, ReworkDays, Reach, Retention, MaxChunk} \subseteq Nat \ {0}
    /\ \A e \in History : e[1] + e[2] <= FirstDay
    /\ MaxEvents \in Nat /\ MaxFaults \in Nat

VARIABLES
    today,       \* the local day in progress
    zone,        \* sites.timezone
    raw,         \* the events table
    row,         \* the summary rows of every grain: distinct visitors, carried
    cover,       \* rollup_state
    pass,        \* what each builder is doing
    swept,       \* the server finished a pass it began today
    owed,        \* history: buckets whose truth changed since they were built
    clearing,    \* history: grains whose rows are deleted, but not their window
    bare,        \* history: the zones of the rows of a grain without a window
    strays,      \* history: grains built beside rows of another zone, or out of such
                 \* rows, or out of rows that were deleted
    overlapped,  \* history: a Reset ran beside a pass, or passes of two zones did
    missed,      \* history: a day went by without a pass of the server
    faults       \* faults spent

truth == <<today, zone, raw>>
origin == <<bare, strays>>
history == <<swept, owed, clearing, origin, overlapped, missed, faults>>
rollupVars == <<truth, row, cover, pass, history>>

Later(a, b) == IF a > b THEN a ELSE b
Earlier(a, b) == IF a < b THEN a ELSE b
Fault == faults < MaxFaults /\ faults' = faults + 1

-----------------------------------------------------------------------------
(***************************************************************************)
(* What the buckets hold.                                                  *)
(***************************************************************************)

\* RollupBucketStart and RollupNextBucket.
Bucket(g, d) == IF g = "week" THEN d - ((d - 1) % Week) ELSE d
After(g, b) == IF g = "week" THEN b + Week ELSE b + 1
WholeBucket(g, d) == IF Bucket(g, d) = d THEN d ELSE After(g, Bucket(g, d))

\* Zone 1 is half a day ahead of UTC.
Local(e, z) == e[1] + (IF z = 1 THEN e[2] ELSE 0)
Visitors(days, z) == {e[1] : e \in {x \in raw : Local(x, z) \in days}}
DaysOf(g, b) == b..(After(g, b) - 1)
Zero == [n |-> 0, carried |-> 0]
Row == [n : Nat, carried : Nat]

\* What the events say of a bucket: its visitors, and those it shares with the
\* bucket before (an hourly row is never added to another).
Truth(g, b, z) ==
    [n |-> Cardinality(Visitors(DaysOf(g, b), z)),
     carried |-> IF g = "hour" THEN 0
                 ELSE Cardinality(Visitors(DaysOf(g, b), z) \cap
                                  Visitors(DaysOf(g, Bucket(g, b - 1)), z))]

\* deriveTable: the days summed, and corrected by what each carried over.  The sum is
\* the number of its units (a day carries no more visitors than it has).
Adds(b, d) == row["day"][d].n - (IF d = b THEN 0 ELSE row["day"][d].carried)
Units(b) == UNION {{d} \X (1..Adds(b, d)) : d \in DaysOf("week", b) \cap Days}
Derived(b) == [n |-> Cardinality(Units(b)), carried |-> row["day"][b].carried]

\* No window, or the zone its buckets are cut in, its first day (0: from before
\* the first event on) and the day it ends before.
NoCover == [zone |-> -1, from |-> 0, through |-> 0]
Cover == [zone : Zones \cup {-1}, from : Days \cup {0}, through : 0..(MaxDay + Week)]
Covered(g, b) ==
    cover[g].zone = zone /\ cover[g].from <= b /\ After(g, b) <= cover[g].through

-----------------------------------------------------------------------------
(***************************************************************************)
(* The site.                                                               *)
(***************************************************************************)

\* Ingest stores an event of today or, late, of the days before.  A pass runs every
\* hour, but not in the last moments of a day: an event is in time for the pass of
\* the next day.
Arrive(e) ==
    /\ e \in Events \ raw /\ Cardinality(raw) < MaxEvents
    /\ \A z \in Zones : Local(e, z) \in (today - ReworkDays + 1)..today
    /\ raw' = raw \cup {e}
    /\ owed' = [g \in Grains |-> owed[g] \cup
          {Bucket(g, d) : d \in UNION {{Local(e, z), Local(e, z) + 1} : z \in Zones}}]
    /\ UNCHANGED <<today, zone, row, cover, pass, swept, clearing, origin, overlapped,
                   missed, faults>>

\* Midnight.  A server that is down runs no pass.
Midnight ==
    /\ today < MaxDay
    /\ IF swept THEN UNCHANGED <<missed, faults>>
                ELSE missed' = TRUE /\ Fault
    /\ today' = today + 1
    /\ swept' = FALSE
    /\ UNCHANGED <<zone, raw, row, cover, pass, owed, clearing, origin, overlapped>>

ChangeZone ==
    /\ Fault
    /\ zone' = 1 - zone
    /\ UNCHANGED <<today, raw, row, cover, pass, swept, owed, clearing, origin,
                   overlapped, missed>>

-----------------------------------------------------------------------------
(***************************************************************************)
(* A pass: Worker.Once for the site.                                       *)
(***************************************************************************)
NoPass == [at |-> "idle", rebuild |-> FALSE, grain |-> "day", zone |-> 0, today |-> 0,
         first |-> 0, daily |-> NoCover, from |-> 0, to |-> 0, next |-> 0, seen |-> NoCover]
Pass == [at : {"idle", "begin", "window", "rows", "state", "build", "read", "bank",
               "daily", "prune", "pruned"},
         rebuild : BOOLEAN, grain : Grains, zone : Zones, today : Days \cup {0},
         first : 0..(MaxDay + 1), daily : Cover, from : 0..(MaxDay + Week),
         to : 0..(MaxDay + Week), next : 0..(MaxDay + Week), seen : Cover]

PassAt(p, at) == pass[p].at = at
PassGoes(p, at) == pass' = [pass EXCEPT ![p].at = at]
Busy(p) == {q \in Builders \ {p} : ~PassAt(q, "idle")} # {}
First(z) == LET days == {Local(e, z) : e \in raw}
            IN  CHOOSE d \in days : \A c \in days : d <= c

\* `rollup rebuild` clears every grain of the site before its pass.
StartRebuild(p) ==
    /\ p \in Commands /\ PassAt(p, "idle") /\ Fault
    /\ pass' = [pass EXCEPT ![p] = [NoPass EXCEPT !.at = "rows", !.rebuild = TRUE]]
    /\ UNCHANGED <<truth, row, cover, swept, owed, clearing, origin, overlapped, missed>>

\* The site's row, the clock and the first event are read: by the server on every
\* tick, by a command once.
Start(p) ==
    /\ raw # {}
    /\ \/ PassAt(p, "begin") /\ UNCHANGED faults
       \/ PassAt(p, "idle") /\ IF p = Server THEN UNCHANGED faults ELSE Fault
    /\ pass' = [pass EXCEPT ![p] = [NoPass EXCEPT !.at = "window", !.zone = zone,
                                        !.today = today, !.first = First(zone)]]
    /\ overlapped' = (overlapped \/ \E q \in Builders \ {p} :
          /\ ~PassAt(q, "idle")
          /\ pass[q].zone # zone \/ pass[q].rebuild \/ PassAt(q, "state"))
    /\ UNCHANGED <<truth, row, cover, swept, owed, clearing, origin, missed>>

\* windowStart, in two parts: a grain without a window of this zone ...
Oldest(p) ==
    IF pass[p].grain = "hour" THEN Later(pass[p].first, pass[p].today - Retention)
                              ELSE pass[p].first
BackTo(p, d) == IF pass[p].grain = "week" THEN Oldest(p) ELSE Later(Oldest(p), d - Reach)

\* ... and one that is extended: a few days again, from where the last pass
\* stopped, and further back.
\* Mutant: nothing is rewritten.
ReworkNothing(p, c) == c.through
Rework(p, c) ==
    Earlier(Bucket(pass[p].grain, pass[p].today - ReworkDays), c.through)
ExtendFrom(p, c) ==
    LET start == Later(Rework(p, c), Oldest(p))
    IN  IF pass[p].grain # "hour" /\ c.from > Oldest(p)
        THEN Earlier(start, BackTo(p, c.from)) ELSE start

Found(p, c) == c.zone = pass[p].zone
WindowStart(p) ==
    LET c == cover[pass[p].grain]
    IN  IF Found(p, c) THEN ExtendFrom(p, c) ELSE BackTo(p, pass[p].today)

\* firstWholeBucket: a week is built only where every day under it was.
\* Mutant: its own first day will do.
AnyBucket(p, d) == Bucket("week", d)
FirstWhole(p, d) ==
    IF pass[p].daily.from = 0 THEN Bucket("week", d) ELSE WholeBucket("week", d)

From(p) ==
    IF pass[p].grain = "week"
    THEN FirstWhole(p, Later(WindowStart(p), Later(pass[p].daily.from, pass[p].first)))
    ELSE WindowStart(p)
To(p) == IF pass[p].grain = "day" THEN pass[p].today + 1
         ELSE Bucket(pass[p].grain, pass[p].today)

Done(state) == [state EXCEPT !.from = 0, !.to = 0, !.next = 0, !.seen = NoCover]
NextGrain(state) ==
    CASE state.grain = "day" -> [Done(state) EXCEPT !.at = "daily"]
      [] state.grain = "hour" /\ state.daily # NoCover ->
             [Done(state) EXCEPT !.at = "window", !.grain = "week"]
      [] OTHER -> [NoPass EXCEPT !.at = "prune", !.today = state.today]

\* What this pass rewrites; nothing if the range is empty.  resetOnZoneChange reads
\* the window again, at once, and throws away one of another zone.
Window(p) ==
    /\ PassAt(p, "window")
    /\ pass' = [pass EXCEPT ![p] =
          LET c == cover[@.grain]
          IN  IF From(p) >= To(p) THEN NextGrain(@)
              ELSE [@ EXCEPT !.from = From(p), !.to = To(p), !.next = From(p),
                     !.at = IF c = NoCover \/ Found(p, c) THEN "build" ELSE "rows"]]
    /\ strays' = IF From(p) < To(p) /\ cover[pass[p].grain] = NoCover
                    /\ bare[pass[p].grain] \ {pass[p].zone} # {}
                 THEN strays \cup {pass[p].grain} ELSE strays
    /\ UNCHANGED <<truth, row, cover, swept, owed, clearing, bare, overlapped, missed,
                   faults>>

\* Reset: the rows, then the window.
ClearRows(p) ==
    /\ PassAt(p, "rows")
    /\ row' = [row EXCEPT ![pass[p].grain] = [d \in Days |-> Zero]]
    /\ clearing' = clearing \cup {pass[p].grain}
    /\ bare' = [bare EXCEPT ![pass[p].grain] = {}]
    /\ strays' = strays \ {pass[p].grain}
    /\ overlapped' = (overlapped \/ Busy(p))
    /\ PassGoes(p, "state")
    /\ UNCHANGED <<truth, cover, swept, owed, missed, faults>>
ClearState(p) ==
    /\ PassAt(p, "state")
    /\ cover' = [cover EXCEPT ![pass[p].grain] = NoCover]
    /\ clearing' = clearing \ {pass[p].grain}
    /\ pass' = [pass EXCEPT ![p] =
          IF ~@.rebuild THEN [@ EXCEPT !.at = "build"]
          ELSE IF @.grain = "week" THEN [@ EXCEPT !.at = "begin"]
          ELSE [@ EXCEPT !.at = "rows",
                         !.grain = IF pass[p].grain = "day" THEN "hour" ELSE "week"]]
    /\ UNCHANGED <<truth, row, swept, owed, origin, overlapped, missed, faults>>

\* buildChunk and deriveChunk: some buckets, in one transaction.
Buckets(g) == {d \in Days : Bucket(g, d) = d}
Chunk(p, end) == {b \in Buckets(pass[p].grain) : pass[p].next <= b /\ b < end}
Build(p) ==
    LET g == pass[p].grain IN
    /\ PassAt(p, "build")
    /\ \E end \in (pass[p].next + 1)..pass[p].to :
          /\ end = Bucket(g, end)
          /\ Cardinality(Chunk(p, end)) <= MaxChunk
          /\ row' = [row EXCEPT ![g] = [d \in Days |->
                IF d \notin Chunk(p, end) THEN row[g][d]
                ELSE IF g = "week" THEN Derived(d) ELSE Truth(g, d, pass[p].zone)]]
          /\ owed' = [owed EXCEPT ![g] = owed[g] \
                {b \in Chunk(p, end) : g = "week" => DaysOf(g, b) \cap owed["day"] = {}}]
          /\ pass' = [pass EXCEPT ![p].at = "read", ![p].next = end]
    /\ bare' = IF cover[g] = NoCover
               THEN [bare EXCEPT ![g] = @ \cup {pass[p].zone}] ELSE bare
    /\ strays' = IF g = "week" /\ "day" \in strays \cup clearing
                 THEN strays \cup {"week"} ELSE strays
    /\ UNCHANGED <<truth, cover, swept, clearing, overlapped, missed, faults>>

\* bankCoverage: today is built but not covered ...
Built(p) == Earlier(pass[p].next, Bucket(pass[p].grain, pass[p].today))
ReadCover(p) ==
    /\ PassAt(p, "read")
    /\ pass' = [pass EXCEPT ![p] =
          IF Built(p) > pass[p].from
          THEN [@ EXCEPT !.at = "bank", !.seen = cover[pass[p].grain]]
          ELSE IF pass[p].next < pass[p].to THEN [@ EXCEPT !.at = "build"]
          ELSE NextGrain(@)]
    /\ UNCHANGED <<truth, row, cover, history>>

\* ... and recordCoverage joins what was read with what was built, if they touch.
Touches(p, from) ==
    /\ pass[p].seen.zone = pass[p].zone
    /\ from <= pass[p].seen.through /\ Built(p) >= pass[p].seen.from
WriteCover(p) ==
    LET from == IF pass[p].from <= pass[p].first THEN 0 ELSE pass[p].from
        seen == pass[p].seen
    IN
    /\ PassAt(p, "bank")
    /\ cover' = [cover EXCEPT ![pass[p].grain] =
          [zone |-> pass[p].zone,
           from |-> IF Touches(p, from) THEN Earlier(from, seen.from) ELSE from,
           through |-> IF Touches(p, from) THEN Later(Built(p), seen.through)
                                           ELSE Built(p)]]
    /\ pass' = [pass EXCEPT ![p] =
          IF pass[p].next < pass[p].to THEN [@ EXCEPT !.at = "build", !.seen = NoCover]
                                       ELSE NextGrain(@)]
    /\ overlapped' = (overlapped \/ (Busy(p) /\ ~Touches(p, from)
                                  /\ (seen # NoCover \/ cover[pass[p].grain] # NoCover)))
    /\ bare' = [bare EXCEPT ![pass[p].grain] = {}]
    /\ UNCHANGED <<truth, row, swept, owed, clearing, strays, missed, faults>>

\* dailyWindow: how far the daily rows reach.
DailyWindow(p) ==
    /\ PassAt(p, "daily")
    /\ pass' = [pass EXCEPT ![p].at = "window", ![p].grain = "hour",
                   ![p].daily = IF Found(p, cover["day"]) THEN cover["day"] ELSE NoCover]
    /\ UNCHANGED <<truth, row, cover, history>>

\* Prune: the rows, then the window.
PruneRows(p) ==
    /\ PassAt(p, "prune")
    /\ row' = [row EXCEPT !["hour"] = [d \in Days |->
          IF d < pass[p].today - Retention THEN Zero ELSE @[d]]]
    /\ PassGoes(p, "pruned")
    /\ UNCHANGED <<truth, cover, history>>
PruneState(p) ==
    LET cutoff == pass[p].today - Retention IN
    /\ PassAt(p, "pruned")
    /\ cover' = IF cover["hour"] # NoCover /\ cover["hour"].from < cutoff
                THEN [cover EXCEPT !["hour"].from = cutoff] ELSE cover
    /\ pass' = [pass EXCEPT ![p] = NoPass]
    /\ swept' = (swept \/ (p = Server /\ pass[p].today = today))
    /\ UNCHANGED <<truth, row, owed, clearing, origin, overlapped, missed, faults>>

\* The process dies.
Crash(p) ==
    /\ ~PassAt(p, "idle") /\ Fault
    /\ pass' = [pass EXCEPT ![p] = NoPass]
    /\ UNCHANGED <<truth, row, cover, swept, owed, clearing, origin, overlapped, missed>>

-----------------------------------------------------------------------------
RollupInit ==
    /\ today = FirstDay /\ zone = 0 /\ raw = History
    /\ row = [g \in Grains |-> [d \in Days |-> Zero]]
    /\ cover = [g \in Grains |-> NoCover]
    /\ pass = [p \in Builders |-> NoPass]
    /\ swept = FALSE /\ missed = FALSE /\ overlapped = FALSE
    /\ owed = [g \in Grains |-> {}]
    /\ clearing = {} /\ strays = {} /\ bare = [g \in Grains |-> {}]
    /\ faults = 0

Step(p) ==
    \/ Window(p) \/ ClearRows(p) \/ ClearState(p)
    \/ Build(p) \/ ReadCover(p) \/ WriteCover(p) \/ DailyWindow(p)
    \/ PruneRows(p) \/ PruneState(p)

RollupNext ==
    \/ \E e \in Events : Arrive(e)
    \/ Midnight \/ ChangeZone
    \/ \E p \in Builders : StartRebuild(p) \/ Start(p) \/ Step(p) \/ Crash(p)

RollupSpec == RollupInit /\ [][RollupNext]_rollupVars

\* The server's ticker ticks and a pass that runs goes on.
Fairness == \A p \in Builders :
    /\ WF_rollupVars(Step(p))
    /\ WF_rollupVars((p = Server \/ PassAt(p, "begin")) /\ Start(p))
RollupFairSpec == RollupSpec /\ Fairness

-----------------------------------------------------------------------------
(***************************************************************************)
(* Properties.                                                             *)
(***************************************************************************)

\* Every variable holds a value of its kind.
RollupTypeOK ==
    /\ today \in Days /\ zone \in Zones /\ raw \subseteq Events
    /\ row \in [Grains -> [Days -> Row]]
    /\ cover \in [Grains -> Cover]
    /\ pass \in [Builders -> Pass]
    /\ {swept, overlapped, missed} \subseteq BOOLEAN
    /\ owed \in [Grains -> SUBSET (0..(MaxDay + 2))]
    /\ clearing \subseteq Grains /\ strays \subseteq Grains
    /\ bare \in [Grains -> SUBSET Zones]
    /\ faults \in Nat

\* "Being unable to use it has to be slow, never wrong" (RollupRouter): a row inside
\* the window says what the events say, except of a finished day whose late events
\* the next pass will count and of hours about to be pruned, unless a Reset is
\* halfway, passes that overlapped undid each other's window, or a first pass left
\* rows of a zone that was changed before it had a window.
Trusted ==
    ~overlapped => \A g \in Grains \ (clearing \cup strays) : \A b \in Buckets(g) :
        /\ Covered(g, b)
        /\ b \in owed[g] => today \in DaysOf(g, b)
        /\ g = "hour" => b >= today - Retention
        => row[g][b] = Truth(g, b, zone)

\* The summary catches up: from some time on every finished day is inside the window,
\* and counts its late events unless the server was down when they were due.
CatchesUp ==
    <>[](\A b \in Days : b < today => /\ Covered("day", b)
                                      /\ missed \/ b \notin owed["day"])
=============================================================================
