SPECIFICATION FairSpec
CONSTANTS
    p1 = p1
    c1 = c1
    Procs = {p1}
    Clis = {c1}
    Limit = 1
    Rung <- Rungs
    MaxUnits = 2
    MaxTime = 4
    MaxUpsets = 1
INVARIANTS
    CountedOnce
    LockedFairly
    ReplyEndsIt
PROPERTIES
    RungsHeard
    QuietUnlocks
CHECK_DEADLOCK FALSE
