SPECIFICATION CronFairSpec
CONSTANTS
    r1 = r1
    r2 = r2
    Jobs = {1, 2}
    Runners = {r1, r2}
    Registered <- Workers
    MaxAttempts <- Tries
    MaxUpsets = 1
    Lookback = 1
    LastBucket = 2
INVARIANTS
    OneAtATime
PROPERTIES
    CompletedStays
    TicksRun
CHECK_DEADLOCK FALSE
