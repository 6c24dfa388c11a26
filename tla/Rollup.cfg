SPECIFICATION RollupFairSpec
CONSTANTS
    Server = server
    command = command
    Commands = {command}
    MaxDay = 3
    FirstDay = 2
    History <- Stored
    Events <- Stream
    Week = 2
    ReworkDays = 2
    Reach = 1
    Retention = 1
    MaxChunk = 2
    MaxEvents = 3
    MaxFaults = 1
INVARIANTS
    Trusted
PROPERTY CatchesUp
CHECK_DEADLOCK FALSE
