SPECIFICATION FairSpec
CONSTANTS
    s1 = s1
    s2 = s2
    o1 = o1
    h1 = h1
    None = None
    Sweepers = {s1}
    Owners = {o1}
    Handlers = {h1}
    MaxLapses = 1
    MaxFaults = 1
INVARIANTS
    GoneIsGone
    OneWinner
    HoldsRemembered
PROPERTIES
    WarnsOnlyRunning
    PaidFirst
    DeletionFinishes
    PaidRestores
CHECK_DEADLOCK FALSE
