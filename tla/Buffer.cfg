SPECIFICATION FairSpec
CONSTANTS
    c1 = c1
    c2 = c2
    unrouted = unrouted
    Calls = {c1, c2}
    UuidOf <- Uuid
    s1 = s1
    Shards = {unrouted, s1}
    Size = 2
INVARIANTS
    AckDurable
    WaiterCovered
PROPERTY Answered
CHECK_DEADLOCK FALSE
