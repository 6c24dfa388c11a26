SPECIFICATION FairSpec
CONSTANTS
    a1 = a1
    a2 = a2
    p1 = p1
    p2 = p2
    u1 = u1
    u2 = u2
    Accounts = {a1, a2}
    Doomed = {a1}
    Procs = {p1, p2}
    Purgers = {p2}
    Ops = {u1, u2}
    ProcOf <- Home
    Wants <- Asks
    Scans = {u2}
    MaxOpen = 1
    MaxHandles = 3
    MaxUpsets = 1
INVARIANTS
    LeaseKeepsHandle
    NeverRecreated
PROPERTY
    PurgeFinishes
CHECK_DEADLOCK FALSE
