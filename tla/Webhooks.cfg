SPECIFICATION FairSpec
CONSTANTS
    e1 = e1
    e2 = e2
    w1 = w1
    w2 = w2
    Endpoints = {e1, e2}
    Workers = {w1}
    MaxAttempts = 2
    WarnAfter = 1
    DisableAfter = 2
    MaxUpsets = 1
    MaxDeliveries = 2
    MaxJobs = 5
INVARIANTS
    PendingHasJob
    OneSchedule
    OffersBounded
PROPERTIES
    Settles
    WarnedFirst
CHECK_DEADLOCK FALSE
