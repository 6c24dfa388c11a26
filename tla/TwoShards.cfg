SPECIFICATION FairSpec
CONSTANTS
    e1 = e1
    e2 = e2
    e3 = e3
    d1 = d1
    Events = {e1}
    Domains = {d1}
    DomainOf <- OneDomain
    Shards = {0, 1}
    MaySite <- StableSites
    MaxAttempts = 1
    BatchSize = 2
    MaxUnrouted = 1
    Resends = {e1}
    MidBatchRefresh = FALSE
    ReceiptsExpire = FALSE
    MaxRowId = 2
    MaxLate = 1
    MaxUpsets = 1
INVARIANT AtMostOnce
PROPERTY QueueDrains
