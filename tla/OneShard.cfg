SPECIFICATION Spec
CONSTANTS
    e1 = e1
    e2 = e2
    e3 = e3
    d1 = d1
    Events = {e1, e2}
    Domains = {d1}
    DomainOf <- OneDomain
    Shards = {0}
    MaySite <- OneShardSites
    MaxAttempts = 2
    BatchSize = 2
    MaxUnrouted = 1
    Resends = {}
    MidBatchRefresh = TRUE
    ReceiptsExpire = TRUE
    MaxRowId = 3
    MaxLate = 1
    MaxUpsets = 2
INVARIANTS
    RowOwnership
    NoLoss
PROPERTY ImplementsCustody
SYMMETRY EventSymmetry
