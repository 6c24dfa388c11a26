SPECIFICATION Spec
CONSTANTS
    Events = {1, 2, 3, 4}
    MaxAt = 3
    Midnights = {2, 9}
    Timeout = 1
    Retention = 2
    Unengaged = 2
    MaxBatch = 2
    MaxCustom = 1
    Streams <- BoundedStreams
INVARIANTS
    SameVisits
    RowsFollow
