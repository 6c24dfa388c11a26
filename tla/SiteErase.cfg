SPECIFICATION Spec
CONSTANTS
    t1 = t1
    t2 = t2
    r1 = r1
    r2 = r2
    Teams = {t1, t2}
    Storage = t1
    Requests = {r1, r2}
    MaxFacts = 1
    MaxJobs = 2
    MaxClaims = 2
    MaxUpsets = 2
PROPERTIES
    ErasedByOwner
    FinishedIsErased
SYMMETRY Symmetry
CHECK_DEADLOCK FALSE
