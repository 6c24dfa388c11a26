SPECIFICATION Spec
CONSTANTS
    t1 = t1
    t2 = t2
    h1 = h1
    h2 = h2
    monthly = monthly
    yearly = yearly
    None = None
    Dead = Dead
    Tabs = {t1, t2}
    Handlers = {h1, h2}
    Plans = {monthly, yearly}
    MaxSessions = 2
    MaxClaims = 2
    MaxEnds = 1
    MaxFaults = 1
INVARIANTS
    OneSubscription
    ShownIsTracked
    MirrorTrue
CHECK_DEADLOCK FALSE
SYMMETRY Symmetry
