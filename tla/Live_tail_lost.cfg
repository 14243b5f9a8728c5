CONSTANTS
    None = None
    r1 = r1
    r2 = r2
    w1 = w1
    Replicas = {r1}
    Watchers = {w1}
    MaxRows = 3
    MaxCrashes = 0
    MaxWatches = 1
SPECIFICATION Spec
CHECK_DEADLOCK FALSE
INVARIANTS
    NothingLost
