CONSTANTS
    None = None
    r1 = r1
    r2 = r2
    w1 = w1
    Replicas = {r1, r2}
    Watchers = {w1}
    MaxRows = 3
    MaxCrashes = 1
    MaxWatches = 2
SPECIFICATION Spec
SYMMETRY ReplicaSymmetry
CHECK_DEADLOCK FALSE
INVARIANTS
    TypeOK
    NoneSkipped
    RepeatsAreLate
