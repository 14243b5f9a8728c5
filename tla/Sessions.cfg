CONSTANTS
    None = None
    s1 = s1
    s2 = s2
    q1 = q1
    q2 = q2
    a = a
    b = b
    c = c
    w1 = w1
    Sessions = {s1}
    Queries = {q1, q2}
    Posts <- Said
    MaxSeq = 2
    Requests = {a, b, c}
    Watchers = {w1}
    MaxFaults = 1
SPECIFICATION Spec
SYMMETRY Symmetry
INVARIANTS
    TypeOK
    LatestPhaseDecides
    HeaderAgrees
    WatchersTold
PROPERTIES
    StoreSpec
