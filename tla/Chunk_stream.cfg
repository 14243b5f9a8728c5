CONSTANTS
    r1 = r1
    c1 = c1
    c2 = c2
    Readers = {r1}
    Completers = {c1, c2}
    MaxEntries = 3
SPECIFICATION FairSpec
CHECK_DEADLOCK FALSE
INVARIANTS
    GapFree
    MemoryExact
PROPERTIES
    StreamsEnd
