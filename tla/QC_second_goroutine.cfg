CONSTANTS
    None = None
    Queries = {q1}
    Workers = {w1, w2}
    MaxConcurrentQueries = 2
    MaxApprovalCascades = 1
    MaxTasks = 1
    MaxFaults = 0
    Cancellable = {}
    Deletable = {}
    WithTTL = {}
    MayTimeOut = {}
    ShortLived = {}
    Provisioned = {}
SPECIFICATION Spec
SYMMETRY WorkerSymmetry
INVARIANTS
    OneGoroutine
