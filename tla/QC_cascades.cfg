CONSTANTS
    None = None
    Queries = {q1}
    Workers = {w1}
    MaxConcurrentQueries = 1
    MaxApprovalCascades = 1
    MaxTasks = 3
    MaxFaults = 0
    Cancellable = {}
    Deletable = {}
    WithTTL = {}
    MayTimeOut = {}
    ShortLived = {}
    Provisioned = {}
SPECIFICATION Spec
INVARIANTS
    CascadeCap
