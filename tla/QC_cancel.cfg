CONSTANTS
    None = None
    Queries = {q1}
    Workers = {w1, w2}
    MaxConcurrentQueries = 2
    MaxApprovalCascades = 1
    MaxTasks = 0
    MaxFaults = 1
    Cancellable = {q1}
    Deletable = {}
    WithTTL = {}
    MayTimeOut = {}
    ShortLived = {}
    Provisioned = {q1}
SPECIFICATION FairSpec
INVARIANTS
    OneGoroutine
PROPERTIES
    CanceledStands
    QueriesSettle
    CancelHonoured
