CONSTANTS
    None = None
    Queries = {q1}
    Workers = {w1}
    MaxConcurrentQueries = 1
    MaxApprovalCascades = 1
    MaxTasks = 2
    MaxFaults = 1
    Cancellable = {}
    Deletable = {}
    WithTTL = {}
    MayTimeOut = {}
    ShortLived = {1}
    Provisioned = {}
SPECIFICATION FairSpec
INVARIANTS
    TypeOK
    AwaitedTaskCreated
PROPERTIES
    ApprovalsResume
