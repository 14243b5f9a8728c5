CONSTANTS
    None = None
    Queries = {q1}
    Workers = {w1, w2}
    MaxConcurrentQueries = 1
    MaxApprovalCascades = 1
    MaxTasks = 0
    MaxFaults = 1
    Cancellable = {}
    Deletable = {q1}
    WithTTL = {q1}
    MayTimeOut = {q1}
    ShortLived = {}
    Provisioned = {}
SPECIFICATION FairSpec
INVARIANTS
    TrackedIsLive
    SemaphoreExact
    TerminalIsCompleted
PROPERTIES
    TimeoutSparesTerminal
    PoolSpec
    DeletionCompletes
