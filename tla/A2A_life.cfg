CONSTANTS
    Requests <- Kinds
    AgentStates = {"input-required", "completed"}
    Clocks = {"approval", "polling", "ttl"}
    Flaky = FALSE
    MaxEdits = 2
    MaxFaults = 1
SPECIFICATION FairSpec
CHECK_DEADLOCK FALSE
INVARIANTS
    TypeOK
    NoLostWakeup
PROPERTIES
    DecisionApplied
    ApprovalSpec
    TasksEnd
    MirrorsAgent
