SPECIFICATION FairSpec
CONSTANTS
    None = None
    MaxTurns = 2
    MaxEvents = 2
    MaxRounds = 1
    Streaming <- Modes
INVARIANTS
    UserMessagesKept
    ProcessingProtects
PROPERTIES
    Responsive
    PollersStop
CHECK_DEADLOCK FALSE
