SPECIFICATION FairSpec
CONSTANTS
    NumJobs = 2
    MaxAttempts = 1
    Watchdog = Watchdog
    Clis = {}
    NoWorker = NoWorker
    Gone = Gone
    Recording <- SameRecording
    MaxDispatchDeferrals = 0
    MaxStabilizeDeferrals = 1
    MaxFaults = 1
INVARIANTS
    DuplicatesPointHome
PROPERTIES
    AgentStartedOnce
    EveryJobMoves
\* All jobs may be done with no retry left.
CHECK_DEADLOCK FALSE
