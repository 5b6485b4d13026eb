SPECIFICATION Spec
CONSTANTS
    NumJobs = 1
    MaxAttempts = 2
    Watchdog = Watchdog
    Clis = {c1}
    NoWorker = NoWorker
    Gone = Gone
    Recording <- OwnRecordings
    MaxDispatchDeferrals = 1
    MaxStabilizeDeferrals = 0
    MaxFaults = 0
INVARIANTS
    TypeOK
    AttemptRows
    QueuedCanBeClaimed
    PublishedIsCurrent
    ClaimIsHeld
\* All jobs may be done with no retry left.
CHECK_DEADLOCK FALSE
