SPECIFICATION Spec
CONSTANTS
    Scan = Scan
    NoRow = NoRow
    Plain = plain
    Meetings = {m1}
    Old = {m1}
    Requests = {}
    Supplements = {plain}
    MaxAttempts = 2
    BatchLimit = 1
    Notifier = TRUE
    Checkup = TRUE
    Edits = TRUE
    MaxVersions = 3
    MaxRows = 2
    MaxFaults = 1
PROPERTIES
    RunningEnds
    PendingServed
    MinutesCardArrives
