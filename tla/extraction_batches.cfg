SPECIFICATION Spec
CONSTANTS
    Scan = Scan
    NoRow = NoRow
    Plain = plain
    Meetings = {m1}
    Old = {m1}
    Requests = {q1}
    Supplements = {plain, more}
    MaxAttempts = 2
    BatchLimit = 1
    Notifier = TRUE
    Checkup = FALSE
    Edits = FALSE
    MaxVersions = 1
    MaxRows = 3
    MaxFaults = 1
INVARIANTS
    OneRunPerBatch
    DraftCardOnce
