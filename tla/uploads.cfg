SPECIFICATION FairSpec
CONSTANTS
    Uploads = {u1, u2}
    Parts = {p1}
    Requests = {q1}
    Scan = Scan
    Gone = Gone
    None = None
    Recordings = {"r"}
    Recording <- OneRecording
    NoHotwords = NoHotwords
    HotwordLists <- Lists
    Hotwords <- OwnHotwords
    Quota = 1
    MaxCrashes = 1
INVARIANTS
    QuotaKept
    QueuedHasJob
PROPERTIES
    SavedIsKept
    SavedIsQueued
CHECK_DEADLOCK FALSE
