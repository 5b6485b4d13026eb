SPECIFICATION FairSpec
CONSTANTS
    Names = 4
    NoDir = NoDir
    MaxAttempts = 2
    MaxCrashes = 2
    MaxErrors = 1
INVARIANTS
    NoAttemptLost
    RowFindsArchive
PROPERTIES
    PublishedStays
    PromotionEnds
CHECK_DEADLOCK FALSE
