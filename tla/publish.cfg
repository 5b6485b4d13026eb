SPECIFICATION FairSpec
CONSTANTS
    Tokens = {t1, t2}
    Old = Old
    NoDir = NoDir
    Torn = Torn
    NoToken = NoToken
    MaxEdits = 1
    MaxCrashes = 2
    MaxErrors = 2
INVARIANTS
    QuietIsPublished
PROPERTIES
    PublishesAtOnce
    RestoredOrFlagged
    ServesAgain
CHECK_DEADLOCK FALSE
