SPECIFICATION FairLinksSpec
CONSTANTS
    a = a
    b = b
    Meetings = {a, b}
    p = p
    q = q
    Projects = {p, q}
    Home = p
    None = None
    Spoken = {a}
    Sections = {0, 1, 2}
    Texts <- Scripts
    Limits <- CharSteps
    MaxParts = 3
    Overlap = 1
    MaxAttempts = 2
    DailyCalls = 2
    MaxEvents = 2
INVARIANTS
    PairsCompared
    PartsCoverText
PROPERTIES
    WorkEnds
CHECK_DEADLOCK FALSE
