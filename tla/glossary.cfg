SPECIFICATION GlossarySpec
CONSTANTS
    Term = t
    w1 = w1
    w2 = w2
    Wrongs = {w1, w2}
    Pairs <- Suggested
    Project = p
    Public = public
    Null = null
    Threads = {h1, h2}
    MaxTerms = 2
    MaxExtra = 1
    MaxOps = 4
    MaxPasses = 1
INVARIANTS
    SnapshotIsCurrent
PROPERTIES
    UndoGivesBack
SYMMETRY Interchangeable
CHECK_DEADLOCK FALSE
