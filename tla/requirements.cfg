SPECIFICATION Spec
CONSTANTS
    Reqs = {r1, r2, r3}
    First = {r1, r2}
    Cands = {c1}
    Tasks = {t1}
    Projects = {p1, p2}
    None = None
    MaxClock = 3
    MaxEdits = 2
    MaxMoves = 1
    MaxOps = 3
INVARIANTS
    LinksAgree
    PointersLive
    ReopenedIsSettled
    UndoRestores
SYMMETRY Interchangeable
CHECK_DEADLOCK FALSE
