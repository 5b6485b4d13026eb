SPECIFICATION Spec
CONSTANTS
    None = None
    MaxEvents = 3
    MaxAnswers = 2
INVARIANTS
    UpToDate
PROPERTIES
    DraftsKept
    ChangesNoticed
