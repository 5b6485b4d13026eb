SPECIFICATION FairSpec
CONSTANTS
    Owners = {o1, o2}
    Meetings = {m1}
    MaxRuns = 2
    None = None
    MaxAudioChanges = 1
    MaxCrashes = 1
    MaxErrors = 1
    MaxStalls = 1
INVARIANTS
    LeasesAgree
    ReadyHasItsTranscript
PROPERTIES
    RequestsEnd
