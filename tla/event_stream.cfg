SPECIFICATION FairSpec
CONSTANTS
    Limit = 1
    MaxPages = 2
    Buffer = 1
    MaxRuns = 2
    MaxEvents = 3
    Unheard = {2}
    MaxChanges = 2
    MaxDrops = 2
    MaxFetches = 2
INVARIANTS
    NothingSkipped
    WindowOfRun
    LatestKept
PROPERTY
    EventShown
CHECK_DEADLOCK FALSE
