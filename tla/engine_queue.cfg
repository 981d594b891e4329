SPECIFICATION FairSpec
CONSTANTS
    Docs = {a, b}
    Children = {c1, c2}
    None = None
    MaxRestarts = 1
    MaxAsks = 3
    MaxCrashes = 1
    MaxExits = 1
INVARIANTS
    PaperHeld
    StrayedByEnd
    CurrentOutstanding
    CancelOwnRun
    DoneIsPublished
    DoneShowsEdits
PROPERTY
    PaperDecided
CHECK_DEADLOCK FALSE
