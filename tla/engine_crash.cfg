SPECIFICATION Spec
CONSTANTS
    Docs = {a, b}
    Children = {c1, c2, c3}
    None = None
    MaxRestarts = 1
    MaxAsks = 2
    MaxCrashes = 1
    MaxExits = 0
PROPERTY
    QueuedNeverFails
CHECK_DEADLOCK FALSE
