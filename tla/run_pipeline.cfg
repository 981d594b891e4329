SPECIFICATION Spec
CONSTANTS
    Contents = {x, y}
    Missing = Missing
    Editable = {"translated", "overrides"}
    MaxFixRounds = 1
    MaxRuns = 3
    MaxEdits = 1
    MaxFaults = 1
SYMMETRY Symmetry
VIEW View
INVARIANTS DemandsBounded
PROPERTIES OkIsCurrent OkIsChecked
CHECK_DEADLOCK FALSE
