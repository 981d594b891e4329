CONSTANTS
    MaxRows = 3
    MaxCrashes = 2
    MaxFaults = 1
SPECIFICATION Spec
INVARIANTS RowsTruthful RunningHasCopy
PROPERTY FilledKept
CHECK_DEADLOCK FALSE
