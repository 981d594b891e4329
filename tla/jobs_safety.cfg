SPECIFICATION Spec
CONSTANTS
    p1 = p1
    i1 = i1
    b1 = b1
    i2 = i2
    bs2 = bs2
    d1 = d1
    d2 = d2
    NoJob = NoJob
    Job <- MCJob
    Doc <- MCDoc
    DocOf <- MCDocOf
    ScopeOf <- MCScopeOf
    MaxConcurrent = 1
    MaxLocal = 1
    MaxBoots = 2
    MaxFaults = 1
INVARIANTS
    OneActivePerDocument
    SlotsBounded
    CancelWins
    RunningOwned
    LostOnlyByFault
PROPERTIES
    TerminalFinal
    SlotRefinement
CHECK_DEADLOCK FALSE
