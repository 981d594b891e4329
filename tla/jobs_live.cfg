SPECIFICATION FairSpec
CONSTANTS
    p1 = p1
    i1 = i1
    b1 = b1
    i2 = i2
    bs2 = bs2
    d1 = d1
    d2 = d2
    NoJob = NoJob
    Job <- PairJob
    Doc <- MCDoc
    DocOf <- PairDocOf
    ScopeOf <- PairScopeOf
    MaxConcurrent = 1
    MaxLocal = 1
    MaxBoots = 1
    MaxFaults = 0
INVARIANTS
    OneLiveChildPerDocument
PROPERTIES
    JobDecided
CHECK_DEADLOCK FALSE
