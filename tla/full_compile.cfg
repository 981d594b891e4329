SPECIFICATION Spec
CONSTANTS
    Translation = Translation
    Torn = Torn
    Missing = Missing
    MaxVersions = 2
    MaxRev = 3
    MaxBoots = 3
    MaxFaults = 2
INVARIANTS
    FreshIsCurrent
    SnapshotCurrent
    RunningHasJob
    ArchiveFaithful
PROPERTIES
    AnnouncedVersionKept
    Publishes
CHECK_DEADLOCK FALSE
