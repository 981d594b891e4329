SPECIFICATION Spec
CONSTANTS
    a1 = a1
    a2 = a2
    p1 = p1
    p2 = p2
    Block <- MCBlock
    Page <- MCPage
    Home <- MCHome
    LandsOn <- MCLandsOn
    NoText = NoText
    NoPage = NoPage
    MaxRev = 2
    MaxRebuilds = 1
VIEW MCView
INVARIANTS
    PagesComposed
PROPERTIES
    PatchFromDraft
    ExportShowsDraft
CHECK_DEADLOCK FALSE
