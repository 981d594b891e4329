CONSTANTS
    a1 = a1
    a2 = a2
    b1 = b1
    p1 = p1
    p2 = p2
    p3 = p3
    Blocks = {a1, a2, b1}
    Pages = {p1, p2, p3}
    Home <- MCHome
    Manual = {}
    Workers = {w1, w2}
    MaxFaults = 1
    None = None
SPECIFICATION Spec
SYMMETRY Symmetry
INVARIANTS PatchKept PublishedIsSettled NoPageForgotten PatchShown
PROPERTY OverIsFinal
