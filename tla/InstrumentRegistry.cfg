SPECIFICATION Spec
CONSTANTS
    Tokens = {t1, t2}
    Contracts = {c1, c2, c3}
    Rows = {r1, r2, r3}
    Syncs = {s1}
    Posts = {p1}
    Batch = 2
    Blank = Blank
SYMMETRY Symmetry
CHECK_DEADLOCK FALSE
INVARIANTS
    TypeOK
    IInv
    MappingWasListed
    LoneRefusalIsMerge
PROPERTIES
    MappingLostIsListed
    SyncMirrorsList
    RetryShowsHeld
