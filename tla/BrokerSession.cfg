SPECIFICATION Spec
CONSTANTS
    Keys = {k1, k2}
    Errors = {"refused"}
    Requests = {a1, a2}
    LastDay = 3
SYMMETRY Symmetry
INVARIANTS
    TypeOK
    IInv
    SessionIsOfItsDay
PROPERTIES
    LoginSticks
    MixIsSaved
    SessionLostIsSeen
