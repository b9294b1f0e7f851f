SPECIFICATION Spec
CONSTANTS
    Requests = {r1, r2, r3}
    Items = {i1}
    None = None
SYMMETRY Symmetry
INVARIANTS
    TypeOK
    IInv
    SecondOrderExplained
    DispatchedIsAcknowledged
    ApprovedIsHeld
PROPERTIES
    OrderLogSpec
    FinalLeftOnlyByRace
    UnracedSendIsApproved
