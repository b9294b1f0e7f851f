SPECIFICATION Spec
CONSTANTS
    Orders = {o1, o2}
    Homes <- Together
    Refusals = {"REJECTED"}
    Reports <- BookEntries
    Requests = {a1, a2}
    PassLimit = 2
    LookLimit = 1
    EventLimit = 1
    Tolerance = 1
SYMMETRY Symmetry
CHECK_DEADLOCK FALSE
INVARIANTS
    TypeOK
    IInv
    HeardIsStored
    MarkedIsMendable
    ShownOnce
PROPERTIES
    BackwardIsOvertaken
    PassSettles
    OrderLogSpec
