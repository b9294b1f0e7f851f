SPECIFICATION Spec
CONSTANTS
    Deliveries = {d1, d2, d3}
    Keys = {k1}
    Users = {u1, u2}
    Payloads = {p1, p2, bad}
    Unreadable = {bad}
SYMMETRY Symmetry
CHECK_DEADLOCK FALSE
INVARIANTS
    TypeOK
    IInv
    RecordedFirst
    AcceptedIsQueued
    BorrowedIsRetry
PROPERTIES
    AlertQueueSpec
