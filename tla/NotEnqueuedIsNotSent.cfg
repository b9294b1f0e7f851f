SPECIFICATION Spec
CONSTANTS
    Deliveries = {d1, d2}
    Keys = {k1}
    Users = {u1, u2}
    Payloads = {p1, p2, bad}
    Unreadable = {bad}
CHECK_DEADLOCK FALSE
INVARIANTS
    NotEnqueuedIsNotSent
