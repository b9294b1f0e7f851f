SPECIFICATION Spec
CONSTANTS
    Orders = {r1, r2}
    Syncs = {s1}
    Deltas <- MCDeltas
    Nets <- MCNets
    Products = {p1}
PROPERTIES
    SyncFollowsBroker
