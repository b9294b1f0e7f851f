SPECIFICATION Spec
CONSTANTS
    Orders = {r1, r2}
    Syncs = {s1}
    Deltas <- MCDeltas
    Nets <- MCNets
    Products = {p1, p2}
SYMMETRY Symmetry
INVARIANTS
    IInv
    LedgerIsSum
    LostAckExplained
PROPERTIES
    SyncLeavesReported
