SPECIFICATION Spec
CONSTANTS
    Requests = {r1, r2}
    Items = {i1}
    None = None
SYMMETRY Symmetry
INVARIANTS
    ReadyIsExecutable
