SPECIFICATION FairSpec
CONSTANTS
    Requests = {r1, r2}
    Items = {i1}
    None = None
PROPERTIES
    ApprovedIsTransient
