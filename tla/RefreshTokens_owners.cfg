SPECIFICATION Spec
CONSTANTS
    Tokens = {t1, t2}
    Users = {u1, u2}
    Requests = {r1, r2}
    None = None
    RefreshTTL = 1
    AccessTTL = 1
    MaxTime = 2
    ResponseFirst = FALSE
SYMMETRY Symmetry
INVARIANT DeliveredIsDurable
PROPERTIES
    BlastRadius
    ImplementsLedger
