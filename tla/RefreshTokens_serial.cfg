SPECIFICATION ApartSpec
CONSTANTS
    Tokens = {t1, t2, t3}
    Users = {u1}
    Requests = {r1, r2}
    None = None
    RefreshTTL = 0
    AccessTTL = 1
    MaxTime = 1
    ResponseFirst = FALSE
SYMMETRY Symmetry
INVARIANTS
    SingleUse
    OneLiveToken
    ReplayEndsSession
    GlobalLogoutEndsSessions
