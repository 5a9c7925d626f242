SPECIFICATION MCSpec
CONSTANTS
    Segments = {"*", "tasks", "read", "read,*", "write", "admin", "roles"}
    RoleIds = {admin, viewer, x1}
    AdminId = admin
    ViewerId = viewer
    Users = {u1, u2}
    Requests = {r1}
    None = None
    Payloads <- SomeRoles
    Pairs <- ReadPair
    Split <- SplitAtCommas
    Guarded <- Universe
    AccessTTL = 1
    MaxTime = 0
    MaxTokens = 1
SYMMETRY Symmetry
INVARIANT RevokedMeansRevoked
