SPECIFICATION MCSpec
CONSTANTS
    Segments = {"*", "tasks", "read", "read,*", "write", "admin", "roles"}
    RoleIds = {admin, viewer, x1}
    AdminId = admin
    ViewerId = viewer
    Users = {u1}
    Requests = {r1, r2}
    None = None
    Payloads <- SomeRoles
    Pairs <- ReadPair
    Split <- SplitAtCommas
    Guarded <- Universe
    AccessTTL = 1
    MaxTime = 1
    MaxTokens = 1
SYMMETRY Symmetry
INVARIANTS
    TypeOK
    CompletedRoleIsComplete
    GrantsAppear
    ClaimsWereHeld
    AdminIsTheSystemRole
    AgreesWithTable
