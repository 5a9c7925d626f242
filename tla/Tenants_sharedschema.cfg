SPECIFICATION MCSpec
CONSTANTS
    TenantIds = {i1, i2}
    Requests = {r1, r2}
    UserIds = {u1, u2}
    Emails = {e1}
    None = None
    Characters = {"a", "b", "c", "-"}
    Bodies <- ThreeBodies
    Patches <- FourPatches
    NameLimit = 9
    ColumnLimit = 10
    MaxLogins = 1
    RoleNames = {"viewer"}
SYMMETRY Symmetry
INVARIANT PhysicalIsolation
