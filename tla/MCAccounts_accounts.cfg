SPECIFICATION Spec
CONSTANTS
    a = a
    b = b
    Node = {a, b}
    Source = {k}
    None = None
    MaxAttempts = 2
    Window = 2
    Cooldown = 2
    MaxTime = 4
    User = {u, v}
    Role = {"ADMIN", "USER"}
    AccessLife = 1
    RefreshLife = 2
    MaxSessions = 2
CONSTRAINT Profile
SYMMETRY Symmetry
INVARIANTS ActiveAdminRemains StaleRightsEnd LockoutIsExact
CHECK_DEADLOCK FALSE
