\* Two users who may both be administrators and two requests at a time.
SPECIFICATION Spec
CONSTANTS
    User = {u1, u2}
    FirstAdmin = u1
    Role = {"viewer", "admin"}
    Client = {c1, c2}
    Token = {t1, t2}
    Pattern <- EveryUserOneConnection
    Grantee = {u2}
    MaxResets = 1
    None = None
SYMMETRY RequestSymmetry
INVARIANTS
    EnabledAdminRemains
    NoEarlierSession
    LastingPasswordIsOwn
    AllowedIsOffered
