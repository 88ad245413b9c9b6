SPECIFICATION Spec
CONSTANTS
    Users = {u1}
    Roles = {base, editor}
    DefaultRole = base
    Perms = {write}
    Requests = {q1, q2}
    Logins = {t1}
    NoRole = NoRole
    NoClaims = NoClaims
    MaxEvents = 1
SYMMETRY Symmetry
INVARIANTS VersionNamesClaims 
CHECK_DEADLOCK FALSE
