SPECIFICATION Spec
CONSTANTS
    Users = {u1, u2}
    Projects = {p1, p2}
    Calls = {c1, c2}
    Quotas = {1, 2}
    DefaultQuota = 1
    None = null
INVARIANT WithinQuota
CHECK_DEADLOCK TRUE
