SPECIFICATION Spec
CONSTANTS
    Users = {u1, u2}
    Projects = {p1, p2}
    Calls = {c1, c2}
    Quotas = {1, 2}
    DefaultQuota = 1
    None = null
INVARIANT UsedCountsProjects
CHECK_DEADLOCK TRUE
