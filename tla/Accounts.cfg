SPECIFICATION AccountsSpec
CONSTANTS
    Requests = {s1, s2}
    FailureLimit = 2
    MaxFailures = 1
    Nobody = nobody
    Emails = {e1, e2}
    Users = {u1}
    Forms = {s1, s2}
    MailLimit = 1
    MaxCodes = 2
    MaxTroubles = 1
    NoOne = noone
    Models = {m1, m2, wide}
    BuiltIn = m1
    LongNames = {wide}
    Questions = {s1, s2}
    MaxRows = 2
    NoModel = nomodel
SYMMETRY Symmetry
INVARIANT AccountsTypeOK
INVARIANT BanEndsSessions
INVARIANT FailuresGoAway
INVARIANT FailuresMark
INVARIANT OneOpenRecord
INVARIANT OneUsePerCode
INVARIANT LastMailedIsStored
INVARIANT RateKeysGoAway
INVARIANT TargetIsListed
INVARIANT RemembersTarget
CHECK_DEADLOCK TRUE
