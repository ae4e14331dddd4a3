SPECIFICATION Spec
CONSTANTS
    Projects = {p1}
    MySql = {p1}
    NamesUse = {edited}
    Calls = {c1, c2}
    Operations = {"create", "generate", "deploy", "regenerate", "delete"}
    PoolSize = 2
    Texts = {}
    AIText = ai
    EditedDdl = edited
    None = null
    MaxFaults = 1
SYMMETRY Symmetry
INVARIANT TypeOK
INVARIANT NoSilentStall
INVARIANT StatusHasDdl
INVARIANT CompletedIsDeployed
CHECK_DEADLOCK TRUE
