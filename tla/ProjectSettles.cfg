SPECIFICATION FairSpec
CONSTANTS
    Projects = {p1}
    MySql = {}
    NamesUse = {}
    Calls = {c1, c2}
    Operations = {"create", "generate", "deploy"}
    PoolSize = 1
    Texts = {}
    AIText = ai
    EditedDdl = ai
    None = null
    MaxFaults = 1
PROPERTY StageSettles
PROPERTY CallsEnd
CHECK_DEADLOCK TRUE
