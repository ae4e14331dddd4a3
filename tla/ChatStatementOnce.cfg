SPECIFICATION Spec
CONSTANTS
    Messages = {m1}
    Calls = {c1}
    MayStop = FALSE
    None = null
INVARIANT RunsOnce
CHECK_DEADLOCK FALSE
