SPECIFICATION Spec
CONSTANTS
    Messages = {m1, m2}
    Calls = {c1, c2, c3}
    MayStop = TRUE
    None = null
SYMMETRY Symmetry
INVARIANT TypeOK
INVARIANT ConfirmableAsShown
INVARIANT ListedRunOnlyAsked
PROPERTY ClosedIsFinal
PROPERTY ImplementsOffers
CHECK_DEADLOCK FALSE
