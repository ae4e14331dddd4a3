SPECIFICATION DataSpec
CONSTANTS
    Readers = {s1, s2}
    Writers = {t1, t2}
    MaxFaults = 1
    NoReader = none
    Words = {s1, s2}
    Ids = {t1, t2}
    Authors = {s1, s2}
    Tasks = {t1, t2}
    MaxLosses = 1
    NoWord = noword
    NoId = noid
    Tables = {n1, n2, n3}
    Indexers = {s1, s2}
    MaxSlips = 1
    Callers = {n1, n2, n3}
    MaxFailings = 2
    NoCaller = none
    Entities = {n1, n2, n3}
    Statements = 3
    TableNames = {n1, n2, n3}
    SearchWidth = 3
    MaxTables = 3
    Talks = {t1, t2}
    Askers = {s1, s2}
    Terms = {term1}
    NoTalk = none
    MaxMessages = 3
    FileTables = {s1, s2}
    Dummy = dummy
    Deployers = {t1, t2}
    Users = {s1, s2}
    MaxFiles = 2
SYMMETRY Symmetry
INVARIANT DataTypeOK
INVARIANT StaleHasACause
INVARIANT OneFill
INVARIANT VectorsFollowRows
INVARIANT TermsUnique
INVARIANT FragmentsFollowScript
INVARIANT EngineIsReady
INVARIANT NoEngineLost
INVARIANT AccountsComplete
INVARIANT OrderIsFirst
INVARIANT RefusedRightly
INVARIANT EachTableOnce
INVARIANT ReferencesIncluded
INVARIANT ContextIsOwn
INVARIANT FileHoldsScript
CHECK_DEADLOCK FALSE
