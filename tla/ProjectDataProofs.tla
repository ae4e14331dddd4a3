-------------------------- MODULE ProjectDataProofs --------------------------
(***************************************************************************)
(* Theorems about the databases a project is deployed to, and about what   *)
(* serves its requests as a whole.                                         *)
(***************************************************************************)
EXTENDS ReadThroughCacheProofs, RetrievalProofs, MCProjectData

-----------------------------------------------------------------------------
(***************************************************************************)
(* UserEngines: the account before its privileges, and both before the     *)
(* engine.                                                                 *)
(***************************************************************************)

\* The account that the engine logs in to, and what it needs there.
AccountThere == Hosts[1] \in accounts
AccountUsable == AccountThere /\ (Hosts[1] \in granted \/ rebuilt)

\* What a call has made sure of when it comes to a step.
CallerKnows(c) ==
    /\ Here(c, "privilege") => AccountThere
    /\ Here(c, "setup") => server = "postgresql" /\ AccountThere
    /\ Here(c, "grant") =>
          /\ server = "postgresql" => AccountThere
          /\ caller[c].host = 2 => server = "mysql" /\ AccountThere /\ Hosts[1] \in granted
    /\ Here(c, "init") => AccountUsable

EnginesReady ==
    /\ known => AccountThere
    /\ engine # "none" => AccountUsable
    /\ \A c \in Callers : CallerKnows(c)

\* A PostgreSQL call past the lock holds it, and past the second look at the
\* engine there is none.
HoldsLock(c) ==
    /\ caller[c].at \notin {"idle", "lock"} => mutex = c
    /\ caller[c].at \notin {"idle", "lock", "look"} => engine = "none"

LockHeld == server = "postgresql" => lost = 0 /\ \A c \in Callers : HoldsLock(c)

\* The first host's account is the first one, and the second follows.
AccountsInOrder ==
    /\ accounts \subseteq IF server = "mysql" THEN {"%", "localhost"} ELSE {"role"}
    /\ "localhost" \in accounts => "%" \in accounts
    /\ \A c \in Callers : server = "mysql" /\ Breaks(c) => "%" \in accounts

AccountsAsCreated == AccountsInOrder /\ AccountsComplete

EngineIInv == EngineTypeOK /\ EnginesReady /\ LockHeld /\ AccountsAsCreated

-----------------------------------------------------------------------------
\* Where a call is after one of its steps; the other calls stay where they are.
CallerAt(c, step, h) ==
    /\ caller' \in [Callers -> Caller]
    /\ caller'[c] = [at |-> step, host |-> h]
    /\ \A d \in Callers \ {c} : caller'[d] = caller[d]

LEMMA CallerChanged ==
    ASSUME NEW r \in Caller, NEW step, NEW h
    PROVE  [r EXCEPT !.at = step, !.host = h] = [at |-> step, host |-> h]
<1>1. [r EXCEPT !.at = step] = [at |-> step, host |-> r.host]
  BY DEF Caller
<1>2. \A q : q = [at |-> step, host |-> r.host] =>
               [q EXCEPT !.host = h] = [at |-> step, host |-> h]
  OBVIOUS
<1> QED
  BY <1>1, <1>2

LEMMA CallerMoves ==
    ASSUME EngineTypeOK, NEW c \in Callers, NEW step \in CallerSteps, Onward(c, step)
    PROVE  CallerAt(c, step, 1)
<1>1. caller[c] \in Caller
  BY DEF EngineTypeOK
<1>2. [caller[c] EXCEPT !.at = step, !.host = 1] = [at |-> step, host |-> 1]
  BY <1>1, CallerChanged
<1>3. caller' = [caller EXCEPT ![c] = [at |-> step, host |-> 1]]
  BY <1>2 DEF Onward
<1>4. [at |-> step, host |-> 1] \in Caller
  BY DEF Caller
<1> QED
  BY <1>3, <1>4 DEF EngineTypeOK, CallerAt

LEMMA CallerLeaves ==
    ASSUME EngineTypeOK, NEW c \in Callers, Leave(c)
    PROVE  /\ CallerAt(c, "idle", 1)
           /\ mutex' \in Callers \cup {NoCaller}
           /\ \A d \in Callers \ {c} : mutex = d => mutex' = d
<1>1. Away \in Caller
  BY DEF Away, Caller, CallerSteps
<1> QED
  BY <1>1 DEF EngineTypeOK, CallerAt, Leave, Away

\* The host a MySQL call comes to, and the only one PostgreSQL has.
LEMMA HostsAre ==
    ASSUME EngineTypeOK
    PROVE  /\ server = "mysql" => Hosts = <<"%", "localhost">> /\ Len(Hosts) = 2
                                  /\ Hosts[1] = "%" /\ Hosts[2] = "localhost"
                                  /\ Range(Hosts) = {"%", "localhost"}
           /\ server = "postgresql" => Hosts[1] = "role" /\ Range(Hosts) = {"role"}
  BY DEF EngineTypeOK, Hosts, Range

\* What one step of call c does: to its place, to the lock, and to the rest.
LEMMA CallSteps ==
    ASSUME EngineTypeOK, NEW c \in Callers,
           \/ EnsureStarts(c) \/ EnsureLocks(c) \/ EnsureLooks(c)
           \/ AskMysql(c) \/ AskPostgres(c) \/ QuestionFails(c)
           \/ CheckMysql(c) \/ CheckPostgres(c)
    PROVE  /\ accounts' = accounts /\ granted' = granted /\ engine' = engine
           /\ server' = server /\ lost' = lost /\ rebuilt' = rebuilt /\ broken' = broken
           /\ failings' \in 0..MaxFailings
           /\ \/ /\ Here(c, "idle") /\ mutex' = mutex /\ known' = known
                 /\ CallerAt(c, IF server = "mysql" THEN "look" ELSE "lock", 1)
              \/ /\ Here(c, "lock") /\ mutex = NoCaller /\ mutex' = c /\ known' = known
                 /\ CallerAt(c, "look", 1)
              \/ Here(c, "look") /\ engine # "none" /\ Leave(c) /\ known' = known
              \/ /\ Here(c, "look") /\ engine = "none" /\ mutex' = mutex /\ known' = known
                 /\ CallerAt(c, IF known THEN "privilege" ELSE "exists", 1)
              \/ /\ Here(c, "exists") /\ AccountThere /\ mutex' = mutex /\ known' = TRUE
                 /\ CallerAt(c, "privilege", 1)
              \/ /\ Here(c, "exists") /\ mutex' = mutex /\ known' = known
                 /\ CallerAt(c, "create", 1)
              \/ /\ Here(c, "privilege") /\ Hosts[1] \in granted
                 /\ mutex' = mutex /\ known' = known
                 /\ CallerAt(c, "init", 1)
              \/ /\ Here(c, "privilege") /\ mutex' = mutex /\ known' = known
                 /\ CallerAt(c, "grant", 1)
<1> USE MaxFailingsAssumption
<1>1. CASE EnsureStarts(c)
  <2>1. Onward(c, "look") => CallerAt(c, "look", 1)
    BY CallerMoves DEF CallerSteps
  <2>2. Onward(c, "lock") => CallerAt(c, "lock", 1)
    BY CallerMoves DEF CallerSteps
  <2> QED
    BY <1>1, <2>1, <2>2 DEF EnsureStarts, Here, Away, EngineTypeOK
<1>2. CASE EnsureLocks(c)
  <2>1. CallerAt(c, "look", 1)
    BY <1>2, CallerMoves DEF EnsureLocks, CallerSteps
  <2> QED
    BY <1>2, <2>1 DEF EnsureLocks, MayEnter, EngineTypeOK
<1>3. CASE EnsureLooks(c)
  <2>1. Onward(c, "privilege") => CallerAt(c, "privilege", 1)
    BY CallerMoves DEF CallerSteps
  <2>2. Onward(c, "exists") => CallerAt(c, "exists", 1)
    BY CallerMoves DEF CallerSteps
  <2> QED
    BY <1>3, <2>1, <2>2 DEF EnsureLooks, EngineTypeOK
<1>4. ASSUME NEW there \in BOOLEAN, Asked(c, there), there => AccountThere,
             failings' \in 0..MaxFailings
      PROVE  /\ accounts' = accounts /\ granted' = granted /\ engine' = engine
             /\ server' = server /\ lost' = lost /\ rebuilt' = rebuilt /\ broken' = broken
             /\ Here(c, "exists") /\ mutex' = mutex
             /\ \/ AccountThere /\ known' = TRUE /\ CallerAt(c, "privilege", 1)
                \/ known' = known /\ CallerAt(c, "create", 1)
  <2>1. Onward(c, "privilege") => CallerAt(c, "privilege", 1)
    BY CallerMoves DEF CallerSteps
  <2>2. Onward(c, "create") => CallerAt(c, "create", 1)
    BY CallerMoves DEF CallerSteps
  <2>3. there => known' = TRUE
    BY <1>4 DEF Asked
  <2>4. ~there => known' = known
    BY <1>4 DEF Asked, EngineTypeOK
  <2> QED
    BY <1>4, <2>1, <2>2, <2>3, <2>4 DEF Asked
<1>5. ASSUME NEW has \in BOOLEAN, Checked(c, has), has => Hosts[1] \in granted
      PROVE  /\ accounts' = accounts /\ granted' = granted /\ engine' = engine
             /\ server' = server /\ lost' = lost /\ rebuilt' = rebuilt /\ broken' = broken
             /\ Here(c, "privilege") /\ mutex' = mutex /\ known' = known
             /\ \/ Hosts[1] \in granted /\ CallerAt(c, "init", 1)
                \/ CallerAt(c, "grant", 1)
  <2>1. Onward(c, "init") => CallerAt(c, "init", 1)
    BY CallerMoves DEF CallerSteps
  <2>2. Onward(c, "grant") => CallerAt(c, "grant", 1)
    BY CallerMoves DEF CallerSteps
  <2> QED
    BY <1>5, <2>1, <2>2 DEF Checked
<1>6. failings \in 0..MaxFailings
  BY DEF EngineTypeOK
<1>7. CASE AskMysql(c)
  <2>1. ("%" \in accounts) \in BOOLEAN /\ ("%" \in accounts => AccountThere)
    BY <1>7, HostsAre DEF AskMysql, AccountThere
  <2> QED
    BY <1>4, <1>6, <1>7, <2>1 DEF AskMysql
<1>8. CASE AskPostgres(c)
  <2>1. ("role" \in accounts) \in BOOLEAN /\ ("role" \in accounts => AccountThere)
    BY <1>8, HostsAre DEF AskPostgres, AccountThere
  <2> QED
    BY <1>4, <1>6, <1>8, <2>1 DEF AskPostgres
<1>9. CASE QuestionFails(c)
  <2>1. failings' \in 0..MaxFailings
    BY <1>6, <1>9 DEF QuestionFails, Failing
  <2> QED
    BY <1>4, <1>5, <1>9, <2>1 DEF QuestionFails
<1>10. CASE CheckMysql(c)
  <2>1. HasPrivilege \in BOOLEAN /\ (HasPrivilege => Hosts[1] \in granted)
    BY <1>10, HostsAre DEF CheckMysql, HasPrivilege
  <2> QED
    BY <1>5, <1>6, <1>10, <2>1 DEF CheckMysql
<1>11. CASE CheckPostgres(c)
  BY <1>5, <1>6, <1>11 DEF CheckPostgres
<1> QED
  BY <1>1, <1>2, <1>3, <1>7, <1>8, <1>9, <1>10, <1>11

\* CREATE USER and GRANT, for a host or for the role.
LEMMA CreateSteps ==
    ASSUME EngineTypeOK, NEW c \in Callers, CreateHost(c) \/ CreateRole(c)
    PROVE  /\ Here(c, "create")
           /\ granted' = granted /\ engine' = engine /\ known' = known /\ failings' = failings
           /\ server' = server /\ lost' = lost /\ rebuilt' = rebuilt /\ broken' = broken
           /\ \/ /\ accounts' = accounts /\ Leave(c)
                 /\ server = "mysql" /\ caller[c].host = 2 => "localhost" \in accounts
              \/ /\ server = "mysql" /\ caller[c].host = 1
                 /\ accounts' = accounts \cup {"%"}
                 /\ "%" \notin accounts
                 /\ mutex' = mutex /\ CallerAt(c, "create", 2)
              \/ /\ server = "mysql" /\ caller[c].host = 2
                 /\ accounts' = accounts \cup {"localhost"}
                 /\ mutex' = mutex /\ CallerAt(c, "grant", 1)
              \/ /\ server = "postgresql"
                 /\ accounts' = accounts \cup {"role"}
                 /\ mutex' = mutex /\ CallerAt(c, "setup", 1)
<1>1. caller[c] \in Caller /\ caller[c].host \in {1, 2}
  BY DEF EngineTypeOK, Caller
<1>2. CASE CreateHost(c)
  <2> DEFINE h == caller[c].host
             next == AfterCreate(h)
  <2>1. server = "mysql" /\ Here(c, "create")
    BY <1>2 DEF CreateHost
  <2>2. Hosts[1] = "%" /\ Hosts[2] = "localhost" /\ Len(Hosts) = 2
    BY <2>1, HostsAre
  <2>3. CASE Hosts[h] \in accounts
    BY <1>1, <1>2, <2>1, <2>2, <2>3 DEF CreateHost
  <2>4. CASE Hosts[h] \notin accounts
    <3>1. next = IF h = 1 THEN "create" ELSE "grant"
      BY <1>1, <2>2 DEF AfterCreate
    <3>2. caller' = [caller EXCEPT ![c] =
              [@ EXCEPT !.at = next, !.host = IF next = "grant" THEN 1 ELSE h + 1]]
      BY <1>2, <2>4 DEF CreateHost
    <3> DEFINE onwards == IF next = "grant" THEN 1 ELSE h + 1
    <3>3. onwards = IF h = 1 THEN 2 ELSE 1
      BY <1>1, <3>1
    <3> HIDE DEF onwards, next
    <3>4. [caller[c] EXCEPT !.at = next, !.host = onwards] = [at |-> next, host |-> onwards]
      BY <1>1, CallerChanged
    <3>5. caller' = [caller EXCEPT ![c] = [at |-> next, host |-> onwards]]
      BY <3>2, <3>4 DEF onwards
    <3>6. [at |-> next, host |-> onwards] \in Caller
      BY <1>1, <3>1, <3>3 DEF Caller, CallerSteps
    <3>7. CallerAt(c, next, onwards)
      BY <3>5, <3>6 DEF EngineTypeOK, CallerAt
    <3>8. accounts' = accounts \cup {Hosts[h]} /\ mutex' = mutex
      BY <1>2, <2>4 DEF CreateHost
    <3>9. /\ granted' = granted /\ engine' = engine /\ known' = known /\ failings' = failings
          /\ server' = server /\ lost' = lost /\ rebuilt' = rebuilt /\ broken' = broken
      BY <1>2 DEF CreateHost
    <3>10. CASE h = 1
      BY <2>1, <2>2, <2>4, <3>1, <3>3, <3>7, <3>8, <3>9, <3>10
    <3>11. CASE h = 2
      BY <2>1, <2>2, <3>1, <3>3, <3>7, <3>8, <3>9, <3>11
    <3> QED
      BY <1>1, <3>10, <3>11
  <2> QED
    BY <2>3, <2>4
<1>3. CASE CreateRole(c)
  <2>1. Onward(c, "setup") => CallerAt(c, "setup", 1)
    BY CallerMoves DEF CallerSteps
  <2> QED
    BY <1>3, <2>1 DEF CreateRole
<1> QED
  BY <1>2, <1>3

LEMMA GrantSteps ==
    ASSUME EngineTypeOK, NEW c \in Callers, GrantHost(c) \/ GrantNewRole(c) \/ GrantRole(c)
    PROVE  /\ accounts' = accounts /\ engine' = engine /\ known' = known /\ failings' = failings
           /\ server' = server /\ lost' = lost /\ broken' = broken
           /\ \/ /\ server = "mysql" /\ Here(c, "grant") /\ Leave(c)
                 /\ granted' = granted /\ rebuilt' = rebuilt
              \/ /\ server = "mysql" /\ Here(c, "grant") /\ caller[c].host = 1
                 /\ "%" \in accounts /\ granted' = granted \cup {"%"} /\ rebuilt' = rebuilt
                 /\ mutex' = mutex /\ CallerAt(c, "grant", 2)
              \/ /\ server = "mysql" /\ Here(c, "grant") /\ caller[c].host = 2
                 /\ granted' = granted \cup {"localhost"} /\ rebuilt' = rebuilt
                 /\ mutex' = mutex /\ CallerAt(c, "init", 1)
              \/ /\ Here(c, "setup") \/ (server = "postgresql" /\ Here(c, "grant"))
                 /\ granted' = {"role"} /\ rebuilt' = FALSE
                 /\ mutex' = mutex /\ CallerAt(c, "init", 1)
<1>1. caller[c] \in Caller /\ caller[c].host \in {1, 2}
  BY DEF EngineTypeOK, Caller
<1>2. CASE GrantHost(c)
  <2> DEFINE h == caller[c].host
  <2>1. server = "mysql" /\ Here(c, "grant")
    BY <1>2 DEF GrantHost
  <2>2. Hosts[1] = "%" /\ Hosts[2] = "localhost" /\ Len(Hosts) = 2
    BY <2>1, HostsAre
  <2>3. CASE Hosts[h] \notin accounts
    BY <1>2, <2>1, <2>3 DEF GrantHost
  <2>4. CASE Hosts[h] \in accounts
    <3>1. /\ accounts' = accounts /\ engine' = engine /\ known' = known /\ failings' = failings
          /\ server' = server /\ lost' = lost /\ rebuilt' = rebuilt /\ broken' = broken
          /\ granted' = granted \cup {Hosts[h]} /\ mutex' = mutex
      BY <1>2, <2>4 DEF GrantHost
    <3>2. CASE h = 1
      <4>1. caller' = [caller EXCEPT ![c] = [caller[c] EXCEPT !.host = 2]]
        BY <1>2, <2>2, <2>4, <3>2 DEF GrantHost
      <4>2. [caller[c] EXCEPT !.host = 2] = [at |-> "grant", host |-> 2]
        BY <1>1, <2>1 DEF Caller, Here
      <4>3. [at |-> "grant", host |-> 2] \in Caller
        BY DEF Caller, CallerSteps
      <4>4. CallerAt(c, "grant", 2)
        BY <4>1, <4>2, <4>3 DEF EngineTypeOK, CallerAt
      <4> QED
        BY <2>1, <2>2, <2>4, <3>1, <3>2, <4>4
    <3>3. CASE h = 2
      <4>1. caller' = [caller EXCEPT ![c] = [caller[c] EXCEPT !.at = "init", !.host = 1]]
        BY <1>2, <2>2, <2>4, <3>3 DEF GrantHost
      <4>2. [caller[c] EXCEPT !.at = "init", !.host = 1] = [at |-> "init", host |-> 1]
        BY <1>1, CallerChanged
      <4>3. [at |-> "init", host |-> 1] \in Caller
        BY DEF Caller, CallerSteps
      <4>4. CallerAt(c, "init", 1)
        BY <4>1, <4>2, <4>3 DEF EngineTypeOK, CallerAt
      <4> QED
        BY <2>1, <2>2, <2>4, <3>1, <3>3, <4>4
    <3> QED
      BY <1>1, <3>2, <3>3
  <2> QED
    BY <2>3, <2>4
<1>3. Onward(c, "init") => CallerAt(c, "init", 1)
  BY CallerMoves DEF CallerSteps
<1>4. CASE GrantNewRole(c)
  BY <1>3, <1>4 DEF GrantNewRole, RoleGranted
<1>5. CASE GrantRole(c)
  BY <1>3, <1>5 DEF GrantRole, RoleGranted
<1> QED
  BY <1>2, <1>4, <1>5

-----------------------------------------------------------------------------
LEMMA EngineStarts == EngineInit => EngineIInv
<1> SUFFICES ASSUME EngineInit PROVE EngineIInv
  OBVIOUS
<1>1. EngineTypeOK
  <2>1. Away \in Caller
    BY DEF Away, Caller, CallerSteps
  <2>2. caller \in [Callers -> Caller]
    BY <2>1 DEF EngineInit
  <2>3. failings \in 0..MaxFailings
    BY MaxFailingsAssumption DEF EngineInit
  <2>4. mutex \in Callers \cup {NoCaller} /\ lost \in 0..1
    BY DEF EngineInit
  <2> QED
    BY <2>2, <2>3, <2>4 DEF EngineInit, EngineTypeOK
<1>2. EnginesReady
  BY DEF EngineInit, EnginesReady, CallerKnows, Here, Away
<1>3. LockHeld
  BY DEF EngineInit, LockHeld, HoldsLock, Away
<1>4. AccountsAsCreated
  BY DEF EngineInit, AccountsAsCreated, AccountsInOrder, AccountsComplete, Breaks, Here, Away
<1> QED
  BY <1>1, <1>2, <1>3, <1>4 DEF EngineIInv

\* One case per kind of step.
LEMMA EngineCases ==
    ASSUME EngineNext
    PROVE  \/ \E c \in Callers :
                 \/ \/ EnsureStarts(c) \/ EnsureLocks(c) \/ EnsureLooks(c)
                    \/ AskMysql(c) \/ AskPostgres(c) \/ QuestionFails(c)
                    \/ CheckMysql(c) \/ CheckPostgres(c)
                 \/ CreateHost(c) \/ CreateRole(c)
                 \/ GrantHost(c) \/ GrantNewRole(c) \/ GrantRole(c)
                 \/ NewEngine(c)
                 \/ EnsureFails(c)
           \/ UseEngine
           \/ RebuildPostgres
           \/ Restart
  BY DEF EngineNext, InitMysql, InitPostgres

\* The calls that another one's step does not move keep what they know.
LEMMA KnowledgeLasts ==
    ASSUME NEW d \in Callers, CallerKnows(d), caller'[d] = caller[d], server' = server,
           accounts \subseteq accounts', AccountThere => AccountThere',
           AccountUsable => AccountUsable',
           server = "mysql" => granted \subseteq granted',
           EngineTypeOK
    PROVE  CallerKnows(d)'
  BY DEF CallerKnows, Here, EngineTypeOK, Hosts

LEMMA EngineTypeStep == EngineTypeOK /\ [EngineNext]_engineVars => EngineTypeOK'
<1> SUFFICES ASSUME EngineTypeOK, [EngineNext]_engineVars PROVE EngineTypeOK'
  OBVIOUS
<1> USE MaxFailingsAssumption
<1>1. ASSUME NEW c \in Callers,
             \/ EnsureStarts(c) \/ EnsureLocks(c) \/ EnsureLooks(c)
             \/ AskMysql(c) \/ AskPostgres(c) \/ QuestionFails(c)
             \/ CheckMysql(c) \/ CheckPostgres(c)
      PROVE  EngineTypeOK'
  <2>1. caller' \in [Callers -> Caller] /\ mutex' \in Callers \cup {NoCaller} /\ known' \in BOOLEAN
    BY <1>1, CallSteps, CallerLeaves DEF EngineTypeOK, CallerAt
  <2> QED
    BY <1>1, <2>1, CallSteps DEF EngineTypeOK
<1>2. ASSUME NEW c \in Callers, CreateHost(c) \/ CreateRole(c) PROVE EngineTypeOK'
  <2>1. caller' \in [Callers -> Caller] /\ mutex' \in Callers \cup {NoCaller}
    BY <1>2, CreateSteps, CallerLeaves DEF EngineTypeOK, CallerAt
  <2>2. accounts' \in SUBSET HostNames
    BY <1>2, CreateSteps DEF EngineTypeOK, HostNames
  <2> QED
    BY <1>2, <2>1, <2>2, CreateSteps DEF EngineTypeOK
<1>3. ASSUME NEW c \in Callers, GrantHost(c) \/ GrantNewRole(c) \/ GrantRole(c)
      PROVE  EngineTypeOK'
  <2>1. caller' \in [Callers -> Caller] /\ mutex' \in Callers \cup {NoCaller}
    BY <1>3, GrantSteps, CallerLeaves DEF EngineTypeOK, CallerAt
  <2>2. granted' \in SUBSET HostNames /\ rebuilt' \in BOOLEAN
    BY <1>3, GrantSteps DEF EngineTypeOK, HostNames
  <2> QED
    BY <1>3, <2>1, <2>2, GrantSteps DEF EngineTypeOK
<1>4. ASSUME NEW c \in Callers, NewEngine(c) PROVE EngineTypeOK'
  <2>1. caller' \in [Callers -> Caller] /\ mutex' \in Callers \cup {NoCaller}
    BY <1>4, CallerLeaves DEF NewEngine, CallerAt
  <2> QED
    BY <1>4, <2>1 DEF NewEngine, EngineTypeOK
<1>5. ASSUME NEW c \in Callers, EnsureFails(c) PROVE EngineTypeOK'
  <2>1. caller' \in [Callers -> Caller] /\ mutex' \in Callers \cup {NoCaller}
    BY <1>5, CallerLeaves DEF EnsureFails, CallerAt
  <2>2. broken' \in BOOLEAN
    BY <1>5, Zenon DEF EnsureFails, EngineTypeOK, Breaks, Here
  <2> QED
    BY <1>5, <2>1, <2>2 DEF EnsureFails, Failing, EngineTypeOK
<1>6. CASE UseEngine
  BY <1>6 DEF UseEngine, EngineTypeOK
<1>7. CASE RebuildPostgres
  BY <1>7 DEF RebuildPostgres, EngineTypeOK
<1>8. CASE Restart
  <2>1. Away \in Caller
    BY DEF Away, Caller, CallerSteps
  <2>2. broken' \in BOOLEAN
    BY <1>8, Zenon DEF Restart, EngineTypeOK
  <2>3. caller' \in [Callers -> Caller]
    BY <1>8, <2>1 DEF Restart
  <2>4. failings' \in 0..MaxFailings
    BY <1>8 DEF Restart, Failing, EngineTypeOK
  <2> QED
    BY <1>8, <2>2, <2>3, <2>4 DEF Restart, EngineTypeOK
<1>9. CASE UNCHANGED engineVars
  BY <1>9 DEF engineVars, EngineTypeOK
<1> QED
  BY <1>1, <1>2, <1>3, <1>4, <1>5, <1>6, <1>7, <1>8, <1>9, EngineCases

LEMMA EnginesReadyStep ==
    EngineTypeOK /\ EnginesReady /\ [EngineNext]_engineVars => EnginesReady'
<1> SUFFICES ASSUME EngineTypeOK, EnginesReady, [EngineNext]_engineVars PROVE EnginesReady'
  OBVIOUS
<1>1. ASSUME NEW c \in Callers,
             \/ EnsureStarts(c) \/ EnsureLocks(c) \/ EnsureLooks(c)
             \/ AskMysql(c) \/ AskPostgres(c) \/ QuestionFails(c)
             \/ CheckMysql(c) \/ CheckPostgres(c)
      PROVE  EnginesReady'
  <2>1. /\ accounts' = accounts /\ granted' = granted /\ engine' = engine
        /\ server' = server /\ rebuilt' = rebuilt
    BY <1>1, CallSteps
  <2>2. (AccountThere <=> AccountThere') /\ (AccountUsable <=> AccountUsable')
    BY <2>1 DEF AccountUsable, AccountThere, Hosts
  <2>3. \A d \in Callers \ {c} : caller'[d] = caller[d]
    BY <1>1, CallSteps, CallerLeaves DEF CallerAt
  <2>4. known' => AccountThere
    BY <1>1, CallSteps DEF EnginesReady
  <2> DEFINE knew == CallerKnows(c) /\ (known => AccountThere)
  <2>0. knew
    BY DEF EnginesReady
  <2>5. /\ caller'[c].at # "setup" /\ caller'[c].host = 1
        /\ caller'[c].at = "privilege" => known \/ AccountThere
        /\ caller'[c].at = "grant" => Here(c, "privilege")
        /\ caller'[c].at = "init" => Here(c, "privilege") /\ Hosts[1] \in granted
    <3>1. \/ \E step \in {"look", "lock", "idle", "exists", "create"} : CallerAt(c, step, 1)
          \/ (known \/ AccountThere) /\ CallerAt(c, "privilege", 1)
          \/ Here(c, "privilege") /\ CallerAt(c, "grant", 1)
          \/ Here(c, "privilege") /\ Hosts[1] \in granted /\ CallerAt(c, "init", 1)
      BY <1>1, CallSteps, CallerLeaves
    <3> QED
      BY <3>1 DEF CallerAt
  <2>7. CallerKnows(c)'
    BY <2>0, <2>1, <2>2, <2>5 DEF CallerKnows, Here, AccountUsable
  <2>6. \A d \in Callers \ {c} : CallerKnows(d)'
    BY <2>1, <2>2, <2>3, KnowledgeLasts DEF EnginesReady
  <2> QED
    BY <2>1, <2>2, <2>4, <2>6, <2>7 DEF EnginesReady
<1>2. ASSUME NEW c \in Callers, CreateHost(c) \/ CreateRole(c) PROVE EnginesReady'
  <2>1. /\ accounts \subseteq accounts' /\ granted' = granted /\ engine' = engine
        /\ server' = server /\ rebuilt' = rebuilt /\ known' = known
    BY <1>2, CreateSteps
  <2>2. (AccountThere => AccountThere') /\ (AccountUsable => AccountUsable')
    BY <2>1 DEF AccountUsable, AccountThere, Hosts
  <2>3. \A d \in Callers \ {c} : caller'[d] = caller[d]
    BY <1>2, CreateSteps, CallerLeaves DEF CallerAt
  <2>4. CallerKnows(c)'
    BY <1>2, <2>1, CreateSteps, CallerLeaves, HostsAre
    DEF CallerKnows, Here, CallerAt, AccountThere, Hosts
  <2>5. \A d \in Callers \ {c} : CallerKnows(d)'
    BY <2>1, <2>2, <2>3, KnowledgeLasts DEF EnginesReady
  <2> QED
    BY <2>1, <2>2, <2>4, <2>5 DEF EnginesReady
<1>3. ASSUME NEW c \in Callers, GrantHost(c) \/ GrantNewRole(c) \/ GrantRole(c)
      PROVE  EnginesReady'
  <2>1. accounts' = accounts /\ engine' = engine /\ server' = server /\ known' = known
    BY <1>3, GrantSteps
  <2>2. AccountThere <=> AccountThere'
    BY <2>1 DEF AccountThere, Hosts
  <2>3. CASE server = "mysql"
    <3>1. granted \subseteq granted' /\ rebuilt' = rebuilt
      BY <1>3, <2>3, GrantSteps DEF EnginesReady, CallerKnows
    <3>2. AccountUsable => AccountUsable'
      BY <2>1, <2>2, <3>1 DEF AccountUsable, Hosts
    <3>3. \A d \in Callers \ {c} : caller'[d] = caller[d]
      BY <1>3, GrantSteps, CallerLeaves DEF CallerAt
    <3>6. CallerKnows(c) /\ Hosts[1] = "%" /\ Hosts' = Hosts
      BY <2>1, <2>3, HostsAre DEF EnginesReady, Hosts
    <3>8. ~Here(c, "setup")
      BY <2>3, <3>6 DEF CallerKnows
    <3>9. \/ CallerAt(c, "idle", 1)
          \/ "%" \in accounts /\ granted' = granted \cup {"%"} /\ CallerAt(c, "grant", 2)
          \/ Here(c, "grant") /\ caller[c].host = 2 /\ CallerAt(c, "init", 1)
      BY <1>3, <2>3, <3>8, GrantSteps, CallerLeaves
    <3>7. \/ caller'[c].at = "idle"
          \/ /\ caller'[c].at \in {"grant", "init"}
             /\ AccountThere /\ "%" \in granted'
      BY <3>1, <3>6, <3>9 DEF CallerAt, CallerKnows, AccountThere
    <3>4. CallerKnows(c)'
      BY <2>1, <2>2, <2>3, <3>6, <3>7 DEF CallerKnows, Here, AccountUsable
    <3>5. \A d \in Callers \ {c} : CallerKnows(d)'
      BY <2>1, <2>2, <2>3, <3>1, <3>2, <3>3, KnowledgeLasts DEF EnginesReady
    <3> QED
      BY <2>1, <2>2, <3>2, <3>4, <3>5 DEF EnginesReady
  <2>4. CASE server = "postgresql"
    <3>1. /\ Here(c, "setup") \/ Here(c, "grant")
          /\ granted' = {"role"} /\ rebuilt' = FALSE /\ CallerAt(c, "init", 1)
      BY <1>3, <2>4, GrantSteps
    <3>2. Hosts' = Hosts /\ Hosts[1] = "role"
      BY <2>1, <2>4, HostsAre DEF Hosts
    <3>3. AccountThere
      BY <2>4, <3>1 DEF EnginesReady, CallerKnows
    <3>4. AccountUsable'
      BY <2>2, <3>1, <3>2, <3>3 DEF AccountUsable
    <3>5. CallerKnows(c)'
      BY <3>1, <3>4 DEF CallerKnows, Here, CallerAt
    <3>6. \A d \in Callers \ {c} : CallerKnows(d)'
      BY <2>1, <2>2, <2>4, <3>1, <3>4, KnowledgeLasts DEF EnginesReady, CallerAt
    <3> QED
      BY <2>1, <2>2, <3>3, <3>4, <3>5, <3>6 DEF EnginesReady
  <2> QED
    BY <2>3, <2>4 DEF EngineTypeOK
<1>4. ASSUME NEW c \in Callers, NewEngine(c) \/ EnsureFails(c) PROVE EnginesReady'
  <2>1. /\ accounts' = accounts /\ granted' = granted /\ known' = known
        /\ server' = server /\ rebuilt' = rebuilt /\ Leave(c)
    BY <1>4 DEF NewEngine, EnsureFails
  <2>2. (AccountThere <=> AccountThere') /\ (AccountUsable <=> AccountUsable')
    BY <2>1 DEF AccountUsable, AccountThere, Hosts
  <2>3. engine' # "none" => AccountUsable
    BY <1>4 DEF NewEngine, EnsureFails, EnginesReady, CallerKnows
  <2>4. CallerAt(c, "idle", 1)
    BY <2>1, CallerLeaves
  <2>5. CallerKnows(c)'
    BY <2>4 DEF CallerKnows, Here, CallerAt
  <2>6. \A d \in Callers \ {c} : CallerKnows(d)'
    BY <2>1, <2>2, <2>4, KnowledgeLasts DEF EnginesReady, CallerAt
  <2> QED
    BY <2>1, <2>2, <2>3, <2>5, <2>6 DEF EnginesReady
<1>5. CASE UseEngine
  <2>1. AccountThere' = AccountThere /\ AccountUsable' = AccountUsable
    BY <1>5 DEF UseEngine, AccountUsable, AccountThere, Hosts
  <2>2. \A c \in Callers : CallerKnows(c)'
    BY <1>5, <2>1, KnowledgeLasts DEF UseEngine, EnginesReady
  <2> QED
    BY <1>5, <2>1, <2>2 DEF UseEngine, EnginesReady
<1>6. CASE RebuildPostgres
  <2>1. AccountThere' = AccountThere /\ (AccountUsable => AccountUsable')
    BY <1>6 DEF RebuildPostgres, AccountUsable, AccountThere, Hosts
  <2>2. \A c \in Callers : CallerKnows(c)'
    BY <1>6, <2>1, KnowledgeLasts DEF RebuildPostgres, EnginesReady
  <2> QED
    BY <1>6, <2>1, <2>2 DEF RebuildPostgres, EnginesReady
<1>7. CASE Restart
  BY <1>7 DEF Restart, EnginesReady, CallerKnows, Here, Away
<1>8. CASE UNCHANGED engineVars
  <2>1. AccountThere' = AccountThere /\ AccountUsable' = AccountUsable
    BY <1>8 DEF engineVars, AccountUsable, AccountThere, Hosts
  <2>2. \A c \in Callers : CallerKnows(c)'
    BY <1>8, <2>1, KnowledgeLasts DEF engineVars, EnginesReady
  <2> QED
    BY <1>8, <2>1, <2>2 DEF engineVars, EnginesReady
<1> QED
  BY <1>1, <1>2, <1>3, <1>4, <1>5, <1>6, <1>7, <1>8, EngineCases

LEMMA LockHeldStep ==
    EngineTypeOK /\ EnginesReady /\ LockHeld /\ [EngineNext]_engineVars => LockHeld'
<1> SUFFICES ASSUME EngineTypeOK, EnginesReady, LockHeld, [EngineNext]_engineVars,
                    server' = "postgresql"
             PROVE  lost' = 0 /\ \A c \in Callers : HoldsLock(c)'
  BY DEF LockHeld
<1> USE NoCallerAssumption
<1>0. server = "postgresql"
  BY EngineCases, CallSteps, CreateSteps, GrantSteps
  DEF NewEngine, EnsureFails, UseEngine, RebuildPostgres, Restart, engineVars
<1>1. ASSUME NEW c \in Callers, NEW d \in Callers \ {c}, HoldsLock(c), HoldsLock(d),
             caller'[d] = caller[d], mutex = d => mutex' = d,
             \/ engine' = engine \/ mutex = c
      PROVE  HoldsLock(d)'
  BY <1>1 DEF HoldsLock
<1>2. ASSUME NEW c \in Callers,
             \/ EnsureStarts(c) \/ EnsureLocks(c) \/ EnsureLooks(c)
             \/ AskMysql(c) \/ AskPostgres(c) \/ QuestionFails(c)
             \/ CheckMysql(c) \/ CheckPostgres(c)
      PROVE  lost' = 0 /\ \A d \in Callers : HoldsLock(d)'
  <2>1. lost' = 0 /\ engine' = engine /\ HoldsLock(c)
    BY <1>0, <1>2, CallSteps DEF LockHeld
  <2>2. HoldsLock(c)'
    <3>1. \/ CallerAt(c, "lock", 1) \/ CallerAt(c, "idle", 1)
          \/ mutex' = c /\ CallerAt(c, "look", 1)
          \/ /\ mutex' = mutex /\ caller[c].at \in {"look", "exists", "privilege"}
             /\ Here(c, "look") => engine = "none"
      BY <1>0, <1>2, CallSteps, CallerLeaves DEF Here
    <3> QED
      BY <2>1, <3>1 DEF HoldsLock, CallerAt, Here
  <2>3. \A d \in Callers \ {c} : caller'[d] = caller[d] /\ (mutex = d => mutex' = d)
    BY <1>2, CallSteps, CallerLeaves DEF CallerAt
  <2>4. \A d \in Callers \ {c} : HoldsLock(d)'
    BY <1>0, <1>1, <2>1, <2>3 DEF LockHeld
  <2> QED
    BY <2>1, <2>2, <2>4
<1>3. ASSUME NEW c \in Callers, CreateHost(c) \/ CreateRole(c)
      PROVE  lost' = 0 /\ \A d \in Callers : HoldsLock(d)'
  <2>1. lost' = 0 /\ engine' = engine /\ HoldsLock(c)
    BY <1>0, <1>3, CreateSteps DEF LockHeld
  <2>2. HoldsLock(c)'
    BY <1>0, <1>3, <2>1, CreateSteps, CallerLeaves DEF HoldsLock, CallerAt, Here
  <2>3. \A d \in Callers \ {c} : caller'[d] = caller[d] /\ (mutex = d => mutex' = d)
    BY <1>3, CreateSteps, CallerLeaves DEF CallerAt
  <2>4. \A d \in Callers \ {c} : HoldsLock(d)'
    BY <1>0, <1>1, <2>1, <2>3 DEF LockHeld
  <2> QED
    BY <2>1, <2>2, <2>4
<1>4. ASSUME NEW c \in Callers, GrantHost(c) \/ GrantNewRole(c) \/ GrantRole(c)
      PROVE  lost' = 0 /\ \A d \in Callers : HoldsLock(d)'
  <2>1. lost' = 0 /\ engine' = engine /\ HoldsLock(c)
    BY <1>0, <1>4, GrantSteps DEF LockHeld
  <2>2. HoldsLock(c)'
    BY <1>0, <1>4, <2>1, GrantSteps, CallerLeaves DEF HoldsLock, CallerAt, Here
  <2>3. \A d \in Callers \ {c} : caller'[d] = caller[d] /\ (mutex = d => mutex' = d)
    BY <1>4, GrantSteps, CallerLeaves DEF CallerAt
  <2>4. \A d \in Callers \ {c} : HoldsLock(d)'
    BY <1>0, <1>1, <2>1, <2>3 DEF LockHeld
  <2> QED
    BY <2>1, <2>2, <2>4
<1>5. ASSUME NEW c \in Callers, NewEngine(c) \/ EnsureFails(c)
      PROVE  lost' = 0 /\ \A d \in Callers : HoldsLock(d)'
  <2>1. HoldsLock(c) /\ mutex = c /\ engine = "none"
    BY <1>0, <1>5 DEF LockHeld, HoldsLock, NewEngine, EnsureFails, Here
  <2>2. lost' = 0
    BY <1>0, <1>5, <2>1 DEF LockHeld, NewEngine, EnsureFails
  <2>3. CallerAt(c, "idle", 1) /\ \A d \in Callers \ {c} : mutex = d => mutex' = d
    BY <1>5, CallerLeaves DEF NewEngine, EnsureFails
  <2>4. HoldsLock(c)'
    BY <2>3 DEF HoldsLock, CallerAt
  <2>5. \A d \in Callers \ {c} : HoldsLock(d)'
    BY <1>0, <1>1, <2>1, <2>3 DEF LockHeld, CallerAt
  <2> QED
    BY <2>2, <2>4, <2>5
<1>6. CASE UseEngine
  BY <1>0, <1>6 DEF UseEngine, LockHeld, HoldsLock
<1>7. CASE RebuildPostgres
  BY <1>0, <1>7 DEF RebuildPostgres, LockHeld, HoldsLock
<1>8. CASE Restart
  BY <1>0, <1>8 DEF Restart, LockHeld, HoldsLock, Away
<1>9. CASE UNCHANGED engineVars
  BY <1>0, <1>9 DEF engineVars, LockHeld, HoldsLock
<1> QED
  BY <1>2, <1>3, <1>4, <1>5, <1>6, <1>7, <1>8, <1>9, EngineCases

\* A call half-way through the creations: the accounts it leaves behind, if it
\* does not stop there.
LEMMA AccountsStep ==
    /\ EngineTypeOK /\ EnginesReady /\ AccountsAsCreated /\ [EngineNext]_engineVars
    => AccountsAsCreated'
<1> SUFFICES ASSUME EngineTypeOK, EnginesReady, AccountsAsCreated, [EngineNext]_engineVars
             PROVE  AccountsInOrder' /\ AccountsComplete'
  BY DEF AccountsAsCreated
<1>1. ASSUME server' = server, accounts' = accounts, broken => broken',
             \A c \in Callers : caller'[c] = caller[c] \/ ~Breaks(c)',
             broken' \/ \A c \in Callers : caller'[c] = caller[c] \/ ~Breaks(c)
      PROVE  AccountsInOrder' /\ AccountsComplete'
  <2>1. AccountsInOrder'
    BY <1>1 DEF AccountsAsCreated, AccountsInOrder, Breaks, Here
  <2>2. AccountsComplete'
    <3>1. Hosts' = Hosts
      BY <1>1 DEF Hosts
    <3>2. ASSUME accounts # {}, ~broken', accounts # Range(Hosts)
          PROVE  \E c \in Callers : Breaks(c)'
      <4>1. PICK c \in Callers : Breaks(c)
        BY <1>1, <3>2 DEF AccountsAsCreated, AccountsComplete
      <4>2. caller'[c] = caller[c]
        BY <1>1, <3>2, <4>1
      <4> QED
        BY <4>1, <4>2 DEF Breaks, Here
    <3> QED
      BY <1>1, <3>1, <3>2 DEF AccountsComplete
  <2> QED
    BY <2>1, <2>2
<1>2. ASSUME NEW c \in Callers, NEW step \in CallerSteps \ {"create"}, NEW h \in 1..2,
             CallerAt(c, step, h)
      PROVE  \A d \in Callers : caller'[d] = caller[d] \/ ~Breaks(d)'
  BY <1>2 DEF CallerAt, Breaks, Here
<1>3. ASSUME NEW c \in Callers,
             \/ EnsureStarts(c) \/ EnsureLocks(c) \/ EnsureLooks(c)
             \/ AskMysql(c) \/ AskPostgres(c) \/ QuestionFails(c)
             \/ CheckMysql(c) \/ CheckPostgres(c)
      PROVE  AccountsInOrder' /\ AccountsComplete'
  <2>1. server' = server /\ accounts' = accounts /\ broken' = broken
    BY <1>3, CallSteps
  <2>2. ~Here(c, "create") /\ ~Breaks(c)
    BY <1>3, CallSteps DEF Here, Breaks
  <2>3. \E step \in CallerSteps : CallerAt(c, step, 1)
    BY <1>3, CallSteps, CallerLeaves DEF CallerSteps
  <2>4. \A d \in Callers : caller'[d] = caller[d] \/ (~Breaks(d) /\ ~Breaks(d)')
    BY <2>2, <2>3 DEF CallerAt, Breaks, Here
  <2> QED
    BY <1>1, <2>1, <2>4
<1>4. ASSUME NEW c \in Callers, CreateHost(c) \/ CreateRole(c)
      PROVE  AccountsInOrder' /\ AccountsComplete'
  <2>1. server' = server /\ broken' = broken /\ Here(c, "create") /\ Hosts' = Hosts
    BY <1>4, CreateSteps DEF Hosts
  <2>2. CASE accounts' = accounts /\ Leave(c)
               /\ (server = "mysql" /\ caller[c].host = 2 => "localhost" \in accounts)
    <3>1. CallerAt(c, "idle", 1)
      BY <2>2, CallerLeaves
    <3>2. AccountsInOrder'
      BY <2>1, <2>2, <3>1 DEF AccountsAsCreated, AccountsInOrder, Breaks, Here, CallerAt
    <3>3. CASE server = "mysql" /\ caller[c].host = 2
      <4>1. accounts = {"%", "localhost"}
        BY <2>2, <3>3 DEF AccountsAsCreated, AccountsInOrder
      <4> QED
        BY <2>1, <2>2, <3>2, <3>3, <4>1, HostsAre DEF AccountsComplete
    <3>4. CASE server = "mysql" /\ caller[c].host # 2
      <4>1. caller[c].host = 1
        BY <3>4 DEF EngineTypeOK, Caller
      <4>2. \A d \in Callers : caller'[d] = caller[d] \/ (~Breaks(d) /\ ~Breaks(d)')
        BY <3>1, <4>1 DEF CallerAt, Breaks, Here
      <4> QED
        BY <1>1, <2>1, <2>2, <4>2
    <3>5. CASE server = "postgresql"
      <4>1. accounts \subseteq {"role"}
        BY <3>5 DEF AccountsAsCreated, AccountsInOrder
      <4>2. accounts = {} \/ accounts = Range(Hosts)
        BY <3>5, <4>1, HostsAre
      <4> QED
        BY <2>1, <2>2, <3>2, <4>2 DEF AccountsComplete
    <3> QED
      BY <3>3, <3>4, <3>5 DEF EngineTypeOK
  <2>3. CASE /\ server = "mysql" /\ caller[c].host = 1
             /\ accounts' = accounts \cup {"%"} /\ "%" \notin accounts
             /\ CallerAt(c, "create", 2)
    <3>1. Breaks(c)'
      BY <2>3 DEF CallerAt, Breaks, Here
    <3>2. AccountsInOrder'
      BY <2>1, <2>3 DEF AccountsAsCreated, AccountsInOrder
    <3> QED
      BY <3>1, <3>2 DEF AccountsComplete
  <2>4. CASE /\ server = "mysql" /\ caller[c].host = 2
             /\ accounts' = accounts \cup {"localhost"}
             /\ CallerAt(c, "grant", 1)
    <3>1. "%" \in accounts
      BY <2>1, <2>4 DEF AccountsAsCreated, AccountsInOrder, Breaks
    <3>2. accounts' = {"%", "localhost"}
      BY <2>4, <3>1 DEF AccountsAsCreated, AccountsInOrder
    <3> QED
      BY <2>1, <2>4, <3>2, HostsAre DEF AccountsInOrder, AccountsComplete
  <2>5. CASE server = "postgresql" /\ accounts' = accounts \cup {"role"}
    <3>1. accounts' = {"role"}
      BY <2>5 DEF AccountsAsCreated, AccountsInOrder
    <3> QED
      BY <2>1, <2>5, <3>1, HostsAre DEF AccountsInOrder, AccountsComplete
  <2> QED
    BY <1>4, <2>2, <2>3, <2>4, <2>5, CreateSteps
<1>5. ASSUME NEW c \in Callers, GrantHost(c) \/ GrantNewRole(c) \/ GrantRole(c)
      PROVE  AccountsInOrder' /\ AccountsComplete'
  <2>1. server' = server /\ accounts' = accounts /\ broken' = broken
    BY <1>5, GrantSteps
  <2>2. ~Breaks(c)
    BY <1>5, GrantSteps DEF Here, Breaks
  <2>3. \/ CallerAt(c, "idle", 1) \/ CallerAt(c, "grant", 2) \/ CallerAt(c, "init", 1)
    BY <1>5, GrantSteps, CallerLeaves
  <2>4. \A d \in Callers : caller'[d] = caller[d] \/ (~Breaks(d) /\ ~Breaks(d)')
    BY <2>2, <2>3 DEF CallerAt, Breaks, Here
  <2> QED
    BY <1>1, <2>1, <2>4
<1>6. ASSUME NEW c \in Callers, NewEngine(c) \/ EnsureFails(c)
      PROVE  AccountsInOrder' /\ AccountsComplete'
  <2>1. server' = server /\ accounts' = accounts /\ broken' = (broken \/ Breaks(c))
    BY <1>6, Zenon DEF NewEngine, EnsureFails, EngineTypeOK, Breaks, Here
  <2>2. CallerAt(c, "idle", 1)
    BY <1>6, CallerLeaves DEF NewEngine, EnsureFails
  <2>3. \A d \in Callers : caller'[d] = caller[d] \/ ~Breaks(d)'
    BY <2>2 DEF CallerAt, Breaks, Here
  <2>4. broken' \/ \A d \in Callers : caller'[d] = caller[d] \/ ~Breaks(d)
    BY <2>1, <2>2 DEF CallerAt
  <2> QED
    BY <1>1, <2>1, <2>3, <2>4
<1>7. CASE UseEngine
  BY <1>1, <1>7 DEF UseEngine
<1>8. CASE RebuildPostgres
  BY <1>1, <1>8 DEF RebuildPostgres
<1>9. CASE Restart
  <2>1. server' = server /\ accounts' = accounts
        /\ broken' = (broken \/ \E c \in Callers : Breaks(c))
    BY <1>9 DEF Restart
  <2>2. \A c \in Callers : ~Breaks(c)'
    BY <1>9 DEF Restart, Breaks, Here, Away
  <2> QED
    BY <1>1, <2>1, <2>2
<1>10. CASE UNCHANGED engineVars
  BY <1>1, <1>10 DEF engineVars
<1> QED
  BY <1>3, <1>4, <1>5, <1>6, <1>7, <1>8, <1>9, <1>10, EngineCases

-----------------------------------------------------------------------------
LEMMA EngineInductive == EngineSpec => []EngineIInv
<1>1. EngineIInv /\ [EngineNext]_engineVars => EngineIInv'
  BY EngineTypeStep, EnginesReadyStep, LockHeldStep, AccountsStep DEF EngineIInv
<1> QED
  BY <1>1, EngineStarts, PTL DEF EngineSpec

\* A call's step is one of those its engine has, and every other state of the
\* accounts, the engine and the lock is within its type.
THEOREM EngineTypeCorrect == EngineSpec => []EngineTypeOK
BY EngineInductive, PTL DEF EngineIInv

\* However the calls, the failures and the restarts fall, the engine that
\* ensure_user_and_engine leaves in the cache logs in to an account that is
\* there and may use the tables, as long as PostgreSQL's database is not made
\* anew.
THEOREM EngineReady == EngineSpec => []EngineIsReady
<1>1. EngineIInv => EngineIsReady
  BY DEF EngineIInv, EnginesReady, AccountUsable, AccountThere, EngineIsReady
<1> QED
  BY <1>1, EngineInductive, PTL

\* The lock keeps two PostgreSQL calls from making two engines.
THEOREM OneEngine == EngineSpec => []NoEngineLost
<1>1. EngineIInv => NoEngineLost
  BY DEF EngineIInv, LockHeld, NoEngineLost
<1> QED
  BY <1>1, EngineInductive, PTL

\* MySQL has the accounts of both hosts or none, unless a creation is at it or
\* was broken off.
THEOREM AccountsAreComplete == EngineSpec => []AccountsComplete
<1>1. EngineIInv => AccountsComplete
  BY DEF EngineIInv, AccountsAsCreated
<1> QED
  BY <1>1, EngineInductive, PTL

-----------------------------------------------------------------------------
(***************************************************************************)
(* SqliteFiles: the file of a deployment that goes on alone.               *)
(***************************************************************************)

\* The script's tables in the file at the path.
Deployed == Contents \cap FileTables

\* The slots' files are there.
FilesThere ==
    /\ \A d \in Deployers : deployer[d].at = "create" => deployer[d].file \in 1..Len(made)
    /\ \A u \in Users : user[u].at = "run" => user[u].file \in 1..Len(made)

\* A deployment that met no other one has the file at the path to itself, and
\* in it the tables it created.
DeploymentOwnsFile ==
    ~overlap =>
        \A d \in Deploying :
            /\ \A e \in Deploying : e = d
            /\ deployer[d].at \in {"open", "create"}
            /\ deployer[d].left \subseteq deployer[d].script
            /\ deployer[d].at = "open" => Deployed = {} /\ deployer[d].left = deployer[d].script
            /\ deployer[d].at = "create" =>
                  /\ path = deployer[d].file
                  /\ Deployed = deployer[d].script \ deployer[d].left

FileIInv == FilesTypeOK /\ FilesThere /\ DeploymentOwnsFile /\ FileHoldsScript

-----------------------------------------------------------------------------
TableSets == SUBSET (FileTables \cup {Dummy})

LEMMA ContentsType ==
    ASSUME FilesTypeOK PROVE Contents \in TableSets /\ (path = 0 => Contents = {})
  BY DEF FilesTypeOK, Contents, TableSets

\* The path after it was opened, and what is there then.
LEMMA Opens ==
    ASSUME FilesTypeOK, NEW tables \in TableSets, OpenWith(tables)
    PROVE  /\ made' \in Seq(TableSets)
           /\ Len(made') \in Len(made)..MaxFiles
           /\ path' = Opened /\ path' \in 1..Len(made')
           /\ path # 0 => path' = path
           /\ Contents' = tables
<1> USE MaxFilesAssumption
<1>1. made \in Seq(TableSets) /\ Len(made) \in 0..MaxFiles /\ path \in 0..Len(made)
  BY DEF FilesTypeOK, TableSets
<1>2. CASE path = 0
  <2>1. made' = Append(made, tables) /\ path' = Len(made) + 1 /\ Len(made) < MaxFiles
    BY <1>2 DEF OpenWith, Opened, MayOpen
  <2>2. made' \in Seq(TableSets) /\ Len(made') = Len(made) + 1 /\ made'[Len(made) + 1] = tables
    BY <1>1, <2>1, AppendProperties
  <2> QED
    BY <1>1, <1>2, <2>1, <2>2 DEF Opened, Contents
<1>3. CASE path # 0
  <2>1. made' = [made EXCEPT ![path] = tables] /\ path' = path
    BY <1>3 DEF OpenWith, Opened
  <2>2. made' \in Seq(TableSets) /\ Len(made') = Len(made) /\ made'[path] = tables
    BY <1>1, <1>3, <2>1, ExceptSeq
  <2> QED
    BY <1>1, <1>3, <2>1, <2>2 DEF Opened, Contents
<1> QED
  BY <1>2, <1>3

LEMMA UnbusyIs == Unbusy \in Deployer /\ Absent \in User
  BY MaxFilesAssumption DEF Unbusy, Absent, Deployer, User, Files

LEMMA FileStarts == FilesInit => FileIInv
<1> SUFFICES ASSUME FilesInit PROVE FileIInv
  OBVIOUS
<1>1. made \in Seq(SUBSET (FileTables \cup {Dummy})) /\ Len(made) = 0
  BY DEF FilesInit
<1>2. FilesTypeOK
  <2>1. made = <<>> /\ path = 0 /\ ready = FALSE /\ pool = {} /\ settled = {} /\ overlap = FALSE
        /\ deployer \in [Deployers -> Deployer] /\ user \in [Users -> User]
    BY UnbusyIs DEF FilesInit
  <2>2. 0 <= MaxFiles /\ path \in 0..0
    BY <2>1, MaxFilesAssumption
  <2> QED
    BY <1>1, <2>1, <2>2 DEF FilesTypeOK
<1>3. FilesThere
  BY DEF FilesInit, FilesThere, Unbusy, Absent
<1>4. DeploymentOwnsFile /\ FileHoldsScript
  BY DEF FilesInit, DeploymentOwnsFile, FileHoldsScript, Deploying
<1> QED
  BY <1>2, <1>3, <1>4 DEF FileIInv

\* What a statement's step keeps: the tables of scripts at the path, the file
\* there, and the deployments.
KeepsFiles ==
    /\ Deployed' = Deployed
    /\ path # 0 => path' = path
    /\ UNCHANGED <<deployer, settled, overlap>>

LEMMA FilesKept ==
    ASSUME FileIInv, KeepsFiles, FilesTypeOK', FilesThere' PROVE FileIInv'
<1> USE DEF FileIInv, KeepsFiles
<1>1. path # 0 => path' = path
  OBVIOUS
<1>2. path \in Nat /\ path' \in Nat
  BY DEF FilesTypeOK
<1>3. Deploying' = Deploying
  BY DEF Deploying
<1>4. DeploymentOwnsFile'
  <2> SUFFICES ASSUME ~overlap, NEW d \in Deploying
               PROVE  /\ \A e \in Deploying : e = d
                      /\ deployer[d].at \in {"open", "create"}
                      /\ deployer[d].left \subseteq deployer[d].script
                      /\ deployer[d].at = "open" =>
                            Deployed' = {} /\ deployer[d].left = deployer[d].script
                      /\ deployer[d].at = "create" =>
                            /\ path' = deployer[d].file
                            /\ Deployed' = deployer[d].script \ deployer[d].left
    BY <1>3 DEF DeploymentOwnsFile
  <2>1. deployer[d].at = "create" => path = deployer[d].file /\ path # 0
    BY DEF DeploymentOwnsFile, FilesThere, Deploying
  <2> QED
    BY <2>1 DEF DeploymentOwnsFile
<1>5. FileHoldsScript'
  <2> SUFFICES ASSUME settled # {}, ~overlap, Deploying = {}
               PROVE  path' # 0 /\ made'[path'] \cap FileTables = settled
    BY <1>3 DEF FileHoldsScript
  <2>1. path # 0 /\ Deployed = settled
    BY DEF FileHoldsScript, Deployed, Contents
  <2> QED
    BY <2>1 DEF Deployed, Contents
<1> QED
  BY <1>4, <1>5

\* A statement's slot after a step.
LEMMA UserStays ==
    ASSUME FilesTypeOK, NEW u \in Users,
           NEW step \in {"idle", "dummy", "undo", "engine", "connect", "run"},
           NEW f \in Files, Stay(u, step, f)
    PROVE  /\ user' \in [Users -> User]
           /\ user'[u].at = step /\ user'[u].file = f
           /\ \A v \in Users \ {u} : user'[v] = user[v]
<1>1. [at |-> step, file |-> f] \in User
  BY DEF User
<1> QED
  BY <1>1 DEF Stay, FilesTypeOK

\* Files are only added, so that those that were there still are.
LEMMA FilesGrow ==
    ASSUME FilesTypeOK, FilesThere, NEW n \in Nat, Len(made) <= n
    PROVE  /\ \A d \in Deployers : deployer[d].at = "create" => deployer[d].file \in 1..n
           /\ \A u \in Users : user[u].at = "run" => user[u].file \in 1..n
           /\ \A f \in pool : f \in 1..n
<1>1. Len(made) \in Nat
  BY DEF FilesTypeOK
<1> QED
  BY <1>1 DEF FilesTypeOK, FilesThere

\* A statement that opens the path, and leaves the tables of scripts as they are.
LEMMA UserOpens ==
    ASSUME FileIInv, NEW u \in Users, NEW tables \in TableSets, OpenWith(tables),
           tables \cap FileTables = Deployed,
           NEW step \in {"idle", "dummy", "undo", "engine", "connect", "run"},
           NEW f \in Files, Stay(u, step, f),
           step = "run" => f = Opened,
           ready' \in BOOLEAN, pool' \subseteq pool, UNCHANGED <<deployer, settled, overlap>>
    PROVE  FileIInv'
<1> USE MaxFilesAssumption
<1>1. FilesTypeOK /\ FilesThere
  BY DEF FileIInv
<1>2. /\ made' \in Seq(TableSets)
      /\ Len(made') \in Len(made)..MaxFiles
      /\ path' = Opened /\ path' \in 1..Len(made')
      /\ path # 0 => path' = path
      /\ Contents' = tables
  BY <1>1, Opens
<1>3. Len(made) \in Nat /\ Len(made') \in Nat /\ Len(made) <= Len(made') /\ Len(made') <= MaxFiles
  BY <1>1, <1>2 DEF FilesTypeOK
<1>4. /\ user' \in [Users -> User]
      /\ user'[u].at = step /\ user'[u].file = f
      /\ \A v \in Users \ {u} : user'[v] = user[v]
  BY <1>1, UserStays
<1>5. FilesTypeOK'
  <2>1. pool' \in SUBSET (1..Len(made'))
    BY <1>1, <1>3, FilesGrow
  <2> QED
    BY <1>1, <1>2, <1>3, <1>4, <2>1 DEF FilesTypeOK, TableSets
<1>6. FilesThere'
  BY <1>1, <1>2, <1>3, <1>4, FilesGrow DEF FilesThere
<1>7. KeepsFiles
  BY <1>2 DEF KeepsFiles, Deployed
<1> QED
  BY <1>5, <1>6, <1>7, FilesKept

\* A statement that opens nothing.
LEMMA UserGoesOn ==
    ASSUME FileIInv, NEW u \in Users,
           NEW step \in {"idle", "dummy", "undo", "engine", "connect", "run"},
           NEW f \in Files, Stay(u, step, f), step = "run" => f \in 1..Len(made),
           ready' \in BOOLEAN, pool' \subseteq 1..Len(made),
           UNCHANGED <<made, path, deployer, settled, overlap>>
    PROVE  FileIInv'
<1>1. FilesTypeOK /\ FilesThere
  BY DEF FileIInv
<1>2. /\ user' \in [Users -> User]
      /\ user'[u].at = step /\ user'[u].file = f
      /\ \A v \in Users \ {u} : user'[v] = user[v]
  BY <1>1, UserStays
<1>3. FilesTypeOK'
  BY <1>1, <1>2 DEF FilesTypeOK
<1>4. FilesThere'
  BY <1>1, <1>2 DEF FilesThere
<1>5. KeepsFiles
  BY DEF KeepsFiles, Deployed, Contents
<1> QED
  BY <1>3, <1>4, <1>5, FilesKept

LEMMA UserStep ==
    ASSUME FileIInv, NEW u \in Users,
           \/ UseStarts(u) \/ CreateDummy(u) \/ DropDummy(u) \/ EnsureEngine(u)
           \/ TakeConnection(u) \/ RunStatement(u)
    PROVE  FileIInv'
<1> USE MaxFilesAssumption
<1>0. FilesTypeOK /\ FilesThere /\ Contents \in TableSets /\ 0 \in Files
      /\ pool \subseteq 1..Len(made) /\ ready \in BOOLEAN
  BY ContentsType DEF FileIInv, FilesTypeOK, Files
<1>1. CASE UseStarts(u)
  BY <1>0, <1>1, UserGoesOn DEF UseStarts
<1>2. CASE CreateDummy(u)
  <2>1. Contents \cup {Dummy} \in TableSets
        /\ (Contents \cup {Dummy}) \cap FileTables = Deployed
    BY <1>0, DummyAssumption DEF TableSets, Deployed
  <2> QED
    BY <1>0, <1>2, <2>1, UserOpens DEF CreateDummy
<1>3. CASE DropDummy(u)
  <2>1. AfterDrop \in TableSets /\ AfterDrop \cap FileTables = Deployed
    BY <1>0, DummyAssumption DEF TableSets, Deployed, AfterDrop
  <2> QED
    BY <1>0, <1>3, <2>1, UserOpens DEF DropDummy
<1>4. CASE EnsureEngine(u)
  <2>1. CASE ready
    BY <1>0, <1>4, <2>1, UserGoesOn DEF EnsureEngine
  <2>2. CASE ~ready
    BY <1>0, <1>4, <2>2, UserOpens DEF EnsureEngine, Deployed
  <2> QED
    BY <2>1, <2>2
<1>5. CASE TakeConnection(u)
  <2>1. CASE pool = {}
    <3>1. OpenWith(Contents) /\ Stay(u, "run", Opened) /\ pool' = pool
          /\ ready' = ready /\ UNCHANGED <<deployer, settled, overlap>>
      BY <1>5, <2>1 DEF TakeConnection
    <3>2. Opened \in Files
      BY <1>0, <3>1, Opens DEF Files
    <3> QED
      BY <1>0, <3>1, <3>2, UserOpens DEF Deployed
  <2>2. CASE pool # {}
    <3>1. PICK f \in pool : Stay(u, "run", f) /\ pool' = pool \ {f} /\ UNCHANGED <<made, path>>
      BY <1>5, <2>2 DEF TakeConnection
    <3>2. f \in 1..Len(made) /\ f \in Files
      BY <1>0 DEF FilesTypeOK, Files
    <3>3. pool' \subseteq 1..Len(made) /\ ready' = ready
          /\ UNCHANGED <<deployer, settled, overlap>>
      BY <1>0, <1>5, <3>1 DEF TakeConnection
    <3> QED
      BY <1>0, <3>1, <3>2, <3>3, UserGoesOn
  <2> QED
    BY <2>1, <2>2
<1>6. CASE RunStatement(u)
  <2>1. user[u].file \in 1..Len(made)
    BY <1>0, <1>6 DEF RunStatement, FilesThere
  <2> QED
    BY <1>0, <1>6, <2>1, UserGoesOn DEF RunStatement
<1> QED
  BY <1>1, <1>2, <1>3, <1>4, <1>5, <1>6

-----------------------------------------------------------------------------
\* A deployment's slot after a step.
LEMMA DeployerMoves ==
    ASSUME FilesTypeOK, NEW d \in Deployers, NEW slot \in Deployer,
           deployer' = [deployer EXCEPT ![d] = slot]
    PROVE  /\ deployer' \in [Deployers -> Deployer]
           /\ deployer'[d] = slot
           /\ \A e \in Deployers \ {d} : deployer'[e] = deployer[e]
           /\ Deploying' = IF slot = Unbusy THEN Deploying \ {d} ELSE Deploying \cup {d}
  BY DEF FilesTypeOK, Deploying

LEMMA DeployRemovesStep ==
    ASSUME FileIInv, NEW d \in Deployers, NEW tables \in SUBSET FileTables,
           DeployRemoves(d, tables)
    PROVE  FileIInv'
<1> USE MaxFilesAssumption
<1> DEFINE slot == [at |-> "open", file |-> 0, script |-> tables, left |-> tables]
<1>1. FilesTypeOK /\ FilesThere /\ slot \in Deployer /\ slot # Unbusy
  BY DEF FileIInv, Deployer, Files, Unbusy
<1>2. /\ path' = 0 /\ settled' = {} /\ overlap' = (Deploying # {})
      /\ deployer' = [deployer EXCEPT ![d] = slot]
      /\ UNCHANGED <<made, ready, pool, user>>
  BY DEF DeployRemoves, AfterRemove
<1>3. /\ deployer' \in [Deployers -> Deployer]
      /\ deployer'[d] = slot
      /\ \A e \in Deployers \ {d} : deployer'[e] = deployer[e]
      /\ Deploying' = Deploying \cup {d}
  BY <1>1, <1>2, DeployerMoves
<1>4. FilesTypeOK'
  BY <1>1, <1>2, <1>3 DEF FilesTypeOK
<1>5. FilesThere'
  BY <1>1, <1>2, <1>3 DEF FilesThere
<1>6. Deployed' = {}
  BY <1>2 DEF Deployed, Contents
<1>7. DeploymentOwnsFile'
  BY <1>2, <1>3, <1>6 DEF DeploymentOwnsFile
<1>8. FileHoldsScript'
  BY <1>2 DEF FileHoldsScript
<1> QED
  BY <1>4, <1>5, <1>7, <1>8 DEF FileIInv

LEMMA DeployOpensStep ==
    ASSUME FileIInv, NEW d \in Deployers, DeployOpens(d)
    PROVE  FileIInv'
<1> USE MaxFilesAssumption
<1>1. FilesTypeOK /\ FilesThere /\ deployer[d] \in Deployer /\ deployer[d].at = "open"
      /\ Contents \in TableSets
  BY ContentsType DEF FileIInv, FilesTypeOK, DeployOpens
<1>2. /\ made' \in Seq(TableSets)
      /\ Len(made') \in Len(made)..MaxFiles
      /\ path' = Opened /\ path' \in 1..Len(made')
      /\ Contents' = Contents
  BY <1>1, Opens DEF DeployOpens
<1>3. Len(made) \in Nat /\ Len(made') \in Nat /\ Len(made) <= Len(made') /\ Len(made') <= MaxFiles
  BY <1>1, <1>2 DEF FilesTypeOK
<1> DEFINE slot == [at |-> "create", file |-> Opened,
                    script |-> deployer[d].script, left |-> deployer[d].left]
<1>4. slot \in Deployer /\ slot # Unbusy
  BY <1>1, <1>2, <1>3 DEF Deployer, Files, Unbusy
<1>5. deployer' = [deployer EXCEPT ![d] = slot]
  <2>1. deployer' = [deployer EXCEPT ![d] = [[deployer[d] EXCEPT !.at = "create"] EXCEPT !.file = Opened]]
    BY <1>1 DEF DeployOpens, FilesTypeOK
  <2>2. [deployer[d] EXCEPT !.at = "create"] =
            [at |-> "create", file |-> deployer[d].file,
             script |-> deployer[d].script, left |-> deployer[d].left]
    BY <1>1 DEF Deployer
  <2>3. \A q : q = [at |-> "create", file |-> deployer[d].file,
                    script |-> deployer[d].script, left |-> deployer[d].left]
               => [q EXCEPT !.file = Opened] = slot
    OBVIOUS
  <2> QED
    BY <2>1, <2>2, <2>3
<1>6. /\ deployer' \in [Deployers -> Deployer]
      /\ deployer'[d] = slot
      /\ \A e \in Deployers \ {d} : deployer'[e] = deployer[e]
      /\ Deploying' = Deploying \cup {d}
  BY <1>1, <1>4, <1>5, DeployerMoves
<1>7. UNCHANGED <<ready, pool, user, settled, overlap>> /\ d \in Deploying
  BY <1>1 DEF DeployOpens, Deploying, Unbusy
<1>8. FilesTypeOK'
  <2>1. pool' \in SUBSET (1..Len(made'))
    BY <1>1, <1>3, <1>7, FilesGrow
  <2> QED
    BY <1>1, <1>2, <1>3, <1>6, <1>7, <2>1 DEF FilesTypeOK, TableSets
<1>9. FilesThere'
  BY <1>1, <1>2, <1>3, <1>6, <1>7, FilesGrow DEF FilesThere
<1>10. DeploymentOwnsFile'
  <2>1. Deploying' = Deploying /\ Deployed' = Deployed
    BY <1>2, <1>6, <1>7 DEF Deployed
  <2>2. ~overlap => Deploying = {d} /\ Deployed = {} /\ deployer[d].left = deployer[d].script
    BY <1>1, <1>7 DEF FileIInv, DeploymentOwnsFile
  <2>3. slot.at = "create" /\ slot.file = path' /\ slot.left = deployer[d].left
        /\ slot.script = deployer[d].script
    BY <1>2
  <2> HIDE DEF slot
  <2> QED
    BY <1>6, <1>7, <2>1, <2>2, <2>3 DEF DeploymentOwnsFile
<1>11. FileHoldsScript'
  BY <1>6, <1>7 DEF FileHoldsScript
<1> QED
  BY <1>8, <1>9, <1>10, <1>11 DEF FileIInv

LEMMA DeployCreatesStep ==
    ASSUME FileIInv, NEW d \in Deployers, DeployCreates(d)
    PROVE  FileIInv'
<1> USE MaxFilesAssumption
<1> DEFINE f == deployer[d].file
<1>1. FilesTypeOK /\ FilesThere /\ deployer[d] \in Deployer /\ deployer[d].at = "create"
      /\ f \in 1..Len(made)
  BY DEF FileIInv, FilesTypeOK, DeployCreates, FilesThere
<1>2. PICK t \in deployer[d].left \ made[f] :
          /\ made' = [made EXCEPT ![f] = @ \cup {t}]
          /\ deployer' = [deployer EXCEPT ![d].left = @ \ {t}]
  BY DEF DeployCreates
<1>3. UNCHANGED <<path, ready, pool, user, settled, overlap>> /\ d \in Deploying
      /\ t \in FileTables /\ t \in deployer[d].left /\ t \notin made[f]
  BY <1>1, <1>2 DEF DeployCreates, Deployer, Deploying, Unbusy
<1>4. /\ made' \in Seq(TableSets) /\ Len(made') = Len(made)
      /\ made'[f] = made[f] \cup {t}
      /\ \A g \in 1..Len(made) \ {f} : made'[g] = made[g]
  <2>1. made \in Seq(TableSets) /\ made[f] \in TableSets
    BY <1>1 DEF FilesTypeOK, TableSets
  <2>2. made[f] \cup {t} \in TableSets /\ made' = [made EXCEPT ![f] = made[f] \cup {t}]
    BY <1>2, <1>3, <2>1 DEF TableSets
  <2> QED
    BY <1>1, <2>1, <2>2, ExceptSeq
<1> DEFINE slot == [at |-> "create", file |-> f, script |-> deployer[d].script,
                    left |-> deployer[d].left \ {t}]
<1>5. slot \in Deployer /\ slot # Unbusy
  BY <1>1 DEF Deployer, Files, Unbusy
<1>6. deployer' = [deployer EXCEPT ![d] = slot]
  <2>1. deployer' = [deployer EXCEPT ![d] = [deployer[d] EXCEPT !.left = deployer[d].left \ {t}]]
    BY <1>1, <1>2 DEF FilesTypeOK
  <2>2. \A r \in Deployer, left \in SUBSET FileTables :
           [r EXCEPT !.left = left] = [at |-> r.at, file |-> r.file, script |-> r.script, left |-> left]
    BY DEF Deployer
  <2>3. deployer[d].left \ {t} \in SUBSET FileTables
    BY <1>1 DEF Deployer
  <2>4. [deployer[d] EXCEPT !.left = deployer[d].left \ {t}] = slot
    BY <1>1, <2>2, <2>3
  <2> QED
    BY <2>1, <2>4
<1>7. /\ deployer' \in [Deployers -> Deployer]
      /\ deployer'[d] = slot
      /\ \A e \in Deployers \ {d} : deployer'[e] = deployer[e]
      /\ Deploying' = Deploying \cup {d}
  BY <1>1, <1>5, <1>6, DeployerMoves
<1>8. FilesTypeOK'
  BY <1>1, <1>3, <1>4, <1>7 DEF FilesTypeOK, TableSets
<1>9. FilesThere'
  BY <1>1, <1>3, <1>4, <1>7 DEF FilesThere
<1>10. DeploymentOwnsFile'
  <2>1. Deploying' = Deploying /\ d \in Deploying
    BY <1>3, <1>7
  <2>2. SUFFICES ASSUME ~overlap
                 PROVE  /\ Deploying = {d} /\ slot.left \subseteq slot.script
                        /\ path = f /\ Deployed' = slot.script \ slot.left
    BY <1>3, <1>7, <2>1 DEF DeploymentOwnsFile
  <2>3. /\ Deploying = {d} /\ deployer[d].left \subseteq deployer[d].script
        /\ path = f /\ Deployed = deployer[d].script \ deployer[d].left
    BY <1>1, <2>1, <2>2 DEF FileIInv, DeploymentOwnsFile
  <2>4. path # 0 /\ path' = path /\ Contents = made[f] /\ Contents' = made[f] \cup {t}
    BY <1>1, <1>3, <1>4, <2>3 DEF Contents
  <2>5. Deployed' = Deployed \cup {t}
    BY <1>3, <2>4 DEF Deployed
  <2>6. t \in deployer[d].script /\ t \in deployer[d].left
    BY <1>3, <2>3
  <2> QED
    BY <2>3, <2>5, <2>6
<1>11. FileHoldsScript'
  BY <1>3, <1>7 DEF FileHoldsScript
<1> QED
  BY <1>8, <1>9, <1>10, <1>11 DEF FileIInv

LEMMA DeployEndsStep ==
    ASSUME FileIInv, NEW d \in Deployers, DeployEnds(d) \/ DeployFails(d)
    PROVE  FileIInv'
<1>1. FilesTypeOK /\ FilesThere /\ deployer[d] \in Deployer /\ d \in Deploying
  BY DEF FileIInv, FilesTypeOK, DeployEnds, DeployFails, Deploying, Unbusy
<1>2. /\ deployer' = [deployer EXCEPT ![d] = Unbusy]
      /\ UNCHANGED <<made, path, ready, pool, user, overlap>>
      /\ settled' \in SUBSET FileTables
      /\ settled' # {} => /\ settled' = deployer[d].script
                          /\ deployer[d].at = "create" /\ deployer[d].left = {}
  BY <1>1 DEF DeployEnds, DeployFails, Deployer
<1>3. /\ deployer' \in [Deployers -> Deployer]
      /\ deployer'[d] = Unbusy
      /\ \A e \in Deployers \ {d} : deployer'[e] = deployer[e]
      /\ Deploying' = Deploying \ {d}
  BY <1>1, <1>2, UnbusyIs, DeployerMoves
<1>4. FilesTypeOK'
  BY <1>1, <1>2, <1>3 DEF FilesTypeOK
<1>5. FilesThere'
  BY <1>1, <1>2, <1>3 DEF FilesThere, Unbusy
<1>6. DeploymentOwnsFile'
  <2> SUFFICES ASSUME ~overlap PROVE Deploying' = {}
    BY <1>2 DEF DeploymentOwnsFile
  <2> QED
    BY <1>1, <1>3 DEF FileIInv, DeploymentOwnsFile
<1>7. FileHoldsScript'
  <2> SUFFICES ASSUME settled' # {}, ~overlap PROVE path # 0 /\ made[path] \cap FileTables = settled'
    BY <1>2 DEF FileHoldsScript
  <2>1. path = deployer[d].file /\ deployer[d].file \in 1..Len(made)
        /\ Deployed = deployer[d].script \ deployer[d].left
    BY <1>1, <1>2 DEF FileIInv, DeploymentOwnsFile, FilesThere
  <2>2. path # 0 /\ Deployed = settled'
    BY <1>2, <2>1
  <2> QED
    BY <2>2 DEF Deployed, Contents
<1> QED
  BY <1>4, <1>5, <1>6, <1>7 DEF FileIInv

LEMMA FilesRestartStep == ASSUME FileIInv, FilesRestart PROVE FileIInv'
<1>1. FilesTypeOK /\ Unbusy \in Deployer /\ Absent \in User
  BY UnbusyIs DEF FileIInv
<1>2. Deploying' = {}
  BY DEF FilesRestart, Deploying
<1>3. FilesTypeOK'
  BY <1>1 DEF FilesRestart, FilesTypeOK
<1>4. FilesThere'
  BY DEF FilesRestart, FilesThere, Unbusy, Absent
<1>5. DeploymentOwnsFile'
  BY <1>2 DEF DeploymentOwnsFile
<1>6. FileHoldsScript'
  BY DEF FilesRestart, FileHoldsScript, FileIInv
<1> QED
  BY <1>3, <1>4, <1>5, <1>6 DEF FileIInv

LEMMA FileStep == FileIInv /\ [FilesNext]_fileVars => FileIInv'
<1> SUFFICES ASSUME FileIInv, [FilesNext]_fileVars PROVE FileIInv'
  OBVIOUS
<1>1. ASSUME NEW d \in Deployers,
             \/ \E tables \in SUBSET FileTables : DeployRemoves(d, tables)
             \/ DeployOpens(d) \/ DeployCreates(d) \/ DeployEnds(d) \/ DeployFails(d)
      PROVE  FileIInv'
  BY <1>1, DeployRemovesStep, DeployOpensStep, DeployCreatesStep, DeployEndsStep
<1>2. ASSUME NEW u \in Users,
             \/ UseStarts(u) \/ CreateDummy(u) \/ DropDummy(u) \/ EnsureEngine(u)
             \/ TakeConnection(u) \/ RunStatement(u)
      PROVE  FileIInv'
  BY <1>2, UserStep
<1>3. CASE FilesRestart
  BY <1>3, FilesRestartStep
<1>4. CASE UNCHANGED fileVars
  BY <1>4 DEF fileVars, FileIInv, FilesTypeOK, FilesThere, DeploymentOwnsFile, FileHoldsScript,
              Deploying, Deployed, Contents
<1> QED
  BY <1>1, <1>2, <1>3, <1>4 DEF FilesNext

LEMMA FileInductive == FilesSpec => []FileIInv
<1>1. FilesInit => FileIInv
  BY FileStarts
<1>2. FileIInv /\ [FilesNext]_fileVars => FileIInv'
  BY FileStep
<1> QED
  BY <1>1, <1>2, PTL DEF FilesSpec

\* The file at the path is one that was made, and so is every pooled connection's.
THEOREM FilesTypeCorrect == FilesSpec => []FilesTypeOK
<1>1. FileIInv => FilesTypeOK
  BY DEF FileIInv
<1> QED
  BY <1>1, FileInductive, PTL

\* However statements create, drop and open the file beside it, a deployment that
\* met no other one and ended well leaves exactly the tables of its script at
\* the path (deploy_sqlite_ddl_async, create_sqlite_database).
THEOREM DeployedFileHoldsScript == FilesSpec => []FileHoldsScript
<1>1. FileIInv => FileHoldsScript
  BY DEF FileIInv
<1> QED
  BY <1>1, FileInductive, PTL

-----------------------------------------------------------------------------
(***************************************************************************)
(* DdlSort: what sorting gives, and that the order respects what the       *)
(* statements name.                                                        *)
(***************************************************************************)

Ascending(s) == \A m, n \in 1..Len(s) : m < n => s[m] < s[n]

Distinct(s) == \A m, n \in 1..Len(s) : s[m] = s[n] => m = n

\* The elements of a finite set of numbers can be put in order: each at the
\* place that counts those up to it.
LEMMA OrderExists ==
    ASSUME NEW S \in SUBSET Nat, IsFiniteSet(S)
    PROVE  \E s \in [1..Cardinality(S) -> S] : \A m, n \in DOMAIN s : m < n => s[m] < s[n]
<1> DEFINE N == Cardinality(S)
           UpTo(x) == {y \in S : y <= x}
           rank == [x \in S |-> Cardinality(UpTo(x))]
           s == [m \in 1..N |-> CHOOSE x \in S : rank[x] = m]
<1>1. N \in Nat
  BY FS_CardinalityType
<1>2. ASSUME NEW x \in S PROVE IsFiniteSet(UpTo(x)) /\ Cardinality(UpTo(x)) \in 1..N
  <2>1. UpTo(x) \in SUBSET S /\ x \in UpTo(x)
    OBVIOUS
  <2>2. IsFiniteSet(UpTo(x)) /\ Cardinality(UpTo(x)) <= N
    BY <2>1, FS_Subset
  <2>3. Cardinality(UpTo(x)) \in Nat /\ Cardinality(UpTo(x)) # 0
    BY <2>1, <2>2, FS_CardinalityType, FS_EmptySet
  <2> QED
    BY <1>1, <2>2, <2>3
<1>3. ASSUME NEW x \in S, NEW y \in S, x < y PROVE rank[x] < rank[y]
  <2>0. x \in Nat /\ y \in Nat /\ \A z \in S : z \in Nat
    OBVIOUS
  <2>1. UpTo(x) \in SUBSET UpTo(y) /\ UpTo(x) # UpTo(y)
    <3>1. \A z \in S : z <= x => z <= y
      BY <1>3, <2>0
    <3>2. y \in UpTo(y) /\ y \notin UpTo(x)
      BY <1>3, <2>0
    <3>3. UpTo(x) \in SUBSET UpTo(y)
      BY <3>1
    <3> QED
      BY <3>2, <3>3
  <2>2. Cardinality(UpTo(x)) <= Cardinality(UpTo(y))
        /\ Cardinality(UpTo(x)) # Cardinality(UpTo(y))
    BY <1>2, <2>1, FS_Subset
  <2> QED
    BY <1>2, <2>2
<1>4. rank \in Injection(S, 1..N)
  <2>1. rank \in [S -> 1..N]
    BY <1>2
  <2>2. \A x, y \in S : rank[x] = rank[y] => x = y
    <3> SUFFICES ASSUME NEW x \in S, NEW y \in S, x # y PROVE rank[x] # rank[y]
      OBVIOUS
    <3>1. x < y \/ y < x
      OBVIOUS
    <3>2. rank[x] \in Nat /\ rank[y] \in Nat
      BY <1>1, <2>1
    <3> QED
      BY <1>3, <3>1, <3>2
  <2> QED
    BY <2>1, <2>2 DEF Injection, IsInjective
<1>5. rank \in Surjection(S, 1..N)
  <2>1. IsFiniteSet(1..N) /\ Cardinality(1..N) = N
    BY <1>1, FS_Interval
  <2> QED
    BY <1>4, <2>1, FS_Injection
<1> HIDE DEF N, rank
<1>6. \A m \in 1..N : \E x \in S : rank[x] = m
  BY <1>5 DEF Surjection
<1>7. \A m \in 1..N : s[m] \in S /\ rank[s[m]] = m
  BY <1>6
<1>8. s \in [1..N -> S]
  BY <1>7
<1>9. ASSUME NEW m \in 1..N, NEW n \in 1..N, m < n PROVE s[m] < s[n]
  <2>1. s[m] \in S /\ s[n] \in S /\ rank[s[m]] = m /\ rank[s[n]] = n
    BY <1>7
  <2>2. s[m] # s[n] /\ ~(rank[s[n]] < rank[s[m]])
    BY <1>1, <1>9, <2>1
  <2>3. ~(s[n] < s[m])
    BY <1>3, <2>1, <2>2
  <2>4. s[m] \in Nat /\ s[n] \in Nat
    BY <2>1
  <2> QED
    BY <2>2, <2>3, <2>4
<1>10. DOMAIN s = 1..N
  OBVIOUS
<1> QED
  BY <1>8, <1>9, <1>10 DEF N

\* What the list of a set is.
LEMMA InOrderIs ==
    ASSUME NEW S \in SUBSET Nat, IsFiniteSet(S)
    PROVE  /\ InOrder(S) \in Seq(S)
           /\ Ascending(InOrder(S))
           /\ ToSet(InOrder(S)) = S
<1> DEFINE N == Cardinality(S)
           s == InOrder(S)
<1>1. N \in Nat
  BY FS_CardinalityType
<1>2. s \in [1..N -> S] /\ \A m, n \in DOMAIN s : m < n => s[m] < s[n]
  BY OrderExists DEF InOrder
<1> HIDE DEF s, N
<1>3. DOMAIN s = 1..N /\ s \in Seq(S) /\ Len(s) = N
  BY <1>1, <1>2
<1>4. s \in Injection(1..N, S)
  <2>1. ASSUME NEW m \in 1..N, NEW n \in 1..N, s[m] = s[n] PROVE m = n
    <3>1. s[m] \in Nat /\ s[n] \in Nat
      BY <1>2
    <3>2. ~(m < n) /\ ~(n < m)
      BY <1>2, <1>3, <2>1, <3>1
    <3> QED
      BY <1>1, <3>2
  <2> QED
    BY <1>2, <1>3, <2>1 DEF Injection, IsInjective
<1>5. s \in Surjection(1..N, S)
  <2>1. IsFiniteSet(1..N) /\ Cardinality(1..N) = N
    BY <1>1, FS_Interval
  <2> QED
    BY <1>4, <2>1, FS_Injection DEF N
<1>6. ToSet(s) = S
  BY <1>3, <1>5 DEF ToSet, Surjection
<1> QED
  BY <1>2, <1>3, <1>6 DEF s, Ascending

\* What sorting a list of different numbers gives.
LEMMA ArrangedIs ==
    ASSUME NEW q \in Seq(Nat), Distinct(q)
    PROVE  /\ Arranged(q) \in Seq(Nat)
           /\ Ascending(Arranged(q))
           /\ ToSet(Arranged(q)) = ToSet(q)
<1> DEFINE N == Len(q)
           S == ToSet(q)
           Sorts(p) == \A m, n \in 1..N : m < n => q[p[m]] <= q[p[n]]
<1>1. N \in Nat /\ q \in [1..N -> S] /\ S \in SUBSET Nat /\ DOMAIN q = 1..N
  BY DEF ToSet
<1>2. q \in Surjection(1..N, S) /\ q \in Injection(1..N, S)
  BY <1>1 DEF Surjection, Injection, IsInjective, ToSet, Distinct
<1> HIDE DEF N
<1>3. IsFiniteSet(1..N) /\ Cardinality(1..N) = N
  BY <1>1, FS_Interval
<1>4. IsFiniteSet(S) /\ Cardinality(S) = N
  BY <1>2, <1>3, FS_Surjection
<1> HIDE DEF S
<1>5. \E p \in Bijection(1..N, 1..N) : Sorts(p)
  <2>1. PICK s \in [1..N -> S] : \A m, n \in 1..N : m < n => s[m] < s[n]
    BY <1>1, <1>4, OrderExists
  <2> DEFINE p == [m \in 1..N |-> CHOOSE i \in 1..N : q[i] = s[m]]
  <2>2. \A m \in 1..N : p[m] \in 1..N /\ q[p[m]] = s[m]
    BY <1>2, <2>1 DEF Surjection
  <2>3. p \in [1..N -> 1..N]
    BY <2>2
  <2> HIDE DEF p
  <2>4. p \in Injection(1..N, 1..N)
    <3>1. ASSUME NEW m \in 1..N, NEW n \in 1..N, p[m] = p[n] PROVE m = n
      <4>1. s[m] = s[n] /\ s[m] \in Nat
        BY <1>1, <2>1, <2>2, <3>1
      <4>2. ~(m < n) /\ ~(n < m)
        BY <2>1, <4>1
      <4> QED
        BY <1>1, <4>2
    <3> QED
      BY <2>3, <3>1 DEF Injection, IsInjective
  <2>5. p \in Bijection(1..N, 1..N)
    BY <1>3, <2>4, FS_Injection DEF Bijection
  <2>6. Sorts(p)
    BY <1>1, <2>1, <2>2
  <2> QED
    BY <2>5, <2>6
<1> DEFINE order == CHOOSE p \in Bijection(1..N, 1..N) : Sorts(p)
<1>6. order \in Bijection(1..N, 1..N) /\ Sorts(order)
  BY <1>5
<1>7. Arranged(q) = [m \in 1..N |-> q[order[m]]]
  BY <1>1 DEF Arranged
<1> HIDE DEF order
<1>8. /\ order \in [1..N -> 1..N]
      /\ \A m, n \in 1..N : order[m] = order[n] => m = n
      /\ \A i \in 1..N : \E m \in 1..N : order[m] = i
  BY <1>6 DEF Bijection, Injection, Surjection, IsInjective
<1>9. /\ Arranged(q) \in Seq(Nat) /\ Len(Arranged(q)) = N
      /\ DOMAIN Arranged(q) = 1..N
  <2>1. \A m \in 1..N : q[order[m]] \in Nat
    BY <1>1, <1>8
  <2>2. Arranged(q) \in [1..N -> Nat]
    BY <1>7, <2>1
  <2> QED
    BY <1>1, <2>2
<1>10. ASSUME NEW m \in 1..N, NEW n \in 1..N, m < n PROVE Arranged(q)[m] < Arranged(q)[n]
  <2>1. order[m] \in 1..N /\ order[n] \in 1..N /\ order[m] # order[n]
    BY <1>1, <1>8, <1>10
  <2>2. q[order[m]] \in Nat /\ q[order[n]] \in Nat /\ q[order[m]] # q[order[n]]
    BY <1>1, <1>2, <2>1 DEF Injection, IsInjective
  <2>3. q[order[m]] <= q[order[n]]
    BY <1>6, <1>10
  <2> QED
    BY <1>7, <2>2, <2>3
<1>11. ToSet(Arranged(q)) = S
  <2>0. ToSet(Arranged(q)) = {Arranged(q)[m] : m \in 1..N}
    BY <1>9 DEF ToSet
  <2>1. ToSet(Arranged(q)) = {q[order[m]] : m \in 1..N}
    BY <1>7, <2>0
  <2>2. S = {q[i] : i \in 1..N}
    BY <1>1 DEF S, ToSet
  <2>3. ASSUME NEW i \in 1..N PROVE q[i] \in ToSet(Arranged(q))
    <3>1. PICK m \in 1..N : order[m] = i
      BY <1>8
    <3> QED
      BY <2>1, <3>1
  <2>4. ASSUME NEW m \in 1..N PROVE q[order[m]] \in S
    BY <1>8, <2>2
  <2> QED
    BY <2>1, <2>2, <2>3, <2>4
<1> QED
  BY <1>9, <1>10, <1>11 DEF Ascending, S

\* What a list keeps without its head.
LEMMA TailIs ==
    ASSUME NEW q \in Seq(Nat), Ascending(q), q # <<>>
    PROVE  /\ Head(q) \in ToSet(q)
           /\ \A x \in ToSet(q) : Head(q) <= x
           /\ Tail(q) \in Seq(Nat)
           /\ Distinct(Tail(q))
           /\ ToSet(Tail(q)) = ToSet(q) \ {Head(q)}
<1>1. Len(q) \in Nat /\ Len(q) > 0 /\ DOMAIN q = 1..Len(q) /\ \A m \in 1..Len(q) : q[m] \in Nat
  OBVIOUS
<1>2. /\ Tail(q) \in Seq(Nat) /\ Len(Tail(q)) = Len(q) - 1
      /\ \A m \in 1..Len(q) - 1 : Tail(q)[m] = q[m + 1]
  BY <1>1
<1>3. Head(q) = q[1]
  BY <1>1
<1>4. ToSet(q) = {q[m] : m \in 1..Len(q)}
  BY <1>1 DEF ToSet
<1>5. ToSet(Tail(q)) = {Tail(q)[m] : m \in 1..Len(q) - 1}
  <2>1. DOMAIN Tail(q) = 1..Len(q) - 1
    BY <1>1, <1>2
  <2> QED
    BY <2>1 DEF ToSet
<1>6. Head(q) \in ToSet(q) /\ \A x \in ToSet(q) : Head(q) <= x
  BY <1>1, <1>3, <1>4 DEF Ascending
<1>7. ASSUME NEW m \in 1..Len(Tail(q)), NEW n \in 1..Len(Tail(q)), Tail(q)[m] = Tail(q)[n]
      PROVE  m = n
  <2>1. m + 1 \in 1..Len(q) /\ n + 1 \in 1..Len(q) /\ q[m + 1] = q[n + 1]
    BY <1>1, <1>2, <1>7
  <2>2. ~(m + 1 < n + 1) /\ ~(n + 1 < m + 1)
    BY <1>1, <2>1 DEF Ascending
  <2> QED
    BY <1>1, <1>2, <2>2
<1>8. ToSet(Tail(q)) = ToSet(q) \ {Head(q)}
  <2>1. ASSUME NEW x \in ToSet(Tail(q)) PROVE x \in ToSet(q) \ {Head(q)}
    <3>1. PICK m \in 1..Len(q) - 1 : x = q[m + 1]
      BY <1>2, <1>5
    <3>2. m + 1 \in 1..Len(q) /\ 1 \in 1..Len(q) /\ 1 < m + 1
      BY <1>1
    <3>3. q[1] < q[m + 1]
      BY <3>2 DEF Ascending
    <3> QED
      BY <1>1, <1>3, <1>4, <3>1, <3>2, <3>3
  <2>2. ASSUME NEW x \in ToSet(q) \ {Head(q)} PROVE x \in ToSet(Tail(q))
    <3>1. PICK m \in 1..Len(q) : x = q[m]
      BY <1>4
    <3>2. m # 1
      BY <1>3, <3>1
    <3>3. m - 1 \in 1..Len(q) - 1 /\ (m - 1) + 1 = m
      BY <1>1, <3>2
    <3>4. Tail(q)[m - 1] = x
      BY <1>2, <3>1, <3>3
    <3> QED
      BY <1>5, <3>3, <3>4
  <2> QED
    BY <2>1, <2>2
<1> QED
  BY <1>2, <1>6, <1>7, <1>8 DEF Distinct

\* Two lists of different numbers with nothing in common make one.
LEMMA JoinedIs ==
    ASSUME NEW q \in Seq(Nat), NEW r \in Seq(Nat), Distinct(q), Distinct(r),
           ToSet(q) \cap ToSet(r) = {}
    PROVE  /\ q \o r \in Seq(Nat)
           /\ Distinct(q \o r)
           /\ ToSet(q \o r) = ToSet(q) \cup ToSet(r)
<1> DEFINE L == Len(q)
           M == Len(r)
<1>1. /\ L \in Nat /\ M \in Nat
      /\ ToSet(q) = {q[m] : m \in 1..L} /\ ToSet(r) = {r[m] : m \in 1..M}
  BY DEF ToSet
<1>2. /\ q \o r \in Seq(Nat) /\ Len(q \o r) = L + M
      /\ \A m \in 1..L + M : (q \o r)[m] = IF m <= L THEN q[m] ELSE r[m - L]
  OBVIOUS
<1> HIDE DEF L, M
<1> DEFINE j == q \o r
<1> HIDE DEF j
<1>3. ToSet(j) = {j[m] : m \in 1..L + M}
  <2>1. DOMAIN j = 1..L + M
    BY <1>1, <1>2 DEF j
  <2> QED
    BY <2>1 DEF ToSet
<1>4. ASSUME NEW m \in 1..L + M
      PROVE  \/ m \in 1..L /\ j[m] = q[m] /\ j[m] \in ToSet(q)
             \/ m - L \in 1..M /\ j[m] = r[m - L] /\ j[m] \in ToSet(r)
  <2>1. CASE m <= L
    <3>1. m \in 1..L
      BY <1>1, <2>1
    <3>2. j[m] = q[m]
      BY <1>2, <2>1 DEF j
    <3>3. q[m] \in ToSet(q)
      BY <1>1, <3>1
    <3> QED
      BY <3>1, <3>2, <3>3
  <2>2. CASE ~(m <= L)
    <3>1. m - L \in 1..M
      BY <1>1, <2>2
    <3>2. j[m] = r[m - L]
      BY <1>2, <2>2 DEF j
    <3>3. r[m - L] \in ToSet(r)
      BY <1>1, <3>1
    <3> QED
      BY <3>1, <3>2, <3>3
  <2> QED
    BY <2>1, <2>2
<1>5. ASSUME NEW m \in 1..L + M, NEW n \in 1..L + M, j[m] = j[n] PROVE m = n
  <2>1. CASE m \in 1..L /\ j[m] = q[m] /\ j[m] \in ToSet(q)
    <3>1. n \in 1..L /\ j[n] = q[n]
      BY <1>4, <1>5, <2>1
    <3> QED
      BY <1>5, <2>1, <3>1 DEF Distinct, L
  <2>2. CASE m - L \in 1..M /\ j[m] = r[m - L] /\ j[m] \in ToSet(r)
    <3>1. n - L \in 1..M /\ j[n] = r[n - L]
      BY <1>4, <1>5, <2>2
    <3>2. m - L = n - L
      BY <1>5, <2>2, <3>1 DEF Distinct, M
    <3> QED
      BY <1>1, <3>2
  <2> QED
    BY <1>4, <2>1, <2>2
<1>6. ToSet(j) = ToSet(q) \cup ToSet(r)
  <2>1. ASSUME NEW x \in ToSet(q) PROVE x \in ToSet(j)
    <3>1. PICK m \in 1..L : x = q[m]
      BY <1>1
    <3>2. m \in 1..L + M /\ j[m] = q[m]
      BY <1>1, <1>2 DEF j
    <3> QED
      BY <1>3, <3>1, <3>2
  <2>2. ASSUME NEW x \in ToSet(r) PROVE x \in ToSet(j)
    <3>1. PICK m \in 1..M : x = r[m]
      BY <1>1
    <3>2. L + m \in 1..L + M /\ ~(L + m <= L) /\ (L + m) - L = m
      BY <1>1
    <3>3. j[L + m] = r[m]
      BY <1>2, <3>2 DEF j
    <3> QED
      BY <1>3, <3>1, <3>2, <3>3
  <2> QED
    BY <1>3, <1>4, <2>1, <2>2
<1> QED
  BY <1>2, <1>5, <1>6 DEF Distinct, j

-----------------------------------------------------------------------------
\* What the function finds is what the statements are, of those in sight.
LEMMA FoundIsInSight ==
    /\ \A i, j : Needs(i, j) <=> Requires(i, j)
    /\ Duplicate <=> CreatedTwice
<1>1. \A i, j : Needs(i, j) <=> Requires(i, j)
  BY DEF Needs, Requires, Created, Depends
<1>2. Duplicate <=> CreatedTwice
  BY DEF Duplicate, CreatedTwice, Created
<1> QED
  BY <1>1, <1>2

\* The statements in the result so far, and what each of the others waits for.
Placed == ToSet(ordered)

Awaits(i) == {j \in Index \ Placed : Needs(i, j)}

\* The result has no statement twice, the counts are those of what is awaited,
\* and the queue has, in their own order, the statements that await nothing.
SortProgress ==
    /\ ordered \in Seq(Index) /\ Distinct(ordered)
    /\ waits = [i \in Index |-> Cardinality(Awaits(i))]
    /\ queue \in Seq(Index) /\ Ascending(queue)
    /\ ToSet(queue) = {i \in Index \ Placed : Awaits(i) = {}}

SortIInv ==
    /\ script \in [Index -> Statement]
    /\ outcome \in {"sorting", "sorted", "circular", "duplicate"}
    /\ SortProgress
    /\ OrderIsFirst
    /\ RefusedRightly

LEMMA IndexIs == IsFiniteSet(Index) /\ Cardinality(Index) = Statements /\ Index \in SUBSET Nat
<1>1. IsFiniteSet(1..Statements) /\ Cardinality(1..Statements) = Statements
  BY StatementsAssumption, FS_Interval
<1> QED
  BY <1>1, StatementsAssumption DEF Index

\* A count is zero exactly when nothing is awaited.
LEMMA AwaitsCounted ==
    ASSUME NEW i
    PROVE  /\ IsFiniteSet(Awaits(i))
           /\ Cardinality(Awaits(i)) \in 0..Statements
           /\ Cardinality(Awaits(i)) = 0 <=> Awaits(i) = {}
<1>1. Awaits(i) \in SUBSET Index
  BY DEF Awaits
<1>2. IsFiniteSet(Awaits(i)) /\ Cardinality(Awaits(i)) <= Statements
  BY <1>1, IndexIs, FS_Subset
<1>3. Cardinality(Awaits(i)) \in Nat
  BY <1>2, FS_CardinalityType
<1>4. Cardinality(Awaits(i)) = 0 <=> Awaits(i) = {}
  BY <1>2, FS_EmptySet
<1> QED
  BY <1>2, <1>3, <1>4, StatementsAssumption

LEMMA SortStarts == SortInit => SortIInv
<1> SUFFICES ASSUME SortInit PROVE SortIInv
  OBVIOUS
<1>1. /\ script \in [Index -> Statement] /\ ordered = <<>>
      /\ waits = [i \in Index |-> Cardinality({j \in Index : Needs(i, j)})]
      /\ queue = InOrder({i \in Index : waits[i] = 0})
      /\ outcome = IF Duplicate THEN "duplicate" ELSE "sorting"
  BY DEF SortInit
<1>2. Placed = {}
  BY <1>1 DEF Placed, ToSet
<1>3. \A i : Awaits(i) = {j \in Index : Needs(i, j)}
  BY <1>2 DEF Awaits
<1>4. waits = [i \in Index |-> Cardinality(Awaits(i))]
  BY <1>1, <1>3
<1>5. {i \in Index : waits[i] = 0} = {i \in Index \ Placed : Awaits(i) = {}}
  BY <1>2, <1>4, AwaitsCounted
<1>6. {i \in Index : waits[i] = 0} \in SUBSET Index
  OBVIOUS
<1>7. IsFiniteSet({i \in Index : waits[i] = 0}) /\ {i \in Index : waits[i] = 0} \in SUBSET Nat
  BY <1>6, IndexIs, FS_Subset
<1>8. /\ queue \in Seq({i \in Index : waits[i] = 0}) /\ Ascending(queue)
      /\ ToSet(queue) = {i \in Index : waits[i] = 0}
  BY <1>1, <1>7, InOrderIs
<1>9. queue \in Seq(Index)
  BY <1>6, <1>8
<1>10. ordered \in Seq(Index) /\ Distinct(ordered) /\ Len(ordered) = 0
  BY <1>1 DEF Distinct
<1>11. OrderIsFirst
  BY <1>10 DEF OrderIsFirst
<1>12. RefusedRightly
  BY <1>1, FoundIsInSight DEF RefusedRightly
<1> QED
  BY <1>1, <1>4, <1>5, <1>8, <1>9, <1>10, <1>11, <1>12 DEF SortIInv, SortProgress

\* What a statement in the result names is before it in the result.
LEMMA PlacedIsClosed ==
    ASSUME SortProgress, OrderIsFirst, NEW i \in Placed, NEW j \in Index, Needs(i, j)
    PROVE  j \in Placed
<1>1. Len(ordered) \in Nat /\ DOMAIN ordered = 1..Len(ordered)
  BY DEF SortProgress
<1>2. PICK k \in 1..Len(ordered) : i = ordered[k]
  BY <1>1 DEF Placed, ToSet
<1>3. j \in Before(k)
  BY <1>2, FoundIsInSight DEF OrderIsFirst, Candidates
<1>4. PICK m \in 1..k - 1 : j = ordered[m]
  BY <1>3 DEF Before
<1>5. m \in 1..Len(ordered)
  BY <1>1, <1>2, <1>4
<1> QED
  BY <1>1, <1>4, <1>5 DEF Placed, ToSet

\* The candidates for the next place are the statements of the queue.
LEMMA QueueIsNext ==
    ASSUME SortProgress
    PROVE  /\ Before(Len(ordered) + 1) = Placed
           /\ Candidates(Len(ordered) + 1) = ToSet(queue)
<1>1. Len(ordered) \in Nat /\ DOMAIN ordered = 1..Len(ordered)
  BY DEF SortProgress
<1>2. Before(Len(ordered) + 1) = {ordered[m] : m \in 1..Len(ordered)}
  <2>1. (Len(ordered) + 1) - 1 = Len(ordered)
    BY <1>1
  <2> QED
    BY <2>1 DEF Before
<1>3. Before(Len(ordered) + 1) = Placed
  BY <1>1, <1>2 DEF Placed, ToSet
<1>4. ToSet(queue) = {i \in Index \ Placed : Awaits(i) = {}}
  BY DEF SortProgress
<1>5. \A i : Awaits(i) = {} <=> \A j \in Index : Needs(i, j) => j \in Placed
  BY DEF Awaits
<1> QED
  BY <1>3, <1>4, <1>5, FoundIsInSight DEF Candidates

\* The result grows by the head of the queue.
LEMMA ResultGrows ==
    ASSUME SortProgress, OrderIsFirst, Place, NEW node, node = Head(queue)
    PROVE  /\ node \in Index \ Placed /\ Awaits(node) = {}
           /\ ToSet(Tail(queue)) = ToSet(queue) \ {node}
           /\ Tail(queue) \in Seq(Nat) /\ Distinct(Tail(queue))
           /\ ordered' \in Seq(Index) /\ Distinct(ordered)'
           /\ Placed' = Placed \cup {node}
           /\ OrderIsFirst'
<1> USE DEF SortProgress
<1>1. queue # <<>> /\ ordered' = Append(ordered, node) /\ UNCHANGED script
  BY DEF Place
<1>2. /\ ToSet(queue) = {i \in Index \ Placed : Awaits(i) = {}}
      /\ queue \in Seq(Nat) /\ Ascending(queue)
  BY IndexIs
<1>3. /\ node \in ToSet(queue) /\ \A x \in ToSet(queue) : node <= x
      /\ ToSet(Tail(queue)) = ToSet(queue) \ {node}
      /\ Tail(queue) \in Seq(Nat) /\ Distinct(Tail(queue))
  BY <1>1, <1>2, TailIs
<1>4. node \in Index \ Placed /\ Awaits(node) = {}
  BY <1>2, <1>3
<1> DEFINE N == Len(ordered)
<1>5. N \in Nat /\ DOMAIN ordered = 1..N /\ Placed = {ordered[m] : m \in 1..N}
  BY DEF Placed, ToSet
<1>6. /\ ordered' \in Seq(Index) /\ Len(ordered') = N + 1 /\ DOMAIN ordered' = 1..N + 1
      /\ ordered'[N + 1] = node /\ \A m \in 1..N : ordered'[m] = ordered[m]
  BY <1>1, <1>4
<1> HIDE DEF N
<1>7. Placed' = Placed \cup {node}
  <2>1. Placed' = {ordered'[m] : m \in 1..N + 1}
    BY <1>6 DEF Placed, ToSet
  <2>2. \A m : m \in 1..N + 1 <=> m \in 1..N \/ m = N + 1
    BY <1>5
  <2> QED
    BY <1>5, <1>6, <2>1, <2>2
<1>8. Distinct(ordered)'
  <2>1. \A m \in 1..N : ordered[m] # node
    BY <1>4, <1>5
  <2>2. ASSUME NEW m \in 1..N + 1, NEW n \in 1..N + 1, ordered'[m] = ordered'[n] PROVE m = n
    <3>1. \A k \in 1..N + 1 : k \in 1..N \/ k = N + 1
      BY <1>5
    <3> QED
      BY <1>6, <2>1, <2>2, <3>1 DEF Distinct, N
  <2> QED
    BY <1>6, <2>2 DEF Distinct
<1>9. OrderIsFirst'
  <2>1. ASSUME NEW k \in 1..N + 1 PROVE Before(k)' = Before(k) /\ Candidates(k)' = Candidates(k)
    <3>1. \A m \in 1..k - 1 : ordered'[m] = ordered[m]
      BY <1>5, <1>6
    <3>2. Before(k)' = Before(k)
      BY <3>1 DEF Before
    <3> QED
      BY <1>1, <3>2 DEF Candidates, Requires
  <2>2. \A k \in 1..N : ordered'[k] \in Candidates(k) /\ \A i \in Candidates(k) : ordered'[k] <= i
    BY <1>6 DEF OrderIsFirst, N
  <2>3. /\ ordered'[N + 1] \in Candidates(N + 1)
        /\ \A i \in Candidates(N + 1) : ordered'[N + 1] <= i
    BY <1>3, <1>6, QueueIsNext DEF N
  <2>4. \A k : k \in 1..Len(ordered') => k \in 1..N + 1 /\ (k \in 1..N \/ k = N + 1)
    BY <1>5, <1>6
  <2> QED
    BY <2>1, <2>2, <2>3, <2>4 DEF OrderIsFirst
<1> QED
  BY <1>3, <1>4, <1>6, <1>7, <1>8, <1>9

LEMMA PlaceProgress ==
    ASSUME SortProgress, OrderIsFirst, Place
    PROVE  SortProgress' /\ OrderIsFirst'
<1> DEFINE node == Head(queue)
           counts == Left(node)
           freed == {i \in Index : Needs(i, node) /\ counts[i] = 0}
           joined == Tail(queue) \o InOrder(freed)
<1>1. /\ node \in Index \ Placed /\ Awaits(node) = {}
      /\ ToSet(Tail(queue)) = ToSet(queue) \ {node}
      /\ Tail(queue) \in Seq(Nat) /\ Distinct(Tail(queue))
      /\ ordered' \in Seq(Index) /\ Distinct(ordered)'
      /\ Placed' = Placed \cup {node}
      /\ OrderIsFirst'
  BY ResultGrows
<1>2. waits' = counts /\ queue' = Arranged(joined) /\ UNCHANGED script
  BY DEF Place
<1>3. /\ waits = [i \in Index |-> Cardinality(Awaits(i))]
      /\ ToSet(queue) = {i \in Index \ Placed : Awaits(i) = {}}
  BY DEF SortProgress
<1>4. counts = [i \in Index |-> IF Needs(i, node) THEN waits[i] - 1 ELSE waits[i]]
  BY DEF Left
<1> HIDE DEF node, counts
<1>5. \A i : Awaits(i)' = Awaits(i) \ {node}
  BY <1>1, <1>2 DEF Awaits, Needs, Created, Depends
<1>6. \A i : Needs(i, node) <=> node \in Awaits(i)
  BY <1>1 DEF Awaits
<1>7. ASSUME NEW i \in Index PROVE counts[i] = Cardinality(Awaits(i)') /\ counts[i] \in Nat
  <2>1. Cardinality(Awaits(i) \ {node}) =
            IF node \in Awaits(i) THEN Cardinality(Awaits(i)) - 1 ELSE Cardinality(Awaits(i))
    BY AwaitsCounted, FS_RemoveElement
  <2>2. IsFiniteSet(Awaits(i) \ {node})
    BY AwaitsCounted, FS_RemoveElement
  <2> QED
    BY <1>3, <1>4, <1>5, <1>6, <2>1, <2>2, FS_CardinalityType
<1>8. waits' = [i \in Index |-> Cardinality(Awaits(i))]'
  BY <1>2, <1>4, <1>7
<1>9. ASSUME NEW i \in Index PROVE counts[i] = 0 <=> Awaits(i)' = {}
  <2>1. IsFiniteSet(Awaits(i)')
    BY <1>5, AwaitsCounted, FS_RemoveElement
  <2> QED
    BY <1>7, <2>1, FS_EmptySet
<1>10. freed = {i \in Index : Needs(i, node) /\ Awaits(i)' = {}}
  BY <1>9
<1>11. freed \in SUBSET Index /\ freed \cap ToSet(Tail(queue)) = {}
  BY <1>1, <1>3, <1>6
<1> HIDE DEF freed
<1>12. IsFiniteSet(freed) /\ freed \in SUBSET Nat
  BY <1>11, IndexIs, FS_Subset
<1>13. InOrder(freed) \in Seq(freed) /\ Ascending(InOrder(freed)) /\ ToSet(InOrder(freed)) = freed
  BY <1>12, InOrderIs
<1>14. InOrder(freed) \in Seq(Nat) /\ Distinct(InOrder(freed))
  <2> DEFINE r == InOrder(freed)
  <2>0. r \in Seq(freed)
    BY <1>13
  <2> HIDE DEF r
  <2>1. r \in Seq(Nat)
    <3>1. Len(r) \in Nat /\ r \in [1..Len(r) -> freed]
      BY <2>0
    <3>2. r \in [1..Len(r) -> Nat]
      BY <1>12, <3>1
    <3> QED
      BY <3>1, <3>2
  <2>2. \A m \in 1..Len(r) : r[m] \in Nat
    BY <2>1
  <2>3. ASSUME NEW m \in 1..Len(r), NEW n \in 1..Len(r), r[m] = r[n] PROVE m = n
    <3>1. ~(m < n) /\ ~(n < m)
      BY <1>13, <2>2, <2>3 DEF Ascending, r
    <3> QED
      BY <2>1, <3>1
  <2> QED
    BY <2>1, <2>3 DEF Distinct, r
<1>15. joined \in Seq(Nat) /\ Distinct(joined) /\ ToSet(joined) = ToSet(Tail(queue)) \cup freed
  BY <1>1, <1>11, <1>13, <1>14, JoinedIs
<1> HIDE DEF joined
<1>16. queue' \in Seq(Nat) /\ Ascending(queue)' /\ ToSet(queue') = ToSet(Tail(queue)) \cup freed
  <2>1. /\ Arranged(joined) \in Seq(Nat) /\ Ascending(Arranged(joined))
        /\ ToSet(Arranged(joined)) = ToSet(joined)
    BY <1>15, ArrangedIs
  <2> QED
    BY <1>2, <1>15, <2>1 DEF Ascending
<1>17. ToSet(queue') = {i \in Index \ Placed' : Awaits(i)' = {}}
  <2>1. \A i \in Placed : ~Needs(i, node)
    BY <1>1, PlacedIsClosed
  <2>2. \A i \in Index : i \in freed => i \notin Placed /\ i # node
    BY <1>1, <1>6, <1>10, <2>1
  <2>3. \A i \in Index \ Placed' : Awaits(i)' = {} =>
            i \in freed \/ Awaits(i) = {}
    BY <1>5, <1>6, <1>10
  <2> QED
    BY <1>1, <1>3, <1>5, <1>10, <1>11, <1>16, <2>2, <2>3
<1>18. queue' \in Seq(Index)
  <2>1. ToSet(queue') \subseteq Index
    BY <1>17
  <2>2. /\ Len(queue') \in Nat /\ DOMAIN queue' = 1..Len(queue')
        /\ queue' \in [1..Len(queue') -> Nat]
    BY <1>16
  <2>3. \A m \in 1..Len(queue') : queue'[m] \in Index
    BY <2>1, <2>2 DEF ToSet
  <2> QED
    BY <2>2, <2>3
<1>19. ToSet(queue)' = {i \in Index \ Placed : Awaits(i) = {}}'
  BY <1>17 DEF ToSet
<1> QED
  BY <1>1, <1>8, <1>16, <1>18, <1>19 DEF SortProgress

\* Whatever comes first of a group is preceded by no other of the group: none of
\* the statements in the result wait for each other.
LEMMA NoneStuckPlaced ==
    ASSUME SortProgress, OrderIsFirst, NEW group \in SUBSET Placed, group # {}
    PROVE  \E i \in group : \A j \in group : j \in Index => ~Needs(i, j)
<1> DEFINE places == {m \in 1..Len(ordered) : ordered[m] \in group}
<1>1. Len(ordered) \in Nat /\ DOMAIN ordered = 1..Len(ordered)
  BY DEF SortProgress
<1>2. PICK x \in group : TRUE
  OBVIOUS
<1>3. places # {}
  <2>1. PICK k \in 1..Len(ordered) : x = ordered[k]
    BY <1>1, <1>2 DEF Placed, ToSet
  <2> QED
    BY <1>2, <2>1
<1>4. places \subseteq Nat
  BY <1>1
<1> HIDE DEF places
<1>5. PICK m \in places : \A n \in places : ~(<<n, m>> \in OpToRel(<, Nat))
  BY <1>3, <1>4, NatLessThanWellFounded, WFMin
<1>6. m \in 1..Len(ordered) /\ m \in Nat /\ ordered[m] \in group
  BY <1>4, <1>5 DEF places
<1>7. ASSUME NEW j \in group, j \in Index PROVE ~Needs(ordered[m], j)
  <2> SUFFICES ASSUME Needs(ordered[m], j) PROVE FALSE
    OBVIOUS
  <2>1. j \in Before(m)
    BY <1>6, <1>7, FoundIsInSight DEF OrderIsFirst, Candidates
  <2>2. PICK n \in 1..m - 1 : j = ordered[n]
    BY <2>1 DEF Before
  <2>3. n \in places /\ n \in Nat /\ n < m
    BY <1>1, <1>6, <2>2 DEF places
  <2>4. <<n, m>> \in OpToRel(<, Nat)
    BY <1>6, <2>3 DEF OpToRel
  <2> QED
    BY <1>5, <2>3, <2>4
<1> QED
  BY <1>6, <1>7

\* The result is whole exactly when it has as many statements as the script.
LEMMA ResultIsWhole ==
    ASSUME SortProgress
    PROVE  Len(ordered) = Statements <=> Placed = Index
<1> DEFINE N == Len(ordered)
<1>1. N \in Nat /\ ordered \in [1..N -> Index] /\ DOMAIN ordered = 1..N
  BY DEF SortProgress
<1> HIDE DEF N
<1>2. IsFiniteSet(1..N) /\ Cardinality(1..N) = N
  BY <1>1, FS_Interval
<1>3. ordered \in Injection(1..N, Index)
  BY <1>1 DEF SortProgress, Distinct, Injection, IsInjective, N
<1>4. N = Statements <=> ordered \in Surjection(1..N, Index)
  BY <1>2, <1>3, IndexIs, FS_Injection
<1>5. ordered \in Surjection(1..N, Index) <=> Placed = Index
  <2>1. Placed = {ordered[m] : m \in 1..N}
    BY <1>1 DEF Placed, ToSet
  <2>2. Placed \subseteq Index
    BY <1>1, <2>1
  <2> QED
    BY <1>1, <2>1, <2>2 DEF Surjection
<1> QED
  BY <1>4, <1>5 DEF N

LEMMA ProgressKept ==
    ASSUME SortProgress, OrderIsFirst, UNCHANGED <<script, waits, queue, ordered>>
    PROVE  SortProgress' /\ OrderIsFirst'
<1>1. Placed' = Placed /\ \A i, j : Needs(i, j)' = Needs(i, j)
  BY DEF Placed, ToSet, Needs, Created, Depends
<1>2. \A i : Awaits(i)' = Awaits(i)
  BY <1>1 DEF Awaits
<1>3. SortProgress'
  BY <1>1, <1>2 DEF SortProgress, Ascending, Distinct, ToSet
<1>4. \A k : Before(k)' = Before(k)
  BY DEF Before
<1>5. \A k : Candidates(k)' = Candidates(k)
  BY <1>4 DEF Candidates, Requires
<1>6. OrderIsFirst'
  BY <1>5 DEF OrderIsFirst
<1> QED
  BY <1>3, <1>6

LEMMA ConcludeStep == SortIInv /\ Conclude => SortIInv'
<1> SUFFICES ASSUME SortIInv, Conclude PROVE SortIInv'
  OBVIOUS
<1> USE DEF SortIInv
<1>1. /\ outcome = "sorting" /\ queue = <<>> /\ outcome' = Verdict
      /\ UNCHANGED <<script, waits, queue, ordered>>
  BY DEF Conclude
<1>2. SortProgress' /\ OrderIsFirst' /\ script' \in [Index -> Statement]
  BY <1>1, ProgressKept
<1>3. ~CreatedTwice
  BY <1>1 DEF RefusedRightly
<1>4. \A i \in Index \ Placed : Awaits(i) # {}
  <2>1. ToSet(queue) = {}
    BY <1>1 DEF ToSet
  <2> QED
    BY <2>1 DEF SortProgress
<1> DEFINE stuck == \E group \in SUBSET Index :
                       group # {} /\ \A i \in group : \E j \in group : Requires(i, j)
<1>5. (stuck' <=> stuck) /\ (CreatedTwice' <=> CreatedTwice)
  BY <1>1 DEF Requires, CreatedTwice
<1>6. CASE Len(ordered) = Statements
  <2>1. Placed = Index /\ outcome' = "sorted"
    BY <1>1, <1>6, ResultIsWhole DEF Verdict
  <2>2. ~stuck
    <3> SUFFICES ASSUME NEW group \in SUBSET Index, group # {},
                        \A i \in group : \E j \in group : Requires(i, j)
                 PROVE  FALSE
      OBVIOUS
    <3>1. PICK i \in group : \A j \in group : j \in Index => ~Needs(i, j)
      BY <2>1, NoneStuckPlaced
    <3> QED
      BY <3>1, FoundIsInSight
  <2>3. ~stuck' /\ ~CreatedTwice' /\ ToSet(ordered') = Index
    BY <1>1, <1>3, <1>5, <2>1, <2>2 DEF Placed
  <2> QED
    BY <1>2, <2>1, <2>3 DEF RefusedRightly
<1>7. CASE Len(ordered) # Statements
  <2>1. Placed # Index /\ outcome' = "circular"
    BY <1>1, <1>7, ResultIsWhole DEF Verdict
  <2>2. Placed \subseteq Index
    BY DEF SortProgress, Placed, ToSet
  <2> DEFINE rest == Index \ Placed
  <2>3. rest # {} /\ rest \in SUBSET Index
    BY <2>1, <2>2
  <2>4. \A i \in rest : \E j \in rest : Requires(i, j)
    BY <1>4, FoundIsInSight DEF Awaits
  <2>5. stuck
    BY <2>3, <2>4
  <2>6. stuck'
    BY <1>5, <2>5
  <2> QED
    BY <1>2, <2>1, <2>6 DEF RefusedRightly
<1> QED
  BY <1>6, <1>7

LEMMA SortStep == SortIInv /\ [SortNext]_sortVars => SortIInv'
<1> SUFFICES ASSUME SortIInv, [SortNext]_sortVars PROVE SortIInv'
  OBVIOUS
<1>1. CASE UNCHANGED sortVars
  <2>1. UNCHANGED <<script, waits, queue, ordered, outcome>>
    BY <1>1 DEF sortVars
  <2>2. SortProgress' /\ OrderIsFirst'
    BY <2>1, ProgressKept DEF SortIInv
  <2> DEFINE stuck == \E group \in SUBSET Index :
                         group # {} /\ \A i \in group : \E j \in group : Requires(i, j)
  <2>3. (stuck' <=> stuck) /\ (CreatedTwice' <=> CreatedTwice) /\ ToSet(ordered') = ToSet(ordered)
    BY <2>1 DEF Requires, CreatedTwice
  <2> HIDE DEF stuck
  <2>4. RefusedRightly <=> CASE outcome = "duplicate" -> CreatedTwice
                             [] outcome = "circular" -> stuck
                             [] outcome = "sorted" -> ~stuck /\ ~CreatedTwice /\ ToSet(ordered) = Index
                             [] OTHER -> ~CreatedTwice
    BY DEF RefusedRightly, stuck
  <2>5. RefusedRightly' <=> CASE outcome' = "duplicate" -> CreatedTwice'
                              [] outcome' = "circular" -> stuck'
                              [] outcome' = "sorted" -> ~stuck' /\ ~CreatedTwice' /\ ToSet(ordered') = Index
                              [] OTHER -> ~CreatedTwice'
    BY DEF RefusedRightly, stuck
  <2>6. RefusedRightly'
    BY <2>1, <2>3, <2>4, <2>5 DEF SortIInv
  <2> QED
    BY <2>1, <2>2, <2>6 DEF SortIInv
<1>2. CASE Place
  <2>1. SortProgress' /\ OrderIsFirst'
    BY <1>2, PlaceProgress DEF SortIInv
  <2>2. outcome = "sorting" /\ UNCHANGED <<script, outcome>>
    BY <1>2 DEF Place
  <2>3. RefusedRightly'
    BY <2>2 DEF SortIInv, RefusedRightly, CreatedTwice
  <2> QED
    BY <2>1, <2>2, <2>3 DEF SortIInv
<1>3. CASE Conclude
  BY <1>3, ConcludeStep
<1> QED
  BY <1>1, <1>2, <1>3 DEF SortNext

LEMMA SortInductive == SortSpec => []SortIInv
  BY SortStarts, SortStep, PTL DEF SortSpec

\* The counts stay between zero and the number of statements, and queue and
\* result hold statements of the script.
THEOREM SortTypeCorrect == SortSpec => []SortTypeOK
<1>1. SortIInv => SortTypeOK
  BY AwaitsCounted DEF SortIInv, SortProgress, SortTypeOK
<1> QED
  BY <1>1, SortInductive, PTL

\* Whatever the script, the result takes at every place the first statement of
\* the script that has all it requires before it, of the statements in sight:
\* sort_ddl_by_dependency reorders for those and for nothing else.
THEOREM SortedInFirstOrder == SortSpec => []OrderIsFirst
<1>1. SortIInv => OrderIsFirst
  BY DEF SortIInv
<1> QED
  BY <1>1, SortInductive, PTL

\* Whatever the script, it is refused as circular only if some of its
\* statements in sight require each other, sorted only if none do, and refused
\* as creating an entity twice exactly when two of those in sight do.
THEOREM RefusedForAReason == SortSpec => []RefusedRightly
<1>1. SortIInv => RefusedRightly
  BY DEF SortIInv
<1> QED
  BY <1>1, SortInductive, PTL

-----------------------------------------------------------------------------
(***************************************************************************)
(* The components together: each goes on as it would alone, so that its    *)
(* theorems hold of every behaviour that the composed module describes.    *)
(***************************************************************************)

\* A step of them all is a step, or none, of each of them.
LEMMA DataStep ==
    [DataNext]_dataVars =>
        /\ [CacheNext]_cacheVars
        /\ [KnowledgeNext]_knowledgeVars
        /\ [FragmentNext]_fragmentVars
        /\ [EngineNext]_engineVars
        /\ [SortNext]_sortVars
        /\ [TableNext]_tableVars
        /\ [ContextNext]_contextVars
        /\ [FilesNext]_fileVars
<1>1. ASSUME UNCHANGED dataVars
      PROVE  UNCHANGED <<cacheVars, knowledgeVars, fragmentVars, engineVars, sortVars,
                         tableVars, contextVars, fileVars>>
  BY <1>1 DEF dataVars
<1> QED
  BY <1>1 DEF DataNext

\* A behaviour of the composition is one of every component: caches, vectors,
\* engines, files and the prompts' parts share no state.
THEOREM DataIsItsParts ==
    DataSpec => /\ CacheSpec /\ KnowledgeSpec /\ FragmentSpec /\ EngineSpec
                /\ SortSpec /\ TableSpec /\ ContextSpec /\ FilesSpec
<1>1. DataInit => /\ CacheInit /\ KnowledgeInit /\ FragmentInit /\ EngineInit
                  /\ SortInit /\ TableInit /\ ContextInit /\ FilesInit
  BY DEF DataInit
<1> QED
  BY <1>1, DataStep, PTL
  DEF DataSpec, CacheSpec, KnowledgeSpec, FragmentSpec, EngineSpec,
      SortSpec, TableSpec, ContextSpec, FilesSpec

\* Entries, terms, fragments, engines, statements, tables, prompts and files keep
\* their types: every request and task is in one of the stages the code has.
THEOREM DataTypeCorrect == DataSpec => []DataTypeOK
<1>1. /\ CacheTypeOK /\ KnowledgeTypeOK /\ FragmentTypeOK /\ EngineTypeOK
      /\ SortTypeOK /\ TableTypeOK /\ ContextTypeOK /\ FilesTypeOK
      => DataTypeOK
  BY DEF DataTypeOK
<1> QED
  BY <1>1, DataIsItsParts, TypeCorrect, KnowledgeTypeCorrect, FragmentTypeCorrect,
     EngineTypeCorrect, SortTypeCorrect, TableTypeCorrect, ContextTypeCorrect,
     FilesTypeCorrect, PTL
=============================================================================
