---------------------------- MODULE UserEngines ----------------------------
(***************************************************************************)
(* The way to a project's database: the server's account for it, what the  *)
(* account may do there, and the engine (a connection pool) this process   *)
(* keeps for it.  Each statement first makes sure of all three; the MySQL  *)
(* calls do so side by side, the PostgreSQL ones one at a time, and MySQL  *)
(* has an account per host.  A deployment drops the database and creates   *)
(* it again under the same name.                                           *)
(***************************************************************************)
EXTENDS Naturals, Sequences, SequencesExt

CONSTANTS
    Callers,      \* slots for statements
    MaxFailings,  \* bound on server errors and restarts of the process
    NoCaller      \* the lock is free

ASSUME MaxFailingsAssumption == MaxFailings \in Nat
ASSUME NoCallerAssumption == NoCaller \notin Callers

VARIABLES
    server,    \* "mysql" or "postgresql"; it never changes
    accounts,  \* hosts the server has the account for
    granted,   \* hosts whose account may use the database's tables
    known,     \* _user_exist holds the account
    engine,    \* _user_engine: "none", "idle" (not yet connected) or "pooled"
    caller,    \* statements making sure of the account, by what they do next
    mutex,     \* the caller that holds PostgreSQL's ensure lock
    lost,      \* engines that another one replaced, and are never disposed of
    rebuilt,   \* history: the database was created again after the last grant
    broken,    \* history: a creation of the accounts did not come to its end
    failings   \* history: failures so far

engineVars == <<server, accounts, granted, known, engine, caller, mutex,
                lost, rebuilt, broken, failings>>

\* for user_host in ["%", "localhost"].
Hosts == IF server = "mysql" THEN <<"%", "localhost">> ELSE <<"role">>

HostNames == {"%", "localhost", "role"}
CallerSteps == {"idle", "lock", "look", "exists", "privilege", "create", "setup", "grant", "init"}
Caller == [at : CallerSteps, host : 1..2]
Away == [at |-> "idle", host |-> 1]

EngineTypeOK ==
    /\ server \in {"mysql", "postgresql"}
    /\ accounts \in SUBSET HostNames
    /\ granted \in SUBSET HostNames
    /\ known \in BOOLEAN
    /\ engine \in {"none", "idle", "pooled"}
    /\ caller \in [Callers -> Caller]
    /\ mutex \in Callers \cup {NoCaller}
    /\ lost \in 0..1
    /\ rebuilt \in BOOLEAN
    /\ broken \in BOOLEAN
    /\ failings \in 0..MaxFailings

EngineInit ==
    /\ server \in {"mysql", "postgresql"}
    /\ accounts = {}
    /\ granted = {}
    /\ known = FALSE
    /\ engine = "none"
    /\ caller = [c \in Callers |-> Away]
    /\ mutex = NoCaller
    /\ lost = 0
    /\ rebuilt = FALSE
    /\ broken = FALSE
    /\ failings = 0

-----------------------------------------------------------------------------
Here(c, step) == caller[c].at = step

Onward(c, step) == caller' = [caller EXCEPT ![c] = [@ EXCEPT !.at = step, !.host = 1]]

\* The call ends, and gives the lock back if it holds it.
Leave(c) ==
    /\ caller' = [caller EXCEPT ![c] = Away]
    /\ mutex' = IF mutex = c THEN NoCaller ELSE mutex

\* ensure_user_and_engine; with an engine there it ends at once.
EnsureStarts(c) ==
    /\ caller[c] = Away
    /\ engine = "none"
    /\ Onward(c, IF server = "mysql" THEN "look" ELSE "lock")
    /\ UNCHANGED <<server, accounts, granted, known, engine, mutex, lost, rebuilt, broken, failings>>

\* Mutant: calls do not wait for each other.
MayEnterAlways == mutex \in Callers \cup {NoCaller}

\* async with ensure_lock.
MayEnter == mutex = NoCaller

EnsureLocks(c) ==
    /\ Here(c, "lock")
    /\ MayEnter
    /\ mutex' = c
    /\ Onward(c, "look")
    /\ UNCHANGED <<server, accounts, granted, known, engine, lost, rebuilt, broken, failings>>

\* The engine is looked for again, under the lock, then _user_exist.
EnsureLooks(c) ==
    /\ Here(c, "look")
    /\ IF engine # "none" THEN Leave(c)
       ELSE Onward(c, IF known THEN "privilege" ELSE "exists") /\ mutex' = mutex
    /\ UNCHANGED <<server, accounts, granted, known, engine, lost, rebuilt, broken, failings>>

\* The account is there, and add_user follows, or it is created, which adds
\* nothing to _user_exist.
Asked(c, there) ==
    /\ Here(c, "exists")
    /\ known' = (known \/ there)
    /\ Onward(c, IF there THEN "privilege" ELSE "create")
    /\ UNCHANGED <<server, accounts, granted, engine, mutex, lost, rebuilt, broken>>

\* is_user_exist_in_mysql asks for one host only.
AskMysql(c) ==
    /\ server = "mysql"
    /\ Asked(c, "%" \in accounts)
    /\ failings' = failings

AskPostgres(c) ==
    /\ server = "postgresql"
    /\ Asked(c, "role" \in accounts)
    /\ failings' = failings

\* Mutant: one account is created, whatever the hosts are.
AfterFirst(h) == "grant"

AfterCreate(h) == IF h = Len(Hosts) THEN "grant" ELSE "create"

\* CREATE USER for one host after the other, which fails if it is there.
CreateHost(c) ==
    LET h == caller[c].host
        next == AfterCreate(h)
    IN
    /\ server = "mysql"
    /\ Here(c, "create")
    /\ IF Hosts[h] \in accounts
       THEN accounts' = accounts /\ Leave(c)
       ELSE /\ accounts' = accounts \cup {Hosts[h]}
            /\ caller' = [caller EXCEPT ![c] =
                   [@ EXCEPT !.at = next, !.host = IF next = "grant" THEN 1 ELSE h + 1]]
            /\ mutex' = mutex
    /\ UNCHANGED <<server, granted, known, engine, lost, rebuilt, broken, failings>>

CreateRole(c) ==
    /\ server = "postgresql"
    /\ Here(c, "create")
    /\ IF "role" \in accounts
       THEN accounts' = accounts /\ Leave(c)
       ELSE /\ accounts' = accounts \cup {"role"}
            /\ Onward(c, "setup")
            /\ mutex' = mutex
    /\ UNCHANGED <<server, granted, known, engine, lost, rebuilt, broken, failings>>

\* Mutant: an account that is there is taken to have its privileges.
HasPrivilegeThere == "%" \in accounts

\* check_privilege asks for the first host.
HasPrivilege == "%" \in granted

Checked(c, has) ==
    /\ Here(c, "privilege")
    /\ Onward(c, IF has THEN "init" ELSE "grant")
    /\ UNCHANGED <<server, accounts, granted, known, engine, mutex, lost, rebuilt, broken>>

CheckMysql(c) ==
    /\ server = "mysql"
    /\ Checked(c, HasPrivilege)
    /\ failings' = failings

\* The root engine is connected to another database, whose table_privileges
\* lists none of the tables.
CheckPostgres(c) ==
    /\ server = "postgresql"
    /\ Checked(c, FALSE)
    /\ failings' = failings

\* GRANT for one host after the other, which fails without the account.
GrantHost(c) ==
    LET h == caller[c].host IN
    /\ server = "mysql"
    /\ Here(c, "grant")
    /\ IF Hosts[h] \notin accounts
       THEN granted' = granted /\ Leave(c)
       ELSE /\ granted' = granted \cup {Hosts[h]}
            /\ caller' = [caller EXCEPT ![c] =
                   IF h = Len(Hosts) THEN [@ EXCEPT !.at = "init", !.host = 1]
                   ELSE [@ EXCEPT !.host = h + 1]]
            /\ mutex' = mutex
    /\ UNCHANGED <<server, accounts, known, engine, lost, rebuilt, broken, failings>>

\* The role gets the tables of the database as it is now.
RoleGranted(c) ==
    /\ granted' = {"role"}
    /\ rebuilt' = FALSE
    /\ Onward(c, "init")
    /\ UNCHANGED <<server, accounts, known, engine, mutex, lost, broken, failings>>

\* The service's grants, to a role it has just created.
GrantNewRole(c) == Here(c, "setup") /\ RoleGranted(c)

\* The helper's grants, to a role that was there.
GrantRole(c) == server = "postgresql" /\ Here(c, "grant") /\ RoleGranted(c)

\* A new engine goes into the dictionary, without a connection.
NewEngine(c) ==
    /\ Here(c, "init")
    /\ engine' = "idle"
    /\ lost' = IF engine = "none" THEN lost ELSE 1
    /\ Leave(c)
    /\ UNCHANGED <<server, accounts, granted, known, rebuilt, broken, failings>>

InitMysql(c) == server = "mysql" /\ NewEngine(c)

InitPostgres(c) == server = "postgresql" /\ NewEngine(c)

\* A statement runs: its connection goes back to the pool.
UseEngine ==
    /\ engine # "none"
    /\ engine' = "pooled"
    /\ UNCHANGED <<server, accounts, granted, known, caller, mutex, lost, rebuilt, broken, failings>>

-----------------------------------------------------------------------------
\* DROP DATABASE and CREATE DATABASE.  MySQL keeps its grants by name, so that
\* nothing changes here; those on PostgreSQL's tables go with the tables.
\* PostgreSQL refuses the drop while the pool has connections (the statement
\* that would end them is not executed).
RebuildPostgres ==
    /\ server = "postgresql"
    /\ engine # "pooled"
    /\ granted' = {}
    /\ rebuilt' = TRUE
    /\ UNCHANGED <<server, accounts, known, engine, caller, mutex, lost, broken, failings>>

Breaks(c) == Here(c, "create") /\ caller[c].host > 1

Failing == failings < MaxFailings /\ failings' = failings + 1

\* A question the server does not answer counts as a no.
QuestionFails(c) == Failing /\ (Asked(c, FALSE) \/ Checked(c, FALSE))

\* The server refuses a command, and the call raises.
EnsureFails(c) ==
    /\ caller[c].at \in {"create", "setup", "grant", "init"}
    /\ Failing
    /\ broken' = (broken \/ Breaks(c))
    /\ Leave(c)
    /\ UNCHANGED <<server, accounts, granted, known, engine, lost, rebuilt>>

\* The process ends, and another one starts.
Restart ==
    /\ Failing
    /\ broken' = (broken \/ \E c \in Callers : Breaks(c))
    /\ known' = FALSE
    /\ engine' = "none"
    /\ caller' = [c \in Callers |-> Away]
    /\ mutex' = NoCaller
    /\ UNCHANGED <<server, accounts, granted, lost, rebuilt>>

EngineNext ==
    \/ \E c \in Callers :
          \/ EnsureStarts(c) \/ EnsureLocks(c) \/ EnsureLooks(c)
          \/ AskMysql(c) \/ CreateHost(c) \/ CheckMysql(c) \/ GrantHost(c) \/ InitMysql(c)
          \/ AskPostgres(c) \/ CreateRole(c) \/ GrantNewRole(c)
          \/ CheckPostgres(c) \/ GrantRole(c) \/ InitPostgres(c)
          \/ QuestionFails(c) \/ EnsureFails(c)
    \/ UseEngine
    \/ RebuildPostgres
    \/ Restart

EngineSpec == EngineInit /\ [][EngineNext]_engineVars

-----------------------------------------------------------------------------
(***************************************************************************)
(* What holds.                                                             *)
(***************************************************************************)

\* The engine in the cache logs in to an account that exists and may use the
\* tables, except that of PostgreSQL once the database was created again: no
\* later call grants anything while the engine is there.
EngineIsReady ==
    engine # "none" => Hosts[1] \in accounts /\ (Hosts[1] \in granted \/ rebuilt)

\* No engine of PostgreSQL is replaced by another one and left open: the lock
\* lets one call at a time make it.
NoEngineLost == server = "postgresql" => lost = 0

\* The accounts of all hosts exist or none does, unless a call is at it, or one
\* stopped half-way (then no later call gets past the missing one).
AccountsComplete ==
    accounts # {} /\ ~broken =>
        \/ accounts = Range(Hosts)
        \/ \E c \in Callers : Breaks(c)
=============================================================================
