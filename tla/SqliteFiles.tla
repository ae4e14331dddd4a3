---------------------------- MODULE SqliteFiles ----------------------------
(***************************************************************************)
(* A project's SQLite database: a file under the user's directory, and the *)
(* engine (a pool of connections) this process keeps for it.  A deployment *)
(* removes the file and makes another one of the same name; a connection   *)
(* opened before keeps the removed file.  Each CREATE TABLE is a           *)
(* transaction of its own (the driver begins none for DDL).                *)
(***************************************************************************)
EXTENDS Naturals, Sequences

CONSTANTS
    FileTables,  \* names of the tables of scripts
    Dummy,       \* dummy_table
    Deployers,   \* slots for deployments
    Users,       \* slots for statements
    MaxFiles     \* bound on the files made

ASSUME MaxFilesAssumption == MaxFiles \in Nat
ASSUME DummyAssumption == Dummy \notin FileTables

VARIABLES
    made,      \* the tables in each file made, in the order of their making
    path,      \* the file at get_database_path, or 0
    ready,     \* _user_engine holds the instance
    pool,      \* the files of the engine's idle connections
    deployer,  \* deployments
    user,      \* statements
    settled,   \* history: the script of the last deployment, {} unless it ended well
    overlap    \* history: the last deployment met another one

fileVars == <<made, path, ready, pool, deployer, user, settled, overlap>>

Files == 0..MaxFiles
Deployer == [at : {"idle", "open", "create"}, file : Files,
             script : SUBSET FileTables, left : SUBSET FileTables]
User == [at : {"idle", "dummy", "undo", "engine", "connect", "run"}, file : Files]

Unbusy == [at |-> "idle", file |-> 0, script |-> {}, left |-> {}]
Absent == [at |-> "idle", file |-> 0]

FilesTypeOK ==
    /\ made \in Seq(SUBSET (FileTables \cup {Dummy}))
    /\ Len(made) <= MaxFiles
    /\ path \in 0..Len(made)
    /\ ready \in BOOLEAN
    /\ pool \in SUBSET (1..Len(made))
    /\ deployer \in [Deployers -> Deployer]
    /\ user \in [Users -> User]
    /\ settled \in SUBSET FileTables
    /\ overlap \in BOOLEAN

FilesInit ==
    /\ made = <<>>
    /\ path = 0
    /\ ready = FALSE
    /\ pool = {}
    /\ deployer = [d \in Deployers |-> Unbusy]
    /\ user = [u \in Users |-> Absent]
    /\ settled = {}
    /\ overlap = FALSE

-----------------------------------------------------------------------------
\* Opening the path makes an empty file if there is none.
Opened == IF path = 0 THEN Len(made) + 1 ELSE path

MayOpen == path = 0 => Len(made) < MaxFiles

\* The file is opened, and afterwards holds `tables`.
OpenWith(tables) ==
    /\ MayOpen
    /\ path' = Opened
    /\ made' = IF path = 0 THEN Append(made, tables) ELSE [made EXCEPT ![path] = tables]

Contents == IF path = 0 THEN {} ELSE made[path]

Deploying == {d \in Deployers : deployer[d] # Unbusy}

Stay(u, step, f) == user' = [user EXCEPT ![u] = [at |-> step, file |-> f]]

-----------------------------------------------------------------------------
\* Mutant: the file that is there is deployed into.
RemoveNothing == path

\* os.path.exists, os.remove.
AfterRemove == 0

\* deploy_sqlite_ddl_async, up to the connection it waits for.
DeployRemoves(d, script) ==
    /\ deployer[d] = Unbusy
    /\ script # {}
    /\ path' = AfterRemove
    /\ deployer' = [deployer EXCEPT ![d] =
           [at |-> "open", file |-> 0, script |-> script, left |-> script]]
    /\ settled' = {}
    /\ overlap' = (Deploying # {})
    /\ UNCHANGED <<made, ready, pool, user>>

DeployOpens(d) ==
    /\ deployer[d].at = "open"
    /\ OpenWith(Contents)
    /\ deployer' = [deployer EXCEPT ![d].at = "create", ![d].file = Opened]
    /\ UNCHANGED <<ready, pool, user, settled, overlap>>

\* One statement; the table must not be there.
DeployCreates(d) ==
    LET f == deployer[d].file IN
    /\ deployer[d].at = "create"
    /\ \E t \in deployer[d].left \ made[f] :
          /\ made' = [made EXCEPT ![f] = @ \cup {t}]
          /\ deployer' = [deployer EXCEPT ![d].left = @ \ {t}]
    /\ UNCHANGED <<path, ready, pool, user, settled, overlap>>

DeployEnds(d) ==
    /\ deployer[d].at = "create"
    /\ deployer[d].left = {}
    /\ deployer' = [deployer EXCEPT ![d] = Unbusy]
    /\ settled' = deployer[d].script
    /\ UNCHANGED <<made, path, ready, pool, user, overlap>>

\* A statement fails; what was created stays, and what was there before is gone.
DeployFails(d) ==
    /\ deployer[d] # Unbusy
    /\ deployer' = [deployer EXCEPT ![d] = Unbusy]
    /\ settled' = {}
    /\ UNCHANGED <<made, path, ready, pool, user, overlap>>

-----------------------------------------------------------------------------
\* execute_sqlite_sql_with_user_check: create_sqlite_database, if there is no file.
UseStarts(u) ==
    /\ user[u] = Absent
    /\ Stay(u, IF path = 0 THEN "dummy" ELSE "engine", 0)
    /\ UNCHANGED <<made, path, ready, pool, deployer, settled, overlap>>

\* A first connection makes the file with a table in it ...
CreateDummy(u) ==
    /\ user[u].at = "dummy"
    /\ OpenWith(Contents \cup {Dummy})
    /\ Stay(u, "undo", 0)
    /\ UNCHANGED <<ready, pool, deployer, settled, overlap>>

AfterDrop == Contents \ {Dummy}

\* ... and a second one drops the table, which raises if it is not there.
DropDummy(u) ==
    /\ user[u].at = "undo"
    /\ OpenWith(AfterDrop)
    /\ Stay(u, IF Dummy \in Contents THEN "engine" ELSE "idle", 0)
    /\ UNCHANGED <<ready, pool, deployer, settled, overlap>>

\* ensure_sqlite_engine: init_user_engine, which opens the file, or nothing.
EnsureEngine(u) ==
    /\ user[u].at = "engine"
    /\ IF ready THEN UNCHANGED <<made, path, ready, pool>>
       ELSE OpenWith(Contents) /\ ready' = TRUE /\ pool' = {}
    /\ Stay(u, "connect", 0)
    /\ UNCHANGED <<deployer, settled, overlap>>

\* engine.connect(): a connection of the pool, or a new one if none is idle.
TakeConnection(u) ==
    /\ user[u].at = "connect"
    /\ IF pool = {} THEN OpenWith(Contents) /\ Stay(u, "run", Opened) /\ pool' = pool
       ELSE \E f \in pool : Stay(u, "run", f) /\ pool' = pool \ {f} /\ UNCHANGED <<made, path>>
    /\ UNCHANGED <<ready, deployer, settled, overlap>>

\* The statement runs, and its connection goes back to the pool.
RunStatement(u) ==
    /\ user[u].at = "run"
    /\ pool' = pool \cup {user[u].file}
    /\ Stay(u, "idle", 0)
    /\ UNCHANGED <<made, path, ready, deployer, settled, overlap>>

\* close_all_engine, when the process ends: nothing else closes an engine.
FilesRestart ==
    /\ ready
    /\ ready' = FALSE
    /\ pool' = {}
    /\ user' = [u \in Users |-> Absent]
    /\ deployer' = [d \in Deployers |-> Unbusy]
    /\ settled' = IF Deploying = {} THEN settled ELSE {}
    /\ UNCHANGED <<made, path, overlap>>

FilesNext ==
    \/ \E d \in Deployers :
          \/ \E script \in SUBSET FileTables : DeployRemoves(d, script)
          \/ DeployOpens(d) \/ DeployCreates(d) \/ DeployEnds(d) \/ DeployFails(d)
    \/ \E u \in Users :
          \/ UseStarts(u) \/ CreateDummy(u) \/ DropDummy(u) \/ EnsureEngine(u)
          \/ TakeConnection(u) \/ RunStatement(u)
    \/ FilesRestart

FilesSpec == FilesInit /\ [][FilesNext]_fileVars

-----------------------------------------------------------------------------
\* After a deployment that ended well and met no other one, whatever statements
\* ran beside it, the file at the path holds exactly the tables of its script,
\* and a statement that runs on a connection to that file sees them.  (One whose
\* connection was opened before sees the removed file's.)
FileHoldsScript ==
    settled # {} /\ ~overlap /\ Deploying = {} =>
        /\ path # 0
        /\ made[path] \cap FileTables = settled
=============================================================================
