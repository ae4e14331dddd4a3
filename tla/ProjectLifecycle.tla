-------------------------- MODULE ProjectLifecycle --------------------------
(***************************************************************************)
(* The life of a SchemaFlow project: the rows of the meta database, the    *)
(* API handlers that are awaiting between their commits, the Celery tasks  *)
(* that generate Schema, DDL and ER code, and the user database a          *)
(* deployment drops, recreates and fills.                                  *)
(*                                                                         *)
(* Every handler of service/project_service.py that changes the row is     *)
(* cut at its awaits: one action per commit, with what the handler read    *)
(* earlier kept in its record.  A call owns the Celery task it dispatches, *)
(* so both are indexed by Calls; the record of a call is reused once the   *)
(* call and its task are over, so only concurrency is bounded, not the     *)
(* number of requests.  Quota and ownership are in ProjectQuota.           *)
(***************************************************************************)
EXTENDS Naturals, FiniteSets

CONSTANTS
    Projects,   \* project ids
    MySql,      \* the projects whose db_type is mysql
    Calls,      \* slots for API calls (and the Celery task each dispatches)
    Operations, \* the operations users ask for
    PoolSize,   \* how many Celery tasks run at a time
    Texts,      \* schema texts a user may type
    AIText,     \* the schema text the AI returns
    EditedDdl,  \* a DDL script a user typed in the deploy form
    NamesUse,   \* the scripts with 'USE ' inside a name of a table or column
    None,       \* NULL, the empty string, a field that is not in use
    MaxFaults   \* bound on process crashes in a behaviour

ASSUME OperationsAssumption ==
    Operations \subseteq {"create", "generate", "deploy", "regenerate", "delete"}
ASSUME MySqlAssumption == MySql \subseteq Projects
ASSUME PoolSizeAssumption == PoolSize \in Nat \ {0}
ASSUME MaxFaultsAssumption == MaxFaults \in Nat

VARIABLES
    stage,      \* project.creation_stage
    status,     \* project.project_status
    schema,     \* project.schema_definition['schema']
    ddl,        \* project.ddl_statement
    er,         \* project.er_diagram_code, as the schema text it was drawn from
    instance,   \* database_instance.status
    catalog,    \* the user database of the project
    call,       \* API calls being served
    task,       \* Celery tasks, by the call that dispatched them
    incident,   \* history: phases whose latest attempt failed or was lost
    overlap,    \* history: the latest deployment started during another one
    faults      \* history: crashes so far

row  == <<stage, status, schema, ddl, er, instance>>
hist == <<incident, overlap, faults>>
vars == <<stage, status, schema, ddl, er, instance, catalog, call, task,
          incident, overlap, faults>>

AnyText == Texts \cup {AIText}

\* The DDL the AI writes for a schema text is represented by that text.
AnyDdl == AnyText \cup {EditedDdl}

ASSUME NamesUseAssumption == NamesUse \subseteq AnyDdl

Transient == {"generating_schema", "generating_ddl", "executing_ddl"}
Stages == Transient \cup {"initializing", "schema_generated", "ddl_generated", "completed"}

\* CHECK constraint ck_project_status.
AllowedStatuses ==
    {"active", "initializing", "pending_confirmation", "deleted", "completed"}

Phases == {"schema", "ddl", "deploy"}

ASSUME NoneAssumption == None \notin Projects \cup AnyDdl \cup Stages \cup AllowedStatuses

\* How much of a script ran: all of it, all that the deployer takes, or the
\* statements before the one that failed.
Parts == {"all", "taken", "some"}

\* What is in the user database: the scripts whose statements ran.
Catalog ==
    [exists : BOOLEAN, ran : SUBSET [script : AnyDdl \cup {None}, part : Parts]]

NoDatabase == [exists |-> FALSE, ran |-> {}]
EmptyDatabase == [exists |-> TRUE, ran |-> {}]

\* On MySQL a statement is left out, without an error, when its text contains
\* 'USE ' or 'CREATE DATABASE' anywhere: CREATE TABLE warehouse (...), or a
\* column "cause TEXT".  (The other deployers compare the beginning only.)
LeavesOut(p, script) == p \in MySql /\ script \in NamesUse

Taken(p, script) == IF LeavesOut(p, script) THEN "taken" ELSE "all"

Deployed(p, script) ==
    [exists |-> TRUE, ran |-> {[script |-> script, part |-> Taken(p, script)]}]

\* A call: the operation, the await it is at, the values it read before that
\* await and the arguments it still needs.
CallSteps == {"idle", "save", "dispatch", "mark", "drop", "build", "run",
              "record", "instance", "fail"}

Call == [op   : {"none", "create", "generate", "deploy", "regenerate", "delete"},
         at   : CallSteps,
         project   : Projects \cup {None},
         seenStage : Stages \cup {None},
         seenText  : AnyText \cup {None},
         text      : AnyText \cup {None},
         script    : AnyDdl \cup {None}]

Idle == [op |-> "none", at |-> "idle", project |-> None, seenStage |-> None,
         seenText |-> None, text |-> None, script |-> None]

\* A Celery task: queued at the broker, or at a step of its body.
TaskSteps == {"idle", "queued", "schema", "save", "ddl", "er"}

Task == [kind : {"none", "schema", "ddl", "er"},
         at   : TaskSteps,
         project   : Projects \cup {None},
         text      : AnyText \cup {None},
         drawEr    : BOOLEAN,
         seenStage : Stages \cup {None},
         seenText  : AnyText \cup {None}]

NoTask == [kind |-> "none", at |-> "idle", project |-> None, text |-> None,
           drawEr |-> FALSE, seenStage |-> None, seenText |-> None]

TypeOK ==
    /\ stage \in [Projects -> Stages \cup {None}]
    /\ status \in [Projects -> AllowedStatuses \cup {None}]
    /\ schema \in [Projects -> AnyText \cup {None}]
    /\ ddl \in [Projects -> AnyDdl \cup {None}]
    /\ er \in [Projects -> AnyText \cup {None}]
    /\ instance \in [Projects -> {"inactive", "active"}]
    /\ catalog \in [Projects -> Catalog]
    /\ call \in [Calls -> Call]
    /\ task \in [Calls -> Task]
    /\ incident \in [Projects -> SUBSET Phases]
    /\ overlap \in [Projects -> BOOLEAN]
    /\ faults \in 0..MaxFaults

Init ==
    /\ stage = [p \in Projects |-> None]
    /\ status = [p \in Projects |-> None]
    /\ schema = [p \in Projects |-> None]
    /\ ddl = [p \in Projects |-> None]
    /\ er = [p \in Projects |-> None]
    /\ instance = [p \in Projects |-> "inactive"]
    /\ catalog = [p \in Projects |-> NoDatabase]
    /\ call = [c \in Calls |-> Idle]
    /\ task = [c \in Calls |-> NoTask]
    /\ incident = [p \in Projects |-> {}]
    /\ overlap = [p \in Projects |-> FALSE]
    /\ faults = 0

Exists(p) == stage[p] # None

-----------------------------------------------------------------------------
(***************************************************************************)
(* API handlers.                                                           *)
(***************************************************************************)

\* A slot takes a new call once its last call and that call's task are over.
Free(c) == call[c] = Idle /\ task[c] = NoTask

Arrive(c, o, p, step) ==
    /\ Free(c)
    /\ call' = [call EXCEPT ![c] = [Idle EXCEPT !.op = o, !.at = step, !.project = p]]

At(c, o, step) == call[c].op = o /\ call[c].at = step

GoTo(c, step) == call' = [call EXCEPT ![c].at = step]

Return(c) == call' = [call EXCEPT ![c] = Idle]

\* task.delay(): the message reaches the broker and the handler returns.
Dispatch(c, kind, text, drawEr) ==
    /\ task' = [task EXCEPT ![c] =
            [NoTask EXCEPT !.kind = kind, !.at = "queued",
                           !.project = call[c].project,
                           !.text = text, !.drawEr = drawEr]]
    /\ Return(c)

\* create_project_service commits the row, then dispatches.
CreateProject(c, p) ==
    /\ ~Exists(p)
    /\ Arrive(c, "create", p, "dispatch")
    /\ stage' = [stage EXCEPT ![p] = "generating_schema"]
    /\ status' = [status EXCEPT ![p] = "initializing"]
    /\ UNCHANGED <<schema, ddl, er, instance, catalog, task, hist>>

CreateDispatch(c) ==
    /\ At(c, "create", "dispatch")
    /\ Dispatch(c, "schema", None, TRUE)
    /\ UNCHANGED <<row, catalog, hist>>

\* request_ddl_generation_service: any stage and any status is accepted.
GenerateRead(c, p, text) ==
    /\ Exists(p)
    /\ Free(c)
    /\ call' = [call EXCEPT ![c] =
            [Idle EXCEPT !.op = "generate", !.at = "save", !.project = p,
                         !.seenStage = stage[p], !.seenText = schema[p],
                         !.text = text]]
    /\ UNCHANGED <<row, catalog, task, hist>>

\* The ORM flushes creation_stage only when it differs from the value read.
GenerateSave(c) ==
    LET p == call[c].project IN
    /\ At(c, "generate", "save")
    /\ schema' = [schema EXCEPT ![p] = call[c].text]
    /\ stage' = IF call[c].seenStage = "generating_ddl" THEN stage
                ELSE [stage EXCEPT ![p] = "generating_ddl"]
    /\ incident' = [incident EXCEPT ![p] = @ \ {"ddl"}]
    /\ GoTo(c, "dispatch")
    /\ UNCHANGED <<status, ddl, er, instance, catalog, task, overlap, faults>>

GenerateDispatch(c) ==
    /\ At(c, "generate", "dispatch")
    /\ Dispatch(c, "ddl", call[c].text, call[c].seenText # call[c].text)
    /\ UNCHANGED <<row, catalog, hist>>

\* regenerate_project_er_service replaces the schema and leaves the stage.
RegenerateSave(c, p, text) ==
    /\ Exists(p)
    /\ Free(c)
    /\ call' = [call EXCEPT ![c] =
            [Idle EXCEPT !.op = "regenerate", !.at = "dispatch",
                         !.project = p, !.text = text]]
    /\ schema' = [schema EXCEPT ![p] = text]
    /\ UNCHANGED <<stage, status, ddl, er, instance, catalog, task, hist>>

RegenerateDispatch(c) ==
    /\ At(c, "regenerate", "dispatch")
    /\ Dispatch(c, "er", call[c].text, TRUE)
    /\ UNCHANGED <<row, catalog, hist>>

\* delete_project_service: read the status, then write it.
DeleteRead(c, p) ==
    /\ Exists(p)
    /\ status[p] # "deleted"
    /\ Arrive(c, "delete", p, "mark")
    /\ UNCHANGED <<row, catalog, task, hist>>

DeleteMark(c) ==
    /\ At(c, "delete", "mark")
    /\ status' = [status EXCEPT ![call[c].project] = "deleted"]
    /\ Return(c)
    /\ UNCHANGED <<stage, schema, ddl, er, instance, catalog, task, hist>>

-----------------------------------------------------------------------------
(***************************************************************************)
(* deploy_project_service and the physical deployment.                     *)
(***************************************************************************)

\* confirmed is the DDL of the form (None when empty); the stored DDL is read
\* here and used later: final_ddl = confirmed_ddl or project.ddl_statement.
DeployRead(c, p, confirmed, confirmedText) ==
    /\ Exists(p)
    /\ Free(c)
    /\ call' = [call EXCEPT ![c] =
            [Idle EXCEPT !.op = "deploy", !.at = "mark", !.project = p,
                         !.text = confirmedText,
                         !.script = IF confirmed = None THEN ddl[p] ELSE confirmed]]
    /\ UNCHANGED <<row, catalog, task, hist>>

\* Calls past DeployMark that have not written their outcome yet.
Deploying(p) ==
    {c \in Calls : /\ call[c].op = "deploy"
                   /\ call[c].at \in {"drop", "build", "run", "record", "instance", "fail"}
                   /\ call[c].project = p}

\* Mutant: a missing DDL is taken for an empty script.
DeployMarkUnchecked(c) ==
    LET p == call[c].project IN
    /\ At(c, "deploy", "mark")
    /\ stage' = [stage EXCEPT ![p] = "executing_ddl"]
    /\ overlap' = [overlap EXCEPT ![p] = Deploying(p) # {}]
    /\ incident' = [incident EXCEPT ![p] = @ \ {"deploy"}]
    /\ GoTo(c, "drop")
    /\ UNCHANGED <<status, schema, ddl, er, instance, catalog, task, faults>>

\* The stage is committed, then the DDL is read as text: None is not a text.
DeployMark(c) ==
    LET p == call[c].project IN
    /\ At(c, "deploy", "mark")
    /\ stage' = [stage EXCEPT ![p] = "executing_ddl"]
    /\ overlap' = [overlap EXCEPT ![p] = Deploying(p) # {}]
    /\ incident' = [incident EXCEPT ![p] = @ \ {"deploy"}]
    /\ GoTo(c, IF call[c].script = None THEN "fail" ELSE "drop")
    /\ UNCHANGED <<status, schema, ddl, er, instance, catalog, task, faults>>

\* DROP DATABASE IF EXISTS.
DeployDrop(c) ==
    /\ At(c, "deploy", "drop")
    /\ catalog' = [catalog EXCEPT ![call[c].project] = NoDatabase]
    /\ GoTo(c, "build")
    /\ UNCHANGED <<row, task, hist>>

\* CREATE DATABASE.  When another deployment has just created it, SQLite opens
\* the file it finds; MySQL and PostgreSQL raise (DeployRaises).
DeployBuild(c) ==
    LET p == call[c].project IN
    /\ At(c, "deploy", "build")
    /\ catalog' = IF catalog[p].exists THEN catalog
                  ELSE [catalog EXCEPT ![p] = EmptyDatabase]
    /\ GoTo(c, "run")
    /\ UNCHANGED <<row, task, hist>>

\* A part of the script's statements runs in the database.
Execute(c, part) ==
    LET p == call[c].project IN
    catalog' = [catalog EXCEPT ![p] =
        [exists |-> TRUE,
         ran |-> catalog[p].ran \cup {[script |-> call[c].script, part |-> part]}]]

\* Every statement that is taken runs.  If another deployment has dropped the
\* database meanwhile, SQLite goes on writing to the unlinked file.
DeployRun(c) ==
    LET p == call[c].project IN
    /\ At(c, "deploy", "run")
    /\ IF catalog[p].exists THEN Execute(c, Taken(p, call[c].script)) ELSE UNCHANGED catalog
    /\ GoTo(c, "record")
    /\ UNCHANGED <<row, task, hist>>

\* Mutant: errors of single statements are logged and skipped.
DeployPartlySkipsErrors(c) ==
    /\ At(c, "deploy", "run")
    /\ Execute(c, "some")
    /\ GoTo(c, "record")
    /\ UNCHANGED <<row, task, hist>>

\* A statement fails, and MySQL and SQLite keep what has run.
DeployPartly(c) ==
    /\ At(c, "deploy", "run")
    /\ catalog[call[c].project].exists
    /\ Execute(c, "some")
    /\ GoTo(c, "fail")
    /\ UNCHANGED <<row, task, hist>>

\* Anything in the try block raises with nothing changed: the script cannot be
\* ordered, the server refuses, PostgreSQL rolls the script back, the outcome
\* cannot be written.
DeployRaises(c) ==
    /\ call[c].op = "deploy"
    /\ call[c].at \in {"drop", "build", "run", "record", "instance"}
    /\ GoTo(c, "fail")
    /\ UNCHANGED <<row, catalog, task, hist>>

\* _update_deployment_success: one UPDATE of the row, no guard.
DeployRecord(c) ==
    LET p == call[c].project IN
    /\ At(c, "deploy", "record")
    /\ status' = [status EXCEPT ![p] = "active"]
    /\ stage' = [stage EXCEPT ![p] = "completed"]
    /\ ddl' = [ddl EXCEPT ![p] = call[c].script]
    /\ schema' = IF call[c].text = None THEN schema
                 ELSE [schema EXCEPT ![p] = call[c].text]
    /\ GoTo(c, "instance")
    /\ UNCHANGED <<er, instance, catalog, task, hist>>

DeployInstance(c) ==
    /\ At(c, "deploy", "instance")
    /\ instance' = [instance EXCEPT ![call[c].project] = "active"]
    /\ Return(c)
    /\ UNCHANGED <<stage, status, schema, ddl, er, catalog, task, hist>>

\* Mutant: the except branch raises without writing a stage.
DeployFailNoRollback(c) ==
    /\ At(c, "deploy", "fail")
    /\ Return(c)
    /\ UNCHANGED <<row, catalog, task, hist>>

\* The except branch restores a stage, never the status.
DeployFail(c) ==
    /\ At(c, "deploy", "fail")
    /\ stage' = [stage EXCEPT ![call[c].project] = "ddl_generated"]
    /\ Return(c)
    /\ UNCHANGED <<status, schema, ddl, er, instance, catalog, task, hist>>

-----------------------------------------------------------------------------
(***************************************************************************)
(* Celery tasks: schema_er_pipeline, ddl_er_parallel and generate_er.      *)
(***************************************************************************)

Running == {c \in Calls : task[c].at \notin {"idle", "queued"}}

\* The task goes on to a step ...
TaskGoTo(c, step) == task' = [task EXCEPT ![c].at = step]

\* ... with what it had read from the row out of use.
Forget(c, step) ==
    task' = [task EXCEPT ![c] =
        [@ EXCEPT !.at = step, !.seenStage = None, !.seenText = None]]

\* The task returns (or raises) and the worker acknowledges its message.
Ack(c) == task' = [task EXCEPT ![c] = NoTask]

DrawErOrAck(c) == IF task[c].drawEr THEN TaskGoTo(c, "er") ELSE Ack(c)

Report(p, phase) == incident' = [incident EXCEPT ![p] = @ \cup {phase}]

\* Mutant: the table has no CHECK on the status.
UpdateUnconstrained(p, newStage, newStatus) ==
    /\ stage' = [stage EXCEPT ![p] = newStage]
    /\ status' = [status EXCEPT ![p] = newStatus]

\* crud_project.update of stage and status: the CHECK rejects the whole UPDATE
\* and _update_project_field swallows the exception.
UpdateStageAndStatus(p, newStage, newStatus) ==
    IF newStatus \in AllowedStatuses
    THEN /\ stage' = [stage EXCEPT ![p] = newStage]
         /\ status' = [status EXCEPT ![p] = newStatus]
    ELSE UNCHANGED <<stage, status>>

TaskStart(c) ==
    /\ task[c].at = "queued"
    /\ Cardinality(Running) < PoolSize
    /\ TaskGoTo(c, task[c].kind)
    /\ UNCHANGED <<row, catalog, call, hist>>

\* generate_schema_task with an answer: save_schema reads the row ...
SchemaRead(c) ==
    LET p == task[c].project IN
    /\ task[c].at = "schema"
    /\ task' = [task EXCEPT ![c] =
            [@ EXCEPT !.at = "save", !.text = AIText,
                      !.seenStage = stage[p], !.seenText = schema[p]]]
    /\ UNCHANGED <<row, catalog, call, hist>>

\* ... and flushes what differs from it: a dictionary that was NULL and is new
\* (one that existed is changed in place and not flushed), and the stage.
SchemaSave(c) ==
    LET p == task[c].project IN
    /\ task[c].at = "save"
    /\ schema' = IF task[c].seenText = None THEN [schema EXCEPT ![p] = AIText]
                 ELSE schema
    /\ stage' = IF task[c].seenStage = "schema_generated" THEN stage
                ELSE [stage EXCEPT ![p] = "schema_generated"]
    /\ Forget(c, "er")
    /\ UNCHANGED <<status, ddl, er, instance, catalog, call, hist>>

\* An empty answer: the failure is written and the pipeline stops.
SchemaEmpty(c) ==
    LET p == task[c].project IN
    /\ task[c].at = "schema"
    /\ UpdateStageAndStatus(p, "initializing", "schema_generation_failed")
    /\ Report(p, "schema")
    /\ Ack(c)
    /\ UNCHANGED <<schema, ddl, er, instance, catalog, call, overlap, faults>>

\* An exception: called directly, self.retry() re-raises it out of the
\* pipeline task before anything is written.
SchemaRaises(c) ==
    /\ task[c].at \in {"schema", "save"}
    /\ Report(task[c].project, "schema")
    /\ Ack(c)
    /\ UNCHANGED <<row, catalog, call, overlap, faults>>

\* generate_ddl_task with an answer: one UPDATE, whatever the row holds.
DdlSave(c) ==
    LET p == task[c].project IN
    /\ task[c].at = "ddl"
    /\ ddl' = [ddl EXCEPT ![p] = task[c].text]
    /\ UpdateStageAndStatus(p, "ddl_generated", "pending_confirmation")
    /\ DrawErOrAck(c)
    /\ UNCHANGED <<schema, er, instance, catalog, call, hist>>

DdlEmpty(c) ==
    LET p == task[c].project IN
    /\ task[c].at = "ddl"
    /\ UpdateStageAndStatus(p, "schema_generated", "ddl_generation_failed")
    /\ Report(p, "ddl")
    /\ DrawErOrAck(c)
    /\ UNCHANGED <<schema, ddl, er, instance, catalog, call, overlap, faults>>

DdlRaises(c) ==
    /\ task[c].at = "ddl"
    /\ Report(task[c].project, "ddl")
    /\ Ack(c)
    /\ UNCHANGED <<row, catalog, call, overlap, faults>>

\* generate_er_task: success writes the ER code, failure writes nothing.
ErSave(c) ==
    /\ task[c].at = "er"
    /\ er' = [er EXCEPT ![task[c].project] = task[c].text]
    /\ Ack(c)
    /\ UNCHANGED <<stage, status, schema, ddl, instance, catalog, call, hist>>

\* Mutant: a failed drawing is put back in the queue.
ErRetriesForever(c) ==
    /\ task[c].at = "er"
    /\ task' = [task EXCEPT ![c].at = "queued"]
    /\ UNCHANGED <<row, catalog, call, hist>>

ErFails(c) ==
    /\ task[c].at = "er"
    /\ Ack(c)
    /\ UNCHANGED <<row, catalog, call, hist>>

-----------------------------------------------------------------------------
(***************************************************************************)
(* Crashes.                                                                *)
(***************************************************************************)

Fault == faults < MaxFaults /\ faults' = faults + 1

\* Mutant: the message is acknowledged when it is taken (task_acks_late off).
WorkerCrashEarlyAck(c) ==
    /\ c \in Running
    /\ Fault
    /\ Ack(c)
    /\ UNCHANGED <<row, catalog, call, incident, overlap>>

\* The worker dies: with task_acks_late the broker delivers the message again.
WorkerCrash(c) ==
    /\ c \in Running
    /\ Fault
    /\ Forget(c, "queued")
    /\ UNCHANGED <<row, catalog, call, incident, overlap>>

\* Only the pool process dies (or the hard time limit kills it): the worker
\* acknowledges the message as failed.
TaskKilled(c) ==
    LET p == task[c].project IN
    /\ c \in Running
    /\ Fault
    /\ \/ task[c].at \in {"schema", "save"} /\ Report(p, "schema")
       \/ task[c].at = "ddl" /\ Report(p, "ddl")
       \/ task[c].at = "er" /\ UNCHANGED incident
    /\ Ack(c)
    /\ UNCHANGED <<row, catalog, call, overlap>>

\* The API process dies in the middle of a call, or the dispatch fails.
ApiCrash(c) ==
    LET p == call[c].project IN
    /\ call[c] # Idle
    /\ Fault
    /\ \/ At(c, "create", "dispatch") /\ Report(p, "schema")
       \/ At(c, "generate", "dispatch") /\ Report(p, "ddl")
       \/ c \in Deploying(p) /\ Report(p, "deploy")
       \/ /\ \/ call[c].at \in {"save", "mark"}
             \/ call[c].op = "regenerate"
          /\ UNCHANGED incident
    /\ Return(c)
    /\ UNCHANGED <<row, catalog, task, overlap>>

-----------------------------------------------------------------------------
UserAction(c, p) ==
    \/ "create" \in Operations /\ CreateProject(c, p)
    \/ "delete" \in Operations /\ DeleteRead(c, p)
    \/ "generate" \in Operations /\ \E text \in AnyText : GenerateRead(c, p, text)
    \/ "regenerate" \in Operations /\ \E text \in AnyText : RegenerateSave(c, p, text)
    \/ /\ "deploy" \in Operations
       /\ \E confirmed \in {EditedDdl, None}, text \in Texts \cup {None} :
             DeployRead(c, p, confirmed, text)

HandlerStep(c) ==
    \/ CreateDispatch(c)
    \/ GenerateSave(c) \/ GenerateDispatch(c)
    \/ RegenerateDispatch(c)
    \/ DeleteMark(c)
    \/ DeployMark(c) \/ DeployDrop(c) \/ DeployBuild(c)
    \/ DeployRun(c) \/ DeployPartly(c) \/ DeployRaises(c)
    \/ DeployRecord(c) \/ DeployInstance(c) \/ DeployFail(c)

TaskStep(c) ==
    \/ SchemaRead(c) \/ SchemaSave(c) \/ SchemaEmpty(c) \/ SchemaRaises(c)
    \/ DdlSave(c) \/ DdlEmpty(c) \/ DdlRaises(c)
    \/ ErSave(c) \/ ErFails(c)

Crash(c) == WorkerCrash(c) \/ TaskKilled(c) \/ ApiCrash(c)

Next == \E c \in Calls :
            \/ \E p \in Projects : UserAction(c, p)
            \/ HandlerStep(c)
            \/ TaskStart(c)
            \/ TaskStep(c)
            \/ Crash(c)

Spec == Init /\ [][Next]_vars

(***************************************************************************)
(* Handlers and running tasks keep running; a queued task is taken in the  *)
(* end even when others arrive, because the broker's list is first in      *)
(* first out.  Users owe nothing, and crashes are bounded by MaxFaults.    *)
(***************************************************************************)
Fairness == \A c \in Calls : /\ WF_vars(HandlerStep(c))
                             /\ WF_vars(TaskStep(c))
                             /\ SF_vars(TaskStart(c))

FairSpec == Spec /\ Fairness

-----------------------------------------------------------------------------
(***************************************************************************)
(* What holds.                                                             *)
(***************************************************************************)

\* The call or the task of slot c will still write the outcome of a phase.
OwnsSchema(c, p) ==
    \/ At(c, "create", "dispatch") /\ call[c].project = p
    \/ /\ task[c].kind = "schema" /\ task[c].project = p
       /\ task[c].at \in {"queued", "schema", "save"}

OwnsDdl(c, p) ==
    \/ At(c, "generate", "dispatch") /\ call[c].project = p
    \/ /\ task[c].kind = "ddl" /\ task[c].project = p
       /\ task[c].at \in {"queued", "ddl"}

OwnsDeployment(c, p) == c \in Deploying(p) /\ call[c].at # "instance"

\* A project shows a stage in which something is being done only while a call
\* or a task is going to move it on, unless the latest attempt at that phase
\* failed or was lost in a crash.  Rests on: the stage is written before the
\* dispatch, late acknowledgement, and every outcome writing the stage.
NoSilentStall ==
    \A p \in Projects :
        /\ stage[p] = "generating_schema" =>
              (\E c \in Calls : OwnsSchema(c, p)) \/ "schema" \in incident[p]
        /\ stage[p] = "generating_ddl" =>
              (\E c \in Calls : OwnsDdl(c, p)) \/ "ddl" \in incident[p]
        /\ stage[p] = "executing_ddl" =>
              (\E c \in Calls : OwnsDeployment(c, p)) \/ "deploy" \in incident[p]

\* A project whose status asks the user to confirm a DDL, or says that one is
\* deployed, has a DDL: no interleaving of the DDL task, deployments with an
\* empty form and deletions separates the two columns.
StatusHasDdl ==
    \A p \in Projects :
        status[p] \in {"pending_confirmation", "active"} => ddl[p] # None

\* A completed project is active (or deleted since), its instance is marked
\* active unless the deployment is about to do so or was cut short, and, unless
\* its last deployment overlapped another one, its database holds exactly
\* what the deployer takes of the stored DDL, whatever late task, crash or failed
\* deployment came before: nothing of another script, nothing of a script that
\* failed half-way, and all of it unless the server is MySQL and a name in it
\* contains 'USE '.
CompletedIsDeployed ==
    \A p \in Projects :
        stage[p] = "completed" =>
            /\ status[p] \in {"active", "deleted"}
            /\ instance[p] = "active" \/ Deploying(p) # {} \/ "deploy" \in incident[p]
            /\ ~overlap[p] => catalog[p] = Deployed(p, ddl[p])

\* The comment "update the project status to failed" (ai_generation_tasks.py)
\* and the enum's gloss of generating_schema, "Schema is being generated": once
\* the generation has failed and nothing is left of it, the project is not
\* shown as generating.
FailedGenerationIsShown ==
    \A p \in Projects :
        "schema" \in incident[p] /\ (\A c \in Calls : ~OwnsSchema(c, p)) =>
            stage[p] # "generating_schema"

\* "A deleted project cannot be updated" (project_service.py): no later step
\* of a task or of a call takes a project out of the deleted status.
DeletedIsFinal ==
    [][\A p \in Projects : status[p] = "deleted" => status'[p] = "deleted"]_vars

\* A stage in which something is being done is left in the end, or the attempt
\* is known to have failed.
StageSettles ==
    \A p \in Projects :
        stage[p] \in Transient ~> stage[p] \notin Transient \/ incident[p] # {}

\* Every call is answered and its Celery task is acknowledged in the end.
CallsEnd == \A c \in Calls : []<>Free(c)
=============================================================================
