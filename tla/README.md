# A TLA+ model of SchemaFlow

SchemaFlow turns a description of a business into a relational schema, a DDL
script and a deployed database, and then lets its user talk to that database
through an AI.  The backend (`src/src/backend/app`) is an asynchronous FastAPI
application over a PostgreSQL meta database and Redis, with Celery workers for
the generations and MySQL, PostgreSQL and SQLite as targets of deployments.
Paths below are relative to `src/src/backend/app`.

## 1. The system

| Component | State it keeps | Operations | Talks to |
|---|---|---|---|
| Project lifecycle: `service/project_service.py`, `crud/crud_project.py`, `models/project.py` | the `project` row: `creation_stage`, `project_status`, `schema_definition`, `ddl_statement`, `er_diagram_code`; `database_instance.status` | create, generate DDL, deploy, regenerate ER, delete, update info, list, detail | dispatches tasks, deploys, invalidates the cache |
| Generation tasks: `tasks/ai_generation_tasks.py`, `celery_app.py` | the broker's queue, the pool of worker processes | schema + ER pipeline, DDL (+ ER), ER alone | write the `project` row from other processes, minutes later |
| Deployment: `service/db_executor_service.py`, `mysql/mysql_execute.py`, `postgresql/postgres_execute.py`, `sqlite/sqlite_execute.py`, `core/sql_sort.py` | the user database | split and sort the DDL, drop, create, run | called by the deploy handler |
| Quota and ownership: `service/project_service.py`, `service/admin_service.py`, `models/user_account.py` | `used_databases`, `max_databases`, `project.user_id`, confirmation tokens | check, pay, refund, change quota, confirm a deletion | shares the project rows |
| Cache: `redis_client/cache_service.py`, `service/announcement_cache_service.py` | Redis keys with a time to live, fill locks | get, set, delete, get-or-set | lists, details, profiles, announcements |
| Chat: `service/chat_service.py` | messages, `ai_generated_statement`, the conversation's model | ask, confirm, cancel | executes statements on user databases, retrieves context |
| Login and sessions: `service/user_service.py`, `core/auth.py`, `crud/crud_user_login_history.py` | tokens in Redis, login records | login, logout, expiry | every authenticated request |
| Account status: `core/security.py`, `service/admin_service.py` | `user_account.status`, failure counters, violations | count failures, mark, ban, unban, set a status | logins and authenticated requests |
| Mailed codes: `service/password_reset_service.py`, `service/email_service.py`, `core/email_utils.py` | codes and rate counters in Redis, `user_account.email` | send, check, delete | registration, change of address, password reset |
| AI models: `crud/crud_ai_model_config.py` | `ai_model_config` | add, rename, delete, choose | each question |
| Knowledge and retrieval: `service/knowledge_service.py`, `service/rag_service.py`, `service/vector_db_service.py` | `domain_knowledge`, vectors of terms, tables and messages | create, import, update, delete, index, search | background tasks; each question |
| User database access: `service/mysql_service.py`, `service/postgresql_service.py`, `service/sqlite_service.py` | accounts and privileges on the servers, engines in the process, SQLite files | make sure of account, privilege and engine; run | chat and deployment |
| DDL order: `core/sql_sort.py` | none | sort the statements of a script | deployment |
| Others: reports, dialect converters, mail transport, the web front end | see `PROJECT.json` | | |

What makes it hard:

* **Handlers interleave at every `await`.**  Nothing locks a project: two calls
  of one user (two tabs, a double click, a retry of the front end) and two
  tasks may be in the middle of their work on one row, and each commits what it
  computed from what it read earlier.
* **Tasks outlive the state they were started in.**  A task ends minutes after
  its dispatch and writes its outcome without looking at the row.
* **Failure paths are longer than success paths.**  An empty AI answer, an
  exception, a killed pool process, a dead worker (the message comes back,
  `task_acks_late`), a crash of the API between a commit and a dispatch, a
  CHECK constraint that refuses an UPDATE whose exception is swallowed.
* **Deployments destroy before they build.**  The database is dropped first;
  failure or a second deployment in the middle leaves something else.
* **Counters are read, checked and written apart**, in the meta database as in
  Redis, where INCR and EXPIRE are two commands.
* **Nothing orders background tasks.**  Vectors are written by tasks that a
  request starts and forgets, and by no transaction with their rows.
* **What a session has loaded stays as it was.**  The identity map of a database
  session hands out the object loaded first: a status read again is the old one.

What makes each component correct:

* lifecycle: a stage in which something is being done ends; status, stage, DDL
  and user database agree; what is deleted stays deleted;
* quota: the counter agrees with the projects, stays within the quota, and only
  the owner deletes;
* cache: an entry older than its row has a cause one can name, and one caller at
  a time fills a key;
* chat: a confirmed statement is executed at most once, a cancelled one never;
  a question sees its own conversation and the tables it needs;
* accounts: a ban ends the sessions, failures mark the account, the history has
  one open session, counters go away by themselves;
* codes: each is used once, and the one mailed last is the one accepted;
* vectors follow their rows, table fragments the deployed script;
* engines log in to accounts that exist and may use the tables.

## 2. Modules

| Module | Models | Checked by |
|---|---|---|
| `ProjectLifecycle` | stages, statuses, tasks, deployments, crashes | `MCProjectLifecycle` |
| `ProjectQuota` | ownership, the counter, the confirmation of deletions | `MCProjectQuota` |
| `ChatStatement`, implementing `AnswerOffers` | statements of a conversation from the question to their end | `MCChatStatement` |
| `AccountSessions` (with `RedisCounter`) | one account: status, failures, tokens, login records | `MCAccounts` |
| `EmailCodes` (with `RedisCounter`) | codes sent by e-mail and their rate counters | `MCAccounts` |
| `ModelChoice` | the model a question goes to | `MCAccounts` |
| `ReadThroughCache` | one cached entry, its readers and writers | `MCProjectData` |
| `KnowledgeIndex`, `SchemaFragments` | terms and table definitions with their vectors | `MCProjectData` |
| `UserEngines`, `SqliteFiles` | accounts, privileges, engines and files of user databases | `MCProjectData` |
| `DdlSort` | the order of a script's statements | `MCProjectData` |
| `ChatTables`, `ChatContext` | what a question is shown with | `MCProjectData` |

The theorems are in eight modules.  `ProjectLifecycleProofs`,
`ProjectQuotaProofs`, `ChatStatementProofs`, `AccountSessionsProofs` and
`ReadThroughCacheProofs` are about the module they are named after.
`AccountsProofs` is about `EmailCodes`, `ModelChoice` and the composition in
`MCAccounts`; `RetrievalProofs` about `KnowledgeIndex`, `SchemaFragments`,
`ChatTables` and `ChatContext`; `ProjectDataProofs` about `UserEngines`,
`SqliteFiles`, `DdlSort` and the composition in `MCProjectData`.

What the plan has left: an abstract specification of the lifecycle (attempts
that start, succeed or fail) with `ProjectLifecycle` as its implementation.

## 3. `ProjectLifecycle`

One action per commit, per dispatch and per step of a task.  The constants are
the project ids and those of them on MySQL, the slots for calls, the operations
asked for, the size of the worker pool, the schema texts, the scripts with
`USE ` inside a name, and a bound on crashes.

| Variable | Code |
|---|---|
| `stage`, `status`, `schema`, `ddl`, `er` | columns of `project`; `None` is NULL, and a project exists once its stage is not `None` |
| `instance` | `database_instance.status` |
| `catalog` | the user database: whether it exists, and the scripts whose statements ran in it: all, what the deployer takes, or those before a failure |
| `call` | a request being served: its operation, the `await` it has reached, what it read before that |
| `task` | the Celery task a call dispatched: queued, or at a step of its body |
| `incident` | history: the phases whose latest attempt failed or was lost |
| `overlap` | history: the latest deployment started while another was under way |
| `faults` | history: crashes so far |

The slot of a call and of its task are the same, since a call dispatches at
most one task; a slot is used again when both are over.  So `Calls` bounds what
goes on at a time, and a behaviour has any number of requests.

| Action | Code |
|---|---|
| `CreateProject`, `CreateDispatch` | `create_project_service`: the rows are committed, then `delay()` |
| `GenerateRead`, `GenerateSave`, `GenerateDispatch` | `request_ddl_generation_service`; a stage equal to the one read is not flushed |
| `RegenerateSave`, `RegenerateDispatch` | `regenerate_project_er_service`: the text replaces the schema, the stage stays |
| `DeleteRead`, `DeleteMark` | `delete_project_service` |
| `DeployRead`, `DeployMark` | `deploy_project_service` up to the `try` |
| `DeployDrop`, `DeployBuild`, `DeployRun`, `DeployPartly`, `DeployRaises` | the three `deploy_*_ddl` functions and what any of their steps may raise |
| `DeployRecord`, `DeployInstance` | `_update_deployment_success` |
| `DeployFail` | the `except` branch |
| `TaskStart` | a pool process takes a message |
| `SchemaRead`, `SchemaSave`, `SchemaEmpty`, `SchemaRaises` | `generate_schema_task` inside the pipeline |
| `DdlSave`, `DdlEmpty`, `DdlRaises` | `generate_ddl_task` inside the pipeline |
| `ErSave`, `ErFails` | `generate_er_task` |
| `WorkerCrash`, `TaskKilled`, `ApiCrash` | the worker dies and the message is delivered again; a pool process dies or hits its time limit and the message is acknowledged; the API process dies or a dispatch raises |

Things the model says that are easy to miss in the code:

* `UpdateStageAndStatus` changes nothing when the status is not in
  `ck_project_status`; `_update_project_field` swallows the exception.  The same
  branch stands for any other failed UPDATE of a task, which is why `DdlEmpty`
  and a DDL that could not be stored are one action.
* `generate_schema_task` and `generate_ddl_task` are called as functions by the
  pipelines, where `self.retry` raises the original exception: an exception ends
  the task and writes nothing.
* `save_schema` changes an existing dictionary in place, which the ORM does not
  see, so a schema is stored only where there was none.
* Overlapping deployments differ by engine.  `DeployBuild` and `DeployRun` allow
  what SQLite allows (opening the file another deployment made, writing to a
  file that has been unlinked); MySQL and PostgreSQL raise in these cases, which
  `DeployRaises` covers.  Statements SQLite writes to an unlinked file after a
  new one was made are seen as written before that, which no other step can tell
  apart.

The DDL the AI writes for a text is represented by that text, an ER diagram by
the text it was drawn from; a schema text comes from the AI or from `Texts`.
Metadata updates (`update_project_info_service`) touch none of these columns.

A script is not taken apart into statements.  What the deployer leaves out of it
is: on MySQL every statement whose text contains `USE ` or `CREATE DATABASE`
anywhere, so `CREATE TABLE warehouse (...)` and a table with the column
`cause TEXT` too, and the deployment succeeds (`LeavesOut`, `Taken`).  The other
deployers compare the beginning of a statement and skip nothing that creates a
table.  The meta database is taken to accept every commit of an API handler
outside the deployment's `try`; a commit that fails there is `ApiCrash`.

### Properties

* `NoSilentStall`: a project in `generating_schema`, `generating_ddl` or
  `executing_ddl` has a call or a task that will write the outcome of that
  phase, or the failure of its latest attempt is on record.
* `StatusHasDdl`: a status of `pending_confirmation` or `active` means that
  there is a DDL.
* `CompletedIsDeployed`: a completed project is active (or deleted since), its
  instance is active or about to be, and unless the deployment overlapped another
  one the user database holds exactly what the deployer takes of the stored DDL:
  nothing of another script, of a script that failed half-way, or of an earlier
  deployment.
* `StageSettles`, `CallsEnd` (liveness): a transient stage ends or its attempt is
  known to have failed; every call is answered and every task acknowledged (its
  slot is free again and again).
* `FailedGenerationIsShown` and `DeletedIsFinal` are what the comments and error
  messages of the code say; the code does not keep them (section 9).

### Runs

| Run | Bounds | Result |
|---|---|---|
| `project_lifecycle` | 1 project, 2 slots, all operations, pool of 2, 1 crash, slots interchangeable | all invariants hold |
| `project_stages_settle` | 1 project, 2 slots, create, generate and deploy, pool of 1, 1 crash, no symmetry | `StageSettles` and `CallsEnd` hold |
| `project_failed_generation` | as the first, no crash, no symmetry | violated |
| `project_deleted` | as the first, no crash, no symmetry | violated |

One project is enough because no action relates two of them (the proofs hold
for any number); two slots give every pair of call and call, call and task, and
task and task; more than two concurrent writers only add writers of the same
kinds.  One crash at any point reaches a redelivery, a lost call and a killed
task.  `Texts` is empty: a text the user did not change and an edited DDL
(`EditedDdl`) are what the properties tell apart.  The project is on MySQL and
the edited DDL is the one with `USE ` in a name, so that scripts are deployed in
full and in part; on another server every script is as the one of the AI.  The
liveness run has the AI's DDL alone, deployed in full, and no deletion or ER
regeneration: they add states and no stage.

### Fairness

`HandlerStep` and `TaskStep` are weakly fair for each slot: asyncio resumes a
handler whose `await` is over, and a task runs on in its own process under a
time limit.  `TaskStart` is strongly fair: it is disabled while the pool is full,
and the broker's list is first in, first out, so a message is not overtaken for
ever.  Users are not fair: nothing relies on a request being made.  Crashes are
bounded by `MaxFaults`; without a bound a task could be redelivered for ever.

## 4. `ProjectQuota`

The project rows are reduced to owner, `live` (the status is not `deleted`) and
`working` (a DDL task or a deployment is under way, whose last write makes the
project live again).  `used` and `max` are the columns of `user_account`,
`tokens` the confirmation tokens that have been issued and have not expired;
nothing marks one as used.  A call keeps the counter it read, and writes that
value plus or minus one.  `Abort` stops a call at any of its commits.

`peak` (the largest quota so far) and `disturbed` (users with overlapping or
aborted calls, or a project made live again after its deletion) are history.

* `UsedInRange`: the counter lies between 0 and `peak`, whatever happens.
* `AccountingExact`: for a user who is not in `disturbed` the counter plus the
  creations still to be paid is the number of live projects plus the deletions
  still to be refunded; so a confirmation used twice is not refunded twice.
* `OnlyOwnerDeletes`: a project stops being live only by a deletion its owner
  asked for.  The delete endpoint itself only looks at the token.
* `WithinQuota` and `UsedCountsProjects` are the glosses of the two columns; the
  code does not keep them.

Runs: `project_quota`, `project_quota_limit` and `project_quota_counter` use two
users, two projects, two concurrent calls and quotas 1 and 2 with a default of
1.  That is the smallest instance with a token of another user, two creations
that pass one check, and a quota that is lowered under a creation.  Projects are
never removed, so two ids bound the creations of a behaviour.

## 5. `ChatStatement`

One conversation.  A question is answered by a message; the type that
`_parse_sql_type` finds for its statement decides whether it is refused (`ddl`),
waits for a confirmation (`dml`) or is executed at once.  What a statement does is
another matter (`ChangesData`, `ChangesTables`), and `kind` says both:

| Kind | Statements | What the code does |
|---|---|---|
| `query` | whatever leaves nothing behind: a SELECT; and a statement without a recognised type (text that begins with `--` among them) that the rules for queries in `config.yaml` refuse or that ends without a commit, as a DELETE does | executed as a query |
| `dml` | INSERT, UPDATE, DELETE | waits for the owner |
| `ddl` | CREATE, DROP, ALTER, TRUNCATE | refused |
| `unlisted_dml` | changes of data of a type the two lists do not name: REPLACE, MERGE | executed at once and committed, past the rules for queries on MySQL and PostgreSQL |
| `unlisted_ddl` | changes of tables the lists miss: CREATE OR REPLACE, which is a type of its own; CREATE VIEW ... SELECT behind a comment, which the rules let pass and MySQL commits by itself | executed at once |
| `reply` | no statement: the AI failed or gave up | shown |

`message` and `statement` are the rows, `open` says that the session row
exists, `ran` counts executions up to two, and `asked` are the answers whose
confirmation was accepted.

| Action | Code |
|---|---|
| `Ask`, `Answer`, `RunAtOnce` | `process_chat` up to the commit of the question; the AI's answer and its classification; `_try_execute_sql` |
| `SaveMessage`, `SaveStatement` | the two commits of `_save_ai_response` (or the only one of the handlers that reply without a statement) |
| `ConfirmRead`, `ConfirmRun`, `ConfirmRecord`, `ConfirmFail` | `confirm_and_execute_sql`, its execution, its commit, and `_handle_execution_error` |
| `CancelRead`, `CancelWrite` | `cancel_message` |
| `DeleteSession` | `CRUDSession.remove`, which cascades to messages and statements |
| `Stop` | a process of the API server ends in the middle of a call |

`autoflush` and `expire_on_commit` are off, so a call writes the columns it
assigned and nothing else, from what it read when it started; a write to a row
that has been removed fails, and the call with it.  A status that the CHECK
constraint refuses makes the commit fail.  An execution may fail after it has
been done (the answer to the commit is lost).  A statement whose own text
contains the separator that `_extract_sql_from_content` splits at is not
modelled: a content is what it shows, not its characters.

* `ConfirmableAsShown`: the history offers a confirmation exactly when the code
  accepts one; the statement is then pending and the content shows it, so what
  is cut out of the content and executed is that statement.
* `ListedRunOnlyAsked`: only a change of data that the lists name is ever put to
  the owner, and it runs only after that; a change of tables that they name never
  runs; and what they do not name runs once at most, however calls are repeated.
  What a statement does (`ChangesData`, `ChangesTables`) is apart from whether the
  lists name its type (`Unlisted`): the property lets a change run unasked only
  if they do not.  The front end's comments and the docstrings of the lists know
  no such change (section 9).
* `ClosedIsFinal`: an answer that is confirmed, cancelled or gone, and that no
  confirmation is executing, stays so and is not executed again.
* `RunsOnce` is the reason the code gives for refusing a second confirmation;
  the code does not keep it.

* `ImplementsOffers`: the module implements `AnswerOffers`, which knows nothing of
  messages, rows and calls: an answer's statement is either executed without
  being offered, or offered, accepted and only then executed, and an offer taken
  back is not renewed.  The mapping takes the offer from the two flags of the
  message (`OfferOf`).

Runs: `chat_statement` has two answers and three concurrent calls with stopped
processes; two answers are one more than any action touches, and three calls
are two that compete for an answer beside one that is still writing it.
`chat_statement_once` needs one answer, one call and no stopped process.
Deadlock is not checked: when all answers have been given and the conversation is deleted,
nothing is left to do.

## 6. Accounts, codes and models (`MCAccounts`)

`MCAccounts` puts three components beside each other that share no state.
`scene` names the one a behaviour follows; the others stay as they are at the
start.  So one run checks the sum of their state spaces and not the product, and
every invariant is checked in every behaviour of its own component.  Slots of
different components have the same names, which makes them interchangeable all
at once.

### `AccountSessions`

One ordinary user's account (administrators skip the counters, and accounts
share nothing): `standing` is `user_account.status`, `failures` the failure
counter in Redis, `token` the whitelist of tokens, `open` the login records
without a logout time, and `request` the requests being served.

| Actions | Code |
|---|---|
| `LoginRead` to `LoginToken`, `LoginRefused` | `service_login_with_record` and its endpoints: count a wrong password, mark the account, reset the counter, find and close the old record, add a new one, look at the addresses used, save the token |
| `CheckActive`, `CheckDecoded` | an authenticated call over a limit, through `get_current_active_user` or, in front of the blacklist pages, `get_current_user`, which does not look at the whitelist |
| `Logout`, `LogoutFind`, `LogoutClose`, `LogoutKeepsToken` | `service_logout` |
| `AdminRead`, `AdminWrite`, `AdminReset`, `AdminSweep` | ban, unban and the status call |
| `JwtExpires`, `TokenExpires`, `FailuresExpire` | expiry |
| `RequestAborts`, `RedisFails` | a call that ends half-way; an error that is logged |

A database session hands out the object it loaded first, so a request that reads
the account again gets the status of its first read: `seen` changes only where
the request writes or refreshes the object.  How many addresses a login window
holds, and whether a call is over the frequency limit, is up to the environment.
The Redis key `user_online` is left out.

* `BanEndsSessions`: after a ban no token is in the whitelist but those of logins
  that had read the account before the ban.
* `FailuresGoAway`: the failure counter has an expiry, is about to get one, or
  the request that created it failed there.
* `FailuresMark`: an account whose failures have reached the limit is not normal,
  but for a stale read, a failure, or a reset that is on its way.
* `OneOpenRecord`: the login history has one open record at most unless two
  logins overlapped.

Bounds: two requests, which give every pair of login, logout, check and
administrator; a limit of two, the smallest with failures below it (the code has
three); one failure.

### `EmailCodes`

Password reset codes are stored and then mailed, verification codes mailed and
then stored; both may be replaced, used, taken back or expire in between.
`stored` is Redis by kind and address, `tries` the rate counter of reset mails,
`owner` the unique column `user_account.email`.

* `OneUsePerCode`: a reset code changes the password once, unless two requests
  compared it before one had deleted it.
* `LastMailedIsStored`: the code of the last mail is the one that is accepted,
  unless something on record (expiry, use, an overlapping request, a failure)
  says otherwise.
* `RateKeysGoAway`: a rate counter expires, or its EXPIRE is on its way or was
  lost with its request.

Bounds: two addresses and one account, so an address is taken, free, or changed
for the other; two codes, so that one replaces another; one mail per window, so
that the second is refused; two forms at a time and one trouble.  The limit per
client address is a refusal that may happen at any call.

### `ModelChoice`

The list of models, the oldest row and the model the conversation remembers are
three reads, and the choice is stored with the question.  `FALLBACK_MODEL_REGISTRY`
is reduced to `DEFAULT_MODEL`.  `LongNames` fit `model_name` and not the shorter
`current_model`; storing one fails.

* `TargetIsListed`: a question goes to a model of the list it read.
* `RemembersTarget`: the conversation remembers the model its question went to,
  unless the reads were overtaken (`crossed`).

Bounds: two rows out of three names, one of them the built-in one and one too
long; two questions.

`RedisCounter` is the pattern INCR then EXPIRE, used by the first two.

## 7. Project data (`MCProjectData`)

`MCProjectData` sets eight components side by side in the same way.  Deadlock is
not checked: ids and files are used up, and a sort ends.

| Module | State | Actions |
|---|---|---|
| `ReadThroughCache` | one entry of any of the five kinds, the fill lock, readers with the copy they hold, writers with the steps they have left | a miss and the read of the rows for each kind of entry (`MissGuarded`, `FetchAnnouncements`, ...), `Lock`, `LookAgain`, `Store`, `Release`; `Commit`, `Scan`, and the deletion of each kind; expiry of entry and lock; failed reads, stores and deletions |
| `KnowledgeIndex` | terms of a project, their vectors, the tasks on their way | check and create, import, update, delete, a foreign batch; a task ends or is lost |
| `SchemaFragments` | the vectors of the deployed script by table | `DeployScript`, `StoreFragment`, `IndexerFails` |
| `UserEngines` | accounts by host, grants, the dictionary of engines, PostgreSQL's lock | the steps of `ensure_user_and_engine` on each server (`AskMysql`, `CreateHost`, `GrantHost`, ...; `AskPostgres`, `CreateRole`, `GrantNewRole`, ...), a failed question, which counts as a no, and a failed command; use, `RebuildPostgres`, `Restart` |
| `DdlSort` | the statements with their form, indegrees, queue and result of the sort | `Place`, `Conclude` |
| `ChatTables` | the tables found, the names to look up, the list shown | `SearchTables`, `ExpandName`, `BuildTables` |
| `ChatContext` | messages and their vectors, terms and theirs, requests | `process_chat` up to the saved reply; index tasks; deletions |
| `SqliteFiles` | the files made, the one at the path, idle connections | a deployment removes, opens and fills a file; a statement makes sure of file and engine and runs |

Things to know:

* An entry of the cache, a copy, a vector or a fragment is "fresh" or "stale":
  the properties tell no more apart.  Details, lists and profiles are filled
  under the lock of `get_or_set`, which expires and which anyone releases;
  announcements are filled without one.
* Tasks carry what was committed when they were started, and end in any order.
* A MySQL account exists once per host and its calls run side by side; the
  PostgreSQL calls hold a lock.  A PostgreSQL database created again has lost the
  grants on its tables.
* A statement of `DdlSort` has the entity it creates, those it names, and a form.
  `Created` and `Depends` are what `sort_ddl_by_dependency` finds of that:
  sqlglot wraps a table that has a list of columns in a `Schema`, so that the
  function finds neither the table nor its foreign keys; of a table made from a
  query it finds the table alone; of any other statement (a view, a change of a
  table) both.  An index, and a foreign key that a change adds, are lost too and
  are not among the names.  `Needs` and `Duplicate` are what the algorithm
  works with; `Requires` and `CreatedTwice`, what the properties speak of, are
  about the statements and say which of them are in sight.
* `SearchWidth` is `MaxTables`, as in the code, where both are ten.
* Each conversation of `ChatContext` stands for a project of its own.  The limit
  of twenty recent messages is larger than the bound on messages; a question that
  is a cancellation is replied to without the model, which makes no difference here.
* Removing an open file leaves it to its connections, as on Linux.  Opening a
  connection creates the file.

Properties:

* `StaleHasACause`: an entry older than its rows is about to be deleted by a
  writer, was stored from an overtaken copy, or its deletion failed or is not
  done at all (administrators).  `OneFill`: one reader at a time fills a guarded
  entry, unless its lock lapsed.
* `VectorsFollowRows`: with no task under way a row's vector is what the row
  says, unless tasks crossed or were lost, or the row was imported or named by
  another project's batch.  `TermsUnique`: no term twice, unless the checks of
  two requests overlapped or one request changed a row to a term that is there,
  which is not checked.
* `FragmentsFollowScript`: each deployed table has its current fragment, unless
  two tasks had it to store or one failed.
* `EngineIsReady`: an engine logs in to an account that exists and has its
  privileges, unless the database was created again.  `NoEngineLost`: PostgreSQL
  engines are not replaced.  `AccountsComplete`: all hosts have the account or
  none, unless a creation stopped half-way.
* `OrderIsFirst`: the result is the first order, by the script, in which no
  statement precedes one it requires.  `RefusedRightly`: a script is refused
  exactly when two statements create one entity or some require each other
  (defined without the algorithm).  Both speak of the statements in sight, which
  a table with a list of columns is not: the docstring promises them of every
  table, and the code does not keep that (section 9).
* `EachTableOnce`, `ReferencesIncluded`: no table is shown twice and those
  referred to are there, unless they were cut off or not found.
* `ContextIsOwn`: a question sees earlier questions of its own conversation and
  terms of its own project only.
* `FileHoldsScript`: after a deployment that met no other one the file holds the
  tables of its script, whatever statements ran beside it.

Bounds: two readers and two writers of one entry; two terms, two rows, two
authors and two tasks; three tables and two indexers; three callers of an engine
and two failures (a refused command and a restart); every script of
three statements of every form over three names (a chain, a fork, a cycle of two
or three; of the names that are not found in a statement, one at most);
three tables in two spellings; two conversations, two requests and three
messages; two files, two deployments and two statements.  Each gives every pair
of competing steps, and the third caller one that comes to what the two left.

`chat_tables_references` is `ChatTables` alone with lists of two tables.

## 8. Proofs

`TLAPS` proves the following for every value of the constants, from the named
assumptions of the modules.  Beside the types of bounds and the names that stand
for "none" there are three of substance: `FailureLimitAssumption` (more than one
failure is allowed; the code has three), `ModelsAssumption` (the built-in
model's name fits the column that remembers it) and `TableNamesAssumption` (a
script names finitely many tables, so that those on the list can be counted).

* `ProjectLifecycleProofs`
  * `TypeCorrect`: `TypeOK` with `SlotsOK`.  `SlotsOK` says that a slot holds a
    call or a task, never both, and that either belongs to a project that exists;
    without it a task of kind "none" could be started, or a row be written that
    is not there.
  * `StallIsReported`: `NoSilentStall`.  It needs `SkippedStageIsPast`: a writer
    that will skip the stage because it read the same one is only in the middle
    of its work while the stage is not one that somebody else must end.  Each
    step of slot `c` is shown to leave every other slot as it was and to carry
    over what slot `c` covered (`Covered`, `Carried`).
  * `DdlBehindStatus`: `StatusHasDdl`, by `WritersHaveDdl`: whoever is going to
    write a status that speaks of a DDL is holding one.
  * `CompletionIsTrue`: `CompletedIsDeployed`, by `DeploymentAlone`: how far the
    only deployment of a project has come, and what is in the database then.  It
    is about what the deployer takes of a script.  `WholeScriptDeployed` follows:
    that is all of it unless MySQL leaves something out.
    Steps are either `Quiet` (they concern no deployment) or `Beside` (one
    deployment, one project).
* `ProjectQuotaProofs`: `TypeCorrect`, `CounterInRange` and `DeletionByOwner`
  from the inductive invariant `IInv`.  A call about to raise the counter holds a
  value below some quota of its user, one about to lower it a positive value; a
  token names the owner; a deletion was asked for by the owner.

  `AccountsExact` (`AccountingExact`) adds `OpsOK`, which steps each operation
  has, and `BooksExact` for each user who is not disturbed: the user has one
  changing call at most, and the step this call is at says by how much the
  counter and the number of live projects differ, and that what the call read of
  either is still so.  The sets of calls that are counted then have no element or
  one, and `Live` grows and shrinks by one project (`OneProject`): no induction
  is needed.
* `ChatStatementProofs`: `TypeCorrect`, `OfferedAsAccepted`, `AskedBeforeRun`
  and `ClosedStays` (an action property) from the inductive invariant `IInv`.
  `AskedBeforeRun` says of the effects of statements as much as the lists are
  complete, which they are not.  `RunsOK` is its property by kinds; `RowsOK` ties
  the two rows of an answer together; `CallsOK` says what a call may still rely on
  of what it read; `WritersApart`, that an answer being
  written belongs to one call, is what makes its second commit find the row as
  the first left it, but for a cancellation or a removal.

  `OffersKept` is the refinement: every step maps to a step of `AnswerOffers` or
  to a stutter.  It needs that a statement is executed by a confirmation only
  after its offer was accepted (`AskedOK`), and by the chat itself only while the
  answer has no message.
* `ReadThroughCacheProofs`: `TypeCorrect`, `FillsAlone` and `StaleExplained`.
  `FillersHold` says that a reader filling a guarded entry holds its lock as long
  as nothing lapsed; `WritersOK`, that what a writer has left is a rest of its
  kind's steps; `StaleIsKnown` strengthens the property by what makes a deletion
  certain: a list is deleted only if the scan is still ahead or found it.
* `AccountSessionsProofs`: `TypeCorrect`, `BanIsComplete`, `FailuresExpireSome`,
  `FailuresAreMarked` and `OneRecordOpen`.  Every step moves one request in one
  of the ways `LoginGoes` and `OthersGo` list.  `LateLoginsOnly` strengthens the
  ban: not only the tokens, also the logins that are going to save one had read
  the account before it.  `OneAtItsRecord` strengthens the history: without an
  overlap one login at most is at its record, and what it found was the only one
  open.  `WritersAreAdmins`: whoever writes a status writes one of the three.
* `AccountsProofs`
  * `CodesUsedOnce`, `LastMailCounts` and `RateKeysExpire`, about `EmailCodes`,
    from the inductive `EmailIInv`.  For the first, `StoredOnce` (a reset code is
    stored under one address, and not once it was used) and `OneResets` (a code
    that is not in `raced` has one request at most that compared it, and only
    before it is used).  For the second, `MailsWatched`: the code a request is
    going to mail, store or remove is the one at its address, or whatever
    overtook the request made it `void`; and `MailsFollow`, which names the
    request that a mailed code is still waiting for.  Every step moves one
    request (`FormStep`) or lets one key expire (`KeyStep`).
  * `TargetInList` and `TargetRemembered`, about `ModelChoice`.  `ListThere` (a
    question past its first read has a list that is not empty), `KeyListed` (what
    an uncrossed question came to is in that list) and `KeyRemembered` (the
    conversation remembers it once the question is stored) make `ChoiceIInv`
    inductive.
  * `AccountsAreTheirParts`: a behaviour of `AccountsSpec` is one of each
    component's specification, so that every theorem about a component holds of
    what the run `accounts` explores; `AccountsTypeCorrect` follows from it.
* `RetrievalProofs`
  * `VectorsAreRows` and `TermsAreUnique`.  `RowIndexed` says that a row which is
    not adrift has one task at most, and that this task holds what the row says;
    `AuthorsApart`, that what an author is going to insert is not there and no
    other author's, or one of the `twins`: terms that two authors checked at the
    same time, and terms that one change repeated.
  * `FragmentsAreFresh`: `TableIndexed` says the same of a table and its one
    indexer.
  * `TablesOnce` and `TablesReferred`.  `LookedUpTwice`: what was found of a table
    and what is left to look up of its two spellings are two at most; `SlotsLeft`:
    the tables shown and the names to look up fit in the list together;
    `ReferencesAccounted`: a name referred to is shown, missed, or still to be
    looked up.
  * `OwnContext`: `OwnFindings` says of every step of a request which of its
    findings it may rely on, whatever is deleted meanwhile.
* `ProjectDataProofs`
  * `EngineReady`, `OneEngine` and `AccountsAreComplete`.  `CallerKnows` is what a
    call has made sure of when it comes to a step, and `KnowledgeLasts` that no
    other call undoes it; `LockHeld`: a PostgreSQL call past the lock holds it, and
    past its second look there is no engine; `AccountsInOrder`: the account of the
    first host comes first.
  * `DeployedFileHoldsScript`: `DeploymentOwnsFile`, how much of its script the
    only deployment has put into the file at the path.
  * `SortedInFirstOrder` and `RefusedForAReason`, about the statements in sight of
    the function.  `FoundIsInSight`: what it finds is what these are.  `InOrderIs` and `ArrangedIs`
    establish that the sorted list the model chooses exists (each element goes to
    the place that counts those up to it) and is what a sort gives.
    `SortProgress` ties the counts to what is awaited (`Awaits`) and the queue to
    the statements that await nothing; `QueueIsNext` identifies these with the
    candidates for the next place.  `NoneStuckPlaced` takes the first of a group
    (a minimum of a set of numbers, in place of an induction).
  * `DataIsItsParts` and `DataTypeCorrect`, as for the accounts.

The strengthened invariants were model-checked before they were proved.

Only model-checked: the liveness properties, and the claims of the code that do
not hold (section 9).  Every safety invariant and action property of a passing
run is a theorem.

## 9. What the code does not keep

| Run | What happens |
|---|---|
| `project_failed_generation` | `generate_schema_task` gets an empty answer and writes `schema_generation_failed`, a status the table refuses: the project stays in `generating_schema` with no task.  `ddl_generation_failed` has the same fate. |
| `project_deleted` | a DDL task or a deployment that ends after a deletion writes its status over `deleted`; the update of the project information is the only operation that refuses. |
| `project_quota_limit` | two creations pass one quota check. |
| `project_quota_counter` | a creation that stops after its insertion is never counted. |
| `chat_statement_once` | the outcome of a confirmed statement is written with a status the table refuses: the statement has run, nothing says so, and it can be confirmed again. |
| `chat_tables_references` | the search fills the list, and a table that a shown one refers to is left out although the code says that referenced tables are always included. |

Seen while modelling, each part of a model but not of a violation run of its
own (`PROJECT.json` quotes the lines): a mark by a login that read the account
before its ban turns `banned` into `suspended`; `reset_frequency` is never
awaited; PostgreSQL's connections are not ended before DROP DATABASE; a MySQL
account just created is not remembered; failed statements are indexed for the
model and filtered out of its prompt; a failed search gives an empty context and
not the fallback.

Four promises hold of part of what they speak of; the properties and theorems
name the part, and the findings quote the promise:

* Deployment: a completed MySQL project lacks the statements with `USE ` in a
  name, which `deploy_mysql_ddl` leaves out without an error.
  `CompletedIsDeployed` is about what the deployer takes, `WholeScriptDeployed`
  about when that is everything.
* Confirmation: the two lists of types name neither REPLACE and MERGE nor
  CREATE OR REPLACE; such a statement is executed at once and committed, a
  change though it is.  (A type that is not recognised, as behind a leading
  comment, is executed as a query, behind the rules for queries and without a
  commit; MySQL keeps a view created so.)  `ListedRunOnlyAsked` is about the
  listed types.
* Order of a script: a table with a list of columns stays in front of a table
  that its foreign keys refer to.  `OrderIsFirst` is about the statements in
  sight.
* Refusal of a script: one that creates such a table twice, or whose tables
  refer to each other, is sorted.  `RefusedRightly` is about the same.

## 10. Not modelled

* Prompts and AI clients: an answer is a nondeterministic choice.
* Dialect converters and report formatting: text rewriting without state.
  `query_result` rows are stored together with a status that the table refuses,
  so no report has one to read.
* The front end, which polls the stages described here, and the transport of
  mails (a mail arrives or is refused).
* Reads (lists, details, histories) but for the cache, updates of a project's
  name and description, and the creation and renaming of conversations: they
  touch nothing the properties speak of.
* The contents of tokens, the frequency counter and the record of violations;
  entries of the hash cache; of the text of a statement, anything but the forms
  and kinds above.
