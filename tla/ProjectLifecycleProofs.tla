----------------------- MODULE ProjectLifecycleProofs -----------------------
(***************************************************************************)
(* Theorems about ProjectLifecycle for every set of projects and calls,    *)
(* every pool size and any number of crashes.                              *)
(***************************************************************************)
EXTENDS ProjectLifecycle, TLAPS

-----------------------------------------------------------------------------
(***************************************************************************)
(* The inductive invariants.                                               *)
(***************************************************************************)

\* A slot holds a call or the task of that call, never both, and both belong
\* to a project whose row exists.
SlotOK(c) ==
    /\ call[c].op # "none" =>
          /\ task[c] = NoTask
          /\ call[c].project \in Projects
          /\ Exists(call[c].project)
    /\ task[c].at # "idle" =>
          /\ task[c].kind # "none"
          /\ task[c].project \in Projects
          /\ Exists(task[c].project)
    /\ task[c].at \in {"schema", "save"} => task[c].kind = "schema"
    /\ task[c].at = "ddl" => task[c].kind = "ddl"

SlotsOK == \A c \in Calls : SlotOK(c)

\* save_schema skips the stage only when the row it read was past generation.
SkippedStageIsPast ==
    \A c \in Calls :
        task[c].at = "save" /\ task[c].seenStage = "schema_generated" =>
            stage[task[c].project] # "generating_schema"

-----------------------------------------------------------------------------
(***************************************************************************)
(* Type correctness, together with SlotsOK: a task whose kind is "none"    *)
(* could not be started without leaving Task.                              *)
(***************************************************************************)

-----------------------------------------------------------------------------
(***************************************************************************)
(* What the helpers of the actions do to the calls and the tasks.          *)
(***************************************************************************)

LEMMA GoToEffect ==
    ASSUME TypeOK, NEW c \in Calls, NEW step \in CallSteps, GoTo(c, step)
    PROVE  /\ call' \in [Calls -> Call]
           /\ \A d \in Calls \ {c} : call'[d] = call[d]
           /\ call'[c].at = step
           /\ call'[c].op = call[c].op
           /\ call'[c].project = call[c].project
           /\ call'[c].text = call[c].text
           /\ call'[c].script = call[c].script
  BY DEF TypeOK, GoTo, Call

LEMMA ReturnEffect ==
    ASSUME TypeOK, NEW c \in Calls, Return(c)
    PROVE  /\ call' \in [Calls -> Call]
           /\ \A d \in Calls \ {c} : call'[d] = call[d]
           /\ call'[c] = Idle
  BY DEF TypeOK, Return, Call, CallSteps, Idle

LEMMA DispatchEffect ==
    ASSUME TypeOK, NEW c \in Calls, NEW kind \in {"schema", "ddl", "er"},
           NEW text \in AnyText \cup {None}, NEW drawEr \in BOOLEAN,
           Dispatch(c, kind, text, drawEr)
    PROVE  /\ call' \in [Calls -> Call]
           /\ task' \in [Calls -> Task]
           /\ \A d \in Calls \ {c} : call'[d] = call[d] /\ task'[d] = task[d]
           /\ call'[c] = Idle
           /\ task'[c].kind = kind
           /\ task'[c].at = "queued"
           /\ task'[c].project = call[c].project
           /\ task'[c].text = text
  BY ReturnEffect DEF TypeOK, Dispatch, Call, Task, TaskSteps, NoTask

LEMMA TaskGoToEffect ==
    ASSUME TypeOK, NEW c \in Calls, NEW step \in TaskSteps,
           TaskGoTo(c, step) \/ Forget(c, step)
    PROVE  /\ task' \in [Calls -> Task]
           /\ \A d \in Calls \ {c} : task'[d] = task[d]
           /\ task'[c].at = step
           /\ task'[c].kind = task[c].kind
           /\ task'[c].project = task[c].project
           /\ task'[c].text = task[c].text
  <1>1. CASE TaskGoTo(c, step)
    BY <1>1 DEF TypeOK, TaskGoTo, Task
  <1>2. CASE Forget(c, step)
    BY <1>2 DEF TypeOK, Forget, Task
  <1> QED
    BY <1>1, <1>2

LEMMA AckEffect ==
    ASSUME TypeOK, NEW c \in Calls, Ack(c)
    PROVE  /\ task' \in [Calls -> Task]
           /\ \A d \in Calls \ {c} : task'[d] = task[d]
           /\ task'[c] = NoTask
  BY DEF TypeOK, Ack, Task, TaskSteps, NoTask

LEMMA DrawErOrAckEffect ==
    ASSUME TypeOK, NEW c \in Calls, DrawErOrAck(c)
    PROVE  /\ task' \in [Calls -> Task]
           /\ \A d \in Calls \ {c} : task'[d] = task[d]
           /\ \/ task'[c] = NoTask
              \/ /\ task'[c].at = "er"
                 /\ task'[c].kind = task[c].kind
                 /\ task'[c].project = task[c].project
                 /\ task'[c].text = task[c].text
  BY TaskGoToEffect, AckEffect DEF DrawErOrAck, TaskSteps

LEMMA ExecuteEffect ==
    ASSUME TypeOK, NEW c \in Calls, call[c].project \in Projects,
           NEW part \in Parts, Execute(c, part)
    PROVE  catalog' \in [Projects -> Catalog]
  <1>1. catalog[call[c].project].ran \cup {[script |-> call[c].script, part |-> part]}
            \in SUBSET [script : AnyDdl \cup {None}, part : Parts]
    BY DEF TypeOK, Catalog, Call
  <1> QED
    BY <1>1 DEF TypeOK, Execute, Catalog

LEMMA TakenIsPart ==
    \A p, script : Taken(p, script) \in Parts /\ "some" \in Parts
  BY DEF Taken, Parts

LEMMA SchemaReadEffect ==
    ASSUME TypeOK, NEW c \in Calls, task[c].project \in Projects, SchemaRead(c)
    PROVE  /\ task' \in [Calls -> Task]
           /\ \A d \in Calls \ {c} : task'[d] = task[d]
           /\ task'[c].at = "save"
           /\ task'[c].kind = task[c].kind
           /\ task'[c].project = task[c].project
           /\ task'[c].seenStage = stage[task[c].project]
  BY DEF TypeOK, SchemaRead, Task, TaskSteps, AnyText
-----------------------------------------------------------------------------
(***************************************************************************)
(* Type correctness, together with SlotsOK: a task whose kind is "none"    *)
(* could not be started without leaving Task.                              *)
(***************************************************************************)

LEMMA EmptyIsCatalog == EmptyDatabase \in Catalog
  BY DEF EmptyDatabase, Catalog

LEMMA TypeInit == Init => TypeOK /\ SlotsOK
  BY NoneAssumption, MaxFaultsAssumption
  DEF Init, TypeOK, SlotsOK, SlotOK, NoDatabase, Catalog, Idle, Call, CallSteps,
      NoTask, Task, TaskSteps

\* A step that touches one slot and deletes no row only has that slot to check.
LEMMA SlotsFrame ==
    ASSUME SlotsOK, NEW c \in Calls, SlotOK(c)',
           \A d \in Calls \ {c} : call'[d] = call[d] /\ task'[d] = task[d],
           \A p \in Projects : Exists(p) => Exists(p)'
    PROVE  SlotsOK'
  BY DEF SlotsOK, SlotOK, Exists

LEMMA DispatchKeepsTypes ==
    ASSUME TypeOK, SlotsOK, NEW c \in Calls, NEW kind \in {"schema", "ddl", "er"},
           NEW text \in AnyText \cup {None}, NEW drawEr \in BOOLEAN,
           call[c].op # "none", Dispatch(c, kind, text, drawEr),
           UNCHANGED <<row, catalog, hist>>
    PROVE  TypeOK' /\ SlotsOK'
  <1> USE DispatchEffect DEF row, hist
  <1>1. TypeOK'
    BY DEF TypeOK
  <1>2. SlotOK(c)'
    BY DEF SlotsOK, SlotOK, Idle, Exists
  <1>3. SlotsOK'
    BY <1>2, SlotsFrame DEF Exists
  <1> QED
    BY <1>1, <1>3

LEMMA TypeUserAction ==
    ASSUME TypeOK, SlotsOK, NEW c \in Calls, NEW p \in Projects, UserAction(c, p)
    PROVE  TypeOK' /\ SlotsOK'
  <1> USE NoneAssumption DEF TypeOK, SlotsOK, SlotOK, row, hist, Free, Exists, Idle,
          NoTask, Call, CallSteps, Stages, Transient, AllowedStatuses
  <1>1. CASE CreateProject(c, p)
    BY <1>1 DEF CreateProject, Arrive
  <1>2. CASE DeleteRead(c, p)
    BY <1>2 DEF DeleteRead, Arrive
  <1>3. ASSUME NEW text \in AnyText, GenerateRead(c, p, text)
        PROVE  TypeOK' /\ SlotsOK'
    BY <1>3 DEF GenerateRead
  <1>4. ASSUME NEW text \in AnyText, RegenerateSave(c, p, text)
        PROVE  TypeOK' /\ SlotsOK'
    BY <1>4 DEF RegenerateSave
  <1>5. ASSUME NEW confirmed \in {EditedDdl, None}, NEW text \in Texts \cup {None},
               DeployRead(c, p, confirmed, text)
        PROVE  TypeOK' /\ SlotsOK'
    BY <1>5 DEF DeployRead, AnyText, AnyDdl
  <1> QED
    BY <1>1, <1>2, <1>3, <1>4, <1>5 DEF UserAction

LEMMA TypeHandlerStep ==
    ASSUME TypeOK, SlotsOK, NEW c \in Calls, HandlerStep(c)
    PROVE  TypeOK' /\ SlotsOK'
  <1> USE NoneAssumption DEF TypeOK, row, hist, At, Exists, Idle, NoTask, Call,
          CallSteps, Stages, Transient, AllowedStatuses
  <1>0. SlotOK(c) /\ call[c] \in Call
    BY DEF SlotsOK
  <1> USE <1>0 DEF SlotOK
  <1>1. CASE CreateDispatch(c)
    BY <1>1, DispatchKeepsTypes DEF CreateDispatch
  <1>2. CASE GenerateSave(c)
    <2>1. TypeOK'
      BY <1>2, GoToEffect DEF GenerateSave, Phases
    <2>2. SlotsOK'
      BY <1>2, SlotsFrame, GoToEffect DEF GenerateSave, Phases
    <2> QED
      BY <2>1, <2>2
  <1>3. CASE GenerateDispatch(c)
    BY <1>3, DispatchKeepsTypes DEF GenerateDispatch
  <1>4. CASE RegenerateDispatch(c)
    BY <1>4, DispatchKeepsTypes DEF RegenerateDispatch
  <1>5. CASE DeleteMark(c)
    <2>1. TypeOK'
      BY <1>5, ReturnEffect DEF DeleteMark
    <2>2. SlotsOK'
      BY <1>5, SlotsFrame, ReturnEffect DEF DeleteMark
    <2> QED
      BY <2>1, <2>2
  <1>6. CASE DeployMark(c)
    <2>1. TypeOK'
      BY <1>6, GoToEffect DEF DeployMark, Phases
    <2>2. SlotsOK'
      BY <1>6, SlotsFrame, GoToEffect DEF DeployMark, Phases
    <2> QED
      BY <2>1, <2>2
  <1>7. CASE DeployDrop(c)
    <2>1. TypeOK'
      BY <1>7, GoToEffect DEF DeployDrop, NoDatabase, Catalog
    <2>2. SlotsOK'
      BY <1>7, SlotsFrame, GoToEffect DEF DeployDrop, NoDatabase, Catalog
    <2> QED
      BY <2>1, <2>2
  <1>8. CASE DeployBuild(c)
    <2>1. TypeOK'
      BY <1>8, GoToEffect, EmptyIsCatalog DEF DeployBuild
    <2>2. SlotsOK'
      BY <1>8, SlotsFrame, GoToEffect, EmptyIsCatalog DEF DeployBuild
    <2> QED
      BY <2>1, <2>2
  <1>9. CASE DeployRun(c)
    <2>1. TypeOK'
      BY <1>9, GoToEffect, ExecuteEffect, TakenIsPart DEF DeployRun
    <2>2. SlotsOK'
      BY <1>9, SlotsFrame, GoToEffect, ExecuteEffect, TakenIsPart DEF DeployRun
    <2> QED
      BY <2>1, <2>2
  <1>10. CASE DeployPartly(c)
    <2>1. TypeOK'
      BY <1>10, GoToEffect, ExecuteEffect, TakenIsPart DEF DeployPartly
    <2>2. SlotsOK'
      BY <1>10, SlotsFrame, GoToEffect, ExecuteEffect, TakenIsPart DEF DeployPartly
    <2> QED
      BY <2>1, <2>2
  <1>11. CASE DeployRecord(c)
    <2>1. TypeOK'
      BY <1>11, GoToEffect DEF DeployRecord
    <2>2. SlotsOK'
      BY <1>11, SlotsFrame, GoToEffect DEF DeployRecord
    <2> QED
      BY <2>1, <2>2
  <1>12. CASE DeployInstance(c)
    <2>1. TypeOK'
      BY <1>12, ReturnEffect DEF DeployInstance
    <2>2. SlotsOK'
      BY <1>12, SlotsFrame, ReturnEffect DEF DeployInstance
    <2> QED
      BY <2>1, <2>2
  <1>13. CASE DeployFail(c)
    <2>1. TypeOK'
      BY <1>13, ReturnEffect DEF DeployFail
    <2>2. SlotsOK'
      BY <1>13, SlotsFrame, ReturnEffect DEF DeployFail
    <2> QED
      BY <2>1, <2>2
  <1>14. CASE DeployRaises(c)
    <2>1. TypeOK'
      BY <1>14, GoToEffect DEF DeployRaises
    <2>2. SlotsOK'
      BY <1>14, SlotsFrame, GoToEffect DEF DeployRaises
    <2> QED
      BY <2>1, <2>2
  <1> QED
    BY <1>1, <1>2, <1>3, <1>4, <1>5, <1>6, <1>7, <1>8, <1>9, <1>10, <1>11,
       <1>12, <1>13, <1>14 DEF HandlerStep

LEMMA TypeTaskStep ==
    ASSUME TypeOK, SlotsOK, NEW c \in Calls, TaskStart(c) \/ TaskStep(c)
    PROVE  TypeOK' /\ SlotsOK'
  <1> USE NoneAssumption DEF TypeOK, row, hist, Exists, NoTask, Task, TaskSteps,
          Stages, Transient, AllowedStatuses
  <1>0. SlotOK(c) /\ task[c] \in Task
    BY DEF SlotsOK
  <1> USE <1>0 DEF SlotOK
  <1>1. CASE TaskStart(c)
    <2>1. TypeOK'
      BY <1>1, TaskGoToEffect DEF TaskStart
    <2>2. SlotsOK'
      BY <1>1, SlotsFrame, TaskGoToEffect DEF TaskStart
    <2> QED
      BY <2>1, <2>2
  <1>2. CASE SchemaRead(c)
    <2>1. TypeOK'
      BY <1>2, SchemaReadEffect DEF SchemaRead
    <2>2. SlotsOK'
      <3>1. task'[c].at = "save" /\ task'[c].kind = "schema"
                               /\ task'[c].project = task[c].project
        BY <1>2, SchemaReadEffect DEF SchemaRead
      <3>2. stage' = stage /\ call' = call
        BY <1>2 DEF SchemaRead
      <3>3. SlotOK(c)'
        BY <1>2, <3>1, <3>2 DEF SchemaRead
      <3>4. \A d \in Calls \ {c} : task'[d] = task[d]
        BY <1>2, SchemaReadEffect DEF SchemaRead
      <3> QED
        BY <3>2, <3>3, <3>4, SlotsFrame
    <2> QED
      BY <2>1, <2>2
  <1>3. CASE SchemaSave(c)
    <2>1. TypeOK'
      BY <1>3, TaskGoToEffect DEF SchemaSave, AnyText
    <2>2. SlotsOK'
      BY <1>3, SlotsFrame, TaskGoToEffect DEF SchemaSave, AnyText
    <2> QED
      BY <2>1, <2>2
  <1>4. CASE SchemaEmpty(c)
    <2>1. TypeOK'
      BY <1>4, AckEffect DEF SchemaEmpty, UpdateStageAndStatus, Report, Phases
    <2>2. SlotsOK'
      BY <1>4, SlotsFrame, AckEffect DEF SchemaEmpty, UpdateStageAndStatus, Report, Phases
    <2> QED
      BY <2>1, <2>2
  <1>5. CASE SchemaRaises(c)
    <2>1. TypeOK'
      BY <1>5, AckEffect DEF SchemaRaises, Report, Phases
    <2>2. SlotsOK'
      BY <1>5, SlotsFrame, AckEffect DEF SchemaRaises, Report, Phases
    <2> QED
      BY <2>1, <2>2
  <1>6. CASE DdlSave(c)
    <2>1. TypeOK'
      BY <1>6, DrawErOrAckEffect DEF DdlSave, AnyDdl, UpdateStageAndStatus
    <2>2. SlotsOK'
      BY <1>6, SlotsFrame, DrawErOrAckEffect DEF DdlSave, AnyDdl, UpdateStageAndStatus
    <2> QED
      BY <2>1, <2>2
  <1>7. CASE DdlEmpty(c)
    <2>1. TypeOK'
      BY <1>7, DrawErOrAckEffect DEF DdlEmpty, UpdateStageAndStatus, Report, Phases
    <2>2. SlotsOK'
      <3>1. stage' = stage /\ call' = call
        BY <1>7 DEF DdlEmpty, UpdateStageAndStatus
      <3> QED
        BY <1>7, <3>1, SlotsFrame, DrawErOrAckEffect DEF DdlEmpty
    <2> QED
      BY <2>1, <2>2
  <1>8. CASE DdlRaises(c)
    <2>1. TypeOK'
      BY <1>8, AckEffect DEF DdlRaises, Report, Phases
    <2>2. SlotsOK'
      BY <1>8, SlotsFrame, AckEffect DEF DdlRaises, Report, Phases
    <2> QED
      BY <2>1, <2>2
  <1>9. CASE ErSave(c)
    <2>1. TypeOK'
      BY <1>9, AckEffect DEF ErSave
    <2>2. SlotsOK'
      BY <1>9, SlotsFrame, AckEffect DEF ErSave
    <2> QED
      BY <2>1, <2>2
  <1>10. CASE ErFails(c)
    <2>1. TypeOK'
      BY <1>10, AckEffect DEF ErFails
    <2>2. SlotsOK'
      BY <1>10, SlotsFrame, AckEffect DEF ErFails
    <2> QED
      BY <2>1, <2>2
  <1> QED
    BY <1>1, <1>2, <1>3, <1>4, <1>5, <1>6, <1>7, <1>8, <1>9, <1>10 DEF TaskStep

LEMMA TypeCrash ==
    ASSUME TypeOK, SlotsOK, NEW c \in Calls, Crash(c)
    PROVE  TypeOK' /\ SlotsOK'
  <1> USE NoneAssumption, MaxFaultsAssumption DEF TypeOK, row, hist, Exists, Idle, NoTask,
          Call, CallSteps, Task, TaskSteps
  <1>0. SlotOK(c) /\ call[c] \in Call /\ task[c] \in Task
    BY DEF SlotsOK
  <1> USE <1>0 DEF SlotOK
  <1>1. CASE WorkerCrash(c)
    <2>1. TypeOK'
      BY <1>1, TaskGoToEffect DEF WorkerCrash, Running, Fault
    <2>2. SlotsOK'
      BY <1>1, SlotsFrame, TaskGoToEffect DEF WorkerCrash, Running, Fault
    <2> QED
      BY <2>1, <2>2
  <1>2. CASE TaskKilled(c)
    <2>1. TypeOK'
      BY <1>2, AckEffect DEF TaskKilled, Running, Fault, Report, Phases
    <2>2. SlotsOK'
      BY <1>2, SlotsFrame, AckEffect DEF TaskKilled, Running, Fault, Report, Phases
    <2> QED
      BY <2>1, <2>2
  <1>3. CASE ApiCrash(c)
    <2>1. TypeOK'
      <3>1. incident' \in [Projects -> SUBSET Phases]
        BY <1>3 DEF ApiCrash, Report, Phases
      <3>2. faults' \in 0..MaxFaults
        BY <1>3 DEF ApiCrash, Fault
      <3> QED
        BY <1>3, <3>1, <3>2, ReturnEffect DEF ApiCrash
    <2>2. SlotsOK'
      BY <1>3, SlotsFrame, ReturnEffect DEF ApiCrash, Fault, Report, Phases
    <2> QED
      BY <2>1, <2>2
  <1> QED
    BY <1>1, <1>2, <1>3 DEF Crash

\* The types of the columns, of the calls and of the tasks hold in every
\* state, and a slot never serves a call and a task at the same time.
THEOREM TypeCorrect == Spec => [](TypeOK /\ SlotsOK)
  <1>1. TypeOK /\ SlotsOK /\ [Next]_vars => TypeOK' /\ SlotsOK'
    <2> SUFFICES ASSUME TypeOK, SlotsOK, [Next]_vars PROVE TypeOK' /\ SlotsOK'
      OBVIOUS
    <2>1. CASE UNCHANGED vars
      BY <2>1 DEF vars, TypeOK, SlotsOK, SlotOK, Exists
    <2>2. CASE Next
      BY <2>2, TypeUserAction, TypeHandlerStep, TypeTaskStep, TypeCrash DEF Next
    <2> QED
      BY <2>1, <2>2
  <1> QED
    BY TypeInit, <1>1, PTL DEF Spec

-----------------------------------------------------------------------------
(***************************************************************************)
(* No silent stall.  Covered(c, p) says that slot c alone accounts for the *)
(* stage of p; a step of slot c may only leave a stage uncovered by c when *)
(* it found it so, hence covered by another slot or by a failure.          *)
(***************************************************************************)

Covered(c, p) ==
    /\ stage[p] = "generating_schema" => OwnsSchema(c, p) \/ "schema" \in incident[p]
    /\ stage[p] = "generating_ddl" => OwnsDdl(c, p) \/ "ddl" \in incident[p]
    /\ stage[p] = "executing_ddl" => OwnsDeployment(c, p) \/ "deploy" \in incident[p]

Skips(c) == task[c].at = "save" /\ task[c].seenStage = "schema_generated"

\* What each step of slot c owes.
Carried(c) ==
    /\ \A d \in Calls \ {c} : call'[d] = call[d] /\ task'[d] = task[d]
    /\ \A p \in Projects :
          /\ Covered(c, p)' \/ (stage'[p] = stage[p] /\ ~Covered(c, p))
          /\ stage'[p] = "generating_schema" => stage[p] \in {None, "generating_schema"}
    /\ Skips(c)' => stage'[task'[c].project] # "generating_schema"

LEMMA CarriedIsEnough ==
    ASSUME TypeOK, SlotsOK, NoSilentStall, SkippedStageIsPast,
           NEW c \in Calls, Carried(c)
    PROVE  NoSilentStall' /\ SkippedStageIsPast'
  <1>1. SkippedStageIsPast'
    BY DEF Carried, SkippedStageIsPast, Skips, SlotsOK, SlotOK, Exists
  <1>2. NoSilentStall'
    <2> SUFFICES ASSUME NEW p \in Projects
                 PROVE  /\ stage'[p] = "generating_schema" =>
                              (\E d \in Calls : OwnsSchema(d, p)') \/ "schema" \in incident'[p]
                        /\ stage'[p] = "generating_ddl" =>
                              (\E d \in Calls : OwnsDdl(d, p)') \/ "ddl" \in incident'[p]
                        /\ stage'[p] = "executing_ddl" =>
                              (\E d \in Calls : OwnsDeployment(d, p)') \/ "deploy" \in incident'[p]
      BY DEF NoSilentStall
    <2>1. CASE Covered(c, p)'
      BY <2>1 DEF Covered
    <2>2. CASE stage'[p] = stage[p] /\ ~Covered(c, p)
      <3>1. CASE stage[p] = "generating_schema"
        <4>1. ~OwnsSchema(c, p) /\ "schema" \notin incident[p]
          BY <2>2, <3>1 DEF Covered
        <4>2. PICK d \in Calls : OwnsSchema(d, p)
          BY <3>1, <4>1 DEF NoSilentStall
        <4>3. d # c
          BY <4>1, <4>2
        <4>4. OwnsSchema(d, p)'
          BY <4>2, <4>3 DEF Carried, OwnsSchema, At
        <4> QED
          BY <2>2, <3>1, <4>4
      <3>2. CASE stage[p] = "generating_ddl"
        <4>1. ~OwnsDdl(c, p) /\ "ddl" \notin incident[p]
          BY <2>2, <3>2 DEF Covered
        <4>2. PICK d \in Calls : OwnsDdl(d, p)
          BY <3>2, <4>1 DEF NoSilentStall
        <4>3. d # c
          BY <4>1, <4>2
        <4>4. OwnsDdl(d, p)'
          BY <4>2, <4>3 DEF Carried, OwnsDdl, At
        <4> QED
          BY <2>2, <3>2, <4>4
      <3>3. CASE stage[p] = "executing_ddl"
        <4>1. ~OwnsDeployment(c, p) /\ "deploy" \notin incident[p]
          BY <2>2, <3>3 DEF Covered
        <4>2. PICK d \in Calls : OwnsDeployment(d, p)
          BY <3>3, <4>1 DEF NoSilentStall
        <4>3. d # c
          BY <4>1, <4>2
        <4>4. OwnsDeployment(d, p)'
          BY <4>2, <4>3 DEF Carried, OwnsDeployment, At, Deploying
        <4> QED
          BY <2>2, <3>3, <4>4
      <3> QED
        BY <2>2, <3>1, <3>2, <3>3
    <2> QED
      BY <2>1, <2>2 DEF Carried
  <1> QED
    BY <1>1, <1>2

LEMMA UserActionCarried ==
    ASSUME TypeOK, SlotsOK, NEW c \in Calls, NEW p \in Projects, UserAction(c, p)
    PROVE  Carried(c)
  <1>0. SlotOK(c) /\ call[c] \in Call /\ task[c] \in Task
    BY DEF SlotsOK, TypeOK
  <1> USE <1>0, NoneAssumption DEF TypeOK, row, hist, At, Exists, Free, Idle, NoTask, SlotOK,
          Carried, Covered, Skips, OwnsSchema, OwnsDdl, OwnsDeployment, Deploying, Call,
          CallSteps, Task, TaskSteps
  <1>1. CASE CreateProject(c, p)
    BY <1>1 DEF CreateProject, Arrive
  <1>2. CASE DeleteRead(c, p)
    BY <1>2 DEF DeleteRead, Arrive
  <1>3. CASE \E text \in AnyText : GenerateRead(c, p, text)
    BY <1>3 DEF GenerateRead
  <1>4. CASE \E text \in AnyText : RegenerateSave(c, p, text)
    BY <1>4 DEF RegenerateSave
  <1>5. CASE \E confirmed \in {EditedDdl, None}, text \in Texts \cup {None} :
                DeployRead(c, p, confirmed, text)
    BY <1>5 DEF DeployRead
  <1> QED
    BY <1>1, <1>2, <1>3, <1>4, <1>5 DEF UserAction

LEMMA HandlerStepCarried ==
    ASSUME TypeOK, SlotsOK, NEW c \in Calls, HandlerStep(c)
    PROVE  Carried(c)
  <1>0. SlotOK(c) /\ call[c] \in Call /\ task[c] \in Task
    BY DEF SlotsOK, TypeOK
  <1> USE <1>0, NoneAssumption DEF TypeOK, row, hist, At, Exists, Free, Idle, NoTask, SlotOK,
          Carried, Covered, Skips, OwnsSchema, OwnsDdl, OwnsDeployment, Deploying, Call,
          CallSteps, Task, TaskSteps
  <1>1. CASE CreateDispatch(c)
    <2>1. Dispatch(c, "schema", None, TRUE)
      BY <1>1 DEF CreateDispatch
    <2>2. /\ \A d \in Calls \ {c} : call'[d] = call[d] /\ task'[d] = task[d]
          /\ call'[c] = Idle
          /\ task'[c].kind = "schema"
          /\ task'[c].at = "queued"
          /\ task'[c].project = call[c].project
      BY <2>1, DispatchEffect
    <2> QED
      BY <1>1, <2>2 DEF CreateDispatch
  <1>2. CASE GenerateSave(c)
    BY <1>2, GoToEffect DEF GenerateSave
  <1>3. CASE GenerateDispatch(c)
    <2>1. Dispatch(c, "ddl", call[c].text, call[c].seenText # call[c].text)
      BY <1>3 DEF GenerateDispatch
    <2>2. /\ \A d \in Calls \ {c} : call'[d] = call[d] /\ task'[d] = task[d]
          /\ call'[c] = Idle
          /\ task'[c].kind = "ddl"
          /\ task'[c].at = "queued"
          /\ task'[c].project = call[c].project
      BY <2>1, DispatchEffect
    <2> QED
      BY <1>3, <2>2 DEF GenerateDispatch
  <1>4. CASE RegenerateDispatch(c)
    <2>1. Dispatch(c, "er", call[c].text, TRUE)
      BY <1>4 DEF RegenerateDispatch
    <2>2. /\ \A d \in Calls \ {c} : call'[d] = call[d] /\ task'[d] = task[d]
          /\ call'[c] = Idle
          /\ task'[c].kind = "er"
          /\ task'[c].at = "queued"
          /\ task'[c].project = call[c].project
      BY <2>1, DispatchEffect
    <2> QED
      BY <1>4, <2>2 DEF RegenerateDispatch
  <1>5. CASE DeleteMark(c)
    BY <1>5, ReturnEffect DEF DeleteMark
  <1>6. CASE DeployMark(c)
    BY <1>6, GoToEffect DEF DeployMark
  <1>7. CASE DeployDrop(c)
    BY <1>7, GoToEffect DEF DeployDrop
  <1>8. CASE DeployBuild(c)
    BY <1>8, GoToEffect DEF DeployBuild
  <1>9. CASE DeployRun(c)
    BY <1>9, GoToEffect DEF DeployRun
  <1>10. CASE DeployPartly(c)
    BY <1>10, GoToEffect DEF DeployPartly
  <1>11. CASE DeployRecord(c)
    BY <1>11, GoToEffect DEF DeployRecord
  <1>12. CASE DeployInstance(c)
    BY <1>12, ReturnEffect DEF DeployInstance
  <1>13. CASE DeployFail(c)
    BY <1>13, ReturnEffect DEF DeployFail
  <1>14. CASE DeployRaises(c)
    BY <1>14, GoToEffect DEF DeployRaises
  <1> QED
    BY <1>1, <1>2, <1>3, <1>4, <1>5, <1>6, <1>7, <1>8, <1>9, <1>10, <1>11,
       <1>12, <1>13, <1>14 DEF HandlerStep

LEMMA TaskStepCarried ==
    ASSUME TypeOK, SlotsOK, SkippedStageIsPast, NEW c \in Calls, TaskStart(c) \/ TaskStep(c)
    PROVE  Carried(c)
  <1>0. SlotOK(c) /\ call[c] \in Call /\ task[c] \in Task
    BY DEF SlotsOK, TypeOK
  <1> USE <1>0, NoneAssumption DEF TypeOK, row, hist, At, Exists, Free, Idle, NoTask, SlotOK,
          Carried, Covered, Skips, OwnsSchema, OwnsDdl, OwnsDeployment, Deploying, Call,
          CallSteps, Task, TaskSteps
  <1>1. CASE TaskStart(c)
    BY <1>1, TaskGoToEffect DEF TaskStart
  <1>2. CASE SchemaRead(c)
    BY <1>2, SchemaReadEffect DEF SchemaRead
  <1>3. CASE SchemaSave(c)
    <2>1. /\ \A d \in Calls \ {c} : task'[d] = task[d]
          /\ task'[c].at = "er"
      BY <1>3, TaskGoToEffect DEF SchemaSave
    <2>2. stage'[task[c].project] # "generating_schema"
      BY <1>3 DEF SchemaSave, SkippedStageIsPast
    <2>3. \A p \in Projects : p # task[c].project => stage'[p] = stage[p]
      BY <1>3 DEF SchemaSave
    <2>4. call' = call /\ incident' = incident
      BY <1>3 DEF SchemaSave
    <2> QED
      BY <1>3, <2>1, <2>2, <2>3, <2>4 DEF SchemaSave
  <1>4. CASE SchemaEmpty(c)
    BY <1>4, AckEffect DEF SchemaEmpty, UpdateStageAndStatus, Report
  <1>5. CASE SchemaRaises(c)
    BY <1>5, AckEffect DEF SchemaRaises, Report
  <1>6. CASE DdlSave(c)
    <2>1. stage' = [stage EXCEPT ![task[c].project] = "ddl_generated"]
      BY <1>6 DEF DdlSave, UpdateStageAndStatus, AllowedStatuses
    <2> QED
      BY <1>6, <2>1, DrawErOrAckEffect DEF DdlSave
  <1>7. CASE DdlEmpty(c)
    BY <1>7, DrawErOrAckEffect DEF DdlEmpty, UpdateStageAndStatus, Report
  <1>8. CASE DdlRaises(c)
    BY <1>8, AckEffect DEF DdlRaises, Report
  <1>9. CASE ErSave(c)
    BY <1>9, AckEffect DEF ErSave
  <1>10. CASE ErFails(c)
    BY <1>10, AckEffect DEF ErFails
  <1> QED
    BY <1>1, <1>2, <1>3, <1>4, <1>5, <1>6, <1>7, <1>8, <1>9, <1>10 DEF TaskStep

LEMMA CrashCarried ==
    ASSUME TypeOK, SlotsOK, SkippedStageIsPast, NEW c \in Calls, Crash(c)
    PROVE  Carried(c)
  <1>0. SlotOK(c) /\ call[c] \in Call /\ task[c] \in Task
    BY DEF SlotsOK, TypeOK
  <1> USE <1>0, NoneAssumption DEF TypeOK, row, hist, At, Exists, Free, Idle, NoTask, SlotOK,
          Carried, Covered, Skips, OwnsSchema, OwnsDdl, OwnsDeployment, Deploying, Call,
          CallSteps, Task, TaskSteps
  <1>1. CASE WorkerCrash(c)
    BY <1>1, TaskGoToEffect DEF WorkerCrash, Running
  <1>2. CASE TaskKilled(c)
    <2>1. /\ \A d \in Calls \ {c} : task'[d] = task[d]
          /\ task'[c] = NoTask
          /\ stage' = stage /\ call' = call
      BY <1>2, AckEffect DEF TaskKilled
    <2>2. CASE task[c].at \in {"schema", "save"} /\ Report(task[c].project, "schema")
      BY <2>1, <2>2 DEF Report
    <2>3. CASE task[c].at = "ddl" /\ Report(task[c].project, "ddl")
      BY <2>1, <2>3 DEF Report
    <2>4. CASE task[c].at = "er" /\ UNCHANGED incident
      BY <2>1, <2>4
    <2> QED
      BY <1>2, <2>2, <2>3, <2>4 DEF TaskKilled
  <1>3. CASE ApiCrash(c)
    <2>1. /\ \A d \in Calls \ {c} : call'[d] = call[d]
          /\ call'[c] = Idle
          /\ stage' = stage /\ task' = task
      BY <1>3, ReturnEffect DEF ApiCrash
    <2>2. CASE At(c, "create", "dispatch") /\ Report(call[c].project, "schema")
      BY <2>1, <2>2 DEF Report
    <2>3. CASE At(c, "generate", "dispatch") /\ Report(call[c].project, "ddl")
      BY <2>1, <2>3 DEF Report
    <2>4. CASE c \in Deploying(call[c].project) /\ Report(call[c].project, "deploy")
      BY <2>1, <2>4 DEF Report
    <2>5. CASE /\ call[c].at \in {"save", "mark"} \/ call[c].op = "regenerate"
               /\ UNCHANGED incident
      <3>1. \A p \in Projects : c \notin Deploying(p)
        BY <2>5
      <3>2. \A p \in Projects : Covered(c, p) => Covered(c, p)'
        BY <2>1, <2>5, <3>1
      <3> QED
        BY <2>1, <3>2 DEF SkippedStageIsPast
    <2> QED
      BY <1>3, <2>2, <2>3, <2>4, <2>5 DEF ApiCrash
  <1> QED
    BY <1>1, <1>2, <1>3 DEF Crash

\* However calls, tasks and crashes interleave, a project whose stage says that
\* something is being done either has the call or the task that is doing it, or
\* its latest attempt is known to have failed.
THEOREM StallIsReported == Spec => []NoSilentStall
  <1>1. Init => NoSilentStall /\ SkippedStageIsPast
    BY NoneAssumption
    DEF Init, NoSilentStall, SkippedStageIsPast, Stages, Transient, NoTask
  <1>2. /\ TypeOK /\ SlotsOK /\ NoSilentStall /\ SkippedStageIsPast
        /\ [Next]_vars
        => NoSilentStall' /\ SkippedStageIsPast'
    <2> SUFFICES ASSUME TypeOK, SlotsOK, NoSilentStall, SkippedStageIsPast, [Next]_vars
                 PROVE  NoSilentStall' /\ SkippedStageIsPast'
      OBVIOUS
    <2>1. CASE UNCHANGED vars
      BY <2>1 DEF vars, NoSilentStall, SkippedStageIsPast, OwnsSchema, OwnsDdl,
                  OwnsDeployment, Deploying, At
    <2>2. CASE Next
      <3>1. PICK c \in Calls :
              \/ \E p \in Projects : UserAction(c, p)
              \/ HandlerStep(c)
              \/ TaskStart(c) \/ TaskStep(c)
              \/ Crash(c)
        BY <2>2 DEF Next
      <3>2. Carried(c)
        BY <3>1, UserActionCarried, HandlerStepCarried, TaskStepCarried, CrashCarried
      <3> QED
        BY <3>2, CarriedIsEnough
    <2> QED
      BY <2>1, <2>2
  <1> QED
    BY TypeCorrect, <1>1, <1>2, PTL DEF Spec

-----------------------------------------------------------------------------
(***************************************************************************)
(* A status that speaks of a DDL comes with one.                           *)
(***************************************************************************)

\* The task or the call of slot c that will store a DDL has one.
HasDdl(c) ==
    /\ call[c].op = "generate" => call[c].text # None
    /\ task[c].kind = "ddl" => task[c].text # None
    /\ call[c].op = "deploy" /\ call[c].at \in {"drop", "build", "run", "record"} =>
          call[c].script # None

WritersHaveDdl == \A c \in Calls : HasDdl(c)

\* What each step of slot c owes.
DdlKept(c) ==
    /\ \A d \in Calls \ {c} : call'[d] = call[d] /\ task'[d] = task[d]
    /\ HasDdl(c)'
    /\ \A p \in Projects :
          \/ ddl'[p] # None
          \/ ddl'[p] = ddl[p] /\ status'[p] = status[p]
          \/ status'[p] \notin {"pending_confirmation", "active"}

LEMMA DdlKeptIsEnough ==
    ASSUME WritersHaveDdl, StatusHasDdl, NEW c \in Calls, DdlKept(c)
    PROVE  WritersHaveDdl' /\ StatusHasDdl'
  BY DEF WritersHaveDdl, HasDdl, StatusHasDdl, DdlKept

LEMMA CallTexts ==
    ASSUME TypeOK, NEW c \in Calls
    PROVE  /\ call[c].text \in AnyText \cup {None}
           /\ (call[c].seenText # call[c].text) \in BOOLEAN
  BY DEF TypeOK, Call

LEMMA UserActionKeepsDdl ==
    ASSUME TypeOK, SlotsOK, NEW c \in Calls, NEW p \in Projects, UserAction(c, p)
    PROVE  DdlKept(c)
  <1>0. SlotOK(c) /\ call[c] \in Call /\ task[c] \in Task
    BY DEF SlotsOK, TypeOK
  <1> USE <1>0, NoneAssumption DEF TypeOK, row, hist, At, Exists, Free, Idle, NoTask, SlotOK,
          DdlKept, HasDdl, Call, CallSteps, Task, TaskSteps
  <1>1. CASE CreateProject(c, p)
    BY <1>1 DEF CreateProject, Arrive
  <1>2. CASE DeleteRead(c, p)
    BY <1>2 DEF DeleteRead, Arrive
  <1>3. CASE \E text \in AnyText : GenerateRead(c, p, text)
    BY <1>3 DEF GenerateRead, AnyDdl
  <1>4. CASE \E text \in AnyText : RegenerateSave(c, p, text)
    BY <1>4 DEF RegenerateSave
  <1>5. CASE \E confirmed \in {EditedDdl, None}, text \in Texts \cup {None} :
                DeployRead(c, p, confirmed, text)
    BY <1>5 DEF DeployRead
  <1> QED
    BY <1>1, <1>2, <1>3, <1>4, <1>5 DEF UserAction

LEMMA HandlerStepKeepsDdl ==
    ASSUME TypeOK, SlotsOK, NEW c \in Calls, HasDdl(c), HandlerStep(c)
    PROVE  DdlKept(c)
  <1>0. SlotOK(c) /\ call[c] \in Call /\ task[c] \in Task
    BY DEF SlotsOK, TypeOK
  <1> USE <1>0, NoneAssumption DEF TypeOK, row, hist, At, Exists, Free, Idle, NoTask, SlotOK,
          DdlKept, HasDdl, Call, CallSteps, Task, TaskSteps
  <1>1. CASE CreateDispatch(c)
    <2>1. Dispatch(c, "schema", None, TRUE)
      BY <1>1 DEF CreateDispatch
    <2>2. /\ \A d \in Calls \ {c} : call'[d] = call[d] /\ task'[d] = task[d]
          /\ call'[c] = Idle
          /\ task'[c].kind = "schema"
          /\ task'[c].text = None
      <3> HIDE DEF Call, Task, TypeOK, CallSteps, TaskSteps, NoTask, HasDdl, DdlKept
      <3> QED
        BY <2>1, DispatchEffect, CallTexts
    <2> QED
      BY <1>1, <2>2 DEF CreateDispatch
  <1>2. CASE GenerateSave(c)
    BY <1>2, GoToEffect DEF GenerateSave
  <1>3. CASE GenerateDispatch(c)
    <2>1. Dispatch(c, "ddl", call[c].text, call[c].seenText # call[c].text)
      BY <1>3 DEF GenerateDispatch
    <2>2. /\ \A d \in Calls \ {c} : call'[d] = call[d] /\ task'[d] = task[d]
          /\ call'[c] = Idle
          /\ task'[c].kind = "ddl"
          /\ task'[c].text = call[c].text
      <3> HIDE DEF Call, Task, TypeOK, CallSteps, TaskSteps, NoTask, HasDdl, DdlKept
      <3> QED
        BY <2>1, DispatchEffect, CallTexts
    <2> QED
      BY <1>3, <2>2 DEF GenerateDispatch
  <1>4. CASE RegenerateDispatch(c)
    <2>1. Dispatch(c, "er", call[c].text, TRUE)
      BY <1>4 DEF RegenerateDispatch
    <2>2. /\ \A d \in Calls \ {c} : call'[d] = call[d] /\ task'[d] = task[d]
          /\ call'[c] = Idle
          /\ task'[c].kind = "er"
          /\ task'[c].text = call[c].text
      <3> HIDE DEF Call, Task, TypeOK, CallSteps, TaskSteps, NoTask, HasDdl, DdlKept
      <3> QED
        BY <2>1, DispatchEffect, CallTexts
    <2> QED
      BY <1>4, <2>2 DEF RegenerateDispatch
  <1>5. CASE DeleteMark(c)
    BY <1>5, ReturnEffect DEF DeleteMark
  <1>6. CASE DeployMark(c)
    BY <1>6, GoToEffect DEF DeployMark
  <1>7. CASE DeployDrop(c)
    BY <1>7, GoToEffect DEF DeployDrop
  <1>8. CASE DeployBuild(c)
    BY <1>8, GoToEffect DEF DeployBuild
  <1>9. CASE DeployRun(c)
    BY <1>9, GoToEffect DEF DeployRun
  <1>10. CASE DeployPartly(c)
    BY <1>10, GoToEffect DEF DeployPartly
  <1>11. CASE DeployRecord(c)
    <2>1. /\ \A d \in Calls \ {c} : call'[d] = call[d] /\ task'[d] = task[d]
          /\ HasDdl(c)'
      BY <1>11, GoToEffect DEF DeployRecord
    <2>2. /\ status' = [status EXCEPT ![call[c].project] = "active"]
          /\ ddl' = [ddl EXCEPT ![call[c].project] = call[c].script]
          /\ call[c].script # None
          /\ call[c].project \in Projects
      BY <1>11 DEF DeployRecord
    <2> QED
      BY <2>1, <2>2
  <1>12. CASE DeployInstance(c)
    BY <1>12, ReturnEffect DEF DeployInstance
  <1>13. CASE DeployFail(c)
    BY <1>13, ReturnEffect DEF DeployFail
  <1>14. CASE DeployRaises(c)
    BY <1>14, GoToEffect DEF DeployRaises
  <1> QED
    BY <1>1, <1>2, <1>3, <1>4, <1>5, <1>6, <1>7, <1>8, <1>9, <1>10, <1>11,
       <1>12, <1>13, <1>14 DEF HandlerStep

LEMMA TaskStepKeepsDdl ==
    ASSUME TypeOK, SlotsOK, NEW c \in Calls, HasDdl(c), TaskStart(c) \/ TaskStep(c)
    PROVE  DdlKept(c)
  <1>0. SlotOK(c) /\ call[c] \in Call /\ task[c] \in Task
    BY DEF SlotsOK, TypeOK
  <1> USE <1>0, NoneAssumption DEF TypeOK, row, hist, At, Exists, Free, Idle, NoTask, SlotOK,
          DdlKept, HasDdl, Call, CallSteps, Task, TaskSteps
  <1>1. CASE TaskStart(c)
    BY <1>1, TaskGoToEffect DEF TaskStart
  <1>2. CASE SchemaRead(c)
    BY <1>2, SchemaReadEffect DEF SchemaRead
  <1>3. CASE SchemaSave(c)
    BY <1>3, TaskGoToEffect DEF SchemaSave
  <1>4. CASE SchemaEmpty(c)
    BY <1>4, AckEffect DEF SchemaEmpty, UpdateStageAndStatus
  <1>5. CASE SchemaRaises(c)
    BY <1>5, AckEffect DEF SchemaRaises
  <1>6. CASE DdlSave(c)
    <2>1. /\ \A d \in Calls \ {c} : call'[d] = call[d] /\ task'[d] = task[d]
          /\ HasDdl(c)'
      BY <1>6, DrawErOrAckEffect DEF DdlSave
    <2>2. /\ status' = [status EXCEPT ![task[c].project] = "pending_confirmation"]
          /\ ddl' = [ddl EXCEPT ![task[c].project] = task[c].text]
          /\ task[c].text # None
          /\ task[c].project \in Projects
      BY <1>6 DEF DdlSave, UpdateStageAndStatus, AllowedStatuses
    <2> QED
      BY <2>1, <2>2
  <1>7. CASE DdlEmpty(c)
    BY <1>7, DrawErOrAckEffect DEF DdlEmpty, UpdateStageAndStatus
  <1>8. CASE DdlRaises(c)
    BY <1>8, AckEffect DEF DdlRaises
  <1>9. CASE ErSave(c)
    BY <1>9, AckEffect DEF ErSave
  <1>10. CASE ErFails(c)
    BY <1>10, AckEffect DEF ErFails
  <1> QED
    BY <1>1, <1>2, <1>3, <1>4, <1>5, <1>6, <1>7, <1>8, <1>9, <1>10 DEF TaskStep

LEMMA CrashKeepsDdl ==
    ASSUME TypeOK, SlotsOK, NEW c \in Calls, HasDdl(c), Crash(c)
    PROVE  DdlKept(c)
  <1>0. SlotOK(c) /\ call[c] \in Call /\ task[c] \in Task
    BY DEF SlotsOK, TypeOK
  <1> USE <1>0, NoneAssumption DEF TypeOK, row, hist, At, Exists, Free, Idle, NoTask, SlotOK,
          DdlKept, HasDdl, Call, CallSteps, Task, TaskSteps
  <1>1. CASE WorkerCrash(c)
    BY <1>1, TaskGoToEffect DEF WorkerCrash, Running
  <1>2. CASE TaskKilled(c)
    BY <1>2, AckEffect DEF TaskKilled, Running
  <1>3. CASE ApiCrash(c)
    BY <1>3, ReturnEffect DEF ApiCrash
  <1> QED
    BY <1>1, <1>2, <1>3 DEF Crash

\* A project that waits for the confirmation of a DDL, or is shown as deployed,
\* has a DDL, whatever tasks and deployments were interleaved.
THEOREM DdlBehindStatus == Spec => []StatusHasDdl
  <1>1. Init => WritersHaveDdl /\ StatusHasDdl
    BY NoneAssumption
    DEF Init, WritersHaveDdl, HasDdl, StatusHasDdl, AllowedStatuses, Idle, NoTask
  <1>2. /\ TypeOK /\ SlotsOK /\ WritersHaveDdl /\ StatusHasDdl
        /\ [Next]_vars
        => WritersHaveDdl' /\ StatusHasDdl'
    <2> SUFFICES ASSUME TypeOK, SlotsOK, WritersHaveDdl, StatusHasDdl, [Next]_vars
                 PROVE  WritersHaveDdl' /\ StatusHasDdl'
      OBVIOUS
    <2>1. CASE UNCHANGED vars
      BY <2>1 DEF vars, WritersHaveDdl, HasDdl, StatusHasDdl
    <2>2. CASE Next
      <3>1. PICK c \in Calls :
              \/ \E p \in Projects : UserAction(c, p)
              \/ HandlerStep(c)
              \/ TaskStart(c) \/ TaskStep(c)
              \/ Crash(c)
        BY <2>2 DEF Next
      <3>2. DdlKept(c)
        BY <3>1, UserActionKeepsDdl, HandlerStepKeepsDdl, TaskStepKeepsDdl, CrashKeepsDdl
           DEF WritersHaveDdl
      <3> QED
        BY <3>2, DdlKeptIsEnough
    <2> HIDE DEF Call, Task
    <2> QED
      BY <2>1, <2>2
  <1> QED
    BY TypeCorrect, <1>1, <1>2, PTL DEF Spec

-----------------------------------------------------------------------------
(***************************************************************************)
(* A completed project holds its DDL.                                      *)
(***************************************************************************)

DeploySteps == {"drop", "build", "run", "record", "instance", "fail"}

\* How far a deployment that overlaps no other has come.
Alone(p) ==
    ~overlap[p] =>
        \A c \in Deploying(p) :
            /\ \A d \in Deploying(p) : c = d
            /\ call[c].at \notin {"instance", "fail"} => stage[p] # "completed"
            /\ call[c].at = "build" => catalog[p] = NoDatabase
            /\ call[c].at = "run" => catalog[p] = EmptyDatabase
            /\ call[c].at = "record" => catalog[p] = Deployed(p, call[c].script)

DeploymentAlone == \A p \in Projects : Alone(p)

\* CompletedIsDeployed of one project.
Completed(p) ==
    stage[p] = "completed" =>
        /\ status[p] \in {"active", "deleted"}
        /\ instance[p] = "active" \/ Deploying(p) # {} \/ "deploy" \in incident[p]
        /\ ~overlap[p] => catalog[p] = Deployed(p, ddl[p])

\* The call of slot c is past DeployMark.
Deploys(c) == call[c].op = "deploy" /\ call[c].at \in DeploySteps

\* A step that has nothing to do with a deployment.
Quiet ==
    /\ UNCHANGED <<instance, catalog, overlap>>
    /\ \A d \in Calls : call'[d] = call[d] \/ (~Deploys(d) /\ ~Deploys(d)')
    /\ \A p \in Projects :
          /\ "deploy" \in incident[p] => "deploy" \in incident'[p]
          /\ \/ stage'[p] # "completed"
             \/ /\ stage'[p] = stage[p] /\ ddl'[p] = ddl[p]
                /\ status'[p] \in {status[p], "deleted"}

LEMMA QuietIsHarmless ==
    ASSUME DeploymentAlone, CompletedIsDeployed, Quiet
    PROVE  DeploymentAlone' /\ CompletedIsDeployed'
  <1>1. \A p \in Projects : Deploying(p)' = Deploying(p)
    BY DEF Quiet, Deploying, Deploys, DeploySteps
  <1>2. \A p \in Projects : \A c \in Deploying(p) : call'[c] = call[c]
    BY DEF Quiet, Deploying, Deploys, DeploySteps
  <1>3. DeploymentAlone'
    BY <1>1, <1>2 DEF Quiet, DeploymentAlone, Alone
  <1>4. CompletedIsDeployed'
    BY <1>1 DEF Quiet, CompletedIsDeployed
  <1> QED
    BY <1>3, <1>4

LEMMA UserActionIsQuiet ==
    ASSUME TypeOK, SlotsOK, NEW c \in Calls, NEW p \in Projects, UserAction(c, p)
    PROVE  Quiet
  <1> USE DEF TypeOK, row, hist, Free, Quiet, Deploys, DeploySteps, Idle, Call
  <1>1. CASE CreateProject(c, p)
    BY <1>1 DEF CreateProject, Arrive
  <1>2. CASE DeleteRead(c, p)
    BY <1>2 DEF DeleteRead, Arrive
  <1>3. CASE \E text \in AnyText : GenerateRead(c, p, text)
    BY <1>3 DEF GenerateRead
  <1>4. CASE \E text \in AnyText : RegenerateSave(c, p, text)
    BY <1>4 DEF RegenerateSave
  <1>5. CASE \E confirmed \in {EditedDdl, None}, text \in Texts \cup {None} :
                DeployRead(c, p, confirmed, text)
    BY <1>5 DEF DeployRead
  <1> QED
    BY <1>1, <1>2, <1>3, <1>4, <1>5 DEF UserAction

LEMMA TaskStepIsQuiet ==
    ASSUME TypeOK, SlotsOK, NEW c \in Calls, TaskStart(c) \/ TaskStep(c)
    PROVE  Quiet
  <1>0. task[c].at # "idle" => task[c].project \in Projects
    BY DEF SlotsOK, SlotOK
  <1> USE <1>0 DEF TypeOK, row, hist, Quiet
  <1>1. CASE TaskStart(c)
    BY <1>1 DEF TaskStart
  <1>2. CASE SchemaRead(c)
    BY <1>2 DEF SchemaRead
  <1>3. CASE SchemaSave(c)
    BY <1>3 DEF SchemaSave
  <1>4. CASE SchemaEmpty(c)
    BY <1>4 DEF SchemaEmpty, UpdateStageAndStatus, Report
  <1>5. CASE SchemaRaises(c)
    BY <1>5 DEF SchemaRaises, Report
  <1>6. CASE DdlSave(c)
    BY <1>6 DEF DdlSave, UpdateStageAndStatus, AllowedStatuses
  <1>7. CASE DdlEmpty(c)
    BY <1>7 DEF DdlEmpty, UpdateStageAndStatus, Report
  <1>8. CASE DdlRaises(c)
    BY <1>8 DEF DdlRaises, Report
  <1>9. CASE ErSave(c)
    BY <1>9 DEF ErSave
  <1>10. CASE ErFails(c)
    BY <1>10 DEF ErFails
  <1> QED
    BY <1>1, <1>2, <1>3, <1>4, <1>5, <1>6, <1>7, <1>8, <1>9, <1>10 DEF TaskStep

\* The steps of calls other than deployments.
OtherCallStep(c) ==
    \/ CreateDispatch(c) \/ GenerateSave(c) \/ GenerateDispatch(c)
    \/ RegenerateDispatch(c) \/ DeleteMark(c)

LEMMA OtherCallStepIsQuiet ==
    ASSUME TypeOK, SlotsOK, NEW c \in Calls, OtherCallStep(c)
    PROVE  Quiet
  <1>0. call[c].op # "none" => call[c].project \in Projects
    BY DEF SlotsOK, SlotOK
  <1> USE <1>0 DEF TypeOK, row, hist, At, Quiet, Deploys, Idle
  <1>1. CASE CreateDispatch(c)
    BY <1>1, ReturnEffect DEF CreateDispatch, Dispatch
  <1>2. CASE GenerateSave(c)
    BY <1>2, GoToEffect DEF GenerateSave, CallSteps
  <1>3. CASE GenerateDispatch(c)
    BY <1>3, ReturnEffect DEF GenerateDispatch, Dispatch
  <1>4. CASE RegenerateDispatch(c)
    BY <1>4, ReturnEffect DEF RegenerateDispatch, Dispatch
  <1>5. CASE DeleteMark(c)
    BY <1>5, ReturnEffect DEF DeleteMark
  <1> QED
    BY <1>1, <1>2, <1>3, <1>4, <1>5 DEF OtherCallStep

LEMMA CrashIsQuiet ==
    ASSUME TypeOK, SlotsOK, NEW c \in Calls,
           WorkerCrash(c) \/ TaskKilled(c) \/ (ApiCrash(c) /\ ~Deploys(c))
    PROVE  Quiet
  <1> USE DEF TypeOK, row, hist, Quiet
  <1>1. CASE WorkerCrash(c)
    BY <1>1 DEF WorkerCrash
  <1>2. CASE TaskKilled(c)
    BY <1>2 DEF TaskKilled, Report
  <1>3. CASE ApiCrash(c) /\ ~Deploys(c)
    BY <1>3, ReturnEffect DEF ApiCrash, Report, Deploys, Idle
  <1> QED
    BY <1>1, <1>2, <1>3

DeploymentStep(c) ==
    \/ DeployMark(c) \/ DeployDrop(c) \/ DeployBuild(c)
    \/ DeployRun(c) \/ DeployPartly(c) \/ DeployRaises(c)
    \/ DeployRecord(c) \/ DeployInstance(c) \/ DeployFail(c)

\* A step of a deployment only concerns its slot and its project p.
Beside(c, p) ==
    /\ \A d \in Calls \ {c} : call'[d] = call[d]
    /\ \/ call'[c] = Idle
       \/ /\ call'[c].op = "deploy"
          /\ call'[c].project = p
          /\ call'[c].script = call[c].script
    /\ \A q \in Projects \ {p} :
          /\ stage'[q] = stage[q] /\ status'[q] = status[q] /\ ddl'[q] = ddl[q]
          /\ instance'[q] = instance[q] /\ catalog'[q] = catalog[q]
          /\ incident'[q] = incident[q] /\ overlap'[q] = overlap[q]

LEMMA BesideIsLocal ==
    ASSUME DeploymentAlone, CompletedIsDeployed, NEW c \in Calls, NEW p \in Projects,
           call[c].project = p, Beside(c, p), Alone(p)', Completed(p)'
    PROVE  DeploymentAlone' /\ CompletedIsDeployed'
  <1>1. ASSUME NEW q \in Projects, q # p
        PROVE  /\ Deploying(q)' = Deploying(q)
               /\ \A d \in Deploying(q) : call'[d] = call[d]
    BY <1>1 DEF Beside, Deploying, Idle
  <1>2. ASSUME NEW q \in Projects, q # p
        PROVE  Alone(q)' /\ Completed(q)'
    BY <1>1, <1>2 DEF Beside, DeploymentAlone, Alone, CompletedIsDeployed, Completed
  <1>3. ASSUME NEW q \in Projects
        PROVE  Alone(q)' /\ Completed(q)'
    BY <1>2, <1>3 DEF Alone, Completed
  <1> QED
    BY <1>3 DEF DeploymentAlone, Alone, CompletedIsDeployed, Completed

\* Where the deployments of p are after a step of slot c.
LEMMA DeployingAfter ==
    ASSUME NEW c \in Calls, NEW p \in Projects, call[c].project = p, Beside(c, p)
    PROVE  /\ \A d \in Calls \ {c} : d \in Deploying(p)' <=> d \in Deploying(p)
           /\ c \in Deploying(p)' <=> Deploys(c)'
  BY DEF Beside, Deploying, Deploys, DeploySteps, Idle

LEMMA DeploymentStepIsBeside ==
    ASSUME TypeOK, SlotsOK, NEW c \in Calls, NEW p \in Projects, call[c].project = p,
           DeploymentStep(c) \/ (ApiCrash(c) /\ Deploys(c))
    PROVE  Beside(c, p)
  <1> USE DEF TypeOK, row, hist, At, Beside, CallSteps
  <1>1. CASE DeployMark(c)
    BY <1>1, GoToEffect DEF DeployMark
  <1>2. CASE DeployDrop(c)
    BY <1>2, GoToEffect DEF DeployDrop
  <1>3. CASE DeployBuild(c)
    BY <1>3, GoToEffect DEF DeployBuild
  <1>4. CASE DeployRun(c)
    BY <1>4, GoToEffect DEF DeployRun, Execute
  <1>5. CASE DeployPartly(c)
    BY <1>5, GoToEffect DEF DeployPartly, Execute
  <1>6. CASE DeployRecord(c)
    BY <1>6, GoToEffect DEF DeployRecord
  <1>7. CASE DeployInstance(c)
    BY <1>7, ReturnEffect DEF DeployInstance
  <1>8. CASE DeployFail(c)
    BY <1>8, ReturnEffect DEF DeployFail
  <1>9. CASE ApiCrash(c) /\ Deploys(c)
    BY <1>9, ReturnEffect DEF ApiCrash, Report
  <1>10. CASE DeployRaises(c)
    BY <1>10, GoToEffect DEF DeployRaises
  <1> QED
    BY <1>1, <1>2, <1>3, <1>4, <1>5, <1>6, <1>7, <1>8, <1>9, <1>10 DEF DeploymentStep

LEMMA DeploymentStepKeeps ==
    ASSUME TypeOK, SlotsOK, NEW c \in Calls, NEW p \in Projects, call[c].project = p,
           Alone(p), Completed(p),
           DeploymentStep(c) \/ (ApiCrash(c) /\ Deploys(c))
    PROVE  Alone(p)' /\ Completed(p)'
  <1>0. /\ \A d \in Calls \ {c} : call'[d] = call[d]
        /\ \A d \in Calls \ {c} : d \in Deploying(p)' <=> d \in Deploying(p)
        /\ c \in Deploying(p)' <=> Deploys(c)'
        /\ c \in Deploying(p) <=> Deploys(c)
        /\ Deploying(p) \subseteq Calls /\ Deploying(p)' \subseteq Calls
    BY DeploymentStepIsBeside, DeployingAfter DEF Beside, Deploying, Deploys, DeploySteps
  <1> USE <1>0 DEF TypeOK, row, hist, At, Alone, Completed, Deploys, DeploySteps, CallSteps, Idle
  <1>1. CASE DeployMark(c)
    <2>1. /\ stage'[p] = "executing_ddl"
          /\ overlap'[p] = (Deploying(p) # {})
          /\ call'[c].at \in {"drop", "fail"}
          /\ call'[c].op = "deploy"
      BY <1>1, GoToEffect DEF DeployMark
    <2>2. ~overlap'[p] => \A d \in Deploying(p)' : d = c
      BY <2>1
    <2> QED
      BY <2>1, <2>2
  <1>2. CASE DeployDrop(c)
    BY <1>2, GoToEffect DEF DeployDrop
  <1>3. CASE DeployBuild(c)
    <2>1. /\ call'[c].at = "run" /\ call'[c].op = "deploy"
          /\ UNCHANGED <<stage, status, ddl, instance, incident, overlap>>
      BY <1>3, GoToEffect DEF DeployBuild
    <2>2. ~overlap[p] => catalog'[p] = EmptyDatabase
      <3>1. ~overlap[p] => catalog[p] = NoDatabase
        BY <1>3 DEF DeployBuild
      <3>2. ~catalog[p].exists => catalog'[p] = EmptyDatabase
        BY <1>3 DEF DeployBuild
      <3> QED
        BY <3>1, <3>2 DEF NoDatabase
    <2>3. ~overlap[p] => stage[p] # "completed"
      BY <1>3 DEF DeployBuild
    <2>4. Alone(p)'
      BY <1>3, <2>1, <2>2, <2>3 DEF DeployBuild
    <2>5. Completed(p)'
      BY <1>3, <2>1, <2>3 DEF DeployBuild
    <2> QED
      BY <2>4, <2>5
  <1>4. CASE DeployRun(c)
    <2>1. /\ call'[c].at = "record" /\ call'[c].op = "deploy"
          /\ call'[c].script = call[c].script
          /\ UNCHANGED <<stage, overlap>>
      BY <1>4, GoToEffect DEF DeployRun
    <2>2. ~overlap[p] => catalog'[p] = Deployed(p, call[c].script)
      <3>1. ~overlap[p] => catalog[p] = EmptyDatabase
        BY <1>4 DEF DeployRun
      <3>2. catalog[p].exists =>
               catalog'[p] = [exists |-> TRUE,
                              ran |-> catalog[p].ran \cup {[script |-> call[c].script,
                                                           part |-> Taken(p, call[c].script)]}]
        BY <1>4 DEF DeployRun, Execute
      <3>3. ~overlap[p] => catalog[p].exists /\ catalog[p].ran = {}
        BY <3>1 DEF EmptyDatabase
      <3> QED
        BY <3>2, <3>3 DEF Deployed
    <2>3. ~overlap[p] => stage[p] # "completed"
      BY <1>4 DEF DeployRun
    <2>4. Alone(p)'
      <3>1. ~overlap[p] => \A d \in Deploying(p)' : d = c
        BY <1>4, <2>1 DEF DeployRun
      <3> QED
        BY <2>1, <2>2, <2>3, <3>1
    <2>5. Completed(p)'
      BY <1>4, <2>1, <2>3, GoToEffect DEF DeployRun
    <2> QED
      BY <2>4, <2>5
  <1>5. CASE DeployPartly(c)
    BY <1>5, GoToEffect DEF DeployPartly, Execute
  <1>6. CASE DeployRecord(c)
    BY <1>6, GoToEffect DEF DeployRecord
  <1>7. CASE DeployInstance(c)
    BY <1>7, ReturnEffect DEF DeployInstance
  <1>8. CASE DeployFail(c)
    BY <1>8, ReturnEffect DEF DeployFail
  <1>9. CASE ApiCrash(c) /\ Deploys(c)
    BY <1>9, ReturnEffect DEF ApiCrash, Report
  <1>10. CASE DeployRaises(c)
    BY <1>10, GoToEffect DEF DeployRaises
  <1> QED
    BY <1>1, <1>2, <1>3, <1>4, <1>5, <1>6, <1>7, <1>8, <1>9, <1>10 DEF DeploymentStep

LEMMA DeploymentNext ==
    ASSUME TypeOK, SlotsOK, DeploymentAlone, CompletedIsDeployed, Next
    PROVE  DeploymentAlone' /\ CompletedIsDeployed'
  <1>1. PICK c \in Calls :
          \/ \E p \in Projects : UserAction(c, p)
          \/ HandlerStep(c)
          \/ TaskStart(c) \/ TaskStep(c)
          \/ Crash(c)
    BY DEF Next
  <1>2. CASE \E p \in Projects : UserAction(c, p)
    BY <1>2, UserActionIsQuiet, QuietIsHarmless
  <1>3. CASE OtherCallStep(c)
    BY <1>3, OtherCallStepIsQuiet, QuietIsHarmless
  <1>4. CASE TaskStart(c) \/ TaskStep(c)
    BY <1>4, TaskStepIsQuiet, QuietIsHarmless
  <1>5. CASE WorkerCrash(c) \/ TaskKilled(c) \/ (ApiCrash(c) /\ ~Deploys(c))
    BY <1>5, CrashIsQuiet, QuietIsHarmless
  <1>6. CASE DeploymentStep(c) \/ (ApiCrash(c) /\ Deploys(c))
    <2>1. call[c].op # "none"
      BY <1>6 DEF DeploymentStep, DeployMark, DeployDrop, DeployBuild, DeployRun,
                  DeployPartly, DeployRaises, DeployRecord, DeployInstance, DeployFail, At, Deploys
    <2>2. PICK p \in Projects : call[c].project = p
      BY <2>1 DEF SlotsOK, SlotOK
    <2>3. Alone(p) /\ Completed(p)
      BY DEF DeploymentAlone, CompletedIsDeployed, Completed
    <2>4. Beside(c, p)
      BY <1>6, <2>2, DeploymentStepIsBeside
    <2>5. Alone(p)' /\ Completed(p)'
      BY <1>6, <2>2, <2>3, DeploymentStepKeeps
    <2> QED
      BY <2>2, <2>4, <2>5, BesideIsLocal
  <1> QED
    BY <1>1, <1>2, <1>3, <1>4, <1>5, <1>6 DEF HandlerStep, OtherCallStep, DeploymentStep, Crash

\* A project shown as completed is active or deleted, and, unless its last
\* deployment overlapped another, its database holds exactly what the deployer
\* takes of its DDL.
THEOREM CompletionIsTrue == Spec => []CompletedIsDeployed
  <1>1. Init => DeploymentAlone /\ CompletedIsDeployed
    BY NoneAssumption
    DEF Init, DeploymentAlone, Alone, CompletedIsDeployed, Deploying, Idle, Stages
  <1>2. /\ TypeOK /\ SlotsOK /\ DeploymentAlone /\ CompletedIsDeployed
        /\ [Next]_vars
        => DeploymentAlone' /\ CompletedIsDeployed'
    <2> SUFFICES ASSUME TypeOK, SlotsOK, DeploymentAlone, CompletedIsDeployed, [Next]_vars
                 PROVE  DeploymentAlone' /\ CompletedIsDeployed'
      OBVIOUS
    <2>1. CASE UNCHANGED vars
      BY <2>1 DEF vars, DeploymentAlone, Alone, CompletedIsDeployed, Deploying
    <2>2. CASE Next
      BY <2>2, DeploymentNext
    <2> QED
      BY <2>1, <2>2
  <1> QED
    BY TypeCorrect, <1>1, <1>2, PTL DEF Spec

\* "Receives the DDL the user confirmed and creates the database and its tables"
\* (deploy_project_service), where the deployer leaves nothing out: a completed
\* project whose last deployment overlapped no other one has every statement of
\* its DDL in its database, unless MySQL left out those with 'USE ' in a name.
THEOREM WholeScriptDeployed ==
    Spec => [](\A p \in Projects :
                   stage[p] = "completed" /\ ~overlap[p] /\ ~LeavesOut(p, ddl[p]) =>
                       [script |-> ddl[p], part |-> "all"] \in catalog[p].ran)
  <1>1. CompletedIsDeployed =>
            \A p \in Projects :
                stage[p] = "completed" /\ ~overlap[p] /\ ~LeavesOut(p, ddl[p]) =>
                    [script |-> ddl[p], part |-> "all"] \in catalog[p].ran
    <2> SUFFICES ASSUME CompletedIsDeployed, NEW p \in Projects,
                        stage[p] = "completed", ~overlap[p], ~LeavesOut(p, ddl[p])
                 PROVE  [script |-> ddl[p], part |-> "all"] \in catalog[p].ran
      OBVIOUS
    <2>1. catalog[p] = Deployed(p, ddl[p])
      BY DEF CompletedIsDeployed
    <2>2. Taken(p, ddl[p]) = "all"
      BY DEF Taken
    <2> QED
      BY <2>1, <2>2 DEF Deployed
  <1> QED
    BY <1>1, CompletionIsTrue, PTL
=============================================================================
