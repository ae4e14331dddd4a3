---------------------------- MODULE MCProjectData ----------------------------
(***************************************************************************)
(* What serves a project's requests beside its rows: cached copies,        *)
(* vectors, database accounts and engines, and the order of its            *)
(* statements.  The components share no state: every behaviour follows one *)
(* of them, `scene`, and the others stay as they are at the start.         *)
(***************************************************************************)
EXTENDS ReadThroughCache, KnowledgeIndex, SchemaFragments, UserEngines,
        DdlSort, ChatTables, ChatContext, SqliteFiles, TLC

VARIABLE scene

dataVars == <<scene, cacheVars, knowledgeVars, fragmentVars, engineVars, sortVars,
              tableVars, contextVars, fileVars>>

\* The statements that are sorted: of what is not found in them, one name is
\* enough.
Sorted == {s \in Statement : s.form # "other" => Cardinality(s.names) < 2}

Other == [form |-> "other", creates |-> {}, names |-> {}]

\* A component that is not followed starts in one of its initial states.
DataInit ==
    /\ scene \in {"cache", "knowledge", "fragments", "engines", "sort",
                 "tables", "context", "files"}
    /\ key \in IF scene = "cache" THEN Keys ELSE {"detail"}
    /\ server \in IF scene = "engines" THEN {"mysql", "postgresql"} ELSE {"mysql"}
    /\ script \in [Index -> IF scene = "sort" THEN Sorted ELSE {Other}]
    /\ CacheInit
    /\ KnowledgeInit
    /\ FragmentInit
    /\ EngineInit
    /\ SortInit
    /\ TableInit
    /\ ContextInit
    /\ FilesInit

DataNext ==
    /\ scene' = scene
    /\ \/ scene = "cache" /\ CacheNext
       \/ scene # "cache" /\ UNCHANGED cacheVars
    /\ \/ scene = "knowledge" /\ KnowledgeNext
       \/ scene # "knowledge" /\ UNCHANGED knowledgeVars
    /\ \/ scene = "fragments" /\ FragmentNext
       \/ scene # "fragments" /\ UNCHANGED fragmentVars
    /\ \/ scene = "engines" /\ EngineNext
       \/ scene # "engines" /\ UNCHANGED engineVars
    /\ \/ scene = "sort" /\ SortNext
       \/ scene # "sort" /\ UNCHANGED sortVars
    /\ \/ scene = "tables" /\ TableNext
       \/ scene # "tables" /\ UNCHANGED tableVars
    /\ \/ scene = "context" /\ ContextNext
       \/ scene # "context" /\ UNCHANGED contextVars
    /\ \/ scene = "files" /\ FilesNext
       \/ scene # "files" /\ UNCHANGED fileVars

DataSpec == DataInit /\ [][DataNext]_dataVars

\* The slots of all components have the same names, and so have the rows and
\* conversations.
Symmetry == Permutations(Readers) \cup Permutations(Writers)

-----------------------------------------------------------------------------
\* Every component's state stays within its types: the requests, tasks and
\* connections it keeps are in one of the stages the code has.
DataTypeOK ==
    /\ CacheTypeOK
    /\ KnowledgeTypeOK
    /\ FragmentTypeOK
    /\ EngineTypeOK
    /\ SortTypeOK
    /\ TableTypeOK
    /\ ContextTypeOK
    /\ FilesTypeOK
=============================================================================
