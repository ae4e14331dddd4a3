-------------------------- MODULE SchemaFragments --------------------------
(***************************************************************************)
(* The vectors of one project's deployed DDL, a fragment per table, from   *)
(* which a chat request takes the tables it shows to the model.  Each      *)
(* deployment starts a background task that goes through the tables of the *)
(* script it deployed.  A fragment, or one a task is going to store, is    *)
(* "fresh" while it is the table's current definition.                     *)
(***************************************************************************)
EXTENDS Naturals, FiniteSets

CONSTANTS
    Tables,      \* table names
    Indexers,    \* slots for background tasks
    MaxSlips     \* bound on tasks that fail or end with the process

ASSUME MaxSlipsAssumption == MaxSlips \in Nat

VARIABLES
    deployed,  \* the tables of the script deployed last
    fragment,  \* the vector ddl_<project>_<table>
    indexer,   \* background tasks: the tables left, and those outdated since
    slipped,   \* history: tables whose fragment may differ from the script
    slips      \* history: tasks lost so far

fragmentVars == <<deployed, fragment, indexer, slipped, slips>>

FragmentStates == {"none", "fresh", "stale"}
Indexer == [left : SUBSET Tables, old : SUBSET Tables]
Asleep == [left |-> {}, old |-> {}]

FragmentTypeOK ==
    /\ deployed \in SUBSET Tables
    /\ fragment \in [Tables -> FragmentStates]
    /\ indexer \in [Indexers -> Indexer]
    /\ slipped \in SUBSET Tables
    /\ slips \in 0..MaxSlips

FragmentInit ==
    /\ deployed = {}
    /\ fragment = [t \in Tables |-> "none"]
    /\ indexer = [d \in Indexers |-> Asleep]
    /\ slipped = {}
    /\ slips = 0

-----------------------------------------------------------------------------
Waiting(t) == \E d \in Indexers : t \in indexer[d].left

\* A deployment is recorded: some of its tables are new or changed, others it
\* leaves out, and index_ddl starts with the fragments of all its tables.
DeployScript(d, script, changed) ==
    /\ indexer[d] = Asleep
    /\ script # {}
    /\ script \ deployed \subseteq changed
    /\ deployed' = script
    /\ fragment' = [t \in Tables |->
           IF t \in changed \cup (deployed \ script) /\ fragment[t] = "fresh"
           THEN "stale" ELSE fragment[t]]
    /\ indexer' = [e \in Indexers |->
           IF e = d THEN [left |-> script, old |-> {}]
           ELSE [indexer[e] EXCEPT !.old =
                    (@ \cup changed \cup (deployed \ script)) \cap indexer[e].left]]
    /\ slipped' = {t \in Tables : Waiting(t)} \cup (slipped \ script)
    /\ slips' = slips

\* Mutant: add_documents, which leaves an id that is there as it is.
PutAdds(t, copy) == IF fragment[t] = "none" THEN copy ELSE fragment[t]

\* upsert_documents.
Put(t, copy) == IF t \in Tables THEN copy ELSE "none"

\* The next fragment is embedded and stored.
StoreFragment(d) ==
    \E t \in indexer[d].left :
        /\ fragment' = [fragment EXCEPT ![t] =
               Put(t, IF t \in indexer[d].old THEN "stale" ELSE "fresh")]
        /\ indexer' = [indexer EXCEPT ![d] = [left |-> @.left \ {t}, old |-> @.old \ {t}]]
        /\ UNCHANGED <<deployed, slipped, slips>>

\* An error ends the task, and the tables left keep their old fragments.
IndexerFails(d) ==
    /\ indexer[d] # Asleep
    /\ slips < MaxSlips
    /\ slips' = slips + 1
    /\ slipped' = slipped \cup indexer[d].left
    /\ indexer' = [indexer EXCEPT ![d] = Asleep]
    /\ UNCHANGED <<deployed, fragment>>

FragmentNext ==
    \E d \in Indexers :
        \/ \E script, changed \in SUBSET Tables : DeployScript(d, script, changed)
        \/ StoreFragment(d)
        \/ IndexerFails(d)

FragmentSpec == FragmentInit /\ [][FragmentNext]_fragmentVars

-----------------------------------------------------------------------------
\* Every table of the deployed script has its current definition in the index,
\* once no task is to store it, unless two tasks had it to store at a time or
\* one failed before it.  (A table left out of a later script keeps its last
\* fragment: nothing deletes one.)
FragmentsFollowScript ==
    \A t \in deployed \ slipped : ~Waiting(t) => fragment[t] = "fresh"
=============================================================================
