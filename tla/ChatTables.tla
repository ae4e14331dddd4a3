----------------------------- MODULE ChatTables -----------------------------
(***************************************************************************)
(* Which tables a chat request shows to the model when the project has too *)
(* many of them: those found near the question, then those their foreign   *)
(* keys refer to, each looked up by its name, as far as there are slots.   *)
(* A definition may spell the same table in two ways (`Orders`, `orders`). *)
(* Vectors are compared by the vector database: what is near is any choice.*)
(* Fragments are added while a request searches (SchemaFragments), and none *)
(* is ever deleted.                                                        *)
(***************************************************************************)
EXTENDS Naturals, FiniteSets

CONSTANTS
    TableNames,   \* table names of the project's script
    SearchWidth,  \* ddl_top_k * 2
    MaxTables     \* DEFAULT_DDL_MAX_TABLES

ASSUME SearchWidthAssumption ==
    SearchWidth \in Nat /\ MaxTables \in Nat /\ SearchWidth <= MaxTables
ASSUME TableNamesAssumption == IsFiniteSet(TableNames)

VARIABLES
    stored,  \* tables with a fragment
    lookup,  \* the search of one request
    missed   \* history: names of its references that were not found

tableVars == <<stored, lookup, missed>>

Names == TableNames \X {"stored", "other"}
TableOf(name) == name[1]

Lookup == [at : {"idle", "expand", "built"},
           found : SUBSET TableNames,   \* the tables the search returned
           refs : SUBSET Names,         \* what their definitions refer to
           wanted : SUBSET Names,       \* names left to look up
           shown : [TableNames -> 0..2]]    \* how often the list has each table

NoLookup == [at |-> "idle", found |-> {}, refs |-> {}, wanted |-> {},
             shown |-> [t \in TableNames |-> 0]]

TableTypeOK ==
    /\ stored \in SUBSET TableNames
    /\ lookup \in Lookup
    /\ missed \in SUBSET Names

TableInit ==
    /\ stored = {}
    /\ lookup = NoLookup
    /\ missed = {}

-----------------------------------------------------------------------------
\* index_ddl stores the fragment of one more table.
AddFragment ==
    /\ \E t \in TableNames \ stored : stored' = stored \cup {t}
    /\ UNCHANGED <<lookup, missed>>

\* referenced_tables: names of tables the search did not return.
Outside(found, refs) == {name \in refs : TableOf(name) \notin found}

\* list(referenced_tables)[:remaining_slots], in the order of a set.
FirstOf(names, found) ==
    LET slots == MaxTables - Cardinality(found) IN
    IF Cardinality(names) <= slots THEN {names}
    ELSE {some \in SUBSET names : Cardinality(some) = slots}

\* The search, its threshold, and the references in what it returned.  When it
\* returns nothing, or fails, the request shows the whole script.
SearchTables ==
    /\ lookup.at = "idle"
    /\ \E found \in SUBSET stored \ {{}}, refs \in SUBSET Names :
          /\ Cardinality(found) <= SearchWidth
          /\ \E wanted \in FirstOf(Outside(found, refs), found) :
                /\ lookup' = [at |-> "expand", found |-> found, refs |-> refs,
                              wanted |-> wanted,
                              shown |-> [t \in TableNames |-> IF t \in found THEN 1 ELSE 0]]
                /\ missed' = Outside(found, refs) \ wanted
    /\ UNCHANGED stored

\* Mutant: the `break` ends the loop over the names.
LeftAfterFirst(name, near) == IF near THEN {} ELSE lookup.wanted \ {name}

LeftAfter(name, near) == lookup.wanted \ {name}

\* One name is embedded and looked up: its table's fragment is among the three
\* nearest ones, and near enough, or it is not.
ExpandName ==
    \E name \in lookup.wanted, near \in BOOLEAN :
        LET t == TableOf(name) IN
        /\ near => t \in stored
        /\ lookup' = [lookup EXCEPT !.wanted = LeftAfter(name, near),
                                    !.shown[t] = IF near THEN @ + 1 ELSE @]
        /\ missed' = IF near THEN missed ELSE missed \cup {name}
        /\ UNCHANGED stored

\* An error ends the expansion; what was added stays.
ExpandFails ==
    /\ lookup.wanted # {}
    /\ lookup' = [lookup EXCEPT !.wanted = {}]
    /\ missed' = missed \cup lookup.wanted
    /\ UNCHANGED stored

\* Mutant: seen_tables is not looked at.
OnceEach(shown) == shown

\* _build_ddl_from_rag_results: the first fragment of each table.  (The cut to
\* MaxTables before it leaves out none: there was a slot for every name.)
Deduplicated(shown) == [t \in TableNames |-> IF shown[t] > 0 THEN 1 ELSE 0]

BuildTables ==
    /\ lookup.at = "expand"
    /\ lookup.wanted = {}
    /\ lookup' = [lookup EXCEPT !.at = "built", !.shown = Deduplicated(@)]
    /\ missed' = missed
    /\ UNCHANGED stored

\* The request goes on to ask the model.
TablesShown ==
    /\ lookup.at = "built"
    /\ lookup' = NoLookup
    /\ missed' = {}
    /\ UNCHANGED stored

TableNext ==
    \/ AddFragment
    \/ SearchTables
    \/ ExpandName
    \/ ExpandFails
    \/ BuildTables
    \/ TablesShown

TableSpec == TableInit /\ [][TableNext]_tableVars

-----------------------------------------------------------------------------
\* No table is shown twice, although two spellings of its name are looked up,
\* and no more tables are shown than MaxTables.
EachTableOnce ==
    lookup.at = "built" =>
        /\ \A t \in TableNames : lookup.shown[t] <= 1
        /\ Cardinality({t \in TableNames : lookup.shown[t] > 0}) <= MaxTables

\* Every table that a table found refers to is shown too, unless the slots ran
\* out before its name, its fragment was not near enough to its own name, or an
\* error ended the expansion.
ReferencesIncluded ==
    lookup.at = "built" =>
        \A name \in lookup.refs \ missed : lookup.shown[TableOf(name)] > 0

\* The claim of _expand_foreign_key_tables and _build_ddl_from_rag_results:
\* the tables referred to are always included.  It does not hold.
ReferencesShown ==
    lookup.at = "built" =>
        \A name \in lookup.refs : TableOf(name) \in stored => lookup.shown[TableOf(name)] > 0
=============================================================================
