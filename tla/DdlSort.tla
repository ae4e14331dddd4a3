------------------------------ MODULE DdlSort ------------------------------
(***************************************************************************)
(* sort_ddl_by_dependency: the order in which the statements of a script   *)
(* are executed.  A statement is what it does, the entity it creates and   *)
(* those it names, and its form, on which it depends what the function     *)
(* finds of that in the tree of the parser.                                *)
(***************************************************************************)
EXTENDS Naturals, FiniteSets, Sequences, SequencesExt

CONSTANTS
    Entities,    \* names of tables and views
    Statements   \* how many statements the script has

ASSUME StatementsAssumption == Statements \in Nat

VARIABLES
    script,    \* statements_info
    waits,     \* indegree
    queue,     \* statements no other one has to precede, in their own order
    ordered,   \* sorted_indices
    outcome    \* "sorting", "sorted", "circular" or "duplicate"

sortVars == <<script, waits, queue, ordered, outcome>>

Index == 1..Statements

\* A table with a list of columns, its foreign keys among them; a table made
\* from a query; or any other statement: a view with the tables of its query, a
\* change of a table with that table.  (The table of an index and a foreign key
\* that a change adds are lost as well, and are not among the names.)
Forms == {"columns", "query", "other"}

Statement ==
    {s \in [form : Forms, creates : {{}} \cup {{e} : e \in Entities}, names : SUBSET Entities] :
        s.form # "other" => s.creates # {}}

SortTypeOK ==
    /\ script \in [Index -> Statement]
    /\ waits \in [Index -> 0..Statements]
    /\ queue \in Seq(Index)
    /\ ordered \in Seq(Index)
    /\ outcome \in {"sorting", "sorted", "circular", "duplicate"}

-----------------------------------------------------------------------------
\* info["created"], info["depends"].  The parser wraps a table that has a list
\* of columns in a Schema, so that it is no Table where its name is looked for,
\* and nothing is left where its foreign keys are; a query is no Schema there.
Created(i) == IF script[i].form = "columns" THEN {} ELSE script[i].creates

Depends(i) == IF script[i].form = "other" THEN script[i].names ELSE {}

\* Mutant: a statement that names the entity it creates waits for itself.
NeedsItself(i, j) == Created(j) \cap Depends(i) # {}

\* Statement i is found to name what another statement j is found to create.
Needs(i, j) == i # j /\ Created(j) \cap Depends(i) # {}

Duplicate == \E i, j \in Index : i # j /\ Created(i) \cap Created(j) # {}

\* The statements of a set, in their own order.
InOrder(indices) ==
    CHOOSE s \in [1..Cardinality(indices) -> indices] :
        \A m, n \in DOMAIN s : m < n => s[m] < s[n]

\* Mutant: what has become ready stays behind what was.
ArrangedAsIs(indices) == indices

\* sorted(queue)
Arranged(indices) ==
    LET places == DOMAIN indices
        order == CHOOSE p \in Bijection(places, places) :
                     \A m, n \in places : m < n => indices[p[m]] <= indices[p[n]]
    IN  [m \in places |-> indices[order[m]]]

SortInit ==
    /\ script \in [Index -> Statement]
    /\ waits = [i \in Index |-> Cardinality({j \in Index : Needs(i, j)})]
    /\ queue = InOrder({i \in Index : waits[i] = 0})
    /\ ordered = <<>>
    /\ outcome = IF Duplicate THEN "duplicate" ELSE "sorting"

Left(node) == [i \in Index |-> IF Needs(i, node) THEN waits[i] - 1 ELSE waits[i]]

\* The first statement of the queue is next; those that waited for it alone
\* join the queue, which is sorted again.
Place ==
    LET node == Head(queue)
        left == Left(node)
        ready == {i \in Index : Needs(i, node) /\ left[i] = 0}
    IN
    /\ outcome = "sorting"
    /\ queue # <<>>
    /\ waits' = left
    /\ queue' = Arranged(Tail(queue) \o InOrder(ready))
    /\ ordered' = Append(ordered, node)
    /\ UNCHANGED <<script, outcome>>

Verdict == IF Len(ordered) = Statements THEN "sorted" ELSE "circular"

Conclude ==
    /\ outcome = "sorting"
    /\ queue = <<>>
    /\ outcome' = Verdict
    /\ UNCHANGED <<script, waits, queue, ordered>>

SortNext == Place \/ Conclude

SortSpec == SortInit /\ [][SortNext]_sortVars

-----------------------------------------------------------------------------
(***************************************************************************)
(* What holds, of the statements themselves.  The docstring promises it of *)
(* all of them; it holds of what is in sight, and of a table with a list   *)
(* of columns, as nearly all are, nothing is.                              *)
(***************************************************************************)

\* Statement i names what another statement j creates, and neither is lost in
\* the tree of the parser.
Requires(i, j) ==
    /\ i # j
    /\ script[j].creates \cap script[i].names # {}
    /\ script[i].form = "other" /\ script[j].form # "columns"

\* Two statements create one entity, in sight of the function.
CreatedTwice ==
    \E i, j \in Index :
        /\ i # j
        /\ script[i].creates \cap script[j].creates # {}
        /\ script[i].form # "columns" /\ script[j].form # "columns"

Before(k) == {ordered[m] : m \in 1..k - 1}

\* What may come k-th: not there yet, and all it requires comes earlier.
Candidates(k) ==
    {i \in Index \ Before(k) : \A j \in Index : Requires(i, j) => j \in Before(k)}

\* No statement precedes one that creates what it names, both in sight, and of
\* those that may come next it is the first of the script, so that a script in a
\* right order already stays as it is ("keep the original order").  A table with
\* a foreign key is not moved behind the table it refers to.
OrderIsFirst ==
    \A k \in 1..Len(ordered) :
        /\ ordered[k] \in Candidates(k)
        /\ \A i \in Candidates(k) : ordered[k] <= i

\* A script is refused exactly when two statements in sight create the same
\* entity or no order of those in sight exists, which is when some of them all
\* wait for one of them.  A view that names itself is no reason, and neither is a
\* table with a list of columns that is created twice or is part of a cycle.
RefusedRightly ==
    LET stuck == \E group \in SUBSET Index :
                    group # {} /\ \A i \in group : \E j \in group : Requires(i, j)
    IN
    CASE outcome = "duplicate" -> CreatedTwice
      [] outcome = "circular" -> stuck
      [] outcome = "sorted" -> ~stuck /\ ~CreatedTwice /\ ToSet(ordered) = Index
      [] OTHER -> ~CreatedTwice
=============================================================================
