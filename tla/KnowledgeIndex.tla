--------------------------- MODULE KnowledgeIndex ---------------------------
(***************************************************************************)
(* One project's domain terms and their vectors.  A request commits the    *)
(* row and starts a background task that embeds the values it committed    *)
(* and upserts or deletes the vector; nothing orders the tasks.  A vector, *)
(* or the values a task holds, is "fresh" while it is what the row says.   *)
(* Terms of two projects meet only where a batch deletion of one project   *)
(* names a row of the other.                                               *)
(***************************************************************************)
EXTENDS Naturals, FiniteSets

CONSTANTS
    Words,      \* terms
    Ids,        \* row ids, each given out once
    Authors,    \* slots for creations and imports
    Tasks,      \* slots for background tasks
    MaxLosses,  \* bound on tasks that fail or end with the process
    NoWord,     \* the term of a row not there yet, or deleted
    NoId        \* no row

ASSUME MaxLossesAssumption == MaxLosses \in Nat
ASSUME NoRowAssumption == NoWord \notin Words /\ NoId \notin Ids

VARIABLES
    term,    \* domain_knowledge: the term of each row
    used,    \* the ids given out
    vector,  \* the vector knowledge_<id>
    author,  \* creations and imports between their check and their commit
    task,    \* background tasks
    twins,   \* history: terms whose checks overlapped or that a change repeated
    adrift,  \* history: rows whose vector may differ from them
    losses   \* history: tasks lost so far

knowledgeVars == <<term, used, vector, author, task, twins, adrift, losses>>

VectorStates == {"none", "fresh", "stale"}
Author == [op : {"none", "create", "import"}, words : SUBSET Words]
IndexTask == [op : {"none", "index", "delete"}, id : Ids \cup {NoId}, copy : VectorStates]

Resting == [op |-> "none", words |-> {}]
Free    == [op |-> "none", id |-> NoId, copy |-> "none"]

KnowledgeTypeOK ==
    /\ term \in [Ids -> Words \cup {NoWord}]
    /\ used \in SUBSET Ids
    /\ vector \in [Ids -> VectorStates]
    /\ author \in [Authors -> Author]
    /\ task \in [Tasks -> IndexTask]
    /\ twins \in SUBSET Words
    /\ adrift \in SUBSET Ids
    /\ losses \in 0..MaxLosses

KnowledgeInit ==
    /\ term = [i \in Ids |-> NoWord]
    /\ used = {}
    /\ vector = [i \in Ids |-> "none"]
    /\ author = [c \in Authors |-> Resting]
    /\ task = [t \in Tasks |-> Free]
    /\ twins = {}
    /\ adrift = {}
    /\ losses = 0

-----------------------------------------------------------------------------
LiveTerms == {i \in Ids : term[i] # NoWord}

Known == {term[i] : i \in LiveTerms}

Underway(i) == \E t \in Tasks : task[t].id = i

Launch(t, op, i) ==
    /\ task[t] = Free
    /\ task' = [u \in Tasks |->
           IF u = t THEN [op |-> op, id |-> i, copy |-> IF op = "index" THEN "fresh" ELSE "none"]
           ELSE IF task[u].id = i /\ task[u].op = "index" THEN [task[u] EXCEPT !.copy = "stale"]
           ELSE task[u]]

\* asyncio.create_task, with the values just committed: it mends what went
\* wrong before, unless another task of the row is still under way.
Schedule(t, op, i) ==
    /\ Launch(t, op, i)
    /\ adrift' = IF Underway(i) THEN adrift \cup {i} ELSE adrift \ {i}

Aging(i) == vector' = [vector EXCEPT ![i] = IF @ = "fresh" THEN "stale" ELSE @]

-----------------------------------------------------------------------------
(***************************************************************************)
(* Requests.                                                               *)
(***************************************************************************)

\* Mutant: the project's own terms are not looked at.
MayAddUnchecked(words) == words # {}

\* check_term_exists, which raises when it finds two; an import leaves out the
\* rows of its file whose terms exist.
MayAdd(words) == words # {} /\ words \cap Known = {}

CheckTerms(c, op, words) ==
    /\ author[c] = Resting
    /\ op = "create" => Cardinality(words) = 1
    /\ MayAdd(words)
    /\ author' = [author EXCEPT ![c] = [op |-> op, words |-> words]]
    /\ twins' = twins \cup {w \in words : \E d \in Authors : w \in author[d].words}
    /\ UNCHANGED <<term, used, vector, task, adrift, losses>>

\* The row is committed, and its indexing started.
CreateTerm(c, i, t) ==
    /\ author[c].op = "create"
    /\ i \notin used
    /\ used' = used \cup {i}
    /\ \E w \in author[c].words : term' = [term EXCEPT ![i] = w]
    /\ Schedule(t, "index", i)
    /\ author' = [author EXCEPT ![c] = Resting]
    /\ UNCHANGED <<vector, twins, losses>>

\* batch_create: one commit for all rows, and no task.
ImportTerms(c) ==
    /\ author[c].op = "import"
    /\ \E pick \in [author[c].words -> Ids \ used] :
          LET rows == {pick[w] : w \in author[c].words} IN
          /\ Cardinality(rows) = Cardinality(author[c].words)
          /\ term' = [i \in Ids |->
                IF i \in rows THEN CHOOSE w \in author[c].words : pick[w] = i ELSE term[i]]
          /\ used' = used \cup rows
          /\ adrift' = adrift \cup rows
    /\ author' = [author EXCEPT ![c] = Resting]
    /\ UNCHANGED <<vector, task, twins, losses>>

\* Mutant: the row is committed and not indexed again.
UpdateTermOnly(i, w, t) ==
    /\ i \in LiveTerms
    /\ term' = [term EXCEPT ![i] = w]
    /\ Aging(i)
    /\ twins' = twins \cup {w}
    /\ UNCHANGED <<used, author, task, adrift, losses>>

\* The term or the definition is changed; the new term is not checked.
UpdateTerm(i, w, t) ==
    /\ i \in LiveTerms
    /\ term' = [term EXCEPT ![i] = w]
    /\ Aging(i)
    /\ Schedule(t, "index", i)
    /\ twins' = IF \/ \E j \in LiveTerms \ {i} : term[j] = w
                   \/ \E c \in Authors : w \in author[c].words
                THEN twins \cup {w} ELSE twins
    /\ UNCHANGED <<used, author, losses>>

\* batch_delete_knowledge_service, one of its ids; a row that is gone already
\* gets its task all the same.
DeleteTerm(i, t) ==
    /\ i \in used
    /\ term' = [term EXCEPT ![i] = NoWord]
    /\ Aging(i)
    /\ Schedule(t, "delete", i)
    /\ UNCHANGED <<used, author, twins, losses>>

\* The batch of another project names the row: the row stays, the vector's
\* deletion is started.
DeleteForeign(i, t) ==
    /\ i \in used
    /\ task[t] = Free
    /\ task' = [task EXCEPT ![t] = [op |-> "delete", id |-> i, copy |-> "none"]]
    /\ adrift' = adrift \cup {i}
    /\ UNCHANGED <<term, used, vector, author, twins, losses>>

\* A creation or an import fails at its commit.
AuthorFails(c) ==
    /\ author[c] # Resting
    /\ author' = [author EXCEPT ![c] = Resting]
    /\ UNCHANGED <<term, used, vector, task, twins, adrift, losses>>

-----------------------------------------------------------------------------
(***************************************************************************)
(* Background tasks.                                                       *)
(***************************************************************************)

TaskEnds(t) ==
    /\ task[t] # Free
    /\ vector' = [vector EXCEPT ![task[t].id] = task[t].copy]
    /\ task' = [task EXCEPT ![t] = Free]
    /\ UNCHANGED <<term, used, author, twins, adrift, losses>>

\* The embedding or the vector database fails, which is logged, or the process
\* ends: the vector stays as it is.
TaskLost(t) ==
    /\ task[t] # Free
    /\ losses < MaxLosses
    /\ losses' = losses + 1
    /\ adrift' = adrift \cup {task[t].id}
    /\ task' = [task EXCEPT ![t] = Free]
    /\ UNCHANGED <<term, used, vector, author, twins>>

-----------------------------------------------------------------------------
KnowledgeNext ==
    \/ \E c \in Authors :
          \/ \E op \in {"create", "import"}, words \in SUBSET Words : CheckTerms(c, op, words)
          \/ \E i \in Ids, t \in Tasks : CreateTerm(c, i, t)
          \/ ImportTerms(c)
          \/ AuthorFails(c)
    \/ \E i \in Ids, t \in Tasks :
          \/ \E w \in Words : UpdateTerm(i, w, t)
          \/ DeleteTerm(i, t)
          \/ DeleteForeign(i, t)
    \/ \E t \in Tasks : TaskEnds(t) \/ TaskLost(t)

KnowledgeSpec == KnowledgeInit /\ [][KnowledgeNext]_knowledgeVars

-----------------------------------------------------------------------------
(***************************************************************************)
(* What holds.                                                             *)
(***************************************************************************)

\* Once no task of a row is under way, its vector is what the row says, and a
\* deleted row has none; unless two of its tasks crossed, one was lost, it was
\* imported, or another project's batch named it, and it has not been changed
\* since.
VectorsFollowRows ==
    \A i \in Ids \ adrift :
        ~Underway(i) => vector[i] = IF i \in LiveTerms THEN "fresh" ELSE "none"

\* A project has each term once, unless two requests checked it at the same
\* time, or a single one changed a row to a term that is there: a change is not
\* checked.
TermsUnique ==
    \A i, j \in LiveTerms : term[i] = term[j] => i = j \/ term[i] \in twins
=============================================================================
