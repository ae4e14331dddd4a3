--------------------------- MODULE RetrievalProofs ---------------------------
(***************************************************************************)
(* Theorems about what a question is answered from: the knowledge and the  *)
(* script kept as vectors, the tables of the script, the messages before it. *)
(***************************************************************************)
EXTENDS KnowledgeIndex, SchemaFragments, ChatTables, ChatContext,
        SequenceTheorems, FiniteSetTheorems, TLAPS

-----------------------------------------------------------------------------
(***************************************************************************)
(* KnowledgeIndex: one task per row at a time, and what it will store.     *)
(***************************************************************************)

\* A slot is free or holds the task of a row.
TaskSlotsOK == \A t \in Tasks : task[t] = Free \/ task[t].id \in Ids

\* What the vector of a row has to be.
VectorOf(i) == IF term[i] # NoWord THEN "fresh" ELSE "none"

\* The only task of a row that is not adrift stores what the row says.
RowIndexed(i) ==
    /\ \A t, u \in Tasks : task[t].id = i /\ task[u].id = i => t = u
    /\ \A t \in Tasks : task[t].id = i => task[t].copy = VectorOf(i)
    /\ ~Underway(i) => vector[i] = VectorOf(i)

RowsIndexed == \A i \in Ids \ adrift : RowIndexed(i)

\* What a creation or an import is going to add is new, and its own, but for
\* the terms whose checks overlapped or that a change repeated.
AuthorsApart ==
    /\ \A c, d \in Authors : c # d => author[c].words \cap author[d].words \subseteq twins
    /\ \A c \in Authors : author[c].words \cap Known \subseteq twins

KnowledgeIInv ==
    KnowledgeTypeOK /\ TaskSlotsOK /\ RowsIndexed /\ AuthorsApart /\ TermsUnique

-----------------------------------------------------------------------------
LEMMA KnowledgeStarts == KnowledgeInit => KnowledgeIInv
<1> SUFFICES ASSUME KnowledgeInit PROVE KnowledgeIInv
  OBVIOUS
<1> USE NoRowAssumption, MaxLossesAssumption DEF KnowledgeInit
<1>1. KnowledgeTypeOK
  BY DEF KnowledgeTypeOK, VectorStates, Author, IndexTask, Resting, Free
<1>2. TaskSlotsOK
  BY DEF TaskSlotsOK
<1>3. RowsIndexed
  BY DEF RowsIndexed, RowIndexed, VectorOf, Free, Underway
<1>4. AuthorsApart /\ TermsUnique
  BY DEF AuthorsApart, TermsUnique, LiveTerms, Known, Resting
<1> QED
  BY <1>1, <1>2, <1>3, <1>4 DEF KnowledgeIInv

\* A task that is started: its slot, and the slots of the others.
LEMMA TaskLaunched ==
    ASSUME KnowledgeTypeOK, TaskSlotsOK, NEW t \in Tasks, NEW op \in {"index", "delete"},
           NEW i \in Ids, Launch(t, op, i)
    PROVE  /\ task' \in [Tasks -> IndexTask] /\ TaskSlotsOK'
           /\ task[t] = Free /\ task'[t].id = i
           /\ task'[t].copy = IF op = "index" THEN "fresh" ELSE "none"
           /\ \A u \in Tasks \ {t} : /\ task'[u].id = task[u].id
                                     /\ task[u].id # i => task'[u] = task[u]
<1>1. [op |-> op, id |-> i, copy |-> IF op = "index" THEN "fresh" ELSE "none"] \in IndexTask
  BY DEF IndexTask, VectorStates
<1>2. \A u \in Tasks : [task[u] EXCEPT !.copy = "stale"] \in IndexTask
                       /\ [task[u] EXCEPT !.copy = "stale"].id = task[u].id
  BY DEF KnowledgeTypeOK, IndexTask, VectorStates
<1>3. task' = [u \in Tasks |->
           IF u = t THEN [op |-> op, id |-> i, copy |-> IF op = "index" THEN "fresh" ELSE "none"]
           ELSE IF task[u].id = i /\ task[u].op = "index" THEN [task[u] EXCEPT !.copy = "stale"]
           ELSE task[u]]
  BY DEF Launch
<1>4. task' \in [Tasks -> IndexTask]
  BY <1>1, <1>2, <1>3 DEF KnowledgeTypeOK
<1>5. TaskSlotsOK'
  BY <1>2, <1>3 DEF TaskSlotsOK
<1> QED
  BY <1>2, <1>3, <1>4, <1>5 DEF Launch

\* The row of the task is in order again, or adrift; the other rows stay as
\* they are.
LEMMA RowsAfterSchedule ==
    ASSUME KnowledgeTypeOK, TaskSlotsOK, RowsIndexed,
           NEW t \in Tasks, NEW op \in {"index", "delete"}, NEW i \in Ids, Schedule(t, op, i),
           op = "index" <=> term'[i] # NoWord,
           \A j \in Ids \ {i} : term'[j] = term[j] /\ vector'[j] = vector[j]
    PROVE  /\ RowsIndexed' /\ TaskSlotsOK'
           /\ task' \in [Tasks -> IndexTask] /\ adrift' \in SUBSET Ids
<1>1. /\ task' \in [Tasks -> IndexTask] /\ TaskSlotsOK'
      /\ task[t] = Free /\ task'[t].id = i
      /\ task'[t].copy = IF op = "index" THEN "fresh" ELSE "none"
      /\ \A u \in Tasks \ {t} : /\ task'[u].id = task[u].id
                                /\ task[u].id # i => task'[u] = task[u]
  BY TaskLaunched DEF Schedule
<1>2. ASSUME NEW j \in Ids \ adrift' PROVE RowIndexed(j)'
  <2>1. CASE j = i
    <3>1. ~Underway(i)
      BY <1>2, <2>1 DEF Schedule
    <3>2. \A u \in Tasks : task'[u].id = i => u = t
      BY <1>1, <3>1 DEF Underway
    <3>3. task'[t].copy = VectorOf(i)'
      BY <1>1 DEF VectorOf
    <3> QED
      BY <1>1, <2>1, <3>2, <3>3 DEF RowIndexed, Underway
  <2>2. CASE j # i
    <3>1. RowIndexed(j) /\ task[t].id # j
      BY <1>1, <1>2, <2>2, NoRowAssumption DEF Schedule, RowsIndexed, Free
    <3>2. \A u \in Tasks : task[u].id = j \/ task'[u].id = j => task'[u] = task[u]
      BY <1>1, <2>2, <3>1
    <3> QED
      BY <2>2, <3>1, <3>2 DEF RowIndexed, Underway, VectorOf
  <2> QED
    BY <2>1, <2>2
<1> QED
  BY <1>1, <1>2 DEF RowsIndexed, Schedule, KnowledgeTypeOK

\* An author that ends, or none that begins: its terms are nobody's.
LEMMA AuthorRests ==
    ASSUME KnowledgeTypeOK, NEW c \in Authors, author' = [author EXCEPT ![c] = Resting]
    PROVE  /\ author' \in [Authors -> Author]
           /\ \A d \in Authors : author'[d].words \subseteq author[d].words
           /\ author'[c].words = {}
  BY DEF KnowledgeTypeOK, Author, Resting

\* Rows of new terms, all of which one author checked, are the only ones.
LEMMA TermsAdded ==
    ASSUME KnowledgeTypeOK, AuthorsApart, TermsUnique, NEW c \in Authors,
           author' = [author EXCEPT ![c] = Resting], twins' = twins,
           NEW rows \in SUBSET Ids,
           \A i \in Ids \ rows : term'[i] = term[i],
           \A i \in rows : term'[i] \in author[c].words,
           \A i, j \in rows : term'[i] = term'[j] => i = j
    PROVE  AuthorsApart' /\ TermsUnique'
<1> DEFINE words == author[c].words
<1>1. words \subseteq Words /\ NoWord \notin words
  BY NoRowAssumption DEF KnowledgeTypeOK, Author
<1>2. \A i \in LiveTerms' : term'[i] \in words \/ (i \in LiveTerms \ rows /\ term'[i] = term[i])
  BY DEF LiveTerms
<1>3. Known' \subseteq Known \cup words
  BY <1>2 DEF Known
<1>4. ASSUME NEW d \in Authors PROVE author'[d].words \cap Known' \subseteq twins
  BY <1>3, AuthorRests DEF AuthorsApart
<1>5. ASSUME NEW i \in LiveTerms', NEW j \in LiveTerms', term'[i] = term'[j], i # j
      PROVE  term'[i] \in twins
  <2>1. CASE i \notin rows /\ j \notin rows
    BY <1>5, <2>1 DEF TermsUnique, LiveTerms
  <2>2. CASE i \in rows /\ j \in rows
    BY <1>5, <2>2
  <2>3. CASE i \in rows <=> j \notin rows
    <3>1. term'[i] \in words \cap Known
      BY <1>5, <2>3 DEF Known, LiveTerms
    <3> QED
      BY <3>1 DEF AuthorsApart
  <2> QED
    BY <2>1, <2>2, <2>3
<1> QED
  BY <1>4, <1>5, AuthorRests DEF AuthorsApart, TermsUnique

LEMMA CheckTermsStep ==
    ASSUME KnowledgeIInv, NEW c \in Authors, NEW op \in {"create", "import"},
           NEW words \in SUBSET Words, CheckTerms(c, op, words)
    PROVE  KnowledgeIInv'
<1> USE DEF KnowledgeIInv
<1>1. /\ author[c] = Resting /\ words \cap Known = {}
      /\ author' = [author EXCEPT ![c] = [op |-> op, words |-> words]]
      /\ twins' = twins \cup {w \in words : \E d \in Authors : w \in author[d].words}
      /\ UNCHANGED <<term, used, vector, task, adrift, losses>>
  BY DEF CheckTerms, MayAdd
<1>2. KnowledgeTypeOK'
  <2>1. [op |-> op, words |-> words] \in Author
    BY DEF Author
  <2>2. author' \in [Authors -> Author]
    BY <1>1, <2>1 DEF KnowledgeTypeOK
  <2> QED
    BY <1>1, <2>2 DEF KnowledgeTypeOK
<1>3. TaskSlotsOK' /\ RowsIndexed'
  BY <1>1 DEF TaskSlotsOK, RowsIndexed, RowIndexed, Underway, VectorOf
<1>4. author'[c].words = words /\ \A d \in Authors \ {c} : author'[d] = author[d]
  BY <1>1 DEF KnowledgeTypeOK
<1>5. LiveTerms' = LiveTerms /\ Known' = Known
  BY <1>1 DEF LiveTerms, Known
<1>6. AuthorsApart'
  <2>1. ASSUME NEW d \in Authors, NEW e \in Authors, d # e
        PROVE  author'[d].words \cap author'[e].words \subseteq twins'
    BY <1>1, <1>4, <2>1 DEF AuthorsApart
  <2>2. ASSUME NEW d \in Authors PROVE author'[d].words \cap Known' \subseteq twins'
    BY <1>1, <1>4, <1>5 DEF AuthorsApart
  <2> QED
    BY <2>1, <2>2 DEF AuthorsApart
<1>7. TermsUnique'
  BY <1>1, <1>5 DEF TermsUnique
<1> QED
  BY <1>2, <1>3, <1>6, <1>7

LEMMA CreateTermStep ==
    ASSUME KnowledgeIInv, NEW c \in Authors, NEW i \in Ids, NEW t \in Tasks, CreateTerm(c, i, t)
    PROVE  KnowledgeIInv'
<1> USE DEF KnowledgeIInv
<1>1. PICK w \in author[c].words : term' = [term EXCEPT ![i] = w]
  BY DEF CreateTerm
<1>2. /\ used' = used \cup {i} /\ Schedule(t, "index", i)
      /\ author' = [author EXCEPT ![c] = Resting]
      /\ UNCHANGED <<vector, twins, losses>>
  BY DEF CreateTerm
<1>3. w \in Words /\ w # NoWord
  BY NoRowAssumption DEF KnowledgeTypeOK, Author
<1>4. term'[i] = w /\ \A j \in Ids \ {i} : term'[j] = term[j] /\ vector'[j] = vector[j]
  BY <1>1, <1>2 DEF KnowledgeTypeOK
<1>5. /\ RowsIndexed' /\ TaskSlotsOK'
      /\ task' \in [Tasks -> IndexTask] /\ adrift' \in SUBSET Ids
  BY <1>2, <1>3, <1>4, RowsAfterSchedule
<1>6. KnowledgeTypeOK'
  BY <1>1, <1>2, <1>3, <1>5, AuthorRests DEF KnowledgeTypeOK
<1>7. AuthorsApart' /\ TermsUnique'
  <2>1. {i} \in SUBSET Ids
    OBVIOUS
  <2> QED
    BY <1>2, <1>4, <2>1, TermsAdded
<1> QED
  BY <1>5, <1>6, <1>7

LEMMA ImportTermsStep ==
    ASSUME KnowledgeIInv, NEW c \in Authors, ImportTerms(c)
    PROVE  KnowledgeIInv'
<1> USE DEF KnowledgeIInv
<1> DEFINE words == author[c].words
<1>1. PICK pick \in [words -> Ids \ used] :
        LET rows == {pick[w] : w \in words} IN
          /\ Cardinality(rows) = Cardinality(words)
          /\ term' = [i \in Ids |->
                IF i \in rows THEN CHOOSE w \in words : pick[w] = i ELSE term[i]]
          /\ used' = used \cup rows
          /\ adrift' = adrift \cup rows
  BY DEF ImportTerms
<1> DEFINE rows == {pick[w] : w \in words}
<1>2. author' = [author EXCEPT ![c] = Resting] /\ UNCHANGED <<vector, task, twins, losses>>
  BY DEF ImportTerms
<1>3. rows \subseteq Ids
  OBVIOUS
<1>4. \A i \in rows : term'[i] \in words /\ pick[term'[i]] = i
  BY <1>1
<1>5. \A i \in Ids \ rows : term'[i] = term[i]
  BY <1>1
<1>6. words \subseteq Words
  BY DEF KnowledgeTypeOK, Author
<1>7. KnowledgeTypeOK'
  <2>1. term' = [i \in Ids |-> term'[i]]
    BY <1>1
  <2>2. \A i \in Ids : term'[i] \in Words \cup {NoWord}
    BY <1>3, <1>4, <1>5, <1>6 DEF KnowledgeTypeOK
  <2>3. term' \in [Ids -> Words \cup {NoWord}]
    BY <2>1, <2>2
  <2>4. used' \in SUBSET Ids /\ adrift' \in SUBSET Ids
    BY <1>1, <1>3 DEF KnowledgeTypeOK
  <2> QED
    BY <1>2, <2>3, <2>4, AuthorRests DEF KnowledgeTypeOK
<1>8. TaskSlotsOK'
  BY <1>2 DEF TaskSlotsOK
<1>9. RowsIndexed'
  <2>1. ASSUME NEW j \in Ids \ adrift' PROVE RowIndexed(j)'
    <3>1. RowIndexed(j) /\ term'[j] = term[j]
      BY <1>1, <1>5 DEF RowsIndexed
    <3> QED
      BY <1>2, <3>1 DEF RowIndexed, Underway, VectorOf
  <2> QED
    BY <2>1 DEF RowsIndexed
<1>10. AuthorsApart' /\ TermsUnique'
  <2> HIDE DEF rows
  <2>1. \A i, j \in rows : term'[i] = term'[j] => i = j
    BY <1>4
  <2> QED
    BY <1>2, <1>3, <1>4, <1>5, <2>1, TermsAdded
<1> QED
  BY <1>7, <1>8, <1>9, <1>10

LEMMA UpdateTermStep ==
    ASSUME KnowledgeIInv, NEW i \in Ids, NEW w \in Words, NEW t \in Tasks, UpdateTerm(i, w, t)
    PROVE  KnowledgeIInv'
<1> USE DEF KnowledgeIInv
<1>1. /\ i \in LiveTerms /\ term' = [term EXCEPT ![i] = w] /\ Schedule(t, "index", i)
      /\ vector' = [vector EXCEPT ![i] = IF @ = "fresh" THEN "stale" ELSE @]
      /\ UNCHANGED <<used, author, losses>>
  BY DEF UpdateTerm, Aging
<1>2. twins' = IF \/ \E j \in LiveTerms \ {i} : term[j] = w
                  \/ \E c \in Authors : w \in author[c].words
               THEN twins \cup {w} ELSE twins
  BY DEF UpdateTerm
<1>3. w # NoWord /\ term'[i] = w
      /\ \A j \in Ids \ {i} : term'[j] = term[j] /\ vector'[j] = vector[j]
  BY <1>1, NoRowAssumption DEF KnowledgeTypeOK
<1>4. /\ RowsIndexed' /\ TaskSlotsOK'
      /\ task' \in [Tasks -> IndexTask] /\ adrift' \in SUBSET Ids
  BY <1>1, <1>3, RowsAfterSchedule
<1>5. vector' \in [Ids -> VectorStates]
  BY <1>1 DEF KnowledgeTypeOK, VectorStates
<1>6. twins \subseteq twins' /\ twins' \in SUBSET Words
  BY <1>2 DEF KnowledgeTypeOK
<1>7. KnowledgeTypeOK'
  BY <1>1, <1>4, <1>5, <1>6 DEF KnowledgeTypeOK
<1>8. LiveTerms' = LiveTerms /\ Known' \subseteq Known \cup {w}
  BY <1>1, <1>3 DEF LiveTerms, Known
<1>9. AuthorsApart'
  BY <1>1, <1>2, <1>6, <1>8 DEF AuthorsApart
<1>10. TermsUnique'
  <2>1. ASSUME NEW j \in LiveTerms, NEW k \in LiveTerms, j # k, term'[j] = term'[k]
        PROVE  term'[j] \in twins'
    <3>1. CASE j # i /\ k # i
      BY <1>3, <1>6, <2>1, <3>1 DEF TermsUnique, LiveTerms
    <3>2. CASE j = i
      BY <1>2, <1>3, <2>1, <3>2 DEF LiveTerms
    <3>3. CASE k = i
      BY <1>2, <1>3, <2>1, <3>3 DEF LiveTerms
    <3> QED
      BY <3>1, <3>2, <3>3
  <2> QED
    BY <1>8, <2>1 DEF TermsUnique
<1> QED
  BY <1>4, <1>7, <1>9, <1>10

\* Terms that only go are as apart and as unique as they were.
LEMMA TermsGone ==
    ASSUME AuthorsApart, TermsUnique, author' = author, twins' = twins,
           \A j \in LiveTerms' : j \in LiveTerms /\ term'[j] = term[j]
    PROVE  AuthorsApart' /\ TermsUnique'
<1>1. Known' \subseteq Known
  BY DEF Known
<1> QED
  BY <1>1 DEF AuthorsApart, TermsUnique

LEMMA DeleteTermStep ==
    ASSUME KnowledgeIInv, NEW i \in Ids, NEW t \in Tasks, DeleteTerm(i, t)
    PROVE  KnowledgeIInv'
<1> USE DEF KnowledgeIInv
<1>1. /\ term' = [term EXCEPT ![i] = NoWord] /\ Schedule(t, "delete", i)
      /\ vector' = [vector EXCEPT ![i] = IF @ = "fresh" THEN "stale" ELSE @]
      /\ UNCHANGED <<used, author, twins, losses>>
  BY DEF DeleteTerm, Aging
<1>2. term'[i] = NoWord /\ \A j \in Ids \ {i} : term'[j] = term[j] /\ vector'[j] = vector[j]
  BY <1>1 DEF KnowledgeTypeOK
<1>3. /\ RowsIndexed' /\ TaskSlotsOK'
      /\ task' \in [Tasks -> IndexTask] /\ adrift' \in SUBSET Ids
  BY <1>1, <1>2, RowsAfterSchedule
<1>4. vector' \in [Ids -> VectorStates]
  BY <1>1 DEF KnowledgeTypeOK, VectorStates
<1>5. KnowledgeTypeOK'
  BY <1>1, <1>3, <1>4 DEF KnowledgeTypeOK
<1>6. \A j \in LiveTerms' : j \in LiveTerms /\ term'[j] = term[j]
  BY <1>2 DEF LiveTerms
<1> QED
  BY <1>1, <1>3, <1>5, <1>6, TermsGone

\* A slot that starts or ends a task of row i, after which only that row's
\* vector may differ, and only if it is adrift or was the task's to store.
LEMMA SlotChanges ==
    ASSUME KnowledgeIInv, NEW t \in Tasks, NEW i \in Ids, NEW slot \in IndexTask,
           slot = Free \/ slot.id = i,
           task[t] = Free \/ task[t].id = i,
           task' = [task EXCEPT ![t] = slot],
           adrift \subseteq adrift', adrift' \subseteq Ids, losses' \in 0..MaxLosses,
           vector' \in [Ids -> VectorStates],
           \A j \in Ids \ {i} : vector'[j] = vector[j],
           i \in adrift' \/ (slot = Free /\ task[t].id = i /\ vector'[i] = task[t].copy),
           UNCHANGED <<term, used, author, twins>>
    PROVE  KnowledgeIInv'
<1> USE DEF KnowledgeIInv
<1>1. KnowledgeTypeOK'
  BY DEF KnowledgeTypeOK
<1>2. TaskSlotsOK'
  BY DEF TaskSlotsOK, KnowledgeTypeOK
<1>3. task'[t] = slot /\ \A u \in Tasks \ {t} : task'[u] = task[u]
  BY DEF KnowledgeTypeOK
<1>4. ASSUME NEW j \in Ids \ adrift' PROVE RowIndexed(j)'
  <2>1. RowIndexed(j)
    BY DEF RowsIndexed
  <2>2. VectorOf(j)' = VectorOf(j)
    BY DEF VectorOf
  <2>3. Free.id \notin Ids
    BY NoRowAssumption DEF Free
  <2>4. CASE j # i
    <3>1. \A u \in Tasks : task[u].id = j \/ task'[u].id = j => task'[u] = task[u]
      BY <1>3, <2>3, <2>4
    <3> QED
      BY <2>1, <2>2, <2>4, <3>1 DEF RowIndexed, Underway
  <2>5. CASE j = i
    <3>1. slot = Free /\ task[t].id = i /\ vector'[i] = task[t].copy
      BY <1>4, <2>5
    <3>2. vector'[i] = VectorOf(i)
      BY <2>1, <2>5, <3>1 DEF RowIndexed
    <3>3. \A u \in Tasks : task'[u].id # i
      BY <1>3, <2>1, <2>3, <2>5, <3>1 DEF RowIndexed
    <3> QED
      BY <2>2, <2>5, <3>2, <3>3 DEF RowIndexed, Underway
  <2> QED
    BY <2>4, <2>5
<1>5. AuthorsApart' /\ TermsUnique'
  BY TermsGone DEF LiveTerms
<1> QED
  BY <1>1, <1>2, <1>4, <1>5 DEF RowsIndexed

LEMMA KnowledgeStep == KnowledgeIInv /\ [KnowledgeNext]_knowledgeVars => KnowledgeIInv'
<1> SUFFICES ASSUME KnowledgeIInv, [KnowledgeNext]_knowledgeVars PROVE KnowledgeIInv'
  OBVIOUS
<1>0. Free \in IndexTask
  BY DEF Free, IndexTask, VectorStates
<1>1. ASSUME NEW i \in Ids, NEW t \in Tasks, DeleteForeign(i, t) PROVE KnowledgeIInv'
  <2>1. [op |-> "delete", id |-> i, copy |-> "none"] \in IndexTask
    BY DEF IndexTask, VectorStates
  <2>2. adrift' \subseteq Ids /\ losses' \in 0..MaxLosses /\ vector' \in [Ids -> VectorStates]
    BY <1>1 DEF DeleteForeign, KnowledgeIInv, KnowledgeTypeOK
  <2> QED
    BY <1>1, <2>1, <2>2, SlotChanges DEF DeleteForeign
<1>2. ASSUME NEW t \in Tasks, TaskEnds(t) PROVE KnowledgeIInv'
  <2> DEFINE i == task[t].id
  <2>1. i \in Ids /\ task[t].copy \in VectorStates
    BY <1>2 DEF TaskEnds, KnowledgeIInv, TaskSlotsOK, KnowledgeTypeOK, IndexTask
  <2>2. /\ adrift' \subseteq Ids /\ losses' \in 0..MaxLosses
        /\ vector' \in [Ids -> VectorStates] /\ vector'[i] = task[t].copy
        /\ \A j \in Ids \ {i} : vector'[j] = vector[j]
    BY <1>2, <2>1 DEF TaskEnds, KnowledgeIInv, KnowledgeTypeOK
  <2> QED
    BY <1>0, <1>2, <2>1, <2>2, SlotChanges DEF TaskEnds
<1>3. ASSUME NEW t \in Tasks, TaskLost(t) PROVE KnowledgeIInv'
  <2> DEFINE i == task[t].id
  <2>1. i \in Ids
    BY <1>3 DEF TaskLost, KnowledgeIInv, TaskSlotsOK
  <2>2. adrift' \subseteq Ids /\ vector' \in [Ids -> VectorStates]
    BY <1>3, <2>1 DEF TaskLost, KnowledgeIInv, KnowledgeTypeOK
  <2>3. losses' \in 0..MaxLosses
    BY <1>3, MaxLossesAssumption DEF TaskLost, KnowledgeIInv, KnowledgeTypeOK
  <2> QED
    BY <1>0, <1>3, <2>1, <2>2, <2>3, SlotChanges DEF TaskLost
<1>4. ASSUME NEW c \in Authors, AuthorFails(c) PROVE KnowledgeIInv'
  <2>1. /\ KnowledgeTypeOK /\ author' = [author EXCEPT ![c] = Resting]
        /\ UNCHANGED <<term, used, vector, task, twins, adrift, losses>>
    BY <1>4 DEF AuthorFails, KnowledgeIInv
  <2>2. KnowledgeTypeOK'
    BY <2>1, AuthorRests DEF KnowledgeTypeOK
  <2>3. TaskSlotsOK' /\ RowsIndexed'
    BY <2>1 DEF KnowledgeIInv, TaskSlotsOK, RowsIndexed, RowIndexed, Underway, VectorOf
  <2>4. AuthorsApart' /\ TermsUnique'
    <3>1. /\ {} \in SUBSET Ids /\ \A i \in Ids \ {} : term'[i] = term[i]
          /\ \A i \in {} : term'[i] \in author[c].words
          /\ \A i, j \in {} : term'[i] = term'[j] => i = j
      BY <2>1
    <3>2. AuthorsApart /\ TermsUnique
      BY DEF KnowledgeIInv
    <3> QED
      BY <2>1, <3>1, <3>2, TermsAdded
  <2> QED
    BY <2>2, <2>3, <2>4 DEF KnowledgeIInv
<1>5. CASE UNCHANGED knowledgeVars
  <2>1. KnowledgeTypeOK' /\ TaskSlotsOK' /\ RowsIndexed'
    BY <1>5 DEF knowledgeVars, KnowledgeIInv, KnowledgeTypeOK, TaskSlotsOK, RowsIndexed,
                RowIndexed, Underway, VectorOf
  <2>2. AuthorsApart' /\ TermsUnique'
    BY <1>5, TermsGone DEF knowledgeVars, KnowledgeIInv, LiveTerms
  <2> QED
    BY <2>1, <2>2 DEF KnowledgeIInv
<1> QED
  BY <1>1, <1>2, <1>3, <1>4, <1>5, CheckTermsStep, CreateTermStep, ImportTermsStep,
     UpdateTermStep, DeleteTermStep DEF KnowledgeNext

LEMMA KnowledgeInductive == KnowledgeSpec => []KnowledgeIInv
BY KnowledgeStarts, KnowledgeStep, PTL DEF KnowledgeSpec

\* Every slot for a task or an author is free or in use as one of them may be.
THEOREM KnowledgeTypeCorrect == KnowledgeSpec => []KnowledgeTypeOK
BY KnowledgeInductive, PTL DEF KnowledgeIInv

\* In whatever order the background tasks of create, update and delete run, a
\* row without one has the vector it should have, and a deleted row none; unless
\* two tasks of it crossed, one was lost, it was imported, or another project's
\* batch named it.
THEOREM VectorsAreRows == KnowledgeSpec => []VectorsFollowRows
<1>1. KnowledgeIInv => VectorsFollowRows
  BY DEF KnowledgeIInv, RowsIndexed, RowIndexed, VectorOf, VectorsFollowRows, LiveTerms
<1> QED
  BY <1>1, KnowledgeInductive, PTL

\* What check_term_exists is good for: a term is there twice only if two requests
\* checked it at the same time or a change of a row, which does not ask it,
\* repeated the term.
THEOREM TermsAreUnique == KnowledgeSpec => []TermsUnique
<1>1. KnowledgeIInv => TermsUnique
  BY DEF KnowledgeIInv
<1> QED
  BY <1>1, KnowledgeInductive, PTL

-----------------------------------------------------------------------------
(***************************************************************************)
(* SchemaFragments: one task per table at a time, and it has the table's   *)
(* current definition.                                                     *)
(***************************************************************************)
TableIndexed(t) ==
    /\ \A d, e \in Indexers : t \in indexer[d].left /\ t \in indexer[e].left => d = e
    /\ \A d \in Indexers : t \in indexer[d].left => t \notin indexer[d].old
    /\ ~Waiting(t) => fragment[t] = "fresh"

FragmentIInv == FragmentTypeOK /\ \A t \in deployed \ slipped : TableIndexed(t)

-----------------------------------------------------------------------------
LEMMA FragmentStarts == FragmentInit => FragmentIInv
  BY MaxSlipsAssumption
  DEF FragmentInit, FragmentIInv, FragmentTypeOK, FragmentStates, Indexer, Asleep

LEMMA FragmentTypeStep == FragmentTypeOK /\ [FragmentNext]_fragmentVars => FragmentTypeOK'
<1> SUFFICES ASSUME FragmentTypeOK, [FragmentNext]_fragmentVars PROVE FragmentTypeOK'
  OBVIOUS
<1> USE MaxSlipsAssumption
<1>1. ASSUME NEW d \in Indexers, NEW script \in SUBSET Tables, NEW changed \in SUBSET Tables,
             DeployScript(d, script, changed)
      PROVE  FragmentTypeOK'
  <2>1. indexer' \in [Indexers -> Indexer]
    BY <1>1 DEF DeployScript, FragmentTypeOK, Indexer
  <2>2. fragment' \in [Tables -> FragmentStates]
    BY <1>1 DEF DeployScript, FragmentTypeOK, FragmentStates
  <2>3. slipped' \in SUBSET Tables /\ deployed' \in SUBSET Tables /\ slips' = slips
    BY <1>1 DEF DeployScript, FragmentTypeOK
  <2> QED
    BY <2>1, <2>2, <2>3 DEF FragmentTypeOK
<1>2. ASSUME NEW d \in Indexers, StoreFragment(d) PROVE FragmentTypeOK'
  <2>1. indexer' \in [Indexers -> Indexer]
    BY <1>2 DEF StoreFragment, FragmentTypeOK, Indexer
  <2>2. fragment' \in [Tables -> FragmentStates]
    BY <1>2 DEF StoreFragment, FragmentTypeOK, FragmentStates, Put, Indexer
  <2> QED
    BY <1>2, <2>1, <2>2 DEF StoreFragment, FragmentTypeOK
<1>3. ASSUME NEW d \in Indexers, IndexerFails(d) PROVE FragmentTypeOK'
  <2>1. indexer' \in [Indexers -> Indexer]
    BY <1>3 DEF IndexerFails, FragmentTypeOK, Indexer, Asleep
  <2>2. slips' \in 0..MaxSlips
    BY <1>3 DEF IndexerFails, FragmentTypeOK
  <2>3. slipped' \in SUBSET Tables
    BY <1>3 DEF IndexerFails, FragmentTypeOK, Indexer
  <2> QED
    BY <1>3, <2>1, <2>2, <2>3 DEF IndexerFails, FragmentTypeOK
<1>4. CASE UNCHANGED fragmentVars
  BY <1>4 DEF fragmentVars, FragmentTypeOK
<1> QED
  BY <1>1, <1>2, <1>3, <1>4 DEF FragmentNext

LEMMA FragmentStep == FragmentIInv /\ [FragmentNext]_fragmentVars => FragmentIInv'
<1> SUFFICES ASSUME FragmentIInv, [FragmentNext]_fragmentVars
             PROVE  \A t \in deployed' \ slipped' : TableIndexed(t)'
  BY FragmentTypeStep DEF FragmentIInv
<1> USE DEF FragmentIInv, FragmentTypeOK
<1>1. ASSUME NEW d \in Indexers, NEW script \in SUBSET Tables, NEW changed \in SUBSET Tables,
             DeployScript(d, script, changed), NEW t \in deployed' \ slipped'
      PROVE  TableIndexed(t)'
  <2>1. t \in script /\ ~Waiting(t)
    BY <1>1 DEF DeployScript
  <2>2. indexer'[d].left = script /\ indexer'[d].old = {}
    BY <1>1 DEF DeployScript
  <2>3. \A e \in Indexers \ {d} : indexer'[e].left = indexer[e].left
    BY <1>1 DEF DeployScript, Indexer
  <2>4. \A e \in Indexers : t \in indexer'[e].left => e = d
    BY <2>1, <2>3 DEF Waiting
  <2> QED
    BY <2>1, <2>2, <2>4 DEF TableIndexed, Waiting
<1>2. ASSUME NEW d \in Indexers, StoreFragment(d), NEW t \in deployed' \ slipped'
      PROVE  TableIndexed(t)'
  <2>1. PICK s \in indexer[d].left :
            /\ fragment' = [fragment EXCEPT ![s] = Put(s, IF s \in indexer[d].old THEN "stale" ELSE "fresh")]
            /\ indexer' = [indexer EXCEPT ![d] = [left |-> @.left \ {s}, old |-> @.old \ {s}]]
    BY <1>2 DEF StoreFragment
  <2>2. TableIndexed(t) /\ s \in Tables
    BY <1>2 DEF StoreFragment, Indexer
  <2>3. \A e \in Indexers : /\ indexer'[e].left = indexer[e].left \ (IF e = d THEN {s} ELSE {})
                            /\ indexer'[e].old \subseteq indexer[e].old
    BY <2>1 DEF Indexer
  <2>4. CASE t = s
    <3>1. fragment'[t] = "fresh"
      BY <2>1, <2>2, <2>4 DEF TableIndexed, Put
    <3> QED
      BY <2>2, <2>3, <3>1 DEF TableIndexed
  <2>5. CASE t # s
    <3>1. fragment'[t] = fragment[t]
      BY <2>1, <2>5
    <3> QED
      BY <2>2, <2>3, <2>5, <3>1 DEF TableIndexed, Waiting
  <2> QED
    BY <2>4, <2>5
<1>3. ASSUME NEW d \in Indexers, IndexerFails(d), NEW t \in deployed' \ slipped'
      PROVE  TableIndexed(t)'
  <2>1. TableIndexed(t) /\ t \notin indexer[d].left
    BY <1>3 DEF IndexerFails
  <2>2. \A e \in Indexers : e # d => indexer'[e] = indexer[e]
    BY <1>3 DEF IndexerFails
  <2>3. indexer'[d].left = {} /\ indexer'[d].old = {}
    BY <1>3 DEF IndexerFails, Asleep
  <2>4. fragment' = fragment
    BY <1>3 DEF IndexerFails
  <2> QED
    BY <2>1, <2>2, <2>3, <2>4 DEF TableIndexed, Waiting
<1>4. CASE UNCHANGED fragmentVars
  BY <1>4 DEF fragmentVars, TableIndexed, Waiting
<1> QED
  BY <1>1, <1>2, <1>3, <1>4 DEF FragmentNext

LEMMA FragmentInductive == FragmentSpec => []FragmentIInv
BY FragmentStarts, FragmentStep, PTL DEF FragmentSpec

\* Every index task is at tables of the project, and every fragment is in one of
\* its states.
THEOREM FragmentTypeCorrect == FragmentSpec => []FragmentTypeOK
BY FragmentInductive, PTL DEF FragmentIInv

\* However index_ddl's tasks and the deployments fall, a table of the script
\* that no task is at any more has its current definition in the index, unless
\* two tasks had it at once or one failed before it.
THEOREM FragmentsAreFresh == FragmentSpec => []FragmentsFollowScript
<1>1. FragmentIInv => FragmentsFollowScript
  BY DEF FragmentIInv, TableIndexed, FragmentsFollowScript
<1> QED
  BY <1>1, FragmentInductive, PTL

-----------------------------------------------------------------------------
(***************************************************************************)
(* ChatTables: how many tables the list may still get.                     *)
(***************************************************************************)
ShownTables == {t \in TableNames : lookup.shown[t] > 0}

\* A table found is not looked up, and another one at most by its two names.
LookedUpTwice ==
    \A t \in TableNames :
        LET left == {name \in lookup.wanted : TableOf(name) = t} IN
        /\ left # {} => lookup.shown[t] <= 1
        /\ <<t, "stored">> \in left /\ <<t, "other">> \in left => lookup.shown[t] = 0

\* There is a slot for every name.
SlotsLeft ==
    lookup.at # "idle" =>
        Cardinality(ShownTables) + Cardinality(lookup.wanted) <= MaxTables

\* A table referred to is shown, looked for, or given up.
ReferencesAccounted ==
    lookup.at # "idle" =>
        \A name \in lookup.refs \ missed :
            name \in lookup.wanted \/ lookup.shown[TableOf(name)] > 0

TableIInv ==
    /\ TableTypeOK
    /\ LookedUpTwice
    /\ SlotsLeft
    /\ ReferencesAccounted
    /\ lookup.at # "expand" => lookup.wanted = {}
    /\ lookup.at = "built" => \A t \in TableNames : lookup.shown[t] <= 1

-----------------------------------------------------------------------------
LEMMA NamesFinite ==
    /\ \A S \in SUBSET TableNames : IsFiniteSet(S) /\ Cardinality(S) \in Nat
    /\ \A S \in SUBSET Names : IsFiniteSet(S) /\ Cardinality(S) \in Nat
<1>1. IsFiniteSet({"stored"}) /\ IsFiniteSet({"stored"} \cup {"other"})
  BY FS_Singleton, FS_AddElement
<1>2. {"stored"} \cup {"other"} = {"stored", "other"}
  OBVIOUS
<1>3. IsFiniteSet(Names)
  BY <1>1, <1>2, TableNamesAssumption, FS_Product DEF Names
<1> QED
  BY <1>3, TableNamesAssumption, FS_Subset, FS_CardinalityType

LEMMA OneMore ==
    ASSUME NEW S, NEW x, IsFiniteSet(S), NEW T, T \subseteq S \cup {x}
    PROVE  /\ Cardinality(T) <= Cardinality(S) + 1
           /\ Cardinality(T) \in Nat /\ Cardinality(S) \in Nat
<1> DEFINE U == S \cup {x}
<1>1. IsFiniteSet(U) /\ Cardinality(U) = IF x \in S THEN Cardinality(S) ELSE Cardinality(S) + 1
  BY FS_AddElement
<1>2. T \in SUBSET U
  OBVIOUS
<1> HIDE DEF U
<1>3. IsFiniteSet(T) /\ Cardinality(T) <= Cardinality(U)
  BY <1>1, <1>2, FS_Subset
<1>4. Cardinality(S) \in Nat /\ Cardinality(T) \in Nat
  BY <1>3, FS_CardinalityType
<1> QED
  BY <1>1, <1>3, <1>4

LEMMA TableStarts == TableInit => TableIInv
<1> SUFFICES ASSUME TableInit PROVE TableIInv
  OBVIOUS
<1> USE DEF TableInit, NoLookup
<1>1. TableTypeOK
  BY DEF TableTypeOK, Lookup
<1>2. LookedUpTwice
  BY DEF LookedUpTwice
<1> QED
  BY <1>1, <1>2 DEF TableIInv, SlotsLeft, ReferencesAccounted

\* The tables a name's turn can add to the list: its own.
LEMMA TurnOf ==
    ASSUME TableIInv, NEW name \in lookup.wanted, NEW near \in BOOLEAN,
           lookup' = [lookup EXCEPT !.wanted = LeftAfter(name, near),
                                    !.shown[TableOf(name)] = IF near THEN @ + 1 ELSE @]
    PROVE  LET t == TableOf(name) IN
           /\ t \in TableNames
           /\ lookup' \in Lookup
           /\ lookup'.at = lookup.at /\ lookup'.refs = lookup.refs
           /\ lookup'.wanted = lookup.wanted \ {name}
           /\ \A u \in TableNames : lookup'.shown[u] =
                 IF u = t /\ near THEN lookup.shown[u] + 1 ELSE lookup.shown[u]
<1> DEFINE t == TableOf(name)
           shown == [lookup.shown EXCEPT ![t] = IF near THEN @ + 1 ELSE @]
<1>1. lookup \in Lookup /\ t \in TableNames
  BY DEF TableIInv, TableTypeOK, Lookup, Names, TableOf
<1>2. lookup.shown[t] \in 0..1
  <2>1. name \in {n \in lookup.wanted : TableOf(n) = t}
    OBVIOUS
  <2>2. lookup.shown[t] <= 1
    BY <1>1, <2>1, Zenon DEF TableIInv, LookedUpTwice
  <2> QED
    BY <1>1, <2>2 DEF Lookup
<1>3. shown \in [TableNames -> 0..2]
  BY <1>1, <1>2 DEF Lookup
<1>4. lookup' = [lookup EXCEPT !.wanted = lookup.wanted \ {name}, !.shown = shown]
  BY DEF LeftAfter
<1>5. \A u \in TableNames : shown[u] =
          IF u = t /\ near THEN lookup.shown[u] + 1 ELSE lookup.shown[u]
  BY <1>1 DEF Lookup
<1> HIDE DEF shown
<1>6. lookup' \in Lookup
  BY <1>1, <1>3, <1>4 DEF Lookup
<1>7. /\ lookup'.at = lookup.at /\ lookup'.refs = lookup.refs
      /\ lookup'.wanted = lookup.wanted \ {name} /\ lookup'.shown = shown
  BY <1>1, <1>4 DEF Lookup
<1> QED
  BY <1>1, <1>5, <1>6, <1>7

LEMMA SearchStep == TableIInv /\ SearchTables => TableIInv'
<1> SUFFICES ASSUME TableIInv, SearchTables PROVE TableIInv'
  OBVIOUS
<1>1. PICK found \in SUBSET stored \ {{}}, refs \in SUBSET Names :
        /\ Cardinality(found) <= SearchWidth
        /\ \E wanted \in FirstOf(Outside(found, refs), found) :
              /\ lookup' = [at |-> "expand", found |-> found, refs |-> refs,
                            wanted |-> wanted,
                            shown |-> [t \in TableNames |-> IF t \in found THEN 1 ELSE 0]]
              /\ missed' = Outside(found, refs) \ wanted
  BY DEF SearchTables
<1>2. PICK wanted \in FirstOf(Outside(found, refs), found) :
        /\ lookup' = [at |-> "expand", found |-> found, refs |-> refs, wanted |-> wanted,
                      shown |-> [t \in TableNames |-> IF t \in found THEN 1 ELSE 0]]
        /\ missed' = Outside(found, refs) \ wanted
  BY <1>1
<1>3. found \subseteq TableNames /\ Outside(found, refs) \subseteq refs
  BY DEF TableIInv, TableTypeOK, Outside
<1>4. /\ wanted \subseteq Outside(found, refs)
      /\ Cardinality(wanted) <= MaxTables - Cardinality(found)
  <2> DEFINE names == Outside(found, refs)
             slots == MaxTables - Cardinality(found)
  <2>1. Cardinality(found) \in Nat /\ slots \in Int
    BY <1>3, NamesFinite, SearchWidthAssumption
  <2> HIDE DEF names, slots
  <2>2. wanted \in (IF Cardinality(names) <= slots THEN {names}
                    ELSE {some \in SUBSET names : Cardinality(some) = slots})
    BY DEF FirstOf, names, slots
  <2>3. wanted \subseteq names /\ Cardinality(wanted) <= slots
    BY <2>1, <2>2
  <2> QED
    BY <2>3 DEF names, slots
<1>5. \A t \in TableNames : lookup'.shown[t] = IF t \in found THEN 1 ELSE 0
  BY <1>2
<1>6. TableTypeOK'
  BY <1>2, <1>3, <1>4 DEF TableTypeOK, Lookup, TableIInv, SearchTables
<1>7. LookedUpTwice'
  <2>1. \A name \in wanted : TableOf(name) \notin found
    BY <1>4 DEF Outside
  <2> QED
    BY <1>2, <1>5, <2>1 DEF LookedUpTwice
<1>8. SlotsLeft'
  <2>1. ShownTables' = found
    BY <1>3, <1>5 DEF ShownTables
  <2>2. Cardinality(found) \in Nat /\ Cardinality(wanted) \in Nat
    BY <1>3, <1>4, NamesFinite
  <2> QED
    BY <1>2, <1>4, <2>1, <2>2, SearchWidthAssumption DEF SlotsLeft
<1>9. ReferencesAccounted'
  <2> SUFFICES ASSUME NEW name \in refs, name \notin missed'
               PROVE  name \in wanted \/ lookup'.shown[TableOf(name)] > 0
    BY <1>2 DEF ReferencesAccounted
  <2>1. CASE TableOf(name) \in found
    BY <1>3, <1>5, <2>1
  <2>2. CASE TableOf(name) \notin found
    BY <1>2, <2>2 DEF Outside
  <2> QED
    BY <2>1, <2>2
<1> QED
  BY <1>2, <1>6, <1>7, <1>8, <1>9 DEF TableIInv

LEMMA ExpandStep == TableIInv /\ ExpandName => TableIInv'
<1> SUFFICES ASSUME TableIInv, ExpandName PROVE TableIInv'
  OBVIOUS
<1>1. PICK name \in lookup.wanted, near \in BOOLEAN :
        /\ lookup' = [lookup EXCEPT !.wanted = LeftAfter(name, near),
                                    !.shown[TableOf(name)] = IF near THEN @ + 1 ELSE @]
        /\ missed' = IF near THEN missed ELSE missed \cup {name}
        /\ UNCHANGED stored
  BY DEF ExpandName
<1> DEFINE t == TableOf(name)
<1>2. /\ t \in TableNames /\ lookup' \in Lookup
      /\ lookup'.at = lookup.at /\ lookup'.refs = lookup.refs
      /\ lookup'.wanted = lookup.wanted \ {name}
      /\ \A u \in TableNames : lookup'.shown[u] =
            IF u = t /\ near THEN lookup.shown[u] + 1 ELSE lookup.shown[u]
  BY <1>1, TurnOf
<1>3. /\ lookup.wanted \subseteq Names /\ lookup.at = "expand"
      /\ lookup.refs \subseteq Names
      /\ \A u \in TableNames : lookup.shown[u] \in 0..2
  BY DEF TableIInv, TableTypeOK, Lookup
<1>4. TableTypeOK'
  BY <1>1, <1>2, <1>3 DEF TableTypeOK, TableIInv
<1>5. LookedUpTwice'
  <2> SUFFICES ASSUME NEW u \in TableNames
               PROVE  LET left == {n \in lookup'.wanted : TableOf(n) = u} IN
                      /\ left # {} => lookup'.shown[u] <= 1
                      /\ <<u, "stored">> \in left /\ <<u, "other">> \in left
                            => lookup'.shown[u] = 0
    BY DEF LookedUpTwice
  <2>1. CASE u # t
    BY <1>2, <2>1 DEF TableIInv, LookedUpTwice
  <2>2. CASE u = t
    <3>1. name = <<t, "stored">> \/ name = <<t, "other">>
      BY <1>3 DEF Names, TableOf
    <3>2. ASSUME NEW n \in lookup'.wanted, TableOf(n) = u
          PROVE  /\ n # name /\ n \in lookup.wanted
                 /\ n = <<t, "stored">> \/ n = <<t, "other">>
      BY <1>2, <1>3, <2>2, <3>2 DEF Names, TableOf
    <3>3. ASSUME NEW n \in lookup'.wanted, TableOf(n) = u PROVE lookup.shown[u] = 0
      <4>1. <<t, "stored">> \in lookup.wanted /\ <<t, "other">> \in lookup.wanted
        BY <3>1, <3>2, <3>3
      <4>2. TableOf(<<t, "stored">>) = t /\ TableOf(<<t, "other">>) = t
        BY DEF TableOf
      <4> QED
        BY <2>2, <4>1, <4>2 DEF TableIInv, LookedUpTwice
    <3>4. \A n \in lookup'.wanted : TableOf(n) = u => lookup'.shown[u] <= 1
      BY <1>2, <2>2, <3>3
    <3>5. ~(/\ <<u, "stored">> \in lookup'.wanted
            /\ <<u, "other">> \in lookup'.wanted)
      BY <1>2, <2>2, <3>1
    <3> QED
      BY <3>4, <3>5
  <2> QED
    BY <2>1, <2>2
<1>6. SlotsLeft'
  <2>1. ShownTables' \subseteq ShownTables \cup {t}
    BY <1>2 DEF ShownTables
  <2>2. IsFiniteSet(ShownTables) /\ IsFiniteSet(lookup.wanted)
    BY <1>3, NamesFinite DEF ShownTables
  <2>3. Cardinality(ShownTables') <= Cardinality(ShownTables) + 1
        /\ Cardinality(ShownTables') \in Nat /\ Cardinality(ShownTables) \in Nat
    BY <2>1, <2>2, OneMore
  <2>4. Cardinality(lookup'.wanted) = Cardinality(lookup.wanted) - 1
        /\ Cardinality(lookup.wanted) \in Nat
    BY <1>2, <2>2, FS_RemoveElement, FS_CardinalityType
  <2> QED
    BY <1>3, <2>3, <2>4, SearchWidthAssumption DEF TableIInv, SlotsLeft
<1>7. ReferencesAccounted'
  <2> SUFFICES ASSUME NEW n \in lookup.refs, n \notin missed'
               PROVE  n \in lookup'.wanted \/ lookup'.shown[TableOf(n)] > 0
    BY <1>2 DEF ReferencesAccounted
  <2>1. n \notin missed /\ TableOf(n) \in TableNames
    BY <1>1, <1>3 DEF Names, TableOf
  <2>2. CASE n = name
    BY <1>1, <1>2, <1>3, <2>2
  <2>3. CASE n # name
    <3>1. n \in lookup.wanted \/ lookup.shown[TableOf(n)] > 0
      BY <1>3, <2>1 DEF TableIInv, ReferencesAccounted
    <3> QED
      BY <1>2, <1>3, <2>1, <2>3, <3>1
  <2> QED
    BY <2>2, <2>3
<1> QED
  BY <1>2, <1>3, <1>4, <1>5, <1>6, <1>7 DEF TableIInv

LEMMA TableStep == TableIInv /\ [TableNext]_tableVars => TableIInv'
<1> SUFFICES ASSUME TableIInv, [TableNext]_tableVars PROVE TableIInv'
  OBVIOUS
<1>0. TableTypeOK /\ lookup \in Lookup /\ \A t \in TableNames : lookup.shown[t] \in 0..2
  BY DEF TableIInv, TableTypeOK, Lookup
<1>1. ASSUME UNCHANGED <<lookup, missed>>, TableTypeOK' PROVE TableIInv'
  BY <1>1 DEF TableIInv, LookedUpTwice, SlotsLeft, ReferencesAccounted, ShownTables
<1>2. CASE AddFragment
  BY <1>1, <1>2 DEF AddFragment, TableIInv, TableTypeOK
<1>3. CASE ExpandFails
  <2>1. /\ lookup' \in Lookup /\ lookup'.at = lookup.at /\ lookup'.refs = lookup.refs
        /\ lookup'.wanted = {} /\ lookup'.shown = lookup.shown
    BY <1>0, <1>3 DEF ExpandFails, Lookup
  <2>2. lookup.at = "expand"
    BY <1>3 DEF ExpandFails, TableIInv
  <2>3. missed' = missed \cup lookup.wanted /\ stored' = stored
    BY <1>3 DEF ExpandFails
  <2>4. TableTypeOK'
    BY <1>0, <2>1, <2>3 DEF TableTypeOK, Lookup
  <2>5. SlotsLeft'
    <3>1. ShownTables' = ShownTables /\ Cardinality(ShownTables) \in Nat
      BY <2>1, NamesFinite DEF ShownTables
    <3>2. Cardinality(lookup.wanted) \in Nat /\ Cardinality(lookup'.wanted) = 0
      BY <1>0, <2>1, NamesFinite, FS_EmptySet DEF Lookup
    <3> QED
      BY <2>1, <2>2, <3>1, <3>2, SearchWidthAssumption DEF TableIInv, SlotsLeft
  <2>6. LookedUpTwice' /\ ReferencesAccounted'
    BY <2>1, <2>2, <2>3 DEF TableIInv, LookedUpTwice, ReferencesAccounted
  <2> QED
    BY <2>1, <2>2, <2>4, <2>5, <2>6 DEF TableIInv
<1>4. CASE BuildTables
  <2> DEFINE shown == Deduplicated(lookup.shown)
  <2>1. lookup' = [lookup EXCEPT !.at = "built", !.shown = shown]
    BY <1>4 DEF BuildTables
  <2>2. \A t \in TableNames : shown[t] = IF lookup.shown[t] > 0 THEN 1 ELSE 0
    BY DEF Deduplicated
  <2>3. shown \in [TableNames -> 0..2]
    BY DEF Deduplicated
  <2> HIDE DEF shown
  <2>4. /\ lookup' \in Lookup /\ lookup'.at = "built" /\ lookup'.refs = lookup.refs
        /\ lookup'.wanted = lookup.wanted /\ lookup'.shown = shown
    BY <1>0, <2>1, <2>3 DEF Lookup
  <2>5. lookup.wanted = {} /\ missed' = missed /\ stored' = stored /\ lookup.at = "expand"
    BY <1>4 DEF BuildTables
  <2>6. TableTypeOK' /\ LookedUpTwice'
    BY <1>0, <2>4, <2>5 DEF TableTypeOK, LookedUpTwice
  <2>7. SlotsLeft'
    <3>1. ShownTables' = ShownTables
      BY <1>0, <2>2, <2>4 DEF ShownTables
    <3> QED
      BY <2>4, <2>5, <3>1 DEF TableIInv, SlotsLeft
  <2>8. ReferencesAccounted'
    <3>1. \A name \in lookup.refs : TableOf(name) \in TableNames
      BY <1>0 DEF Lookup, Names, TableOf
    <3> QED
      BY <2>2, <2>4, <2>5, <3>1 DEF TableIInv, ReferencesAccounted
  <2> QED
    BY <2>2, <2>4, <2>5, <2>6, <2>7, <2>8 DEF TableIInv
<1>5. CASE TablesShown
  <2>1. NoLookup \in Lookup
    BY DEF NoLookup, Lookup
  <2>2. TableTypeOK'
    BY <1>0, <1>5, <2>1 DEF TablesShown, TableTypeOK
  <2> QED
    BY <1>5, <2>2 DEF TablesShown, NoLookup, TableIInv, LookedUpTwice, SlotsLeft,
                      ReferencesAccounted
<1>6. CASE UNCHANGED tableVars
  BY <1>0, <1>1, <1>6 DEF tableVars, TableTypeOK
<1> QED
  BY <1>2, <1>3, <1>4, <1>5, <1>6, SearchStep, ExpandStep DEF TableNext

LEMMA TableInductive == TableSpec => []TableIInv
BY TableStarts, TableStep, PTL DEF TableSpec

\* No table is on the list more than twice before it is cleared of repetitions.
THEOREM TableTypeCorrect == TableSpec => []TableTypeOK
BY TableInductive, PTL DEF TableIInv

\* Whatever the search finds and the names refer to, the request shows each table
\* once, and no more than DEFAULT_DDL_MAX_TABLES of them.
THEOREM TablesOnce == TableSpec => []EachTableOnce
<1>1. TableIInv => EachTableOnce
  <2> SUFFICES ASSUME TableIInv, lookup.at = "built"
               PROVE  Cardinality(ShownTables) <= MaxTables
    BY DEF EachTableOnce, TableIInv, ShownTables
  <2>1. Cardinality(ShownTables) \in Nat /\ Cardinality(lookup.wanted) \in Nat
    BY NamesFinite DEF ShownTables, TableIInv, TableTypeOK, Lookup
  <2> QED
    BY <2>1, SearchWidthAssumption DEF TableIInv, SlotsLeft
<1> QED
  BY <1>1, TableInductive, PTL

\* What a table on the list refers to is on it too, unless its name was missed.
THEOREM TablesReferred == TableSpec => []ReferencesIncluded
<1>1. TableIInv => ReferencesIncluded
  BY DEF TableIInv, ReferencesAccounted, ReferencesIncluded
<1> QED
  BY <1>1, TableInductive, PTL

-----------------------------------------------------------------------------
(***************************************************************************)
(* ChatContext: what a request has found at each step is of its own        *)
(* conversation, and older than its own question.                          *)
(***************************************************************************)
OwnFindings(slot) ==
    /\ IF slot.at = "idle" THEN slot = NotAsking ELSE slot.talk \in Talks
    /\ \A i \in slot.hits \cup slot.history :
          i \in 1..Len(message) /\ message[i].talk = slot.talk
    /\ \A k \in slot.near \cup slot.terms : owner[k] = slot.talk
    /\ slot.at = "ask" => \A i \in slot.history : i < slot.question

ContextIInv == ContextTypeOK /\ \A a \in Askers : OwnFindings(asker[a])

-----------------------------------------------------------------------------
LEMMA NotAskingOwn == NotAsking \in Asker /\ OwnFindings(NotAsking)
  BY MaxMessagesAssumption DEF NotAsking, Asker, AskerSteps, OwnFindings

LEMMA ContextStarts == ContextInit => ContextIInv
<1> SUFFICES ASSUME ContextInit PROVE ContextIInv
  OBVIOUS
<1>1. NotAsking \in Asker
  BY NotAskingOwn
<1>2. message \in Seq(Row) /\ Len(message) = 0
  BY DEF ContextInit
<1>3. ContextTypeOK
  BY <1>1, <1>2, MaxMessagesAssumption DEF ContextInit, ContextTypeOK
<1>4. \A a \in Askers : OwnFindings(asker[a])
  BY NotAskingOwn DEF ContextInit
<1> QED
  BY <1>3, <1>4 DEF ContextIInv

\* Rows are only added, and a term's project is given to it once.
LEMMA FindingsStay ==
    ASSUME ContextTypeOK, NEW slot \in Asker, OwnFindings(slot),
           Len(message') >= Len(message), Len(message') \in Nat,
           \A i \in 1..Len(message) : message'[i] = message[i],
           \A k \in Terms : owner[k] = NoTalk \/ owner'[k] = owner[k]
    PROVE  OwnFindings(slot)'
<1>1. \A i \in slot.hits \cup slot.history :
          i \in 1..Len(message') /\ message'[i].talk = slot.talk
  BY DEF OwnFindings, ContextTypeOK
<1>2. \A k \in slot.near \cup slot.terms : owner'[k] = slot.talk
  BY NoTalkAssumption DEF OwnFindings, Asker, NotAsking
<1> QED
  BY <1>1, <1>2 DEF OwnFindings

\* A slot that a step moves, the rows staying as they are.
LEMMA SlotMoves ==
    ASSUME ContextIInv, NEW a \in Askers, NEW slot \in Asker, Become(a, slot),
           OwnFindings(slot), UNCHANGED rowVars
    PROVE  ContextIInv'
<1>1. asker' = [asker EXCEPT ![a] = slot]
  BY DEF Become
<1>2. ContextTypeOK'
  BY <1>1 DEF ContextIInv, ContextTypeOK, rowVars
<1>3. \A b \in Askers : asker'[b] = IF b = a THEN slot ELSE asker[b]
  BY <1>1 DEF ContextIInv, ContextTypeOK
<1>4. \A b \in Askers : OwnFindings(asker'[b])
  BY <1>3 DEF ContextIInv
<1>5. \A b \in Askers : OwnFindings(asker[b])'
  BY <1>4 DEF OwnFindings, rowVars
<1> QED
  BY <1>2, <1>5 DEF ContextIInv

\* A row that is added, and the slot that adds it.
LEMMA RowAdded ==
    ASSUME ContextIInv, NEW a \in Askers, NEW row \in Row, NEW slot \in Asker,
           Become(a, slot), OwnFindings(slot),
           Len(message) + 1 <= MaxMessages,
           message' = Append(message, row),
           toIndex' \in {toIndex, toIndex \cup {Len(message) + 1}},
           UNCHANGED <<talks, indexed, owner, dropped, explained>>
    PROVE  ContextIInv'
<1>1. asker' = [asker EXCEPT ![a] = slot]
  BY DEF Become
<1>2. /\ message \in Seq(Row) /\ message' \in Seq(Row)
      /\ Len(message) \in Nat /\ Len(message') = Len(message) + 1
      /\ \A i \in 1..Len(message) : message'[i] = message[i]
  BY AppendProperties DEF ContextIInv, ContextTypeOK
<1>3. toIndex' \in SUBSET (1..Len(message')) /\ indexed' \in SUBSET (1..Len(message'))
  BY <1>2 DEF ContextIInv, ContextTypeOK
<1>4. asker' \in [Askers -> Asker]
  BY <1>1 DEF ContextIInv, ContextTypeOK
<1>5. ContextTypeOK'
  BY <1>2, <1>3, <1>4 DEF ContextIInv, ContextTypeOK
<1>6. \A b \in Askers : asker'[b] = IF b = a THEN slot ELSE asker[b]
  BY <1>1 DEF ContextIInv, ContextTypeOK
<1>7. ASSUME NEW q \in Asker, OwnFindings(q) PROVE OwnFindings(q)'
  BY <1>2, <1>7, FindingsStay DEF ContextIInv
<1>8. ASSUME NEW b \in Askers PROVE OwnFindings(asker[b])'
  <2>1. asker'[b] \in Asker /\ OwnFindings(asker'[b])
    BY <1>4, <1>6 DEF ContextIInv
  <2> DEFINE q == asker'[b]
  <2>2. q \in Asker /\ OwnFindings(q)
    BY <2>1
  <2>3. OwnFindings(q) => \A i \in q.hits \cup q.history : i \in 1..Len(message)
    BY DEF OwnFindings
  <2> QED
    BY <1>2, <2>2, <2>3 DEF OwnFindings
<1> QED
  BY <1>5, <1>8 DEF ContextIInv

LEMMA ContextStep == ContextIInv /\ [ContextNext]_contextVars => ContextIInv'
<1> SUFFICES ASSUME ContextIInv, [ContextNext]_contextVars PROVE ContextIInv'
  OBVIOUS
<1> USE MaxMessagesAssumption
<1>0. ASSUME NEW a \in Askers PROVE asker[a] \in Asker /\ OwnFindings(asker[a])
  BY DEF ContextIInv, ContextTypeOK
<1>1. ASSUME NEW a \in Askers, AskStarts(a) PROVE ContextIInv'
  <2>1. PICK c \in talks : Become(a, [NotAsking EXCEPT !.at = "embed", !.talk = c])
    BY <1>1 DEF AskStarts
  <2> DEFINE slot == [NotAsking EXCEPT !.at = "embed", !.talk = c]
  <2>2. c \in Talks
    BY DEF ContextIInv, ContextTypeOK
  <2>3. slot \in Asker
    BY <2>2, NotAskingOwn DEF Asker, AskerSteps
  <2>4. OwnFindings(slot)
    BY <2>2 DEF OwnFindings, NotAsking
  <2> QED
    BY <1>1, <2>1, <2>3, <2>4, SlotMoves DEF AskStarts
<1>2. ASSUME NEW a \in Askers, EmbedQuestion(a) PROVE ContextIInv'
  <2>1. PICK next \in {"history", "recent"} : Become(a, [asker[a] EXCEPT !.at = next])
    BY <1>2 DEF EmbedQuestion
  <2> DEFINE slot == [asker[a] EXCEPT !.at = next]
  <2>2. slot \in Asker
    BY <1>0 DEF Asker, AskerSteps
  <2>3. OwnFindings(slot)
    BY <1>0, <1>2 DEF OwnFindings, EmbedQuestion, Asker
  <2> QED
    BY <1>2, <2>1, <2>2, <2>3, SlotMoves DEF EmbedQuestion
<1>3. ASSUME NEW a \in Askers, SearchHistory(a) PROVE ContextIInv'
  <2>1. PICK hits \in SUBSET HitsOf(asker[a].talk) :
          Become(a, [asker[a] EXCEPT !.at = "terms", !.hits = hits])
    BY <1>3 DEF SearchHistory
  <2> DEFINE slot == [asker[a] EXCEPT !.at = "terms", !.hits = hits]
  <2>2. \A i \in hits : /\ i \in 1..Len(message) /\ i \in 1..MaxMessages
                        /\ message[i].talk = asker[a].talk
    BY DEF HitsOf, ContextIInv, ContextTypeOK
  <2>3. slot \in Asker
    BY <1>0, <2>2 DEF Asker, AskerSteps
  <2>4. OwnFindings(slot)
    BY <1>0, <1>3, <2>2 DEF OwnFindings, SearchHistory, Asker
  <2> QED
    BY <1>3, <2>1, <2>3, <2>4, SlotMoves DEF SearchHistory
<1>4. ASSUME NEW a \in Askers, SearchTerms(a) PROVE ContextIInv'
  <2>1. PICK near \in SUBSET NearTerms(asker[a].talk) :
          Become(a, [asker[a] EXCEPT !.at = "rows", !.near = near])
    BY <1>4 DEF SearchTerms
  <2> DEFINE slot == [asker[a] EXCEPT !.at = "rows", !.near = near]
  <2>2. \A k \in near : k \in Terms /\ owner[k] = asker[a].talk
    BY DEF NearTerms, ContextIInv, ContextTypeOK
  <2>3. slot \in Asker
    BY <1>0, <2>2 DEF Asker, AskerSteps
  <2>4. OwnFindings(slot)
    BY <1>0, <1>4, <2>2 DEF OwnFindings, SearchTerms, Asker
  <2> QED
    BY <1>4, <2>1, <2>3, <2>4, SlotMoves DEF SearchTerms
<1>5. ASSUME NEW a \in Askers, ReadMessages(a) PROVE ContextIInv'
  <2> DEFINE found == {i \in asker[a].hits : There(i)}
             slot == [asker[a] EXCEPT !.at = "meanings", !.history = found, !.hits = {}]
  <2>1. Become(a, slot)
    BY <1>5 DEF ReadMessages
  <2>2. found \subseteq asker[a].hits
    OBVIOUS
  <2> HIDE DEF found
  <2>3. slot \in Asker
    BY <1>0, <2>2 DEF Asker, AskerSteps
  <2>4. OwnFindings(slot)
    BY <1>0, <1>5, <2>2 DEF OwnFindings, ReadMessages, Asker
  <2> QED
    BY <1>5, <2>1, <2>3, <2>4, SlotMoves DEF ReadMessages
<1>6. ASSUME NEW a \in Askers, ReadTerms(a) PROVE ContextIInv'
  <2> DEFINE found == asker[a].near \cap UNION {ProjectTerms(c) : c \in Talks}
             slot == [asker[a] EXCEPT !.at = "save", !.terms = found, !.near = {}]
  <2>1. Become(a, slot)
    BY <1>6 DEF ReadTerms
  <2>2. found \subseteq asker[a].near
    OBVIOUS
  <2> HIDE DEF found
  <2>3. slot \in Asker
    BY <1>0, <2>2 DEF Asker, AskerSteps
  <2>4. OwnFindings(slot)
    BY <1>0, <1>6, <2>2 DEF OwnFindings, ReadTerms, Asker
  <2> QED
    BY <1>6, <2>1, <2>3, <2>4, SlotMoves DEF ReadTerms
<1>7. ASSUME NEW a \in Askers, ReadRecent(a) PROVE ContextIInv'
  <2> DEFINE c == asker[a].talk
             rows == {i \in 1..Len(message) : message[i].talk = c /\ There(i)}
             terms == ProjectTerms(c)
             slot == [asker[a] EXCEPT !.at = "save", !.history = rows, !.terms = terms]
  <2>1. Become(a, slot)
    BY <1>7 DEF ReadRecent
  <2>2. \A i \in rows : /\ i \in 1..Len(message) /\ i \in 1..MaxMessages
                        /\ message[i].talk = c
    BY DEF ContextIInv, ContextTypeOK
  <2>3. \A k \in terms : k \in Terms /\ owner[k] = c
    BY DEF ProjectTerms
  <2> HIDE DEF rows, terms
  <2>4. slot \in Asker
    BY <1>0, <2>2, <2>3 DEF Asker, AskerSteps
  <2>5. OwnFindings(slot)
    BY <1>0, <1>7, <2>2, <2>3 DEF OwnFindings, ReadRecent, Asker
  <2> QED
    BY <1>7, <2>1, <2>4, <2>5, SlotMoves DEF ReadRecent
<1>8. ASSUME NEW a \in Askers, SaveQuestion(a) PROVE ContextIInv'
  <2> DEFINE id == Len(message) + 1
             row == [talk |-> asker[a].talk, role |-> "user"]
             slot == [asker[a] EXCEPT !.at = "ask", !.question = id]
  <2>1. CASE asker[a].talk \notin talks
    BY <1>8, <2>1, NotAskingOwn, SlotMoves DEF SaveQuestion, rowVars
  <2>2. CASE asker[a].talk \in talks
    <3>1. row \in Row
      BY <2>2 DEF Row, ContextIInv, ContextTypeOK
    <3>2. id \in 0..MaxMessages /\ \A i \in 1..Len(message) : i < id
      BY <1>8 DEF SaveQuestion, ContextIInv, ContextTypeOK
    <3>3. message' = Append(message, row) /\ toIndex' = toIndex \cup {id} /\ Become(a, slot)
          /\ id <= MaxMessages /\ UNCHANGED <<talks, indexed, owner, dropped, explained>>
      BY <1>8, <2>2 DEF SaveQuestion
    <3> HIDE DEF id, row
    <3>4. slot \in Asker
      BY <1>0, <3>2 DEF Asker, AskerSteps
    <3>5. OwnFindings(slot)
      BY <1>0, <1>8, <3>2 DEF OwnFindings, SaveQuestion, Asker
    <3> QED
      BY <3>1, <3>3, <3>4, <3>5, RowAdded DEF id
  <2> QED
    BY <2>1, <2>2
<1>9. ASSUME NEW a \in Askers, SaveReply(a) PROVE ContextIInv'
  <2> DEFINE id == Len(message) + 1
             row == [talk |-> asker[a].talk, role |-> "assistant"]
  <2>1. CASE UNCHANGED <<message, toIndex>>
    BY <1>9, <2>1, NotAskingOwn, SlotMoves DEF SaveReply, rowVars
  <2>2. CASE /\ asker[a].talk \in talks /\ id <= MaxMessages
             /\ message' = Append(message, row) /\ toIndex' \in {toIndex, toIndex \cup {id}}
    <3>1. row \in Row
      BY <2>2 DEF Row, ContextIInv, ContextTypeOK
    <3> QED
      BY <1>9, <2>2, <3>1, NotAskingOwn, RowAdded DEF SaveReply
  <2> QED
    BY <1>9, <2>1, <2>2 DEF SaveReply
<1>10. ASSUME UNCHANGED <<message, asker>>, ContextTypeOK',
              \A k \in Terms : owner[k] = NoTalk \/ owner'[k] = owner[k]
       PROVE  ContextIInv'
  <2>1. Len(message) \in Nat
    BY DEF ContextIInv, ContextTypeOK
  <2>2. ASSUME NEW a \in Askers PROVE OwnFindings(asker[a])'
    <3>1. asker[a] \in Asker /\ OwnFindings(asker[a]) /\ asker'[a] = asker[a]
      BY <1>0, <1>10
    <3>2. \A k \in asker[a].near \cup asker[a].terms : owner'[k] = owner[k]
      BY <1>10, <3>1, NoTalkAssumption DEF OwnFindings, NotAsking, Asker
    <3> QED
      BY <1>10, <3>1, <3>2 DEF OwnFindings
  <2> QED
    BY <1>10, <2>2 DEF ContextIInv
<1>11. ASSUME NEW i \in 1..Len(message), IndexMessage(i) \/ IndexMessageFails(i)
       PROVE  ContextIInv'
  <2>1. ContextTypeOK'
    BY <1>11 DEF IndexMessage, IndexMessageFails, ContextIInv, ContextTypeOK
  <2> QED
    BY <1>10, <1>11, <2>1 DEF IndexMessage, IndexMessageFails
<1>12. ASSUME NEW c \in Talks, DeleteTalk(c) PROVE ContextIInv'
  <2>1. ContextTypeOK'
    BY <1>12 DEF DeleteTalk, ContextIInv, ContextTypeOK
  <2> QED
    BY <1>10, <1>12, <2>1 DEF DeleteTalk
<1>13. ASSUME NEW k \in Terms, IndexTerm(k) \/ DropTerm(k) \/ ForgetTerm(k)
       PROVE  ContextIInv'
  <2>1. ContextTypeOK'
    BY <1>13 DEF IndexTerm, DropTerm, ForgetTerm, ContextIInv, ContextTypeOK
  <2> QED
    BY <1>10, <1>13, <2>1 DEF IndexTerm, DropTerm, ForgetTerm
<1>14. ASSUME NEW k \in Terms, NEW c \in Talks, AddTerm(k, c) PROVE ContextIInv'
  <2>1. ContextTypeOK'
    BY <1>14 DEF AddTerm, ContextIInv, ContextTypeOK
  <2>2. \A j \in Terms : owner[j] = NoTalk \/ owner'[j] = owner[j]
    BY <1>14 DEF AddTerm, ContextIInv, ContextTypeOK
  <2> QED
    BY <1>10, <1>14, <2>1, <2>2 DEF AddTerm
<1>15. CASE UNCHANGED contextVars
  <2>1. ContextTypeOK'
    BY <1>15 DEF contextVars, ContextIInv, ContextTypeOK
  <2> QED
    BY <1>10, <1>15, <2>1 DEF contextVars
<1> QED
  BY <1>1, <1>2, <1>3, <1>4, <1>5, <1>6, <1>7, <1>8, <1>9, <1>11, <1>12, <1>13, <1>14, <1>15
  DEF ContextNext

LEMMA ContextInductive == ContextSpec => []ContextIInv
BY ContextStarts, ContextStep, PTL DEF ContextSpec

\* A request holds rows and terms that are there, at one of its steps.
THEOREM ContextTypeCorrect == ContextSpec => []ContextTypeOK
BY ContextInductive, PTL DEF ContextIInv

\* Whatever is deleted, added and indexed while a request retrieves its context,
\* its prompt quotes earlier questions of its own conversation only, and terms of
\* its own project.
THEOREM OwnContext == ContextSpec => []ContextIsOwn
<1>1. ContextIInv => ContextIsOwn
  <2> SUFFICES ASSUME ContextIInv, NEW a \in Askers, asker[a].at = "ask"
               PROVE  /\ \A i \in Shown(a) :
                            /\ message[i] = [talk |-> asker[a].talk, role |-> "user"]
                            /\ i < asker[a].question
                      /\ \A k \in asker[a].terms : owner[k] = asker[a].talk
    BY DEF ContextIsOwn
  <2>1. OwnFindings(asker[a]) /\ message \in Seq(Row)
    BY DEF ContextIInv, ContextTypeOK
  <2>2. ASSUME NEW i \in Shown(a)
        PROVE  message[i] = [talk |-> asker[a].talk, role |-> "user"]
    <3>1. message[i] \in Row /\ message[i].talk = asker[a].talk /\ message[i].role = "user"
      BY <2>1, <2>2 DEF Shown, OwnFindings
    <3> QED
      BY <3>1 DEF Row
  <2> QED
    BY <2>1, <2>2 DEF Shown, OwnFindings
<1> QED
  BY <1>1, ContextInductive, PTL
=============================================================================
