---------------------------- MODULE ModelChoice ----------------------------
(***************************************************************************)
(* Which AI model a question of one conversation goes to.  The models are  *)
(* rows that administrators add, rename and delete; a list in the code     *)
(* stands in for them while there are none or they cannot be read.  The    *)
(* question's own choice comes first, then the model the conversation      *)
(* remembers, then the oldest one; what it comes to is remembered.         *)
(*                                                                         *)
(* The conversation, the list and the oldest row are three reads, and the  *)
(* model is remembered in the commit that stores the question.             *)
(***************************************************************************)
EXTENDS Naturals, Sequences, SequencesExt

CONSTANTS
    Models,       \* names
    BuiltIn,      \* DEFAULT_MODEL, and all of FALLBACK_MODEL_REGISTRY
    LongNames,    \* names that model_name holds and current_model does not
    Questions,    \* slots for questions
    MaxRows,      \* bound on the rows
    NoModel       \* no choice, nothing remembered

ASSUME ModelsAssumption ==
    BuiltIn \in Models \ LongNames /\ LongNames \subseteq Models /\ NoModel \notin Models
ASSUME MaxRowsAssumption == MaxRows \in Nat

VARIABLES
    rows,      \* ai_model_config, oldest first, by name
    memory,    \* session.current_model
    question,  \* questions being served
    crossed    \* history: questions whose reads were overtaken

choiceVars == <<rows, memory, question, crossed>>

ChoiceSteps == {"idle", "list", "oldest", "store", "ask"}
Question == [at : ChoiceSteps, choice : Models \cup {NoModel}, seen : Models \cup {NoModel},
             list : Seq(Models), key : Models \cup {NoModel}]

Unasked == [at |-> "idle", choice |-> NoModel, seen |-> NoModel, list |-> <<>>, key |-> NoModel]

ChoiceTypeOK ==
    /\ rows \in Seq(Models)
    /\ Len(rows) <= MaxRows
    /\ memory \in (Models \ LongNames) \cup {NoModel}
    /\ question \in [Questions -> Question]
    /\ crossed \in SUBSET Questions

ChoiceInit ==
    /\ rows = <<>>
    /\ memory = NoModel
    /\ question = [c \in Questions |-> Unasked]
    /\ crossed = {}

-----------------------------------------------------------------------------
(***************************************************************************)
(* Questions.                                                              *)
(***************************************************************************)
Stands(c, step) == question[c].at = step

\* The conversation is read, with the model it remembers.
AskWith(c, choice) ==
    /\ question[c] = Unasked
    /\ question' = [question EXCEPT ![c] =
                      [@ EXCEPT !.at = "list", !.choice = choice, !.seen = memory]]
    /\ crossed' = crossed \ {c}
    /\ UNCHANGED <<rows, memory>>

\* get_model_registry; an error that is caught reads no row.
ReadList(c) ==
    /\ Stands(c, "list")
    /\ \E failed \in BOOLEAN :
          question' = [question EXCEPT ![c] =
              [@ EXCEPT !.at = "oldest",
                        !.list = IF failed \/ rows = <<>> THEN <<BuiltIn>> ELSE rows]]
    /\ UNCHANGED <<rows, memory, crossed>>

\* Mutant: whatever is remembered comes before the oldest model.
ResolveRemembered(q, oldest) ==
    CASE q.choice \in ToSet(q.list) -> q.choice
      [] q.choice \notin ToSet(q.list) /\ q.seen # NoModel -> q.seen
      [] OTHER -> oldest

\* _resolve_model_key.
Resolve(q, oldest) ==
    CASE q.choice \in ToSet(q.list) -> q.choice
      [] q.choice \notin ToSet(q.list) /\ q.seen \in ToSet(q.list) -> q.seen
      [] OTHER -> oldest

\* get_default_model_key, a query of its own, which may fail on its own.
ReadOldest(c) ==
    /\ Stands(c, "oldest")
    /\ \E oldest \in {BuiltIn, IF rows = <<>> THEN BuiltIn ELSE Head(rows)} :
          /\ question' = [question EXCEPT ![c] =
                 [@ EXCEPT !.at = "store", !.choice = NoModel, !.key = Resolve(question[c], oldest)]]
          /\ crossed' = IF oldest # Head(question[c].list) THEN crossed \cup {c} ELSE crossed
    /\ UNCHANGED <<rows, memory>>

\* _update_session_model: the column is written if it is not what was read.
Remembers(q) == IF q.key = q.seen THEN memory ELSE q.key

\* current_model has 50 characters, model_name has 200.
Fits(m) == m \notin LongNames

\* The question is stored, and current_model with it; a name too long for the
\* column makes the commit, and the call, fail.
StoreQuestion(c) ==
    LET q == question[c] IN
    /\ Stands(c, "store")
    /\ IF ~Fits(Remembers(q))
       THEN UNCHANGED <<memory, crossed>> /\ question' = [question EXCEPT ![c] = Unasked]
       ELSE /\ memory' = Remembers(q)
            /\ question' = [question EXCEPT ![c] = [@ EXCEPT !.at = "ask", !.seen = NoModel]]
            /\ crossed' = crossed
                 \cup {d \in Questions \ {c} : question[d] # Unasked /\ memory' # memory}
                 \cup {d \in {c} : q.seen # memory}
    /\ UNCHANGED rows

\* Mutant: the key is taken as it is.
TargetKey(q) == q.key

\* call_ai_agent: the key, if the list has it, else DEFAULT_MODEL, else the first.
Target(q) ==
    CASE q.key \in ToSet(q.list) -> q.key
      [] q.key \notin ToSet(q.list) /\ BuiltIn \in ToSet(q.list) -> BuiltIn
      [] OTHER -> Head(q.list)

\* The answer, a refusal or a timeout of the model.
AskModel(c) ==
    /\ Stands(c, "ask")
    /\ question' = [question EXCEPT ![c] = Unasked]
    /\ UNCHANGED <<rows, memory, crossed>>

-----------------------------------------------------------------------------
(***************************************************************************)
(* Administrators.  The unique column refuses what the check before it let *)
(* through.                                                                *)
(***************************************************************************)
AddModel(m) ==
    /\ m \notin ToSet(rows)
    /\ Len(rows) < MaxRows
    /\ rows' = Append(rows, m)
    /\ UNCHANGED <<memory, question, crossed>>

RenameModel(i, m) ==
    /\ m \notin ToSet(rows)
    /\ rows' = [rows EXCEPT ![i] = m]
    /\ UNCHANGED <<memory, question, crossed>>

DeleteModel(i) ==
    /\ rows' = RemoveAt(rows, i)
    /\ UNCHANGED <<memory, question, crossed>>

ChoiceNext ==
    \/ \E c \in Questions :
          \/ \E choice \in Models \cup {NoModel} : AskWith(c, choice)
          \/ ReadList(c) \/ ReadOldest(c) \/ StoreQuestion(c) \/ AskModel(c)
    \/ \E m \in Models :
          \/ AddModel(m)
          \/ \E i \in 1..Len(rows) : RenameModel(i, m)
    \/ \E i \in 1..Len(rows) : DeleteModel(i)

ChoiceSpec == ChoiceInit /\ [][ChoiceNext]_choiceVars

-----------------------------------------------------------------------------
(***************************************************************************)
(* What holds.                                                             *)
(***************************************************************************)

\* A question goes to a model of the list it read (the address and the key come
\* from there), although the default is a later read than the list.
TargetIsListed ==
    \A c \in Questions : Stands(c, "ask") => Target(question[c]) \in ToSet(question[c].list)

\* While a question waits for its answer, the conversation remembers the model
\* it went to, unless the oldest model was another one than the list said, or
\* two questions of the conversation crossed.
RemembersTarget ==
    \A c \in Questions \ crossed : Stands(c, "ask") => memory = Target(question[c])
=============================================================================
