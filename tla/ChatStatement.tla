--------------------------- MODULE ChatStatement ---------------------------
(***************************************************************************)
(* The statements the AI writes in one conversation: service/              *)
(* chat_service.py over the rows of message and ai_generated_statement.    *)
(* A question is answered by a message; a statement whose type the lists   *)
(* of the service call a change of data waits in it for a confirmation or  *)
(* a cancellation, anything else is executed at once or refused.  What a   *)
(* statement does and whether the lists name its type are two things.      *)
(*                                                                         *)
(* Each handler reads its rows, awaits, and later commits the columns it   *)
(* assigned (the session flushes those only, and keeps what it read); each *)
(* of those commits, and each execution in the user database, is an        *)
(* action.  Requests by others than the owner of the project and requests  *)
(* about rows that are not there are refused before anything is written    *)
(* and are left out, and so are the messages that hold the questions.      *)
(***************************************************************************)
EXTENDS Naturals

CONSTANTS
    Messages,  \* message ids of answers, handed out by the database
    Calls,     \* slots for API calls
    MayStop,   \* whether a process may stop in the middle of a call
    None       \* no message

ASSUME NoneAssumption == None \notin Messages
ASSUME MayStopAssumption == MayStop \in BOOLEAN

VARIABLES
    open,       \* the session row exists
    message,    \* the answers
    statement,  \* execution_status of the statement of an answer, or "none"
    call,       \* API calls being served
    kind,       \* what the AI answered: what its statement does, and whether the lists name it
    ran,        \* history: executions in the user database, 2 standing for more
    asked       \* history: answers whose confirmation was accepted

vars == <<open, message, statement, call, kind, ran, asked>>

-----------------------------------------------------------------------------
\* What an answer can be.  A query: nothing of it lasts, be it that its type is
\* not recognised and it is executed as a query, behind the rules for queries
\* and without a commit.  A change of data or of tables with a type that the
\* lists below name, or that they do not name: REPLACE and MERGE change data;
\* CREATE OR REPLACE is a type of its own, and a view created after a leading
\* comment has none and passes the rules.  No statement: the AI failed or gave up.
Kinds == {"query", "dml", "ddl", "unlisted_dml", "unlisted_ddl", "reply"}

ChangesData(k) == k \in {"dml", "unlisted_dml"}

ChangesTables(k) == k \in {"ddl", "unlisted_ddl"}

Unlisted(k) == k \in {"unlisted_dml", "unlisted_ddl"}

\* Without the changes of data.
RequiresConfirmationDdlOnly(k) == k = "ddl"

RequiresConfirmation(k) == k \in {"dml", "ddl"}

Forbidden(k) == k = "ddl"

\* The table refuses a row with any other execution_status.
Statuses == {"pending", "completed", "failed"}

\* A content shows the statement, an error or a reply; a cancellation is
\* appended to it.
Contents == {"none", "statement", "error", "reply"}

Message == [row : {"none", "there", "gone"},
            content : Contents,
            cancelled : BOOLEAN,
            requires : BOOLEAN,
            confirmed : BOOLEAN]

NoMessage == [row |-> "none", content |-> "none", cancelled |-> FALSE,
              requires |-> FALSE, confirmed |-> FALSE]

\* A call: the await it is at, the answer, the content or the execution status
\* it holds, and whether it has seen a statement.
Call == [at : {"idle", "ai", "run", "answer", "attach", "confirm", "record", "fail", "cancel"},
         message : Messages \cup {None},
         content : Contents,
         status : {"none", "success"} \cup Statuses,
         saw : BOOLEAN]

Idle == [at |-> "idle", message |-> None, content |-> "none", status |-> "none", saw |-> FALSE]

TypeOK ==
    /\ open \in BOOLEAN
    /\ message \in [Messages -> Message]
    /\ statement \in [Messages -> {"none"} \cup Statuses]
    /\ call \in [Calls -> Call]
    /\ kind \in [Messages -> {"none"} \cup Kinds]
    /\ ran \in [Messages -> 0..2]
    /\ asked \subseteq Messages

Init ==
    /\ open = TRUE
    /\ message = [m \in Messages |-> NoMessage]
    /\ statement = [m \in Messages |-> "none"]
    /\ call = [c \in Calls |-> Idle]
    /\ kind = [m \in Messages |-> "none"]
    /\ ran = [m \in Messages |-> 0]
    /\ asked = {}

At(c, step) == call[c].at = step

Become(c, record) == call' = [call EXCEPT ![c] = record]

GoTo(c, step, status) == Become(c, [call[c] EXCEPT !.at = step, !.status = status])

Return(c) == Become(c, Idle)

There(m) == message[m].row = "there"

\* The user database executes the statement of m and says how it went.  An
\* answer that is lost at the commit reports a failure of what has been done.
Execute(m, status) ==
    \E done \in {TRUE, status = "success"} :
        ran' = [ran EXCEPT ![m] = IF ~done THEN @ ELSE IF @ = 0 THEN 1 ELSE 2]

-----------------------------------------------------------------------------
\* A question.  It is stored, and the transaction is over before the AI is
\* asked, or before a word of cancellation is replied to.
Ask(c) ==
    /\ At(c, "idle")
    /\ open
    /\ GoTo(c, "ai", "none")
    /\ UNCHANGED <<open, message, statement, kind, ran, asked>>

\* The AI answers, and the type of the statement decides.
Answer(c, m, k) ==
    /\ At(c, "ai")
    /\ kind[m] = "none"
    /\ kind' = [kind EXCEPT ![m] = k]
    /\ Become(c, [Idle EXCEPT !.at = IF k = "reply" \/ RequiresConfirmation(k) THEN "answer" ELSE "run",
                              !.message = m,
                              !.status = IF Forbidden(k) THEN "failed" ELSE "pending"])
    /\ UNCHANGED <<open, message, statement, ran, asked>>

\* A statement that needs no confirmation is executed.
RunAtOnce(c, status) ==
    /\ At(c, "run")
    /\ Execute(call[c].message, status)
    /\ GoTo(c, "answer", status)
    /\ UNCHANGED <<open, message, statement, kind, asked>>

\* The answer is committed, as one that needs no confirmation yet; its session
\* may be gone, which the foreign key refuses.
SaveMessage(c) ==
    LET m == call[c].message
        shown == IF call[c].status = "failed" THEN "error"
                 ELSE IF kind[m] = "reply" THEN "reply" ELSE "statement"
    IN  /\ At(c, "answer")
        /\ message' = IF open THEN [message EXCEPT ![m] = [NoMessage EXCEPT !.row = "there", !.content = shown]]
                      ELSE message
        /\ IF open /\ kind[m] # "reply" THEN GoTo(c, "attach", call[c].status) ELSE Return(c)
        /\ UNCHANGED <<open, statement, kind, ran, asked>>

\* The confirmation is asked for whatever the type, as it is executed.
SaveStatementDdlToo(c) ==
    LET m == call[c].message
    IN  /\ At(c, "attach")
        /\ IF There(m) /\ call[c].status \in Statuses
           THEN /\ message' = [message EXCEPT ![m].requires = RequiresConfirmation(kind[m])]
                /\ statement' = [statement EXCEPT ![m] = call[c].status]
           ELSE UNCHANGED <<message, statement>>
        /\ Return(c)
        /\ UNCHANGED <<open, kind, ran, asked>>

\* The table has no constraint.
SaveStatementUnconstrained(c) ==
    LET m == call[c].message
    IN  /\ At(c, "attach")
        /\ IF There(m)
           THEN /\ message' = [message EXCEPT ![m].requires = RequiresConfirmation(kind[m]) /\ ~Forbidden(kind[m])]
                /\ statement' = [statement EXCEPT ![m] = call[c].status]
           ELSE UNCHANGED <<message, statement>>
        /\ Return(c)
        /\ UNCHANGED <<open, kind, ran, asked>>

\* The row is written as a new one, so that an earlier cancellation is lost.
SaveStatementReopens(c) ==
    LET m == call[c].message
    IN  /\ At(c, "attach")
        /\ IF There(m) /\ call[c].status \in Statuses
           THEN /\ message' = [message EXCEPT ![m].requires = RequiresConfirmation(kind[m]) /\ ~Forbidden(kind[m]),
                                              ![m].confirmed = FALSE]
                /\ statement' = [statement EXCEPT ![m] = call[c].status]
           ELSE UNCHANGED <<message, statement>>
        /\ Return(c)
        /\ UNCHANGED <<open, kind, ran, asked>>

\* The statement is attached, and the need for a confirmation marked, by a
\* second commit.  The constraint refuses the status "success", so the commit
\* fails and with it the call: the answer stays without its statement.
SaveStatement(c) ==
    LET m == call[c].message
    IN  /\ At(c, "attach")
        /\ IF There(m) /\ call[c].status \in Statuses
           THEN /\ message' = [message EXCEPT ![m].requires = RequiresConfirmation(kind[m]) /\ ~Forbidden(kind[m])]
                /\ statement' = [statement EXCEPT ![m] = call[c].status]
           ELSE UNCHANGED <<message, statement>>
        /\ Return(c)
        /\ UNCHANGED <<open, kind, ran, asked>>

-----------------------------------------------------------------------------
\* What a confirmation is accepted for.
Confirmable(m) == There(m) /\ message[m].requires /\ ~message[m].confirmed

\* Whether the answer has been confirmed already is not looked at.
ConfirmReadAgain(c, m) ==
    /\ At(c, "idle")
    /\ There(m) /\ message[m].requires
    /\ Become(c, [Idle EXCEPT !.at = "confirm", !.message = m, !.content = message[m].content])
    /\ asked' = asked \cup {m}
    /\ UNCHANGED <<open, message, statement, kind, ran>>

\* The answer is read, and the statement taken from its content.
ConfirmRead(c, m) ==
    /\ At(c, "idle")
    /\ Confirmable(m)
    /\ Become(c, [Idle EXCEPT !.at = "confirm", !.message = m, !.content = message[m].content])
    /\ asked' = asked \cup {m}
    /\ UNCHANGED <<open, message, statement, kind, ran>>

\* The statement is executed in the user database.
ConfirmRun(c, status) ==
    /\ At(c, "confirm")
    /\ Execute(call[c].message, status)
    /\ GoTo(c, IF status = "success" THEN "record" ELSE "fail", status)
    /\ UNCHANGED <<open, message, statement, kind, asked>>

\* After a success the answer and the statement are written in one commit,
\* with a status that the constraint refuses.  Writing the error then fails
\* too, on a session whose transaction has been rolled back.
ConfirmRecord(c) ==
    LET m == call[c].message
    IN  /\ At(c, "record")
        /\ IF There(m) /\ call[c].status \in Statuses
           THEN /\ message' = [message EXCEPT ![m].confirmed = TRUE]
                /\ statement' = [statement EXCEPT ![m] = call[c].status]
           ELSE UNCHANGED <<message, statement>>
        /\ Return(c)
        /\ UNCHANGED <<open, kind, ran, asked>>

\* After a failure the error replaces the content, and the answer counts as
\* confirmed.
ConfirmFail(c) ==
    LET m == call[c].message
    IN  /\ At(c, "fail")
        /\ IF There(m)
           THEN message' = [message EXCEPT ![m].confirmed = TRUE, ![m].content = "error", ![m].cancelled = FALSE]
           ELSE UNCHANGED message
        /\ statement' = [statement EXCEPT ![m] = IF @ = "none" THEN @ ELSE "failed"]
        /\ Return(c)
        /\ UNCHANGED <<open, kind, ran, asked>>

-----------------------------------------------------------------------------
\* A cancellation reads the answer and its statement, if there is one yet; it
\* does not ask whether the answer waits for a confirmation.
CancelRead(c, m) ==
    /\ At(c, "idle")
    /\ There(m)
    /\ Become(c, [Idle EXCEPT !.at = "cancel", !.message = m, !.content = message[m].content,
                              !.saw = statement[m] # "none"])
    /\ UNCHANGED <<open, message, statement, kind, ran, asked>>

\* The buttons are left where they are.
CancelWriteOpen(c) ==
    LET m == call[c].message
    IN  /\ At(c, "cancel")
        /\ IF There(m)
           THEN /\ message' = [message EXCEPT ![m].content = call[c].content, ![m].cancelled = TRUE]
                /\ statement' = [statement EXCEPT ![m] = IF call[c].saw THEN "failed" ELSE @]
           ELSE UNCHANGED <<message, statement>>
        /\ Return(c)
        /\ UNCHANGED <<open, kind, ran, asked>>

\* It appends its notice to the content it has read, marks the answer as
\* confirmed and the statement as failed, in one commit.
CancelWrite(c) ==
    LET m == call[c].message
    IN  /\ At(c, "cancel")
        /\ IF There(m)
           THEN /\ message' = [message EXCEPT ![m].content = call[c].content, ![m].cancelled = TRUE, ![m].confirmed = TRUE]
                /\ statement' = [statement EXCEPT ![m] = IF call[c].saw THEN "failed" ELSE @]
           ELSE UNCHANGED <<message, statement>>
        /\ Return(c)
        /\ UNCHANGED <<open, kind, ran, asked>>

\* The session is removed, and by the foreign keys its messages and statements.
DeleteSession ==
    /\ open
    /\ open' = FALSE
    /\ message' = [m \in Messages |-> IF There(m) THEN [NoMessage EXCEPT !.row = "gone"] ELSE message[m]]
    /\ statement' = [m \in Messages |-> "none"]
    /\ UNCHANGED <<call, kind, ran, asked>>

\* A call ends without its next step: the process is stopped, or the meta
\* database cannot be reached.
Stop(c) ==
    /\ MayStop
    /\ ~At(c, "idle")
    /\ Return(c)
    /\ UNCHANGED <<open, message, statement, kind, ran, asked>>

Step(c) ==
    \/ Ask(c)
    \/ \E m \in Messages, k \in Kinds : Answer(c, m, k)
    \/ \E status \in {"success", "failed"} : RunAtOnce(c, status) \/ ConfirmRun(c, status)
    \/ SaveMessage(c)
    \/ SaveStatement(c)
    \/ \E m \in Messages : ConfirmRead(c, m) \/ CancelRead(c, m)
    \/ ConfirmRecord(c)
    \/ ConfirmFail(c)
    \/ CancelWrite(c)
    \/ Stop(c)

Next == DeleteSession \/ \E c \in Calls : Step(c)

Spec == Init /\ [][Next]_vars

-----------------------------------------------------------------------------
(***************************************************************************)
(* Properties.                                                             *)
(***************************************************************************)

\* The history of the conversation shows the buttons of a statement that
\* changes data and is not confirmed.
Offered(m) == statement[m] # "none" /\ kind[m] = "dml" /\ ~message[m].confirmed

\* The history offers exactly what a confirmation is accepted for; the
\* statement is then still pending and the content shows it, so the text a
\* confirmation takes from the content is that statement and not an error or
\* a notice that another call has put there.
ConfirmableAsShown ==
    /\ \A m \in Messages :
          /\ Confirmable(m) <=> Offered(m)
          /\ Confirmable(m) => /\ statement[m] = "pending"
                               /\ message[m].content = "statement"
                               /\ ~message[m].cancelled
    /\ \A c \in Calls : At(c, "confirm") => call[c].content = "statement"

\* Whatever the order of the calls: only a change of data that the lists name is
\* put to the owner; what runs without having been put to the owner runs once, so
\* that no confirmation repeats it, and changes data or tables only if the lists
\* do not name its type.  (That nothing runs unasked which changes data, as
\* api/session.ts says, and no change of tables, holds of the listed types.)
ListedRunOnlyAsked ==
    \A m \in Messages :
        /\ m \in asked => kind[m] = "dml"
        /\ ran[m] > 0 /\ m \notin asked =>
              /\ ran[m] = 1
              /\ ChangesData(kind[m]) \/ ChangesTables(kind[m]) => Unlisted(kind[m])

\* Answers that are confirmed, cancelled or gone, and that no confirmation is
\* in the middle of executing.
Closed(m) ==
    /\ message[m].confirmed \/ message[m].row = "gone"
    /\ \A c \in Calls : At(c, "confirm") => call[c].message # m

\* A closed answer stays closed and its statement is not executed again: no
\* call brings back the buttons, not even the second commit of the answer
\* after an early cancellation.
ClosedIsFinal ==
    [][\A m \in Messages : Closed(m) => Closed(m)' /\ ran'[m] = ran[m]]_vars

\* A statement is executed at most once: "confirmed/executed already" is the
\* reason _validate_confirmation gives for refusing a second confirmation.
\* The code does not keep it.
RunsOnce == \A m \in Messages : ran[m] < 2

-----------------------------------------------------------------------------
\* The buttons of an answer, as the abstract specification sees them.
OfferOf(m) ==
    IF message[m].row = "gone" \/ message[m].confirmed THEN "closed"
    ELSE IF message[m].requires THEN "waiting" ELSE "none"

Offers == INSTANCE AnswerOffers WITH offer <- [m \in Messages |-> OfferOf(m)]

\* The handlers, interleaved at every await, stopped anywhere and racing with
\* the deletion of the conversation, keep what AnswerOffers promises.
ImplementsOffers == Offers!OfferSpec
=============================================================================
