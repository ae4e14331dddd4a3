------------------------ MODULE ChatStatementProofs ------------------------
(***************************************************************************)
(* Theorems about ChatStatement for every set of answers and calls.        *)
(***************************************************************************)
EXTENDS ChatStatement, TLAPS

-----------------------------------------------------------------------------
(***************************************************************************)
(* The inductive invariant.                                                *)
(***************************************************************************)

\* An answer that is not stored has no statement and is not confirmed, one
\* that waits for a confirmation has a statement that changes data, and one
\* that is not confirmed shows what it was stored with.
RowOK(m) ==
    /\ message[m].row # "there" => statement[m] = "none" /\ ~message[m].requires
    /\ message[m].row = "none" => ~message[m].confirmed
    /\ kind[m] = "none" => message[m].row = "none" /\ ran[m] = 0
    /\ message[m].requires => kind[m] = "dml"
    /\ kind[m] = "dml" => (message[m].requires <=> statement[m] # "none")
    /\ There(m) /\ ~message[m].confirmed =>
          /\ ~message[m].cancelled
          /\ kind[m] = "dml" => message[m].content = "statement"
          /\ message[m].requires => statement[m] = "pending"

RowsOK == \A m \in Messages : RowOK(m)

\* A call that writes a new answer has it to itself until the statement is
\* attached; one that confirms has asked for a change of data; one that has
\* seen a statement will find it or no answer at all.
Writing(c) == call[c].at \in {"run", "answer", "attach"}

CallOK(c) ==
    LET m == call[c].message
    IN  /\ call[c].at \notin {"idle", "ai"} => m \in Messages
        /\ call[c].at \in {"run", "answer"} => message[m].row = "none" /\ kind[m] # "none"
        /\ At(c, "run") => kind[m] \notin {"dml", "ddl"} /\ ran[m] = 0 /\ m \notin asked
        /\ At(c, "attach") => message[m].row # "none" /\ statement[m] = "none"
        /\ call[c].at \in {"answer", "attach"} =>
              /\ call[c].status # "none"
              /\ kind[m] = "dml" => call[c].status = "pending"
        /\ At(c, "confirm") => m \in asked /\ kind[m] = "dml" /\ call[c].content = "statement"
        /\ At(c, "record") => call[c].status = "success"
        /\ At(c, "cancel") /\ call[c].saw => statement[m] # "none" \/ message[m].row = "gone"

CallsOK == \A c \in Calls : CallOK(c)

WritersApart ==
    \A c, d \in Calls : c # d /\ Writing(c) /\ Writing(d) => call[c].message # call[d].message

\* ListedRunOnlyAsked, by the kinds a statement that ran may have.
RunsOK ==
    \A m \in Messages :
        /\ m \in asked => kind[m] = "dml"
        /\ ran[m] > 0 /\ m \notin asked => kind[m] \notin {"dml", "ddl"} /\ ran[m] = 1

IInv == TypeOK /\ RunsOK /\ RowsOK /\ CallsOK /\ WritersApart

LEMMA InitIInv == Init => IInv
  BY DEF Init, IInv, TypeOK, RunsOK, RowsOK, RowOK, CallsOK, CallOK, WritersApart,
         Writing, At, There, Message, NoMessage, Contents, Call, Idle, Kinds, Statuses

-----------------------------------------------------------------------------
(***************************************************************************)
(* Each step keeps it.                                                     *)
(***************************************************************************)

\* The record slot c is given, and the slots that are left alone.
LEMMA OneSlot ==
    ASSUME TypeOK, NEW c \in Calls, NEW r, Become(c, r)
    PROVE  /\ call'[c] = r
           /\ \A d \in Calls \ {c} : call'[d] = call[d]
           /\ r \in Call => call' \in [Calls -> Call]
  BY DEF TypeOK, Become

\* What a step of slot c owes that only concerns the answer it holds: the
\* slot itself, and that the other slots holding the answer are not misled.
LEMMA AnswerStep ==
    ASSUME IInv, NEW c \in Calls, NEW r \in Call, Become(c, r), NEW m \in Messages,
           message' \in [Messages -> Message],
           statement' \in [Messages -> {"none"} \cup Statuses],
           kind' \in [Messages -> {"none"} \cup Kinds],
           ran' \in [Messages -> 0..2],
           asked' = asked \/ asked' = asked \cup {m},
           open' = open,
           \A n \in Messages \ {m} : /\ message'[n] = message[n] /\ statement'[n] = statement[n]
                                     /\ kind'[n] = kind[n] /\ ran'[n] = ran[n],
           RowOK(m)',
           m \in asked' => kind'[m] = "dml",
           ran'[m] > 0 /\ m \notin asked' => kind'[m] \notin {"dml", "ddl"} /\ ran'[m] = 1,
           CallOK(c)',
           \A d \in Calls \ {c} : call[d].message = m => CallOK(d)',
           Writing(c)' => /\ r.message = m
                          /\ \A d \in Calls \ {c} : Writing(d) => call[d].message # m
    PROVE  IInv'
  <1>1. /\ call' \in [Calls -> Call]
        /\ call'[c] = r
        /\ \A d \in Calls \ {c} : call'[d] = call[d]
    BY OneSlot DEF IInv
  <1>2. TypeOK'
    BY <1>1 DEF IInv, TypeOK
  <1>3. RowsOK'
    BY DEF IInv, RowsOK, RowOK, There
  <1>4. RunsOK'
    BY DEF IInv, RunsOK
  <1>5. ASSUME NEW d \in Calls \ {c} PROVE CallOK(d)'
    <2>1. CASE call[d].message = m
      BY <2>1
    <2>2. CASE call[d].message # m
      BY <1>1, <2>2 DEF IInv, CallsOK, CallOK, At
    <2> QED
      BY <2>1, <2>2
  <1>6. CallsOK'
    BY <1>5 DEF CallsOK
  <1>7. WritersApart'
    BY <1>1 DEF IInv, WritersApart, Writing
  <1> QED
    BY <1>2, <1>3, <1>4, <1>6, <1>7 DEF IInv

LEMMA StepIInv == ASSUME IInv, [Next]_vars PROVE IInv'
  <1>0. CASE UNCHANGED vars
    BY <1>0 DEF vars, IInv, TypeOK, RunsOK, RowsOK, RowOK, CallsOK, CallOK,
                WritersApart, Writing, At, There
  <1>1. CASE DeleteSession
    <2>1. TypeOK'
      BY <1>1 DEF IInv, TypeOK, DeleteSession, NoMessage, Message, Contents
    <2>2. RowsOK'
      BY <1>1 DEF IInv, TypeOK, RowsOK, RowOK, DeleteSession, NoMessage, There
    <2>3. RunsOK' /\ WritersApart'
      BY <1>1 DEF IInv, RunsOK, WritersApart, Writing, DeleteSession
    <2>4. CallsOK'
      BY <1>1 DEF IInv, TypeOK, CallsOK, CallOK, RowsOK, RowOK, At, There, DeleteSession, NoMessage
    <2> QED
      BY <2>1, <2>2, <2>3, <2>4 DEF IInv
  <1>2. ASSUME NEW c \in Calls, Step(c) PROVE IInv'
    <2>0. /\ call[c] \in Call /\ CallOK(c)
          /\ \A d \in Calls : call[d] \in Call /\ CallOK(d)
          /\ \A m \in Messages : RowOK(m) /\ message[m] \in Message
      BY <1>2 DEF IInv, TypeOK, CallsOK, RowsOK
    \* Steps that write nothing but their own slot.
    <2>1. ASSUME NEW r \in Call, Become(c, r), UNCHANGED <<open, message, statement, kind, ran, asked>>,
                 CallOK(c)', ~Writing(c)'
          PROVE  IInv'
      <3>1. /\ call' \in [Calls -> Call]
            /\ \A d \in Calls \ {c} : call'[d] = call[d]
        BY <1>2, <2>1, OneSlot DEF IInv
      <3>2. TypeOK' /\ RowsOK' /\ RunsOK'
        BY <2>1, <3>1 DEF IInv, TypeOK, RowsOK, RowOK, There, RunsOK
      <3>3. CallsOK'
        BY <2>1, <2>0, <3>1 DEF CallsOK, CallOK, At
      <3>4. WritersApart'
        BY <2>1, <3>1 DEF IInv, WritersApart, Writing
      <3> QED
        BY <3>2, <3>3, <3>4 DEF IInv
    <2>2. Idle \in Call
      BY DEF Idle, Call, Contents
    <2>3. ASSUME Return(c) PROVE CallOK(c)' /\ ~Writing(c)'
      BY <1>2, <2>3, OneSlot DEF Return, Idle, IInv, CallOK, Writing, At
    <2>4. CASE Ask(c)
      <3> DEFINE r == [call[c] EXCEPT !.at = "ai", !.status = "none"]
      <3>1. r \in Call /\ r.at = "ai"
        BY <2>0 DEF Call
      <3>2. Become(c, r)
        BY <2>4 DEF Ask, GoTo
      <3>3. CallOK(c)' /\ ~Writing(c)'
        BY <1>2, <3>1, <3>2, OneSlot DEF IInv, CallOK, Writing, At
      <3> QED
        BY <2>1, <2>4, <3>1, <3>2, <3>3 DEF Ask
    <2>5. CASE Stop(c)
      BY <2>1, <2>2, <2>3, <2>5 DEF Stop, Return
    <2>6. ASSUME NEW m \in Messages, CancelRead(c, m) PROVE IInv'
      <3> DEFINE r == [Idle EXCEPT !.at = "cancel", !.message = m, !.content = message[m].content,
                                   !.saw = statement[m] # "none"]
      <3>1. r \in Call /\ r.at = "cancel" /\ r.message = m /\ (r.saw => statement[m] # "none")
        BY <2>0, <2>6 DEF Idle, Call, Message
      <3>2. Become(c, r)
        BY <2>6 DEF CancelRead
      <3>3. CallOK(c)' /\ ~Writing(c)'
        BY <1>2, <2>6, <3>1, <3>2, OneSlot DEF CancelRead, IInv, CallOK, Writing, At
      <3> QED
        BY <2>1, <2>6, <3>1, <3>2, <3>3 DEF CancelRead
    <2>7. ASSUME NEW m \in Messages, ConfirmRead(c, m) PROVE IInv'
      <3> DEFINE r == [Idle EXCEPT !.at = "confirm", !.message = m, !.content = message[m].content]
      <3>1. r \in Call /\ r.at = "confirm" /\ r.message = m /\ r.content = "statement" /\ kind[m] = "dml"
        BY <2>0, <2>7 DEF ConfirmRead, Confirmable, RowOK, There, Idle, Call, Message
      <3>2. Become(c, r)
        BY <2>7 DEF ConfirmRead
      <3>3. CallOK(c)' /\ ~Writing(c)'
        BY <1>2, <2>7, <3>1, <3>2, OneSlot DEF ConfirmRead, IInv, CallOK, Writing, At
      <3>4. \A d \in Calls \ {c} : CallOK(d)'
        BY <1>2, <2>0, <2>7, <3>1, <3>2, OneSlot DEF ConfirmRead, IInv, CallOK, At
      <3>5. RowOK(m)' /\ m \in asked' /\ kind'[m] = "dml"
        BY <2>0, <2>7 DEF ConfirmRead, Confirmable, RowOK, There
      <3> HIDE DEF r
      <3> QED
        BY <1>2, <2>7, <3>1, <3>2, <3>3, <3>4, <3>5, AnswerStep DEF ConfirmRead, IInv, TypeOK
    <2>8. ASSUME NEW m \in Messages, NEW k \in Kinds, Answer(c, m, k) PROVE IInv'
      <3> DEFINE r == [Idle EXCEPT !.at = IF k = "reply" \/ RequiresConfirmation(k) THEN "answer" ELSE "run",
                                   !.message = m,
                                   !.status = IF Forbidden(k) THEN "failed" ELSE "pending"]
      <3>1. /\ r \in Call /\ r.message = m /\ r.at \in {"run", "answer"} /\ r.status # "none"
            /\ r.at = "run" => k \notin {"dml", "ddl"}
            /\ k = "dml" => r.status = "pending"
        BY DEF Idle, Call, Contents, Statuses, RequiresConfirmation, Forbidden, Kinds
      <3>2. Become(c, r)
        BY <2>8 DEF Answer
      <3>3. /\ message[m].row = "none" /\ kind[m] = "none" /\ kind'[m] = k
            /\ kind' = [kind EXCEPT ![m] = k]
            /\ ran[m] = 0 /\ m \notin asked
        BY <2>0, <2>8 DEF Answer, RowOK, IInv, TypeOK, RunsOK
      <3>4. CallOK(c)'
        BY <1>2, <2>8, <3>1, <3>2, <3>3, OneSlot DEF Answer, IInv, CallOK, At, Kinds
      <3>5. \A d \in Calls \ {c} : Writing(d) => call[d].message # m
        BY <2>0, <3>3 DEF Writing, CallOK, RowOK, At
      <3>6. \A d \in Calls \ {c} : call[d].message = m => CallOK(d)'
        BY <1>2, <2>0, <2>8, <3>2, <3>3, <3>5, OneSlot DEF Answer, IInv, CallOK, Writing, At
      <3>7. RowOK(m)' /\ ran'[m] = 0 /\ m \notin asked'
        BY <2>0, <2>8, <3>3 DEF Answer, RowOK, There
      <3> HIDE DEF r
      <3> QED
        BY <1>2, <2>8, <3>1, <3>2, <3>3, <3>4, <3>5, <3>6, <3>7, AnswerStep DEF Answer, IInv, TypeOK
    <2>9. ASSUME NEW status \in {"success", "failed"}, RunAtOnce(c, status) PROVE IInv'
      <3>0. PICK m \in Messages : m = call[c].message
        BY <2>0, <2>9 DEF RunAtOnce, CallOK, At
      <3> DEFINE r == [call[c] EXCEPT !.at = "answer", !.status = status]
      <3>1. r \in Call /\ r.message = m /\ r.at = "answer" /\ r.status # "none"
        BY <2>0, <3>0 DEF Call, Statuses
      <3>2. Become(c, r)
        BY <2>9, <3>0 DEF RunAtOnce, GoTo
      <3>3. /\ message[m].row = "none" /\ kind[m] \notin {"none", "dml", "ddl"}
            /\ ran[m] = 0 /\ m \notin asked
        BY <2>0, <2>9, <3>0 DEF RunAtOnce, CallOK, At
      <3>4. /\ ran' \in [Messages -> 0..2] /\ \A n \in Messages \ {m} : ran'[n] = ran[n]
            /\ ran'[m] \in {0, 1}
        BY <2>9, <3>0, <3>1, <3>3 DEF RunAtOnce, Execute, IInv, TypeOK
      <3>5. \A d \in Calls \ {c} : Writing(d) => call[d].message # m
        BY <1>2, <2>9, <3>0 DEF RunAtOnce, IInv, WritersApart, Writing, At
      <3>6. CallOK(c)' /\ \A d \in Calls \ {c} : CallOK(d)'
        <4>1. call'[c] = r
          BY <1>2, <3>2, OneSlot DEF IInv
        <4>2. CallOK(c)'
          BY <2>9, <3>1, <3>3, <4>1 DEF RunAtOnce, CallOK, At
        <4>3. ASSUME NEW d \in Calls \ {c} PROVE CallOK(d)'
          <5>1. call'[d] = call[d]
            BY <1>2, <3>2, OneSlot DEF IInv
          <5> QED
            BY <2>0, <2>9, <3>4, <3>5, <5>1 DEF RunAtOnce, CallOK, Writing, At
        <4> QED
          BY <4>2, <4>3
      <3>7. RowOK(m)'
        BY <2>0, <2>9, <3>0, <3>1, <3>3 DEF RunAtOnce, RowOK, There
      <3> HIDE DEF r
      <3> QED
        BY <1>2, <2>9, <3>0, <3>1, <3>2, <3>3, <3>4, <3>5, <3>6, <3>7, AnswerStep DEF RunAtOnce, IInv, TypeOK
    <2>10. ASSUME NEW status \in {"success", "failed"}, ConfirmRun(c, status) PROVE IInv'
      <3>0. PICK m \in Messages : m = call[c].message
        BY <2>0, <2>10 DEF ConfirmRun, CallOK, At
      <3> DEFINE r == [call[c] EXCEPT !.at = IF status = "success" THEN "record" ELSE "fail", !.status = status]
      <3>1. r \in Call /\ r.message = m /\ r.at \in {"record", "fail"}
        BY <2>0, <3>0 DEF Call, Statuses
      <3>2. Become(c, r)
        BY <2>10, <3>0 DEF ConfirmRun, GoTo
      <3>3. m \in asked /\ kind[m] = "dml"
        BY <2>0, <2>10, <3>0 DEF ConfirmRun, CallOK, At
      <3>4. ran' \in [Messages -> 0..2] /\ \A n \in Messages \ {m} : ran'[n] = ran[n]
        BY <2>10, <3>0, <3>1 DEF ConfirmRun, Execute, IInv, TypeOK
      <3>5. ~Writing(c)' /\ CallOK(c)' /\ \A d \in Calls \ {c} : CallOK(d)'
        <4>1. call'[c] = r /\ (r.at = "record" => r.status = "success")
          BY <1>2, <2>0, <3>1, <3>2, OneSlot DEF IInv, Call
        <4>2. ~Writing(c)' /\ CallOK(c)'
          BY <2>10, <3>1, <4>1 DEF ConfirmRun, CallOK, Writing, At
        <4>3. ASSUME NEW d \in Calls \ {c} PROVE CallOK(d)'
          <5>1. call'[d] = call[d]
            BY <1>2, <3>2, OneSlot DEF IInv
          <5> QED
            BY <2>0, <2>10, <3>3, <3>4, <5>1 DEF ConfirmRun, CallOK, At
        <4> QED
          BY <4>2, <4>3
      <3>6. RowOK(m)'
        BY <2>0, <2>10, <3>0, <3>1, <3>3 DEF ConfirmRun, RowOK, There
      <3> HIDE DEF r
      <3> QED
        BY <1>2, <2>10, <3>0, <3>1, <3>2, <3>3, <3>4, <3>5, <3>6, AnswerStep DEF ConfirmRun, IInv, TypeOK
    <2>11. CASE SaveMessage(c)
      <3>0. PICK m \in Messages : m = call[c].message
        BY <2>0, <2>11 DEF SaveMessage, CallOK, At
      <3> DEFINE shown == IF call[c].status = "failed" THEN "error"
                          ELSE IF kind[m] = "reply" THEN "reply" ELSE "statement"
                 new == [NoMessage EXCEPT !.row = "there", !.content = shown]
                 r == [call[c] EXCEPT !.at = "attach", !.status = call[c].status]
      <3>1. /\ m \in Messages /\ message[m].row = "none" /\ kind[m] # "none" /\ call[c].status # "none"
            /\ kind[m] = "dml" => call[c].status = "pending"
            /\ statement[m] = "none"
        BY <2>0, <2>11, <3>0 DEF SaveMessage, CallOK, RowOK, At
      <3>2. \A d \in Calls \ {c} : Writing(d) => call[d].message # m
        BY <1>2, <2>11, <3>0 DEF SaveMessage, IInv, WritersApart, Writing, At
      <3>3. CASE ~open
        <4>1. Return(c) /\ UNCHANGED <<open, message, statement, kind, ran, asked>>
          BY <2>11, <3>0, <3>3 DEF SaveMessage
        <4> QED
          BY <2>1, <2>2, <2>3, <4>1 DEF Return
      <3>4. CASE open
        <4>1. message' = [message EXCEPT ![m] = new] /\ UNCHANGED <<open, statement, kind, ran, asked>>
          BY <2>11, <3>0, <3>4 DEF SaveMessage
        <4>2. /\ new \in Message /\ new.row = "there" /\ ~new.requires /\ ~new.confirmed /\ ~new.cancelled
              /\ kind[m] = "dml" => new.content = "statement"
          BY <3>1 DEF NoMessage, Message, Contents
        <4>3. message' \in [Messages -> Message] /\ message'[m] = new
              /\ \A n \in Messages \ {m} : message'[n] = message[n]
          BY <3>1, <4>1, <4>2 DEF IInv, TypeOK
        <4>4. RowOK(m)'
          BY <2>0, <3>1, <4>1, <4>2, <4>3 DEF RowOK, There
        <4>5. PICK x \in Call : /\ Become(c, x)
                                /\ \/ x.at = "idle"
                                   \/ x.at = "attach" /\ x.message = m /\ x.status = call[c].status
          <5>1. r \in Call /\ r.at = "attach" /\ r.message = m /\ r.status = call[c].status
            BY <2>0, <3>0 DEF Call
          <5>2. Become(c, r) \/ Become(c, Idle)
            BY <2>11, <3>0 DEF SaveMessage, GoTo, Return
          <5> QED
            BY <2>2, <5>1, <5>2 DEF Idle
        <4>6. CallOK(c)'
          BY <1>2, <3>1, <4>1, <4>2, <4>3, <4>5, OneSlot DEF IInv, CallOK, At
        <4>7. ASSUME NEW d \in Calls \ {c}, call[d].message = m PROVE CallOK(d)'
          BY <1>2, <2>0, <3>1, <3>2, <4>1, <4>2, <4>3, <4>5, <4>7, OneSlot DEF IInv, CallOK, Writing, At
        <4>8. Writing(c)' => x.message = m
          BY <1>2, <4>5, OneSlot DEF IInv, Writing
        <4> HIDE DEF new, r
        <4> QED
          BY <1>2, <3>1, <3>2, <4>1, <4>3, <4>4, <4>5, <4>6, <4>7, <4>8, AnswerStep
          DEF IInv, TypeOK, RunsOK
      <3> QED
        BY <3>3, <3>4 DEF IInv, TypeOK
    \* The other writers end their call: what they may do to one answer.
    <2>12. ASSUME NEW m \in Messages, Return(c), UNCHANGED <<open, kind, ran, asked>>,
                  message' \in [Messages -> Message],
                  statement' \in [Messages -> {"none"} \cup Statuses],
                  \A n \in Messages \ {m} : message'[n] = message[n] /\ statement'[n] = statement[n],
                  message'[m].row = message[m].row, RowOK(m)',
                  statement'[m] = "none" => statement[m] = "none",
                  statement'[m] # statement[m] /\ statement[m] = "none" =>
                     \A d \in Calls \ {c} : At(d, "attach") => call[d].message # m
           PROVE  IInv'
      <3>1. Become(c, Idle)
        BY <2>12 DEF Return
      <3>2. CallOK(c)' /\ ~Writing(c)'
        BY <2>3, <2>12
      <3>3. ASSUME NEW d \in Calls \ {c}, call[d].message = m PROVE CallOK(d)'
        BY <1>2, <2>0, <2>12, <3>1, <3>3, OneSlot DEF IInv, CallOK, At
      <3> QED
        BY <1>2, <2>2, <2>12, <3>1, <3>2, <3>3, AnswerStep DEF IInv, TypeOK, RunsOK
    <2>13. ASSUME Return(c), UNCHANGED <<open, message, statement, kind, ran, asked>> PROVE IInv'
      BY <2>1, <2>2, <2>3, <2>13 DEF Return
    <2>14. CASE SaveStatement(c)
      <3>0. PICK m \in Messages : m = call[c].message
        BY <2>0, <2>14 DEF SaveStatement, CallOK, At
      <3>1. /\ m \in Messages /\ statement[m] = "none" /\ call[c].status # "none"
            /\ kind[m] = "dml" => call[c].status = "pending"
        BY <2>0, <2>14, <3>0 DEF SaveStatement, CallOK, At
      <3>2. \A d \in Calls \ {c} : At(d, "attach") => call[d].message # m
        BY <1>2, <2>14, <3>0 DEF SaveStatement, IInv, WritersApart, Writing, At
      <3>3. CASE There(m) /\ call[c].status \in Statuses
        <4>1. /\ message' = [message EXCEPT ![m].requires = RequiresConfirmation(kind[m]) /\ ~Forbidden(kind[m])]
              /\ statement' = [statement EXCEPT ![m] = call[c].status]
              /\ Return(c) /\ UNCHANGED <<open, kind, ran, asked>>
          BY <2>14, <3>0, <3>3 DEF SaveStatement
        <4>2. /\ message' \in [Messages -> Message]
              /\ statement' \in [Messages -> {"none"} \cup Statuses]
              /\ \A n \in Messages \ {m} : message'[n] = message[n] /\ statement'[n] = statement[n]
              /\ statement'[m] = call[c].status
              /\ message'[m] = [message[m] EXCEPT !.requires = (kind[m] = "dml")]
          BY <3>1, <3>3, <4>1 DEF IInv, TypeOK, Message, RequiresConfirmation, Forbidden
        <4>3. RowOK(m)' /\ message'[m].row = message[m].row
          BY <2>0, <3>1, <3>3, <4>1, <4>2 DEF RowOK, There, Message
        <4> QED
          BY <2>12, <3>1, <3>2, <4>1, <4>2, <4>3
      <3>4. CASE ~(There(m) /\ call[c].status \in Statuses)
        BY <2>13, <2>14, <3>0, <3>4 DEF SaveStatement
      <3> QED
        BY <3>3, <3>4
    <2>15. CASE ConfirmRecord(c)
      <3>1. call[c].status = "success"
        BY <2>0, <2>15 DEF ConfirmRecord, CallOK
      <3> QED
        BY <2>13, <2>15, <3>1 DEF ConfirmRecord, Statuses
    <2>16. CASE ConfirmFail(c)
      <3>0. PICK m \in Messages : m = call[c].message
        BY <2>0, <2>16 DEF ConfirmFail, CallOK, At
      <3>1. /\ Return(c) /\ UNCHANGED <<open, kind, ran, asked>>
            /\ statement' = [statement EXCEPT ![m] = IF @ = "none" THEN @ ELSE "failed"]
            /\ message' = IF There(m)
                          THEN [message EXCEPT ![m].confirmed = TRUE, ![m].content = "error", ![m].cancelled = FALSE]
                          ELSE message
        BY <2>16, <3>0 DEF ConfirmFail
      <3>2. /\ message' \in [Messages -> Message]
            /\ statement' \in [Messages -> {"none"} \cup Statuses]
            /\ \A n \in Messages \ {m} : message'[n] = message[n] /\ statement'[n] = statement[n]
            /\ statement'[m] = IF statement[m] = "none" THEN "none" ELSE "failed"
            /\ message'[m] = IF There(m)
                             THEN [message[m] EXCEPT !.confirmed = TRUE, !.content = "error", !.cancelled = FALSE]
                             ELSE message[m]
        <4>1. There(m) => [message[m] EXCEPT !.confirmed = TRUE, !.content = "error", !.cancelled = FALSE] \in Message
          BY <2>0 DEF Message, Contents
        <4>2. message' \in [Messages -> Message]
          BY <3>1, <4>1 DEF IInv, TypeOK
        <4>3. /\ statement' \in [Messages -> {"none"} \cup Statuses]
              /\ statement'[m] = IF statement[m] = "none" THEN "none" ELSE "failed"
          BY <3>1 DEF IInv, TypeOK, Statuses
        <4> QED
          BY <3>1, <4>2, <4>3 DEF IInv, TypeOK
      <3>3. RowOK(m)'
        BY <2>0, <3>1, <3>2 DEF RowOK, There
      <3> QED
        BY <2>12, <3>1, <3>2, <3>3
    <2>17. CASE CancelWrite(c)
      <3>0. PICK m \in Messages : m = call[c].message
        BY <2>0, <2>17 DEF CancelWrite, CallOK, At
      <3>1. CASE There(m)
        <4>1. /\ Return(c) /\ UNCHANGED <<open, kind, ran, asked>>
              /\ statement' = [statement EXCEPT ![m] = IF call[c].saw THEN "failed" ELSE @]
              /\ message' = [message EXCEPT ![m].content = call[c].content, ![m].cancelled = TRUE, ![m].confirmed = TRUE]
          BY <2>17, <3>0, <3>1 DEF CancelWrite
        <4>2. call[c].saw => statement[m] # "none"
          BY <2>0, <2>17, <3>0, <3>1 DEF CancelWrite, CallOK, At, There
        <4>3. /\ message' \in [Messages -> Message]
              /\ \A n \in Messages \ {m} : message'[n] = message[n]
              /\ message'[m].row = message[m].row
              /\ message'[m].requires = message[m].requires
              /\ message'[m].confirmed
          <5> DEFINE new == [message[m] EXCEPT !.content = call[c].content, !.cancelled = TRUE, !.confirmed = TRUE]
          <5>1. new \in Message /\ message' = [message EXCEPT ![m] = new]
            BY <2>0, <4>1 DEF Message, Call
          <5> QED
            BY <2>0, <5>1 DEF IInv, TypeOK, Message
        <4>4. /\ statement' \in [Messages -> {"none"} \cup Statuses]
              /\ \A n \in Messages \ {m} : statement'[n] = statement[n]
              /\ statement'[m] = "none" <=> statement[m] = "none"
          BY <4>1, <4>2 DEF IInv, TypeOK, Statuses
        <4>5. RowOK(m)'
          BY <2>0, <3>1, <4>1, <4>3, <4>4 DEF RowOK, There
        <4> QED
          BY <2>12, <4>1, <4>2, <4>3, <4>4, <4>5
      <3>2. CASE ~There(m)
        BY <2>13, <2>17, <3>0, <3>2 DEF CancelWrite
      <3> QED
        BY <3>1, <3>2
    <2> QED
      BY <1>2, <2>4, <2>5, <2>6, <2>7, <2>8, <2>9, <2>10, <2>11, <2>14, <2>15, <2>16, <2>17 DEF Step
  <1> QED
    BY <1>0, <1>1, <1>2 DEF Next

LEMMA Invariance == Spec => []IInv
  <1>1. Init => IInv
    BY InitIInv
  <1>2. IInv /\ [Next]_vars => IInv'
    BY StepIInv
  <1> QED
    BY <1>1, <1>2, PTL DEF Spec

-----------------------------------------------------------------------------
(***************************************************************************)
(* The theorems.                                                           *)
(***************************************************************************)

\* Every reachable state is well typed: no statement has a status that the
\* constraint of ai_generated_statement refuses.
THEOREM TypeCorrect == Spec => []TypeOK
  <1>1. IInv => TypeOK
    BY DEF IInv
  <1> QED
    BY <1>1, Invariance, PTL

\* The conversation offers what confirm_and_execute_sql accepts, and what it
\* then executes is the pending statement the answer shows.
THEOREM OfferedAsAccepted == Spec => []ConfirmableAsShown
  <1>1. IInv => ConfirmableAsShown
    BY DEF IInv, ConfirmableAsShown, RowsOK, RowOK, CallsOK, CallOK, Confirmable, Offered, There, At
  <1> QED
    BY <1>1, Invariance, PTL

\* Only changes of data that the lists of the service name are put to the owner
\* and they run after that, no change of tables that the lists name runs, and a
\* statement they do not name runs once at most.
THEOREM AskedBeforeRun == Spec => []ListedRunOnlyAsked
  <1>1. IInv => ListedRunOnlyAsked
    BY DEF IInv, TypeOK, RunsOK, ListedRunOnlyAsked, ChangesData, ChangesTables, Unlisted, Kinds
  <1> QED
    BY <1>1, Invariance, PTL

\* An answer that is confirmed, cancelled or gone, and that nobody is in the
\* middle of confirming, stays so and is not executed any more.
THEOREM ClosedStays == Spec => ClosedIsFinal
  <1>1. ASSUME IInv, [Next]_vars, NEW m \in Messages, Closed(m)
        PROVE  Closed(m)' /\ ran'[m] = ran[m]
    <2>1. message[m].row = "none" => ~message[m].confirmed
      BY <1>1 DEF IInv, RowsOK, RowOK
    <2>2. message[m].row # "none" /\ ~Confirmable(m)
      BY <1>1, <2>1 DEF Closed, Confirmable, There
    <2>3. CASE UNCHANGED vars
      BY <1>1, <2>3 DEF vars, Closed, At
    <2>4. CASE DeleteSession
      BY <1>1, <2>4 DEF DeleteSession, Closed, At, There, NoMessage, IInv, TypeOK, Message
    <2>5. ASSUME NEW c \in Calls, Step(c) PROVE Closed(m)' /\ ran'[m] = ran[m]
      <3>1. CallOK(c) /\ message[m] \in Message /\ message \in [Messages -> Message]
        BY <1>1, <2>5 DEF IInv, TypeOK, CallsOK
      <3>2. ran'[m] = ran[m]
        BY <1>1, <2>2, <2>5, <3>1 DEF Step, Ask, Answer, RunAtOnce, ConfirmRun, Execute, SaveMessage, SaveStatement,
           ConfirmRead, CancelRead, ConfirmRecord, ConfirmFail, CancelWrite, Stop, CallOK, Closed, At, IInv, TypeOK
      <3>3. (message[m].confirmed \/ message[m].row = "gone") => (message'[m].confirmed \/ message'[m].row = "gone")
        <4>1. CASE UNCHANGED message
          BY <4>1
        <4>2. CASE SaveMessage(c)
          BY <2>2, <3>1, <4>2 DEF SaveMessage, CallOK, At
        <4>3. CASE SaveStatement(c)
          BY <3>1, <4>3 DEF SaveStatement, Message
        <4>4. CASE ConfirmRecord(c)
          BY <3>1, <4>4 DEF ConfirmRecord, Message
        <4>5. CASE ConfirmFail(c)
          BY <3>1, <4>5 DEF ConfirmFail, Message
        <4>6. CASE CancelWrite(c)
          BY <3>1, <4>6 DEF CancelWrite, Message
        <4> QED
          BY <2>5, <4>1, <4>2, <4>3, <4>4, <4>5, <4>6
          DEF Step, Ask, Answer, RunAtOnce, ConfirmRun, ConfirmRead, CancelRead, Stop
      <3>4. ASSUME NEW d \in Calls, At(d, "confirm")' PROVE call'[d].message # m
        <4>1. CASE At(d, "confirm") /\ call'[d].message = call[d].message
          BY <1>1, <4>1 DEF Closed
        <4>2. CASE \E n \in Messages : ConfirmRead(c, n) /\ d = c
          BY <1>1, <2>2, <4>2 DEF ConfirmRead, Become, IInv, TypeOK, Idle
        <4>3. (At(d, "confirm") /\ call'[d].message = call[d].message) \/ (\E n \in Messages : ConfirmRead(c, n) /\ d = c)
          <5>1. call[c] \in Call /\ call \in [Calls -> Call]
            BY <1>1 DEF IInv, TypeOK
          <5>2. CASE d # c
            <6>1. PICK x : Become(c, x)
              BY <2>5 DEF Step, Ask, Answer, RunAtOnce, ConfirmRun, SaveMessage, SaveStatement, ConfirmRead,
                 CancelRead, ConfirmRecord, ConfirmFail, CancelWrite, Stop, GoTo, Return
            <6> QED
              BY <3>4, <5>1, <5>2, <6>1 DEF Become, At
          <5>3. CASE d = c
            <6>1. ASSUME NEW x, Become(c, x), x.at # "confirm" PROVE FALSE
              BY <3>4, <5>1, <5>3, <6>1 DEF Become, At
            <6>2. ASSUME NEW step, NEW status, GoTo(c, step, status), step # "confirm" PROVE FALSE
              BY <5>1, <6>1, <6>2 DEF GoTo, Call
            <6>3. ~Return(c)
              BY <6>1 DEF Return, Idle
            <6>4. ASSUME NEW n \in Messages, NEW k \in Kinds PROVE ~Answer(c, n, k)
              BY <6>1 DEF Answer, Idle
            <6>5. ASSUME NEW n \in Messages PROVE ~CancelRead(c, n)
              BY <6>1 DEF CancelRead, Idle
            <6>6. ASSUME NEW status \in {"success", "failed"} PROVE ~RunAtOnce(c, status) /\ ~ConfirmRun(c, status)
              BY <6>2 DEF RunAtOnce, ConfirmRun
            <6>7. ~Ask(c) /\ ~SaveMessage(c)
              BY <6>2, <6>3 DEF Ask, SaveMessage
            <6> QED
              BY <2>5, <5>3, <6>3, <6>4, <6>5, <6>6, <6>7
              DEF Step, SaveStatement, ConfirmRecord, ConfirmFail, CancelWrite, Stop
          <5> QED
            BY <5>2, <5>3
        <4> QED
          BY <4>1, <4>2, <4>3
      <3> QED
        BY <1>1, <3>2, <3>3, <3>4 DEF Closed
    <2> QED
      BY <1>1, <2>3, <2>4, <2>5 DEF Next
  <1>2. IInv /\ [Next]_vars => [\A m \in Messages : Closed(m) => Closed(m)' /\ ran'[m] = ran[m]]_vars
    BY <1>1
  <1> QED
    BY <1>2, Invariance, PTL DEF Spec, ClosedIsFinal

-----------------------------------------------------------------------------
(***************************************************************************)
(* The handlers implement AnswerOffers.                                    *)
(***************************************************************************)

\* What was accepted is a change of data whose offer was made, and stays made
\* until the conversation is gone.
AskedOK ==
    \A m \in asked : kind[m] = "dml" /\ (message[m].row = "gone" \/ message[m].requires)

LEMMA StepAskedOK == ASSUME IInv, AskedOK, [Next]_vars PROVE AskedOK'
  <1>0. /\ asked \subseteq Messages
        /\ message \in [Messages -> Message]
        /\ kind \in [Messages -> {"none"} \cup Kinds]
        /\ \A m \in Messages : RowOK(m)
        /\ \A c \in Calls : CallOK(c)
    BY DEF IInv, TypeOK, RowsOK, CallsOK
  <1>1. CASE UNCHANGED vars
    BY <1>1 DEF vars, AskedOK
  <1>2. CASE DeleteSession
    BY <1>0, <1>2 DEF DeleteSession, AskedOK, RowOK, There, NoMessage, Message
  <1>3. ASSUME NEW c \in Calls, Step(c) PROVE AskedOK'
    <2>1. ASSUME UNCHANGED <<message, kind, asked>> PROVE AskedOK'
      BY <2>1 DEF AskedOK
    <2>2. ASSUME NEW m \in Messages, NEW k \in Kinds, Answer(c, m, k) PROVE AskedOK'
      BY <1>0, <2>2 DEF Answer, AskedOK
    <2>3. ASSUME NEW m \in Messages, ConfirmRead(c, m) PROVE AskedOK'
      BY <1>0, <2>3 DEF ConfirmRead, Confirmable, AskedOK, RowOK
    <2>4. CASE SaveMessage(c)
      BY <1>0, <2>4 DEF SaveMessage, AskedOK, RowOK, CallOK, At, NoMessage, Message
    <2>5. CASE SaveStatement(c)
      BY <1>0, <2>5 DEF SaveStatement, AskedOK, RequiresConfirmation, Forbidden, Message
    <2>6. CASE ConfirmFail(c)
      BY <1>0, <2>6 DEF ConfirmFail, AskedOK, Message
    <2>7. CASE CancelWrite(c)
      BY <1>0, <2>7 DEF CancelWrite, AskedOK, Message
    <2>8. CASE ConfirmRecord(c)
      BY <1>0, <2>8 DEF ConfirmRecord, AskedOK, Message
    <2> QED
      BY <1>3, <2>1, <2>2, <2>3, <2>4, <2>5, <2>6, <2>7, <2>8
      DEF Step, Ask, RunAtOnce, ConfirmRun, CancelRead, Stop
  <1> QED
    BY <1>1, <1>2, <1>3 DEF Next

LEMMA OfferInitially == Init => Offers!OfferInit
  BY DEF Init, Offers!OfferInit, OfferOf, NoMessage

LEMMA OfferStep ==
    ASSUME IInv, AskedOK, [Next]_vars
    PROVE  [Offers!OfferNext]_(Offers!offerVars)
  <1>0. /\ asked \subseteq Messages
        /\ message \in [Messages -> Message]
        /\ ran \in [Messages -> 0..2]
        /\ \A m \in Messages : RowOK(m)
        /\ \A c \in Calls : CallOK(c)
    BY DEF IInv, TypeOK, RowsOK, CallsOK
  <1>1. ASSUME UNCHANGED <<asked, ran>>, \A n \in Messages : OfferOf(n)' = OfferOf(n)
        PROVE  UNCHANGED Offers!offerVars
    BY <1>1 DEF Offers!offerVars
  <1>2. ASSUME UNCHANGED <<asked, ran>>, NEW ms \in SUBSET Messages,
               \A n \in Messages : OfferOf(n)' = IF n \in ms THEN "closed" ELSE OfferOf(n)
        PROVE  Offers!OfferNext
    <2>1. Offers!Close(ms)
      BY <1>2 DEF Offers!Close
    <2> QED
      BY <2>1 DEF Offers!OfferNext
  <1>3. ASSUME UNCHANGED <<message, asked, ran>> PROVE UNCHANGED Offers!offerVars
    BY <1>1, <1>3 DEF OfferOf
  <1>4. CASE UNCHANGED vars
    BY <1>3, <1>4 DEF vars
  <1>5. CASE DeleteSession
    <2> DEFINE ms == {n \in Messages : There(n)}
    <2>1. \A n \in Messages : OfferOf(n)' = IF n \in ms THEN "closed" ELSE OfferOf(n)
      BY <1>0, <1>5 DEF DeleteSession, OfferOf, There, NoMessage
    <2>2. ms \in SUBSET Messages /\ UNCHANGED <<asked, ran>>
      BY <1>5 DEF DeleteSession
    <2> QED
      BY <1>2, <2>1, <2>2
  <1>6. ASSUME NEW c \in Calls, Step(c) PROVE Offers!OfferNext \/ UNCHANGED Offers!offerVars
    <2>0. CallOK(c)
      BY <1>0
    <2>1. ASSUME NEW m \in Messages, ConfirmRead(c, m) PROVE Offers!OfferNext
      <3>1. OfferOf(m) = "waiting" /\ \A n \in Messages : OfferOf(n)' = OfferOf(n)
        BY <2>1 DEF ConfirmRead, Confirmable, There, OfferOf
      <3>2. Offers!Accept(m)
        BY <2>1, <3>1 DEF ConfirmRead, Offers!Accept
      <3> QED
        BY <3>2 DEF Offers!OfferNext
    <2>2. ASSUME NEW status \in {"success", "failed"}, RunAtOnce(c, status)
          PROVE  Offers!OfferNext \/ UNCHANGED Offers!offerVars
      <3>1. PICK m \in Messages : m = call[c].message
        BY <2>0, <2>2 DEF RunAtOnce, CallOK, At
      <3>2. OfferOf(m) = "none" /\ m \notin asked
        BY <1>0, <2>0, <2>2, <3>1 DEF RunAtOnce, CallOK, At, RowOK, OfferOf, AskedOK
      <3>3. \A n \in Messages : OfferOf(n)' = OfferOf(n)
        BY <2>2 DEF RunAtOnce, OfferOf
      <3>4. ran' = [ran EXCEPT ![m] = IF @ = 0 THEN 1 ELSE 2] \/ ran' = ran
        BY <1>0, <2>2, <3>1 DEF RunAtOnce, Execute
      <3>5. CASE ran' = ran
        BY <1>3, <2>2, <3>5 DEF RunAtOnce
      <3>6. CASE ran' = [ran EXCEPT ![m] = IF @ = 0 THEN 1 ELSE 2]
        <4>1. Offers!RunUnasked(m)
          BY <2>2, <3>2, <3>3, <3>6 DEF RunAtOnce, Offers!RunUnasked, Offers!Count
        <4> QED
          BY <4>1 DEF Offers!OfferNext
      <3> QED
        BY <3>4, <3>5, <3>6
    <2>3. ASSUME NEW status \in {"success", "failed"}, ConfirmRun(c, status)
          PROVE  Offers!OfferNext \/ UNCHANGED Offers!offerVars
      <3>1. PICK m \in Messages : m = call[c].message
        BY <2>0, <2>3 DEF ConfirmRun, CallOK, At
      <3>2. m \in asked
        BY <2>0, <2>3, <3>1 DEF ConfirmRun, CallOK, At
      <3>3. \A n \in Messages : OfferOf(n)' = OfferOf(n)
        BY <2>3 DEF ConfirmRun, OfferOf
      <3>4. ran' = [ran EXCEPT ![m] = IF @ = 0 THEN 1 ELSE 2] \/ ran' = ran
        BY <1>0, <2>3, <3>1 DEF ConfirmRun, Execute
      <3>5. CASE ran' = ran
        BY <1>3, <2>3, <3>5 DEF ConfirmRun
      <3>6. CASE ran' = [ran EXCEPT ![m] = IF @ = 0 THEN 1 ELSE 2]
        <4>1. Offers!CarryOut(m)
          BY <2>3, <3>2, <3>3, <3>6 DEF ConfirmRun, Offers!CarryOut, Offers!Count
        <4> QED
          BY <4>1 DEF Offers!OfferNext
      <3> QED
        BY <3>4, <3>5, <3>6
    <2>4. CASE SaveMessage(c)
      BY <1>0, <1>1, <2>0, <2>4 DEF SaveMessage, CallOK, At, RowOK, OfferOf, NoMessage
    <2>5. CASE SaveStatement(c)
      <3>1. PICK m \in Messages : m = call[c].message
        BY <2>0, <2>5 DEF SaveStatement, CallOK, At
      <3>2. UNCHANGED <<asked, ran>>
        BY <2>5 DEF SaveStatement
      <3>3. CASE ~(There(m) /\ call[c].status \in Statuses)
        BY <1>3, <2>5, <3>1, <3>2, <3>3 DEF SaveStatement
      <3>4. CASE There(m) /\ call[c].status \in Statuses
        <4>1. /\ message' = [message EXCEPT ![m] = [@ EXCEPT !.requires = (kind[m] = "dml")]]
              /\ statement[m] = "none"
          BY <1>0, <2>0, <2>5, <3>1, <3>4
          DEF SaveStatement, CallOK, At, RequiresConfirmation, Forbidden
        <4>2. /\ message[m].row = "there" /\ ~message[m].requires /\ m \notin asked
              /\ kind[m] = "dml" => ran[m] = 0
          BY <1>0, <3>4, <4>1 DEF There, RowOK, AskedOK, IInv, RunsOK
        <4>3. /\ \A n \in Messages \ {m} : OfferOf(n)' = OfferOf(n)
              /\ message'[m].row = "there" /\ message'[m].confirmed = message[m].confirmed
              /\ message'[m].requires = (kind[m] = "dml")
          BY <1>0, <4>1, <4>2 DEF OfferOf, Message
        <4>4. CASE message[m].confirmed \/ kind[m] # "dml"
          <5>1. \A n \in Messages : OfferOf(n)' = OfferOf(n)
            BY <4>2, <4>3, <4>4 DEF OfferOf
          <5> QED
            BY <1>1, <3>2, <5>1
        <4>5. CASE ~message[m].confirmed /\ kind[m] = "dml"
          <5>1. OfferOf(m) = "none" /\ OfferOf(m)' = "waiting"
            BY <4>2, <4>3, <4>5 DEF OfferOf
          <5>2. Offers!MakeOffer(m)
            BY <3>2, <4>2, <4>3, <4>5, <5>1 DEF Offers!MakeOffer
          <5> QED
            BY <5>2 DEF Offers!OfferNext
        <4> QED
          BY <4>4, <4>5
      <3> QED
        BY <3>3, <3>4
    \* The two writers that confirm an answer close its offer.
    <2>6. ASSUME NEW m \in Messages, UNCHANGED <<asked, ran>>,
                 \A n \in Messages \ {m} : message'[n] = message[n],
                 message'[m].confirmed \/ message'[m] = message[m]
          PROVE  Offers!OfferNext \/ UNCHANGED Offers!offerVars
      <3>1. CASE message'[m].confirmed
        <4>1. \A n \in Messages : OfferOf(n)' = IF n \in {m} THEN "closed" ELSE OfferOf(n)
          BY <2>6, <3>1 DEF OfferOf
        <4> QED
          BY <1>2, <2>6, <4>1
      <3>2. CASE message'[m] = message[m]
        <4>1. \A n \in Messages : OfferOf(n)' = OfferOf(n)
          BY <2>6, <3>2 DEF OfferOf
        <4> QED
          BY <1>1, <2>6, <4>1
      <3> QED
        BY <2>6, <3>1, <3>2
    <2>7. CASE ConfirmRecord(c)
      BY <1>3, <2>0, <2>7 DEF ConfirmRecord, CallOK, At, Statuses
    <2>8. CASE ConfirmFail(c)
      <3>1. PICK m \in Messages : m = call[c].message
        BY <2>0, <2>8 DEF ConfirmFail, CallOK, At
      <3>2. /\ UNCHANGED <<asked, ran>>
            /\ \A n \in Messages \ {m} : message'[n] = message[n]
            /\ message'[m].confirmed \/ message'[m] = message[m]
        BY <1>0, <2>8, <3>1 DEF ConfirmFail, Message
      <3> QED
        BY <2>6, <3>2
    <2>9. CASE CancelWrite(c)
      <3>1. PICK m \in Messages : m = call[c].message
        BY <2>0, <2>9 DEF CancelWrite, CallOK, At
      <3>2. /\ UNCHANGED <<asked, ran>>
            /\ \A n \in Messages \ {m} : message'[n] = message[n]
            /\ message'[m].confirmed \/ message'[m] = message[m]
        BY <1>0, <2>9, <3>1 DEF CancelWrite, Message
      <3> QED
        BY <2>6, <3>2
    <2> QED
      BY <1>3, <1>6, <2>1, <2>2, <2>3, <2>4, <2>5, <2>7, <2>8, <2>9
      DEF Step, Ask, Answer, CancelRead, Stop
  <1> QED
    BY <1>4, <1>5, <1>6 DEF Next

\* The chat keeps what AnswerOffers promises: offered once and before any
\* execution, executed after the offer was accepted, closed for good.
THEOREM OffersKept == Spec => ImplementsOffers
  <1>1. Init => AskedOK
    BY DEF Init, AskedOK
  <1>2. IInv /\ AskedOK /\ [Next]_vars => AskedOK'
    BY StepAskedOK
  <1>3. IInv /\ AskedOK /\ [Next]_vars => [Offers!OfferNext]_(Offers!offerVars)
    BY OfferStep
  <1> QED
    BY <1>1, <1>2, <1>3, OfferInitially, Invariance, PTL DEF Spec, ImplementsOffers, Offers!OfferSpec
=============================================================================
