----------------------- MODULE AccountSessionsProofs -----------------------
(***************************************************************************)
(* Theorems of AccountSessions: a ban ends the sessions, the failure       *)
(* counter goes away and marks the account, and the login history shows    *)
(* one open session.                                                       *)
(***************************************************************************)
EXTENDS AccountSessions, SequenceTheorems, TLAPS

\* The account, its keys, and its requests ...
TypesOK ==
    /\ standing \in Standings
    /\ failures \in Counter(FailureLimit)
    /\ token \in [Requests -> TokenStates]
    /\ request \in [Requests -> Request]

\* ... and the records and the history.
HistoryOK ==
    /\ open \in Seq(Requests)
    /\ late \in SUBSET Requests
    /\ overlap \in BOOLEAN
    /\ excuse \in SUBSET {"sweep", "failures", "mark"}
    /\ mishaps \in 0..MaxFailures

\* Only the administrators' calls write a status, one of the statuses.
WritersAreAdmins ==
    \A c \in Requests :
        /\ request[c].at \in {"write", "sweep"} => request[c].op \in {"unban", "set"}
        /\ request[c].at = "write" => request[c].aim \in Standings

\* After a ban, the logins that go on had read the account before it, and so
\* had those that saved a token since.
LateLoginsOnly ==
    \/ standing # "banned"
    \/ \E c \in Requests : request[c].at = "sweep"
    \/ "sweep" \in excuse
    \/ \A t \in Requests : token[t] = "live" \/ LoggingIn(t) => t \in late

\* Without an overlap one login at most is at its record, and the one it found,
\* if any, was the only one open.
OneAtItsRecord ==
    \/ overlap
    \/ /\ Len(open) <= 1
       /\ \A c, d \in Requests : Recording(c) /\ Recording(d) => c = d
       /\ \A c \in Requests :
             /\ Doing(c, "login", "close") => open = <<>> \/ open[1] = request[c].record
             /\ Doing(c, "login", "stamp") \/ Doing(c, "login", "record") => open = <<>>

IInv ==
    /\ TypesOK /\ HistoryOK
    /\ WritersAreAdmins /\ LateLoginsOnly
    /\ FailuresGoAway /\ FailuresMark
    /\ OneAtItsRecord

-----------------------------------------------------------------------------
LEMMA Starts == AccountInit => IInv
<1> SUFFICES ASSUME AccountInit PROVE IInv
  OBVIOUS
<1>1. \A c \in Requests : request[c] = Quiet /\ token[c] = "none"
  BY DEF AccountInit
<1>2. Quiet \in Request /\ Quiet.at = "idle" /\ Quiet.op = "none"
  BY DEF Quiet, Request, RequestSteps
<1>3. TypesOK
  BY <1>2, LimitsAssumption DEF AccountInit, TypesOK, Standings, Counter, Zero, TokenStates
<1>6. HistoryOK
  <2>1. MaxFailures \in Nat
    BY LimitsAssumption
  <2>2. open \in Seq(Requests)
    BY DEF AccountInit
  <2>3. late \in SUBSET Requests /\ excuse \in SUBSET {"sweep", "failures", "mark"}
    BY DEF AccountInit
  <2>4. overlap \in BOOLEAN
    BY Zenon DEF AccountInit
  <2>5. mishaps \in 0..MaxFailures
    BY <2>1 DEF AccountInit
  <2> QED
    BY <2>2, <2>3, <2>4, <2>5 DEF HistoryOK
<1>4. FailuresGoAway /\ FailuresMark
  BY LimitsAssumption, FailureLimitAssumption DEF AccountInit, FailuresGoAway, FailuresMark, Zero
<1>5. LateLoginsOnly /\ WritersAreAdmins /\ OneAtItsRecord
  BY <1>1, <1>2 DEF AccountInit, LateLoginsOnly, WritersAreAdmins, OneAtItsRecord, Recording, Doing
<1> QED
  BY <1>3, <1>4, <1>5, <1>6 DEF IInv

\* What every step that moves one request gives it.
LEMMA Moved ==
    ASSUME TypesOK, NEW c \in Requests, NEW q \in Request, request' = [request EXCEPT ![c] = q]
    PROVE  /\ request' \in [Requests -> Request]
           /\ request'[c] = q
           /\ \A d \in Requests \ {c} : request'[d] = request[d]
  BY DEF TypesOK

LEMMA Ended ==
    ASSUME TypesOK, NEW c \in Requests, Finish(c)
    PROVE  /\ request' \in [Requests -> Request]
           /\ request'[c].at = "idle" /\ request'[c].op = "none"
           /\ \A d \in Requests \ {c} : request'[d] = request[d]
  BY DEF TypesOK, Finish, Quiet, Request, RequestSteps

LEMMA Proceeded ==
    ASSUME TypesOK, NEW c \in Requests, NEW step \in RequestSteps, Proceed(c, step)
    PROVE  /\ request' \in [Requests -> Request]
           /\ request'[c].at = step /\ request'[c].op = request[c].op
           /\ \A d \in Requests \ {c} : request'[d] = request[d]
  BY DEF TypesOK, Proceed, Request

LEMMA Entered ==
    ASSUME TypesOK, NEW c \in Requests, NEW op \in {"login", "check", "logout", "unban", "set"},
           NEW step \in RequestSteps, NEW status \in Standings \cup {Nobody},
           NEW aim \in Standings \cup {Nobody}, Enter(c, op, step, status, aim)
    PROVE  /\ request' \in [Requests -> Request]
           /\ request'[c].at = step /\ request'[c].op = op /\ request'[c].aim = aim
           /\ \A d \in Requests \ {c} : request'[d] = request[d]
  BY DEF TypesOK, Enter, Request, Quiet

\* Looking for the open record changes where the request stands.
LEMMA OpenFound ==
    ASSUME TypesOK, HistoryOK, NEW c \in Requests, Find(c, "close")
    PROVE  /\ request' \in [Requests -> Request]
           /\ request'[c].at = "close" /\ request'[c].op = request[c].op
           /\ open = <<>> \/ request'[c].record = open[Len(open)]
           /\ \A d \in Requests \ {c} : request'[d] = request[d]
<1> DEFINE found == IF open = <<>> THEN Nobody ELSE open[Len(open)]
<1>1. found \in Requests \cup {Nobody}
  BY DEF HistoryOK
<1>2. request' = [request EXCEPT ![c] = [@ EXCEPT !.at = "close", !.record = found]]
  BY DEF Find
<1>3. open = <<>> \/ found = open[Len(open)]
  OBVIOUS
<1> HIDE DEF found
<1>4. request[c] \in Request
  BY DEF TypesOK
<1>5. [request[c] EXCEPT !.at = "close", !.record = found] \in Request
  BY <1>1, <1>4 DEF Request, RequestSteps
<1> QED
  BY <1>2, <1>3, <1>4, <1>5 DEF TypesOK, Request

LEMMA StatusWritten ==
    ASSUME TypesOK, WritersAreAdmins, NEW c \in Requests, AdminWrite(c)
    PROVE  standing' \in Standings /\ UNCHANGED <<failures, token>>
<1>1. request[c].at = "write" /\ UNCHANGED <<failures, token>>
  BY DEF AdminWrite, redisKeys
<1> QED
  BY <1>1 DEF AdminWrite, TypesOK, WritersAreAdmins

-----------------------------------------------------------------------------
(***************************************************************************)
(* Every step moves one request at most, and it does so in one of these    *)
(* ways.                                                                   *)
(***************************************************************************)
OnlyMoves(c) ==
    /\ request' \in [Requests -> Request]
    /\ \A d \in Requests \ {c} : request'[d] = request[d]

Goes(c, op, steps) == OnlyMoves(c) /\ request'[c].op = op /\ request'[c].at \in steps

LEMMA LoginGoes ==
    ASSUME TypesOK, HistoryOK, NEW c \in Requests
    PROVE  /\ \A correct \in BOOLEAN : LoginRead(c, correct) => Goes(c, "login", {"reset", "count"})
           /\ LoginCount(c) => Goes(c, "login", {"expire", "mark"}) \/ Goes(c, "none", {"idle"})
           /\ LoginExpire(c) \/ LoginMark(c) => Goes(c, "none", {"idle"})
           /\ LoginReset(c) => Goes(c, "login", {"find"})
           /\ LoginFind(c) => Goes(c, "login", {"close"})
           /\ LoginClose(c) => Goes(c, "login", {"stamp"})
           /\ LoginStamp(c) => Goes(c, "login", {"record"})
           /\ LoginRecord(c) => Goes(c, "login", {"penalty", "token"})
           /\ Penalty(c) => \/ Goes(c, "none", {"idle"})
                            \/ request[c].op = "login" /\ Goes(c, "login", {"token"})
           /\ LoginToken(c) \/ LoginRefused(c) => Goes(c, "none", {"idle"})
<1> USE DEF Goes, OnlyMoves
<1>1. ASSUME NEW correct \in BOOLEAN, LoginRead(c, correct)
      PROVE  Goes(c, "login", {"reset", "count"})
  <2>1. \/ Enter(c, "login", "reset", Nobody, Nobody)
        \/ Enter(c, "login", "count", standing, Nobody)
    BY <1>1 DEF LoginRead
  <2> QED
    BY <2>1, Entered DEF TypesOK, RequestSteps
<1>2. ASSUME LoginCount(c) PROVE Goes(c, "login", {"expire", "mark"}) \/ Goes(c, "none", {"idle"})
  <2>1. \/ \E step \in {"expire", "mark"} : request' = [request EXCEPT ![c] = [@ EXCEPT !.at = step]]
        \/ Finish(c)
    BY <1>2 DEF LoginCount, Finish
  <2>2. ASSUME NEW step \in {"expire", "mark"},
               request' = [request EXCEPT ![c] = [@ EXCEPT !.at = step]]
        PROVE  Goes(c, "login", {"expire", "mark"})
    BY <1>2, <2>2 DEF LoginCount, Doing, TypesOK, Request, RequestSteps
  <2> QED
    BY <2>1, <2>2, Ended
<1>3. LoginExpire(c) \/ LoginMark(c) => Goes(c, "none", {"idle"})
  BY Ended DEF LoginExpire, LoginMark
<1>4. LoginReset(c) => Goes(c, "login", {"find"})
  BY Proceeded DEF LoginReset, Doing, RequestSteps
<1>5. LoginFind(c) => Goes(c, "login", {"close"})
  BY OpenFound DEF LoginFind, Doing
<1>6. ASSUME LoginClose(c) PROVE Goes(c, "login", {"stamp"})
  <2>1. /\ request' = [request EXCEPT ![c] = [request[c] EXCEPT !.at = "stamp", !.record = Nobody]]
        /\ request[c].op = "login" /\ request[c] \in Request
    BY <1>6 DEF LoginClose, Doing, TypesOK
  <2>2. LET q == [request[c] EXCEPT !.at = "stamp", !.record = Nobody] IN
        q \in Request /\ q.at = "stamp" /\ q.op = request[c].op
    BY <2>1 DEF Request, RequestSteps
  <2> QED
    BY <2>1, <2>2, Moved
<1>7. ASSUME LoginStamp(c) PROVE Goes(c, "login", {"record"})
  <2>1. /\ request' = [request EXCEPT ![c] = [request[c] EXCEPT !.at = "record", !.seen = standing]]
        /\ request[c].op = "login" /\ request[c] \in Request /\ standing \in Standings
    BY <1>7 DEF LoginStamp, Doing, TypesOK
  <2>2. LET q == [request[c] EXCEPT !.at = "record", !.seen = standing] IN
        q \in Request /\ q.at = "record" /\ q.op = request[c].op
    BY <2>1 DEF Request, RequestSteps
  <2> QED
    BY <2>1, <2>2, Moved
<1>8. LoginRecord(c) => Goes(c, "login", {"penalty", "token"})
  BY Proceeded DEF LoginRecord, Doing, RequestSteps
<1>9. ASSUME Penalty(c)
      PROVE  \/ Goes(c, "none", {"idle"})
             \/ request[c].op = "login" /\ Goes(c, "login", {"token"})
  <2> DEFINE marked == [request[c] EXCEPT !.at = "token",
                         !.seen = IF request[c].seen = "normal" THEN "suspended"
                                  ELSE request[c].seen]
             after  == IF request[c].op # "login" THEN Quiet ELSE marked
  <2>1. request' = [request EXCEPT ![c] = after]
    BY <1>9 DEF Penalty
  <2>2. request[c] \in Request /\ "suspended" \in Standings
    BY DEF TypesOK, Standings
  <2>3. marked \in Request /\ marked.at = "token" /\ marked.op = request[c].op
    BY <2>2 DEF Request, RequestSteps
  <2>4. Quiet \in Request /\ Quiet.at = "idle" /\ Quiet.op = "none"
    BY DEF Quiet, Request, RequestSteps
  <2> HIDE DEF marked
  <2>5. /\ after \in Request
        /\ \/ after.op = "none" /\ after.at = "idle"
           \/ request[c].op = "login" /\ after.op = "login" /\ after.at = "token"
    BY <2>3, <2>4
  <2> QED
    BY <2>1, <2>5, Moved
<1>10. LoginToken(c) \/ LoginRefused(c) => Goes(c, "none", {"idle"})
  BY Ended DEF LoginToken, LoginRefused
<1> QED
  BY <1>1, <1>2, <1>3, <1>4, <1>5, <1>6, <1>7, <1>8, <1>9, <1>10

LEMMA OthersGo ==
    ASSUME TypesOK, HistoryOK, WritersAreAdmins, NEW c \in Requests
    PROVE  /\ CheckOver(c) => Goes(c, "check", {"penalty"})
           /\ \A t \in Requests : Logout(c, t) \/ LogoutKeepsToken(c, t) =>
                  Goes(c, "none", {"idle"}) \/ Goes(c, "logout", {"find"})
           /\ LogoutFind(c) => Goes(c, "logout", {"close"})
           /\ LogoutClose(c) => Goes(c, "none", {"idle"})
           /\ \A op \in {"unban", "set"}, aim \in Standings :
                  AdminRead(c, op, aim) => /\ Goes(c, op, {"reset", "write"})
                                           /\ request'[c].aim = aim
           /\ AdminWrite(c) =>
                 \/ Goes(c, "none", {"idle"})
                 \/ Goes(c, request[c].op, {"reset", "sweep"}) /\ request[c].op \in {"unban", "set"}
           /\ AdminReset(c) \/ AdminSweep(c) \/ RequestAborts(c) => Goes(c, "none", {"idle"})
           /\ RedisFails(c) =>
                 \/ Goes(c, "none", {"idle"})
                 \/ request[c].op = "login" /\ Goes(c, "login", {"find"})
<1> USE DEF Goes, OnlyMoves
<1>1. CheckOver(c) => Goes(c, "check", {"penalty"})
  BY Entered DEF CheckOver, TypesOK, RequestSteps
<1>2. ASSUME NEW t \in Requests, Logout(c, t) \/ LogoutKeepsToken(c, t)
      PROVE  Goes(c, "none", {"idle"}) \/ Goes(c, "logout", {"find"})
  <2>1. \/ Finish(c)
        \/ request' = [request EXCEPT ![c] = [Quiet EXCEPT !.op = "logout", !.at = "find"]]
    BY <1>2 DEF Logout, LogoutKeepsToken, Finish
  <2>2. [Quiet EXCEPT !.op = "logout", !.at = "find"] \in Request
    BY DEF Quiet, Request, RequestSteps
  <2>3. LET q == [Quiet EXCEPT !.op = "logout", !.at = "find"] IN q.op = "logout" /\ q.at = "find"
    BY DEF Quiet
  <2> QED
    BY <2>1, <2>2, <2>3, Ended, Moved
<1>3. LogoutFind(c) => Goes(c, "logout", {"close"})
  BY OpenFound DEF LogoutFind, Doing
<1>4. LogoutClose(c) => Goes(c, "none", {"idle"})
  BY Ended DEF LogoutClose
<1>5. ASSUME NEW op \in {"unban", "set"}, NEW aim \in Standings, AdminRead(c, op, aim)
      PROVE  Goes(c, op, {"reset", "write"}) /\ request'[c].aim = aim
  <2>1. \E step \in {"reset", "write"} : Enter(c, op, step, standing, aim)
    BY <1>5 DEF AdminRead
  <2> QED
    BY <2>1, Entered DEF TypesOK, RequestSteps
<1>6. ASSUME AdminWrite(c)
      PROVE  \/ Goes(c, "none", {"idle"})
             \/ Goes(c, request[c].op, {"reset", "sweep"}) /\ request[c].op \in {"unban", "set"}
  <2>1. \/ Finish(c)
        \/ \E next \in {"sweep", "reset"} : Enter(c, request[c].op, next, Nobody, Nobody)
    BY <1>6 DEF AdminWrite, AfterWrite
  <2>2. request[c].op \in {"unban", "set"}
    BY <1>6 DEF AdminWrite, WritersAreAdmins
  <2> QED
    BY <2>1, <2>2, Ended, Entered DEF RequestSteps
<1>7. AdminReset(c) \/ AdminSweep(c) \/ RequestAborts(c) => Goes(c, "none", {"idle"})
  BY Ended DEF AdminReset, AdminSweep, RequestAborts
<1>8. ASSUME RedisFails(c)
      PROVE  \/ Goes(c, "none", {"idle"})
             \/ request[c].op = "login" /\ Goes(c, "login", {"find"})
  BY <1>8, Ended, Proceeded DEF RedisFails, RequestSteps
<1> QED
  BY <1>1, <1>2, <1>3, <1>4, <1>5, <1>6, <1>7, <1>8

-----------------------------------------------------------------------------
(***************************************************************************)
(* A step is one slot's, or the counter's key expires.                     *)
(***************************************************************************)
AdminReads(c) ==
    \E op \in {"unban", "set"}, aim \in Standings : AdminRead(c, op, aim)

LogsOut(c) == \E t \in Requests : Logout(c, t) \/ LogoutKeepsToken(c, t)

LogsIn(c) == \E correct \in BOOLEAN : LoginRead(c, correct)

SlotStep(c) ==
    \/ LogsIn(c) \/ CheckOver(c) \/ LogsOut(c) \/ AdminReads(c)
    \/ LoginStep(c) \/ LogoutStep(c) \/ AdminStep(c)
    \/ RequestAborts(c) \/ RedisFails(c) \/ JwtExpires(c) \/ TokenExpires(c)

LEMMA OneSlotSteps ==
    [AccountNext]_accountVars =>
        \/ \E c \in Requests : SlotStep(c)
        \/ FailuresExpire
        \/ UNCHANGED accountVars
<1>1. "normal" \in Standings
  BY DEF Standings
<1> QED
  BY <1>1 DEF AccountNext, SlotStep, LogsIn, LogsOut, AdminReads, CheckActive, CheckDecoded

\* Steps that write neither the status nor the Redis keys.
LEMMA LeavesStatusAlone ==
    ASSUME NEW c \in Requests,
           \/ LogsIn(c) \/ CheckOver(c) \/ AdminReads(c) \/ LogoutStep(c)
           \/ LoginFind(c) \/ LoginClose(c) \/ LoginStamp(c) \/ LoginRecord(c)
           \/ LoginRefused(c) \/ RequestAborts(c) \/ RedisFails(c)
    PROVE  UNCHANGED <<standing, failures, token>>
  BY DEF LogsIn, CheckOver, AdminReads, LogoutStep, LogoutFind, LogoutClose, LoginRead, AdminRead,
         LoginFind, LoginClose, LoginStamp, LoginRecord, LoginRefused, RequestAborts, RedisFails,
         redisKeys

LEMMA StandingTyped ==
    ASSUME TypesOK, WritersAreAdmins, NEW c \in Requests, SlotStep(c)
    PROVE  standing' \in Standings
<1>1. CASE LoginMark(c) \/ Penalty(c)
  BY <1>1 DEF LoginMark, Penalty, MarkSuspended, TypesOK, Standings
<1>2. CASE AdminWrite(c)
  BY <1>2, StatusWritten
<1>3. CASE \/ LogsOut(c) \/ LoginCount(c) \/ LoginExpire(c) \/ LoginReset(c) \/ LoginToken(c)
           \/ AdminReset(c) \/ AdminSweep(c) \/ JwtExpires(c) \/ TokenExpires(c)
  BY <1>3 DEF LogsOut, Logout, LogoutKeepsToken, LoginCount, LoginExpire, LoginReset, LoginToken,
              AdminReset, AdminSweep, JwtExpires, TokenExpires, TypesOK
<1> QED
  BY <1>1, <1>2, <1>3, LeavesStatusAlone DEF SlotStep, LoginStep, AdminStep, TypesOK

\* What each step does to the failure counter.
LEMMA FailuresTyped ==
    ASSUME TypesOK, NEW c \in Requests, SlotStep(c)
    PROVE  failures' \in Counter(FailureLimit)
<1> USE LimitsAssumption
<1>1. CASE LoginCount(c)
  BY <1>1 DEF LoginCount, TypesOK, Counter, Incr
<1>2. CASE LoginExpire(c)
  <2> DEFINE armed == failures.value > 0
  <2>1. armed \in BOOLEAN
    OBVIOUS
  <2>2. failures' = [failures EXCEPT !.expires = armed]
    BY <1>2 DEF LoginExpire, Armed
  <2> HIDE DEF armed
  <2> QED
    BY <2>1, <2>2 DEF TypesOK, Counter
<1>3. CASE LoginReset(c) \/ AdminReset(c)
  <2>1. failures' = Zero
    BY <1>3 DEF LoginReset, AdminReset
  <2>2. Zero \in Counter(FailureLimit)
    BY DEF Counter, Zero
  <2> QED
    BY <2>1, <2>2
<1>4. CASE \/ LogsOut(c) \/ LoginMark(c) \/ Penalty(c) \/ LoginToken(c)
           \/ AdminWrite(c) \/ AdminSweep(c) \/ JwtExpires(c) \/ TokenExpires(c)
  BY <1>4 DEF LogsOut, Logout, LogoutKeepsToken, LoginMark, Penalty, LoginToken, AdminWrite,
              AdminSweep, JwtExpires, TokenExpires, TypesOK, redisKeys
<1> QED
  BY <1>1, <1>2, <1>3, <1>4, LeavesStatusAlone DEF SlotStep, LoginStep, AdminStep, TypesOK

LEMMA TokenTyped ==
    ASSUME TypesOK, NEW c \in Requests, SlotStep(c)
    PROVE  token' \in [Requests -> TokenStates]
<1>1. CASE LoginToken(c) \/ AdminSweep(c) \/ LogsOut(c)
  BY <1>1 DEF LoginToken, AdminSweep, LogsOut, Logout, LogoutKeepsToken, Revoke, TypesOK,
              TokenStates, redisKeys
<1>2. CASE JwtExpires(c) \/ TokenExpires(c)
  BY <1>2 DEF JwtExpires, TokenExpires, TypesOK, TokenStates
<1>3. CASE \/ LoginMark(c) \/ Penalty(c) \/ LoginCount(c) \/ LoginExpire(c) \/ LoginReset(c)
           \/ AdminWrite(c) \/ AdminReset(c)
  BY <1>3 DEF LoginMark, Penalty, LoginCount, LoginExpire, LoginReset, AdminWrite, AdminReset,
              TypesOK, redisKeys
<1> QED
  BY <1>1, <1>2, <1>3, LeavesStatusAlone DEF SlotStep, LoginStep, AdminStep, TypesOK

LEMMA RequestTyped ==
    ASSUME TypesOK, HistoryOK, WritersAreAdmins, NEW c \in Requests, SlotStep(c)
    PROVE  request' \in [Requests -> Request] /\ WritersAreAdmins'
<1> USE DEF Goes, OnlyMoves, WritersAreAdmins
<1>1. CASE LogsIn(c) \/ LoginStep(c)
  BY <1>1, LoginGoes DEF LogsIn, LoginStep
<1>2. CASE AdminReads(c)
  BY <1>2, OthersGo DEF AdminReads
<1>3. CASE CheckOver(c) \/ LogsOut(c) \/ LogoutStep(c) \/ AdminStep(c)
  BY <1>3, OthersGo DEF LogsOut, LogoutStep, AdminStep
<1>4. CASE RequestAborts(c) \/ RedisFails(c)
  BY <1>4, OthersGo
<1>5. CASE JwtExpires(c) \/ TokenExpires(c)
  BY <1>5 DEF JwtExpires, TokenExpires, TypesOK
<1> QED
  BY <1>1, <1>2, <1>3, <1>4, <1>5 DEF SlotStep

-----------------------------------------------------------------------------
(***************************************************************************)
(* The failure counter.                                                    *)
(***************************************************************************)
LEMMA NoFailuresLeft ==
    ASSUME failures' = Zero
    PROVE  FailuresGoAway' /\ FailuresMark'
  BY FailureLimitAssumption, LimitsAssumption DEF FailuresGoAway, FailuresMark, Zero

\* A step that leaves the counter alone, and the request that owes it something.
LEMMA FailuresKept ==
    ASSUME FailuresGoAway, FailuresMark, NEW c \in Requests,
           failures' = failures,
           \A d \in Requests \ {c} : request'[d] = request[d],
           excuse \cap {"failures", "mark"} \subseteq excuse',
           Doing(c, "login", "expire") => "failures" \in excuse',
           standing' = "normal" =>
               \/ "mark" \in excuse'
               \/ standing = "normal" /\ ~Doing(c, "login", "mark") /\ ~Resetting(c)
               \/ request'[c].op \in {"unban", "set"} /\ request'[c].at = "reset"
    PROVE  FailuresGoAway' /\ FailuresMark'
<1>1. FailuresGoAway'
  BY DEF FailuresGoAway, Doing
<1>2. FailuresMark'
  BY DEF FailuresMark, Doing, Resetting
<1> QED
  BY <1>1, <1>2

LEMMA FailuresStep ==
    ASSUME TypesOK, HistoryOK, WritersAreAdmins, FailuresGoAway, FailuresMark,
           NEW c \in Requests, SlotStep(c)
    PROVE  FailuresGoAway' /\ FailuresMark'
<1> USE DEF Goes, OnlyMoves
<1>1. CASE LoginCount(c)
  <2>1. failures' = Incr(failures, FailureLimit) /\ excuse' = excuse /\ standing' = standing
    BY <1>1 DEF LoginCount, accountHist
  <2>2. \A d \in Requests \ {c} : request'[d] = request[d]
    BY <1>1, LoginGoes
  <2>3. failures.value \in Nat /\ failures \in Counter(FailureLimit)
    BY LimitsAssumption DEF TypesOK, Counter
  <2>4. /\ failures'.expires = failures.expires
        /\ failures'.value = IF failures.value < FailureLimit THEN failures.value + 1 ELSE failures.value
    BY <2>1, <2>3 DEF Incr, Counter
  <2>5. CASE Creates(failures)
    <3>1. request'[c].at = "expire" /\ request'[c].op = "login"
      BY <1>1, <2>5 DEF LoginCount, TypesOK, Request, Doing
    <3>2. failures'.value = 1
      BY <2>4, <2>5, FailureLimitAssumption, LimitsAssumption DEF Creates
    <3> QED
      BY <3>1, <3>2, FailureLimitAssumption, LimitsAssumption DEF FailuresGoAway, FailuresMark, Doing
  <2>6. CASE ~Creates(failures)
    <3>1. failures.value > 0
      BY <2>3, <2>6 DEF Creates
    <3>2. FailuresGoAway'
      <4>1. ~Doing(c, "login", "expire")
        BY <1>1 DEF LoginCount, Doing
      <4> QED
        BY <2>1, <2>2, <2>4, <3>1, <4>1 DEF FailuresGoAway, Doing
    <3>3. ASSUME failures'.value >= FailureLimit
          PROVE  request'[c].at = "mark" /\ request'[c].op = "login"
      BY <1>1, <2>6, <3>3 DEF LoginCount, TypesOK, Request, Doing
    <3>4. FailuresMark'
      BY <3>3 DEF FailuresMark, Doing
    <3> QED
      BY <3>2, <3>4
  <2> QED
    BY <2>5, <2>6
<1>2. CASE LoginExpire(c)
  <2>1. failures' = Armed(failures) /\ excuse' = excuse /\ standing' = standing
    BY <1>2 DEF LoginExpire, accountHist
  <2>2. \A d \in Requests \ {c} : request'[d] = request[d]
    BY <1>2, LoginGoes
  <2> DEFINE armed == failures.value > 0
  <2>3. failures' = [failures EXCEPT !.expires = armed]
    BY <2>1 DEF Armed
  <2> HIDE DEF armed
  <2>4. failures'.value = failures.value /\ failures'.expires = armed
    BY <2>3 DEF TypesOK, Counter
  <2>5. FailuresGoAway'
    BY <2>4 DEF FailuresGoAway, armed
  <2>6. ~Doing(c, "login", "mark") /\ ~Resetting(c)
    BY <1>2 DEF LoginExpire, Doing, Resetting
  <2>7. FailuresMark'
    BY <2>1, <2>2, <2>4, <2>6 DEF FailuresMark, Doing, Resetting
  <2> QED
    BY <2>5, <2>7
<1>3. CASE LoginReset(c) \/ AdminReset(c)
  BY <1>3, NoFailuresLeft DEF LoginReset, AdminReset
<1>4. CASE LoginMark(c)
  <2>1. /\ failures' = failures /\ excuse \subseteq excuse'
        /\ standing' = "normal" => "mark" \in excuse'
        /\ ~Doing(c, "login", "expire")
    BY <1>4 DEF LoginMark, redisKeys, Doing
  <2> QED
    BY <1>4, <2>1, LoginGoes, FailuresKept
<1>5. CASE AdminWrite(c)
  <2>1. failures' = failures /\ excuse' = excuse /\ request[c].at = "write"
    BY <1>5 DEF AdminWrite, redisKeys, accountHist
  <2>2. \A d \in Requests \ {c} : request'[d] = request[d]
    BY <1>5, OthersGo
  <2>3. ~Doing(c, "login", "mark") /\ ~Resetting(c) /\ ~Doing(c, "login", "expire")
    BY <2>1 DEF Doing, Resetting
  <2>4. ASSUME standing' = "normal", standing # "normal"
        PROVE  request'[c].op \in {"unban", "set"} /\ request'[c].at = "reset"
    <3>1. request[c].aim = "normal" /\ request[c].op \in {"unban", "set"}
      BY <1>5, <2>1, <2>4 DEF AdminWrite, WritersAreAdmins
    <3>2. Enter(c, request[c].op, "reset", Nobody, Nobody)
      BY <1>5, <3>1 DEF AdminWrite, AfterWrite
    <3> QED
      BY <3>1, <3>2, Entered DEF RequestSteps
  <2> QED
    BY <2>1, <2>2, <2>3, <2>4, FailuresKept
<1>6. CASE RequestAborts(c)
  <2>1. /\ failures' = failures /\ standing' = standing /\ excuse' = excuse \cup Undone(c)
    BY <1>6 DEF RequestAborts, redisKeys
  <2>2. /\ Doing(c, "login", "expire") => "failures" \in Undone(c)
        /\ Doing(c, "login", "mark") \/ Resetting(c) => "mark" \in Undone(c)
    BY DEF Undone, Doing, Resetting
  <2> QED
    BY <1>6, <2>1, <2>2, OthersGo, FailuresKept
<1>7. CASE RedisFails(c)
  <2>1. /\ failures' = failures /\ standing' = standing /\ excuse \subseteq excuse'
        /\ ~Doing(c, "login", "expire") /\ ~Doing(c, "login", "mark")
        /\ Resetting(c) => "mark" \in excuse'
    BY <1>7 DEF RedisFails, redisKeys, Doing, Resetting
  <2> QED
    BY <1>7, <2>1, OthersGo, FailuresKept
<1>8. CASE \/ LogsIn(c) \/ LoginFind(c) \/ LoginClose(c) \/ LoginStamp(c) \/ LoginRecord(c)
           \/ Penalty(c) \/ LoginToken(c) \/ LoginRefused(c)
  <2>1. \A d \in Requests \ {c} : request'[d] = request[d]
    BY <1>8, LoginGoes DEF LogsIn
  <2>2. failures' = failures /\ excuse' = excuse /\ (standing' = "normal" => standing = "normal")
    BY <1>8 DEF LogsIn, LoginRead, LoginFind, LoginClose, LoginStamp, LoginRecord, Penalty,
                MarkSuspended, LoginToken, LoginRefused, redisKeys, accountHist
  <2>3. ~Doing(c, "login", "expire") /\ ~Doing(c, "login", "mark") /\ ~Resetting(c)
    BY <1>8 DEF LogsIn, LoginRead, Unused, Quiet, LoginFind, LoginClose, LoginStamp, LoginRecord,
                Penalty, LoginToken, LoginRefused, Doing, Resetting
  <2> QED
    BY <2>1, <2>2, <2>3, FailuresKept
<1>9. CASE CheckOver(c) \/ LogsOut(c) \/ LogoutStep(c) \/ AdminReads(c) \/ AdminSweep(c)
  <2>1. \A d \in Requests \ {c} : request'[d] = request[d]
    BY <1>9, OthersGo DEF LogsOut, LogoutStep, AdminReads
  <2>2. /\ failures' = failures /\ standing' = standing
        /\ excuse \cap {"failures", "mark"} \subseteq excuse'
    BY <1>9 DEF CheckOver, LogsOut, Logout, LogoutKeepsToken, LogoutStep, LogoutFind, LogoutClose,
                AdminReads, AdminRead, AdminSweep, redisKeys, accountHist
  <2>3. ~Doing(c, "login", "expire") /\ ~Doing(c, "login", "mark") /\ ~Resetting(c)
    <3>1. request[c] = Quiet \/ request[c].op = "logout" \/ request[c].at = "sweep"
      BY <1>9 DEF CheckOver, LogsOut, Logout, LogoutKeepsToken, LogoutStep, LogoutFind, LogoutClose,
                  AdminReads, AdminRead, AdminSweep, Doing
    <3> QED
      BY <3>1 DEF Doing, Resetting, Quiet
  <2> QED
    BY <2>1, <2>2, <2>3, FailuresKept
<1>10. CASE JwtExpires(c) \/ TokenExpires(c)
  BY <1>10 DEF JwtExpires, TokenExpires, accountHist, FailuresGoAway, FailuresMark, Doing, Resetting
<1> QED
  BY <1>1, <1>2, <1>3, <1>4, <1>5, <1>6, <1>7, <1>8, <1>9, <1>10
  DEF SlotStep, LoginStep, AdminStep

-----------------------------------------------------------------------------
(***************************************************************************)
(* The ban.                                                                *)
(***************************************************************************)

\* A step that adds no session and takes nothing back.
LEMMA SessionsKept ==
    ASSUME LateLoginsOnly, NEW c \in Requests,
           standing' = "banned" => standing = "banned",
           \A d \in Requests \ {c} : request'[d] = request[d],
           request[c].at = "sweep" => "sweep" \in excuse',
           "sweep" \in excuse => "sweep" \in excuse',
           late' = late,
           \A t \in Requests : token'[t] = "live" => token[t] = "live" \/ LoggingIn(t),
           request'[c].op = "login" => LoggingIn(c) \/ ~LoggingIn(c)'
    PROVE  LateLoginsOnly'
<1>1. CASE standing # "banned"
  BY <1>1 DEF LateLoginsOnly
<1>2. CASE \E d \in Requests : request[d].at = "sweep"
  BY <1>2 DEF LateLoginsOnly
<1>3. CASE "sweep" \in excuse
  BY <1>3 DEF LateLoginsOnly
<1>4. CASE \A t \in Requests : token[t] = "live" \/ LoggingIn(t) => t \in late
  <2>1. \A t \in Requests : LoggingIn(t)' => LoggingIn(t)
    BY DEF LoggingIn
  <2> QED
    BY <1>4, <2>1 DEF LateLoginsOnly
<1> QED
  BY <1>1, <1>2, <1>3, <1>4 DEF LateLoginsOnly

LEMMA SessionsStep ==
    ASSUME TypesOK, HistoryOK, WritersAreAdmins, LateLoginsOnly, NEW c \in Requests, SlotStep(c)
    PROVE  LateLoginsOnly'
<1> USE DEF Goes, OnlyMoves
<1>1. CASE LogsIn(c)
  BY <1>1 DEF LogsIn, LoginRead, LateLoginsOnly
<1>2. CASE AdminSweep(c)
  <2>1. \A t \in Requests : token'[t] # "live"
    BY <1>2 DEF AdminSweep, Revoke, TypesOK
  <2>2. \A t \in Requests : LoggingIn(t)' => LoggingIn(t)
    BY <1>2, OthersGo DEF LoggingIn
  <2>3. \A t \in Requests : LoggingIn(t) => t \in late'
    BY <1>2 DEF AdminSweep
  <2> QED
    BY <2>1, <2>2, <2>3 DEF LateLoginsOnly
<1>3. CASE AdminWrite(c)
  <2>1. /\ token' = token /\ excuse' = excuse /\ late' = late
        /\ request[c].at = "write" /\ request[c].op \in {"unban", "set"}
    BY <1>3 DEF AdminWrite, redisKeys, accountHist, WritersAreAdmins
  <2>2. CASE request[c].aim = "banned"
    <3>1. Enter(c, request[c].op, "sweep", Nobody, Nobody)
      BY <1>3, <2>2 DEF AdminWrite, AfterWrite
    <3> QED
      BY <2>1, <3>1, Entered DEF LateLoginsOnly, RequestSteps
  <2>3. CASE request[c].aim # "banned"
    <3>1. standing' = "banned" => standing = "banned"
      BY <1>3, <2>3 DEF AdminWrite
    <3>2. request'[c].op # "login" /\ \A d \in Requests \ {c} : request'[d] = request[d]
      BY <1>3, <2>1, OthersGo
    <3> QED
      BY <2>1, <3>1, <3>2, SessionsKept
  <2> QED
    BY <2>2, <2>3
<1>4. CASE LoginToken(c)
  <2>1. standing' = standing /\ excuse' = excuse /\ late' = late /\ LoggingIn(c)
    BY <1>4 DEF LoginToken, accountHist, Doing, LoggingIn
  <2>2. \A t \in Requests : token'[t] = "live" => token[t] = "live" \/ LoggingIn(t)
    BY <1>4, <2>1 DEF LoginToken, TypesOK
  <2>3. request[c].at # "sweep"
    BY <1>4 DEF LoginToken, Doing
  <2> QED
    BY <1>4, <2>1, <2>2, <2>3, LoginGoes, SessionsKept
<1>5. CASE LoginCount(c) \/ LoginExpire(c) \/ LoginMark(c)
  <2>1. /\ standing' = "banned" => standing = "banned"
        /\ token' = token /\ late' = late /\ excuse \subseteq excuse' /\ request[c].at # "sweep"
    BY <1>5 DEF LoginCount, LoginExpire, LoginMark, MarkSuspended, redisKeys, accountHist, Doing
  <2>2. ~LoggingIn(c)' /\ \A d \in Requests \ {c} : request'[d] = request[d]
    BY <1>5, LoginGoes DEF LoggingIn
  <2> QED
    BY <2>1, <2>2, SessionsKept
<1>6. CASE \/ LoginReset(c) \/ LoginFind(c) \/ LoginClose(c) \/ LoginStamp(c) \/ LoginRecord(c)
           \/ LoginRefused(c)
  <2>1. /\ standing' = standing /\ token' = token /\ late' = late
        /\ "sweep" \in excuse => "sweep" \in excuse'
        /\ LoggingIn(c) /\ request[c].at # "sweep"
    BY <1>6 DEF LoginReset, LoginFind, LoginClose, LoginStamp, LoginRecord, LoginRefused, redisKeys,
                accountHist, Doing, LoggingIn
  <2>2. \A d \in Requests \ {c} : request'[d] = request[d]
    BY <1>6, LoginGoes
  <2> QED
    BY <2>1, <2>2, SessionsKept
<1>7. CASE Penalty(c)
  <2>1. /\ standing' = "banned" => standing = "banned"
        /\ token' = token /\ late' = late /\ excuse' = excuse /\ request[c].at = "penalty"
    BY <1>7 DEF Penalty, MarkSuspended, redisKeys, accountHist
  <2>2. /\ \A d \in Requests \ {c} : request'[d] = request[d]
        /\ request'[c].op = "login" => request[c].op = "login"
    BY <1>7, LoginGoes
  <2>3. request'[c].op = "login" => LoggingIn(c)
    BY <2>1, <2>2 DEF LoggingIn
  <2> QED
    BY <2>1, <2>2, <2>3, SessionsKept
<1>8. CASE CheckOver(c) \/ LogsOut(c) \/ LogoutStep(c) \/ AdminReads(c) \/ AdminReset(c)
  <2>1. /\ standing' = standing /\ late' = late /\ request[c].at # "sweep"
        /\ "sweep" \in excuse => "sweep" \in excuse'
    <3>1. CASE CheckOver(c) \/ LogsOut(c) \/ AdminReads(c)
      <4>1. request[c] = Quiet /\ standing' = standing
        BY <3>1 DEF CheckOver, LogsOut, Logout, LogoutKeepsToken, AdminReads, AdminRead
      <4>2. late' = late /\ excuse' = excuse
        BY <3>1 DEF CheckOver, LogsOut, Logout, LogoutKeepsToken, AdminReads, AdminRead, accountHist
      <4> QED
        BY <4>1, <4>2 DEF Quiet
    <3>2. CASE LogoutStep(c) \/ AdminReset(c)
      BY <3>2 DEF LogoutStep, LogoutFind, LogoutClose, AdminReset, redisKeys, accountHist, Doing,
                  Resetting
    <3> QED
      BY <1>8, <3>1, <3>2
  <2>2. \A t \in Requests : token'[t] = "live" => token[t] = "live"
    BY <1>8 DEF CheckOver, LogsOut, Logout, LogoutKeepsToken, LogoutStep, LogoutFind, LogoutClose,
                AdminReads, AdminRead, AdminReset, Revoke, TypesOK, redisKeys
  <2>3. request'[c].op # "login" /\ \A d \in Requests \ {c} : request'[d] = request[d]
    BY <1>8, OthersGo DEF LogsOut, LogoutStep, AdminReads
  <2> QED
    BY <2>1, <2>2, <2>3, SessionsKept
<1>9. CASE RequestAborts(c)
  <2>1. /\ standing' = standing /\ token' = token /\ late' = late /\ excuse \subseteq excuse'
        /\ request[c].at = "sweep" => "sweep" \in excuse'
    BY <1>9 DEF RequestAborts, Undone, Doing, Resetting, redisKeys
  <2> QED
    BY <1>9, <2>1, OthersGo, SessionsKept
<1>10. CASE RedisFails(c)
  <2>1. /\ standing' = standing /\ token' = token /\ late' = late /\ excuse \subseteq excuse'
        /\ request[c].at = "reset"
    BY <1>10 DEF RedisFails, redisKeys, Doing, Resetting
  <2>2. request'[c].op = "login" => LoggingIn(c)
    BY <1>10, <2>1, OthersGo DEF LoggingIn
  <2> QED
    BY <1>10, <2>1, <2>2, OthersGo, SessionsKept
<1>11. CASE JwtExpires(c) \/ TokenExpires(c)
  <2>1. /\ standing' = standing /\ request' = request /\ late' = late /\ excuse' = excuse
        /\ \A t \in Requests : token'[t] = "live" => token[t] = "live"
    BY <1>11 DEF JwtExpires, TokenExpires, accountHist, TypesOK
  <2> QED
    BY <2>1 DEF LateLoginsOnly, LoggingIn
<1> QED
  BY <1>1, <1>2, <1>3, <1>4, <1>5, <1>6, <1>7, <1>8, <1>9, <1>10, <1>11
  DEF SlotStep, LoginStep, AdminStep

-----------------------------------------------------------------------------
(***************************************************************************)
(* The login history.                                                      *)
(***************************************************************************)
LEMMA RowRemoved ==
    ASSUME NEW S, NEW s \in Seq(S), NEW i \in 1..Len(s)
    PROVE  RemoveAt(s, i) \in Seq(S) /\ Len(RemoveAt(s, i)) = Len(s) - 1
<1>1. SubSeq(s, 1, i - 1) \in Seq(S) /\ Len(SubSeq(s, 1, i - 1)) = i - 1
  BY SubSeqProperties
<1>2. SubSeq(s, i + 1, Len(s)) \in Seq(S) /\ Len(SubSeq(s, i + 1, Len(s))) = Len(s) - i
  BY SubSeqProperties
<1> DEFINE front == SubSeq(s, 1, i - 1)
           back  == SubSeq(s, i + 1, Len(s))
<1>0. Len(s) \in Nat /\ (i - 1) + (Len(s) - i) = Len(s) - 1
  OBVIOUS
<1>3. front \in Seq(S) /\ back \in Seq(S) /\ Len(front) + Len(back) = Len(s) - 1
  BY <1>0, <1>1, <1>2, Zenon
<1> HIDE DEF front, back
<1>4. front \o back \in Seq(S) /\ Len(front \o back) = Len(front) + Len(back)
  BY <1>3, ConcatProperties
<1> QED
  BY <1>3, <1>4 DEF RemoveAt, front, back

\* Closing removes the record found, or it was closed already.
LEMMA Closed ==
    ASSUME HistoryOK, NEW c \in Requests, CloseRecord(c)
    PROVE  /\ open' \in Seq(Requests)
           /\ open' = open \/ Len(open') = Len(open) - 1
           /\ open # <<>> /\ open[1] = request[c].record => Len(open') = Len(open) - 1
<1>1. CASE request[c].record \notin ToSet(open)
  <2>1. open' = open
    BY <1>1 DEF CloseRecord
  <2>2. open # <<>> => open[1] \in ToSet(open)
    BY DEF HistoryOK, ToSet
  <2> QED
    BY <1>1, <2>1, <2>2 DEF HistoryOK
<1>2. CASE request[c].record \in ToSet(open)
  <2> DEFINE i == CHOOSE k \in 1..Len(open) : open[k] = request[c].record
  <2>1. i \in 1..Len(open)
    BY <1>2 DEF ToSet
  <2>2. open' = RemoveAt(open, i)
    BY <1>2 DEF CloseRecord
  <2> HIDE DEF i
  <2> QED
    BY <2>1, <2>2, RowRemoved DEF HistoryOK
<1> QED
  BY <1>1, <1>2

LEMMA OpenTyped ==
    ASSUME HistoryOK, NEW c \in Requests, SlotStep(c)
    PROVE  open' \in Seq(Requests)
<1>1. CASE LoginClose(c) \/ LogoutClose(c)
  BY <1>1, Closed DEF LoginClose, LogoutClose
<1>2. CASE LoginRecord(c)
  BY <1>2 DEF LoginRecord, AddRecord, HistoryOK
<1>3. CASE LogsIn(c) \/ CheckOver(c) \/ LogsOut(c) \/ AdminReads(c)
  BY <1>3 DEF LogsIn, LoginRead, CheckOver, LogsOut, Logout, LogoutKeepsToken, AdminReads, AdminRead,
              HistoryOK
<1>4. CASE \/ LoginCount(c) \/ LoginExpire(c) \/ LoginMark(c) \/ LoginReset(c) \/ LoginFind(c)
           \/ LoginStamp(c) \/ Penalty(c) \/ LoginToken(c) \/ LoginRefused(c) \/ LogoutFind(c)
  BY <1>4 DEF LoginCount, LoginExpire, LoginMark, LoginReset, LoginFind, LoginStamp, Penalty,
              LoginToken, LoginRefused, LogoutFind, HistoryOK
<1>5. CASE AdminStep(c) \/ RequestAborts(c) \/ RedisFails(c) \/ JwtExpires(c) \/ TokenExpires(c)
  BY <1>5 DEF AdminStep, AdminWrite, AdminReset, AdminSweep, RequestAborts, RedisFails, JwtExpires,
              TokenExpires, HistoryOK
<1> QED
  BY <1>1, <1>2, <1>3, <1>4, <1>5 DEF SlotStep, LoginStep, LogoutStep

\* A step after which the request is not at its record, and that leaves the
\* records alone.
LEMMA RecordsKept ==
    ASSUME OneAtItsRecord, NEW c \in Requests, open' = open, overlap' = overlap,
           \A d \in Requests \ {c} : request'[d] = request[d],
           request'[c].op # "login" \/ request'[c].at \notin {"close", "stamp", "record"}
    PROVE  OneAtItsRecord'
<1>1. \A d \in Requests : Recording(d)' => d # c /\ Recording(d)
  BY DEF Recording
<1>2. ~(Doing(c, "login", "close") \/ Doing(c, "login", "stamp") \/ Doing(c, "login", "record"))'
  BY DEF Doing
<1>3. \A d \in Requests \ {c}, step \in RequestSteps :
          Doing(d, "login", step)' <=> Doing(d, "login", step)
  BY DEF Doing
<1> QED
  BY <1>1, <1>2, <1>3 DEF OneAtItsRecord, RequestSteps

LEMMA RecordsStep ==
    ASSUME TypesOK, HistoryOK, WritersAreAdmins, OneAtItsRecord, NEW c \in Requests, SlotStep(c)
    PROVE  OneAtItsRecord'
<1> USE DEF Goes, OnlyMoves
<1>1. CASE LoginFind(c)
  <2>1. /\ open' = open /\ Find(c, "close")
        /\ overlap' = (overlap \/ \E d \in Requests \ {c} : Recording(d))
    BY <1>1 DEF LoginFind
  <2>2. CASE overlap'
    BY <2>2 DEF OneAtItsRecord
  <2>3. CASE ~overlap'
    <3>1. ~overlap /\ \A d \in Requests \ {c} : ~Recording(d)
      BY <2>1, <2>3
    <3>2. Len(open') <= 1
      BY <2>1, <3>1 DEF OneAtItsRecord
    <3>3. /\ request'[c].at = "close"
          /\ open' = <<>> \/ request'[c].record = open'[1]
          /\ \A d \in Requests \ {c} : request'[d] = request[d]
      BY <2>1, <3>2, OpenFound DEF HistoryOK
    <3>4. \A d \in Requests \ {c} : ~Recording(d)'
      BY <3>1, <3>3 DEF Recording
    <3>5. \A d \in Requests : Recording(d)' => d = c
      BY <3>4
    <3>6. \A d \in Requests :
             /\ Doing(d, "login", "close")' => open' = <<>> \/ open'[1] = request'[d].record
             /\ ~Doing(d, "login", "stamp")' /\ ~Doing(d, "login", "record")'
      BY <3>3, <3>5 DEF Recording, Doing
    <3> QED
      BY <3>2, <3>5, <3>6 DEF OneAtItsRecord
  <2> QED
    BY <2>2, <2>3
<1>2. CASE LoginClose(c)
  <2>1. CloseRecord(c) /\ overlap' = overlap /\ Doing(c, "login", "close")
    BY <1>2 DEF LoginClose, accountHist
  <2>2. CASE overlap
    BY <2>1, <2>2 DEF OneAtItsRecord
  <2>3. CASE ~overlap
    <3>1. /\ Len(open) <= 1
          /\ open = <<>> \/ open[1] = request[c].record
          /\ \A d \in Requests \ {c} : ~Recording(d)
      BY <2>1, <2>3 DEF OneAtItsRecord, Recording, Doing
    <3>2. open' = <<>>
      <4>1. open' \in Seq(Requests) /\ open \in Seq(Requests)
        BY <2>1, Closed DEF HistoryOK
      <4>2. CASE open = <<>>
        BY <2>1, <4>1, <4>2, Closed
      <4>3. CASE open # <<>>
        <5>1. Len(open) = 1 /\ open[1] = request[c].record
          <6>1. Len(open) \in Nat /\ Len(open) # 0
            BY <4>1, <4>3, EmptySeq
          <6>2. Len(open) <= 1
            BY <3>1
          <6>3. \A n \in Nat : n # 0 /\ n <= 1 => n = 1
            OBVIOUS
          <6>4. Len(open) = 1
            BY <6>1, <6>2, <6>3, Zenon
          <6>5. open[1] = request[c].record
            BY <3>1, <4>3
          <6> QED
            BY <6>4, <6>5
        <5>2. Len(open') = 0
          BY <2>1, <4>3, <5>1, Closed
        <5> QED
          BY <4>1, <5>2
      <4> QED
        BY <4>2, <4>3
    <3>3. \A d \in Requests \ {c} : ~Recording(d)'
      BY <1>2, <3>1, LoginGoes DEF Recording
    <3> QED
      BY <1>2, <3>2, <3>3, LoginGoes DEF OneAtItsRecord, Recording, Doing
  <2> QED
    BY <2>2, <2>3
<1>3. CASE LoginStamp(c)
  <2>1. /\ open' = open /\ overlap' = overlap /\ Doing(c, "login", "stamp")
        /\ request'[c].op = "login" /\ request'[c].at = "record"
        /\ \A d \in Requests \ {c} : request'[d] = request[d]
    BY <1>3, LoginGoes DEF LoginStamp, accountHist
  <2>2. \A d \in Requests : Recording(d)' <=> Recording(d)
    BY <2>1 DEF Recording, Doing
  <2> QED
    BY <2>1, <2>2 DEF OneAtItsRecord, Doing
<1>4. CASE LoginRecord(c)
  <2>1. /\ open' = Append(open, c) /\ overlap' = overlap /\ Doing(c, "login", "record")
        /\ request'[c].at \in {"penalty", "token"}
        /\ \A d \in Requests \ {c} : request'[d] = request[d]
    BY <1>4, LoginGoes DEF LoginRecord, AddRecord, accountHist
  <2>2. CASE overlap
    BY <2>1, <2>2 DEF OneAtItsRecord
  <2>3. CASE ~overlap
    <3>1. open = <<>> /\ \A d \in Requests \ {c} : ~Recording(d)
      BY <2>1, <2>3 DEF OneAtItsRecord, Recording, Doing
    <3>2. Len(open') <= 1
      BY <2>1, <3>1
    <3>3. \A d \in Requests : ~Recording(d)'
      BY <2>1, <3>1 DEF Recording
    <3> QED
      BY <3>2, <3>3 DEF OneAtItsRecord, Recording, Doing
  <2> QED
    BY <2>2, <2>3
<1>5. CASE LogoutClose(c)
  <2>1. /\ CloseRecord(c) /\ overlap' = overlap /\ request'[c].op = "none"
        /\ \A d \in Requests \ {c} : request'[d] = request[d]
    BY <1>5, OthersGo DEF LogoutClose, accountHist
  <2>2. CASE overlap
    BY <2>1, <2>2 DEF OneAtItsRecord
  <2>3. CASE ~overlap
    <3>1. Len(open) <= 1 /\ Len(open') <= 1 /\ (open' = open \/ open' = <<>>)
      BY <2>1, <2>3, Closed DEF OneAtItsRecord, HistoryOK
    <3>2. \A d \in Requests : Recording(d)' => d # c /\ Recording(d)
      BY <2>1 DEF Recording
    <3> QED
      BY <2>1, <2>3, <3>1, <3>2 DEF OneAtItsRecord, Doing
  <2> QED
    BY <2>2, <2>3
<1>6. CASE \/ LogsIn(c) \/ LoginCount(c) \/ LoginExpire(c) \/ LoginMark(c) \/ LoginReset(c)
           \/ Penalty(c) \/ LoginToken(c) \/ LoginRefused(c)
  <2>1. open' = open /\ overlap' = overlap
    BY <1>6 DEF LogsIn, LoginRead, LoginCount, LoginExpire, LoginMark, LoginReset, Penalty, LoginToken,
                LoginRefused, accountHist
  <2>2. /\ \A d \in Requests \ {c} : request'[d] = request[d]
        /\ request'[c].at \notin {"close", "stamp", "record"}
    BY <1>6, LoginGoes DEF LogsIn
  <2> QED
    BY <2>1, <2>2, RecordsKept
<1>7. CASE \/ CheckOver(c) \/ LogsOut(c) \/ LogoutFind(c) \/ AdminReads(c) \/ AdminStep(c)
           \/ RequestAborts(c) \/ RedisFails(c)
  <2>1. open' = open /\ overlap' = overlap
    <3>1. CASE CheckOver(c) \/ LogsOut(c) \/ LogoutFind(c) \/ AdminReads(c)
      BY <3>1 DEF CheckOver, LogsOut, Logout, LogoutKeepsToken, LogoutFind, AdminReads, AdminRead,
                  accountHist
    <3>2. CASE AdminStep(c) \/ RequestAborts(c) \/ RedisFails(c)
      BY <3>2 DEF AdminStep, AdminWrite, AdminReset, AdminSweep, RequestAborts, RedisFails, accountHist
    <3> QED
      BY <1>7, <3>1, <3>2
  <2>2. /\ \A d \in Requests \ {c} : request'[d] = request[d]
        /\ request'[c].op # "login" \/ request'[c].at \notin {"close", "stamp", "record"}
    BY <1>7, OthersGo DEF LogsOut, AdminReads, AdminStep
  <2> QED
    BY <2>1, <2>2, RecordsKept
<1>8. CASE JwtExpires(c) \/ TokenExpires(c)
  BY <1>8 DEF JwtExpires, TokenExpires, accountHist, OneAtItsRecord, Recording, Doing
<1> QED
  BY <1>1, <1>2, <1>3, <1>4, <1>5, <1>6, <1>7, <1>8 DEF SlotStep, LoginStep, LogoutStep

-----------------------------------------------------------------------------
(***************************************************************************)
(* The invariant, and what it proves.                                      *)
(***************************************************************************)
LEMMA HistoryStep ==
    ASSUME TypesOK, HistoryOK, NEW c \in Requests, SlotStep(c)
    PROVE  HistoryOK'
<1>1. late' \in SUBSET Requests
  BY DEF HistoryOK, SlotStep, LogsIn, LoginRead, CheckOver, LogsOut, Logout, LogoutKeepsToken,
         AdminReads, AdminRead, LoginStep, LoginCount, LoginExpire, LoginMark, LoginReset, LoginFind,
         LoginClose, LoginStamp, LoginRecord, Penalty, LoginToken, LoginRefused, LogoutStep,
         LogoutFind, LogoutClose, AdminStep, AdminWrite, AdminReset, AdminSweep, RequestAborts,
         RedisFails, JwtExpires, TokenExpires, accountHist
<1>2. overlap' \in BOOLEAN
  <2>1. CASE LoginFind(c)
    BY <2>1, Zenon DEF LoginFind
  <2>2. CASE ~LoginFind(c)
    BY <2>2
    DEF HistoryOK, SlotStep, LogsIn, LoginRead, CheckOver, LogsOut, Logout, LogoutKeepsToken,
        AdminReads, AdminRead, LoginStep, LoginCount, LoginExpire, LoginMark, LoginReset,
        LoginClose, LoginStamp, LoginRecord, Penalty, LoginToken, LoginRefused, LogoutStep,
        LogoutFind, LogoutClose, AdminStep, AdminWrite, AdminReset, AdminSweep, RequestAborts,
        RedisFails, JwtExpires, TokenExpires, accountHist
  <2> QED
    BY <2>1, <2>2
<1>3. excuse' \in SUBSET {"sweep", "failures", "mark"}
  BY DEF HistoryOK, SlotStep, LogsIn, LoginRead, CheckOver, LogsOut, Logout, LogoutKeepsToken,
         AdminReads, AdminRead, LoginStep, LoginCount, LoginExpire, LoginMark, LoginReset, LoginFind,
         LoginClose, LoginStamp, LoginRecord, Penalty, LoginToken, LoginRefused, LogoutStep,
         LogoutFind, LogoutClose, AdminStep, AdminWrite, AdminReset, AdminSweep, RequestAborts,
         RedisFails, JwtExpires, TokenExpires, accountHist, Undone
<1>4. mishaps' \in 0..MaxFailures
  <2>1. MaxFailures \in Nat
    BY LimitsAssumption
  <2> DEFINE counted == mishaps' = mishaps \/ (mishaps < MaxFailures /\ mishaps' = mishaps + 1)
  <2>2. RequestAborts(c) \/ RedisFails(c) \/ LogsOut(c) => counted
    BY DEF RequestAborts, RedisFails, LogsOut, Logout, LogoutKeepsToken, accountHist
  <2>3. LogsIn(c) \/ CheckOver(c) \/ AdminReads(c) \/ LoginStep(c) => counted
    BY DEF LogsIn, LoginRead, CheckOver, AdminReads, AdminRead, LoginStep, LoginCount, LoginExpire,
           LoginMark, LoginReset, LoginFind, LoginClose, LoginStamp, LoginRecord, Penalty,
           LoginToken, LoginRefused, accountHist
  <2>4. LogoutStep(c) \/ AdminStep(c) \/ JwtExpires(c) \/ TokenExpires(c) => counted
    BY DEF LogoutStep, LogoutFind, LogoutClose, AdminStep, AdminWrite, AdminReset, AdminSweep,
           JwtExpires, TokenExpires, accountHist
  <2>5. counted
    BY <2>2, <2>3, <2>4 DEF SlotStep
  <2> QED
    BY <2>1, <2>5 DEF HistoryOK
<1> QED
  BY <1>1, <1>2, <1>3, <1>4, OpenTyped DEF HistoryOK

LEMMA Inductive == IInv /\ [AccountNext]_accountVars => IInv'
<1> SUFFICES ASSUME IInv, [AccountNext]_accountVars PROVE IInv'
  OBVIOUS
<1> USE DEF IInv
<1>1. ASSUME NEW c \in Requests, SlotStep(c) PROVE IInv'
  <2>1. TypesOK' /\ WritersAreAdmins'
    BY <1>1, StandingTyped, FailuresTyped, TokenTyped, RequestTyped DEF TypesOK
  <2> QED
    BY <1>1, <2>1, HistoryStep, SessionsStep, FailuresStep, RecordsStep
<1>2. CASE FailuresExpire
  <2>1. /\ failures' = Zero /\ excuse' = excuse \ {"failures", "mark"}
        /\ UNCHANGED <<standing, token, open, request, late, overlap, mishaps>>
    BY <1>2 DEF FailuresExpire
  <2>2. Zero \in Counter(FailureLimit)
    BY LimitsAssumption DEF Counter, Zero
  <2>3. TypesOK' /\ HistoryOK' /\ WritersAreAdmins'
    BY <2>1, <2>2 DEF TypesOK, HistoryOK, WritersAreAdmins
  <2>4. LateLoginsOnly'
    BY <2>1 DEF LateLoginsOnly, LoggingIn
  <2>5. OneAtItsRecord'
    BY <2>1 DEF OneAtItsRecord, Recording, Doing
  <2> QED
    BY <2>1, <2>3, <2>4, <2>5, NoFailuresLeft
<1>3. CASE UNCHANGED accountVars
  <2>1. UNCHANGED <<standing, failures, token, open, request, late, overlap, excuse, mishaps>>
    BY <1>3 DEF accountVars
  <2>2. TypesOK' /\ HistoryOK' /\ WritersAreAdmins' /\ LateLoginsOnly'
    BY <2>1 DEF TypesOK, HistoryOK, WritersAreAdmins, LateLoginsOnly, LoggingIn
  <2>3. FailuresGoAway' /\ FailuresMark' /\ OneAtItsRecord'
    BY <2>1 DEF FailuresGoAway, FailuresMark, OneAtItsRecord, Recording, Doing, Resetting
  <2> QED
    BY <2>2, <2>3
<1> QED
  BY <1>1, <1>2, <1>3, OneSlotSteps

LEMMA Always == AccountSpec => []IInv
  BY Starts, Inductive, PTL DEF AccountSpec

\* The account's status is always one its CHECK constraint allows, whoever
\* writes it, and every request, token and record keeps its type.
THEOREM TypeCorrect == AccountSpec => []AccountTypeOK
<1>1. IInv => AccountTypeOK
  BY DEF IInv, TypesOK, HistoryOK, AccountTypeOK
<1> QED
  BY <1>1, Always, PTL

\* A ban that ran to its end leaves no token but those of logins that had read
\* the account before it: ban_user_service against service_login_with_record.
THEOREM BanIsComplete == AccountSpec => []BanEndsSessions
<1>1. IInv => BanEndsSessions
  BY DEF IInv, LateLoginsOnly, BanEndsSessions
<1> QED
  BY <1>1, Always, PTL

\* record_failed_attempt leaves no counter without an expiry, unless a failure
\* of Redis or of the process comes between INCR and EXPIRE.
THEOREM FailuresExpireSome == AccountSpec => []FailuresGoAway
<1>1. IInv => FailuresGoAway
  BY DEF IInv
<1> QED
  BY <1>1, Always, PTL

\* An account over the failure limit is marked, or somebody is about to mark it
\* or to reset the counter, or failed there.
THEOREM FailuresAreMarked == AccountSpec => []FailuresMark
<1>1. IInv => FailuresMark
  BY DEF IInv
<1> QED
  BY <1>1, Always, PTL

\* Two open login records need two logins between finding the last record and
\* adding their own.
THEOREM OneRecordOpen == AccountSpec => []OneOpenRecord
<1>1. IInv => OneOpenRecord
  BY DEF IInv, OneAtItsRecord, HistoryOK, OneOpenRecord
<1> QED
  BY <1>1, Always, PTL
=============================================================================
