------------------------- MODULE ProjectQuotaProofs -------------------------
(***************************************************************************)
(* Theorems about ProjectQuota for every set of users, projects, calls and *)
(* quotas.                                                                 *)
(***************************************************************************)
EXTENDS ProjectQuota, FiniteSetTheorems, TLAPS

-----------------------------------------------------------------------------
(***************************************************************************)
(* The inductive invariant.                                                *)
(***************************************************************************)

\* A call knows its user; the value it holds was below some quota of the user
\* if it is to be raised, and positive if it is to be lowered; a deletion was
\* asked for by the owner.
CallOK(c) ==
    /\ call[c].at # "idle" => call[c].user \in Users
    /\ call[c].at \in {"insert", "pay"} => call[c].seen < peak[call[c].user]
    /\ call[c].at = "release" => call[c].seen \in 1..peak[call[c].user]
    /\ call[c].at = "mark" =>
          /\ call[c].op = "delete"
          /\ call[c].project \in Projects
          /\ owner[call[c].project] = call[c].user

CallsOK == \A c \in Calls : CallOK(c)

\* The quota is no larger than the largest one so far.
PeakOK == \A u \in Users : max[u] <= peak[u]

TokensOK == \A t \in tokens : owner[t[2]] = t[1]

\* Work is only started on a project that has an owner.
WorkOK == \A p \in working : owner[p] \in Users

IInv == TypeOK /\ UsedInRange /\ PeakOK /\ TokensOK /\ WorkOK /\ CallsOK

LEMMA InitIInv == Init => IInv
  BY QuotasAssumption, NoneAssumption
  DEF Init, IInv, TypeOK, UsedInRange, PeakOK, TokensOK, WorkOK, CallsOK, CallOK, Call, Idle, NewCall

\* What a step of slot c that gives it the record r and lowers no peak owes.
LEMMA CallsFrame ==
    ASSUME IInv, NEW c \in Calls, NEW r \in Call, Become(c, r), CallOK(c)',
           peak' \in [Users -> Nat], \A u \in Users : peak[u] <= peak'[u],
           \A p \in Projects : owner[p] \in Users => owner'[p] = owner[p]
    PROVE  call' \in [Calls -> Call] /\ CallsOK'
  <1>1. /\ call' \in [Calls -> Call]
        /\ \A d \in Calls \ {c} : call'[d] = call[d]
    BY DEF IInv, TypeOK, Become
  <1>2. ASSUME NEW d \in Calls \ {c} PROVE CallOK(d)'
    <2>1. call[d] \in Call /\ CallOK(d)
      BY DEF IInv, TypeOK, CallsOK
    <2> QED
      BY <1>1, <1>2, <2>1 DEF CallOK, Call, IInv, TypeOK
  <1>3. CallsOK'
    BY <1>2 DEF CallsOK
  <1> QED
    BY <1>1, <1>3

\* What a step owes that changes no call and no counter.
LEMMA AroundIInv ==
    ASSUME IInv, NEW p \in Projects, Around(p)
    PROVE  IInv'
  <1> USE DEF IInv, TypeOK, UsedInRange, PeakOK, TokensOK, WorkOK, CallsOK, CallOK
  <1>1. ASSUME NEW u \in Users, ConfirmDelete(u, p) PROVE IInv'
    BY <1>1 DEF ConfirmDelete, project
  <1>2. ASSUME NEW u \in Users, TokenExpires(u, p) PROVE IInv'
    BY <1>2 DEF TokenExpires, project
  <1>3. ASSUME NEW u \in Users, StartWork(u, p) PROVE IInv'
    BY <1>3 DEF StartWork
  <1>4. CASE FinishWork(p)
    BY <1>4 DEF FinishWork
  <1>5. CASE FailWork(p)
    BY <1>5 DEF FailWork
  <1> QED
    BY <1>1, <1>2, <1>3, <1>4, <1>5 DEF Around

LEMMA RequestIInv ==
    ASSUME IInv, NEW c \in Calls, Request(c)
    PROVE  IInv'
  <1> USE QuotasAssumption DEF IInv, TypeOK, UsedInRange, PeakOK, TokensOK, WorkOK, project
  <1>1. ASSUME NEW u \in Users, CreateRead(c, u) PROVE IInv'
    <2> DEFINE r == NewCall("create", "insert", u, None, used[u], 0)
    <2>1. r \in Call /\ Become(c, r)
      BY <1>1 DEF CreateRead, NewCall, Call
    <2>2. CallOK(c)'
      BY <1>1 DEF CreateRead, QuotaLeft, NewCall, CallOK, Become
    <2> QED
      BY <1>1, <2>1, <2>2, CallsFrame DEF CreateRead, Overlap
  <1>2. ASSUME NEW u \in Users, NEW p \in Projects, DeleteRead(c, u, p) PROVE IInv'
    <2> DEFINE r == NewCall("delete", "mark", u, p, 0, 0)
    <2>1. r \in Call /\ Become(c, r)
      BY <1>2 DEF DeleteRead, NewCall, Call
    <2>2. CallOK(c)'
      BY <1>2 DEF DeleteRead, NewCall, CallOK, Become
    <2> QED
      BY <1>2, <2>1, <2>2, CallsFrame DEF DeleteRead, Overlap
  <1>3. ASSUME NEW u \in Users, NEW quota \in Quotas, QuotaRead(c, u, quota) PROVE IInv'
    <2> DEFINE r == NewCall("quota", "check", u, None, max[u], quota)
    <2>1. r \in Call /\ Become(c, r)
      BY <1>3 DEF QuotaRead, NewCall, Call
    <2>2. CallOK(c)'
      BY <1>3 DEF QuotaRead, NewCall, CallOK, Become
    <2> QED
      BY <1>3, <2>1, <2>2, CallsFrame DEF QuotaRead
  <1> QED
    BY <1>1, <1>2, <1>3 DEF Request

LEMMA IdleCall == Idle \in Call
  BY DEF Idle, NewCall, Call

LEMMA StepIInv ==
    ASSUME IInv, NEW c \in Calls, Step(c)
    PROVE  IInv'
  <1>0. call[c] \in Call /\ CallOK(c)
    BY DEF IInv, TypeOK, CallsOK
  <1> USE <1>0, IdleCall, NoneAssumption
      DEF IInv, TypeOK, UsedInRange, PeakOK, TokensOK, WorkOK, project, At, Return
  <1>1. ASSUME NEW p \in Projects, CreateInsert(c, p) PROVE IInv'
    <2> DEFINE r == NewCall("create", "pay", call[c].user, None, call[c].seen, 0)
    <2>1. r \in Call /\ Become(c, r)
      BY <1>1 DEF CreateInsert, NewCall, Call
    <2>2. CallOK(c)'
      BY <1>1 DEF CreateInsert, NewCall, CallOK, Become
    <2>3. \A q \in Projects : owner[q] \in Users => owner'[q] = owner[q]
      BY <1>1 DEF CreateInsert
    <2> QED
      BY <1>1, <2>1, <2>2, <2>3, CallsFrame DEF CreateInsert, CallOK
  <1>2. CASE CreatePay(c)
    <2>1. CallOK(c)'
      BY <1>2 DEF CreatePay, Become, CallOK, Idle, NewCall
    <2>2. used' \in [Users -> Nat] /\ UsedInRange'
      BY <1>2 DEF CreatePay, CallOK, Call
    <2> QED
      BY <1>2, <2>1, <2>2, CallsFrame DEF CreatePay
  <1>3. CASE DeleteMark(c)
    <2> DEFINE r == NewCall("delete", "refund", call[c].user, call[c].project, 0, 0)
    <2>1. r \in Call /\ Become(c, r)
      BY <1>3 DEF DeleteMark, NewCall, Call
    <2>2. CallOK(c)'
      BY <1>3 DEF DeleteMark, NewCall, CallOK, Become
    <2>3. live' \in [Projects -> BOOLEAN]
      BY <1>3 DEF DeleteMark
    <2>4. call' \in [Calls -> Call] /\ CallsOK'
      BY <1>3, <2>1, <2>2, CallsFrame DEF DeleteMark
    <2> QED
      BY <1>3, <2>3, <2>4 DEF DeleteMark
  <1>4. CASE RefundRead(c)
    <2> DEFINE u == call[c].user
               r == NewCall("delete", "release", u, call[c].project, used[u], 0)
    <2>1. u \in Users
      BY <1>4 DEF RefundRead, CallOK
    <2>2. CASE used[u] > 0
      <3>1. r \in Call /\ Become(c, r)
        BY <1>4, <2>1, <2>2 DEF RefundRead, NewCall, Call
      <3>2. CallOK(c)'
        BY <1>4, <2>1, <2>2, <3>1 DEF RefundRead, NewCall, CallOK, Become
      <3> QED
        BY <1>4, <3>1, <3>2, CallsFrame DEF RefundRead
    <2>3. CASE ~(used[u] > 0)
      <3>1. Become(c, Idle)
        BY <1>4, <2>3 DEF RefundRead
      <3>2. CallOK(c)'
        BY <3>1 DEF CallOK, Become, Idle, NewCall
      <3> QED
        BY <1>4, <3>1, <3>2, CallsFrame DEF RefundRead
    <2> QED
      BY <2>2, <2>3
  <1>5. CASE RefundWrite(c)
    <2>1. CallOK(c)'
      BY <1>5 DEF RefundWrite, Become, CallOK, Idle, NewCall
    <2>2. used' \in [Users -> Nat] /\ UsedInRange'
      BY <1>5 DEF RefundWrite, CallOK, Call
    <2> QED
      BY <1>5, <2>1, <2>2, CallsFrame DEF RefundWrite
  <1>6. CASE QuotaWrite(c)
    <2>1. CallOK(c)'
      BY <1>6 DEF QuotaWrite, Become, CallOK, Idle, NewCall
    <2>2. /\ max' \in [Users -> Nat] /\ peak' \in [Users -> Nat]
          /\ \A u \in Users : peak[u] <= peak'[u] /\ max'[u] <= peak'[u]
      BY <1>6 DEF QuotaWrite, Call
    <2>3. UsedInRange'
      BY <1>6, <2>2 DEF QuotaWrite
    <2> QED
      BY <1>6, <2>1, <2>2, <2>3, CallsFrame DEF QuotaWrite
  <1>7. CASE Abort(c)
    <2>1. CallOK(c)'
      BY <1>7 DEF Abort, Become, CallOK, Idle, NewCall
    <2>2. disturbed' \subseteq Users
      BY <1>7 DEF Abort, CallOK
    <2> QED
      BY <1>7, <2>1, <2>2, CallsFrame DEF Abort
  <1>8. CASE QuotaCheck(c)
    <2>1. PICK r \in {Idle, [call[c] EXCEPT !.at = "set"]} : Become(c, r)
      BY <1>8 DEF QuotaCheck
    <2>2. r \in Call
      BY <2>1 DEF Call
    <2>3. CallOK(c)'
      BY <1>8, <2>1 DEF QuotaCheck, Become, CallOK, Idle, NewCall, Call
    <2> QED
      BY <1>8, <2>1, <2>2, <2>3, CallsFrame DEF QuotaCheck
  <1> QED
    BY <1>1, <1>2, <1>3, <1>4, <1>5, <1>6, <1>7, <1>8 DEF Step

LEMMA NextIInv == IInv /\ [Next]_vars => IInv'
  <1> SUFFICES ASSUME IInv, [Next]_vars PROVE IInv'
    OBVIOUS
  <1>1. CASE UNCHANGED vars
    BY <1>1 DEF vars, IInv, TypeOK, UsedInRange, PeakOK, TokensOK, WorkOK, CallsOK, CallOK
  <1>2. CASE Next
    BY <1>2, RequestIInv, StepIInv, AroundIInv DEF Next
  <1> QED
    BY <1>1, <1>2

LEMMA Invariance == Spec => []IInv
  BY InitIInv, NextIInv, PTL DEF Spec

\* The types of the columns, the tokens and the calls hold in every state; in
\* particular no write takes the counter below zero.
THEOREM TypeCorrect == Spec => []TypeOK
  <1>1. IInv => TypeOK
    BY DEF IInv
  <1> QED
    BY Invariance, <1>1, PTL

\* For any number of users, concurrent calls and crashes, used_databases lies
\* between zero and the largest quota its user has had.
THEOREM CounterInRange == Spec => []UsedInRange
  <1>1. IInv => UsedInRange
    BY DEF IInv
  <1> QED
    BY Invariance, <1>1, PTL

\* A step that deletes a project is a step of a call of its owner.
LEMMA DeletingStep ==
    ASSUME IInv, [Next]_vars, NEW p \in Projects, live[p], ~live'[p]
    PROVE  \E c \in Calls : /\ call[c].op = "delete"
                            /\ call[c].project = p
                            /\ call[c].user = owner[p]
  <1> USE DEF IInv, TypeOK
  <1>1. PICK c \in Calls : DeleteMark(c)
    <2>1. CASE UNCHANGED vars
      BY <2>1 DEF vars
    <2>2. ASSUME NEW c \in Calls, Request(c) PROVE live' = live
      BY <2>2 DEF Request, CreateRead, DeleteRead, QuotaRead, project
    <2>3. ASSUME NEW q \in Projects, Around(q) PROVE live'[p]
      BY <2>3 DEF Around, ConfirmDelete, TokenExpires, StartWork, FinishWork, FailWork, project
    <2>4. ASSUME NEW c \in Calls, Step(c) PROVE DeleteMark(c) \/ live'[p]
      BY <2>4 DEF Step, CreateInsert, CreatePay, RefundRead, RefundWrite, QuotaCheck,
                  QuotaWrite, Abort, project
    <2> QED
      BY <2>1, <2>2, <2>3, <2>4 DEF Next
  <1>2. call[c].project = p
    BY <1>1 DEF DeleteMark
  <1> QED
    BY <1>1, <1>2 DEF DeleteMark, At, CallsOK, CallOK

\* Only its owner deletes a project, however long a token is kept and whatever
\* other users do.
THEOREM DeletionByOwner == Spec => OnlyOwnerDeletes
  <1>1. IInv /\ [Next]_vars => [DeletedByOwner]_vars
    BY DeletingStep DEF DeletedByOwner
  <1> QED
    BY Invariance, <1>1, PTL DEF Spec, OnlyOwnerDeletes

-----------------------------------------------------------------------------
(***************************************************************************)
(* The accounts of the users nothing has disturbed.                        *)
(***************************************************************************)

\* Where a call may be, by its operation.
OpsOK ==
    \A c \in Calls :
        /\ call[c].op = "create" <=> call[c].at \in {"insert", "pay"}
        /\ call[c].op = "delete" <=> call[c].at \in {"mark", "refund", "release"}

\* One call at most changes the counter of u; what it read still holds, and its
\* step says how far the counter is from the number of projects.
BooksExact(u) ==
    /\ \A c, d \in Changing(u) : c = d
    /\ \A c \in Changing(u) :
          /\ call[c].at \in {"insert", "pay", "release"} => call[c].seen = used[u]
          /\ call[c].at = "mark" => live[call[c].project]
          /\ call[c].at \in {"insert", "mark"} => used[u] = Cardinality(Live(u))
          /\ call[c].at = "pay" => used[u] + 1 = Cardinality(Live(u))
          /\ call[c].at \in {"refund", "release"} => used[u] = Cardinality(Live(u)) + 1
    /\ Changing(u) = {} => used[u] = Cardinality(Live(u))

BooksOK(u) == IsFiniteSet(Live(u)) /\ (u \notin disturbed => BooksExact(u))

QuotaIInv == IInv /\ OpsOK /\ \A u \in Users : BooksOK(u)

-----------------------------------------------------------------------------
LEMMA QuotaStarts == Init => QuotaIInv
<1> SUFFICES ASSUME Init PROVE QuotaIInv
  OBVIOUS
<1>1. \A c \in Calls : call[c].op = "none" /\ call[c].at = "idle"
  BY DEF Init, Idle, NewCall
<1>2. OpsOK
  BY <1>1 DEF OpsOK
<1>3. ASSUME NEW u \in Users PROVE BooksOK(u)
  <2>1. Changing(u) = {} /\ Live(u) = {} /\ used[u] = 0
    BY <1>1 DEF Init, Changing, Live
  <2>2. IsFiniteSet({}) /\ Cardinality({}) = 0
    BY FS_EmptySet
  <2> QED
    BY <2>1, <2>2 DEF BooksOK, BooksExact
<1> QED
  BY <1>2, <1>3, InitIInv DEF QuotaIInv

\* What a call's operation and step may be.
OpAt(r) ==
    /\ r.op = "create" <=> r.at \in {"insert", "pay"}
    /\ r.op = "delete" <=> r.at \in {"mark", "refund", "release"}

\* The calls after a step of slot c.
LEMMA CallBecomes ==
    ASSUME IInv, OpsOK, NEW c \in Calls, NEW r, Become(c, r), OpAt(r)
    PROVE  /\ call'[c] = r
           /\ \A d \in Calls \ {c} : call'[d] = call[d]
           /\ OpsOK'
  BY DEF IInv, TypeOK, Become, OpsOK, OpAt

\* A user whose calls and projects are the same.
LEMMA BooksStay ==
    ASSUME IInv, NEW v \in Users, BooksOK(v),
           Changing(v)' = Changing(v), \A d \in Changing(v) : call'[d] = call[d],
           used'[v] = used[v], Live(v)' = Live(v), disturbed \subseteq disturbed'
    PROVE  BooksOK(v)'
<1> SUFFICES ASSUME v \notin disturbed' PROVE BooksExact(v)'
  BY DEF BooksOK
<1>1. BooksExact(v)
  BY DEF BooksOK
<1>2. ASSUME NEW d \in Changing(v), call[d].at = "mark" PROVE live'[call[d].project]
  <2>1. call[d].project \in Projects /\ owner[call[d].project] = v
    BY <1>2 DEF IInv, CallsOK, CallOK, Changing
  <2>2. live[call[d].project]
    BY <1>1, <1>2 DEF BooksExact
  <2>3. call[d].project \in Live(v)
    BY <2>1, <2>2 DEF Live
  <2> QED
    BY <2>3 DEF Live
<1> QED
  BY <1>1, <1>2 DEF BooksExact

\* A user whose only call is c's ...
LEMMA BooksOne ==
    ASSUME IInv, NEW c \in Calls, NEW u \in Users, NEW r,
           call'[c] = r, \A d \in Calls \ {c} : call'[d] = call[d],
           r.op \in {"create", "delete"}, r.user = u,
           IsFiniteSet(Live(u)'),
           u \notin disturbed' =>
               /\ Changing(u) \subseteq {c}
               /\ r.at \in {"insert", "pay", "release"} => r.seen = used'[u]
               /\ r.at = "mark" => live'[r.project]
               /\ r.at \in {"insert", "mark"} => used'[u] = Cardinality(Live(u)')
               /\ r.at = "pay" => used'[u] + 1 = Cardinality(Live(u)')
               /\ r.at \in {"refund", "release"} => used'[u] = Cardinality(Live(u)') + 1
    PROVE  BooksOK(u)'
<1>1. u \notin disturbed' => Changing(u)' = {c}
  BY DEF Changing
<1> QED
  BY <1>1 DEF BooksOK, BooksExact

\* ... or was.
LEMMA BooksNone ==
    ASSUME IInv, NEW c \in Calls, NEW u \in Users, NEW r,
           call'[c] = r, \A d \in Calls \ {c} : call'[d] = call[d],
           r.op \notin {"create", "delete"},
           IsFiniteSet(Live(u)'),
           u \notin disturbed' => Changing(u) \subseteq {c} /\ used'[u] = Cardinality(Live(u)')
    PROVE  BooksOK(u)'
<1>1. u \notin disturbed' => Changing(u)' = {}
  BY DEF Changing
<1> QED
  BY <1>1 DEF BooksOK, BooksExact

\* The users that c's call is not for.
LEMMA BooksOfOthers ==
    ASSUME IInv, NEW c \in Calls, NEW v \in Users, NEW r, BooksOK(v),
           call'[c] = r, \A d \in Calls \ {c} : call'[d] = call[d],
           call[c].op \in {"create", "delete"} => call[c].user # v,
           r.op \in {"create", "delete"} => r.user # v,
           used'[v] = used[v], Live(v)' = Live(v), disturbed \subseteq disturbed'
    PROVE  BooksOK(v)'
<1>1. Changing(v)' = Changing(v) /\ \A d \in Changing(v) : call'[d] = call[d]
  BY DEF Changing
<1> QED
  BY <1>1, BooksStay

LEMMA IdleIs == Idle.op = "none" /\ Idle.at = "idle" /\ OpAt(Idle)
  BY DEF Idle, NewCall, OpAt

\* One project more, or less.
LEMMA OneProject ==
    ASSUME NEW S, IsFiniteSet(S), NEW p
    PROVE  /\ Cardinality(S) \in Nat
           /\ IsFiniteSet(S \cup {p}) /\ IsFiniteSet(S \ {p})
           /\ p \notin S => Cardinality(S \cup {p}) = Cardinality(S) + 1
           /\ p \in S => Cardinality(S) = Cardinality(S \ {p}) + 1
<1>1. IsFiniteSet(S \ {p}) /\ Cardinality(S \ {p}) = IF p \in S THEN Cardinality(S) - 1 ELSE Cardinality(S)
  BY FS_RemoveElement
<1>2. IsFiniteSet(S \cup {p}) /\ Cardinality(S \cup {p}) = IF p \in S THEN Cardinality(S) ELSE Cardinality(S) + 1
  BY FS_AddElement
<1>3. Cardinality(S) \in Nat
  BY FS_CardinalityType
<1> QED
  BY <1>1, <1>2, <1>3

-----------------------------------------------------------------------------
LEMMA RequestBooks ==
    ASSUME QuotaIInv, NEW c \in Calls, Request(c)
    PROVE  OpsOK' /\ \A v \in Users : BooksOK(v)'
<1>0. IInv /\ OpsOK /\ \A v \in Users : BooksOK(v)
  BY DEF QuotaIInv
<1>1. ASSUME NEW u \in Users, NEW r, Become(c, r), call[c] = Idle, OpAt(r),
             r.op \in {"create", "delete"}, r.user = u, Overlap(u), UNCHANGED <<owner, live, used>>,
             (r.at = "insert" /\ r.seen = used[u]) \/ (r.at = "mark" /\ live[r.project])
      PROVE  OpsOK' /\ \A v \in Users : BooksOK(v)'
  <2>1. /\ call'[c] = r
        /\ \A d \in Calls \ {c} : call'[d] = call[d]
        /\ OpsOK'
    BY <1>0, <1>1, CallBecomes
  <2>2. \A v \in Users : Live(v)' = Live(v) /\ used'[v] = used[v]
    BY <1>1 DEF Live
  <2>3. disturbed \subseteq disturbed' /\ (u \notin disturbed' => u \notin disturbed /\ Changing(u) = {})
    BY <1>1 DEF Overlap
  <2>4. ASSUME NEW v \in Users, v # u PROVE BooksOK(v)'
    BY <1>0, <1>1, <2>1, <2>2, <2>3, <2>4, IdleIs, BooksOfOthers
  <2>5. u \notin disturbed' => used[u] = Cardinality(Live(u))
    BY <1>0, <2>3 DEF BooksOK, BooksExact
  <2>6. IsFiniteSet(Live(u))
    BY <1>0 DEF BooksOK
  <2>7. BooksOK(u)'
    <3>1. r.at \notin {"pay", "refund", "release"}
      BY <1>1
    <3>2. /\ r.at = "insert" => r.seen = used'[u]
          /\ r.at = "mark" => live'[r.project]
      BY <1>1
    <3>3. u \notin disturbed' => Changing(u) \subseteq {c} /\ used'[u] = Cardinality(Live(u)')
      BY <2>2, <2>3, <2>5
    <3>4. IsFiniteSet(Live(u)')
      BY <2>2, <2>6
    <3> QED
      BY <1>0, <1>1, <2>1, <3>1, <3>2, <3>3, <3>4, BooksOne
  <2> QED
    BY <2>1, <2>4, <2>7
<1>2. ASSUME NEW u \in Users, CreateRead(c, u) PROVE OpsOK' /\ \A v \in Users : BooksOK(v)'
  <2> DEFINE r == NewCall("create", "insert", u, None, used[u], 0)
  <2>1. r.op = "create" /\ r.at = "insert" /\ r.user = u /\ r.seen = used[u]
    BY DEF NewCall
  <2>2. OpAt(r)
    BY <2>1 DEF OpAt
  <2>3. Become(c, r) /\ call[c] = Idle /\ Overlap(u) /\ UNCHANGED <<owner, live, used>>
    BY <1>2 DEF CreateRead, project
  <2> HIDE DEF r
  <2> QED
    BY <1>1, <2>1, <2>2, <2>3
<1>3. ASSUME NEW u \in Users, NEW p \in Projects, DeleteRead(c, u, p)
      PROVE  OpsOK' /\ \A v \in Users : BooksOK(v)'
  <2> DEFINE r == NewCall("delete", "mark", u, p, 0, 0)
  <2>1. r.op = "delete" /\ r.at = "mark" /\ r.user = u /\ r.project = p
    BY DEF NewCall
  <2>2. OpAt(r)
    BY <2>1 DEF OpAt
  <2>3. Become(c, r) /\ call[c] = Idle /\ Overlap(u) /\ UNCHANGED <<owner, live, used>> /\ live[p]
    BY <1>3 DEF DeleteRead, project
  <2> HIDE DEF r
  <2> QED
    BY <1>1, <2>1, <2>2, <2>3
<1>4. ASSUME NEW u \in Users, NEW quota \in Quotas, QuotaRead(c, u, quota)
      PROVE  OpsOK' /\ \A v \in Users : BooksOK(v)'
  <2> DEFINE r == NewCall("quota", "check", u, None, max[u], quota)
  <2>1. r.op = "quota" /\ r.at = "check"
    BY DEF NewCall
  <2>2. OpAt(r)
    BY <2>1 DEF OpAt
  <2>3. Become(c, r) /\ call[c] = Idle /\ UNCHANGED <<owner, live, used, disturbed>>
    BY <1>4 DEF QuotaRead, project
  <2> HIDE DEF r
  <2>4. /\ call'[c] = r
        /\ \A d \in Calls \ {c} : call'[d] = call[d]
        /\ OpsOK'
    BY <1>0, <2>2, <2>3, CallBecomes
  <2>5. \A v \in Users : Live(v)' = Live(v) /\ used'[v] = used[v]
    BY <2>3 DEF Live
  <2>6. ASSUME NEW v \in Users PROVE BooksOK(v)'
    BY <1>0, <2>1, <2>3, <2>4, <2>5, IdleIs, BooksOfOthers
  <2> QED
    BY <2>4, <2>6
<1> QED
  BY <1>2, <1>3, <1>4 DEF Request

\* A step of a call for u gives it the record r, and leaves the others' projects
\* and counters as they are.
LEMMA OthersBooks ==
    ASSUME QuotaIInv, NEW c \in Calls, NEW r, Become(c, r), OpAt(r), NEW u \in Users,
           call[c].user = u, r.op \in {"create", "delete"} => r.user = u,
           \A v \in Users \ {u} : used'[v] = used[v] /\ Live(v)' = Live(v),
           disturbed \subseteq disturbed'
    PROVE  /\ OpsOK'
           /\ call'[c] = r /\ \A d \in Calls \ {c} : call'[d] = call[d]
           /\ \A v \in Users \ {u} : BooksOK(v)'
<1>0. IInv /\ OpsOK /\ \A v \in Users : BooksOK(v)
  BY DEF QuotaIInv
<1>1. /\ call'[c] = r
      /\ \A d \in Calls \ {c} : call'[d] = call[d]
      /\ OpsOK'
  BY <1>0, CallBecomes
<1>2. ASSUME NEW v \in Users \ {u} PROVE BooksOK(v)'
  BY <1>0, <1>1, BooksOfOthers
<1> QED
  BY <1>1, <1>2

\* What is known of the call that steps.
LEMMA StepKnows ==
    ASSUME QuotaIInv, NEW c \in Calls, call[c].at \in {"insert", "pay", "mark", "refund", "release"}
    PROVE  /\ call[c].user \in Users /\ call[c].op \in {"create", "delete"}
           /\ c \in Changing(call[c].user)
           /\ IsFiniteSet(Live(call[c].user))
           /\ call[c].user \notin disturbed =>
                 BooksExact(call[c].user) /\ Changing(call[c].user) \subseteq {c}
<1>1. call[c].user \in Users /\ call[c].op \in {"create", "delete"}
  BY DEF QuotaIInv, IInv, CallsOK, CallOK, OpsOK
<1>2. c \in Changing(call[c].user)
  BY <1>1 DEF Changing
<1>3. BooksOK(call[c].user)
  BY <1>1 DEF QuotaIInv
<1> QED
  BY <1>1, <1>2, <1>3 DEF BooksOK, BooksExact

LEMMA CreateBooks ==
    ASSUME QuotaIInv, NEW c \in Calls, CreatePay(c) \/ \E p \in Projects : CreateInsert(c, p)
    PROVE  OpsOK' /\ \A v \in Users : BooksOK(v)'
<1>0. IInv /\ TypeOK
  BY DEF QuotaIInv, IInv
<1>9. call[c].at \in {"insert", "pay"}
  BY DEF CreatePay, CreateInsert, At
<1>8. PICK u \in Users : u = call[c].user
  BY <1>9, StepKnows
<1>1. /\ c \in Changing(u) /\ IsFiniteSet(Live(u))
      /\ u \notin disturbed => BooksExact(u) /\ Changing(u) \subseteq {c}
  BY <1>8, <1>9, StepKnows
<1>2. ASSUME NEW p \in Projects, CreateInsert(c, p) PROVE OpsOK' /\ \A v \in Users : BooksOK(v)'
  <2> DEFINE r == NewCall("create", "pay", u, None, call[c].seen, 0)
  <2>1. r.op = "create" /\ r.at = "pay" /\ r.user = u /\ r.seen = call[c].seen
    BY DEF NewCall
  <2>2. OpAt(r)
    BY <2>1 DEF OpAt
  <2>3. /\ Become(c, r) /\ call[c].at = "insert" /\ UNCHANGED <<used, disturbed>>
        /\ owner[p] = None /\ owner' = [owner EXCEPT ![p] = u] /\ live' = [live EXCEPT ![p] = TRUE]
    BY <1>8, <1>2 DEF CreateInsert, At
  <2> HIDE DEF r
  <2>4. p \notin Live(u) /\ Live(u)' = Live(u) \cup {p}
        /\ \A v \in Users \ {u} : Live(v)' = Live(v)
    BY <1>0, <1>1, <2>3, NoneAssumption DEF Live, TypeOK
  <2>5. /\ OpsOK'
        /\ call'[c] = r /\ \A d \in Calls \ {c} : call'[d] = call[d]
        /\ \A v \in Users \ {u} : BooksOK(v)'
    BY <1>8, <1>1, <2>1, <2>2, <2>3, <2>4, OthersBooks
  <2>6. u \notin disturbed =>
            /\ Changing(u) \subseteq {c} /\ r.seen = used[u]
            /\ used[u] = Cardinality(Live(u))
    BY <1>1, <2>1, <2>3 DEF BooksExact
  <2>7. IsFiniteSet(Live(u)') /\ Cardinality(Live(u)') = Cardinality(Live(u)) + 1
    BY <1>1, <2>4, OneProject
  <2>8. BooksOK(u)'
    <3>1. u \notin disturbed' => /\ Changing(u) \subseteq {c} /\ r.seen = used'[u]
                                 /\ used'[u] + 1 = Cardinality(Live(u)')
      BY <2>3, <2>6, <2>7
    <3> QED
      BY <1>0, <1>1, <2>1, <2>5, <2>7, <3>1, BooksOne
  <2> QED
    BY <2>5, <2>8
<1>3. CASE CreatePay(c)
  <2>1. /\ Become(c, Idle) /\ call[c].at = "pay" /\ UNCHANGED <<owner, live, disturbed>>
        /\ used' = [used EXCEPT ![u] = call[c].seen + 1]
    BY <1>8, <1>3 DEF CreatePay, Return, At, project
  <2>2. \A v \in Users : Live(v)' = Live(v)
    BY <2>1 DEF Live
  <2>3. used'[u] = call[c].seen + 1 /\ \A v \in Users \ {u} : used'[v] = used[v]
    BY <1>0, <1>1, <2>1 DEF TypeOK
  <2>4. /\ OpsOK'
        /\ call'[c] = Idle /\ \A d \in Calls \ {c} : call'[d] = call[d]
        /\ \A v \in Users \ {u} : BooksOK(v)'
    BY <1>8, <1>1, <2>1, <2>2, <2>3, IdleIs, OthersBooks
  <2>5. u \notin disturbed => Changing(u) \subseteq {c} /\ used'[u] = Cardinality(Live(u))
    BY <1>1, <2>1, <2>3 DEF BooksExact
  <2>6. BooksOK(u)'
    <3>1. IsFiniteSet(Live(u)')
      BY <1>1, <2>2
    <3>2. u \notin disturbed' => Changing(u) \subseteq {c} /\ used'[u] = Cardinality(Live(u)')
      BY <1>1, <2>1, <2>2, <2>5
    <3> QED
      BY <1>0, <1>1, <2>4, <3>1, <3>2, IdleIs, BooksNone
  <2> QED
    BY <2>4, <2>6
<1> QED
  BY <1>2, <1>3

LEMMA DeleteBooks ==
    ASSUME QuotaIInv, NEW c \in Calls, DeleteMark(c) \/ RefundRead(c) \/ RefundWrite(c)
    PROVE  OpsOK' /\ \A v \in Users : BooksOK(v)'
<1>0. IInv /\ TypeOK
  BY DEF QuotaIInv, IInv
<1>9. call[c].at \in {"mark", "refund", "release"}
  BY DEF DeleteMark, RefundRead, RefundWrite, At
<1>8. PICK u \in Users : u = call[c].user
  BY <1>9, StepKnows
<1>1. /\ c \in Changing(u) /\ IsFiniteSet(Live(u))
      /\ u \notin disturbed => BooksExact(u) /\ Changing(u) \subseteq {c}
  BY <1>8, <1>9, StepKnows
<1>2. CASE DeleteMark(c)
  <2> DEFINE p == call[c].project
             r == NewCall("delete", "refund", u, p, 0, 0)
  <2>1. r.op = "delete" /\ r.at = "refund" /\ r.user = u
    BY DEF NewCall
  <2>2. OpAt(r)
    BY <2>1 DEF OpAt
  <2>3. /\ Become(c, r) /\ call[c].at = "mark" /\ UNCHANGED <<owner, used, disturbed>>
        /\ live' = [live EXCEPT ![p] = FALSE]
    BY <1>8, <1>2 DEF DeleteMark, At
  <2>4. p \in Projects /\ owner[p] = u
    BY <1>8, <1>0, <2>3 DEF IInv, CallsOK, CallOK
  <2> HIDE DEF r, p
  <2>5. Live(u)' = Live(u) \ {p} /\ \A v \in Users \ {u} : Live(v)' = Live(v)
    BY <1>0, <2>3, <2>4 DEF Live, TypeOK
  <2>6. /\ OpsOK'
        /\ call'[c] = r /\ \A d \in Calls \ {c} : call'[d] = call[d]
        /\ \A v \in Users \ {u} : BooksOK(v)'
    BY <1>8, <1>1, <2>1, <2>2, <2>3, <2>5, OthersBooks
  <2>7. u \notin disturbed => Changing(u) \subseteq {c} /\ used[u] = Cardinality(Live(u)) /\ live[p]
    BY <1>1, <2>3 DEF BooksExact, p
  <2>8. IsFiniteSet(Live(u)') /\ (p \in Live(u) => Cardinality(Live(u)) = Cardinality(Live(u)') + 1)
    BY <1>1, <2>5, OneProject
  <2>9. BooksOK(u)'
    <3>1. u \notin disturbed' => /\ Changing(u) \subseteq {c}
                                 /\ used'[u] = Cardinality(Live(u)') + 1
      BY <2>3, <2>4, <2>7, <2>8 DEF Live
    <3> QED
      BY <1>0, <1>1, <2>1, <2>6, <2>8, <3>1, BooksOne
  <2> QED
    BY <2>6, <2>9
<1>3. CASE RefundRead(c)
  <2>1. /\ call[c].at = "refund" /\ UNCHANGED <<owner, live, used, disturbed>>
        /\ IF used[u] > 0
           THEN Become(c, NewCall("delete", "release", u, call[c].project, used[u], 0))
           ELSE Become(c, Idle)
    BY <1>8, <1>3 DEF RefundRead, Return, At, project
  <2>2. \A v \in Users : Live(v)' = Live(v) /\ used'[v] = used[v]
    BY <2>1 DEF Live
  <2>3. u \notin disturbed => Changing(u) \subseteq {c} /\ used[u] = Cardinality(Live(u)) + 1
    BY <1>1, <2>1 DEF BooksExact
  <2>4. CASE used[u] > 0
    <3> DEFINE r == NewCall("delete", "release", u, call[c].project, used[u], 0)
    <3>1. r.op = "delete" /\ r.at = "release" /\ r.user = u /\ r.seen = used[u]
      BY DEF NewCall
    <3>2. OpAt(r)
      BY <3>1 DEF OpAt
    <3>3. Become(c, r)
      BY <2>1, <2>4
    <3> HIDE DEF r
    <3>4. /\ OpsOK'
          /\ call'[c] = r /\ \A d \in Calls \ {c} : call'[d] = call[d]
          /\ \A v \in Users \ {u} : BooksOK(v)'
      BY <1>8, <1>1, <2>1, <2>2, <3>1, <3>2, <3>3, OthersBooks
    <3>5. IsFiniteSet(Live(u)')
      BY <1>1, <2>2
    <3>6. u \notin disturbed' => /\ Changing(u) \subseteq {c} /\ r.seen = used'[u]
                                 /\ used'[u] = Cardinality(Live(u)') + 1
      BY <1>1, <2>1, <2>2, <2>3, <3>1
    <3>7. BooksOK(u)'
      BY <1>0, <1>1, <3>1, <3>4, <3>5, <3>6, BooksOne
    <3> QED
      BY <3>4, <3>7
  <2>5. CASE ~(used[u] > 0)
    <3>1. /\ OpsOK'
          /\ call'[c] = Idle /\ \A d \in Calls \ {c} : call'[d] = call[d]
          /\ \A v \in Users \ {u} : BooksOK(v)'
      BY <1>8, <1>1, <2>1, <2>2, <2>5, IdleIs, OthersBooks
    <3>2. u \in disturbed
      <4>1. Cardinality(Live(u)) \in Nat
        BY <1>1, FS_CardinalityType
      <4> QED
        BY <2>3, <2>5, <4>1
    <3>3. IsFiniteSet(Live(u)')
      BY <1>1, <2>2
    <3>4. BooksOK(u)'
      BY <1>0, <1>1, <2>1, <3>1, <3>2, <3>3, IdleIs, BooksNone
    <3> QED
      BY <3>1, <3>4
  <2> QED
    BY <2>4, <2>5
<1>4. CASE RefundWrite(c)
  <2>1. /\ Become(c, Idle) /\ call[c].at = "release" /\ UNCHANGED <<owner, live, disturbed>>
        /\ used' = [used EXCEPT ![u] = call[c].seen - 1]
    BY <1>8, <1>4 DEF RefundWrite, Return, At, project
  <2>2. \A v \in Users : Live(v)' = Live(v)
    BY <2>1 DEF Live
  <2>3. used'[u] = call[c].seen - 1 /\ \A v \in Users \ {u} : used'[v] = used[v]
    BY <1>0, <1>1, <2>1 DEF TypeOK
  <2>4. /\ OpsOK'
        /\ call'[c] = Idle /\ \A d \in Calls \ {c} : call'[d] = call[d]
        /\ \A v \in Users \ {u} : BooksOK(v)'
    BY <1>8, <1>1, <2>1, <2>2, <2>3, IdleIs, OthersBooks
  <2>5. Cardinality(Live(u)) \in Nat
    BY <1>1, FS_CardinalityType
  <2>6. u \notin disturbed => Changing(u) \subseteq {c} /\ used'[u] = Cardinality(Live(u))
    BY <1>1, <2>1, <2>3, <2>5 DEF BooksExact
  <2>7. BooksOK(u)'
    <3>1. IsFiniteSet(Live(u)')
      BY <1>1, <2>2
    <3>2. u \notin disturbed' => Changing(u) \subseteq {c} /\ used'[u] = Cardinality(Live(u)')
      BY <1>1, <2>1, <2>2, <2>6
    <3> QED
      BY <1>0, <1>1, <2>4, <3>1, <3>2, IdleIs, BooksNone
  <2> QED
    BY <2>4, <2>7
<1> QED
  BY <1>2, <1>3, <1>4

\* A change of the quota touches neither a counter nor a project, and a call
\* that breaks off before its first write has changed nothing.
LEMMA OtherBooks ==
    ASSUME QuotaIInv, NEW c \in Calls, QuotaCheck(c) \/ QuotaWrite(c) \/ Abort(c)
    PROVE  OpsOK' /\ \A v \in Users : BooksOK(v)'
<1>0. IInv /\ TypeOK /\ OpsOK /\ (\A v \in Users : BooksOK(v)) /\ call[c] \in Call
  BY DEF QuotaIInv, IInv, TypeOK
<1>1. UNCHANGED <<owner, live, used>> /\ disturbed \subseteq disturbed'
  BY DEF QuotaCheck, QuotaWrite, Abort, project
<1>2. \A v \in Users : Live(v)' = Live(v) /\ used'[v] = used[v]
  BY <1>1 DEF Live
<1>3. CASE QuotaCheck(c) \/ QuotaWrite(c)
  <2>1. PICK r : Become(c, r) /\ r \in {Idle, [call[c] EXCEPT !.at = "set"]}
    BY <1>3 DEF QuotaCheck, QuotaWrite, Return
  <2>2. call[c].op \notin {"create", "delete"}
    BY <1>0, <1>3 DEF QuotaCheck, QuotaWrite, At, OpsOK
  <2>3. r.op \notin {"create", "delete"} /\ OpAt(r)
    BY <1>0, <2>1, <2>2, IdleIs DEF Call, OpAt
  <2>4. /\ call'[c] = r
        /\ \A d \in Calls \ {c} : call'[d] = call[d]
        /\ OpsOK'
    BY <1>0, <2>1, <2>3, CallBecomes
  <2>5. ASSUME NEW v \in Users PROVE BooksOK(v)'
    BY <1>0, <1>1, <1>2, <2>2, <2>3, <2>4, BooksOfOthers
  <2> QED
    BY <2>4, <2>5
<1>4. CASE Abort(c)
  <2>1. /\ call'[c] = Idle
        /\ \A d \in Calls \ {c} : call'[d] = call[d]
        /\ OpsOK'
    BY <1>0, <1>4, IdleIs, CallBecomes DEF Abort, Return
  <2>2. ASSUME NEW v \in Users, call[c].op \notin {"create", "delete"} \/ call[c].user # v
        PROVE  BooksOK(v)'
    BY <1>0, <1>1, <1>2, <2>1, <2>2, IdleIs, BooksOfOthers
  <2>3. ASSUME NEW v \in Users, call[c].op \in {"create", "delete"}, call[c].user = v
        PROVE  BooksOK(v)'
    <3>1. call[c].at \in {"insert", "pay", "mark", "refund", "release"}
      BY <1>0, <2>3 DEF OpsOK
    <3>2. IsFiniteSet(Live(v)) /\ (v \notin disturbed => BooksExact(v) /\ Changing(v) \subseteq {c})
      BY <2>3, <3>1, StepKnows
    <3>3. v \notin disturbed' => v \notin disturbed /\ call[c].at \in {"insert", "mark"}
      BY <1>4, <2>3, <3>1 DEF Abort
    <3>4. c \in Changing(v)
      BY <2>3 DEF Changing
    <3>5. v \notin disturbed' => Changing(v) \subseteq {c} /\ used[v] = Cardinality(Live(v))
      BY <3>2, <3>3, <3>4 DEF BooksExact
    <3>6. IsFiniteSet(Live(v)')
          /\ (v \notin disturbed' => Changing(v) \subseteq {c} /\ used'[v] = Cardinality(Live(v)'))
      BY <1>2, <3>2, <3>5
    <3> QED
      BY <1>0, <2>1, <3>6, IdleIs, BooksNone
  <2> QED
    BY <2>1, <2>2, <2>3
<1> QED
  BY <1>3, <1>4

LEMMA AroundBooks ==
    ASSUME QuotaIInv, NEW p \in Projects, Around(p)
    PROVE  OpsOK' /\ \A v \in Users : BooksOK(v)'
<1>0. IInv /\ TypeOK /\ OpsOK /\ (\A v \in Users : BooksOK(v))
  BY DEF QuotaIInv, IInv
<1>1. UNCHANGED <<owner, used, call>> /\ disturbed \subseteq disturbed'
  BY DEF Around, ConfirmDelete, TokenExpires, StartWork, FinishWork, FailWork, project
<1>2. OpsOK' /\ \A v \in Users : Changing(v)' = Changing(v)
  BY <1>0, <1>1 DEF OpsOK, Changing
<1>3. ASSUME NEW v \in Users, Live(v)' = Live(v) PROVE BooksOK(v)'
  BY <1>0, <1>1, <1>2, <1>3, BooksStay
<1>4. CASE UNCHANGED live
  BY <1>1, <1>2, <1>3, <1>4 DEF Live
<1>5. CASE FinishWork(p)
  <2>1. /\ live' = [live EXCEPT ![p] = TRUE]
        /\ live[p] \/ owner[p] \in disturbed'
    BY <1>5 DEF FinishWork
  <2>2. \A v \in Users \ {owner[p]} : Live(v)' = Live(v)
    BY <1>0, <1>1, <2>1 DEF Live, TypeOK
  <2>3. ASSUME NEW v \in Users, v = owner[p] PROVE BooksOK(v)'
    <3>1. CASE live[p]
      <4>1. live' = live
        BY <1>0, <2>1, <3>1 DEF TypeOK
      <4> QED
        BY <1>1, <1>3, <2>3, <4>1 DEF Live
    <3>2. CASE v \in disturbed'
      <4>1. Live(v)' = Live(v) \cup {p}
        BY <1>0, <1>1, <2>1, <2>3 DEF Live, TypeOK
      <4>2. IsFiniteSet(Live(v)')
        BY <1>0, <2>3, <4>1, OneProject DEF BooksOK
      <4> QED
        BY <1>1, <3>2, <4>2 DEF BooksOK
    <3> QED
      BY <2>1, <2>3, <3>1, <3>2
  <2>4. ASSUME NEW v \in Users PROVE BooksOK(v)'
    BY <1>3, <2>2, <2>3
  <2> QED
    BY <1>2, <2>4
<1>6. FinishWork(p) \/ UNCHANGED live
  BY DEF Around, ConfirmDelete, TokenExpires, StartWork, FailWork, project
<1> QED
  BY <1>4, <1>5, <1>6

LEMMA QuotaStep == QuotaIInv /\ [Next]_vars => QuotaIInv'
<1> SUFFICES ASSUME QuotaIInv, [Next]_vars PROVE QuotaIInv'
  OBVIOUS
<1>1. IInv'
  BY NextIInv DEF QuotaIInv
<1>2. OpsOK' /\ \A v \in Users : BooksOK(v)'
  <2>1. ASSUME NEW c \in Calls, Request(c) PROVE OpsOK' /\ \A v \in Users : BooksOK(v)'
    BY <2>1, RequestBooks
  <2>2. ASSUME NEW c \in Calls, Step(c) PROVE OpsOK' /\ \A v \in Users : BooksOK(v)'
    BY <2>2, CreateBooks, DeleteBooks, OtherBooks DEF Step
  <2>3. ASSUME NEW p \in Projects, Around(p) PROVE OpsOK' /\ \A v \in Users : BooksOK(v)'
    BY <2>3, AroundBooks
  <2>4. CASE UNCHANGED vars
    BY <2>4 DEF vars, QuotaIInv, OpsOK, BooksOK, BooksExact, Changing, Live
  <2> QED
    BY <2>1, <2>2, <2>3, <2>4 DEF Next
<1> QED
  BY <1>1, <1>2 DEF QuotaIInv

LEMMA QuotaInductive == Spec => []QuotaIInv
<1>1. Init => QuotaIInv
  BY QuotaStarts
<1>2. QuotaIInv /\ [Next]_vars => QuotaIInv'
  BY QuotaStep
<1> QED
  BY <1>1, <1>2, PTL DEF Spec

\* The counter of a user whose calls were served one at a time, without a crash
\* between two commits, is the number of the user's projects, up to the one
\* being paid or refunded: however many deletions are repeated and whatever the
\* other users do.
THEOREM AccountsExact == Spec => []AccountingExact
<1>1. QuotaIInv => AccountingExact
  <2> SUFFICES ASSUME QuotaIInv, NEW u \in Users \ disturbed
               PROVE  used[u] + Cardinality(Paying(u)) = Cardinality(Live(u)) + Cardinality(Refunding(u))
    BY DEF AccountingExact
  <2>1. BooksExact(u) /\ Cardinality(Live(u)) \in Nat /\ used[u] \in Nat
    BY FS_CardinalityType DEF QuotaIInv, BooksOK, IInv, TypeOK
  <2>2. Cardinality({}) = 0 /\ \A c : Cardinality({c}) = 1
    BY FS_EmptySet, FS_Singleton
  <2>3. CASE Changing(u) = {}
    <3>1. Paying(u) = {} /\ Refunding(u) = {} /\ used[u] = Cardinality(Live(u))
      BY <2>1, <2>3 DEF Paying, Refunding, BooksExact
    <3> QED
      BY <2>1, <2>2, <3>1
  <2>4. ASSUME NEW c \in Changing(u)
        PROVE  used[u] + Cardinality(Paying(u)) = Cardinality(Live(u)) + Cardinality(Refunding(u))
    <3>1. Changing(u) = {c}
      BY <2>1 DEF BooksExact
    <3>2. call[c].at \in {"insert", "pay", "mark", "refund", "release"}
      BY DEF QuotaIInv, OpsOK, Changing
    <3>3. CASE call[c].at = "pay"
      <4>1. Paying(u) = {c} /\ Refunding(u) = {} /\ used[u] + 1 = Cardinality(Live(u))
        BY <2>1, <3>1, <3>3 DEF Paying, Refunding, At, BooksExact
      <4>2. Cardinality(Paying(u)) = 1 /\ Cardinality(Refunding(u)) = 0
        BY <2>2, <4>1
      <4> QED
        BY <2>1, <4>1, <4>2
    <3>4. CASE call[c].at \in {"refund", "release"}
      <4>1. Paying(u) = {} /\ Refunding(u) = {c} /\ used[u] = Cardinality(Live(u)) + 1
        BY <2>1, <3>1, <3>4 DEF Paying, Refunding, At, BooksExact
      <4>2. Cardinality(Paying(u)) = 0 /\ Cardinality(Refunding(u)) = 1
        BY <2>2, <4>1
      <4> QED
        BY <2>1, <4>1, <4>2
    <3>5. CASE call[c].at \in {"insert", "mark"}
      <4>1. Paying(u) = {} /\ Refunding(u) = {} /\ used[u] = Cardinality(Live(u))
        BY <2>1, <3>1, <3>5 DEF Paying, Refunding, At, BooksExact
      <4> QED
        BY <2>1, <2>2, <4>1
    <3> QED
      BY <3>2, <3>3, <3>4, <3>5
  <2> QED
    BY <2>3, <2>4
<1> QED
  BY <1>1, QuotaInductive, PTL
=============================================================================
