---------------------------- MODULE ProjectQuota ----------------------------
(***************************************************************************)
(* Who owns a project, and how many a user may have: the create and delete *)
(* handlers of service/project_service.py, the quota update of             *)
(* service/admin_service.py and the columns used_databases and             *)
(* max_databases of user_account.                                          *)
(*                                                                         *)
(* Every handler reads the user row, awaits, and later writes an absolute  *)
(* value computed from what it read (the session keeps the object, since   *)
(* expire_on_commit is off); each of those commits is an action.           *)
(* Generation and deployment only matter here for their last write, which  *)
(* puts a project back into a status that counts; their steps are in       *)
(* ProjectLifecycle.                                                       *)
(***************************************************************************)
EXTENDS Integers, FiniteSets

CONSTANTS
    Users,         \* user ids
    Projects,      \* project ids, handed out by the database
    Calls,         \* slots for API calls
    Quotas,        \* values an administrator gives to max_databases
    DefaultQuota,  \* max_databases of a new user
    None           \* a field that is not in use

\* AdminUpdateUserQuotaRequest refuses a quota that is not positive.
ASSUME QuotasAssumption == Quotas \subseteq Nat \ {0} /\ DefaultQuota \in Nat \ {0}
ASSUME NoneAssumption == None \notin Users \cup Projects

VARIABLES
    owner,      \* project.user_id, None before the row exists
    live,       \* project_status is not "deleted"
    working,    \* projects with a DDL task or a deployment on its way
    used,       \* user_account.used_databases
    max,        \* user_account.max_databases
    tokens,     \* delete confirmations issued and not expired
    call,       \* API calls being served
    peak,       \* history: the largest max_databases of a user so far
    disturbed   \* history: users whose accounting has been broken

project == <<owner, live, working>>
vars == <<owner, live, working, used, max, tokens, call, peak, disturbed>>

\* A call: the operation, the await it is at, who asked, the project, the value
\* of the user row it read, and the quota to be written.
Call == [op : {"none", "create", "delete", "quota"},
         at : {"idle", "insert", "pay", "mark", "refund", "release", "check", "set"},
         user : Users \cup {None},
         project : Projects \cup {None},
         seen : Nat,
         quota : Nat]

NewCall(o, step, u, p, seen, quota) ==
    [op |-> o, at |-> step, user |-> u, project |-> p, seen |-> seen, quota |-> quota]

Idle == NewCall("none", "idle", None, None, 0, 0)

TypeOK ==
    /\ owner \in [Projects -> Users \cup {None}]
    /\ live \in [Projects -> BOOLEAN]
    /\ working \subseteq Projects
    /\ used \in [Users -> Nat]
    /\ max \in [Users -> Nat]
    /\ tokens \subseteq Users \X Projects
    /\ call \in [Calls -> Call]
    /\ peak \in [Users -> Nat]
    /\ disturbed \subseteq Users

Init ==
    /\ owner = [p \in Projects |-> None]
    /\ live = [p \in Projects |-> FALSE]
    /\ working = {}
    /\ used = [u \in Users |-> 0]
    /\ max = [u \in Users |-> DefaultQuota]
    /\ tokens = {}
    /\ call = [c \in Calls |-> Idle]
    /\ peak = [u \in Users |-> DefaultQuota]
    /\ disturbed = {}

Live(u) == {p \in Projects : owner[p] = u /\ live[p]}

At(c, step) == call[c].at = step

Become(c, record) == call' = [call EXCEPT ![c] = record]

Return(c) == Become(c, Idle)

\* Calls of u between reading the user row or the project and the last write.
Changing(u) == {c \in Calls : call[c].op \in {"create", "delete"} /\ call[c].user = u}

\* History: two calls that change the counter of u overlap.
Overlap(u) == disturbed' = IF Changing(u) = {} THEN disturbed ELSE disturbed \cup {u}

-----------------------------------------------------------------------------
(***************************************************************************)
(* create_project_service: check, insert, pay.                             *)
(***************************************************************************)

\* Mutant: the comparison lets one more project through.
QuotaLeftOffByOne(u) == used[u] <= max[u]

\* _check_user_quota.
QuotaLeft(u) == used[u] < max[u]

CreateRead(c, u) ==
    /\ call[c] = Idle
    /\ QuotaLeft(u)
    /\ Become(c, NewCall("create", "insert", u, None, used[u], 0))
    /\ Overlap(u)
    /\ UNCHANGED <<project, used, max, peak, tokens>>

\* The row is committed (and the pipeline dispatched) before the quota is paid.
CreateInsert(c, p) ==
    /\ At(c, "insert")
    /\ owner[p] = None
    /\ owner' = [owner EXCEPT ![p] = call[c].user]
    /\ live' = [live EXCEPT ![p] = TRUE]
    /\ Become(c, NewCall("create", "pay", call[c].user, None, call[c].seen, 0))
    /\ UNCHANGED <<working, used, max, peak, tokens, disturbed>>

\* used_databases = user.used_databases + 1, of the user read at the check.
CreatePay(c) ==
    /\ At(c, "pay")
    /\ used' = [used EXCEPT ![call[c].user] = call[c].seen + 1]
    /\ Return(c)
    /\ UNCHANGED <<project, max, peak, tokens, disturbed>>

-----------------------------------------------------------------------------
(***************************************************************************)
(* Deletion: a confirmation token, the mark, the release of the quota.     *)
(***************************************************************************)

\* Mutant: a confirmation is given to anyone who asks.
ConfirmDeleteUnchecked(u, p) ==
    /\ owner[p] # None
    /\ tokens' = tokens \cup {<<u, p>>}
    /\ UNCHANGED <<project, used, max, call, peak, disturbed>>

\* The token names the user and the project, whatever the project's status;
\* nothing marks it as used.
ConfirmDelete(u, p) ==
    /\ owner[p] = u
    /\ tokens' = tokens \cup {<<u, p>>}
    /\ UNCHANGED <<project, used, max, call, peak, disturbed>>

TokenExpires(u, p) ==
    /\ <<u, p>> \in tokens
    /\ tokens' = tokens \ {<<u, p>>}
    /\ UNCHANGED <<project, used, max, call, peak, disturbed>>

\* Mutant: a deleted project is deleted again.
DeleteReadAny(c, u, p) ==
    /\ call[c] = Idle
    /\ <<u, p>> \in tokens
    /\ Become(c, NewCall("delete", "mark", u, p, 0, 0))
    /\ Overlap(u)
    /\ UNCHANGED <<project, used, max, peak, tokens>>

\* A deleted project is answered at once, with nothing to change.
DeleteRead(c, u, p) ==
    /\ call[c] = Idle
    /\ <<u, p>> \in tokens
    /\ live[p]
    /\ Become(c, NewCall("delete", "mark", u, p, 0, 0))
    /\ Overlap(u)
    /\ UNCHANGED <<project, used, max, peak, tokens>>

\* change_status: no condition on the status of the row.
DeleteMark(c) ==
    LET p == call[c].project IN
    /\ At(c, "mark")
    /\ live' = [live EXCEPT ![p] = FALSE]
    /\ Become(c, NewCall("delete", "refund", call[c].user, p, 0, 0))
    /\ UNCHANGED <<owner, working, used, max, peak, tokens, disturbed>>

\* Mutant: the counter is lowered whatever its value.
RefundReadUnguarded(c) ==
    LET u == call[c].user IN
    /\ At(c, "refund")
    /\ Become(c, NewCall("delete", "release", u, call[c].project, used[u], 0))
    /\ UNCHANGED <<project, used, max, peak, tokens, disturbed>>

\* _release_user_quota reads the user; a counter at zero stays there.
RefundRead(c) ==
    LET u == call[c].user IN
    /\ At(c, "refund")
    /\ IF used[u] > 0
       THEN Become(c, NewCall("delete", "release", u, call[c].project, used[u], 0))
       ELSE Return(c)
    /\ UNCHANGED <<project, used, max, peak, tokens, disturbed>>

RefundWrite(c) ==
    /\ At(c, "release")
    /\ used' = [used EXCEPT ![call[c].user] = call[c].seen - 1]
    /\ Return(c)
    /\ UNCHANGED <<project, max, peak, tokens, disturbed>>

-----------------------------------------------------------------------------
(***************************************************************************)
(* update_user_quota_service: the quota may not fall below the number of   *)
(* projects counted; what is written is the column that changed.           *)
(***************************************************************************)

QuotaRead(c, u, quota) ==
    /\ call[c] = Idle
    /\ Become(c, NewCall("quota", "check", u, None, max[u], quota))
    /\ UNCHANGED <<project, used, max, peak, tokens, disturbed>>

QuotaCheck(c) ==
    /\ At(c, "check")
    /\ IF call[c].quota >= Cardinality(Live(call[c].user))
       THEN Become(c, [call[c] EXCEPT !.at = "set"])
       ELSE Return(c)
    /\ UNCHANGED <<project, used, max, peak, tokens, disturbed>>

\* The ORM flushes max_databases only when it differs from the value read.
QuotaWrite(c) ==
    LET u == call[c].user IN
    /\ At(c, "set")
    /\ IF call[c].quota = call[c].seen THEN UNCHANGED <<max, peak>>
       ELSE /\ max' = [max EXCEPT ![u] = call[c].quota]
            /\ peak' = [peak EXCEPT ![u] = IF call[c].quota > @ THEN call[c].quota ELSE @]
    /\ Return(c)
    /\ UNCHANGED <<project, used, tokens, disturbed>>

-----------------------------------------------------------------------------
(***************************************************************************)
(* The last write of a generation or a deployment, and broken calls.       *)
(***************************************************************************)

\* Both endpoints check the owner and not the status.
StartWork(u, p) ==
    /\ owner[p] = u
    /\ working' = working \cup {p}
    /\ UNCHANGED <<owner, live, used, max, tokens, call, peak, disturbed>>

\* generate_ddl_task writes pending_confirmation, deploy_project_service writes
\* active, on a project that may have been deleted.
FinishWork(p) ==
    /\ p \in working
    /\ working' = working \ {p}
    /\ live' = [live EXCEPT ![p] = TRUE]
    /\ disturbed' = IF live[p] THEN disturbed ELSE disturbed \cup {owner[p]}
    /\ UNCHANGED <<owner, used, max, tokens, call, peak>>

\* The work fails, and the project keeps its status.
FailWork(p) ==
    /\ p \in working
    /\ working' = working \ {p}
    /\ UNCHANGED <<owner, live, used, max, tokens, call, peak, disturbed>>

\* A commit fails, the dispatch fails or the process dies: what was committed
\* stays, the rest of the call is lost.
Abort(c) ==
    /\ call[c] # Idle
    /\ Return(c)
    /\ disturbed' = IF call[c].at \in {"pay", "refund", "release"}
                    THEN disturbed \cup {call[c].user} ELSE disturbed
    /\ UNCHANGED <<project, used, max, tokens, peak>>

-----------------------------------------------------------------------------
Request(c) ==
    \E u \in Users :
        \/ CreateRead(c, u)
        \/ \E p \in Projects : DeleteRead(c, u, p)
        \/ \E quota \in Quotas : QuotaRead(c, u, quota)

Step(c) ==
    \/ \E p \in Projects : CreateInsert(c, p)
    \/ CreatePay(c)
    \/ DeleteMark(c) \/ RefundRead(c) \/ RefundWrite(c)
    \/ QuotaCheck(c) \/ QuotaWrite(c)
    \/ Abort(c)

Around(p) ==
    \/ \E u \in Users : ConfirmDelete(u, p) \/ TokenExpires(u, p) \/ StartWork(u, p)
    \/ FinishWork(p) \/ FailWork(p)

Next == \/ \E c \in Calls : Request(c) \/ Step(c)
        \/ \E p \in Projects : Around(p)

Spec == Init /\ [][Next]_vars

-----------------------------------------------------------------------------
(***************************************************************************)
(* What holds.                                                             *)
(***************************************************************************)

\* The counter stays between zero and the largest quota the user has had,
\* however creations, deletions, quota changes and crashes interleave: each
\* write is one more than a value that was below a quota, or one less than a
\* value that was positive.
UsedInRange == \A u \in Users : used[u] \in 0..peak[u]

\* Served one call at a time, without a crash and without a generation or a
\* deployment outliving the deletion, the counter is the number of projects,
\* up to the creation being paid and the deletion being refunded: a repeated
\* deletion is not refunded twice.
Paying(u) == {c \in Changing(u) : At(c, "pay")}
Refunding(u) == {c \in Changing(u) : call[c].at \in {"refund", "release"}}

AccountingExact ==
    \A u \in Users \ disturbed :
        used[u] + Cardinality(Paying(u)) = Cardinality(Live(u)) + Cardinality(Refunding(u))

DeletedByOwner ==
    \A p \in Projects : live[p] /\ ~live'[p] =>
        \E c \in Calls : /\ call[c].op = "delete"
                        /\ call[c].project = p
                        /\ call[c].user = owner[p]

\* A project is deleted by a call of its owner only: the delete endpoint checks
\* the token alone, and the tokens of a project go to its owner alone.
OnlyOwnerDeletes == [][DeletedByOwner]_vars

\* "The largest number of database projects that may be created"
\* (models/user_account.py): a user never has more projects than the largest
\* quota so far.
WithinQuota == \A u \in Users : Cardinality(Live(u)) <= peak[u]

\* "The number of database projects in use" (models/user_account.py): with no
\* call of the user being served, the counter is that number.
UsedCountsProjects ==
    \A u \in Users : Changing(u) = {} => used[u] = Cardinality(Live(u))
=============================================================================
