-------------------------- MODULE AccountSessions --------------------------
(***************************************************************************)
(* One user's account: the status in the meta database, the tokens and     *)
(* counters in Redis, the login history, and the requests that change      *)
(* them: logins, logouts, checked API calls, and the administrators' ban,  *)
(* unban and status calls.  Accounts share no state, so one is enough; the *)
(* account is an ordinary user's (administrators skip the counters).  An   *)
(* API call is over the frequency limit or not: its counter, which nothing *)
(* else reads, is left out.                                                *)
(*                                                                         *)
(* A request has one database session, which hands out one object per row: *)
(* reading the account a second time returns the status loaded first.      *)
(* `seen` is that status; it changes only when the request itself writes   *)
(* or refreshes the object.  Actions are cut at the awaits.                *)
(***************************************************************************)
EXTENDS Naturals, Sequences, SequencesExt, RedisCounter

CONSTANTS
    Requests,      \* slots for requests; a login's token is named by its slot
    FailureLimit,  \* LoginFailureTracker.MAX_FAILED_ATTEMPTS
    MaxFailures,   \* bound on Redis failures and aborted requests
    Nobody         \* not an account status

ASSUME LimitsAssumption ==
    {FailureLimit, MaxFailures} \subseteq Nat
ASSUME FailureLimitAssumption == FailureLimit > 1

VARIABLES
    standing,   \* user_account.status
    failures,   \* login_fail_count: value, and whether the key expires
    token,      \* the token of each slot's login
    open,       \* login records without logout time, oldest first, by slot
    request,    \* requests being served
    late,       \* history: logins under way at the latest sweep of the tokens
    overlap,    \* history: two logins were between finding and adding a record
    excuse,     \* history: what a failure or a stale status kept from happening
    mishaps     \* history: failures so far

redisKeys == <<failures, token>>
accountHist == <<late, overlap, excuse, mishaps>>
accountVars == <<standing, failures, token, open, request,
                 late, overlap, excuse, mishaps>>

\* CHECK constraint ck_user_status.
Standings == {"normal", "suspended", "banned"}

ASSUME NobodyAssumption == Nobody \notin Standings

\* live: in the whitelist; stale: its JWT has expired first; revoked: taken
\* off the whitelist while the JWT can still be decoded.
TokenStates == {"none", "live", "stale", "revoked"}

RequestSteps ==
    {"idle", "count", "expire", "mark", "reset", "find", "close", "stamp",
     "record", "penalty", "token", "write", "sweep"}

Request == [op     : {"none", "login", "check", "logout", "unban", "set"},
            at     : RequestSteps,
            seen   : Standings \cup {Nobody},
            aim    : Standings \cup {Nobody},      \* the status to write
            record : Requests \cup {Nobody}]       \* the record found open

Quiet == [op |-> "none", at |-> "idle", seen |-> Nobody, aim |-> Nobody,
          record |-> Nobody]

ASSUME NobodyIsNoRequest == Nobody \notin Requests

AccountTypeOK ==
    /\ standing \in Standings
    /\ failures \in Counter(FailureLimit)
    /\ token \in [Requests -> TokenStates]
    /\ open \in Seq(Requests)
    /\ request \in [Requests -> Request]
    /\ late \in SUBSET Requests
    /\ overlap \in BOOLEAN
    /\ excuse \in SUBSET {"sweep", "failures", "mark"}
    /\ mishaps \in 0..MaxFailures

AccountInit ==
    /\ standing = "normal"
    /\ failures = Zero
    /\ token = [c \in Requests |-> "none"]
    /\ open = <<>>
    /\ request = [c \in Requests |-> Quiet]
    /\ late = {}
    /\ overlap = FALSE
    /\ excuse = {}
    /\ mishaps = 0

-----------------------------------------------------------------------------
\* A slot serves another login when nothing is left of its last one.
Unused(c) ==
    /\ request[c] = Quiet
    /\ token[c] = "none"
    /\ \A i \in 1..Len(open) : open[i] # c

Doing(c, op, step) == request[c].op = op /\ request[c].at = step

Proceed(c, step) == request' = [request EXCEPT ![c].at = step]

Finish(c) == request' = [request EXCEPT ![c] = Quiet]

Enter(c, op, step, status, aim) ==
    request' = [request EXCEPT ![c] =
        [Quiet EXCEPT !.op = op, !.at = step, !.seen = status, !.aim = aim]]

-----------------------------------------------------------------------------
(***************************************************************************)
(* Logins: service_login_with_record and the endpoint around it.           *)
(***************************************************************************)

\* A login under way: it has read a status that lets it in and its token is
\* not saved yet.
LoggingIn(c) ==
    /\ request[c].op = "login"
    /\ request[c].at \in {"reset", "find", "close", "stamp", "record",
                          "penalty", "token"}

\* The account is read; a banned one is refused, a wrong password is counted.
LoginRead(c, correct) ==
    /\ Unused(c)
    /\ standing # "banned"
    /\ IF correct THEN Enter(c, "login", "reset", Nobody, Nobody)
                  ELSE Enter(c, "login", "count", standing, Nobody)
    /\ late' = late \ {c}
    /\ UNCHANGED <<standing, redisKeys, open, overlap, excuse, mishaps>>

\* record_failed_attempt: INCR.
LoginCount(c) ==
    /\ Doing(c, "login", "count")
    /\ failures' = Incr(failures, FailureLimit)
    /\ LET reached == failures'.value >= FailureLimit IN
       request' = [request EXCEPT ![c] =
           CASE Creates(failures) -> [@ EXCEPT !.at = "expire"]
             [] ~Creates(failures) /\ reached -> [@ EXCEPT !.at = "mark"]
             [] OTHER -> Quiet]
    /\ UNCHANGED <<standing, token, open, accountHist>>

\* EXPIRE, 24 hours.
LoginExpire(c) ==
    /\ Doing(c, "login", "expire")
    /\ failures' = Armed(failures)
    /\ Finish(c)
    /\ UNCHANGED <<standing, token, open, accountHist>>

\* Mutant: a status the CHECK constraint does not know.
MarkFrozen(c) ==
    standing' = IF request[c].seen = "normal" THEN "frozen" ELSE standing

\* suspend_user: only an account seen normal is marked, by an UPDATE of the
\* status that does not look at the row again.
MarkSuspended(c) ==
    standing' = IF request[c].seen = "normal" THEN "suspended" ELSE standing

\* The third failure: suspend_user commits, then the violation is logged.
LoginMark(c) ==
    /\ Doing(c, "login", "mark")
    /\ MarkSuspended(c)
    /\ excuse' = IF standing' = "normal" THEN excuse \cup {"mark"} ELSE excuse
    /\ Finish(c)
    /\ UNCHANGED <<redisKeys, open, late, overlap, mishaps>>

\* reset_failed_count: the key is deleted.
LoginReset(c) ==
    /\ Doing(c, "login", "reset")
    /\ failures' = Zero
    /\ excuse' = excuse \ {"failures", "mark"}
    /\ Proceed(c, "find")
    /\ UNCHANGED <<standing, token, open, late, overlap, mishaps>>

\* Between looking for an open record and adding its own.
Recording(c) ==
    request[c].op = "login" /\ request[c].at \in {"close", "stamp", "record"}

\* Mutant: the old record is looked for and left as it is.
FindForgets(c, next) ==
    request' = [request EXCEPT ![c] = [@ EXCEPT !.at = next, !.record = Nobody]]

\* get_latest_unlogout_record.
Find(c, next) ==
    request' = [request EXCEPT ![c] =
        [@ EXCEPT !.at = next,
                  !.record = IF open = <<>> THEN Nobody ELSE open[Len(open)]]]

LoginFind(c) ==
    /\ Doing(c, "login", "find")
    /\ Find(c, "close")
    /\ overlap' = (overlap \/ \E d \in Requests \ {c} : Recording(d))
    /\ UNCHANGED <<standing, redisKeys, open, late, excuse, mishaps>>

\* update_logout_info: the record found gets its logout time.
CloseRecord(c) ==
    open' = IF request[c].record \notin ToSet(open) THEN open
            ELSE RemoveAt(open, CHOOSE i \in 1..Len(open) : open[i] = request[c].record)

LoginClose(c) ==
    /\ Doing(c, "login", "close")
    /\ CloseRecord(c)
    /\ request' = [request EXCEPT ![c] = [@ EXCEPT !.at = "stamp", !.record = Nobody]]
    /\ UNCHANGED <<standing, redisKeys, accountHist>>

\* last_login_at is written and the object refreshed: the status is read anew.
LoginStamp(c) ==
    /\ Doing(c, "login", "stamp")
    /\ request' = [request EXCEPT ![c] = [@ EXCEPT !.at = "record", !.seen = standing]]
    /\ UNCHANGED <<standing, redisKeys, open, accountHist>>

\* create_login_record: no logout time yet.
AddRecord(c) == open' = Append(open, c)

\* The record is added; then check_frequent_ip_changes: how many addresses the
\* window holds is up to the user's network (and Redis: an error counts none).
LoginRecord(c) ==
    /\ Doing(c, "login", "record")
    /\ AddRecord(c)
    /\ \/ Proceed(c, "penalty")
       \/ Proceed(c, "token")
    /\ UNCHANGED <<standing, redisKeys, accountHist>>

\* log_violation: the violation and the mark are one transaction.
Penalty(c) ==
    /\ request[c].at = "penalty"
    /\ MarkSuspended(c)
    /\ LET q == request[c] IN
       request' = [request EXCEPT ![c] =
           IF q.op # "login" THEN Quiet
           ELSE [q EXCEPT !.at = "token",
                          !.seen = IF q.seen = "normal" THEN "suspended" ELSE q.seen]]
    /\ UNCHANGED <<redisKeys, open, accountHist>>

\* create_access_token and service_save_token_in_redis.
LoginToken(c) ==
    /\ Doing(c, "login", "token")
    /\ token' = [token EXCEPT ![c] = "live"]
    /\ Finish(c)
    /\ UNCHANGED <<standing, failures, open, accountHist>>

\* swagger_login refuses a marked account, after the login is recorded.
LoginRefused(c) ==
    /\ Doing(c, "login", "token")
    /\ request[c].seen # "normal"
    /\ Finish(c)
    /\ UNCHANGED <<standing, redisKeys, open, accountHist>>

-----------------------------------------------------------------------------
(***************************************************************************)
(* API calls and logouts.                                                  *)
(***************************************************************************)

\* A banned account is refused; under the limits the call changes nothing here.
CheckOver(c) ==
    /\ request[c] = Quiet
    /\ standing # "banned"
    /\ Enter(c, "check", "penalty", standing, Nobody)
    /\ UNCHANGED <<standing, redisKeys, open, accountHist>>

\* get_current_active_user wants the token in the whitelist, and counts the
\* user's calls.
CheckActive(c) ==
    /\ \E t \in Requests : token[t] = "live"
    /\ CheckOver(c)

\* get_current_user, in front of the blacklist pages, is content with a token
\* that can be decoded; it counts the calls and the user's addresses.
CheckDecoded(c) ==
    /\ \E t \in Requests : token[t] \in {"live", "revoked"}
    /\ CheckOver(c)

Revoke(tokens) ==
    [t \in Requests |->
        IF t \in tokens THEN (IF token[t] \in {"live", "revoked"} THEN "revoked" ELSE "none")
        ELSE token[t]]

\* service_logout takes the token off the whitelist.  A token whose JWT has
\* expired cannot be decoded: the call ends there.
Logout(c, t) ==
    /\ request[c] = Quiet
    /\ token[t] # "none"
    /\ token' = Revoke({t})
    /\ request' = [request EXCEPT ![c] =
           IF token[t] = "stale" THEN Quiet ELSE [Quiet EXCEPT !.op = "logout", !.at = "find"]]
    /\ UNCHANGED <<standing, failures, open, accountHist>>

LogoutFind(c) ==
    /\ Doing(c, "logout", "find")
    /\ Find(c, "close")
    /\ UNCHANGED <<standing, redisKeys, open, accountHist>>

LogoutClose(c) ==
    /\ Doing(c, "logout", "close")
    /\ CloseRecord(c)
    /\ Finish(c)
    /\ UNCHANGED <<standing, redisKeys, accountHist>>

-----------------------------------------------------------------------------
(***************************************************************************)
(* Administrators.                                                         *)
(***************************************************************************)

\* unban_user_service and update_user_status_service read the account; so does
\* ban_user_service, which then does what the status call does for "banned".
\* Unban leaves a normal account as it is.
AdminRead(c, op, aim) ==
    /\ request[c] = Quiet
    /\ Enter(c, op, IF op = "unban" /\ standing = "normal" THEN "reset" ELSE "write",
             standing, aim)
    /\ UNCHANGED <<standing, redisKeys, open, accountHist>>

\* Mutant: the sessions end only where the ban changes a normal account.
AfterWriteNoLogout(seen, aim) ==
    CASE aim = "banned" /\ seen = "normal" -> "sweep"
      [] aim = "normal" -> "reset"
      [] OTHER -> "idle"

\* What the call does in Redis once the status is committed (all clear the
\* user's addresses).
AfterWrite(seen, aim) ==
    CASE aim = "banned" -> "sweep"
      [] aim = "normal" -> "reset"
      [] OTHER -> "idle"

\* The status is flushed when it differs from the one seen, and committed.
AdminWrite(c) ==
    LET next == AfterWrite(request[c].seen, request[c].aim) IN
    /\ request[c].at = "write"
    /\ standing' = IF request[c].seen = request[c].aim THEN standing ELSE request[c].aim
    /\ IF next = "idle" THEN Finish(c) ELSE Enter(c, request[c].op, next, Nobody, Nobody)
    /\ UNCHANGED <<redisKeys, open, accountHist>>

Resetting(c) == request[c].op \in {"unban", "set"} /\ request[c].at = "reset"

\* Mutant: reset_failed_count is called without await.
AdminResetUnawaited(c) ==
    /\ Resetting(c)
    /\ Finish(c)
    /\ UNCHANGED <<standing, redisKeys, open, accountHist>>

\* reset_failed_count.
AdminReset(c) ==
    /\ Resetting(c)
    /\ failures' = Zero
    /\ excuse' = excuse \ {"failures", "mark"}
    /\ Finish(c)
    /\ UNCHANGED <<standing, token, open, late, overlap, mishaps>>

\* force_logout_user_sessions: every whitelisted token that can be decoded.
AdminSweep(c) ==
    /\ request[c].at = "sweep"
    /\ token' = Revoke({t \in Requests : token[t] = "live"})
    /\ late' = {d \in Requests : LoggingIn(d)}
    /\ excuse' = excuse \ {"sweep"}
    /\ Finish(c)
    /\ UNCHANGED <<standing, failures, open, overlap, mishaps>>

-----------------------------------------------------------------------------
(***************************************************************************)
(* Time and failures.                                                      *)
(***************************************************************************)

\* The JWT expires a little before the Redis key that was set after it.
JwtExpires(t) ==
    /\ token[t] \in {"live", "revoked"}
    /\ token' = [token EXCEPT ![t] = IF @ = "live" THEN "stale" ELSE "none"]
    /\ UNCHANGED <<standing, failures, open, request, accountHist>>

\* The listener calls service_logout with the expired token, which ends when
\* the JWT cannot be decoded: only the key is gone.
TokenExpires(t) ==
    /\ token[t] = "stale"
    /\ token' = [token EXCEPT ![t] = "none"]
    /\ UNCHANGED <<standing, failures, open, request, accountHist>>

FailuresExpire ==
    /\ failures.expires
    /\ failures' = Zero
    /\ excuse' = excuse \ {"failures", "mark"}
    /\ UNCHANGED <<standing, token, open, request, late, overlap, mishaps>>

\* What a request that ends here leaves undone.
Undone(c) ==
    CASE request[c].at = "sweep" -> {"sweep"}
      [] Doing(c, "login", "expire") -> {"failures"}
      [] Doing(c, "login", "mark") -> {"mark"}
      [] Resetting(c) -> {"mark"}
      [] OTHER -> {}

\* Redis or the database raises, or the process ends: the request is over.
RequestAborts(c) ==
    /\ request[c] # Quiet
    /\ mishaps < MaxFailures
    /\ mishaps' = mishaps + 1
    /\ excuse' = excuse \cup Undone(c)
    /\ Finish(c)
    /\ UNCHANGED <<standing, redisKeys, open, late, overlap>>

\* The counters' errors are logged and the request goes on.
RedisFails(c) ==
    /\ Doing(c, "login", "reset") \/ Resetting(c)
    /\ mishaps < MaxFailures
    /\ mishaps' = mishaps + 1
    /\ IF request[c].op = "login" THEN excuse' = excuse /\ Proceed(c, "find")
       ELSE excuse' = excuse \cup {"mark"} /\ Finish(c)
    /\ UNCHANGED <<standing, redisKeys, open, late, overlap>>

\* service_abolish_token_in_redis swallows its errors too: the token stays.
LogoutKeepsToken(c, t) ==
    /\ request[c] = Quiet
    /\ token[t] \in {"live", "revoked"}
    /\ mishaps < MaxFailures
    /\ mishaps' = mishaps + 1
    /\ request' = [request EXCEPT ![c] = [Quiet EXCEPT !.op = "logout", !.at = "find"]]
    /\ UNCHANGED <<standing, redisKeys, open, late, overlap, excuse>>

-----------------------------------------------------------------------------
LoginStep(c) ==
    \/ LoginCount(c) \/ LoginExpire(c) \/ LoginMark(c) \/ LoginReset(c)
    \/ LoginFind(c) \/ LoginClose(c) \/ LoginStamp(c) \/ LoginRecord(c)
    \/ Penalty(c) \/ LoginToken(c) \/ LoginRefused(c)

LogoutStep(c) == LogoutFind(c) \/ LogoutClose(c)

AdminStep(c) == AdminWrite(c) \/ AdminReset(c) \/ AdminSweep(c)

AccountNext ==
    \/ \E c \in Requests :
          \/ \E correct \in BOOLEAN : LoginRead(c, correct)
          \/ CheckActive(c) \/ CheckDecoded(c)
          \/ \E t \in Requests : Logout(c, t) \/ LogoutKeepsToken(c, t)
          \/ AdminRead(c, "unban", "normal")
          \/ \E s \in Standings : AdminRead(c, "set", s)
          \/ LoginStep(c)
          \/ LogoutStep(c)
          \/ AdminStep(c)
          \/ RequestAborts(c)
          \/ RedisFails(c)
          \/ JwtExpires(c)
          \/ TokenExpires(c)
    \/ FailuresExpire

AccountSpec == AccountInit /\ [][AccountNext]_accountVars

-----------------------------------------------------------------------------
(***************************************************************************)
(* What holds.                                                             *)
(***************************************************************************)

\* While the account is banned and its ban has run to its end, the whitelist
\* holds no token, except those of logins that had read the account before the
\* ban was committed and saved their token after the sweep.
BanEndsSessions ==
    \/ standing # "banned"
    \/ \E c \in Requests : request[c].at = "sweep"
    \/ "sweep" \in excuse
    \/ \A t \in Requests : token[t] = "live" => t \in late

\* The failure counter in Redis always goes away by itself: it has an expiry, or
\* the request that created it is about to set one, or that request failed there.
FailuresGoAway ==
    failures.value > 0 =>
        \/ failures.expires
        \/ "failures" \in excuse
        \/ \E c \in Requests : Doing(c, "login", "expire")

\* An account whose failures have reached the limit is not normal: the request
\* that counted the last one is about to mark it, an administrator is about to
\* reset the counter, or one of them failed or worked on a stale status.
FailuresMark ==
    failures.value >= FailureLimit /\ standing = "normal" =>
        \/ "mark" \in excuse
        \/ \E c \in Requests :
              \/ Doing(c, "login", "mark")
              \/ Resetting(c)

\* The login history shows one open session at most, unless two logins have
\* been between finding the old record and adding their own at the same time.
OneOpenRecord == Len(open) > 1 => overlap
=============================================================================
