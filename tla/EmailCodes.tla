----------------------------- MODULE EmailCodes -----------------------------
(***************************************************************************)
(* Codes sent by e-mail: password reset codes, and the verification codes  *)
(* that registering and changing the address ask for.  A code is stored in *)
(* Redis under its address and kind, with an expiry; a mail is one await,  *)
(* a Redis command another, and a commit a third.  The reset mails are     *)
(* limited per address; the limit per client address is the same counter   *)
(* under another key, and here only a call that may be refused.            *)
(***************************************************************************)
EXTENDS Naturals, RedisCounter

CONSTANTS
    Emails,       \* addresses
    Users,        \* accounts, registered or not yet
    Forms,        \* slots for the requests
    MailLimit,    \* reset mails per address and window
    MaxCodes,     \* bound on the codes issued
    MaxTroubles,  \* bound on failures of the mail server, Redis or a process
    NoOne         \* no account

ASSUME EmailLimitsAssumption ==
    {MailLimit, MaxCodes, MaxTroubles} \subseteq Nat
ASSUME NoOneAssumption == NoOne \notin Users \cup Emails

VARIABLES
    owner,     \* user_account.email, by address (the column is unique)
    stored,    \* the code in Redis, by kind and address; 0 is no key
    tries,     \* rate counters of the reset mails
    form,      \* requests being served
    issued,    \* codes generated so far
    newest,    \* history: the code mailed last, by kind and address
    uses,      \* history: accounts changed with each reset code
    raced,     \* history: reset codes accepted by two requests at a time
    void,      \* history: codes that expired, were overtaken or ran into trouble
    lost,      \* history: counters whose EXPIRE was not sent
    troubles   \* history: failures so far

emailHist == <<newest, uses, raced, void, lost, troubles>>
emailVars == <<owner, stored, tries, form, issued, newest, uses, raced, void, lost, troubles>>

Kinds == {"reset", "verify"}
Codes == 1..MaxCodes

FormSteps == {"idle", "rate", "expire", "store", "mail", "unstore",
              "keep", "delete", "update", "create", "change"}

Form == [op    : {"none", "forgot", "send", "reset", "register", "confirm"},
         at    : FormSteps,
         email : Emails \cup {NoOne},
         code  : 0..MaxCodes,
         user  : Users \cup {NoOne}]

Blank == [op |-> "none", at |-> "idle", email |-> NoOne, code |-> 0, user |-> NoOne]

EmailTypeOK ==
    /\ owner \in [Emails -> Users \cup {NoOne}]
    /\ stored \in [Kinds -> [Emails -> 0..MaxCodes]]
    /\ tries \in [Emails -> Counter(MailLimit + 1)]
    /\ form \in [Forms -> Form]
    /\ issued \in 0..MaxCodes
    /\ newest \in [Kinds -> [Emails -> 0..MaxCodes]]
    /\ uses \in [Codes -> 0..2]
    /\ raced \in SUBSET Codes
    /\ void \in SUBSET (0..MaxCodes)
    /\ lost \in SUBSET Emails
    /\ troubles \in 0..MaxTroubles

\* Some accounts are registered already.
EmailInit ==
    /\ owner \in [Emails -> Users \cup {NoOne}]
    /\ \A e, f \in Emails : e # f => owner[e] # owner[f] \/ owner[e] = NoOne
    /\ stored = [k \in Kinds |-> [e \in Emails |-> 0]]
    /\ tries = [e \in Emails |-> Zero]
    /\ form = [c \in Forms |-> Blank]
    /\ issued = 0
    /\ newest = [k \in Kinds |-> [e \in Emails |-> 0]]
    /\ uses = [k \in Codes |-> 0]
    /\ raced = {}
    /\ void = {}
    /\ lost = {}
    /\ troubles = 0

-----------------------------------------------------------------------------
Step(c, step) == form[c].at = step

Turn(c, step) == form' = [form EXCEPT ![c].at = step]

Close(c) == form' = [form EXCEPT ![c] = Blank]

Fill(c, op, step, e, code, u) ==
    /\ form[c] = Blank
    /\ form' = [form EXCEPT ![c] =
                  [op |-> op, at |-> step, email |-> e, code |-> code, user |-> u]]

\* Requests that may still write the code of this kind and address.
Pending(kind, e) ==
    {c \in Forms : /\ form[c].email = e
                   /\ IF kind = "reset"
                      THEN form[c].at \in {"mail", "unstore", "delete"}
                      ELSE form[c].at = "keep"}

Write(kind, e, code) == stored' = [stored EXCEPT ![kind][e] = code]

-----------------------------------------------------------------------------
(***************************************************************************)
(* Forgotten passwords.                                                    *)
(***************************************************************************)

Forgot(c, e) ==
    /\ Fill(c, "forgot", "rate", e, 0, NoOne)
    /\ UNCHANGED <<owner, stored, tries, issued, emailHist>>

\* _rate_limit: INCR, EXPIRE if the key is new; over the limit the call ends.
Rate(c) ==
    LET e == form[c].email
        count == Incr(tries[e], MailLimit + 1)
    IN
    /\ Step(c, "rate")
    /\ tries' = [tries EXCEPT ![e] = count]
    /\ CASE Creates(tries[e]) -> Turn(c, "expire")
         [] ~Creates(tries[e]) /\ count.value <= MailLimit -> Turn(c, "store")
         [] OTHER -> Close(c)
    /\ UNCHANGED <<owner, stored, issued, emailHist>>

RateExpire(c) ==
    /\ Step(c, "expire")
    /\ tries' = [tries EXCEPT ![form[c].email] = Armed(@)]
    /\ IF 1 <= MailLimit THEN Turn(c, "store") ELSE Close(c)
    /\ UNCHANGED <<owner, stored, issued, emailHist>>

\* An address nobody has gets no mail, nor does a client over its own limit.
ForgotRefused(c) ==
    /\ Step(c, "store")
    /\ Close(c)
    /\ UNCHANGED <<owner, stored, tries, issued, emailHist>>

\* SETEX: the code of an earlier mail is replaced.
ForgotStore(c) ==
    LET e == form[c].email IN
    /\ Step(c, "store")
    /\ owner[e] # NoOne
    /\ issued < MaxCodes
    /\ issued' = issued + 1
    /\ Write("reset", e, issued')
    /\ form' = [form EXCEPT ![c] = [@ EXCEPT !.at = "mail", !.code = issued']]
    /\ void' = IF Pending("reset", e) = {} THEN void
               ELSE void \cup {issued'} \cup {form[d].code : d \in Pending("reset", e)}
    /\ UNCHANGED <<owner, tries, newest, uses, raced, lost, troubles>>

ForgotMail(c) ==
    /\ Step(c, "mail")
    /\ newest' = [newest EXCEPT !["reset"][form[c].email] = form[c].code]
    /\ Close(c)
    /\ UNCHANGED <<owner, stored, tries, issued, uses, raced, void, lost, troubles>>

\* The mail could not be sent: the key is deleted, whatever code it holds.
ForgotUnstore(c) ==
    LET e == form[c].email IN
    /\ Step(c, "unstore")
    /\ Write("reset", e, 0)
    /\ Close(c)
    /\ UNCHANGED <<owner, tries, issued, emailHist>>

\* service_reset_password_with_code: GET and compare.
Reset(c, e) ==
    /\ stored["reset"][e] # 0
    /\ Fill(c, "reset", "delete", e, stored["reset"][e], NoOne)
    /\ raced' = IF \E d \in Forms : Step(d, "delete") /\ form[d].code = stored["reset"][e]
                THEN raced \cup {stored["reset"][e]} ELSE raced
    /\ UNCHANGED <<owner, stored, tries, issued, newest, uses, void, lost, troubles>>

\* Mutant: the code stays until it expires, like a verification code.
ResetKeepsCode(c) ==
    /\ Step(c, "delete")
    /\ Turn(c, "update")
    /\ UNCHANGED <<owner, stored, tries, issued, emailHist>>

\* DEL, whatever code the key holds by now.
ResetDelete(c) ==
    LET e == form[c].email IN
    /\ Step(c, "delete")
    /\ Write("reset", e, 0)
    /\ void' = void \cup {form[c].code}
    /\ Turn(c, "update")
    /\ UNCHANGED <<owner, tries, issued, newest, uses, raced, lost, troubles>>

\* The account is looked up by its address now, and gets the new password.
ResetUpdate(c) ==
    LET k == form[c].code IN
    /\ Step(c, "update")
    /\ uses' = IF owner[form[c].email] = NoOne \/ uses[k] = 2 THEN uses
               ELSE [uses EXCEPT ![k] = @ + 1]
    /\ Close(c)
    /\ UNCHANGED <<owner, stored, tries, issued, newest, raced, void, lost, troubles>>

-----------------------------------------------------------------------------
(***************************************************************************)
(* Verification codes.                                                     *)
(***************************************************************************)

\* send_register_code and request_update_email_service refuse a taken address;
\* the code is generated, mailed first ...
SendMail(c, e) ==
    /\ owner[e] = NoOne
    /\ issued < MaxCodes
    /\ issued' = issued + 1
    /\ Fill(c, "send", "keep", e, issued', NoOne)
    /\ newest' = [newest EXCEPT !["verify"][e] = issued']
    /\ void' = IF Pending("verify", e) = {} THEN void
               ELSE void \cup {issued'} \cup {form[d].code : d \in Pending("verify", e)}
    /\ UNCHANGED <<owner, stored, tries, uses, raced, lost, troubles>>

\* Mutant: a code that is there is kept (SET NX).
SendKeepFirst(c) ==
    /\ Step(c, "keep")
    /\ stored' = IF stored["verify"][form[c].email] = 0
                 THEN [stored EXCEPT !["verify"][form[c].email] = form[c].code] ELSE stored
    /\ Close(c)
    /\ UNCHANGED <<owner, tries, issued, emailHist>>

\* ... and stored afterwards.
SendKeep(c) ==
    /\ Step(c, "keep")
    /\ Write("verify", form[c].email, form[c].code)
    /\ Close(c)
    /\ UNCHANGED <<owner, tries, issued, emailHist>>

\* verify_code: GET and compare; the key stays.
Verified(c, e, u, op, step) ==
    /\ stored["verify"][e] # 0
    /\ Fill(c, op, step, e, stored["verify"][e], u)
    /\ UNCHANGED <<owner, stored, tries, issued, emailHist>>

Register(c, e, u) ==
    /\ \A f \in Emails : owner[f] # u
    /\ Verified(c, e, u, "register", "create")

ConfirmEmail(c, e, u) ==
    /\ \E f \in Emails : owner[f] = u
    /\ Verified(c, e, u, "confirm", "change")

\* INSERT or UPDATE; the unique constraint refuses an address (or a user name)
\* that was taken since.
TakeAddress(c) ==
    LET e == form[c].email
        u == form[c].user
        there == \E f \in Emails : owner[f] = u
    IN
    /\ \/ Step(c, "create")
       \/ Step(c, "change")
    /\ owner' = IF owner[e] = NoOne /\ (Step(c, "change") <=> there)
                THEN [f \in Emails |-> IF f = e THEN u
                                       ELSE IF owner[f] = u THEN NoOne ELSE owner[f]]
                ELSE owner
    /\ Close(c)
    /\ UNCHANGED <<stored, tries, issued, emailHist>>

-----------------------------------------------------------------------------
(***************************************************************************)
(* Time and failures.                                                      *)
(***************************************************************************)

CodeExpires(kind, e) ==
    /\ stored[kind][e] # 0
    /\ Write(kind, e, 0)
    /\ void' = void \cup {stored[kind][e]}
    /\ UNCHANGED <<owner, tries, form, issued, newest, uses, raced, lost, troubles>>

RateKeyExpires(e) ==
    /\ tries[e].expires
    /\ tries' = [tries EXCEPT ![e] = Zero]
    /\ lost' = lost \ {e}
    /\ UNCHANGED <<owner, stored, form, issued, newest, uses, raced, void, troubles>>

Trouble == troubles < MaxTroubles /\ troubles' = troubles + 1

\* The mail server refuses: a verification code is not stored, a reset code is
\* taken back together with the one it replaced.
MailFails(c) ==
    /\ Trouble
    /\ Step(c, "mail")
    /\ Turn(c, "unstore")
    /\ void' = void \cup {newest["reset"][form[c].email]}
                    \cup {form[d].code : d \in Pending("reset", form[c].email)}
    /\ UNCHANGED <<owner, stored, tries, issued, newest, uses, raced, lost>>

\* A Redis command fails or the process ends, and the request with it (a rate
\* limit whose command fails lets the request pass).
FormAborts(c) ==
    /\ Trouble
    /\ form[c] # Blank
    /\ \/ Close(c)
       \/ form[c].at \in {"rate", "expire"} /\ Turn(c, "store")
    /\ lost' = IF Step(c, "expire") THEN lost \cup {form[c].email} ELSE lost
    /\ void' = IF Step(c, "keep") \/ Step(c, "mail") \/ Step(c, "unstore")
               THEN void \cup {form[c].code, newest["reset"][form[c].email]} ELSE void
    /\ UNCHANGED <<owner, stored, tries, issued, newest, uses, raced>>

-----------------------------------------------------------------------------
EmailNext ==
    \/ \E c \in Forms :
          \/ Rate(c) \/ RateExpire(c)
          \/ ForgotRefused(c) \/ ForgotStore(c) \/ ForgotMail(c) \/ ForgotUnstore(c)
          \/ ResetDelete(c) \/ ResetUpdate(c)
          \/ SendKeep(c) \/ TakeAddress(c)
          \/ MailFails(c) \/ FormAborts(c)
          \/ \E e \in Emails :
                \/ Forgot(c, e) \/ Reset(c, e) \/ SendMail(c, e)
                \/ \E u \in Users : Register(c, e, u) \/ ConfirmEmail(c, e, u)
    \/ \E e \in Emails :
          \/ RateKeyExpires(e)
          \/ \E kind \in Kinds : CodeExpires(kind, e)

EmailSpec == EmailInit /\ [][EmailNext]_emailVars

-----------------------------------------------------------------------------
(***************************************************************************)
(* What holds.                                                             *)
(***************************************************************************)

\* "One-time deletion" (password_reset_service.py): a reset code changes the
\* password once, unless a second request compared it before the first one had
\* deleted the key.
OneUsePerCode == \A k \in Codes : uses[k] > 1 => k \in raced

\* The code in the last mail a user got is the one that is accepted, unless it
\* expired or was used, its request has yet to store it, another one is being
\* sent or used right now, or two requests or a failure crossed it.
LastMailedIsStored ==
    \A kind \in Kinds, e \in Emails :
        LET k == newest[kind][e] IN
        k # 0 => \/ stored[kind][e] = k
                 \/ k \in void
                 \/ Pending(kind, e) # {}

\* A rate counter always goes away by itself, unless the request that created
\* it failed before EXPIRE: without that, the address would be refused forever.
RateKeysGoAway ==
    \A e \in Emails :
        tries[e].value > 0 =>
            \/ tries[e].expires
            \/ e \in lost
            \/ \E c \in Forms : Step(c, "expire") /\ form[c].email = e
=============================================================================
