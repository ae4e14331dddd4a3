--------------------------- MODULE AccountsProofs ----------------------------
(***************************************************************************)
(* Theorems about what serves a user beside the sessions: the codes sent by *)
(* e-mail, the model of a conversation, and the components together.       *)
(***************************************************************************)
EXTENDS AccountSessionsProofs, MCAccounts

-----------------------------------------------------------------------------
(***************************************************************************)
(* EmailCodes: a reset code is used once, and the last mail's code is the  *)
(* one that is stored.                                                     *)
(***************************************************************************)

Issued == 1..issued

\* Requests with a code that was issued ...
Holding(c) == form[c].at \in {"mail", "unstore", "delete", "update", "keep"}

FormsOK ==
    \A c \in Forms :
        /\ form[c].at # "idle" => form[c].email \in Emails
        /\ Holding(c) => form[c].code \in Issued

\* ... as are the codes stored, mailed and used.
CodesOK ==
    /\ \A kind \in Kinds, e \in Emails : stored[kind][e] \in 0..issued
    /\ \A k \in Codes : uses[k] > 0 => k \in Issued

\* A reset code is stored under one address, and only until the first request
\* that compared it deletes it; a code that was used is not stored.
StoredOnce ==
    /\ \A e, f \in Emails : stored["reset"][e] = stored["reset"][f] =>
           e = f \/ stored["reset"][e] = 0
    /\ \A c \in Forms, e \in Emails : stored["reset"][e] = form[c].code =>
           /\ Step(c, "delete") => e = form[c].email
           /\ ~Step(c, "update")
    /\ \A e \in Emails : stored["reset"][e] # 0 => uses[stored["reset"][e]] = 0

\* The requests that compared a code and have yet to change the password.
Redeeming(c) == form[c].at \in {"delete", "update"}

\* A code that no two requests compared at a time has one such request, before
\* it is used, and none afterwards.
OneResets ==
    \A c \in Forms : Redeeming(c) =>
        \/ form[c].code \in raced
        \/ /\ uses[form[c].code] = 0
           /\ \A d \in Forms : Redeeming(d) /\ form[d].code = form[c].code => d = c

UsesIInv == FormsOK /\ CodesOK /\ StoredOnce /\ OneResets /\ OneUsePerCode

\* What the requests know of the code stored at their address.
MailsWatched ==
    \A c \in Forms :
        LET e == form[c].email
            k == form[c].code
        IN
        /\ Step(c, "mail") => k \in void \/ stored["reset"][e] = k
        /\ Step(c, "unstore") =>
              /\ newest["reset"][e] \in void
              /\ \A d \in Forms : Step(d, "mail") /\ form[d].email = e => form[d].code \in void
        /\ Step(c, "delete") => stored["reset"][e] \in {0, k} \cup void
        /\ Step(c, "keep") => newest["verify"][e] \in {k} \cup void

\* A mailed code that is not stored awaits the request that will store it, or
\* was replaced by a request that has yet to mail its own.
MailsFollow ==
    \A e \in Emails :
        /\ \/ newest["reset"][e] \in {0, stored["reset"][e]} \cup void
           \/ \E c \in Forms : Step(c, "mail") /\ form[c].email = e
        /\ \/ newest["verify"][e] \in {0, stored["verify"][e]} \cup void
           \/ \E c \in Forms : Step(c, "keep") /\ form[c].email = e /\ form[c].code = newest["verify"][e]

MailsIInv == MailsWatched /\ MailsFollow

EmailIInv == EmailTypeOK /\ UsesIInv /\ MailsIInv /\ RateKeysGoAway

-----------------------------------------------------------------------------
\* A step changes one request at most: where it stands, and its address and code.
OnlyForm(c) ==
    /\ form' \in [Forms -> Form]
    /\ \A d \in Forms \ {c} : form'[d] = form[d]

FormGoes(c, step, e, k) ==
    /\ OnlyForm(c)
    /\ form'[c].at = step /\ form'[c].email = e /\ form'[c].code = k

\* The request ends.
FormEnds(c) == FormGoes(c, "idle", NoOne, 0)

LEMMA FormSet ==
    ASSUME EmailTypeOK, NEW c \in Forms, NEW q \in Form, form' = [form EXCEPT ![c] = q]
    PROVE  FormGoes(c, q.at, q.email, q.code)
  BY DEF EmailTypeOK, FormGoes, OnlyForm

LEMMA BlankIs == Blank \in Form /\ Blank.at = "idle" /\ Blank.email = NoOne /\ Blank.code = 0
  BY EmailLimitsAssumption DEF Blank, Form, FormSteps

LEMMA FormTurned ==
    ASSUME EmailTypeOK, NEW c \in Forms, NEW step \in FormSteps, Turn(c, step)
    PROVE  FormGoes(c, step, form[c].email, form[c].code)
<1> DEFINE q == [form[c] EXCEPT !.at = step]
<1>1. form[c] \in Form /\ form' = [form EXCEPT ![c] = q]
  BY DEF EmailTypeOK, Turn
<1>2. q \in Form /\ q.at = step /\ q.email = form[c].email /\ q.code = form[c].code
  BY <1>1 DEF Form
<1> QED
  BY <1>1, <1>2, FormSet

LEMMA FormClosed ==
    ASSUME EmailTypeOK, NEW c \in Forms, Close(c) PROVE FormEnds(c)
  BY BlankIs, FormSet DEF Close, FormEnds

LEMMA FormFilled ==
    ASSUME EmailTypeOK, NEW c \in Forms,
           NEW op \in {"none", "forgot", "send", "reset", "register", "confirm"},
           NEW step \in FormSteps, NEW e \in Emails, NEW k \in 0..MaxCodes,
           NEW u \in Users \cup {NoOne}, Fill(c, op, step, e, k, u)
    PROVE  FormGoes(c, step, e, k) /\ Step(c, "idle")
<1> DEFINE q == [op |-> op, at |-> step, email |-> e, code |-> k, user |-> u]
<1>1. form' = [form EXCEPT ![c] = q] /\ q \in Form
  BY DEF Fill, Form
<1>2. q.at = step /\ q.email = e /\ q.code = k
  OBVIOUS
<1> HIDE DEF q
<1> QED
  BY <1>1, <1>2, FormSet, BlankIs DEF Fill, Step

\* The requests for a forgotten password, up to the code.
LEMMA ForgotGoes ==
    ASSUME EmailTypeOK, FormsOK, NEW c \in Forms
    PROVE  /\ \A e \in Emails : Forgot(c, e) => FormGoes(c, "rate", e, 0) /\ Step(c, "idle")
           /\ Rate(c) => /\ form[c].email \in Emails
                         /\ Creates(tries[form[c].email])
                               => FormGoes(c, "expire", form[c].email, form[c].code)
                         /\ \/ FormEnds(c)
                            \/ \E step \in {"expire", "store"} :
                                   FormGoes(c, step, form[c].email, form[c].code)
           /\ RateExpire(c) => /\ form[c].email \in Emails
                               /\ \/ FormEnds(c)
                                  \/ FormGoes(c, "store", form[c].email, form[c].code)
           /\ ForgotRefused(c) \/ ForgotMail(c) \/ ForgotUnstore(c) => FormEnds(c)
           /\ ForgotStore(c) => FormGoes(c, "mail", form[c].email, issued')
           /\ MailFails(c) => FormGoes(c, "unstore", form[c].email, form[c].code)
<1>0. {"rate", "expire", "store", "mail", "unstore"} \subseteq FormSteps /\ 0 \in 0..MaxCodes
  BY EmailLimitsAssumption DEF FormSteps
<1>1. ASSUME NEW e \in Emails, Forgot(c, e) PROVE FormGoes(c, "rate", e, 0) /\ Step(c, "idle")
  BY <1>0, <1>1, FormFilled DEF Forgot
<1>2. ASSUME Rate(c)
      PROVE  /\ form[c].email \in Emails
             /\ Creates(tries[form[c].email])
                   => FormGoes(c, "expire", form[c].email, form[c].code)
             /\ \/ FormEnds(c)
                \/ \E step \in {"expire", "store"} :
                       FormGoes(c, step, form[c].email, form[c].code)
  <2> DEFINE creates == Creates(tries[form[c].email])
             within == Incr(tries[form[c].email], MailLimit + 1).value <= MailLimit
  <2>1. /\ Step(c, "rate")
        /\ CASE creates -> Turn(c, "expire")
             [] ~creates /\ within -> Turn(c, "store")
             [] OTHER -> Close(c)
    BY <1>2 DEF Rate
  <2> HIDE DEF creates, within
  <2>2. /\ creates => Turn(c, "expire")
        /\ Turn(c, "expire") \/ Turn(c, "store") \/ Close(c)
    BY <2>1
  <2>3. form[c].email \in Emails
    BY <2>1 DEF FormsOK, Step
  <2>4. /\ Turn(c, "expire") => FormGoes(c, "expire", form[c].email, form[c].code)
        /\ Turn(c, "store") => FormGoes(c, "store", form[c].email, form[c].code)
        /\ Close(c) => FormEnds(c)
    BY <1>0, FormTurned, FormClosed
  <2> QED
    BY <2>2, <2>3, <2>4 DEF creates
<1>3. RateExpire(c) => /\ form[c].email \in Emails
                       /\ \/ FormEnds(c)
                          \/ FormGoes(c, "store", form[c].email, form[c].code)
  BY <1>0, FormTurned, FormClosed DEF RateExpire, FormsOK, Step
<1>4. ForgotRefused(c) \/ ForgotMail(c) \/ ForgotUnstore(c) => FormEnds(c)
  BY FormClosed DEF ForgotRefused, ForgotMail, ForgotUnstore
<1>5. ASSUME ForgotStore(c) PROVE FormGoes(c, "mail", form[c].email, issued')
  <2> DEFINE q == [form[c] EXCEPT !.at = "mail", !.code = issued']
  <2>1. form' = [form EXCEPT ![c] = q] /\ form[c] \in Form /\ issued' \in 0..MaxCodes
    BY <1>5, EmailLimitsAssumption DEF ForgotStore, EmailTypeOK
  <2>2. q \in Form /\ q.at = "mail" /\ q.email = form[c].email /\ q.code = issued'
    BY <2>1, <1>0 DEF Form
  <2> QED
    BY <2>1, <2>2, FormSet
<1>6. MailFails(c) => FormGoes(c, "unstore", form[c].email, form[c].code)
  BY <1>0, FormTurned DEF MailFails
<1> QED
  BY <1>1, <1>2, <1>3, <1>4, <1>5, <1>6

\* The requests with a code, and the failures.
LEMMA CodeGoes ==
    ASSUME EmailTypeOK, FormsOK, NEW c \in Forms
    PROVE  /\ \A e \in Emails :
                 /\ Reset(c, e) => FormGoes(c, "delete", e, stored["reset"][e]) /\ Step(c, "idle")
                 /\ SendMail(c, e) => FormGoes(c, "keep", e, issued') /\ Step(c, "idle")
                 /\ \A u \in Users :
                       Register(c, e, u) \/ ConfirmEmail(c, e, u) =>
                           /\ Step(c, "idle")
                           /\ \E step \in {"create", "change"} :
                                  FormGoes(c, step, e, stored["verify"][e])
           /\ ResetDelete(c) => FormGoes(c, "update", form[c].email, form[c].code)
           /\ ResetUpdate(c) \/ SendKeep(c) \/ TakeAddress(c) => FormEnds(c)
           /\ FormAborts(c) => \/ FormEnds(c)
                               \/ /\ form[c].at \in {"rate", "expire"}
                                  /\ FormGoes(c, "store", form[c].email, form[c].code)
<1>0. {"delete", "keep", "create", "change", "update", "store"} \subseteq FormSteps
  BY DEF FormSteps
<1>1. ASSUME NEW e \in Emails
      PROVE  /\ Reset(c, e) => FormGoes(c, "delete", e, stored["reset"][e]) /\ Step(c, "idle")
             /\ SendMail(c, e) => FormGoes(c, "keep", e, issued') /\ Step(c, "idle")
             /\ \A u \in Users :
                   Register(c, e, u) \/ ConfirmEmail(c, e, u) =>
                       /\ Step(c, "idle")
                       /\ \E step \in {"create", "change"} :
                              FormGoes(c, step, e, stored["verify"][e])
  <2>1. stored["reset"][e] \in 0..MaxCodes /\ stored["verify"][e] \in 0..MaxCodes
    BY DEF EmailTypeOK, Kinds
  <2>2. SendMail(c, e) => issued' \in 0..MaxCodes
    BY EmailLimitsAssumption DEF SendMail, EmailTypeOK
  <2> QED
    BY <1>0, <2>1, <2>2, FormFilled DEF Reset, SendMail, Register, ConfirmEmail, Verified
<1>2. ResetDelete(c) => FormGoes(c, "update", form[c].email, form[c].code)
  BY <1>0, FormTurned DEF ResetDelete
<1>3. ResetUpdate(c) \/ SendKeep(c) \/ TakeAddress(c) => FormEnds(c)
  BY FormClosed DEF ResetUpdate, SendKeep, TakeAddress
<1>4. FormAborts(c) => \/ FormEnds(c)
                       \/ /\ form[c].at \in {"rate", "expire"}
                          /\ FormGoes(c, "store", form[c].email, form[c].code)
  BY <1>0, FormTurned, FormClosed DEF FormAborts
<1> QED
  BY <1>1, <1>2, <1>3, <1>4

-----------------------------------------------------------------------------
(***************************************************************************)
(* A step is one request's, or a key's that expires.                       *)
(***************************************************************************)
FormStep(c) ==
    \/ Rate(c) \/ RateExpire(c)
    \/ ForgotRefused(c) \/ ForgotStore(c) \/ ForgotMail(c) \/ ForgotUnstore(c)
    \/ ResetDelete(c) \/ ResetUpdate(c)
    \/ SendKeep(c) \/ TakeAddress(c)
    \/ MailFails(c) \/ FormAborts(c)
    \/ \E e \in Emails :
          \/ Forgot(c, e) \/ Reset(c, e) \/ SendMail(c, e)
          \/ \E u \in Users : Register(c, e, u) \/ ConfirmEmail(c, e, u)

KeyStep(e) == RateKeyExpires(e) \/ \E kind \in Kinds : CodeExpires(kind, e)

LEMMA OneFormSteps ==
    [EmailNext]_emailVars =>
        \/ \E c \in Forms : FormStep(c)
        \/ \E e \in Emails : KeyStep(e)
        \/ UNCHANGED emailVars
  BY DEF EmailNext, FormStep, KeyStep

LEMMA FormStepIsOne ==
    ASSUME EmailTypeOK, FormsOK, NEW c \in Forms, FormStep(c) PROVE OnlyForm(c)
<1> USE DEF FormGoes, FormEnds
<1>1. CASE Rate(c) \/ RateExpire(c)
  BY <1>1, ForgotGoes
<1>2. CASE ForgotRefused(c) \/ ForgotStore(c) \/ ForgotMail(c) \/ ForgotUnstore(c) \/ MailFails(c)
  BY <1>2, ForgotGoes
<1>3. CASE ResetDelete(c) \/ ResetUpdate(c) \/ SendKeep(c) \/ TakeAddress(c) \/ FormAborts(c)
  BY <1>3, CodeGoes
<1>4. ASSUME NEW e \in Emails, Forgot(c, e) PROVE OnlyForm(c)
  BY <1>4, ForgotGoes
<1>5. ASSUME NEW e \in Emails,
             \/ Reset(c, e) \/ SendMail(c, e)
             \/ \E u \in Users : Register(c, e, u) \/ ConfirmEmail(c, e, u)
      PROVE  OnlyForm(c)
  BY <1>5, CodeGoes
<1> QED
  BY <1>1, <1>2, <1>3, <1>4, <1>5 DEF FormStep

\* The keys.
LEMMA CounterMoves ==
    ASSUME NEW counter \in Counter(MailLimit + 1)
    PROVE  /\ Incr(counter, MailLimit + 1) \in Counter(MailLimit + 1)
           /\ Incr(counter, MailLimit + 1).expires = counter.expires
           /\ Armed(counter) \in Counter(MailLimit + 1)
           /\ Armed(counter).value = counter.value
           /\ Armed(counter).expires = (counter.value > 0)
           /\ Zero \in Counter(MailLimit + 1)
           /\ Zero.value = 0
<1>1. MailLimit + 1 \in Nat /\ counter.value \in 0..(MailLimit + 1) /\ counter.expires \in BOOLEAN
      /\ counter = [value |-> counter.value, expires |-> counter.expires]
  BY EmailLimitsAssumption DEF Counter
<1>2. PICK n \in 0..(MailLimit + 1) : n = IF counter.value < MailLimit + 1 THEN counter.value + 1 ELSE counter.value
  BY <1>1
<1>3. Incr(counter, MailLimit + 1) = [counter EXCEPT !.value = n]
  BY <1>2 DEF Incr
<1>4. (counter.value > 0) \in BOOLEAN
  BY <1>1
<1>5. Armed(counter) = [counter EXCEPT !.expires = (counter.value > 0)]
  BY DEF Armed
<1>6. Zero \in Counter(MailLimit + 1) /\ Zero.value = 0
  BY <1>1 DEF Counter, Zero
<1>7. [counter EXCEPT !.value = n] \in Counter(MailLimit + 1)
      /\ [counter EXCEPT !.value = n].expires = counter.expires
  BY <1>1 DEF Counter
<1>8. [counter EXCEPT !.expires = (counter.value > 0)] \in Counter(MailLimit + 1)
      /\ [counter EXCEPT !.expires = (counter.value > 0)].value = counter.value
      /\ [counter EXCEPT !.expires = (counter.value > 0)].expires = (counter.value > 0)
  BY <1>1, <1>4 DEF Counter
<1> QED
  BY <1>3, <1>5, <1>6, <1>7, <1>8

LEMMA TriesKept ==
    ASSUME EmailTypeOK, FormsOK, RateKeysGoAway, NEW c \in Forms, FormStep(c)
    PROVE  tries' \in [Emails -> Counter(MailLimit + 1)] /\ RateKeysGoAway'
<1> USE DEF RateKeysGoAway, Step
<1>0. tries \in [Emails -> Counter(MailLimit + 1)]
  BY DEF EmailTypeOK
<1>1. CASE Rate(c)
  <2> DEFINE e == form[c].email
  <2>1. /\ e \in Emails
        /\ tries' = [tries EXCEPT ![e] = Incr(tries[e], MailLimit + 1)]
        /\ form[c].at = "rate" /\ OnlyForm(c)
        /\ Creates(tries[e]) => form'[c].at = "expire" /\ form'[c].email = e
        /\ UNCHANGED lost
    BY <1>1, ForgotGoes DEF Rate, emailHist, FormGoes, FormEnds
  <2>2. /\ tries' \in [Emails -> Counter(MailLimit + 1)]
        /\ tries'[e].expires = tries[e].expires
        /\ \A f \in Emails \ {e} : tries'[f] = tries[f]
    BY <1>0, <2>1, CounterMoves
  <2>3. \A d \in Forms : form[d].at = "expire" => form'[d] = form[d]
    BY <2>1 DEF OnlyForm
  <2>4. tries[e].value = 0 \/ tries[e].value > 0
    BY <1>0, <2>1, EmailLimitsAssumption DEF Counter
  <2>5. tries[e].value = 0 => form'[c].at = "expire" /\ form'[c].email = e
    BY <2>1 DEF Creates
  <2> HIDE DEF e
  <2> QED
    BY <2>1, <2>2, <2>3, <2>4, <2>5
<1>2. CASE RateExpire(c)
  <2> DEFINE e == form[c].email
  <2>1. /\ e \in Emails
        /\ tries' = [tries EXCEPT ![e] = Armed(tries[e])]
        /\ OnlyForm(c)
        /\ UNCHANGED lost
    BY <1>2, ForgotGoes DEF RateExpire, emailHist, FormGoes, FormEnds
  <2>2. /\ tries' \in [Emails -> Counter(MailLimit + 1)]
        /\ tries'[e].expires = (tries'[e].value > 0)
        /\ \A f \in Emails \ {e} : tries'[f] = tries[f]
    BY <1>0, <2>1, CounterMoves
  <2>3. \A d \in Forms : form[d].email # e => form'[d] = form[d]
    BY <2>1 DEF OnlyForm
  <2>4. \A f \in Emails \ {e} : tries'[f] = tries[f]
    BY <2>2
  <2> HIDE DEF e
  <2>5. ASSUME NEW f \in Emails, f # e, tries'[f].value > 0
        PROVE  \/ tries'[f].expires \/ f \in lost'
               \/ \E d \in Forms : form'[d].at = "expire" /\ form'[d].email = f
    BY <2>1, <2>3, <2>4, <2>5
  <2> QED
    BY <2>1, <2>2, <2>5
<1>3. CASE FormAborts(c)
  <2>1. /\ OnlyForm(c) /\ UNCHANGED tries /\ lost \subseteq lost'
        /\ form[c].at = "expire" => form[c].email \in lost'
    BY <1>3, CodeGoes DEF FormAborts, FormGoes, FormEnds
  <2>2. \A d \in Forms \ {c} : form'[d] = form[d]
    BY <2>1 DEF OnlyForm
  <2> QED
    BY <1>0, <2>1, <2>2
<1>4. CASE FormStep(c) /\ ~Rate(c) /\ ~RateExpire(c) /\ ~FormAborts(c)
  <2>1. UNCHANGED <<tries, lost>>
    BY <1>4 DEF FormStep, emailHist,
       Forgot, ForgotRefused, ForgotStore, ForgotMail, ForgotUnstore, Reset, ResetDelete, ResetUpdate,
       SendMail, SendKeep, Register, ConfirmEmail, Verified, TakeAddress, MailFails
  <2>3. OnlyForm(c)
    BY FormStepIsOne
  <2>2. form[c].at # "expire"
    BY <1>4, BlankIs DEF FormStep, Forgot, ForgotRefused, ForgotStore, ForgotMail, ForgotUnstore,
       Reset, ResetDelete, ResetUpdate, SendMail, SendKeep, Register, ConfirmEmail, Verified,
       TakeAddress, MailFails, Fill
  <2> QED
    BY <1>0, <2>1, <2>2, <2>3 DEF OnlyForm
<1> QED
  BY <1>1, <1>2, <1>3, <1>4

LEMMA TriesExpire ==
    ASSUME EmailTypeOK, RateKeysGoAway, NEW e \in Emails, KeyStep(e)
    PROVE  tries' \in [Emails -> Counter(MailLimit + 1)] /\ RateKeysGoAway'
<1> USE DEF RateKeysGoAway, Step
<1>0. tries \in [Emails -> Counter(MailLimit + 1)]
  BY DEF EmailTypeOK
<1>1. CASE RateKeyExpires(e)
  BY <1>0, <1>1, CounterMoves DEF RateKeyExpires
<1>2. ASSUME NEW kind \in Kinds, CodeExpires(kind, e)
      PROVE  tries' \in [Emails -> Counter(MailLimit + 1)] /\ RateKeysGoAway'
  BY <1>0, <1>2 DEF CodeExpires
<1> QED
  BY <1>1, <1>2 DEF KeyStep

\* The codes.
LEMMA CodeWritten ==
    ASSUME EmailTypeOK, NEW kind \in Kinds, NEW e \in Emails, NEW k \in 0..MaxCodes, Write(kind, e, k)
    PROVE  /\ stored' \in [Kinds -> [Emails -> 0..MaxCodes]]
           /\ stored'[kind][e] = k
           /\ \A other \in Kinds, f \in Emails :
                 other # kind \/ f # e => stored'[other][f] = stored[other][f]
  BY DEF EmailTypeOK, Write

LEMMA KindsAre == "reset" \in Kinds /\ "verify" \in Kinds
  BY DEF Kinds

-----------------------------------------------------------------------------
(***************************************************************************)
(* The uses of the reset codes.                                            *)
(***************************************************************************)

\* Requests only leave the steps that hold a code, and no code is made or used.
UsesRest ==
    /\ UNCHANGED <<issued, uses, raced>>
    /\ \A kind \in Kinds, e \in Emails : stored'[kind][e] \in 0..issued
    /\ \A e \in Emails : stored'["reset"][e] \in {0, stored["reset"][e]}
    /\ \A d \in Forms :
          /\ form'[d].at # "idle" => form'[d].email \in Emails
          /\ Holding(d)' => /\ form'[d].email = form[d].email /\ form'[d].code = form[d].code
                            /\ Holding(d)
          /\ form'[d].at \in {"delete", "update"} => form'[d].at = form[d].at

LEMMA UsesKept ==
    ASSUME EmailTypeOK, UsesIInv, UsesRest PROVE UsesIInv'
<1> USE DEF UsesRest, UsesIInv, Step
<1>1. FormsOK' /\ CodesOK'
  BY DEF FormsOK, CodesOK, Issued
<1>2. \A d \in Forms : form'[d].at \in {"delete", "update"} =>
          form'[d].at = form[d].at /\ form'[d].email = form[d].email /\ form'[d].code = form[d].code
  BY DEF Holding
<1>3. StoredOnce'
  <2>1. ASSUME NEW e \in Emails, NEW f \in Emails, stored'["reset"][e] = stored'["reset"][f]
        PROVE  e = f \/ stored'["reset"][e] = 0
    BY <2>1 DEF StoredOnce
  <2>2. ASSUME NEW c \in Forms, NEW e \in Emails, stored'["reset"][e] = form'[c].code
        PROVE  /\ form'[c].at = "delete" => e = form'[c].email
               /\ form'[c].at # "update"
    <3> SUFFICES ASSUME form'[c].at \in {"delete", "update"}
                 PROVE  form'[c].at = "delete" /\ e = form'[c].email
      OBVIOUS
    <3>1. form'[c].at = form[c].at /\ form'[c].email = form[c].email /\ form'[c].code = form[c].code
      BY <1>2
    <3>2. form[c].code # 0
      BY <3>1 DEF FormsOK, Holding, Issued
    <3>3. stored["reset"][e] = form[c].code
      BY <2>2, <3>1, <3>2
    <3> QED
      BY <3>1, <3>3 DEF StoredOnce
  <2>3. \A e \in Emails : stored'["reset"][e] # 0 => uses[stored'["reset"][e]] = 0
    BY DEF StoredOnce
  <2> QED
    BY <2>1, <2>2, <2>3 DEF StoredOnce
<1>4. OneResets'
  BY <1>2 DEF OneResets, Redeeming
<1>5. OneUsePerCode'
  BY DEF OneUsePerCode
<1> QED
  BY <1>1, <1>3, <1>4, <1>5

\* A new code is no other request's, and is not stored anywhere yet.
LEMMA UsesIssue ==
    ASSUME EmailTypeOK, UsesIInv, NEW c \in Forms, NEW kind \in Kinds, NEW e \in Emails,
           issued < MaxCodes, issued' = issued + 1, UNCHANGED <<uses, raced>>,
           FormGoes(c, IF kind = "reset" THEN "mail" ELSE "keep", e, issued'),
           IF kind = "reset" THEN Write("reset", e, issued') ELSE UNCHANGED stored
    PROVE  UsesIInv'
<1> USE EmailLimitsAssumption, KindsAre DEF UsesIInv, Step
<1>1. issued \in Nat /\ issued' \in 0..MaxCodes /\ issued' # 0 /\ issued' \notin 0..issued
      /\ 0..issued \subseteq 0..issued' /\ issued' \in 1..issued' /\ 1..issued \subseteq 1..issued'
  BY DEF EmailTypeOK
<1>2. /\ form'[c].at \in {"mail", "keep"} /\ form'[c].email = e /\ form'[c].code = issued'
      /\ \A d \in Forms \ {c} : form'[d] = form[d]
  BY DEF FormGoes, OnlyForm
<1>3. /\ stored'["reset"][e] \in {issued', stored["reset"][e]}
      /\ \A k \in Kinds, f \in Emails : stored'[k][f] \in 0..issued'
      /\ \A f \in Emails \ {e} : stored'["reset"][f] = stored["reset"][f]
      /\ \A f \in Emails : stored["reset"][f] \in 0..issued
  <2>1. \A k \in Kinds, f \in Emails : stored[k][f] \in 0..issued
    BY DEF CodesOK
  <2>2. CASE kind = "reset"
    BY <1>1, <2>1, <2>2, CodeWritten
  <2>3. CASE kind # "reset"
    BY <1>1, <2>1, <2>3
  <2> QED
    BY <2>2, <2>3
<1>4. FormsOK' /\ CodesOK'
  BY <1>1, <1>2, <1>3 DEF FormsOK, CodesOK, Issued, Holding
<1>5. \A d \in Forms : form'[d].at \in {"delete", "update"} =>
          d # c /\ form'[d] = form[d] /\ form[d].code \in 0..issued
  BY <1>2 DEF FormsOK, Holding, Issued
<1>6. StoredOnce'
  <2>1. ASSUME NEW f \in Emails, NEW g \in Emails, stored'["reset"][f] = stored'["reset"][g]
        PROVE  f = g \/ stored'["reset"][f] = 0
    BY <1>1, <1>3, <2>1 DEF StoredOnce
  <2>2. ASSUME NEW d \in Forms, NEW f \in Emails, stored'["reset"][f] = form'[d].code,
               form'[d].at \in {"delete", "update"}
        PROVE  form'[d].at = "delete" /\ f = form'[d].email
    BY <1>1, <1>3, <1>5, <2>2 DEF StoredOnce
  <2>3. ASSUME NEW f \in Emails, stored'["reset"][f] # 0 PROVE uses[stored'["reset"][f]] = 0
    <3>1. CASE stored'["reset"][f] = stored["reset"][f]
      BY <2>3, <3>1 DEF StoredOnce
    <3>2. CASE stored'["reset"][f] = issued'
      <4>1. issued' \in Codes /\ issued' \notin Issued
        BY <1>1 DEF Codes, Issued
      <4> QED
        BY <3>2, <4>1 DEF CodesOK, EmailTypeOK
    <3> QED
      BY <1>3, <3>1, <3>2
  <2> QED
    BY <2>1, <2>2, <2>3 DEF StoredOnce
<1>7. OneResets'
  BY <1>5 DEF OneResets, Redeeming
<1>8. OneUsePerCode'
  BY DEF OneUsePerCode
<1> QED
  BY <1>4, <1>6, <1>7, <1>8

LEMMA UsesReset ==
    ASSUME EmailTypeOK, UsesIInv, NEW c \in Forms, NEW e \in Emails, Reset(c, e)
    PROVE  UsesIInv'
<1> USE DEF UsesIInv, Step
<1> DEFINE k == stored["reset"][e]
<1>1. /\ form'[c].at = "delete" /\ form'[c].email = e /\ form'[c].code = k
      /\ \A d \in Forms \ {c} : form'[d] = form[d]
      /\ form[c].at = "idle"
  BY CodeGoes DEF FormGoes, OnlyForm
<1>2. k # 0 /\ k \in Issued /\ uses[k] = 0
  BY KindsAre DEF Reset, CodesOK, Issued, StoredOnce
<1>3. UNCHANGED <<stored, issued, uses>> /\ raced \subseteq raced'
      /\ \A d \in Forms : form[d].at = "delete" /\ form[d].code = k => k \in raced'
  BY DEF Reset
<1>4. FormsOK' /\ CodesOK'
  BY <1>1, <1>2, <1>3 DEF FormsOK, CodesOK, Holding, Issued
<1>5. \A f \in Emails : stored["reset"][f] = k => f = e
  BY <1>2 DEF StoredOnce
<1>6. StoredOnce'
  BY <1>1, <1>3, <1>5 DEF StoredOnce
<1>7. \A d \in Forms : form[d].at = "update" => form[d].code # k
  BY DEF StoredOnce
<1>8. OneResets'
  <2> SUFFICES ASSUME NEW b \in Forms, form'[b].at \in {"delete", "update"}, form'[b].code \notin raced'
               PROVE  /\ uses[form'[b].code] = 0
                      /\ \A d \in Forms : form'[d].at \in {"delete", "update"}
                                          /\ form'[d].code = form'[b].code => d = b
    BY <1>3 DEF OneResets, Redeeming
  <2>1. CASE b = c
    <3>1. form'[b].code = k
      BY <1>1, <2>1
    <3>2. \A d \in Forms \ {c} : form[d].at \in {"delete", "update"} => form[d].code # k
      BY <1>3, <1>7, <3>1
    <3> QED
      BY <1>1, <1>2, <2>1, <3>1, <3>2
  <2>2. CASE b # c
    <3>1. form'[b] = form[b] /\ form[b].at \in {"delete", "update"} /\ form[b].code \notin raced
      BY <1>1, <1>3, <2>2
    <3>2. form[b].code # k
      BY <1>3, <1>7, <3>1
    <3>3. uses[form[b].code] = 0
          /\ \A d \in Forms : form[d].at \in {"delete", "update"} /\ form[d].code = form[b].code => d = b
      BY <3>1 DEF OneResets, Redeeming
    <3> QED
      BY <1>1, <3>1, <3>2, <3>3
  <2> QED
    BY <2>1, <2>2
<1>9. OneUsePerCode'
  BY <1>3 DEF OneUsePerCode
<1> QED
  BY <1>4, <1>6, <1>8, <1>9

LEMMA UsesDelete ==
    ASSUME EmailTypeOK, UsesIInv, NEW c \in Forms, ResetDelete(c)
    PROVE  UsesIInv'
<1> USE DEF UsesIInv, Step
<1> DEFINE e == form[c].email
           k == form[c].code
<1>1. /\ form'[c].at = "update" /\ form'[c].email = e /\ form'[c].code = k
      /\ \A d \in Forms \ {c} : form'[d] = form[d]
      /\ form[c].at = "delete" /\ e \in Emails /\ k \in Issued
  BY CodeGoes DEF FormGoes, OnlyForm, ResetDelete, FormsOK, Holding
<1>2. 0 \in 0..MaxCodes /\ 0 \in 0..issued /\ k # 0
  BY <1>1, EmailLimitsAssumption DEF EmailTypeOK, Issued
<1>3. /\ UNCHANGED <<issued, uses, raced>>
      /\ stored'["reset"][e] = 0
      /\ \A kind \in Kinds, f \in Emails : stored'[kind][f] \in {0, stored[kind][f]}
  BY <1>1, <1>2, CodeWritten, KindsAre DEF ResetDelete, emailHist
<1>4. FormsOK' /\ CodesOK'
  BY <1>1, <1>2, <1>3 DEF FormsOK, CodesOK, Holding, Issued
<1>5. \A d \in Forms : /\ form'[d].code = form[d].code /\ form'[d].email = form[d].email
                       /\ form'[d].at # form[d].at => d = c
                       /\ form'[d].at \in {"delete", "update"} <=> form[d].at \in {"delete", "update"}
  BY <1>1
<1>6. \A f \in Emails : stored["reset"][f] = k => f = e
  BY <1>1 DEF StoredOnce
<1>7. \A f \in Emails : stored'["reset"][f] # k
  BY <1>2, <1>3, <1>6, KindsAre
<1>8. StoredOnce'
  <2>1. ASSUME NEW f \in Emails, NEW g \in Emails, stored'["reset"][f] = stored'["reset"][g]
        PROVE  f = g \/ stored'["reset"][f] = 0
    BY <1>3, <2>1, KindsAre DEF StoredOnce
  <2>2. ASSUME NEW d \in Forms, NEW f \in Emails, stored'["reset"][f] = form'[d].code,
               form'[d].at \in {"delete", "update"}
        PROVE  form'[d].at = "delete" /\ f = form'[d].email
    <3>1. d # c
      BY <1>1, <1>7, <2>2
    <3>2. form'[d] = form[d] /\ form[d].code # 0
      BY <1>1, <2>2, <3>1 DEF FormsOK, Holding, Issued
    <3>3. stored["reset"][f] = form[d].code
      BY <1>3, <2>2, <3>2, KindsAre
    <3> QED
      BY <2>2, <3>2, <3>3 DEF StoredOnce
  <2>3. \A f \in Emails : stored'["reset"][f] # 0 => uses[stored'["reset"][f]] = 0
    BY <1>3, KindsAre DEF StoredOnce
  <2> QED
    BY <1>3, <2>1, <2>2, <2>3 DEF StoredOnce
<1>9. OneResets'
  BY <1>3, <1>5 DEF OneResets, Redeeming
<1>10. OneUsePerCode'
  BY <1>3 DEF OneUsePerCode
<1> QED
  BY <1>4, <1>8, <1>9, <1>10

LEMMA UsesUpdate ==
    ASSUME EmailTypeOK, UsesIInv, NEW c \in Forms, ResetUpdate(c)
    PROVE  UsesIInv'
<1> USE DEF UsesIInv, Step
<1> DEFINE k == form[c].code
<1>1. /\ form'[c].at = "idle" /\ form[c].at = "update" /\ k \in Issued
      /\ \A d \in Forms \ {c} : form'[d] = form[d]
  BY CodeGoes DEF FormGoes, FormEnds, OnlyForm, ResetUpdate, FormsOK, Holding
<1>2. k \in Codes /\ uses \in [Codes -> 0..2]
  BY <1>1, EmailLimitsAssumption DEF EmailTypeOK, Issued, Codes
<1>3. UNCHANGED <<stored, issued, raced>>
  BY DEF ResetUpdate
<1>13. uses' = uses \/ uses' = [uses EXCEPT ![k] = uses[k] + 1]
  BY DEF ResetUpdate
<1>4. \A f \in Emails : stored["reset"][f] # k
  BY <1>1 DEF StoredOnce
<1>5. /\ \A j \in Codes \ {k} : uses'[j] = uses[j]
      /\ uses'[k] > 1 => uses[k] > 0
      /\ uses[k] \in 0..2
  BY <1>2, <1>13
<1>6. \A d \in Forms : form'[d].at # "idle" => d # c /\ form'[d] = form[d]
  BY <1>1
<1>7. FormsOK'
  BY <1>3, <1>6 DEF FormsOK, Holding, Issued
<1>8. CodesOK'
  BY <1>1, <1>3, <1>5 DEF CodesOK, Issued
<1>9. StoredOnce'
  <2>1. \A e \in Emails : stored["reset"][e] # 0 => stored["reset"][e] \in Codes
    BY KindsAre DEF EmailTypeOK, Codes
  <2>2. \A e \in Emails : stored["reset"][e] # 0 => uses'[stored["reset"][e]] = 0
    BY <1>4, <1>5, <2>1 DEF StoredOnce
  <2> QED
    BY <1>3, <1>6, <2>2 DEF StoredOnce
<1>10. k \in raced \/ (uses[k] = 0 /\ \A d \in Forms : Redeeming(d) /\ form[d].code = k => d = c)
  BY <1>1 DEF OneResets, Redeeming
<1>11. OneResets'
  <2> SUFFICES ASSUME NEW b \in Forms, form'[b].at \in {"delete", "update"}, form'[b].code \notin raced
               PROVE  /\ uses'[form'[b].code] = 0
                      /\ \A d \in Forms : form'[d].at \in {"delete", "update"}
                                          /\ form'[d].code = form'[b].code => d = b
    BY <1>3 DEF OneResets, Redeeming
  <2>1. b # c /\ form'[b] = form[b]
    BY <1>6
  <2>2. uses[form[b].code] = 0
        /\ \A d \in Forms : Redeeming(d) /\ form[d].code = form[b].code => d = b
    BY <2>1 DEF OneResets, Redeeming
  <2>3. form[b].code # k
    BY <1>1, <2>1, <2>2 DEF Redeeming
  <2>4. form[b].code \in Codes
    BY <2>1, EmailLimitsAssumption DEF FormsOK, Holding, Issued, Codes, EmailTypeOK
  <2>5. uses'[form[b].code] = 0
    BY <1>5, <2>2, <2>3, <2>4
  <2> QED
    BY <1>6, <2>1, <2>2, <2>5 DEF Redeeming
<1>12. OneUsePerCode'
  <2> SUFFICES ASSUME NEW j \in Codes, uses'[j] > 1 PROVE j \in raced
    BY <1>3 DEF OneUsePerCode
  <2>1. CASE j = k
    BY <1>5, <1>10, <2>1
  <2>2. CASE j # k
    BY <1>5, <2>2 DEF OneUsePerCode
  <2> QED
    BY <2>1, <2>2
<1> QED
  BY <1>7, <1>8, <1>9, <1>11, <1>12

-----------------------------------------------------------------------------
(***************************************************************************)
(* The codes in the last mails.                                            *)
(***************************************************************************)
Watching == {"mail", "unstore", "delete", "keep"}

\* Nothing is mailed; what is no longer stored or no longer awaited is void.
MailsRest ==
    /\ UNCHANGED newest /\ void \subseteq void'
    /\ \A kind \in Kinds, e \in Emails :
          \/ stored'[kind][e] = stored[kind][e]
          \/ stored'[kind][e] = 0 /\ stored[kind][e] \in void'
    /\ \A d \in Forms :
          /\ form'[d].at \in Watching =>
                \/ /\ form'[d].at = form[d].at
                   /\ form'[d].email = form[d].email /\ form'[d].code = form[d].code
                \/ form'[d].at = "delete" /\ form'[d].code = stored'["reset"][form'[d].email]
          /\ form[d].at = "mail" /\ form'[d].at # "mail" => newest["reset"][form[d].email] \in void'
          /\ form[d].at = "keep" /\ form'[d].at # "keep" => form[d].code \in void'

LEMMA MailsKept ==
    ASSUME EmailTypeOK, FormsOK, MailsIInv, MailsRest PROVE MailsIInv'
<1> USE DEF MailsIInv, MailsRest, Step
<1>0. \A d \in Forms : form[d].at \in Watching => form[d].email \in Emails /\ form[d].code # 0
  BY DEF FormsOK, Holding, Issued, Watching
<1>1. MailsWatched'
  <2> SUFFICES ASSUME NEW c \in Forms, form'[c].at \in Watching
               PROVE  LET e == form'[c].email
                          k == form'[c].code
                      IN
                      /\ form'[c].at = "mail" => k \in void' \/ stored'["reset"][e] = k
                      /\ form'[c].at = "unstore" =>
                            /\ newest["reset"][e] \in void'
                            /\ \A d \in Forms : form'[d].at = "mail" /\ form'[d].email = e
                                                => form'[d].code \in void'
                      /\ form'[c].at = "delete" => stored'["reset"][e] \in {0, k} \cup void'
                      /\ form'[c].at = "keep" => newest["verify"][e] \in {k} \cup void'
    BY DEF MailsWatched, Watching
  <2>1. CASE form'[c].at = "delete" /\ form'[c].code = stored'["reset"][form'[c].email]
    BY <2>1
  <2>2. CASE /\ form'[c].at = form[c].at
             /\ form'[c].email = form[c].email /\ form'[c].code = form[c].code
    <3> DEFINE e == form[c].email
               k == form[c].code
    <3>1. e \in Emails /\ k # 0
      BY <1>0, <2>2
    <3>2. /\ stored'["reset"][e] = stored["reset"][e]
             \/ (stored'["reset"][e] = 0 /\ stored["reset"][e] \in void')
      BY <3>1, KindsAre
    <3>3. form[c].at = "mail" => k \in void' \/ stored'["reset"][e] = k
      BY <3>2 DEF MailsWatched
    <3>4. form[c].at = "unstore" =>
              /\ newest["reset"][e] \in void'
              /\ \A d \in Forms : form'[d].at = "mail" /\ form'[d].email = e => form'[d].code \in void'
      BY DEF MailsWatched, Watching
    <3>5. form[c].at = "delete" => stored'["reset"][e] \in {0, k} \cup void'
      BY <3>2 DEF MailsWatched
    <3>6. form[c].at = "keep" => newest["verify"][e] \in {k} \cup void'
      BY DEF MailsWatched
    <3> QED
      BY <2>2, <3>3, <3>4, <3>5, <3>6
  <2> QED
    BY <2>1, <2>2
<1>2. MailsFollow'
  <2> SUFFICES ASSUME NEW e \in Emails
               PROVE  /\ \/ newest["reset"][e] \in {0, stored'["reset"][e]} \cup void'
                         \/ \E c \in Forms : form'[c].at = "mail" /\ form'[c].email = e
                      /\ \/ newest["verify"][e] \in {0, stored'["verify"][e]} \cup void'
                         \/ \E c \in Forms : /\ form'[c].at = "keep" /\ form'[c].email = e
                                             /\ form'[c].code = newest["verify"][e]
    BY DEF MailsFollow
  <2>1. \A kind \in Kinds : stored'[kind][e] = stored[kind][e]
                           \/ (stored'[kind][e] = 0 /\ stored[kind][e] \in void')
    OBVIOUS
  <2>2. ASSUME NEW c \in Forms, form[c].at = "mail", form[c].email = e
        PROVE  newest["reset"][e] \in void' \/ (form'[c].at = "mail" /\ form'[c].email = e)
    BY <2>2 DEF Watching
  <2>3. ASSUME NEW c \in Forms, form[c].at = "keep", form[c].email = e, form[c].code = newest["verify"][e]
        PROVE  newest["verify"][e] \in void'
               \/ (form'[c].at = "keep" /\ form'[c].email = e /\ form'[c].code = newest["verify"][e])
    BY <2>3 DEF Watching
  <2>4. \/ newest["reset"][e] \in {0, stored["reset"][e]} \cup void
        \/ \E c \in Forms : form[c].at = "mail" /\ form[c].email = e
    BY DEF MailsFollow
  <2>5. \/ newest["verify"][e] \in {0, stored["verify"][e]} \cup void
        \/ \E c \in Forms : form[c].at = "keep" /\ form[c].email = e /\ form[c].code = newest["verify"][e]
    BY DEF MailsFollow
  <2>6. \/ newest["reset"][e] \in {0, stored'["reset"][e]} \cup void'
        \/ \E c \in Forms : form'[c].at = "mail" /\ form'[c].email = e
    BY <2>1, <2>2, <2>4, KindsAre
  <2>7. \/ newest["verify"][e] \in {0, stored'["verify"][e]} \cup void'
        \/ \E c \in Forms : /\ form'[c].at = "keep" /\ form'[c].email = e
                            /\ form'[c].code = newest["verify"][e]
    BY <2>1, <2>3, <2>5, KindsAre
  <2> QED
    BY <2>6, <2>7
<1> QED
  BY <1>1, <1>2

\* A new code overtakes those that are being sent to its address, and the other
\* way round.
LEMMA MailsStore ==
    ASSUME EmailTypeOK, FormsOK, MailsIInv, NEW c \in Forms, ForgotStore(c)
    PROVE  MailsIInv'
<1> USE DEF MailsIInv, Step
<1> DEFINE e == form[c].email
           k == issued'
           pending == Pending("reset", e)
<1>1. /\ form'[c].at = "mail" /\ form'[c].email = e /\ form'[c].code = k
      /\ \A d \in Forms \ {c} : form'[d] = form[d]
      /\ form[c].at = "store" /\ e \in Emails
  BY ForgotGoes DEF FormGoes, OnlyForm, ForgotStore, FormsOK
<1>2. k \in 0..MaxCodes
  BY EmailLimitsAssumption DEF ForgotStore, EmailTypeOK
<1>3. /\ stored'["reset"][e] = k
      /\ \A f \in Emails \ {e} : stored'["reset"][f] = stored["reset"][f]
      /\ \A f \in Emails : stored'["verify"][f] = stored["verify"][f]
  BY <1>1, <1>2, CodeWritten, KindsAre DEF ForgotStore
<1>4. /\ UNCHANGED newest /\ void \subseteq void'
      /\ pending # {} => k \in void'
      /\ \A d \in pending : form[d].code \in void'
  BY DEF ForgotStore
<1>5. \A d \in Forms \ {c} : form[d].at \in {"mail", "unstore", "delete"} /\ form[d].email = e =>
          form[d].code \in void' /\ k \in void'
  <2> SUFFICES ASSUME NEW d \in Forms, form[d].at \in {"mail", "unstore", "delete"}, form[d].email = e
               PROVE  d \in pending
    BY <1>4
  <2> QED
    BY DEF Pending
<1> HIDE DEF e, k, pending
<1>6. MailsWatched'
  <2>1. ASSUME NEW d \in Forms, form'[d].at = "mail"
        PROVE  form'[d].code \in void' \/ stored'["reset"][form'[d].email] = form'[d].code
    <3>1. CASE d = c
      BY <1>1, <1>3, <3>1
    <3>2. CASE d # c
      <4>1. form'[d] = form[d] /\ form[d].email \in Emails
        BY <1>1, <2>1, <3>2 DEF FormsOK
      <4> QED
        BY <1>3, <1>4, <1>5, <2>1, <3>2, <4>1 DEF MailsWatched
    <3> QED
      BY <3>1, <3>2
  <2>2. ASSUME NEW d \in Forms, form'[d].at = "unstore"
        PROVE  /\ newest["reset"][form'[d].email] \in void'
               /\ \A b \in Forms : form'[b].at = "mail" /\ form'[b].email = form'[d].email
                                  => form'[b].code \in void'
    <3>1. d # c /\ form'[d] = form[d]
      BY <1>1, <2>2
    <3>2. form'[c].email = form[d].email => form'[c].code \in void'
      BY <1>1, <1>5, <2>2, <3>1
    <3> QED
      BY <1>1, <1>4, <2>2, <3>1, <3>2 DEF MailsWatched
  <2>3. ASSUME NEW d \in Forms, form'[d].at = "delete"
        PROVE  stored'["reset"][form'[d].email] \in {0, form'[d].code} \cup void'
    <3>1. d # c /\ form'[d] = form[d] /\ form[d].email \in Emails
      BY <1>1, <2>3 DEF FormsOK
    <3> QED
      BY <1>3, <1>4, <1>5, <2>3, <3>1 DEF MailsWatched
  <2>4. ASSUME NEW d \in Forms, form'[d].at = "keep"
        PROVE  newest["verify"][form'[d].email] \in {form'[d].code} \cup void'
    BY <1>1, <1>4, <2>4 DEF MailsWatched
  <2> QED
    BY <1>4, <2>1, <2>2, <2>3, <2>4 DEF MailsWatched
<1>7. MailsFollow'
  <2>1. \A d \in Forms : form[d].at \in {"mail", "keep"} => form'[d] = form[d]
    BY <1>1
  <2>2. ASSUME NEW f \in Emails
        PROVE  \/ newest["reset"][f] \in {0, stored'["reset"][f]} \cup void'
               \/ \E d \in Forms : form'[d].at = "mail" /\ form'[d].email = f
    BY <1>1, <1>3, <1>4, <2>1 DEF MailsFollow
  <2>3. ASSUME NEW f \in Emails
        PROVE  \/ newest["verify"][f] \in {0, stored'["verify"][f]} \cup void'
               \/ \E d \in Forms : /\ form'[d].at = "keep" /\ form'[d].email = f
                                   /\ form'[d].code = newest["verify"][f]
    BY <1>3, <1>4, <2>1 DEF MailsFollow
  <2> QED
    BY <1>4, <2>2, <2>3 DEF MailsFollow
<1> QED
  BY <1>6, <1>7

\* The mail is sent: its code is the newest of the address.
IsMailed(kind, e, k) == newest' = [newest EXCEPT ![kind][e] = k]

LEMMA NewestMailed ==
    ASSUME EmailTypeOK, NEW kind \in Kinds, NEW e \in Emails, NEW k \in 0..MaxCodes,
           IsMailed(kind, e, k)
    PROVE  /\ newest' \in [Kinds -> [Emails -> 0..MaxCodes]]
           /\ newest'[kind][e] = k
           /\ \A other \in Kinds, f \in Emails :
                 other # kind \/ f # e => newest'[other][f] = newest[other][f]
  BY DEF EmailTypeOK, IsMailed

LEMMA MailsMail ==
    ASSUME EmailTypeOK, FormsOK, MailsIInv, NEW c \in Forms, ForgotMail(c)
    PROVE  MailsIInv'
<1> USE DEF MailsIInv, Step
<1> DEFINE e == form[c].email
           k == form[c].code
<1>1. /\ form'[c].at = "idle"
      /\ \A d \in Forms \ {c} : form'[d] = form[d]
      /\ form[c].at = "mail" /\ e \in Emails /\ k \in 0..MaxCodes
  BY ForgotGoes DEF FormGoes, FormEnds, OnlyForm, ForgotMail, FormsOK, EmailTypeOK, Form
<1>2. /\ newest'["reset"][e] = k
      /\ \A f \in Emails \ {e} : newest'["reset"][f] = newest["reset"][f]
      /\ \A f \in Emails : newest'["verify"][f] = newest["verify"][f]
  <2>1. IsMailed("reset", e, k)
    BY DEF ForgotMail, IsMailed
  <2> QED
    BY <1>1, <2>1, NewestMailed, KindsAre
<1>3. UNCHANGED <<stored, void>>
  BY DEF ForgotMail
<1>4. k \in void \/ stored["reset"][e] = k
  BY <1>1 DEF MailsWatched
<1>5. \A d \in Forms : form[d].at = "unstore" /\ form[d].email = e => k \in void
  BY <1>1 DEF MailsWatched
<1> HIDE DEF e, k
<1>6. \A d \in Forms : form'[d].at \in Watching =>
          d # c /\ form'[d] = form[d] /\ form[d].email \in Emails
  BY <1>1 DEF Watching, FormsOK
<1>7. MailsWatched'
  <2>1. ASSUME NEW d \in Forms, form'[d].at = "mail"
        PROVE  form'[d].code \in void \/ stored["reset"][form'[d].email] = form'[d].code
    BY <1>6, <2>1 DEF MailsWatched, Watching
  <2>2. ASSUME NEW d \in Forms, form'[d].at = "unstore"
        PROVE  /\ newest'["reset"][form'[d].email] \in void
               /\ \A b \in Forms : form'[b].at = "mail" /\ form'[b].email = form'[d].email
                                  => form'[b].code \in void
    <3>1. form'[d] = form[d] /\ form[d].email \in Emails
      BY <1>6, <2>2 DEF Watching
    <3>2. newest'["reset"][form[d].email] \in void
      BY <1>2, <1>5, <2>2, <3>1 DEF MailsWatched
    <3>3. \A b \in Forms : form'[b].at = "mail" => form'[b] = form[b]
      BY <1>6 DEF Watching
    <3> QED
      BY <2>2, <3>1, <3>2, <3>3 DEF MailsWatched
  <2>3. ASSUME NEW d \in Forms, form'[d].at = "delete"
        PROVE  stored["reset"][form'[d].email] \in {0, form'[d].code} \cup void
    BY <1>6, <2>3 DEF MailsWatched, Watching
  <2>4. ASSUME NEW d \in Forms, form'[d].at = "keep"
        PROVE  newest'["verify"][form'[d].email] \in {form'[d].code} \cup void
    BY <1>2, <1>6, <2>4 DEF MailsWatched, Watching
  <2> QED
    BY <1>3, <2>1, <2>2, <2>3, <2>4 DEF MailsWatched
<1>8. MailsFollow'
  <2>1. ASSUME NEW f \in Emails
        PROVE  \/ newest'["reset"][f] \in {0, stored["reset"][f]} \cup void
               \/ \E d \in Forms : form'[d].at = "mail" /\ form'[d].email = f
    <3>1. CASE f = e
      BY <1>2, <1>4, <3>1
    <3>2. CASE f # e
      <4>1. \A d \in Forms : form[d].email = f => form'[d] = form[d]
        BY <1>1, <3>2 DEF e
      <4> QED
        BY <1>2, <3>2, <4>1 DEF MailsFollow
    <3> QED
      BY <3>1, <3>2
  <2>2. ASSUME NEW f \in Emails
        PROVE  \/ newest'["verify"][f] \in {0, stored["verify"][f]} \cup void
               \/ \E d \in Forms : /\ form'[d].at = "keep" /\ form'[d].email = f
                                   /\ form'[d].code = newest'["verify"][f]
    <3>1. \A d \in Forms : form[d].at = "keep" => form'[d] = form[d]
      BY <1>1
    <3> QED
      BY <1>2, <3>1 DEF MailsFollow
  <2> QED
    BY <1>3, <2>1, <2>2 DEF MailsFollow
<1> QED
  BY <1>7, <1>8

LEMMA MailsUnstore ==
    ASSUME EmailTypeOK, FormsOK, MailsIInv, NEW c \in Forms, ForgotUnstore(c)
    PROVE  MailsIInv'
<1> USE DEF MailsIInv, Step
<1> DEFINE e == form[c].email
<1>1. /\ form'[c].at = "idle"
      /\ \A d \in Forms \ {c} : form'[d] = form[d]
      /\ form[c].at = "unstore" /\ e \in Emails
  BY ForgotGoes DEF FormGoes, FormEnds, OnlyForm, ForgotUnstore, FormsOK
<1>2. 0 \in 0..MaxCodes
  BY EmailLimitsAssumption
<1>3. /\ stored'["reset"][e] = 0
      /\ \A f \in Emails \ {e} : stored'["reset"][f] = stored["reset"][f]
      /\ \A f \in Emails : stored'["verify"][f] = stored["verify"][f]
  BY <1>1, <1>2, CodeWritten, KindsAre DEF ForgotUnstore
<1>4. UNCHANGED <<newest, void>>
  BY DEF ForgotUnstore, emailHist
<1>5. /\ newest["reset"][e] \in void
      /\ \A d \in Forms : form[d].at = "mail" /\ form[d].email = e => form[d].code \in void
  BY <1>1 DEF MailsWatched
<1> HIDE DEF e
<1>6. \A d \in Forms : form'[d].at \in Watching =>
          d # c /\ form'[d] = form[d] /\ form[d].email \in Emails
  BY <1>1 DEF Watching, FormsOK
<1>7. MailsWatched'
  <2>1. ASSUME NEW d \in Forms, form'[d].at = "mail"
        PROVE  form'[d].code \in void \/ stored'["reset"][form'[d].email] = form'[d].code
    BY <1>3, <1>5, <1>6, <2>1 DEF MailsWatched, Watching
  <2>2. ASSUME NEW d \in Forms, form'[d].at = "unstore"
        PROVE  /\ newest["reset"][form'[d].email] \in void
               /\ \A b \in Forms : form'[b].at = "mail" /\ form'[b].email = form'[d].email
                                  => form'[b].code \in void
    BY <1>6, <2>2 DEF MailsWatched, Watching
  <2>3. ASSUME NEW d \in Forms, form'[d].at = "delete"
        PROVE  stored'["reset"][form'[d].email] \in {0, form'[d].code} \cup void
    BY <1>3, <1>6, <2>3 DEF MailsWatched, Watching
  <2>4. ASSUME NEW d \in Forms, form'[d].at = "keep"
        PROVE  newest["verify"][form'[d].email] \in {form'[d].code} \cup void
    BY <1>6, <2>4 DEF MailsWatched, Watching
  <2> QED
    BY <1>4, <2>1, <2>2, <2>3, <2>4 DEF MailsWatched
<1>8. MailsFollow'
  <2>1. \A d \in Forms : form[d].at \in {"mail", "keep"} => form'[d] = form[d]
    BY <1>1
  <2> QED
    BY <1>3, <1>4, <1>5, <2>1 DEF MailsFollow
<1> QED
  BY <1>7, <1>8

\* A mail that could not be sent: its key will be deleted.
LEMMA MailsFail ==
    ASSUME EmailTypeOK, FormsOK, MailsIInv, NEW c \in Forms, MailFails(c)
    PROVE  MailsIInv'
<1> USE DEF MailsIInv, Step
<1> DEFINE e == form[c].email
<1>1. /\ form'[c].at = "unstore" /\ form'[c].email = e
      /\ \A d \in Forms \ {c} : form'[d] = form[d]
      /\ form[c].at = "mail" /\ e \in Emails
  BY ForgotGoes DEF FormGoes, OnlyForm, MailFails, FormsOK
<1>2. /\ UNCHANGED <<stored, newest>> /\ void \subseteq void'
      /\ newest["reset"][e] \in void'
      /\ \A d \in Pending("reset", e) : form[d].code \in void'
  BY DEF MailFails
<1>3. \A d \in Forms : form[d].at = "mail" /\ form[d].email = e => form[d].code \in void'
  BY <1>2 DEF Pending
<1> HIDE DEF e
<1>4. \A d \in Forms : form'[d].at \in {"mail", "delete", "keep"} => form'[d] = form[d]
  BY <1>1
<1>5. MailsWatched'
  <2>1. ASSUME NEW d \in Forms, form'[d].at = "unstore"
        PROVE  /\ newest["reset"][form'[d].email] \in void'
               /\ \A b \in Forms : form'[b].at = "mail" /\ form'[b].email = form'[d].email
                                  => form'[b].code \in void'
    <3>1. CASE d = c
      BY <1>1, <1>2, <1>3, <1>4, <3>1
    <3>2. CASE d # c
      BY <1>1, <1>2, <1>4, <2>1, <3>2 DEF MailsWatched
    <3> QED
      BY <3>1, <3>2
  <2>2. ASSUME NEW d \in Forms
        PROVE  /\ form'[d].at = "mail" => \/ form'[d].code \in void'
                                          \/ stored["reset"][form'[d].email] = form'[d].code
               /\ form'[d].at = "delete" =>
                     stored["reset"][form'[d].email] \in {0, form'[d].code} \cup void'
               /\ form'[d].at = "keep" => newest["verify"][form'[d].email] \in {form'[d].code} \cup void'
    BY <1>2, <1>4 DEF MailsWatched
  <2> QED
    BY <1>2, <2>1, <2>2 DEF MailsWatched
<1>6. MailsFollow'
  <2>1. \A d \in Forms : \/ form[d].at = "mail" /\ form[d].email # e
                         \/ form[d].at = "keep"
                         => form'[d] = form[d]
    BY <1>1 DEF e
  <2>2. ASSUME NEW f \in Emails
        PROVE  \/ newest["reset"][f] \in {0, stored["reset"][f]} \cup void'
               \/ \E d \in Forms : form'[d].at = "mail" /\ form'[d].email = f
    BY <1>2, <2>1 DEF MailsFollow
  <2>3. ASSUME NEW f \in Emails
        PROVE  \/ newest["verify"][f] \in {0, stored["verify"][f]} \cup void'
               \/ \E d \in Forms : /\ form'[d].at = "keep" /\ form'[d].email = f
                                   /\ form'[d].code = newest["verify"][f]
    BY <1>2, <2>1 DEF MailsFollow
  <2> QED
    BY <1>2, <2>2, <2>3 DEF MailsFollow
<1> QED
  BY <1>5, <1>6

\* A verification code is mailed before it is stored.
LEMMA MailsSend ==
    ASSUME EmailTypeOK, FormsOK, MailsIInv, NEW c \in Forms, NEW e \in Emails, SendMail(c, e)
    PROVE  MailsIInv'
<1> USE DEF MailsIInv, Step
<1> DEFINE k == issued'
<1>1. /\ form'[c].at = "keep" /\ form'[c].email = e /\ form'[c].code = k
      /\ \A d \in Forms \ {c} : form'[d] = form[d]
      /\ form[c].at = "idle" /\ k \in 0..MaxCodes
  <2>1. k \in 0..MaxCodes
    BY EmailLimitsAssumption DEF SendMail, EmailTypeOK
  <2>2. FormGoes(c, "keep", e, k) /\ Step(c, "idle")
    BY CodeGoes
  <2> QED
    BY <2>1, <2>2 DEF FormGoes, OnlyForm
<1>2. /\ newest'["verify"][e] = k
      /\ \A f \in Emails \ {e} : newest'["verify"][f] = newest["verify"][f]
      /\ \A f \in Emails : newest'["reset"][f] = newest["reset"][f]
  <2>1. IsMailed("verify", e, k)
    BY DEF SendMail, IsMailed
  <2> QED
    BY <1>1, <2>1, NewestMailed, KindsAre
<1>3. /\ UNCHANGED stored /\ void \subseteq void'
      /\ Pending("verify", e) # {} => k \in void'
  BY DEF SendMail
<1>4. \A d \in Forms : form[d].at = "keep" /\ form[d].email = e => k \in void'
  BY <1>3 DEF Pending
<1> HIDE DEF k
<1>5. \A d \in Forms : form[d].at # "idle" => d # c /\ form'[d] = form[d] /\ form[d].email \in Emails
  BY <1>1 DEF FormsOK
<1>6. \A d \in Forms : form'[d].at \in {"mail", "unstore", "delete"} =>
          form'[d] = form[d] /\ form[d].email \in Emails
  BY <1>1, <1>5
<1>7. MailsWatched'
  <2>1. ASSUME NEW d \in Forms, form'[d].at = "mail"
        PROVE  form'[d].code \in void' \/ stored["reset"][form'[d].email] = form'[d].code
    BY <1>3, <1>6, <2>1 DEF MailsWatched
  <2>2. ASSUME NEW d \in Forms, form'[d].at = "unstore"
        PROVE  /\ newest'["reset"][form'[d].email] \in void'
               /\ \A b \in Forms : form'[b].at = "mail" /\ form'[b].email = form'[d].email
                                  => form'[b].code \in void'
    BY <1>2, <1>3, <1>6, <2>2 DEF MailsWatched
  <2>3. ASSUME NEW d \in Forms, form'[d].at = "delete"
        PROVE  stored["reset"][form'[d].email] \in {0, form'[d].code} \cup void'
    BY <1>3, <1>6, <2>3 DEF MailsWatched
  <2>4. ASSUME NEW d \in Forms, form'[d].at = "keep"
        PROVE  newest'["verify"][form'[d].email] \in {form'[d].code} \cup void'
    <3>1. CASE d = c
      BY <1>1, <1>2, <3>1
    <3>2. CASE d # c
      <4>1. form'[d] = form[d] /\ form[d].email \in Emails
        BY <1>1, <1>5, <2>4, <3>2
      <4> QED
        BY <1>2, <1>3, <1>4, <2>4, <4>1 DEF MailsWatched
    <3> QED
      BY <3>1, <3>2
  <2> QED
    BY <1>3, <2>1, <2>2, <2>3, <2>4 DEF MailsWatched
<1>8. MailsFollow'
  <2>1. ASSUME NEW f \in Emails
        PROVE  \/ newest'["reset"][f] \in {0, stored["reset"][f]} \cup void'
               \/ \E d \in Forms : form'[d].at = "mail" /\ form'[d].email = f
    BY <1>2, <1>3, <1>5 DEF MailsFollow
  <2>2. ASSUME NEW f \in Emails
        PROVE  \/ newest'["verify"][f] \in {0, stored["verify"][f]} \cup void'
               \/ \E d \in Forms : /\ form'[d].at = "keep" /\ form'[d].email = f
                                   /\ form'[d].code = newest'["verify"][f]
    <3>1. CASE f = e
      BY <1>1, <1>2, <3>1
    <3>2. CASE f # e
      BY <1>2, <1>3, <1>5, <3>2 DEF MailsFollow
    <3> QED
      BY <3>1, <3>2
  <2> QED
    BY <1>3, <2>1, <2>2 DEF MailsFollow
<1> QED
  BY <1>7, <1>8

LEMMA MailsKeep ==
    ASSUME EmailTypeOK, FormsOK, MailsIInv, NEW c \in Forms, SendKeep(c)
    PROVE  MailsIInv'
<1> USE DEF MailsIInv, Step
<1> DEFINE e == form[c].email
           k == form[c].code
<1>1. /\ form'[c].at = "idle"
      /\ \A d \in Forms \ {c} : form'[d] = form[d]
      /\ form[c].at = "keep" /\ e \in Emails /\ k \in 0..MaxCodes
  BY CodeGoes DEF FormGoes, FormEnds, OnlyForm, SendKeep, FormsOK, EmailTypeOK, Form
<1>2. /\ stored'["verify"][e] = k
      /\ \A f \in Emails \ {e} : stored'["verify"][f] = stored["verify"][f]
      /\ \A f \in Emails : stored'["reset"][f] = stored["reset"][f]
  BY <1>1, CodeWritten, KindsAre DEF SendKeep
<1>3. UNCHANGED <<newest, void>>
  BY DEF SendKeep, emailHist
<1>4. newest["verify"][e] \in {k} \cup void
  BY <1>1 DEF MailsWatched
<1>5. \A d \in Forms : form'[d].at \in Watching =>
          d # c /\ form'[d] = form[d] /\ form[d].email \in Emails
  BY <1>1 DEF Watching, FormsOK
<1>6. MailsWatched'
  <2>1. ASSUME NEW d \in Forms, form'[d].at \in Watching
        PROVE  stored'["reset"][form'[d].email] = stored["reset"][form[d].email] /\ form'[d] = form[d]
    BY <1>2, <1>5, <2>1
  <2>2. \A d \in Forms : form'[d].at \in {"mail", "unstore", "delete", "keep"} =>
            stored'["reset"][form'[d].email] = stored["reset"][form[d].email] /\ form'[d] = form[d]
    BY <2>1 DEF Watching
  <2> QED
    BY <1>3, <2>2 DEF MailsWatched
<1>7. MailsFollow'
  <2>1. ASSUME NEW f \in Emails
        PROVE  \/ newest["reset"][f] \in {0, stored'["reset"][f]} \cup void
               \/ \E d \in Forms : form'[d].at = "mail" /\ form'[d].email = f
    <3>1. \A d \in Forms : form[d].at = "mail" => form'[d] = form[d]
      BY <1>1
    <3> QED
      BY <1>2, <3>1 DEF MailsFollow
  <2>2. ASSUME NEW f \in Emails
        PROVE  \/ newest["verify"][f] \in {0, stored'["verify"][f]} \cup void
               \/ \E d \in Forms : /\ form'[d].at = "keep" /\ form'[d].email = f
                                   /\ form'[d].code = newest["verify"][f]
    <3>1. CASE f = e
      BY <1>2, <1>4, <3>1
    <3>2. CASE f # e
      <4>1. \A d \in Forms : form[d].email = f => form'[d] = form[d]
        BY <1>1, <3>2
      <4> QED
        BY <1>2, <3>2, <4>1 DEF MailsFollow
    <3> QED
      BY <3>1, <3>2
  <2> QED
    BY <1>3, <2>1, <2>2 DEF MailsFollow
<1> QED
  BY <1>6, <1>7

-----------------------------------------------------------------------------
(***************************************************************************)
(* The invariant.                                                          *)
(***************************************************************************)
LEMMA EmailStarts == EmailInit => EmailIInv
<1> SUFFICES ASSUME EmailInit PROVE EmailIInv
  OBVIOUS
<1> USE EmailLimitsAssumption, KindsAre
<1>1. /\ \A c \in Forms : form[c].at = "idle"
      /\ form \in [Forms -> Form]
  BY BlankIs DEF EmailInit
<1>2. 0 \in 0..MaxCodes /\ 0 \in 0..MaxTroubles /\ 0 \in 0..0 /\ 0 \in 0..2
  OBVIOUS
<1>3. Zero \in Counter(MailLimit + 1) /\ Zero.value = 0
  BY DEF Zero, Counter
<1>4. EmailTypeOK
  BY <1>1, <1>2, <1>3 DEF EmailInit, EmailTypeOK
<1>5. FormsOK /\ CodesOK /\ StoredOnce /\ OneResets /\ OneUsePerCode
  BY <1>1, <1>2 DEF EmailInit, FormsOK, CodesOK, StoredOnce, OneResets, OneUsePerCode, Holding,
                    Redeeming, Step
<1>6. MailsWatched /\ MailsFollow
  BY <1>1 DEF EmailInit, MailsWatched, MailsFollow, Step
<1>7. RateKeysGoAway
  BY <1>3 DEF EmailInit, RateKeysGoAway
<1> QED
  BY <1>4, <1>5, <1>6, <1>7 DEF EmailIInv, UsesIInv, MailsIInv

\* The columns, the codes and the history stay within their types.
LEMMA FormStepTypes ==
    ASSUME EmailTypeOK, FormsOK, NEW c \in Forms, FormStep(c),
           tries' \in [Emails -> Counter(MailLimit + 1)]
    PROVE  EmailTypeOK'
<1> USE EmailLimitsAssumption, KindsAre
<1>0. form' \in [Forms -> Form] /\ form[c] \in Form
  BY FormStepIsOne DEF OnlyForm, EmailTypeOK
<1>1. CASE Rate(c) \/ RateExpire(c) \/ ForgotRefused(c)
           \/ \E e \in Emails : \/ Forgot(c, e)
                               \/ \E u \in Users : Register(c, e, u) \/ ConfirmEmail(c, e, u)
  <2>1. UNCHANGED <<owner, stored, issued, newest, uses, raced, void, lost, troubles>>
        \/ UNCHANGED <<owner, stored, issued, emailHist>>
    BY <1>1 DEF Rate, RateExpire, ForgotRefused, Forgot, Register, ConfirmEmail, Verified
  <2>2. UNCHANGED <<owner, stored, issued, newest, uses, raced, void, lost, troubles>>
    BY <2>1 DEF emailHist
  <2> QED
    BY <1>0, <2>2 DEF EmailTypeOK
<1>2. CASE ForgotStore(c) \/ \E e \in Emails : SendMail(c, e)
  <2>1. issued' \in 0..MaxCodes
    BY <1>2 DEF ForgotStore, SendMail, EmailTypeOK
  <2>2. \A kind, e : {form[d].code : d \in Pending(kind, e)} \subseteq 0..MaxCodes
    BY DEF Pending, EmailTypeOK, Form
  <2>3. void' \in SUBSET (0..MaxCodes)
    BY <1>2, <2>1, <2>2 DEF ForgotStore, SendMail, EmailTypeOK
  <2>4. stored' \in [Kinds -> [Emails -> 0..MaxCodes]]
    <3>1. CASE ForgotStore(c)
      <4>1. form[c].email \in Emails /\ Write("reset", form[c].email, issued')
        BY <3>1 DEF ForgotStore, FormsOK, Step
      <4> QED
        BY <2>1, <4>1, CodeWritten
    <3>2. CASE \E e \in Emails : SendMail(c, e)
      BY <3>2 DEF SendMail, EmailTypeOK
    <3> QED
      BY <1>2, <3>1, <3>2
  <2>5. newest' \in [Kinds -> [Emails -> 0..MaxCodes]]
    <3>1. CASE ForgotStore(c)
      BY <3>1 DEF ForgotStore, EmailTypeOK
    <3>2. ASSUME NEW e \in Emails, SendMail(c, e)
          PROVE  newest' \in [Kinds -> [Emails -> 0..MaxCodes]]
      <4>1. IsMailed("verify", e, issued')
        BY <3>2 DEF SendMail, IsMailed
      <4> QED
        BY <2>1, <4>1, NewestMailed
    <3> QED
      BY <1>2, <3>1, <3>2
  <2>6. UNCHANGED <<owner, uses, raced, lost, troubles>>
    BY <1>2 DEF ForgotStore, SendMail
  <2> QED
    BY <1>0, <2>1, <2>3, <2>4, <2>5, <2>6 DEF EmailTypeOK
<1>3. CASE ForgotMail(c)
  <2>1. form[c].email \in Emails /\ form[c].code \in 0..MaxCodes
    BY <1>0, <1>3 DEF ForgotMail, FormsOK, Step, Form
  <2>2. IsMailed("reset", form[c].email, form[c].code)
    BY <1>3 DEF ForgotMail, IsMailed
  <2>3. newest' \in [Kinds -> [Emails -> 0..MaxCodes]]
    BY <2>1, <2>2, NewestMailed
  <2> QED
    BY <1>0, <1>3, <2>3 DEF ForgotMail, EmailTypeOK
<1>4. CASE ForgotUnstore(c) \/ SendKeep(c) \/ ResetDelete(c)
  <2>1. form[c].email \in Emails /\ form[c].code \in 0..MaxCodes /\ 0 \in 0..MaxCodes
    BY <1>0, <1>4 DEF ForgotUnstore, SendKeep, ResetDelete, FormsOK, Step, Form
  <2>2. \E kind \in Kinds, k \in {0, form[c].code} : Write(kind, form[c].email, k)
    BY <1>4 DEF ForgotUnstore, SendKeep, ResetDelete
  <2>3. stored' \in [Kinds -> [Emails -> 0..MaxCodes]]
    BY <2>1, <2>2, CodeWritten
  <2>4. void' \subseteq void \cup {form[c].code}
        /\ UNCHANGED <<owner, issued, newest, uses, raced, lost, troubles>>
    BY <1>4 DEF ForgotUnstore, SendKeep, ResetDelete, emailHist
  <2> QED
    BY <1>0, <2>1, <2>3, <2>4 DEF EmailTypeOK
<1>5. CASE ResetUpdate(c)
  <2>1. form[c].code \in Codes
    BY <1>0, <1>5 DEF ResetUpdate, FormsOK, Step, Holding, Issued, EmailTypeOK, Codes
  <2>2. uses[form[c].code] = 2 => uses' = uses
    BY <1>5 DEF ResetUpdate
  <2>3. uses[form[c].code] \in 0..2
    BY <2>1 DEF EmailTypeOK
  <2>4. uses' = uses \/ uses' = [uses EXCEPT ![form[c].code] = uses[form[c].code] + 1]
    BY <1>5 DEF ResetUpdate
  <2>5. uses' \in [Codes -> 0..2]
    BY <2>1, <2>2, <2>3, <2>4 DEF EmailTypeOK
  <2> QED
    BY <1>0, <1>5, <2>5 DEF ResetUpdate, EmailTypeOK
<1>6. CASE TakeAddress(c)
  <2>1. form[c].user \in Users \cup {NoOne}
    BY <1>0 DEF Form
  <2>2. owner' \in [Emails -> Users \cup {NoOne}]
    BY <1>6, <2>1 DEF TakeAddress, EmailTypeOK
  <2> QED
    BY <1>0, <1>6, <2>2 DEF TakeAddress, EmailTypeOK, emailHist
<1>7. ASSUME NEW e \in Emails, Reset(c, e) PROVE EmailTypeOK'
  <2>1. stored["reset"][e] \in Codes
    BY <1>7 DEF Reset, EmailTypeOK, Codes
  <2>2. raced' \in SUBSET Codes
    BY <1>7, <2>1 DEF Reset, EmailTypeOK
  <2> QED
    BY <1>0, <1>7, <2>2 DEF Reset, EmailTypeOK
<1>8. CASE MailFails(c) \/ FormAborts(c)
  <2>1. form[c].at # "idle" => form[c].email \in Emails /\ newest["reset"][form[c].email] \in 0..MaxCodes
    BY DEF FormsOK, EmailTypeOK
  <2>2. form[c].code \in 0..MaxCodes
    BY <1>0 DEF Form
  <2>3. {form[d].code : d \in Pending("reset", form[c].email)} \subseteq 0..MaxCodes
    BY DEF Pending, EmailTypeOK, Form
  <2>4. void' \in SUBSET (0..MaxCodes) /\ lost' \in SUBSET Emails
    BY <1>8, <2>1, <2>2, <2>3 DEF MailFails, FormAborts, EmailTypeOK, Step
  <2>5. troubles' \in 0..MaxTroubles
    BY <1>8 DEF MailFails, FormAborts, Trouble, EmailTypeOK
  <2>6. UNCHANGED <<owner, stored, issued, newest, uses, raced>>
    BY <1>8 DEF MailFails, FormAborts
  <2> QED
    BY <1>0, <2>4, <2>5, <2>6 DEF EmailTypeOK
<1> QED
  BY <1>1, <1>2, <1>3, <1>4, <1>5, <1>6, <1>7, <1>8 DEF FormStep

\* The requests that write no code leave the codes' invariants alone.
LEMMA FormStepUses ==
    ASSUME EmailTypeOK, UsesIInv, NEW c \in Forms, FormStep(c) PROVE UsesIInv'
<1> USE KindsAre
<1>0. FormsOK /\ \A kind \in Kinds, e \in Emails : stored[kind][e] \in 0..issued
  BY DEF UsesIInv, CodesOK
<1>1. ASSUME UNCHANGED <<stored, issued, uses, raced>>,
             FormEnds(c) \/ \E step \in {"rate", "expire", "store", "create", "change"}, e \in Emails :
                               \E k : FormGoes(c, step, e, k)
      PROVE  UsesIInv'
  <2>1. UsesRest
    BY <1>0, <1>1 DEF UsesRest, FormEnds, FormGoes, OnlyForm, Holding, FormsOK
  <2> QED
    BY <2>1, UsesKept
<1>2. CASE Rate(c) \/ RateExpire(c) \/ ForgotRefused(c) \/ ForgotMail(c) \/ TakeAddress(c)
           \/ FormAborts(c)
  <2>1. UNCHANGED <<stored, issued, uses, raced>>
    BY <1>2 DEF Rate, RateExpire, ForgotRefused, ForgotMail, TakeAddress, FormAborts, emailHist
  <2>2. FormEnds(c) \/ \E step \in {"expire", "store"}, e \in Emails : \E k : FormGoes(c, step, e, k)
    BY <1>0, <1>2, ForgotGoes, CodeGoes DEF FormsOK
  <2> QED
    BY <1>1, <2>1, <2>2
<1>3. ASSUME NEW e \in Emails,
             Forgot(c, e) \/ \E u \in Users : Register(c, e, u) \/ ConfirmEmail(c, e, u)
      PROVE  UsesIInv'
  <2>1. UNCHANGED <<stored, issued, uses, raced>>
    BY <1>3 DEF Forgot, Register, ConfirmEmail, Verified, emailHist
  <2>2. \E step \in {"rate", "create", "change"} : \E k : FormGoes(c, step, e, k)
    BY <1>0, <1>3, ForgotGoes, CodeGoes
  <2> QED
    BY <1>1, <2>1, <2>2
<1>4. CASE ForgotUnstore(c) \/ SendKeep(c)
  <2>1. UNCHANGED <<issued, uses, raced>> /\ FormEnds(c)
    BY <1>0, <1>4, ForgotGoes, CodeGoes DEF ForgotUnstore, SendKeep, emailHist
  <2>2. form[c].email \in Emails /\ form[c].code \in 1..issued /\ form[c].code \in 0..MaxCodes
        /\ 0 \in 0..issued /\ 0 \in 0..MaxCodes
    BY <1>0, <1>4, EmailLimitsAssumption
       DEF ForgotUnstore, SendKeep, Step, FormsOK, Holding, Issued, EmailTypeOK
  <2>3. Write("reset", form[c].email, 0) \/ Write("verify", form[c].email, form[c].code)
    BY <1>4 DEF ForgotUnstore, SendKeep
  <2>4. /\ \A e \in Emails : stored'["reset"][e] \in {0, stored["reset"][e]}
        /\ \A kind \in Kinds, e \in Emails : stored'[kind][e] \in 0..issued
    <3>1. CASE Write("reset", form[c].email, 0)
      <4>1. /\ stored'["reset"][form[c].email] = 0
            /\ \A kind \in Kinds, e \in Emails :
                  kind # "reset" \/ e # form[c].email => stored'[kind][e] = stored[kind][e]
        BY <2>2, <3>1, CodeWritten
      <4> QED
        BY <1>0, <2>2, <4>1
    <3>2. CASE Write("verify", form[c].email, form[c].code)
      <4>1. form[c].code \in 0..issued
        BY <2>2
      <4> QED
        BY <1>0, <2>2, <3>2, <4>1, CodeWritten
    <3> QED
      BY <2>3, <3>1, <3>2
  <2>5. UsesRest
    BY <1>0, <2>1, <2>4 DEF UsesRest, FormEnds, FormGoes, OnlyForm, Holding, FormsOK
  <2> QED
    BY <2>5, UsesKept
<1>5. CASE MailFails(c)
  <2>1. UNCHANGED <<stored, issued, uses, raced>> /\ form[c].at = "mail"
        /\ FormGoes(c, "unstore", form[c].email, form[c].code)
    BY <1>0, <1>5, ForgotGoes DEF MailFails, Step
  <2>2. UsesRest
    BY <1>0, <2>1 DEF UsesRest, FormGoes, OnlyForm, Holding, FormsOK
  <2> QED
    BY <2>2, UsesKept
<1>6. CASE ForgotStore(c)
  <2>1. /\ form[c].email \in Emails /\ issued < MaxCodes /\ issued' = issued + 1
        /\ UNCHANGED <<uses, raced>>
        /\ FormGoes(c, "mail", form[c].email, issued') /\ Write("reset", form[c].email, issued')
    BY <1>0, <1>6, ForgotGoes DEF ForgotStore, FormsOK, Step
  <2> QED
    BY <2>1, UsesIssue
<1>7. ASSUME NEW e \in Emails, SendMail(c, e) PROVE UsesIInv'
  <2>1. /\ issued < MaxCodes /\ issued' = issued + 1 /\ UNCHANGED <<stored, uses, raced>>
        /\ FormGoes(c, "keep", e, issued')
    BY <1>0, <1>7, CodeGoes DEF SendMail
  <2> QED
    BY <2>1, UsesIssue
<1> QED
  BY <1>2, <1>3, <1>4, <1>5, <1>6, <1>7, UsesReset, UsesDelete, UsesUpdate DEF FormStep

LEMMA FormStepMails ==
    ASSUME EmailTypeOK, FormsOK, MailsIInv, NEW c \in Forms, FormStep(c) PROVE MailsIInv'
<1> USE KindsAre
<1>1. ASSUME UNCHANGED <<stored, newest>>, void \subseteq void', OnlyForm(c),
             form'[c].at \notin Watching,
             form[c].at = "mail" => newest["reset"][form[c].email] \in void',
             form[c].at = "keep" => form[c].code \in void'
      PROVE  MailsIInv'
  <2>1. MailsRest
    BY <1>1 DEF MailsRest, OnlyForm, Watching
  <2> QED
    BY <2>1, MailsKept
<1>2. CASE Rate(c) \/ RateExpire(c) \/ ForgotRefused(c) \/ TakeAddress(c) \/ ResetUpdate(c)
  <2>1. UNCHANGED <<stored, newest, void>>
    BY <1>2 DEF Rate, RateExpire, ForgotRefused, TakeAddress, ResetUpdate, emailHist
  <2>2. OnlyForm(c) /\ form'[c].at \in {"idle", "expire", "store"}
    BY <1>2, ForgotGoes, CodeGoes DEF FormEnds, FormGoes
  <2>3. form[c].at \notin {"mail", "keep"}
    BY <1>2 DEF Rate, RateExpire, ForgotRefused, TakeAddress, ResetUpdate, Step
  <2> QED
    BY <1>1, <2>1, <2>2, <2>3 DEF Watching
<1>3. CASE FormAborts(c)
  <2>1. /\ UNCHANGED <<stored, newest>> /\ void \subseteq void'
        /\ form[c].at \in {"mail", "keep"} => /\ form[c].code \in void'
                                             /\ newest["reset"][form[c].email] \in void'
    BY <1>3 DEF FormAborts, Step
  <2>2. OnlyForm(c) /\ form'[c].at \in {"idle", "store"}
    BY <1>3, CodeGoes DEF FormEnds, FormGoes
  <2> QED
    BY <1>1, <2>1, <2>2 DEF Watching
<1>4. ASSUME NEW e \in Emails,
             Forgot(c, e) \/ \E u \in Users : Register(c, e, u) \/ ConfirmEmail(c, e, u)
      PROVE  MailsIInv'
  <2>1. UNCHANGED <<stored, newest, void>>
    BY <1>4 DEF Forgot, Register, ConfirmEmail, Verified, emailHist
  <2>2. OnlyForm(c) /\ form'[c].at \in {"rate", "create", "change"} /\ form[c].at = "idle"
    BY <1>4, ForgotGoes, CodeGoes DEF FormGoes, Step
  <2> QED
    BY <1>1, <2>1, <2>2 DEF Watching
<1>5. ASSUME NEW e \in Emails, Reset(c, e) PROVE MailsIInv'
  <2>1. UNCHANGED <<stored, newest, void>>
    BY <1>5 DEF Reset
  <2>2. /\ OnlyForm(c) /\ form'[c].at = "delete" /\ form'[c].email = e
        /\ form'[c].code = stored["reset"][e] /\ form[c].at = "idle"
    BY <1>5, CodeGoes DEF FormGoes, Step
  <2>3. MailsRest
    BY <2>1, <2>2 DEF MailsRest, OnlyForm, Watching
  <2> QED
    BY <2>3, MailsKept
<1>6. CASE ResetDelete(c)
  <2> DEFINE e == form[c].email
             k == form[c].code
  <2>1. /\ UNCHANGED newest /\ void' = void \cup {k} /\ Write("reset", e, 0)
        /\ form[c].at = "delete" /\ e \in Emails
    BY <1>6 DEF ResetDelete, Step, FormsOK
  <2>2. OnlyForm(c) /\ form'[c].at = "update"
    BY <1>6, CodeGoes DEF FormGoes
  <2>3. 0 \in 0..MaxCodes
    BY EmailLimitsAssumption
  <2>4. /\ stored'["reset"][e] = 0
        /\ \A kind \in Kinds, f \in Emails :
              kind # "reset" \/ f # e => stored'[kind][f] = stored[kind][f]
    BY <2>1, <2>3, CodeWritten
  <2>5. stored["reset"][e] \in {0, k} \cup void
    BY <2>1 DEF MailsIInv, MailsWatched, Step
  <2> HIDE DEF e, k
  <2>6. \A kind \in Kinds, f \in Emails :
           \/ stored'[kind][f] = stored[kind][f]
           \/ stored'[kind][f] = 0 /\ stored[kind][f] \in void'
    BY <2>1, <2>4, <2>5
  <2>7. MailsRest
    BY <2>1, <2>2, <2>6 DEF MailsRest, OnlyForm, Watching
  <2> QED
    BY <2>7, MailsKept
<1>7. ASSUME NEW e \in Emails, SendMail(c, e) PROVE MailsIInv'
  BY <1>7, MailsSend
<1> QED
  BY <1>2, <1>3, <1>4, <1>5, <1>6, <1>7, MailsStore, MailsMail, MailsUnstore, MailsKeep, MailsFail
     DEF FormStep

\* A key that expires.
LEMMA KeyStepKept ==
    ASSUME EmailIInv, NEW e \in Emails, KeyStep(e) PROVE EmailIInv'
<1> USE KindsAre
<1>0. EmailTypeOK /\ UsesIInv /\ FormsOK /\ MailsIInv /\ RateKeysGoAway
      /\ \A k \in Kinds, f \in Emails : stored[k][f] \in 0..issued
  BY DEF EmailIInv, UsesIInv, CodesOK
<1>1. tries' \in [Emails -> Counter(MailLimit + 1)] /\ RateKeysGoAway'
  BY <1>0, TriesExpire
<1>2. CASE RateKeyExpires(e)
  <2>1. UNCHANGED <<owner, stored, form, issued, newest, uses, raced, void, troubles>>
        /\ lost' \subseteq lost
    BY <1>2 DEF RateKeyExpires
  <2>2. EmailTypeOK'
    BY <1>0, <1>1, <2>1 DEF EmailTypeOK
  <2>3. UsesRest /\ MailsRest
    BY <1>0, <2>1 DEF UsesRest, MailsRest, FormsOK, Watching, Holding
  <2> QED
    BY <1>0, <1>1, <2>2, <2>3, UsesKept, MailsKept DEF EmailIInv
<1>3. ASSUME NEW kind \in Kinds, CodeExpires(kind, e) PROVE EmailIInv'
  <2>1. 0 \in 0..MaxCodes /\ 0 \in 0..issued /\ stored[kind][e] \in 0..MaxCodes
    BY <1>0, EmailLimitsAssumption DEF EmailTypeOK
  <2>2. /\ UNCHANGED <<owner, form, issued, newest, uses, raced, lost, troubles>>
        /\ void' = void \cup {stored[kind][e]} /\ Write(kind, e, 0)
    BY <1>3 DEF CodeExpires
  <2>3. /\ stored' \in [Kinds -> [Emails -> 0..MaxCodes]]
        /\ stored'[kind][e] = 0
        /\ \A other \in Kinds, f \in Emails :
              other # kind \/ f # e => stored'[other][f] = stored[other][f]
    BY <1>0, <2>1, <2>2, CodeWritten
  <2>4. EmailTypeOK'
    BY <1>0, <1>1, <2>1, <2>2, <2>3 DEF EmailTypeOK
  <2>5. \A other \in Kinds, f \in Emails :
           \/ stored'[other][f] = stored[other][f]
           \/ stored'[other][f] = 0 /\ stored[other][f] \in void'
    BY <2>2, <2>3
  <2>6. MailsRest
    BY <2>2, <2>5 DEF MailsRest
  <2>7. UsesRest
    BY <1>0, <2>1, <2>2, <2>5 DEF UsesRest, FormsOK, Holding
  <2> QED
    BY <1>0, <1>1, <2>4, <2>6, <2>7, UsesKept, MailsKept DEF EmailIInv
<1> QED
  BY <1>2, <1>3 DEF KeyStep

LEMMA EmailStep == EmailIInv /\ [EmailNext]_emailVars => EmailIInv'
<1> SUFFICES ASSUME EmailIInv, [EmailNext]_emailVars PROVE EmailIInv'
  OBVIOUS
<1>0. EmailTypeOK /\ UsesIInv /\ FormsOK /\ MailsIInv /\ RateKeysGoAway
  BY DEF EmailIInv, UsesIInv
<1>1. ASSUME NEW c \in Forms, FormStep(c) PROVE EmailIInv'
  <2>1. tries' \in [Emails -> Counter(MailLimit + 1)] /\ RateKeysGoAway'
    BY <1>0, <1>1, TriesKept
  <2>2. EmailTypeOK'
    BY <1>0, <1>1, <2>1, FormStepTypes
  <2>3. UsesIInv' /\ MailsIInv'
    BY <1>0, <1>1, FormStepUses, FormStepMails
  <2> QED
    BY <2>1, <2>2, <2>3 DEF EmailIInv
<1>2. CASE UNCHANGED emailVars
  <2>1. UsesIInv' /\ MailsIInv'
    BY <1>0, <1>2 DEF emailVars, UsesIInv, FormsOK, CodesOK, StoredOnce, OneResets, OneUsePerCode,
       MailsIInv, MailsWatched, MailsFollow, Holding, Redeeming, Issued, Step
  <2> QED
    BY <1>0, <1>2, <2>1 DEF emailVars, EmailIInv, EmailTypeOK, RateKeysGoAway, Step
<1> QED
  BY <1>1, <1>2, OneFormSteps, KeyStepKept

LEMMA EmailInductive == EmailSpec => []EmailIInv
<1>1. EmailInit => EmailIInv
  BY EmailStarts
<1>2. EmailIInv /\ [EmailNext]_emailVars => EmailIInv'
  BY EmailStep
<1> QED
  BY <1>1, <1>2, PTL DEF EmailSpec

\* The codes, the counters and the requests stay within their types: no code is
\* accepted that was not issued.
THEOREM EmailTypeCorrect == EmailSpec => []EmailTypeOK
<1>1. EmailIInv => EmailTypeOK
  BY DEF EmailIInv
<1> QED
  BY <1>1, EmailInductive, PTL

\* A reset code changes one password once, unless two requests compared it
\* before either had deleted it, however the requests of any number of clients
\* interleave (service_reset_password_with_code: GET, compare, DEL, UPDATE).
THEOREM CodesUsedOnce == EmailSpec => []OneUsePerCode
<1>1. EmailIInv => OneUsePerCode
  BY DEF EmailIInv, UsesIInv
<1> QED
  BY <1>1, EmailInductive, PTL

\* The code in the last mail is the one that is accepted, or a request that is
\* being served, an expiry or a failure explains why not.
THEOREM LastMailCounts == EmailSpec => []LastMailedIsStored
<1>1. EmailIInv => LastMailedIsStored
  <2> SUFFICES ASSUME EmailIInv, NEW kind \in Kinds, NEW e \in Emails, newest[kind][e] # 0
               PROVE  \/ stored[kind][e] = newest[kind][e] \/ newest[kind][e] \in void
                      \/ Pending(kind, e) # {}
    BY DEF LastMailedIsStored
  <2>1. MailsFollow
    BY DEF EmailIInv, MailsIInv
  <2>2. CASE kind = "reset"
    BY <2>1, <2>2 DEF MailsFollow, Pending, Step
  <2>3. CASE kind = "verify"
    BY <2>1, <2>3 DEF MailsFollow, Pending, Step
  <2> QED
    BY <2>2, <2>3 DEF Kinds
<1> QED
  BY <1>1, EmailInductive, PTL

\* A rate counter without an expiry is one whose EXPIRE is still to be sent, or
\* was lost with its request (_rate_limit).
THEOREM RateKeysExpire == EmailSpec => []RateKeysGoAway
<1>1. EmailIInv => RateKeysGoAway
  BY DEF EmailIInv
<1> QED
  BY <1>1, EmailInductive, PTL

-----------------------------------------------------------------------------
(***************************************************************************)
(* ModelChoice: the model that answers is listed and remembered.           *)
(***************************************************************************)

\* The list a question read has a model in it.
ListThere ==
    \A c \in Questions :
        question[c].at \in {"oldest", "store", "ask"} => question[c].list # <<>>

\* What an uncrossed question came to is in the list it read ...
KeyListed ==
    \A c \in Questions \ crossed :
        question[c].at \in {"store", "ask"} => question[c].key \in ToSet(question[c].list)

\* ... and once the question is stored, the conversation remembers it.
KeyRemembered ==
    \A c \in Questions \ crossed : Stands(c, "ask") => memory = question[c].key

ChoiceIInv == ChoiceTypeOK /\ ListThere /\ KeyListed /\ KeyRemembered

-----------------------------------------------------------------------------
LEMMA HeadListed ==
    ASSUME NEW S, NEW s \in Seq(S), s # <<>>
    PROVE  Head(s) \in ToSet(s) /\ Head(s) \in S
  BY DEF ToSet

LEMMA ListRowRemoved ==
    ASSUME NEW S, NEW s \in Seq(S), NEW i \in 1..Len(s)
    PROVE  RemoveAt(s, i) \in Seq(S) /\ Len(RemoveAt(s, i)) = Len(s) - 1
<1>1. SubSeq(s, 1, i - 1) \in Seq(S) /\ Len(SubSeq(s, 1, i - 1)) = i - 1
  BY SubSeqProperties
<1>2. SubSeq(s, i + 1, Len(s)) \in Seq(S) /\ Len(SubSeq(s, i + 1, Len(s))) = Len(s) - i
  BY SubSeqProperties
<1> DEFINE front == SubSeq(s, 1, i - 1)
           back  == SubSeq(s, i + 1, Len(s))
<1>0. Len(s) \in Nat /\ (i - 1) + (Len(s) - i) = Len(s) - 1
  OBVIOUS
<1>3. front \in Seq(S) /\ back \in Seq(S) /\ Len(front) + Len(back) = Len(s) - 1
  BY <1>0, <1>1, <1>2, Zenon
<1> HIDE DEF front, back
<1>4. front \o back \in Seq(S) /\ Len(front \o back) = Len(front) + Len(back)
  BY <1>3, ConcatProperties
<1> QED
  BY <1>3, <1>4 DEF RemoveAt, front, back

\* What a question comes to is a model, and a listed one if the oldest is.
LEMMA Resolved ==
    ASSUME NEW q \in Question, NEW oldest \in Models
    PROVE  /\ Resolve(q, oldest) \in Models
           /\ oldest \in ToSet(q.list) => Resolve(q, oldest) \in ToSet(q.list)
<1>1. ToSet(q.list) \subseteq Models
  BY DEF ToSet, Question
<1> QED
  BY <1>1 DEF Resolve, Question

\* The list is never empty: DEFAULT_MODEL stands in.
LEMMA ListRead ==
    ASSUME ChoiceTypeOK, NEW c \in Questions, ReadList(c)
    PROVE  \E list \in Seq(Models) :
              /\ question' = [question EXCEPT ![c] = [@ EXCEPT !.at = "oldest", !.list = list]]
              /\ list # <<>>
<1>1. PICK failed \in BOOLEAN :
        question' = [question EXCEPT ![c] =
            [@ EXCEPT !.at = "oldest",
                      !.list = IF failed \/ rows = <<>> THEN <<BuiltIn>> ELSE rows]]
  BY DEF ReadList
<1> DEFINE list == IF failed \/ rows = <<>> THEN <<BuiltIn>> ELSE rows
<1>2. list \in Seq(Models) /\ list # <<>>
  BY ModelsAssumption DEF ChoiceTypeOK
<1>3. question' = [question EXCEPT ![c] = [@ EXCEPT !.at = "oldest", !.list = list]]
  BY <1>1
<1> HIDE DEF list
<1> QED
  BY <1>2, <1>3

\* A question that ends concerns none of the invariants below.
LEMMA QuestionEnded ==
    ASSUME ChoiceTypeOK, NEW c \in Questions, question' = [question EXCEPT ![c] = Unasked],
           NEW d \in Questions, question'[d].at # "idle"
    PROVE  d # c /\ question'[d] = question[d]
  BY DEF ChoiceTypeOK, Unasked

LEMMA ChoiceStarts == ChoiceInit => ChoiceIInv
  BY ModelsAssumption, MaxRowsAssumption
  DEF ChoiceInit, ChoiceIInv, ChoiceTypeOK, ListThere, KeyListed, KeyRemembered, Stands,
      Unasked, Question, ChoiceSteps

LEMMA ChoiceTypeStep == ChoiceIInv /\ [ChoiceNext]_choiceVars => ChoiceTypeOK'
<1> SUFFICES ASSUME ChoiceIInv, [ChoiceNext]_choiceVars PROVE ChoiceTypeOK'
  OBVIOUS
<1> USE ModelsAssumption, MaxRowsAssumption DEF ChoiceIInv
<1>1. ASSUME NEW c \in Questions, NEW choice \in Models \cup {NoModel}, AskWith(c, choice)
      PROVE  ChoiceTypeOK'
  BY <1>1 DEF AskWith, ChoiceTypeOK, Question, ChoiceSteps, Unasked
<1>2. ASSUME NEW c \in Questions, ReadList(c) PROVE ChoiceTypeOK'
  <2>1. PICK list \in Seq(Models) :
          question' = [question EXCEPT ![c] = [@ EXCEPT !.at = "oldest", !.list = list]]
    BY <1>2, ListRead
  <2>2. [question[c] EXCEPT !.at = "oldest", !.list = list] \in Question
    BY DEF ChoiceTypeOK, Question, ChoiceSteps
  <2>3. question' \in [Questions -> Question]
    BY <2>1, <2>2 DEF ChoiceTypeOK
  <2> QED
    BY <1>2, <2>3 DEF ReadList, ChoiceTypeOK
<1>3. ASSUME NEW c \in Questions, ReadOldest(c) PROVE ChoiceTypeOK'
  <2>1. PICK oldest \in {BuiltIn, IF rows = <<>> THEN BuiltIn ELSE Head(rows)} :
          question' = [question EXCEPT ![c] =
              [@ EXCEPT !.at = "store", !.choice = NoModel, !.key = Resolve(question[c], oldest)]]
    BY <1>3 DEF ReadOldest
  <2>2. oldest \in Models
    BY HeadListed DEF ChoiceTypeOK
  <2>3. question[c] \in Question
    BY DEF ChoiceTypeOK
  <2>4. Resolve(question[c], oldest) \in Models
    BY <2>2, <2>3, Resolved
  <2>5. [question[c] EXCEPT !.at = "store", !.choice = NoModel,
                            !.key = Resolve(question[c], oldest)] \in Question
    BY <2>3, <2>4 DEF Question, ChoiceSteps
  <2>6. question' \in [Questions -> Question]
    BY <2>1, <2>5 DEF ChoiceTypeOK
  <2>7. crossed' \in SUBSET Questions
    BY <1>3 DEF ReadOldest, ChoiceTypeOK
  <2> QED
    BY <1>3, <2>6, <2>7 DEF ReadOldest, ChoiceTypeOK
<1>4. ASSUME NEW c \in Questions, StoreQuestion(c) PROVE ChoiceTypeOK'
  <2>1. question[c] \in Question
    BY DEF ChoiceTypeOK
  <2>2. Unasked \in Question
    BY DEF Unasked, Question, ChoiceSteps
  <2>3. [question[c] EXCEPT !.at = "ask", !.seen = NoModel] \in Question
    BY <2>1 DEF Question, ChoiceSteps
  <2>4. question' \in [Questions -> Question]
    BY <1>4, <2>2, <2>3 DEF StoreQuestion, ChoiceTypeOK
  <2>5. memory' \in (Models \ LongNames) \cup {NoModel}
    BY <1>4, <2>1 DEF StoreQuestion, ChoiceTypeOK, Question, Fits, Remembers
  <2>6. crossed' \in SUBSET Questions
    BY <1>4 DEF StoreQuestion, ChoiceTypeOK
  <2>7. rows' = rows
    BY <1>4 DEF StoreQuestion
  <2> QED
    BY <2>4, <2>5, <2>6, <2>7 DEF ChoiceTypeOK
<1>5. ASSUME NEW c \in Questions, AskModel(c) PROVE ChoiceTypeOK'
  BY <1>5 DEF AskModel, ChoiceTypeOK, Question, ChoiceSteps, Unasked
<1>6. ASSUME NEW m \in Models, AddModel(m) PROVE ChoiceTypeOK'
  BY <1>6 DEF AddModel, ChoiceTypeOK
<1>7. ASSUME NEW m \in Models, NEW i \in 1..Len(rows), RenameModel(i, m) PROVE ChoiceTypeOK'
  BY <1>7 DEF RenameModel, ChoiceTypeOK
<1>8. ASSUME NEW i \in 1..Len(rows), DeleteModel(i) PROVE ChoiceTypeOK'
  <2>1. Len(rows) \in Nat
    BY DEF ChoiceTypeOK
  <2> QED
    BY <1>8, <2>1, ListRowRemoved DEF DeleteModel, ChoiceTypeOK
<1>9. CASE UNCHANGED choiceVars
  BY <1>9 DEF choiceVars, ChoiceTypeOK
<1> QED
  BY <1>1, <1>2, <1>3, <1>4, <1>5, <1>6, <1>7, <1>8, <1>9 DEF ChoiceNext

LEMMA ListThereStep == ChoiceIInv /\ [ChoiceNext]_choiceVars => ListThere'
<1> SUFFICES ASSUME ChoiceIInv, [ChoiceNext]_choiceVars,
                    NEW d \in Questions, question'[d].at \in {"oldest", "store", "ask"}
             PROVE  question'[d].list # <<>>
  BY DEF ListThere
<1> USE DEF ChoiceIInv
<1>1. ASSUME NEW c \in Questions, NEW choice \in Models \cup {NoModel}, AskWith(c, choice)
      PROVE  question'[d].list # <<>>
  BY <1>1 DEF AskWith, ChoiceTypeOK, ListThere, Question, Unasked
<1>2. ASSUME NEW c \in Questions, ReadList(c) PROVE question'[d].list # <<>>
  <2>1. PICK list \in Seq(Models) :
          /\ question' = [question EXCEPT ![c] = [@ EXCEPT !.at = "oldest", !.list = list]]
          /\ list # <<>>
    BY <1>2, ListRead
  <2> QED
    BY <2>1 DEF ChoiceTypeOK, ListThere, Question
<1>3. ASSUME NEW c \in Questions, ReadOldest(c) PROVE question'[d].list # <<>>
  <2>1. PICK key : question' = [question EXCEPT ![c] =
              [@ EXCEPT !.at = "store", !.choice = NoModel, !.key = key]]
    BY <1>3 DEF ReadOldest
  <2> QED
    BY <1>3, <2>1 DEF ReadOldest, ChoiceTypeOK, ListThere, Question, Stands
<1>4. ASSUME NEW c \in Questions, StoreQuestion(c) PROVE question'[d].list # <<>>
  <2>1. \/ question' = [question EXCEPT ![c] = Unasked]
        \/ question' = [question EXCEPT ![c] = [@ EXCEPT !.at = "ask", !.seen = NoModel]]
    BY <1>4 DEF StoreQuestion
  <2>2. CASE question' = [question EXCEPT ![c] = Unasked]
    BY <2>2, QuestionEnded DEF ListThere
  <2>3. CASE question' = [question EXCEPT ![c] = [@ EXCEPT !.at = "ask", !.seen = NoModel]]
    BY <1>4, <2>3 DEF StoreQuestion, ChoiceTypeOK, ListThere, Question, Stands
  <2> QED
    BY <2>1, <2>2, <2>3
<1>5. ASSUME NEW c \in Questions, AskModel(c) PROVE question'[d].list # <<>>
  BY <1>5 DEF AskModel, ChoiceTypeOK, ListThere, Question, Unasked
<1>6. CASE UNCHANGED question
  BY <1>6 DEF ListThere
<1> QED
  BY <1>1, <1>2, <1>3, <1>4, <1>5, <1>6
  DEF ChoiceNext, choiceVars, AddModel, RenameModel, DeleteModel

LEMMA ListKeyStep == ChoiceIInv /\ [ChoiceNext]_choiceVars => KeyListed'
<1> SUFFICES ASSUME ChoiceIInv, [ChoiceNext]_choiceVars,
                    NEW d \in Questions, d \notin crossed',
                    question'[d].at \in {"store", "ask"}
             PROVE  question'[d].key \in ToSet(question'[d].list)
  BY DEF KeyListed
<1> USE DEF ChoiceIInv
<1>1. ASSUME NEW c \in Questions, NEW choice \in Models \cup {NoModel}, AskWith(c, choice)
      PROVE  question'[d].key \in ToSet(question'[d].list)
  BY <1>1 DEF AskWith, ChoiceTypeOK, KeyListed, Question, Unasked
<1>2. ASSUME NEW c \in Questions, ReadList(c)
      PROVE  question'[d].key \in ToSet(question'[d].list)
  <2>1. PICK list : question' = [question EXCEPT ![c] = [@ EXCEPT !.at = "oldest", !.list = list]]
    BY <1>2 DEF ReadList
  <2> QED
    BY <1>2, <2>1 DEF ReadList, ChoiceTypeOK, KeyListed, Question
<1>3. ASSUME NEW c \in Questions, ReadOldest(c)
      PROVE  question'[d].key \in ToSet(question'[d].list)
  <2>1. PICK oldest \in {BuiltIn, IF rows = <<>> THEN BuiltIn ELSE Head(rows)} :
          /\ question' = [question EXCEPT ![c] =
               [@ EXCEPT !.at = "store", !.choice = NoModel, !.key = Resolve(question[c], oldest)]]
          /\ crossed' = IF oldest # Head(question[c].list) THEN crossed \cup {c} ELSE crossed
    BY <1>3 DEF ReadOldest
  <2>2. CASE d = c
    <3>1. oldest = Head(question[c].list)
      BY <2>1, <2>2
    <3>2. question[c] \in Question /\ question[c].list # <<>>
      BY <1>3 DEF ReadOldest, Stands, ListThere, ChoiceTypeOK
    <3>3. oldest \in ToSet(question[c].list) /\ oldest \in Models
      BY <3>1, <3>2, HeadListed DEF Question
    <3>4. Resolve(question[c], oldest) \in ToSet(question[c].list)
      BY <3>2, <3>3, Resolved
    <3>5. /\ question'[c].key = Resolve(question[c], oldest)
          /\ question'[c].list = question[c].list
      BY <2>1, <3>2 DEF ChoiceTypeOK, Question
    <3> QED
      BY <2>2, <3>4, <3>5
  <2>3. CASE d # c
    BY <2>1, <2>3 DEF ChoiceTypeOK, KeyListed
  <2> QED
    BY <2>2, <2>3
<1>4. ASSUME NEW c \in Questions, StoreQuestion(c)
      PROVE  question'[d].key \in ToSet(question'[d].list)
  <2>1. /\ \/ question' = [question EXCEPT ![c] = Unasked]
           \/ question' = [question EXCEPT ![c] = [@ EXCEPT !.at = "ask", !.seen = NoModel]]
        /\ crossed \subseteq crossed'
        /\ question[c].at = "store"
    BY <1>4 DEF StoreQuestion, Stands
  <2>2. CASE question' = [question EXCEPT ![c] = Unasked]
    BY <2>1, <2>2, QuestionEnded DEF KeyListed
  <2>3. CASE question' = [question EXCEPT ![c] = [@ EXCEPT !.at = "ask", !.seen = NoModel]]
    BY <2>1, <2>3 DEF ChoiceTypeOK, KeyListed, Question
  <2> QED
    BY <2>1, <2>2, <2>3
<1>5. ASSUME NEW c \in Questions, AskModel(c)
      PROVE  question'[d].key \in ToSet(question'[d].list)
  BY <1>5 DEF AskModel, ChoiceTypeOK, KeyListed, Question, Unasked
<1>6. CASE UNCHANGED <<question, crossed>>
  BY <1>6 DEF KeyListed
<1> QED
  BY <1>1, <1>2, <1>3, <1>4, <1>5, <1>6
  DEF ChoiceNext, choiceVars, AddModel, RenameModel, DeleteModel

LEMMA MemoryStep == ChoiceIInv /\ [ChoiceNext]_choiceVars => KeyRemembered'
<1> SUFFICES ASSUME ChoiceIInv, [ChoiceNext]_choiceVars,
                    NEW d \in Questions, d \notin crossed', question'[d].at = "ask"
             PROVE  memory' = question'[d].key
  BY DEF KeyRemembered, Stands
<1> USE DEF ChoiceIInv, Stands
<1>1. ASSUME NEW c \in Questions, NEW choice \in Models \cup {NoModel}, AskWith(c, choice)
      PROVE  memory' = question'[d].key
  BY <1>1 DEF AskWith, ChoiceTypeOK, KeyRemembered, Question, Unasked
<1>2. ASSUME NEW c \in Questions, ReadList(c) PROVE memory' = question'[d].key
  <2>1. PICK list : question' = [question EXCEPT ![c] = [@ EXCEPT !.at = "oldest", !.list = list]]
    BY <1>2 DEF ReadList
  <2> QED
    BY <1>2, <2>1 DEF ReadList, ChoiceTypeOK, KeyRemembered, Question
<1>3. ASSUME NEW c \in Questions, ReadOldest(c) PROVE memory' = question'[d].key
  <2>1. PICK key : question' = [question EXCEPT ![c] =
              [@ EXCEPT !.at = "store", !.choice = NoModel, !.key = key]]
    BY <1>3 DEF ReadOldest
  <2>2. crossed \subseteq crossed' /\ memory' = memory
    BY <1>3 DEF ReadOldest
  <2> QED
    BY <2>1, <2>2 DEF ChoiceTypeOK, KeyRemembered, Question
<1>4. ASSUME NEW c \in Questions, StoreQuestion(c) PROVE memory' = question'[d].key
  <2>1. CASE ~Fits(Remembers(question[c]))
    <3>1. question' = [question EXCEPT ![c] = Unasked] /\ UNCHANGED <<memory, crossed>>
      BY <1>4, <2>1 DEF StoreQuestion
    <3> QED
      BY <3>1, QuestionEnded DEF KeyRemembered
  <2>2. CASE Fits(Remembers(question[c]))
    <3>1. /\ memory' = Remembers(question[c])
          /\ question' = [question EXCEPT ![c] = [@ EXCEPT !.at = "ask", !.seen = NoModel]]
          /\ crossed' = crossed
                \cup {e \in Questions \ {c} : question[e] # Unasked /\ memory' # memory}
                \cup {e \in {c} : question[c].seen # memory}
      BY <1>4, <2>2 DEF StoreQuestion
    <3>2. CASE d = c
      BY <3>1, <3>2 DEF Remembers, ChoiceTypeOK, Question
    <3>3. CASE d # c
      <4>1. question'[d] = question[d] /\ question[d] # Unasked
        BY <3>1, <3>3 DEF ChoiceTypeOK, Unasked
      <4> QED
        BY <3>1, <3>3, <4>1 DEF KeyRemembered
    <3> QED
      BY <3>2, <3>3
  <2> QED
    BY <2>1, <2>2
<1>5. ASSUME NEW c \in Questions, AskModel(c) PROVE memory' = question'[d].key
  BY <1>5 DEF AskModel, ChoiceTypeOK, KeyRemembered, Question, Unasked
<1>6. CASE UNCHANGED <<question, crossed, memory>>
  BY <1>6 DEF KeyRemembered
<1> QED
  BY <1>1, <1>2, <1>3, <1>4, <1>5, <1>6
  DEF ChoiceNext, choiceVars, AddModel, RenameModel, DeleteModel

LEMMA ChoiceInductive == ChoiceSpec => []ChoiceIInv
<1>1. ChoiceIInv /\ [ChoiceNext]_choiceVars => ChoiceIInv'
  BY ChoiceTypeStep, ListThereStep, ListKeyStep, MemoryStep DEF ChoiceIInv
<1> QED
  BY ChoiceStarts, <1>1, PTL DEF ChoiceSpec

-----------------------------------------------------------------------------
\* Rows, memory and questions keep their types; in particular a name too long
\* for current_model is never remembered (_update_session_model).
THEOREM ChoiceTypeCorrect == ChoiceSpec => []ChoiceTypeOK
<1>1. ChoiceIInv => ChoiceTypeOK
  BY DEF ChoiceIInv
<1> QED
  BY ChoiceInductive, <1>1, PTL

\* call_ai_agent finds the model it calls in the registry the question read,
\* whatever administrators did between the reads.
THEOREM TargetInList == ChoiceSpec => []TargetIsListed
<1>1. ChoiceIInv => TargetIsListed
  <2> SUFFICES ASSUME ChoiceIInv, NEW c \in Questions, Stands(c, "ask")
               PROVE  Target(question[c]) \in ToSet(question[c].list)
    BY DEF TargetIsListed
  <2>1. question[c].list \in Seq(Models) /\ question[c].list # <<>>
    BY DEF ChoiceIInv, ChoiceTypeOK, ListThere, Stands, Question
  <2>2. Head(question[c].list) \in ToSet(question[c].list)
    BY <2>1, HeadListed
  <2> QED
    BY <2>2 DEF Target
<1> QED
  BY ChoiceInductive, <1>1, PTL

\* The conversation's current_model is the model an uncrossed question went to
\* while it waits for its answer.
THEOREM TargetRemembered == ChoiceSpec => []RemembersTarget
<1>1. ChoiceIInv => RemembersTarget
  BY DEF ChoiceIInv, RemembersTarget, KeyListed, KeyRemembered, Target, Stands
<1> QED
  BY ChoiceInductive, <1>1, PTL

-----------------------------------------------------------------------------
(***************************************************************************)
(* The components together: each goes on as it would alone, so that its    *)
(* theorems hold of every behaviour that the composed module describes.    *)
(***************************************************************************)

\* A step of the three is a step, or none, of each of them.
LEMMA AccountsStep ==
    [AccountsNext]_accountsVars =>
        [AccountNext]_accountVars /\ [EmailNext]_emailVars /\ [ChoiceNext]_choiceVars
<1> SUFFICES ASSUME [AccountsNext]_accountsVars
             PROVE  [AccountNext]_accountVars /\ [EmailNext]_emailVars /\ [ChoiceNext]_choiceVars
  OBVIOUS
<1>1. CASE UNCHANGED accountsVars
  BY <1>1 DEF accountsVars
<1>2. CASE AccountsNext
  BY <1>2 DEF AccountsNext
<1> QED
  BY <1>1, <1>2

\* A behaviour of the composition is one of every component: what serves
\* accounts, mailed codes and models shares no state.
THEOREM AccountsAreTheirParts == AccountsSpec => AccountSpec /\ EmailSpec /\ ChoiceSpec
<1>1. AccountsInit => AccountInit /\ EmailInit /\ ChoiceInit
  BY DEF AccountsInit
<1> QED
  BY <1>1, AccountsStep, PTL DEF AccountsSpec, AccountSpec, EmailSpec, ChoiceSpec

\* Accounts, codes and questions keep their types: every request under way is
\* in one of the stages the code has, every key and row holds a value of its own.
THEOREM AccountsTypeCorrect == AccountsSpec => []AccountsTypeOK
<1>1. AccountTypeOK /\ EmailTypeOK /\ ChoiceTypeOK => AccountsTypeOK
  BY DEF AccountsTypeOK
<1> QED
  BY <1>1, AccountsAreTheirParts, TypeCorrect, EmailTypeCorrect, ChoiceTypeCorrect, PTL
=============================================================================
