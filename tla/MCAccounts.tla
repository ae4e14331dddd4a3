----------------------------- MODULE MCAccounts -----------------------------
(***************************************************************************)
(* What serves a user: the account, the codes sent by e-mail, and the      *)
(* model of a conversation.  The components share no state: every          *)
(* behaviour follows one of them, `scene`, and the others stay as they are *)
(* at the start.                                                           *)
(***************************************************************************)
EXTENDS AccountSessions, EmailCodes, ModelChoice, TLC

VARIABLE scene

accountsVars == <<scene, accountVars, emailVars, choiceVars>>

AccountsInit ==
    /\ scene \in {"sessions", "codes", "choice"}
    /\ owner \in [Emails -> IF scene = "codes" THEN Users \cup {NoOne} ELSE {NoOne}]
    /\ AccountInit
    /\ EmailInit
    /\ ChoiceInit

AccountsNext ==
    /\ scene' = scene
    /\ \/ scene = "sessions" /\ AccountNext
       \/ scene # "sessions" /\ UNCHANGED accountVars
    /\ \/ scene = "codes" /\ EmailNext
       \/ scene # "codes" /\ UNCHANGED emailVars
    /\ \/ scene = "choice" /\ ChoiceNext
       \/ scene # "choice" /\ UNCHANGED choiceVars

AccountsSpec == AccountsInit /\ [][AccountsNext]_accountsVars

\* Requests, forms and questions have the same slots.
Symmetry == Permutations(Requests) \cup Permutations(Emails)

-----------------------------------------------------------------------------
\* Every component's state stays within its types: the requests under way and
\* the keys and rows they keep are in one of the stages the code has.
AccountsTypeOK == AccountTypeOK /\ EmailTypeOK /\ ChoiceTypeOK
=============================================================================
