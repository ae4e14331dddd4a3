---------------------------- MODULE AnswerOffers ----------------------------
(***************************************************************************)
(* What the chat promises about an answer, however many calls are served   *)
(* at a time: its statement is either executed without asking and never    *)
(* offered, or offered once before any execution and executed only after   *)
(* the offer was accepted; and an offer that was taken back is not renewed.*)
(* ChatStatement implements it.                                            *)
(***************************************************************************)
EXTENDS Naturals

CONSTANT Messages

VARIABLES
    offer,  \* "none", "waiting" for the owner, or "closed"
    asked,  \* answers whose offer was accepted
    ran     \* executions, 2 standing for more

offerVars == <<offer, asked, ran>>

OfferInit ==
    /\ offer = [m \in Messages |-> "none"]
    /\ asked = {}
    /\ ran = [m \in Messages |-> 0]

Count(m) == ran' = [ran EXCEPT ![m] = IF @ = 0 THEN 1 ELSE 2]

\* A statement that needs no confirmation.
RunUnasked(m) ==
    /\ offer[m] = "none"
    /\ m \notin asked
    /\ Count(m)
    /\ UNCHANGED <<offer, asked>>

MakeOffer(m) ==
    /\ offer[m] = "none"
    /\ m \notin asked
    /\ ran[m] = 0
    /\ offer' = [offer EXCEPT ![m] = "waiting"]
    /\ UNCHANGED <<asked, ran>>

Accept(m) ==
    /\ offer[m] = "waiting"
    /\ asked' = asked \cup {m}
    /\ UNCHANGED <<offer, ran>>

\* Two acceptances may both be carried out, the second after the first failed
\* to close the offer.
CarryOut(m) ==
    /\ m \in asked
    /\ Count(m)
    /\ UNCHANGED <<offer, asked>>

\* By a cancellation, a failed execution, or the end of the conversation.
Close(ms) ==
    /\ offer' = [m \in Messages |-> IF m \in ms THEN "closed" ELSE offer[m]]
    /\ UNCHANGED <<asked, ran>>

OfferNext ==
    \/ \E m \in Messages : RunUnasked(m) \/ MakeOffer(m) \/ Accept(m) \/ CarryOut(m)
    \/ \E ms \in SUBSET Messages : Close(ms)

OfferSpec == OfferInit /\ [][OfferNext]_offerVars
=============================================================================
