------------------------------ MODULE MCWaiting -----------------------------
(***************************************************************************)
(* What waits for an answer from outside: the login and the profile of the *)
(* tab, the OAuth page, and the sections that pay.  They are explored in   *)
(* one run, with the fairness of their timers and requests; a behaviour    *)
(* stays with one of them.  The fair actions of the others are disabled in *)
(* their first state, where they stay.                                     *)
(***************************************************************************)
EXTENDS OAuthFlow, Session, Payments

CONSTANT Scenes    \* what is explored

VARIABLE scene     \* what this behaviour is about

waitingVars == <<oauthVars, sessionVars, paymentVars, scene>>

MCProviders ==
    {[mode |-> "gateway", xai |-> FALSE], [mode |-> "sdk", xai |-> FALSE],
     [mode |-> "none", xai |-> FALSE], [mode |-> "gateway", xai |-> TRUE]}

WaitingInit ==
    /\ scene \in Scenes
    /\ OAuthInit /\ SessionInit /\ PaymentsInit

WaitingNext ==
    /\ UNCHANGED scene
    /\ IF scene = "oauth" THEN OAuthNext ELSE UNCHANGED oauthVars
    /\ IF scene = "session" THEN SessionNext ELSE UNCHANGED sessionVars
    /\ IF scene = "payments" THEN PaymentsNext ELSE UNCHANGED paymentVars

WaitingSpec ==
    /\ WaitingInit /\ [][WaitingNext]_waitingVars
    /\ OAuthFairness /\ SessionFairness /\ PaymentsFairness
=============================================================================
