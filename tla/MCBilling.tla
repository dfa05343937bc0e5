----------------------------- MODULE MCBilling ------------------------------
(***************************************************************************)
(* Instances of the billing pipeline for TLC, and what its documentation   *)
(* says and the code does not do.                                          *)
(***************************************************************************)
EXTENDS Billing, TLC

CONSTANTS r1, r2, t1, t2, day

Symmetry == Permutations(Requests) \cup Permutations(Traces)

DayOnly == day :> 1

\* Two halves of one instance.  In the first the user's subscription ends
\* before anything else, and credits arrive; in the second periods end, the
\* subscription at any time, and no credit arrives.
VARIABLE scene

ScenesInit == scene \in {"credits", "periods"} /\ Init

ScenesNext ==
    /\ UNCHANGED scene
    /\ Next
    /\ scene = "credits" => due' = due /\ (active => SubscriptionEnds)
    /\ scene = "periods" => deposited' = deposited

\* The environment is not fair, so the halves leave the fairness as it is.
ScenesSpec ==
    /\ ScenesInit /\ [][ScenesNext]_<<vars, scene>>
    /\ \A r \in Requests : WF_<<vars, scene>>(Handle(r) /\ UNCHANGED scene)
    /\ WF_<<vars, scene>>(Dispatch /\ UNCHANGED scene)

\* Both requests are one, sent again by its client.
OneKey == (r1 :> "key") @@ (r2 :> "key")

\* "commit within a single database transaction -- either all succeed or none
\* persist": a handled request was charged exactly what the usage log says.
SettleAtomic ==
    \A r \in Requests : ~Pending(r) => bill[r].logged = bill[r].charged

\* "a panic in the downstream chain still frees the hold": a request that is
\* over and whose records are handled has no hold.
OverIsFreed ==
    \A r \in Requests : at[r] = "done" /\ ~Pending(r) => holds[trace[r]] = 0
=============================================================================
