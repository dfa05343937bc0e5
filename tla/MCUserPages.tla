----------------------------- MODULE MCUserPages ----------------------------
(***************************************************************************)
(* The pages of a user whose safety is checked, the lists of both sides,   *)
(* and what the server does with redeem codes and with the keys of a user, *)
(* in one run.  Leaving a route unmounts its page and the state of the page*)
(* is gone, so a behaviour stays on one page: the sum of the scenes is     *)
(* explored, not their product.                                            *)
(***************************************************************************)
EXTENDS Tickets, Purchases, ListPages, ApiKeys, Redemption, Access, TLC

CONSTANTS
    Scenes,    \* the pages that are explored
    c1, c2

VARIABLE scene     \* the page of this behaviour

pageVars == <<ticketVars, purchaseVars, listVars, keyVars, redeemVars, accessVars, scene>>

MCCallers == {c1, c2}
MCSymmetry == Permutations(Callers)

MCConsoles ==
    {{"tickets", "adminTickets"}, {"orders", "subscriptions"}, {"refunds"}, {"adminOrders"},
     {"auditLogs"}, {"adminRefunds"}, {"balanceHistory"}, {"usage", "usageLogs"}, {"users"}}

\* A page that is not open has its first initial state.
PagesInit ==
    /\ scene \in Scenes
    /\ TicketsInit /\ (scene # "tickets" => me = "user")
    /\ ListInit /\ (scene # "lists" => listPages = {"users"})
    /\ PurchasesInit /\ KeysInit /\ RedeemInit
    /\ AccessInit /\ (scene # "access" => userStatus = "active")
    /\ (scene # "access" \/ userStatus # "active" => keyGroup # NoGroup)

PagesNext ==
    /\ UNCHANGED scene
    /\ IF scene = "tickets" THEN TicketsNext ELSE UNCHANGED ticketVars
    /\ IF scene = "purchases" THEN PurchasesNext ELSE UNCHANGED purchaseVars
    /\ IF scene = "lists" THEN ListNext ELSE UNCHANGED listVars
    /\ IF scene = "keys" THEN KeysNext ELSE UNCHANGED keyVars
    /\ IF scene = "redeem" THEN RedeemNext ELSE UNCHANGED redeemVars
    /\ IF scene = "access" THEN AccessNext ELSE UNCHANGED accessVars

PagesSpec == PagesInit /\ [][PagesNext]_pageVars
=============================================================================
