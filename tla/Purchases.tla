----------------------------- MODULE Purchases ------------------------------
(***************************************************************************)
(* Buying one subscription package with the account's balance:             *)
(* SubscriptionsPage.tsx in the tabs of one user, and the handler that     *)
(* debits, creates and, when the creation fails, credits again             *)
(* (handler_subscription.go).  Its statements run with the context of the  *)
(* request, which ends when the tab goes away.  The ledger is the one of   *)
(* Account: a debit never takes more than there is.                        *)
(***************************************************************************)
EXTENDS Integers, FiniteSets

CONSTANTS
    Tabs,       \* the tabs of the user
    Price,      \* what the package costs
    Funds,      \* the balance at first
    MaxBought   \* bound on the subscriptions

ASSUME PurchasesAssumption ==
    Price \in Nat \ {0} /\ Funds \in Nat /\ MaxBought \in Nat /\ IsFiniteSet(Tabs)

VARIABLES
    money,      \* the balance of the account
    subs,       \* the active subscriptions of the user to the package
    lost,       \* debits whose compensation failed
    tab,        \* per tab, what its page holds
    job,        \* per tab, where its purchase is
    hungUp      \* the purchases whose tab has gone away

purchaseVars == <<money, subs, lost, tab, job, hungUp>>

Unknown == -1
\* A page: loading or not, whether it knows of a subscription, the balance it
\* knows, and whether the dialog is open.
Fresh == [loading |-> TRUE, owned |-> FALSE, balance |-> Unknown, checkout |-> FALSE]

PurchasesInit ==
    /\ money = Funds /\ subs = 0 /\ lost = 0
    /\ tab = [t \in Tabs |-> Fresh]
    /\ job = [t \in Tabs |-> "none"]
    /\ hungUp = {}

(***************************************************************************)
(* The page                                                                *)
(***************************************************************************)

\* The three answers of loadData are taken as read at once.  The packages and
\* the profile may fail alone; without the subscriptions nothing is stored.
LoadData(t) ==
    /\ tab[t].loading
    /\ \/ \E known \in {money, Unknown} :
            tab' = [tab EXCEPT ![t] = [@ EXCEPT !.loading = FALSE, !.owned = subs > 0,
                                                !.balance = known]]
       \/ tab' = [tab EXCEPT ![t].loading = FALSE]
    /\ UNCHANGED <<money, subs, lost, job, hungUp>>

\* The package is among the active subscriptions that the page knows.
Owned(t) == tab[t].owned

CanBuy(t) ==
    /\ ~tab[t].loading /\ ~Owned(t)
    /\ tab[t].balance # Unknown /\ tab[t].balance >= Price

OpenCheckout(t) ==
    /\ CanBuy(t)
    /\ tab' = [tab EXCEPT ![t].checkout = TRUE]
    /\ UNCHANGED <<money, subs, lost, job, hungUp>>

CancelCheckout(t) ==
    /\ tab[t].checkout
    /\ tab' = [tab EXCEPT ![t].checkout = FALSE]
    /\ UNCHANGED <<money, subs, lost, job, hungUp>>

ConfirmPurchase(t) ==
    /\ tab[t].checkout /\ job[t] = "none"
    /\ job' = [job EXCEPT ![t] = "sent"]
    /\ UNCHANGED <<money, subs, lost, tab, hungUp>>

\* The balance of the store, which another page has read, replaces the one
\* the page has read.
StoreBalance(t) ==
    /\ tab[t].balance # money
    /\ tab' = [tab EXCEPT ![t].balance = money]
    /\ UNCHANGED <<money, subs, lost, job, hungUp>>

\* The tab is closed or reloaded: the page begins anew, the handler goes on
\* with a context that is done.
HangUp(t) ==
    /\ tab' = [tab EXCEPT ![t] = Fresh]
    /\ hungUp' = IF job[t] = "none" THEN hungUp ELSE hungUp \cup {t}
    /\ UNCHANGED <<money, subs, lost, job>>

(***************************************************************************)
(* The handler                                                             *)
(***************************************************************************)

To(t, phase) == job' = [job EXCEPT ![t] = phase]

\* The preflight, the package or the debit refuses.
Refuse(t) ==
    /\ job[t] = "sent"
    /\ To(t, "refused")
    /\ UNCHANGED <<money, subs, lost, tab, hungUp>>

DebitPrice(t) ==
    /\ job[t] = "sent" /\ t \notin hungUp
    /\ money >= Price
    /\ money' = money - Price
    /\ To(t, "debited")
    /\ UNCHANGED <<subs, lost, tab, hungUp>>

CreateSubscription(t) ==
    /\ job[t] = "debited" /\ t \notin hungUp /\ subs < MaxBought
    /\ subs' = subs + 1
    /\ To(t, "created")
    /\ UNCHANGED <<money, lost, tab, hungUp>>

\* The insert fails: of itself, or since the context is done.
CreateFails(t) ==
    /\ job[t] = "debited"
    /\ To(t, "uncreated")
    /\ UNCHANGED <<money, subs, lost, tab, hungUp>>

\* Mutant: the credit is tried again when the request is hung up.
CompensateTwice(t) ==
    /\ job[t] = "uncreated"
    /\ money' = money + Price
    /\ IF t \in hungUp THEN UNCHANGED job ELSE To(t, "refused")
    /\ UNCHANGED <<subs, lost, tab, hungUp>>

\* The credit has the context of the request too, and may fail of itself.
Compensate(t) ==
    /\ job[t] = "uncreated"
    /\ \/ lost' = lost + 1 /\ UNCHANGED money
       \/ t \notin hungUp /\ money' = money + Price /\ UNCHANGED lost
    /\ To(t, "refused")
    /\ UNCHANGED <<subs, tab, hungUp>>

\* Success answers with the balance, and the page loads everything again.  A
\* refusal leaves the dialog open, and so does a purchase whose balance could
\* not be read for the answer.
PurchaseAnswered(t) ==
    /\ job[t] \in {"created", "refused"}
    /\ To(t, "none")
    /\ \/ UNCHANGED tab
       \/ /\ job[t] = "created" /\ t \notin hungUp
          /\ tab' = [tab EXCEPT ![t] = [@ EXCEPT !.loading = TRUE, !.checkout = FALSE,
                                                 !.balance = money]]
    /\ hungUp' = hungUp \ {t}
    /\ UNCHANGED <<money, subs, lost>>

PurchasesNext ==
    \E t \in Tabs :
        \/ LoadData(t) \/ OpenCheckout(t) \/ CancelCheckout(t) \/ ConfirmPurchase(t)
        \/ StoreBalance(t) \/ HangUp(t)
        \/ Refuse(t) \/ DebitPrice(t) \/ CreateSubscription(t) \/ CreateFails(t)
        \/ Compensate(t) \/ PurchaseAnswered(t)

PurchasesSpec == PurchasesInit /\ [][PurchasesNext]_purchaseVars

(***************************************************************************)
(* Properties                                                              *)
(***************************************************************************)

Open == {t \in Tabs : job[t] \in {"debited", "uncreated"}}

\* However two tabs buy at once, fail and hang up, the money that left the
\* account is in subscriptions, in purchases under way, or in compensations
\* that failed, and no more left it than was there.
MoneyAccounted ==
    /\ money >= 0
    /\ money + Price * (subs + Cardinality(Open) + lost) = Funds
=============================================================================
