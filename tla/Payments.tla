------------------------------ MODULE Payments ------------------------------
(***************************************************************************)
(* The recharge page of the console: the Alipay and the WeChat section,    *)
(* which create an order and poll its status until it is final, the Stripe *)
(* section, which polls the balance after a payment, and the redeem form.  *)
(* react-query is external: a query has at most one request in flight, and *)
(* an invalidation drops that request for a new one.  The payment          *)
(* providers are external as well.                                         *)
(***************************************************************************)
EXTENDS Integers, FiniteSets

CONSTANTS
    Channels,       \* the sections that create an order and poll it
    BalancePolls,   \* the delayed paymentReads of the balance after a card payment
    MaxPaid      \* bound on the credits of the account

ASSUME PaymentsAssumption == BalancePolls \in Nat /\ MaxPaid \in Nat

VARIABLES
    order,          \* per channel, the status of its newest order
    section,        \* per channel, what the section shows
    amount,         \* per channel, the amount typed
    poll,           \* per channel, the status query: asked, or its answer
    told,           \* per channel, the notices that its newest order is paid
    stripe,         \* the card form, and how its SDK came up
    paymentReads,          \* per delayed read of the balance: a timer, or its answer
    redeem,         \* the redeem form: idle, posting or refreshing
    refresh,        \* the profile refetch of the page: asked, or its answer
    balance,        \* the account's balance
    balanceShown    \* the balance in the auth store, which the page shows

paymentVars == <<order, section, amount, poll, told, stripe, paymentReads, redeem,
                 refresh, balance, balanceShown>>

Final == {"paid", "failed"}
Amounts == {"empty", "zero", "some"}
Reads == 1..BalancePolls
Unread == -3
Timer == -2
Asked == -1

PaymentsInit ==
    /\ order = [c \in Channels |-> "none"]
    /\ section = [c \in Channels |-> "form"]
    /\ amount = [c \in Channels |-> "empty"]
    /\ poll = [c \in Channels |-> "idle"]
    /\ told = [c \in Channels |-> 0]
    /\ stripe = [sdk |-> "config", form |-> "idle"]
    /\ paymentReads = [r \in Reads |-> Unread]
    /\ redeem = "idle" /\ refresh = Unread
    /\ balance = 0 /\ balanceShown = 0

(***************************************************************************)
(* An order and its status                                                 *)
(***************************************************************************)

\* Mutant: the polling goes on after the order is final.
PollingAlways(c) == section[c] # "form"

\* The section polls from the moment it shows an order until that is final.
Polling(c) == section[c] = "waiting"

TypeAmount(c, value) ==
    /\ section[c] = "form"
    /\ amount' = [amount EXCEPT ![c] = value]
    /\ UNCHANGED <<order, section, poll, told, stripe, paymentReads, redeem, refresh, balance, balanceShown>>

\* Alipay disables the button for an amount that is not positive, WeChat
\* refuses it when clicked.
HandleCreateOrder(c) ==
    /\ section[c] = "form" /\ amount[c] = "some"
    /\ section' = [section EXCEPT ![c] = "creating"]
    /\ UNCHANGED <<order, amount, poll, told, stripe, paymentReads, redeem, refresh, balance, balanceShown>>

\* Every status query that is enabled is asked anew.
InvalidatePayments(enabled) ==
    poll' = [c \in Channels |-> IF enabled[c] = "waiting" THEN "asked" ELSE poll[c]]

OrderCreated(c) ==
    /\ section[c] = "creating"
    /\ section' = [section EXCEPT ![c] = "waiting"]
    /\ order' = [order EXCEPT ![c] = "pending"]
    /\ told' = [told EXCEPT ![c] = 0]
    /\ InvalidatePayments(section')
    /\ UNCHANGED <<amount, stripe, paymentReads, redeem, refresh, balance, balanceShown>>

OrderRefused(c) ==
    /\ section[c] = "creating"
    /\ section' = [section EXCEPT ![c] = "form"]
    /\ UNCHANGED <<order, amount, poll, told, stripe, paymentReads, redeem, refresh, balance, balanceShown>>

\* Three seconds after an answer, or after a failure, that is not final.
PollTimer(c) ==
    /\ Polling(c) /\ poll[c] = "idle"
    /\ poll' = [poll EXCEPT ![c] = "asked"]
    /\ UNCHANGED <<order, section, amount, told, stripe, paymentReads, redeem, refresh, balance, balanceShown>>

\* Mutant: a failed request ends the polling.
StatusReadOnce(c) ==
    /\ poll[c] = "asked"
    /\ \/ poll' = [poll EXCEPT ![c] = order[c]]
       \/ poll' = [poll EXCEPT ![c] = "stopped"]
    /\ UNCHANGED <<order, section, amount, told, stripe, paymentReads, redeem, refresh, balance, balanceShown>>

StatusRead(c) ==
    /\ poll[c] = "asked"
    /\ \/ poll' = [poll EXCEPT ![c] = order[c]]
       \/ poll' = [poll EXCEPT ![c] = "idle"]
    /\ UNCHANGED <<order, section, amount, told, stripe, paymentReads, redeem, refresh, balance, balanceShown>>

\* refreshBalance asks for the profile anew, in place of a request under way.
RefreshBalance == refresh' = Asked

\* A final status stops the polling; a paid order is announced, and the page
\* reads the balance.
StatusArrives(c) ==
    /\ poll[c] \in Final \cup {"pending"}
    /\ poll' = [poll EXCEPT ![c] = "idle"]
    /\ IF poll[c] \in Final
       THEN section' = [section EXCEPT ![c] = poll[c]] ELSE UNCHANGED section
    /\ IF poll[c] = "paid"
       THEN told' = [told EXCEPT ![c] = @ + 1] /\ RefreshBalance
       ELSE UNCHANGED <<told, refresh>>
    /\ UNCHANGED <<order, amount, stripe, paymentReads, redeem, balance, balanceShown>>

\* The button of a final order.
HandleReset(c) ==
    /\ section[c] \in Final
    /\ section' = [section EXCEPT ![c] = "form"]
    /\ amount' = [amount EXCEPT ![c] = "empty"]
    /\ UNCHANGED <<order, poll, told, stripe, paymentReads, redeem, refresh, balance, balanceShown>>

\* The provider.
OrderEnds(c, status) ==
    /\ order[c] = "pending"
    /\ order' = [order EXCEPT ![c] = status]
    /\ balance' = IF status = "paid" /\ balance < MaxPaid THEN balance + 1 ELSE balance
    /\ UNCHANGED <<section, amount, poll, told, stripe, paymentReads, redeem, refresh, balanceShown>>

(***************************************************************************)
(* The card form                                                           *)
(***************************************************************************)

StripeLoads ==
    /\ \/ /\ stripe.sdk = "config"
          /\ \E sdk \in {"disabled", "loading", "error"} : stripe' = [stripe EXCEPT !.sdk = sdk]
       \/ /\ stripe.sdk = "loading"
          /\ \E sdk \in {"ready", "error"} : stripe' = [stripe EXCEPT !.sdk = sdk]
       \/ stripe.sdk = "error" /\ stripe' = [stripe EXCEPT !.sdk = "config"]
    /\ UNCHANGED <<order, section, amount, poll, told, paymentReads, redeem, refresh, balance, balanceShown>>

\* The form is there once the SDK is; its button waits for the one before.
CardOffered == stripe = [sdk |-> "ready", form |-> "idle"]

\* A preset amount or a positive one.
CardSubmitted ==
    /\ CardOffered
    /\ stripe' = [stripe EXCEPT !.form = "creating"]
    /\ UNCHANGED <<order, section, amount, poll, told, paymentReads, redeem, refresh, balance, balanceShown>>

IntentCreated ==
    /\ stripe.form = "creating"
    /\ stripe' = [stripe EXCEPT !.form = "confirming"]
    /\ InvalidatePayments(section)
    /\ UNCHANGED <<order, section, amount, told, paymentReads, redeem, refresh, balance, balanceShown>>

\* The section remounts the form, and with it goes the screen that thanks.
\* The timers of the paymentReads outlive it.  The webhook credits later.
CardConfirmed ==
    /\ stripe.form = "confirming"
    /\ stripe' = [stripe EXCEPT !.form = "idle"]
    /\ paymentReads' = [r \in Reads |-> IF paymentReads[r] = Unread THEN Timer ELSE paymentReads[r]]
    /\ RefreshBalance
    /\ UNCHANGED <<order, section, amount, poll, told, redeem, balance, balanceShown>>

CardRefused ==
    /\ stripe.form # "idle"
    /\ stripe' = [stripe EXCEPT !.form = "idle"]
    /\ UNCHANGED <<order, section, amount, poll, told, paymentReads, redeem, refresh, balance, balanceShown>>

Webhook ==
    /\ stripe.sdk = "ready" /\ balance < MaxPaid
    /\ balance' = balance + 1
    /\ UNCHANGED <<order, section, amount, poll, told, stripe, paymentReads, redeem, refresh, balanceShown>>

\* pollBalance: the timers fire in order, the answers come in any.
ReadTimer(r) ==
    /\ paymentReads[r] = Timer /\ \A k \in Reads : k < r => paymentReads[k] # Timer
    /\ \E answer \in {Unread, balance} : paymentReads' = [paymentReads EXCEPT ![r] = answer]
    /\ UNCHANGED <<order, section, amount, poll, told, stripe, redeem, refresh, balance, balanceShown>>

ReadArrives(r) ==
    /\ paymentReads[r] >= 0
    /\ balanceShown' = paymentReads[r]
    /\ paymentReads' = [paymentReads EXCEPT ![r] = Unread]
    /\ UNCHANGED <<order, section, amount, poll, told, stripe, redeem, refresh, balance>>

(***************************************************************************)
(* The redeem form, and the refresh of the balance                         *)
(***************************************************************************)

HandleRedeem ==
    /\ redeem = "idle" /\ redeem' = "posting"
    /\ UNCHANGED <<order, section, amount, poll, told, stripe, paymentReads, refresh, balance, balanceShown>>

\* The form is posting until the balance has been read again.
Redeemed ==
    /\ redeem = "posting" /\ balance < MaxPaid
    /\ balance' = balance + 1
    /\ redeem' = "refreshing" /\ RefreshBalance
    /\ UNCHANGED <<order, section, amount, poll, told, stripe, paymentReads, balanceShown>>

RedeemRefused ==
    /\ redeem = "posting" /\ redeem' = "idle"
    /\ UNCHANGED <<order, section, amount, poll, told, stripe, paymentReads, refresh, balance, balanceShown>>

Refreshed == IF redeem = "refreshing" THEN "idle" ELSE redeem

RefreshRead ==
    /\ refresh = Asked
    /\ \E answer \in {Unread, balance} : refresh' = answer
    /\ redeem' = IF refresh' = Unread THEN Refreshed ELSE redeem
    /\ UNCHANGED <<order, section, amount, poll, told, stripe, paymentReads, balance, balanceShown>>

RefreshArrives ==
    /\ refresh >= 0
    /\ balanceShown' = refresh
    /\ refresh' = Unread /\ redeem' = Refreshed
    /\ UNCHANGED <<order, section, amount, poll, told, stripe, paymentReads, balance>>

PaymentsNext ==
    \/ \E c \in Channels :
        \/ \E value \in Amounts : TypeAmount(c, value)
        \/ HandleCreateOrder(c) \/ OrderCreated(c) \/ OrderRefused(c)
        \/ PollTimer(c) \/ StatusRead(c) \/ StatusArrives(c) \/ HandleReset(c)
        \/ \E status \in Final : OrderEnds(c, status)
    \/ StripeLoads \/ CardSubmitted \/ IntentCreated \/ CardConfirmed \/ CardRefused
    \/ Webhook \/ HandleRedeem \/ Redeemed \/ RedeemRefused
    \/ RefreshRead \/ RefreshArrives
    \/ \E r \in Reads : ReadTimer(r) \/ ReadArrives(r)

PaymentsSpec == PaymentsInit /\ [][PaymentsNext]_paymentVars

\* Timers fire and requests are answered: in the end not by a failure, nor are
\* they dropped for ever by a person who creates payments faster than that.
PaymentsFairness ==
    \A c \in Channels :
        /\ WF_paymentVars(PollTimer(c))
        /\ SF_paymentVars(StatusRead(c) /\ poll'[c] = order[c])
        /\ SF_paymentVars(StatusArrives(c))

(***************************************************************************)
(* Properties                                                              *)
(***************************************************************************)

\* The person is told that an order is paid only when it is, and once,
\* however many answers come.
PaidToldOnce ==
    \A c \in Channels : told[c] <= 1 /\ (told[c] = 1 => order[c] = "paid")

\* An order that was paid while the section waits for it is announced: lost
\* answers, and the payments made beside it, which drop the request under
\* way, do not end the polling.
PaidIsNoticed ==
    \A c \in Channels :
        (order[c] = "paid" /\ section[c] = "waiting") ~> told[c] = 1
=============================================================================
