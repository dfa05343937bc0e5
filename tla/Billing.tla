------------------------------ MODULE Billing -------------------------------
(***************************************************************************)
(* The billing pipeline of one user: HoldMiddleware (src/sdk/holdmw.go)    *)
(* takes each request through its gates and reserves money for it, the     *)
(* executors (src/executor) publish a usage record for each attempt, and   *)
(* UsagePlugin (src/sdk/usage.go), on the one goroutine that hands out the *)
(* records, settles or releases the hold and writes the usage log.  The    *)
(* calls of the ledger are the atomic steps of this module; module Ledger  *)
(* takes them apart.                                                       *)
(***************************************************************************)
EXTENDS Integers, Sequences, FiniteSets, Functions

CONSTANTS
    Requests,        \* the requests of the user
    Traces,          \* the trace ids they arrive with
    Key,             \* Key[r]: the Idempotency-Key of r
    Periods,         \* the periods of the quota: day, week, month
    Limit,           \* Limit[p]: the quota of each period
    InitialBalance,
    HoldCost,        \* Estimate(model, stream, rateMult)
    StreamCost,      \* Estimate(model, TRUE, rateMult)
    UpperBound,      \* the larger of those and of EstimateWithMaxTokens
    Costs,           \* what Compute makes of a usage envelope
    Strict,          \* the values strictUsageMetadata may have when it is read
    Subscribed,      \* whether the user's key has a subscription
    MaxTries,        \* bound: failed attempts of a request
    Deposits,        \* the amounts of credits
    MaxDeposit,      \* bound on the sum of the credits
    Expiry,          \* whether the ttl of a hold may pass
    Silence,         \* whether a response may succeed without a usage record
    Panics,          \* whether a handler may panic
    Faults           \* whether commands fail and the gateway may die

ASSUME BillingAssumption ==
    /\ Limit \in [Periods -> Nat]
    /\ {InitialBalance, HoldCost, StreamCost, UpperBound, MaxTries, MaxDeposit}
          \subseteq Nat
    /\ 0 < HoldCost /\ HoldCost <= StreamCost /\ StreamCost <= UpperBound
    /\ Costs \subseteq Nat /\ Deposits \subseteq Nat \ {0}
    /\ {Subscribed, Expiry, Silence, Panics, Faults} \subseteq BOOLEAN
    /\ Strict \subseteq BOOLEAN
    /\ "none" \notin Requests

VARIABLES
    balance,    \* users.balance
    shortfalls, \* the settle rows with a shortfall that nobody resolved
    holds,      \* holds[t]: the amount reserved under trace id t, 0 for none
    usage,      \* usage[p]: the subscription's counter of period p
    due,        \* due[p]: p's reset time has passed and nobody reset it yet
    active,     \* the subscription is active and not past its end
    at,         \* at[r]: where the handler of request r is
    trace,      \* trace[r]: the RequestID in r's SettleCtx
    tries,      \* tries[r]: the attempts of r that failed
    queue,      \* the usage records published and not handed out
    plugin,     \* what HandleUsage is at: [step, rec]
    bill,       \* bill[r]: what r was charged, logged and owes (history)
    owing,      \* owing[r]: r arrived in debt, not resolved since (history)
    spent,      \* spent[p]: what was counted since p began (history)
    excused,    \* requests kept from being finished by a fault, a panic,
                \* strict mode or a missing record (history)
    deposited   \* the sum of the credits (history)

vars == <<balance, shortfalls, holds, usage, due, active, at, trace, tries,
          queue, plugin, bill, owing, spent, excused, deposited>>

money == <<balance, shortfalls, deposited>>
quota == <<usage, due, active, spent>>
flow  == <<trace, tries, owing>>

\* A published record: precise or missing usage, or a failed attempt.
Rec(r, kind, cost) == [req |-> r, kind |-> kind, cost |-> cost]

NoRec == [req |-> "none", kind |-> "none", cost |-> 0]
Waiting == [step |-> "idle", rec |-> NoRec]

\* Records of r that were published and are not completely handled.
Pending(r) ==
    \/ plugin.rec.req = r
    \/ \E i \in DOMAIN queue : queue[i].req = r

\* r is between its hold and the end of its handler.
InFlight(r) == at[r] \in {"upstream", "erroring"}

Excuse(r) == excused' = excused \cup {r}

Larger(a, b) == IF a >= b THEN a ELSE b

(***************************************************************************)
(* HoldMiddleware                                                          *)
(***************************************************************************)

Goto(r, step) == at' = [at EXCEPT ![r] = step]

\* The keys with a stored response: IdempotencyManager.Store has no caller.
Stored == {}

\* A request arrives.  Its trace id comes with it or is generated.  The rate
\* limiter or the circuit breaker may turn it away, and a stored response
\* would be sent again.
Arrive(r) ==
    /\ at[r] = "new"
    /\ \E step \in {"debt", "refused"} :
          /\ Key[r] \in Stored => step = "refused"
          /\ Goto(r, step)
    /\ \E t \in Traces : trace' = [trace EXCEPT ![r] = t]
    /\ owing' = [owing EXCEPT ![r] = shortfalls > 0]
    /\ UNCHANGED <<money, quota, holds, tries, queue, plugin, bill, excused>>

\* Mutant: a failed lookup lets the request through.
CheckDebtOpen(r) ==
    /\ at[r] = "debt"
    /\ \/ (shortfalls = 0 \/ Faults) /\ Goto(r, IF Subscribed THEN "quota" ELSE "balance")
       \/ (shortfalls > 0) /\ Goto(r, "refused")
    /\ UNCHANGED <<money, quota, flow, holds, queue, plugin, bill, excused>>

\* HasUnresolvedShortfall.  A failed lookup refuses the request.
CheckDebt(r) ==
    /\ at[r] = "debt"
    /\ \/ shortfalls = 0 /\ Goto(r, IF Subscribed THEN "quota" ELSE "balance")
       \/ (shortfalls > 0 \/ Faults) /\ Goto(r, "refused")
    /\ UNCHANGED <<money, quota, flow, holds, queue, plugin, bill, excused>>

\* Mutant: the counters are checked before they are reset.
CheckQuotaLate(r) ==
    /\ at[r] = "quota"
    /\ usage' = [p \in Periods |-> IF due[p] THEN 0 ELSE usage[p]]
    /\ due' = [p \in Periods |-> FALSE]
    /\ Goto(r, IF \A p \in Periods : usage[p] + HoldCost <= Limit[p]
               THEN "balance" ELSE "overquota")
    /\ UNCHANGED <<money, flow, active, spent, holds, queue, plugin, bill, excused>>

\* checkSubscriptionQuota: one transaction resets the counters whose period
\* ended, which also a refusal commits, and compares.
CheckQuota(r) ==
    /\ at[r] = "quota"
    /\ usage' = [p \in Periods |-> IF due[p] THEN 0 ELSE usage[p]]
    /\ due' = [p \in Periods |-> FALSE]
    /\ Goto(r, IF \A p \in Periods : usage'[p] + HoldCost <= Limit[p]
               THEN "balance" ELSE "overquota")
    /\ UNCHANGED <<money, flow, active, spent, holds, queue, plugin, bill, excused>>

\* The transaction fails: the request is refused and nothing is reset.
QuotaFails(r) ==
    /\ Faults
    /\ at[r] = "quota"
    /\ Goto(r, "refused")
    /\ UNCHANGED <<money, quota, flow, holds, queue, plugin, bill, excused>>

\* The balance less the live holds.
Available == balance - SumFunction(holds)

\* GetBalance against the upper bound.  A failed lookup reads as 0.
Preflight(r) ==
    /\ at[r] = "balance"
    /\ \/ Available >= UpperBound /\ Goto(r, "hold")
       \/ (Available < UpperBound \/ Faults) /\ Goto(r, "refused")
    /\ UNCHANGED <<money, quota, flow, holds, queue, plugin, bill, excused>>

\* Ledger.Hold.  A hold under a trace id that has one replaces it.
Hold(r) ==
    /\ at[r] = "hold"
    /\ IF HoldCost <= Available
       THEN /\ holds' = [holds EXCEPT ![trace[r]] = HoldCost]
            /\ Goto(r, "upstream")
       ELSE Goto(r, "refused") /\ UNCHANGED holds
    /\ UNCHANGED <<money, quota, flow, queue, plugin, bill, excused>>

\* Redis fails, before or after it ran the script: the request is refused,
\* and nobody releases the hold it may have placed.
HoldFails(r) ==
    /\ Faults
    /\ at[r] = "hold"
    /\ Goto(r, "refused")
    /\ \/ UNCHANGED <<holds, excused>>
       \/ /\ HoldCost <= Available
          /\ holds' = [holds EXCEPT ![trace[r]] = HoldCost]
          /\ Excuse(r)
    /\ UNCHANGED <<money, quota, flow, queue, plugin, bill>>

(***************************************************************************)
(* The executors, and the end of the handler                               *)
(***************************************************************************)

Publish(rec) == queue' = Append(queue, rec)

\* An attempt fails.  An upstream status publishes a record, a transport
\* error does not.  The SDK may try another credential.
AttemptFails(r) ==
    /\ at[r] = "upstream"
    /\ tries[r] < MaxTries
    /\ tries' = [tries EXCEPT ![r] = @ + 1]
    /\ Publish(Rec(r, "failed", 0)) \/ UNCHANGED queue
    /\ UNCHANGED <<money, quota, at, trace, owing, holds, plugin, bill, excused>>

\* No attempt is left: the client gets a status of 400 or more.
GiveUp(r) ==
    /\ at[r] = "upstream"
    /\ Goto(r, "erroring")
    /\ UNCHANGED <<money, quota, flow, holds, queue, plugin, bill, excused>>

\* An attempt succeeds and the response starts with a status below 400.  The
\* record has the usage, or the upstream did not send it.
Serve(r) ==
    /\ at[r] = "upstream"
    /\ Goto(r, "done")
    /\ \/ \E c \in Costs :
             /\ Publish(Rec(r, "precise", c))
             /\ bill' = [bill EXCEPT ![r].owed = c]
       \/ /\ Publish(Rec(r, "missing", 0))
          /\ bill' = [bill EXCEPT ![r].owed = StreamCost]
    /\ UNCHANGED <<money, quota, flow, holds, plugin, excused>>

\* The stream breaks or the client hangs up after the status was sent.
Break(r) ==
    /\ at[r] = "upstream"
    /\ Goto(r, "done")
    /\ Publish(Rec(r, "failed", 0))
    /\ UNCHANGED <<money, quota, flow, holds, plugin, bill, excused>>

\* A status below 400 without a record: CountTokens and the listings under
\* /v1/ publish none, and a stream whose reader has gone never gets to it.
ServeSilently(r) ==
    /\ Silence
    /\ at[r] = "upstream"
    /\ Goto(r, "done")
    /\ Excuse(r)
    /\ UNCHANGED <<money, quota, flow, holds, queue, plugin, bill>>

\* A panic unwinds through the deferred function while the status is 200.
Panic(r) ==
    /\ Panics
    /\ at[r] = "upstream"
    /\ Goto(r, "done")
    /\ Excuse(r)
    /\ UNCHANGED <<money, quota, flow, holds, queue, plugin, bill>>

\* Mutant: the deferred function leaves the hold to the plugin.
DeferredNoRelease(r) ==
    /\ at[r] = "erroring"
    /\ Goto(r, "done")
    /\ UNCHANGED <<money, quota, flow, holds, queue, plugin, bill, excused>>

\* The deferred function releases the hold when the status is 400 or more.
DeferredRelease(r) ==
    /\ at[r] = "erroring"
    /\ Goto(r, "done")
    /\ \/ holds' = [holds EXCEPT ![trace[r]] = 0] /\ UNCHANGED excused
       \/ Faults /\ Excuse(r) /\ UNCHANGED holds
    /\ UNCHANGED <<money, quota, flow, queue, plugin, bill>>

(***************************************************************************)
(* UsagePlugin                                                             *)
(***************************************************************************)

Step(name, rec) == plugin' = [step |-> name, rec |-> rec]

\* The trace id of the record that is handled.
Held == trace[plugin.rec.req]

\* The hold is deleted.  A Redis failure is ignored.
Free(t, then) ==
    /\ Step(then, plugin.rec)
    /\ \/ holds' = [holds EXCEPT ![t] = 0] /\ UNCHANGED excused
       \/ Faults /\ Excuse(plugin.rec.req) /\ UNCHANGED holds

\* HandleUsage gets the next record.  In strict mode a success without usage
\* is only logged, and its hold left to expire.
HandleUsage ==
    /\ plugin.step = "idle"
    /\ queue # <<>>
    /\ queue' = Tail(queue)
    /\ LET rec == Head(queue)
       IN  \/ rec.kind = "failed" /\ Step("release", rec) /\ UNCHANGED excused
           \/ rec.kind = "precise" /\ Step("settle", rec) /\ UNCHANGED excused
           \/ /\ rec.kind = "missing"
              /\ \E strict \in Strict :
                    IF strict THEN Step("fail", rec) /\ Excuse(rec.req)
                              ELSE Step("lookup", rec) /\ UNCHANGED excused
    /\ UNCHANGED <<money, quota, flow, at, holds, bill>>

\* Mutant: the hold of a failed request is left to the middleware.
ReleaseNothing ==
    /\ plugin.step = "release"
    /\ Step("fail", plugin.rec)
    /\ UNCHANGED <<money, quota, flow, at, holds, queue, bill, excused>>

\* A failed attempt: Ledger.Release.
Release ==
    /\ plugin.step = "release"
    /\ Free(Held, "fail")
    /\ UNCHANGED <<money, quota, flow, at, queue, bill>>

\* Mutant: the hold alone is the fallback cost.
LookupHold ==
    /\ plugin.step = "lookup"
    /\ Step("settle", [plugin.rec EXCEPT !.cost = holds[Held]])
    /\ UNCHANGED <<money, quota, flow, at, holds, queue, bill, excused>>

\* ActiveHoldAmount, and the cost a missing usage falls back to.
Lookup ==
    /\ plugin.step = "lookup"
    /\ \/ /\ Step("settle", [plugin.rec EXCEPT
                               !.cost = Larger(holds[Held], StreamCost)])
          /\ UNCHANGED excused
       \/ Faults /\ Step("fail", plugin.rec) /\ Excuse(plugin.rec.req)
    /\ UNCHANGED <<money, quota, flow, at, holds, queue, bill>>

\* Ledger.Settle commits: the balance pays what it can, the rest is a
\* shortfall.
Charge(r, cost) ==
    /\ balance' = IF cost <= balance THEN balance - cost ELSE 0
    /\ shortfalls' = IF cost <= balance THEN shortfalls ELSE shortfalls + 1
    /\ bill' = [bill EXCEPT ![r].charged = @ + cost, ![r].settles = @ + 1]
    /\ UNCHANGED deposited

\* Ledger.Settle, in a transaction of its own.
Settle ==
    /\ plugin.step = "settle"
    /\ plugin.rec.cost > 0
    /\ Charge(plugin.rec.req, plugin.rec.cost)
    /\ Step("clear", plugin.rec)
    /\ UNCHANGED <<quota, flow, at, holds, queue, excused>>

\* Ledger.Settle of a cost of 0 deletes the hold and touches no row.
SettleNothing ==
    /\ plugin.step = "settle"
    /\ plugin.rec.cost = 0
    /\ Free(Held, "record")
    /\ UNCHANGED <<money, quota, flow, at, queue, bill>>

\* Ledger.Settle fails before its commit.
SettleFails ==
    /\ Faults
    /\ plugin.step = "settle"
    /\ plugin.rec.cost > 0
    /\ Step("fail", plugin.rec)
    /\ Excuse(plugin.rec.req)
    /\ UNCHANGED <<money, quota, flow, at, holds, queue, bill>>

\* Mutant: the settlement is tried again when its hold could not be deleted.
ClearRetries ==
    /\ plugin.step = "clear"
    /\ \/ /\ holds' = [holds EXCEPT ![Held] = 0]
          /\ Step("record", plugin.rec)
          /\ UNCHANGED excused
       \/ /\ Faults
          /\ Step("settle", plugin.rec)
          /\ Excuse(plugin.rec.req)
          /\ UNCHANGED holds
    /\ UNCHANGED <<money, quota, flow, at, queue, bill>>

\* After the commit Ledger.Settle deletes the hold.  A Redis failure is an
\* error of the whole settlement, although the charge stays.
Clear ==
    /\ plugin.step = "clear"
    /\ \/ /\ holds' = [holds EXCEPT ![Held] = 0]
          /\ Step("record", plugin.rec)
          /\ UNCHANGED excused
       \/ /\ Faults
          /\ Step("fail", plugin.rec)
          /\ Excuse(plugin.rec.req)
          /\ UNCHANGED holds
    /\ UNCHANGED <<money, quota, flow, at, queue, bill>>

\* Mutant: a failed settlement is logged as a success.
WriteFailedAsPaid ==
    /\ plugin.step = "fail"
    /\ plugin' = Waiting
    /\ bill' = [bill EXCEPT ![plugin.rec.req].logged = @ + plugin.rec.cost]
    /\ UNCHANGED <<money, quota, flow, at, holds, queue, excused>>

\* The UsageLog row with Failed, or nothing when the insert fails.
WriteFailed ==
    /\ plugin.step = "fail"
    /\ plugin' = Waiting
    /\ UNCHANGED <<money, quota, flow, at, holds, queue, bill, excused>>

\* Adds a cost to the counters of a subscription that is still active.
Counted(f, cost) ==
    IF Subscribed /\ active THEN [p \in Periods |-> f[p] + cost] ELSE f

\* The transaction around Settle: the UsageLog row and the counters.
Record ==
    /\ plugin.step = "record"
    /\ plugin' = Waiting
    /\ bill' = [bill EXCEPT ![plugin.rec.req].logged = @ + plugin.rec.cost]
    /\ usage' = Counted(usage, plugin.rec.cost)
    /\ spent' = Counted(spent, plugin.rec.cost)
    /\ UNCHANGED <<money, due, active, flow, at, holds, queue, excused>>

\* It fails: the charge is not undone.
RecordFails ==
    /\ Faults
    /\ plugin.step = "record"
    /\ Step("fail", plugin.rec)
    /\ Excuse(plugin.rec.req)
    /\ UNCHANGED <<money, quota, flow, at, holds, queue, bill>>

(***************************************************************************)
(* Everything else                                                         *)
(***************************************************************************)

\* A redeemed code or a compensation: Ledger.Credit.
Deposit(a) ==
    /\ deposited + a <= MaxDeposit
    /\ deposited' = deposited + a
    /\ balance' = balance + a
    /\ UNCHANGED <<shortfalls, quota, flow, at, holds, queue, plugin, bill, excused>>

\* Operations write the shortfall_resolve row of a shortfall.
Resolve ==
    /\ shortfalls > 0
    /\ shortfalls' = shortfalls - 1
    /\ owing' = [r \in Requests |-> owing[r] /\ shortfalls' > 0]
    /\ UNCHANGED <<balance, deposited, quota, at, trace, tries, holds, queue,
                   plugin, bill, excused>>

\* The ttl of a hold passes.
HoldExpires(t) ==
    /\ Expiry
    /\ holds[t] # 0
    /\ holds' = [holds EXCEPT ![t] = 0]
    /\ UNCHANGED <<money, quota, flow, at, queue, plugin, bill, excused>>

\* A period ends.
PeriodEnds(p) ==
    /\ Subscribed
    /\ ~due[p]
    /\ due' = [due EXCEPT ![p] = TRUE]
    /\ spent' = [spent EXCEPT ![p] = 0]
    /\ UNCHANGED <<money, usage, active, flow, at, holds, queue, plugin, bill,
                   excused>>

\* The subscription ends.  Requests that were admitted with it go on.
SubscriptionEnds ==
    /\ Subscribed
    /\ active
    /\ active' = FALSE
    /\ UNCHANGED <<money, usage, due, spent, flow, at, holds, queue, plugin,
                   bill, excused>>

\* The gateway dies: its requests, its queue and the record in hand are lost.
Crash ==
    /\ Faults
    /\ at' = [r \in Requests |-> IF at[r] = "new" THEN "new" ELSE "done"]
    /\ queue' = <<>>
    /\ plugin' = Waiting
    /\ excused' = excused \cup {r \in Requests : InFlight(r) \/ Pending(r)}
    /\ UNCHANGED <<money, quota, flow, holds, bill>>

(***************************************************************************)
(* Specification                                                           *)
(***************************************************************************)

Init ==
    /\ balance = InitialBalance /\ shortfalls = 0 /\ deposited = 0
    /\ holds = [t \in Traces |-> 0]
    /\ usage = [p \in Periods |-> 0] /\ spent = [p \in Periods |-> 0]
    /\ due = [p \in Periods |-> FALSE] /\ active = TRUE
    /\ at = [r \in Requests |-> "new"]
    /\ trace = [r \in Requests |-> "none"]
    /\ tries = [r \in Requests |-> 0]
    /\ queue = <<>> /\ plugin = Waiting
    /\ bill = [r \in Requests |->
                  [charged |-> 0, settles |-> 0, logged |-> 0, owed |-> 0]]
    /\ owing = [r \in Requests |-> FALSE]
    /\ excused = {}

\* The handler of r takes a step.
Handle(r) ==
    \/ CheckDebt(r) \/ CheckQuota(r) \/ QuotaFails(r) \/ Preflight(r)
    \/ Hold(r) \/ HoldFails(r) \/ AttemptFails(r) \/ GiveUp(r) \/ Serve(r)
    \/ Break(r) \/ ServeSilently(r) \/ Panic(r) \/ DeferredRelease(r)

\* The goroutine that hands out the records takes a step.
Dispatch ==
    \/ HandleUsage \/ Release \/ Lookup \/ Settle \/ SettleNothing
    \/ SettleFails \/ Clear \/ WriteFailed \/ Record \/ RecordFails

Environment ==
    \/ \E a \in Deposits : Deposit(a)
    \/ \E t \in Traces : HoldExpires(t)
    \/ \E p \in Periods : PeriodEnds(p)
    \/ Resolve \/ SubscriptionEnds \/ Crash

Next ==
    \/ \E r \in Requests : Arrive(r) \/ Handle(r)
    \/ Dispatch
    \/ Environment

Spec == Init /\ [][Next]_vars

\* Handlers and the dispatcher run; nothing makes requests arrive or holds
\* expire.
LiveSpec ==
    /\ Spec
    /\ \A r \in Requests : WF_vars(Handle(r))
    /\ WF_vars(Dispatch)

(***************************************************************************)
(* Properties                                                              *)
(***************************************************************************)

Places == {"new", "debt", "quota", "balance", "hold", "upstream", "erroring",
           "done", "refused", "overquota"}

Records == [req : Requests, kind : {"precise", "missing", "failed"}, cost : Nat]

Calls == {"release", "lookup", "settle", "clear", "record", "fail"}

MoneyTyped ==
    /\ balance \in Nat /\ shortfalls \in Nat /\ deposited \in Nat
    /\ holds \in [Traces -> Nat]

QuotaTyped ==
    /\ usage \in [Periods -> Nat] /\ spent \in [Periods -> Nat]
    /\ due \in [Periods -> BOOLEAN] /\ active \in BOOLEAN

HandlersTyped ==
    /\ at \in [Requests -> Places]
    /\ trace \in [Requests -> Traces \cup {"none"}]
    /\ \A r \in Requests : at[r] # "new" => trace[r] \in Traces
    /\ tries \in [Requests -> 0..MaxTries]
    /\ owing \in [Requests -> BOOLEAN]

RecordsTyped ==
    /\ queue \in Seq(Records)
    /\ plugin = Waiting \/ plugin \in [step : Calls, rec : Records]

BillTyped ==
    /\ bill \in [Requests -> [charged : Nat, settles : Nat, logged : Nat, owed : Nat]]
    /\ excused \subseteq Requests

\* Every variable has its type, and a request that has arrived has its trace id.
BillingTypeOK ==
    MoneyTyped /\ QuotaTyped /\ HandlersTyped /\ RecordsTyped /\ BillTyped

\* What the usage log says was paid was charged: failing commands and crashes
\* may leave a charge without its row, never a row without its charge.
LogsBacked == \A r \in Requests : bill[r].logged <= bill[r].charged

\* A request is settled once at most, although a settlement whose hold could
\* not be deleted returns an error after its commit.
ChargedOnce == \A r \in Requests : bill[r].settles <= 1

\* An upstream success whose record is handled is charged at least what its
\* usage says, or the fallback when there is none, even if its hold is gone:
\* released by a failed attempt, replaced under the same trace id, or expired.
OutputPaid ==
    \A r \in Requests \ excused :
        ~Pending(r) => bill[r].charged >= bill[r].owed

\* A hold is there for a request that runs or whose record is on the way.
\* Only what a fault, a panic, strict mode or a missing record interrupted
\* leaves one to its ttl.
HoldsHaveOwner ==
    \A t \in Traces : holds[t] # 0 =>
        \E r \in Requests :
            trace[r] = t /\ (InFlight(r) \/ Pending(r) \/ r \in excused)

\* A request that arrives while its user owes gets past the gate only when
\* the debt was resolved in between, whatever lookups fail.
DebtorsWait ==
    \A r \in Requests :
        at[r] \in {"quota", "balance", "hold", "upstream"} => ~owing[r]

\* A request is refused for its quota only when what was counted since the
\* beginning of that very period leaves no room for it.
RefusedForThisPeriod ==
    [][\A r \in Requests :
          at[r] = "quota" /\ at'[r] = "overquota" =>
              \E p \in Periods : spent[p] + HoldCost > Limit[p]]_vars

\* Every hold ends long before its ttl, by the middleware, by the plugin, or by
\* the two of them, unless a fault, a panic, strict mode or a missing record
\* kept them from it.
HoldsEnd ==
    \A t \in Traces :
        holds[t] # 0 ~> holds[t] = 0 \/ \E r \in excused : trace[r] = t
=============================================================================
