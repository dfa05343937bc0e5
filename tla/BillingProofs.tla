--------------------------- MODULE BillingProofs ----------------------------
(***************************************************************************)
(* The billing pipeline for any number of requests, trace ids, periods,    *)
(* attempts and costs.                                                     *)
(***************************************************************************)
EXTENDS Billing, SequenceTheorems, TLAPS

(***************************************************************************)
(* Which steps touch what                                                  *)
(***************************************************************************)

\* The balance and the shortfalls change by a settlement, a credit and the
\* resolution of a debt.
LEMMA MoneySteps ==
    [Next]_vars =>
       UNCHANGED money \/ Settle \/ Resolve \/ \E a \in Deposits : Deposit(a)
  BY DEF Next, Handle, Dispatch, Environment, vars, money, Arrive, CheckDebt,
     CheckQuota, QuotaFails, Preflight, Hold, HoldFails, AttemptFails, GiveUp,
     Serve, Break, ServeSilently, Panic, DeferredRelease, HandleUsage, Release,
     Lookup, SettleNothing, SettleFails, Clear, WriteFailed, Record,
     RecordFails, HoldExpires, PeriodEnds, SubscriptionEnds, Crash

\* The counters and their periods change by a check, by what is counted, and by
\* time.
LEMMA QuotaSteps ==
    [Next]_vars =>
       \/ UNCHANGED quota \/ Record \/ SubscriptionEnds
       \/ \E r \in Requests : CheckQuota(r)
       \/ \E p \in Periods : PeriodEnds(p)
  BY DEF Next, Handle, Dispatch, Environment, vars, quota, Arrive, CheckDebt,
     QuotaFails, Preflight, Hold, HoldFails, AttemptFails, GiveUp, Serve,
     Break, ServeSilently, Panic, DeferredRelease, HandleUsage, Release,
     Lookup, Settle, SettleNothing, SettleFails, Clear, WriteFailed,
     RecordFails, Deposit, Resolve, HoldExpires, Crash

\* A hold is placed by its request, and goes by the deferred function, by the
\* plugin or by time.
LEMMA HoldSteps ==
    [Next]_vars =>
       \/ UNCHANGED holds \/ Release \/ SettleNothing \/ Clear
       \/ \E r \in Requests : Hold(r) \/ HoldFails(r) \/ DeferredRelease(r)
       \/ \E t \in Traces : HoldExpires(t)
  BY DEF Next, Handle, Dispatch, Environment, vars, money, Arrive, CheckDebt,
     CheckQuota, QuotaFails, Preflight, AttemptFails, GiveUp, Serve, Break,
     ServeSilently, Panic, HandleUsage, Lookup, Settle, SettleFails,
     WriteFailed, Record, RecordFails, Deposit, Resolve, PeriodEnds,
     SubscriptionEnds, Crash

\* A record is published by an attempt, and leaves the queue for the plugin or
\* is lost with it.
LEMMA QueueSteps ==
    [Next]_vars =>
       \/ UNCHANGED queue \/ HandleUsage \/ Crash
       \/ \E r \in Requests : AttemptFails(r) \/ Serve(r) \/ Break(r)
  BY DEF Next, Handle, Dispatch, Environment, vars, Arrive, CheckDebt,
     CheckQuota, QuotaFails, Preflight, Hold, HoldFails, GiveUp,
     ServeSilently, Panic, DeferredRelease, Release, Lookup, Settle,
     SettleNothing, SettleFails, Clear, WriteFailed, Record, RecordFails,
     Deposit, Resolve, HoldExpires, PeriodEnds, SubscriptionEnds

\* The plugin moves by itself, or dies.
LEMMA PluginSteps ==
    [Next]_vars => UNCHANGED plugin \/ Dispatch \/ Crash
  BY DEF Next, Handle, Environment, vars, Arrive, CheckDebt, CheckQuota,
     QuotaFails, Preflight, Hold, HoldFails, AttemptFails, GiveUp, Serve,
     Break, ServeSilently, Panic, DeferredRelease, Deposit, Resolve,
     HoldExpires, PeriodEnds, SubscriptionEnds

\* A bill changes by a served response, a settlement and its log row.
LEMMA BillSteps ==
    [Next]_vars =>
       UNCHANGED bill \/ Settle \/ Record \/ \E r \in Requests : Serve(r)
  BY DEF Next, Handle, Dispatch, Environment, vars, Arrive, CheckDebt,
     CheckQuota, QuotaFails, Preflight, Hold, HoldFails, AttemptFails, GiveUp,
     Break, ServeSilently, Panic, DeferredRelease, HandleUsage, Release,
     Lookup, SettleNothing, SettleFails, Clear, WriteFailed, RecordFails,
     Deposit, Resolve, HoldExpires, PeriodEnds, SubscriptionEnds, Crash

\* A trace id comes with the request.
LEMMA TraceSteps ==
    [Next]_vars => UNCHANGED trace \/ \E r \in Requests : Arrive(r)
  BY DEF Next, Handle, Dispatch, Environment, vars, flow, CheckDebt,
     CheckQuota, QuotaFails, Preflight, Hold, HoldFails, AttemptFails, GiveUp,
     Serve, Break, ServeSilently, Panic, DeferredRelease, HandleUsage,
     Release, Lookup, Settle, SettleNothing, SettleFails, Clear, WriteFailed,
     Record, RecordFails, Deposit, Resolve, HoldExpires, PeriodEnds,
     SubscriptionEnds, Crash

\* A request owes when it arrives, until the debt is resolved.
LEMMA OwingSteps ==
    [Next]_vars => UNCHANGED owing \/ Resolve \/ \E r \in Requests : Arrive(r)
  BY DEF Next, Handle, Dispatch, Environment, vars, flow, CheckDebt,
     CheckQuota, QuotaFails, Preflight, Hold, HoldFails, AttemptFails, GiveUp,
     Serve, Break, ServeSilently, Panic, DeferredRelease, HandleUsage,
     Release, Lookup, Settle, SettleNothing, SettleFails, Clear, WriteFailed,
     Record, RecordFails, Deposit, HoldExpires, PeriodEnds, SubscriptionEnds,
     Crash

\* A handler moves by itself, or dies.
LEMMA HandlerSteps ==
    [Next]_vars =>
       UNCHANGED at \/ Crash \/ \E r \in Requests : Arrive(r) \/ Handle(r)
  BY DEF Next, Dispatch, Environment, vars, HandleUsage, Release, Lookup,
     Settle, SettleNothing, SettleFails, Clear, WriteFailed, Record,
     RecordFails, Deposit, Resolve, HoldExpires, PeriodEnds, SubscriptionEnds

\* Who is excused stays so.
LEMMA ExcusedStays == [Next]_vars => excused \subseteq excused'
  BY DEF Next, Handle, Dispatch, Environment, vars, Arrive, CheckDebt,
     CheckQuota, QuotaFails, Preflight, Hold, HoldFails, AttemptFails, GiveUp,
     Serve, Break, ServeSilently, Panic, DeferredRelease, HandleUsage,
     Release, Lookup, Settle, SettleNothing, SettleFails, Clear, WriteFailed,
     Record, RecordFails, Deposit, Resolve, HoldExpires, PeriodEnds,
     SubscriptionEnds, Crash, Excuse, Free

(***************************************************************************)
(* Types                                                                   *)
(***************************************************************************)

\* The plugin has a record in hand whenever it is not idle.
InHand == plugin.rec \in Records /\ plugin.step \in Calls

LEMMA RecordInHand ==
    ASSUME RecordsTyped, plugin.step # "idle"
    PROVE  InHand /\ plugin.rec.req \in Requests /\ plugin.rec.cost \in Nat
<1>1. plugin \in [step : Calls, rec : Records]
  BY DEF RecordsTyped, Waiting
<1>2. plugin.rec \in Records /\ plugin.step \in Calls
  BY <1>1
<1> QED
  BY <1>2 DEF InHand, Records

\* Each step of the plugin but the last leaves a record in hand.
LEMMA NextCall ==
    ASSUME NEW step \in Calls, NEW rec \in Records, Step(step, rec)
    PROVE  plugin' \in [step : Calls, rec : Records]
  BY DEF Step

\* A record is one of a request that has arrived.
RecordsArrived == \A r \in Requests : Pending(r) => at[r] # "new"

TypeInv == BillingTypeOK /\ RecordsArrived

LEMMA TypesInit == Init => BillingTypeOK
<1> SUFFICES ASSUME Init PROVE BillingTypeOK
  OBVIOUS
<1> USE BillingAssumption DEF Init
<1>1. MoneyTyped
  BY DEF MoneyTyped
<1>2. QuotaTyped
  BY DEF QuotaTyped
<1>3. HandlersTyped
  BY DEF HandlersTyped, Places
<1>4. RecordsTyped
  BY DEF RecordsTyped
<1>5. BillTyped
  BY DEF BillTyped
<1> QED
  BY <1>1, <1>2, <1>3, <1>4, <1>5 DEF BillingTypeOK

LEMMA MoneyTypeStep == BillingTypeOK /\ [Next]_vars => MoneyTyped'
<1> SUFFICES ASSUME BillingTypeOK, [Next]_vars PROVE MoneyTyped'
  OBVIOUS
<1> USE BillingAssumption
<1>0. MoneyTyped /\ RecordsTyped
  BY DEF BillingTypeOK
<1>1. balance' \in Nat /\ shortfalls' \in Nat /\ deposited' \in Nat
  <2>1. CASE UNCHANGED money
    BY <1>0, <2>1 DEF MoneyTyped, money
  <2>2. CASE Settle
    <3>1. plugin.rec.cost \in Nat
      BY <1>0, <2>2, RecordInHand DEF Settle
    <3> QED
      BY <1>0, <2>2, <3>1 DEF Settle, Charge, MoneyTyped
  <2>3. CASE Resolve
    BY <1>0, <2>3 DEF Resolve, MoneyTyped
  <2>4. ASSUME NEW a \in Deposits, Deposit(a)
        PROVE  balance' \in Nat /\ shortfalls' \in Nat /\ deposited' \in Nat
    <3>1. a \in Nat
      OBVIOUS
    <3> QED
      BY <1>0, <2>4, <3>1 DEF Deposit, MoneyTyped
  <2> QED
    BY <2>1, <2>2, <2>3, <2>4, MoneySteps
<1>2. holds' \in [Traces -> Nat]
  <2>1. CASE UNCHANGED holds
    BY <1>0, <2>1 DEF MoneyTyped
  <2>2. CASE Release \/ SettleNothing \/ Clear
    BY <1>0, <2>2 DEF Release, SettleNothing, Clear, Free, MoneyTyped
  <2>3. CASE \E r \in Requests : Hold(r) \/ HoldFails(r) \/ DeferredRelease(r)
    BY <1>0, <2>3 DEF Hold, HoldFails, DeferredRelease, MoneyTyped
  <2>4. CASE \E t \in Traces : HoldExpires(t)
    BY <1>0, <2>4 DEF HoldExpires, MoneyTyped
  <2> QED
    BY <2>1, <2>2, <2>3, <2>4, HoldSteps
<1> QED
  BY <1>1, <1>2 DEF MoneyTyped

LEMMA QuotaTypeStep == BillingTypeOK /\ [Next]_vars => QuotaTyped'
<1> SUFFICES ASSUME BillingTypeOK, [Next]_vars PROVE QuotaTyped'
  OBVIOUS
<1> USE BillingAssumption DEF QuotaTyped
<1>0. QuotaTyped /\ RecordsTyped
  BY DEF BillingTypeOK
<1>1. CASE UNCHANGED quota
  BY <1>0, <1>1 DEF quota
<1>2. CASE Record
  <2>1. plugin.rec.cost \in Nat
    BY <1>0, <1>2, RecordInHand DEF Record
  <2> QED
    BY <1>0, <1>2, <2>1 DEF Record, Counted
<1>3. CASE SubscriptionEnds
  BY <1>0, <1>3 DEF SubscriptionEnds
<1>4. CASE \E r \in Requests : CheckQuota(r)
  BY <1>0, <1>4 DEF CheckQuota
<1>5. CASE \E p \in Periods : PeriodEnds(p)
  BY <1>0, <1>5 DEF PeriodEnds
<1> QED
  BY <1>1, <1>2, <1>3, <1>4, <1>5, QuotaSteps

LEMMA HandlersTypeStep == BillingTypeOK /\ [Next]_vars => HandlersTyped'
<1> SUFFICES ASSUME BillingTypeOK, [Next]_vars PROVE HandlersTyped'
  OBVIOUS
<1> USE BillingAssumption DEF HandlersTyped
<1>0. HandlersTyped /\ MoneyTyped
  BY DEF BillingTypeOK
<1>1. owing' \in [Requests -> BOOLEAN]
  <2>1. CASE Resolve
    BY <1>0, <2>1 DEF Resolve
  <2>2. CASE \E r \in Requests : Arrive(r)
    BY <1>0, <2>2 DEF Arrive
  <2> QED
    BY <1>0, <2>1, <2>2, OwingSteps
<1>2. tries' \in [Requests -> 0..MaxTries]
  <2>1. UNCHANGED tries \/ \E r \in Requests : AttemptFails(r)
    BY DEF Next, Handle, Dispatch, Environment, vars, flow, Arrive, CheckDebt,
       CheckQuota, QuotaFails, Preflight, Hold, HoldFails, GiveUp, Serve,
       Break, ServeSilently, Panic, DeferredRelease, HandleUsage, Release,
       Lookup, Settle, SettleNothing, SettleFails, Clear, WriteFailed, Record,
       RecordFails, Deposit, Resolve, HoldExpires, PeriodEnds,
       SubscriptionEnds, Crash
  <2> QED
    BY <1>0, <2>1 DEF AttemptFails
<1>3. trace' \in [Requests -> Traces \cup {"none"}]
  BY <1>0, TraceSteps DEF Arrive
<1>4. at' \in [Requests -> Places]
  <2>1. CASE Crash
    BY <1>0, <2>1 DEF Crash, Places
  <2>2. ASSUME NEW r \in Requests, Arrive(r) \/ Handle(r)
        PROVE  \E step \in Places : UNCHANGED at \/ Goto(r, step)
    BY <2>2 DEF Handle, Arrive, CheckDebt, CheckQuota, QuotaFails, Preflight,
       Hold, HoldFails, AttemptFails, GiveUp, Serve, Break, ServeSilently,
       Panic, DeferredRelease, Places
  <2> QED
    BY <1>0, <2>1, <2>2, HandlerSteps DEF Goto
<1>5. \A r \in Requests : at'[r] # "new" => trace'[r] \in Traces
  <2> SUFFICES ASSUME NEW r \in Requests, at'[r] # "new"
               PROVE  trace'[r] \in Traces
    OBVIOUS
  <2>1. CASE \E s \in Requests : Arrive(s)
    BY <1>0, <2>1 DEF Arrive, Goto
  <2>2. CASE UNCHANGED trace
    <3>1. CASE at[r] # "new"
      BY <1>0, <2>2, <3>1
    <3>2. CASE at[r] = "new" /\ at'[r] # at[r]
      <4>1. ~ \E s \in Requests : Handle(s)
        BY <1>0, <3>2 DEF Handle, CheckDebt, CheckQuota, QuotaFails,
           Preflight, Hold, HoldFails, AttemptFails, GiveUp, Serve, Break,
           ServeSilently, Panic, DeferredRelease, Goto
      <4>2. ~ Crash
        BY <1>0, <3>2 DEF Crash
      <4> QED
        BY <1>0, <2>1, <3>2, <4>1, <4>2, HandlerSteps
    <3> QED
      BY <3>1, <3>2
  <2> QED
    BY <2>1, <2>2, TraceSteps
<1> QED
  BY <1>1, <1>2, <1>3, <1>4, <1>5

LEMMA RecordsTypeStep == TypeInv /\ [Next]_vars => RecordsTyped'
<1> SUFFICES ASSUME TypeInv, [Next]_vars PROVE RecordsTyped'
  OBVIOUS
<1> USE BillingAssumption
<1>0. RecordsTyped /\ MoneyTyped /\ HandlersTyped
  BY DEF TypeInv, BillingTypeOK
<1>a. RecordsArrived
  BY DEF TypeInv
<1>q. queue \in Seq(Records)
  BY <1>0 DEF RecordsTyped
<1>1. queue' \in Seq(Records)
  <2>1. CASE HandleUsage
    BY <1>q, <2>1, HeadTailProperties DEF HandleUsage
  <2>2. CASE Crash
    BY <2>2 DEF Crash
  <2>3. ASSUME NEW r \in Requests, AttemptFails(r) \/ Serve(r) \/ Break(r)
        PROVE  queue' \in Seq(Records)
    <3>1. \A kind \in {"precise", "missing", "failed"}, c \in Nat :
             Rec(r, kind, c) \in Records
      BY DEF Rec, Records
    <3>2. PICK rec \in Records : UNCHANGED queue \/ Publish(rec)
      BY <2>3, <3>1 DEF AttemptFails, Serve, Break
    <3> QED
      BY <1>q, <3>2, AppendProperties DEF Publish
  <2> QED
    BY <1>q, <2>1, <2>2, <2>3, QueueSteps
<1>2. plugin' = Waiting \/ plugin' \in [step : Calls, rec : Records]
  <2>1. CASE HandleUsage
    <3>1. Head(queue) \in Records
      BY <1>q, <2>1, HeadTailProperties DEF HandleUsage
    <3>2. \E step \in Calls : Step(step, Head(queue))
      BY <2>1 DEF HandleUsage, Calls
    <3> QED
      BY <3>1, <3>2, NextCall
  <2>2. CASE Release \/ SettleNothing \/ SettleFails \/ Settle \/ Clear \/ RecordFails
    <3>1. plugin.rec \in Records
      BY <1>0, <2>2, RecordInHand
         DEF InHand, Release, SettleNothing, SettleFails, Settle, Clear, RecordFails
    <3>2. \E step \in Calls : Step(step, plugin.rec)
      BY <2>2 DEF Release, SettleNothing, SettleFails, Settle, Clear, RecordFails, Free, Calls
    <3> QED
      BY <3>1, <3>2, NextCall
  <2>3. CASE Lookup
    <3>1. plugin.rec \in Records /\ plugin.rec.req \in Requests
      BY <1>0, <2>3, RecordInHand DEF InHand, Lookup
    <3>2. CASE Step("fail", plugin.rec)
      BY <3>1, <3>2, NextCall DEF Calls
    <3>3. CASE Step("settle", [plugin.rec EXCEPT !.cost = Larger(holds[Held], StreamCost)])
      <4>1. Larger(holds[Held], StreamCost) \in Nat
        <5>1. trace[plugin.rec.req] \in Traces
          BY <1>0, <1>a, <3>1 DEF RecordsArrived, Pending, HandlersTyped
        <5>2. holds[Held] \in Nat
          BY <1>0, <5>1 DEF Held, MoneyTyped
        <5> QED
          BY <5>2 DEF Larger
      <4>2. [plugin.rec EXCEPT !.cost = Larger(holds[Held], StreamCost)] \in Records
        BY <3>1, <4>1 DEF Records
      <4> QED
        BY <3>3, <4>2, NextCall DEF Calls
    <3> QED
      BY <2>3, <3>2, <3>3 DEF Lookup
  <2>4. CASE WriteFailed \/ Record \/ Crash
    BY <2>4 DEF WriteFailed, Record, Crash
  <2> QED
    BY <1>0, <2>1, <2>2, <2>3, <2>4, PluginSteps DEF Dispatch, RecordsTyped
<1> QED
  BY <1>1, <1>2 DEF RecordsTyped

LEMMA BillTypeStep == BillingTypeOK /\ [Next]_vars => BillTyped'
<1> SUFFICES ASSUME BillingTypeOK, [Next]_vars PROVE BillTyped'
  OBVIOUS
<1> USE BillingAssumption
<1>0. BillTyped /\ RecordsTyped
  BY DEF BillingTypeOK
<1> DEFINE Bills == [charged : Nat, settles : Nat, logged : Nat, owed : Nat]
<1>b. bill \in [Requests -> Bills]
  BY <1>0 DEF BillTyped
<1>1. bill' \in [Requests -> Bills]
  <2>1. CASE Settle
    <3>1. plugin.rec.req \in Requests /\ plugin.rec.cost \in Nat
      BY <1>0, <2>1, RecordInHand DEF Settle
    <3> QED
      BY <1>b, <2>1, <3>1 DEF Settle, Charge
  <2>2. CASE Record
    <3>1. plugin.rec.req \in Requests /\ plugin.rec.cost \in Nat
      BY <1>0, <2>2, RecordInHand DEF Record
    <3> QED
      BY <1>b, <2>2, <3>1 DEF Record
  <2>3. CASE \E r \in Requests : Serve(r)
    BY <1>b, <2>3 DEF Serve
  <2> QED
    BY <1>b, <2>1, <2>2, <2>3, BillSteps
<1>2. excused' \subseteq Requests
  <2>1. CASE Crash
    BY <1>0, <2>1 DEF BillTyped, Crash
  <2>2. CASE ~ Crash
    <3>1. \/ UNCHANGED excused
          \/ \E r \in Requests : Excuse(r)
          \/ plugin.step # "idle" /\ Excuse(plugin.rec.req)
          \/ queue # <<>> /\ Excuse(Head(queue).req)
      BY <2>2 DEF Next, Handle, Dispatch, Environment, vars, Arrive, CheckDebt,
         CheckQuota, QuotaFails, Preflight, Hold, HoldFails, AttemptFails,
         GiveUp, Serve, Break, ServeSilently, Panic, DeferredRelease,
         HandleUsage, Release, Lookup, Settle, SettleNothing, SettleFails,
         Clear, WriteFailed, Record, RecordFails, Deposit, Resolve,
         HoldExpires, PeriodEnds, SubscriptionEnds, Free
    <3>2. plugin.step # "idle" => plugin.rec.req \in Requests
      BY <1>0, RecordInHand
    <3>3. queue # <<>> => Head(queue).req \in Requests
      <4>1. queue # <<>> => Head(queue) \in Records
        BY <1>0, HeadTailProperties DEF RecordsTyped
      <4> QED
        BY <4>1 DEF Records
    <3> QED
      BY <1>0, <3>1, <3>2, <3>3 DEF BillTyped, Excuse
  <2> QED
    BY <2>1, <2>2
<1> QED
  BY <1>1, <1>2 DEF BillTyped

\* The records that are published and not completely handled: what publishing,
\* handing out, handling and a crash do to them.
LEMMA PendingStep ==
    ASSUME RecordsTyped, [Next]_vars, NEW r \in Requests, Pending(r)'
    PROVE  Pending(r) \/ (at[r] = "upstream" /\ (AttemptFails(r) \/ Serve(r) \/ Break(r)))
<1>q. queue \in Seq(Records)
  BY DEF RecordsTyped
<1>1. CASE plugin'.rec.req = r
  <2>1. CASE UNCHANGED plugin
    BY <1>1, <2>1 DEF Pending
  <2>2. CASE HandleUsage
    <3>1. plugin'.rec = Head(queue) /\ 1 \in DOMAIN queue /\ Head(queue) = queue[1]
      BY <1>q, <2>2 DEF HandleUsage, Step
    <3> QED
      BY <1>1, <3>1 DEF Pending
  <2>3. CASE WriteFailed \/ Record \/ Crash
    <3>1. plugin'.rec.req = "none"
      BY <2>3 DEF WriteFailed, Record, Crash, Waiting, NoRec
    <3> QED
      BY <1>1, <3>1, BillingAssumption
  <2>4. CASE Lookup
    <3>1. plugin.rec \in Records
      BY <2>4, RecordInHand DEF InHand, Lookup
    <3>2. plugin'.rec.req = plugin.rec.req
      BY <2>4, <3>1 DEF Lookup, Step, Records
    <3> QED
      BY <1>1, <3>2 DEF Pending
  <2>5. CASE Release \/ SettleNothing \/ SettleFails \/ Settle \/ Clear \/ RecordFails
    <3>1. plugin'.rec = plugin.rec
      BY <2>5 DEF Release, SettleNothing, SettleFails, Settle, Clear, RecordFails, Free, Step
    <3> QED
      BY <1>1, <3>1 DEF Pending
  <2> QED
    BY <2>1, <2>2, <2>3, <2>4, <2>5, PluginSteps DEF Dispatch
<1>2. ASSUME NEW i \in DOMAIN queue', queue'[i].req = r
      PROVE  Pending(r) \/ (at[r] = "upstream" /\ (AttemptFails(r) \/ Serve(r) \/ Break(r)))
  <2>1. CASE UNCHANGED queue
    BY <1>2, <2>1 DEF Pending
  <2>2. CASE HandleUsage
    <3>1. i \in Nat /\ i + 1 \in DOMAIN queue /\ queue'[i] = queue[i + 1]
      BY <1>q, <1>2, <2>2 DEF HandleUsage
    <3> QED
      BY <1>2, <3>1 DEF Pending
  <2>3. CASE Crash
    BY <1>2, <2>3 DEF Crash
  <2>4. ASSUME NEW s \in Requests, AttemptFails(s) \/ Serve(s) \/ Break(s)
        PROVE  Pending(r) \/ (at[r] = "upstream" /\ (AttemptFails(r) \/ Serve(r) \/ Break(r)))
    <3>1. at[s] = "upstream" /\ (UNCHANGED queue
             \/ \E kind \in {"precise", "missing", "failed"}, c \in Nat : Publish(Rec(s, kind, c)))
      BY <2>4, BillingAssumption DEF AttemptFails, Serve, Break
    <3>2. CASE s = r
      BY <2>4, <3>1, <3>2
    <3>3. CASE s # r
      <4>1. CASE UNCHANGED queue
        BY <1>2, <4>1 DEF Pending
      <4>2. ASSUME NEW kind \in {"precise", "missing", "failed"}, NEW c \in Nat,
                   Publish(Rec(s, kind, c))
            PROVE  Pending(r)
        <5>1. Rec(s, kind, c) \in Records /\ Rec(s, kind, c).req = s
          BY DEF Rec, Records
        <5>2. i \in DOMAIN queue /\ queue'[i] = queue[i]
          BY <1>q, <1>2, <3>3, <4>2, <5>1 DEF Publish
        <5> QED
          BY <1>2, <5>2 DEF Pending
      <4> QED
        BY <3>1, <4>1, <4>2
    <3> QED
      BY <3>2, <3>3
  <2> QED
    BY <2>1, <2>2, <2>3, <2>4, QueueSteps
<1> QED
  BY <1>1, <1>2 DEF Pending

\* A request that has arrived stays so.
LEMMA ArrivedStays ==
    ASSUME HandlersTyped, [Next]_vars, NEW r \in Requests, at[r] # "new"
    PROVE  at'[r] # "new"
<1>1. CASE Crash
  BY <1>1 DEF Crash
<1>2. ASSUME NEW s \in Requests, Arrive(s) \/ Handle(s)
      PROVE  at'[r] # "new"
  <2>1. UNCHANGED at \/ \E step \in Places \ {"new"} : Goto(s, step)
    BY <1>2 DEF Handle, Arrive, CheckDebt, CheckQuota, QuotaFails, Preflight,
       Hold, HoldFails, AttemptFails, GiveUp, Serve, Break, ServeSilently,
       Panic, DeferredRelease, Places
  <2> QED
    BY <2>1 DEF Goto, HandlersTyped
<1> QED
  BY <1>1, <1>2, HandlerSteps

LEMMA TypeInvStep == TypeInv /\ [Next]_vars => TypeInv'
<1> SUFFICES ASSUME TypeInv, [Next]_vars PROVE TypeInv'
  OBVIOUS
<1>1. BillingTypeOK'
  BY MoneyTypeStep, QuotaTypeStep, HandlersTypeStep, RecordsTypeStep,
     BillTypeStep DEF BillingTypeOK, TypeInv
<1>2. RecordsArrived'
  <2> SUFFICES ASSUME NEW r \in Requests, Pending(r)' PROVE at'[r] # "new"
    BY DEF RecordsArrived
  <2>1. at[r] # "new"
    BY PendingStep DEF TypeInv, BillingTypeOK, RecordsArrived
  <2> QED
    BY <2>1, ArrivedStays DEF TypeInv, BillingTypeOK
<1> QED
  BY <1>1, <1>2 DEF TypeInv

LEMMA TypeInvInit == Init => TypeInv
<1>1. Init => RecordsArrived
  BY BillingAssumption DEF Init, RecordsArrived, Pending, Waiting, NoRec
<1> QED
  BY <1>1, TypesInit DEF TypeInv

\* Every variable of the pipeline keeps its type, for any number of requests,
\* trace ids, periods and attempts.
THEOREM TypesKept == Spec => []BillingTypeOK
<1>1. TypeInv => BillingTypeOK
  BY DEF TypeInv
<1> QED
  BY <1>1, TypeInvInit, TypeInvStep, PTL DEF Spec

(***************************************************************************)
(* Debts                                                                   *)
(***************************************************************************)

\* DebtorsWait is not inductive: a debt that is noted for a request is one that
\* nobody has resolved.
DebtInv ==
    /\ \A r \in Requests : owing[r] => shortfalls > 0
    /\ DebtorsWait

Gated == {"quota", "balance", "hold", "upstream"}

\* The only way past the gate leads through the lookup.
LEMMA GatePassed ==
    ASSUME HandlersTyped, [Next]_vars, NEW r \in Requests,
           at'[r] \in Gated, at[r] \notin Gated
    PROVE  CheckDebt(r) /\ shortfalls = 0
<1> USE DEF Gated
<1>1. ~ Crash
  BY DEF Crash, HandlersTyped
<1>2. PICK s \in Requests : Arrive(s) \/ Handle(s)
  BY <1>1, HandlerSteps
<1>3. s = r
  BY <1>2 DEF Arrive, Handle, CheckDebt, CheckQuota, QuotaFails, Preflight,
     Hold, HoldFails, AttemptFails, GiveUp, Serve, Break, ServeSilently, Panic,
     DeferredRelease, Goto, HandlersTyped
<1> QED
  BY <1>2, <1>3 DEF Arrive, Handle, CheckDebt, CheckQuota, QuotaFails, Preflight,
     Hold, HoldFails, AttemptFails, GiveUp, Serve, Break, ServeSilently, Panic,
     DeferredRelease, Goto, HandlersTyped

LEMMA DebtStep == TypeInv /\ DebtInv /\ [Next]_vars => DebtInv'
<1> SUFFICES ASSUME TypeInv, DebtInv, [Next]_vars PROVE DebtInv'
  OBVIOUS
<1>0. HandlersTyped /\ MoneyTyped
  BY DEF TypeInv, BillingTypeOK
<1>1. ASSUME NEW r \in Requests, owing'[r]
      PROVE  shortfalls' > 0 /\ (owing[r] \/ at'[r] \notin Gated)
  <2>1. CASE Resolve
    BY <1>0, <1>1, <2>1 DEF Resolve, MoneyTyped
  <2>2. ASSUME NEW s \in Requests, Arrive(s)
        PROVE  shortfalls' > 0 /\ (owing[r] \/ at'[r] \notin Gated)
    <3>1. UNCHANGED shortfalls
      BY <2>2 DEF Arrive, money
    <3>2. CASE s = r
      BY <1>0, <1>1, <2>2, <3>1, <3>2 DEF Arrive, Goto, HandlersTyped, Gated
    <3>3. CASE s # r
      BY <1>0, <1>1, <2>2, <3>1, <3>3 DEF Arrive, HandlersTyped, DebtInv
    <3> QED
      BY <3>2, <3>3
  <2>3. CASE UNCHANGED owing
    <3>1. owing[r] /\ shortfalls > 0
      BY <1>1, <2>3 DEF DebtInv
    <3>2. CASE UNCHANGED money
      BY <3>1, <3>2 DEF money
    <3>3. CASE Settle
      BY <1>0, <3>1, <3>3 DEF Settle, Charge, MoneyTyped
    <3>4. CASE Resolve
      BY <3>4, <2>1
    <3>5. CASE \E a \in Deposits : Deposit(a)
      BY <3>1, <3>5 DEF Deposit
    <3> QED
      BY <3>1, <3>2, <3>3, <3>4, <3>5, MoneySteps
  <2> QED
    BY <2>1, <2>2, <2>3, OwingSteps
<1>2. DebtorsWait'
  <2> SUFFICES ASSUME NEW r \in Requests, at'[r] \in Gated, owing'[r]
               PROVE  FALSE
    BY <1>0 DEF DebtorsWait, Gated
  <2>1. owing[r]
    BY <1>1
  <2>2. at[r] \notin Gated
    BY <2>1 DEF DebtInv, DebtorsWait, Gated
  <2> QED
    BY <1>0, <2>1, <2>2, GatePassed DEF DebtInv
<1> QED
  BY <1>1, <1>2 DEF DebtInv

\* A request that arrives while its user owes stays at the gate until the debt
\* is resolved, whatever lookups fail and however many requests there are.
THEOREM DebtorsAlwaysWait == Spec => []DebtorsWait
<1>1. Init => DebtInv
  BY DEF Init, DebtInv, DebtorsWait
<1>2. DebtInv => DebtorsWait
  BY DEF DebtInv
<1> QED
  BY <1>1, <1>2, TypeInvInit, TypeInvStep, DebtStep, PTL DEF Spec

(***************************************************************************)
(* Quotas                                                                  *)
(***************************************************************************)

\* A counter whose period goes on shows no more than was counted in it.
QuotaInv == \A p \in Periods : ~due[p] => usage[p] <= spent[p]

LEMMA QuotaStep == TypeInv /\ QuotaInv /\ [Next]_vars => QuotaInv'
<1> SUFFICES ASSUME TypeInv, QuotaInv, [Next]_vars PROVE QuotaInv'
  OBVIOUS
<1>0. QuotaTyped /\ RecordsTyped
  BY DEF TypeInv, BillingTypeOK
<1> USE DEF QuotaInv, QuotaTyped
<1>1. CASE UNCHANGED quota
  BY <1>1 DEF quota
<1>2. CASE Record
  <2>1. plugin.rec.cost \in Nat
    BY <1>0, <1>2, RecordInHand DEF Record
  <2> QED
    BY <1>0, <1>2, <2>1 DEF Record, Counted
<1>3. CASE SubscriptionEnds
  BY <1>3 DEF SubscriptionEnds
<1>4. CASE \E r \in Requests : CheckQuota(r)
  BY <1>0, <1>4 DEF CheckQuota
<1>5. CASE \E p \in Periods : PeriodEnds(p)
  BY <1>0, <1>5 DEF PeriodEnds
<1> QED
  BY <1>1, <1>2, <1>3, <1>4, <1>5, QuotaSteps

\* Only the check refuses for the quota, and it compares what it has reset.
LEMMA RefusalStep ==
    ASSUME TypeInv, QuotaInv, [Next]_vars, NEW r \in Requests,
           at[r] = "quota", at'[r] = "overquota"
    PROVE  \E p \in Periods : spent[p] + HoldCost > Limit[p]
<1>0. HandlersTyped /\ QuotaTyped
  BY DEF TypeInv, BillingTypeOK
<1>1. ~ Crash
  BY DEF Crash, HandlersTyped
<1>2. PICK s \in Requests : Arrive(s) \/ Handle(s)
  BY <1>1, HandlerSteps
<1>3. s = r
  BY <1>0, <1>2 DEF Arrive, Handle, CheckDebt, CheckQuota, QuotaFails, Preflight,
     Hold, HoldFails, AttemptFails, GiveUp, Serve, Break, ServeSilently, Panic,
     DeferredRelease, Goto, HandlersTyped
<1>4. CheckQuota(r)
  BY <1>0, <1>2, <1>3 DEF Arrive, Handle, CheckDebt, QuotaFails, Preflight,
     Hold, HoldFails, AttemptFails, GiveUp, Serve, Break, ServeSilently, Panic,
     DeferredRelease, Goto, HandlersTyped
<1>5. PICK p \in Periods : ~ (usage'[p] + HoldCost <= Limit[p])
  BY <1>0, <1>4 DEF CheckQuota, Goto, HandlersTyped
<1>6. usage'[p] <= spent[p] /\ usage'[p] \in Nat /\ spent[p] \in Nat
  BY <1>0, <1>4 DEF CheckQuota, QuotaInv, QuotaTyped
<1> QED
  BY <1>5, <1>6, BillingAssumption

\* Nobody is refused for what an earlier period counted, for any set of
\* periods that end at any time.
THEOREM RefusalsJustified == Spec => RefusedForThisPeriod
<1>1. Init => QuotaInv
  BY DEF Init, QuotaInv
<1>2. TypeInv /\ QuotaInv /\ [Next]_vars =>
        [\A r \in Requests :
            at[r] = "quota" /\ at'[r] = "overquota" =>
                \E p \in Periods : spent[p] + HoldCost > Limit[p]]_vars
  BY RefusalStep
<1> QED
  BY <1>1, <1>2, TypeInvInit, TypeInvStep, QuotaStep, PTL
     DEF Spec, RefusedForThisPeriod

(***************************************************************************)
(* The usage log                                                           *)
(***************************************************************************)

\* LogsBacked rests on this: what is about to be logged was just charged.
LogInv ==
    /\ LogsBacked
    /\ plugin.step \in {"clear", "record"} =>
          bill[plugin.rec.req].logged + plugin.rec.cost <= bill[plugin.rec.req].charged

LEMMA LogStep == TypeInv /\ LogInv /\ [Next]_vars => LogInv'
<1> SUFFICES ASSUME TypeInv, LogInv, [Next]_vars PROVE LogInv'
  OBVIOUS
<1>0. RecordsTyped /\ BillTyped
  BY DEF TypeInv, BillingTypeOK
<1> USE DEF LogInv, LogsBacked
<1>1. CASE Settle
  <2>1. plugin.rec.req \in Requests /\ plugin.rec.cost \in Nat
    BY <1>0, <1>1, RecordInHand DEF Settle
  <2>2. plugin'.rec = plugin.rec
    BY <1>1 DEF Settle, Step
  <2> QED
    BY <1>0, <1>1, <2>1, <2>2 DEF Settle, Charge, BillTyped
<1>2. CASE Record
  <2>1. plugin.rec.req \in Requests /\ plugin.rec.cost \in Nat
    BY <1>0, <1>2, RecordInHand DEF Record
  <2>2. plugin'.step = "idle"
    BY <1>2 DEF Record, Waiting
  <2> QED
    BY <1>0, <1>2, <2>1, <2>2 DEF Record, BillTyped
<1>3. ASSUME NEW r \in Requests, Serve(r) PROVE LogInv'
  <2>1. \A s \in Requests : bill'[s].logged = bill[s].logged /\ bill'[s].charged = bill[s].charged
    BY <1>0, <1>3 DEF Serve, BillTyped
  <2>2. UNCHANGED plugin
    BY <1>3 DEF Serve
  <2>3. plugin.step \in {"clear", "record"} => plugin.rec.req \in Requests
    BY <1>0, RecordInHand
  <2> QED
    BY <2>1, <2>2, <2>3
<1>4. CASE UNCHANGED bill
  <2>1. CASE UNCHANGED plugin
    BY <1>4, <2>1
  <2>2. CASE SettleNothing
    <3>1. plugin.rec.req \in Requests /\ plugin.rec.cost = 0 /\ plugin'.rec = plugin.rec
      BY <1>0, <2>2, RecordInHand DEF SettleNothing, Free, Step
    <3> QED
      BY <1>0, <1>4, <3>1 DEF BillTyped
  <2>3. CASE Clear
    <3>1. plugin'.rec = plugin.rec
      BY <2>3 DEF Clear, Step
    <3> QED
      BY <1>4, <2>3, <3>1 DEF Clear
  <2>4. CASE HandleUsage \/ Release \/ Lookup \/ SettleFails \/ WriteFailed \/ RecordFails \/ Crash
    <3>1. plugin'.step \notin {"clear", "record"}
      BY <2>4 DEF HandleUsage, Release, Lookup, SettleFails, WriteFailed, RecordFails,
         Crash, Step, Free, Waiting
    <3> QED
      BY <1>4, <3>1
  <2> QED
    BY <1>1, <1>2, <2>1, <2>2, <2>3, <2>4, PluginSteps DEF Dispatch
<1> QED
  BY <1>1, <1>2, <1>3, <1>4, BillSteps

\* The usage log never says more was paid than was charged, whatever fails
\* between the charge and the log.
THEOREM LogsAlwaysBacked == Spec => []LogsBacked
<1>1. Init => LogInv
  BY DEF Init, LogInv, LogsBacked, Waiting
<1>2. LogInv => LogsBacked
  BY DEF LogInv
<1> QED
  BY <1>1, <1>2, TypeInvInit, TypeInvStep, LogStep, PTL DEF Spec

(***************************************************************************)
(* Charges                                                                 *)
(***************************************************************************)

Success(rec) == rec.kind # "failed"

\* The record of r's success is published, or in the plugin's hand.
Queued(r)   == \E i \in DOMAIN queue : queue[i].req = r /\ Success(queue[i])
Handling(r) == plugin.rec.req = r /\ Success(plugin.rec) /\ plugin # Waiting

\* The plugin releases for a failure, and settles for a success.
StepsFit ==
    /\ plugin.step = "release" => ~ Success(plugin.rec)
    /\ plugin.step \in {"lookup", "settle", "clear", "record"} => Success(plugin.rec)

\* A request has one record of success at most, and publishes it when it is
\* done; what is published or not settled yet has charged nothing.
OneSuccess ==
    \A i, j \in DOMAIN queue :
        queue[i].req = queue[j].req /\ Success(queue[i]) /\ Success(queue[j]) => i = j

ChargedWhenHandled(r) ==
    /\ Queued(r) \/ Handling(r) \/ bill[r].settles # 0 => at[r] = "done"
    /\ Queued(r) => ~ Handling(r) /\ bill[r].settles = 0
    /\ Handling(r) /\ plugin.step \in {"lookup", "settle"} => bill[r].settles = 0
    /\ bill[r].settles <= 1

ChargeInv == StepsFit /\ OneSuccess /\ \A r \in Requests : ChargedWhenHandled(r)

\* What a request owes when it was served is in its record, then in what the
\* plugin is about to charge, then charged.
DueRecorded(rec, r) ==
    \/ rec.kind = "precise" /\ rec.cost = bill[r].owed
    \/ rec.kind = "missing" /\ bill[r].owed = StreamCost

OwedInQueue(r) ==
    \A i \in DOMAIN queue :
        queue[i].req = r /\ Success(queue[i]) => DueRecorded(queue[i], r)

OwedInHand(r) ==
    Handling(r) /\ r \notin excused =>
       /\ plugin.step = "lookup" => bill[r].owed = StreamCost
       /\ plugin.step = "settle" => plugin.rec.cost >= bill[r].owed
       /\ plugin.step \in {"clear", "record"} => bill[r].charged >= bill[r].owed
       /\ plugin.step # "fail"

OwedCharged(r) ==
    ~ Queued(r) /\ ~ Handling(r) /\ r \notin excused =>
        bill[r].charged >= bill[r].owed

OwedInv ==
    \A r \in Requests :
       /\ at[r] # "done" => bill[r].owed = 0
       /\ OwedInQueue(r) /\ OwedInHand(r) /\ OwedCharged(r)

\* A request that is done stays done.
LEMMA DoneStays ==
    ASSUME HandlersTyped, [Next]_vars, NEW r \in Requests, at[r] = "done"
    PROVE  at'[r] = "done"
<1>1. CASE Crash
  BY <1>1 DEF Crash
<1>2. ASSUME NEW s \in Requests, Arrive(s) \/ Handle(s)
      PROVE  at'[r] = "done"
  BY <1>2 DEF Handle, Arrive, CheckDebt, CheckQuota, QuotaFails, Preflight,
     Hold, HoldFails, AttemptFails, GiveUp, Serve, Break, ServeSilently, Panic,
     DeferredRelease, Goto, HandlersTyped
<1> QED
  BY <1>1, <1>2, HandlerSteps

\* Steps that publish nothing, charge nothing and leave the plugin alone.
LEMMA QuietStep ==
    ASSUME TypeInv, ChargeInv, OwedInv, [Next]_vars, UNCHANGED <<queue, plugin, bill>>
    PROVE  ChargeInv' /\ OwedInv'
<1>0. HandlersTyped
  BY DEF TypeInv, BillingTypeOK
<1>1. \A r \in Requests : (Queued(r)' <=> Queued(r)) /\ (Handling(r)' <=> Handling(r))
  BY DEF Queued, Handling, Success
<1>2. \A r \in Requests : at[r] = "done" => at'[r] = "done"
  BY <1>0, DoneStays
<1>3. ChargeInv'
  BY <1>1, <1>2 DEF ChargeInv, StepsFit, OneSuccess, ChargedWhenHandled, Success
<1>4. OwedInv'
  BY <1>1, <1>2, ExcusedStays
     DEF OwedInv, OwedInQueue, OwedInHand, OwedCharged, DueRecorded, Success
<1> QED
  BY <1>3, <1>4

\* A record behind the others.
LEMMA Behind ==
    ASSUME RecordsTyped, NEW rec \in Records, Publish(rec)
    PROVE  /\ DOMAIN queue' = DOMAIN queue \cup {Len(queue) + 1}
           /\ Len(queue) + 1 \notin DOMAIN queue
           /\ queue'[Len(queue) + 1] = rec
           /\ \A i \in DOMAIN queue : queue'[i] = queue[i]
<1>1. queue \in Seq(Records)
  BY DEF RecordsTyped
<1> QED
  BY <1>1 DEF Publish

\* A failed attempt publishes nothing that is settled.
LEMMA FailureStep ==
    ASSUME TypeInv, ChargeInv, OwedInv, [Next]_vars, NEW s \in Requests,
           AttemptFails(s) \/ Break(s), Publish(Rec(s, "failed", 0))
    PROVE  ChargeInv' /\ OwedInv'
<1>0. HandlersTyped /\ RecordsTyped
  BY DEF TypeInv, BillingTypeOK
<1>1. Rec(s, "failed", 0) \in Records /\ ~ Success(Rec(s, "failed", 0))
  BY DEF Rec, Records, Success
<1> DEFINE n == Len(queue) + 1
<1>2. /\ DOMAIN queue' = DOMAIN queue \cup {n} /\ n \notin DOMAIN queue
      /\ ~ Success(queue'[n])
      /\ \A i \in DOMAIN queue : queue'[i] = queue[i]
  BY <1>0, <1>1, Behind
<1>3. UNCHANGED <<plugin, bill>>
  BY DEF AttemptFails, Break
<1>4. \A r \in Requests : (Queued(r)' <=> Queued(r)) /\ (Handling(r)' <=> Handling(r))
  BY <1>2, <1>3 DEF Queued, Handling, Success
<1>5. \A r \in Requests : at[r] = "done" => at'[r] = "done"
  BY <1>0, DoneStays
<1> HIDE DEF n
<1>6. OneSuccess'
  BY <1>2 DEF ChargeInv, OneSuccess, Success
<1>7. ChargeInv'
  BY <1>3, <1>4, <1>5, <1>6 DEF ChargeInv, ChargedWhenHandled, StepsFit, Success
<1>8. \A r \in Requests : OwedInQueue(r)'
  BY <1>2, <1>3 DEF OwedInv, OwedInQueue, DueRecorded, Success
<1>9. OwedInv'
  BY <1>3, <1>4, <1>5, <1>8, ExcusedStays DEF OwedInv, OwedInHand, OwedCharged
<1> QED
  BY <1>7, <1>9

\* The one success of a request: it had none, and was charged nothing.
LEMMA ServeStep ==
    ASSUME TypeInv, ChargeInv, OwedInv, [Next]_vars, NEW s \in Requests, Serve(s)
    PROVE  ChargeInv' /\ OwedInv'
<1>0. HandlersTyped /\ RecordsTyped /\ BillTyped
  BY DEF TypeInv, BillingTypeOK
<1>1. PICK kind \in {"precise", "missing"}, c \in Nat, owed \in Nat :
         /\ Publish(Rec(s, kind, c))
         /\ bill' = [bill EXCEPT ![s].owed = owed]
         /\ kind = "precise" => c = owed
         /\ kind = "missing" => owed = StreamCost
  BY BillingAssumption DEF Serve
<1> DEFINE new == Rec(s, kind, c)
           n == Len(queue) + 1
<1>2. new \in Records /\ new.req = s /\ new.kind = kind /\ new.cost = c /\ Success(new)
  BY DEF Rec, Records, Success
<1>3. /\ DOMAIN queue' = DOMAIN queue \cup {n} /\ n \notin DOMAIN queue
      /\ queue'[n] = new
      /\ \A i \in DOMAIN queue : queue'[i] = queue[i]
  BY <1>0, <1>1, <1>2, Behind
<1>4. at[s] # "done" /\ at' = [at EXCEPT ![s] = "done"] /\ UNCHANGED <<plugin, excused>>
  BY DEF Serve, Goto
<1>5. ~ Queued(s) /\ ~ Handling(s) /\ bill[s].settles = 0
  BY <1>4 DEF ChargeInv, ChargedWhenHandled
<1> HIDE DEF n, new
<1>6. /\ \A r \in Requests : Handling(r)' <=> Handling(r)
      /\ \A r \in Requests \ {s} : Queued(r)' <=> Queued(r)
      /\ Queued(s)'
  BY <1>2, <1>3, <1>4 DEF Queued, Handling, Success
<1>7. \A r \in Requests :
         /\ bill'[r].settles = bill[r].settles /\ bill'[r].charged = bill[r].charged
         /\ bill'[r].owed = IF r = s THEN owed ELSE bill[r].owed
  BY <1>0, <1>1 DEF BillTyped
<1>8. \A r \in Requests : at'[r] = IF r = s THEN "done" ELSE at[r]
  BY <1>0, <1>4 DEF HandlersTyped
<1>9. OneSuccess'
  BY <1>2, <1>3, <1>5 DEF ChargeInv, OneSuccess, Queued, Success
<1>10. ChargeInv'
  BY <1>4, <1>5, <1>6, <1>7, <1>8, <1>9
     DEF ChargeInv, ChargedWhenHandled, StepsFit, Success
<1>11. ASSUME NEW r \in Requests PROVE OwedInQueue(r)'
  <2> SUFFICES ASSUME NEW i \in DOMAIN queue', queue'[i].req = r, Success(queue'[i])
               PROVE  DueRecorded(queue[i], r)'
    BY DEF OwedInQueue, Success
  <2>1. CASE i = n
    BY <1>1, <1>2, <1>3, <1>7, <2>1 DEF DueRecorded
  <2>2. CASE i # n
    <3>1. i \in DOMAIN queue /\ queue'[i] = queue[i] /\ Queued(r)
      BY <1>3, <2>2 DEF Queued
    <3> QED
      BY <1>5, <1>7, <3>1 DEF OwedInv, OwedInQueue, DueRecorded
  <2> QED
    BY <2>1, <2>2
<1>12. OwedInv'
  BY <1>4, <1>5, <1>6, <1>7, <1>8, <1>11 DEF OwedInv, OwedInHand, OwedCharged
<1> QED
  BY <1>10, <1>12

\* The head of the queue goes into the plugin's hand.
LEMMA HandleStep ==
    ASSUME TypeInv, ChargeInv, OwedInv, [Next]_vars, HandleUsage
    PROVE  ChargeInv' /\ OwedInv'
<1>0. RecordsTyped /\ BillTyped
  BY DEF TypeInv, BillingTypeOK
<1>1. queue \in Seq(Records) /\ queue # <<>> /\ queue' = Tail(queue)
  BY <1>0 DEF RecordsTyped, HandleUsage
<1>2. 1 \in DOMAIN queue /\ queue[1] \in Records /\ queue[1] = Head(queue)
  BY <1>1
<1>r. PICK rec \in Records : rec = queue[1]
  BY <1>2
<1>3. \A i \in DOMAIN queue' :
         i \in Nat /\ i # 0 /\ i + 1 \in DOMAIN queue /\ queue'[i] = queue[i + 1]
  BY <1>1
<1>4. \A i \in DOMAIN queue : i = 1 \/ (i - 1 \in DOMAIN queue' /\ queue'[i - 1] = queue[i])
  BY <1>1
<1>5. UNCHANGED <<at, bill>>
  BY DEF HandleUsage
<1>6. /\ plugin'.rec = rec /\ plugin' # Waiting
      /\ \/ plugin'.step = "release" /\ rec.kind = "failed"
         \/ plugin'.step = "settle" /\ rec.kind = "precise"
         \/ plugin'.step = "lookup" /\ rec.kind = "missing"
         \/ plugin'.step = "fail" /\ rec.kind = "missing" /\ rec.req \in excused'
  BY <1>2, <1>r DEF HandleUsage, Step, Waiting, Excuse
<1>7. \A r \in Requests : ~ Handling(r)
  BY <1>0 DEF HandleUsage, Handling, RecordsTyped, Calls
<1>8. \A r \in Requests :
         /\ Handling(r)' <=> rec.req = r /\ Success(rec)
         /\ Queued(r)' => Queued(r)
         /\ Queued(r) /\ ~ (rec.req = r /\ Success(rec)) => Queued(r)'
  <2> SUFFICES ASSUME NEW r \in Requests
               PROVE  /\ Handling(r)' <=> rec.req = r /\ Success(rec)
                      /\ Queued(r)' => Queued(r)
                      /\ Queued(r) /\ ~ (rec.req = r /\ Success(rec)) => Queued(r)'
    OBVIOUS
  <2>1. Handling(r)' <=> rec.req = r /\ Success(rec)
    BY <1>6 DEF Handling, Success
  <2>2. Queued(r)' => Queued(r)
    BY <1>3 DEF Queued, Success
  <2>3. ASSUME Queued(r), ~ (rec.req = r /\ Success(rec)) PROVE Queued(r)'
    <3>1. PICK i \in DOMAIN queue : queue[i].req = r /\ Success(queue[i])
      BY <2>3 DEF Queued
    <3>2. i # 1
      BY <1>r, <2>3, <3>1
    <3>3. i - 1 \in DOMAIN queue' /\ queue'[i - 1] = queue[i]
      BY <1>4, <3>2
    <3> QED
      BY <3>1, <3>3 DEF Queued, Success
  <2> QED
    BY <2>1, <2>2, <2>3
<1>9. Success(rec) => ~ Queued(rec.req)' /\ Queued(rec.req)
  <2> SUFFICES ASSUME Success(rec) PROVE ~ Queued(rec.req)' /\ Queued(rec.req)
    OBVIOUS
  <2>1. Queued(rec.req)
    BY <1>2, <1>r DEF Queued
  <2>2. ASSUME NEW i \in DOMAIN queue', queue'[i].req = rec.req, Success(queue'[i])
        PROVE  FALSE
    <3>1. i + 1 \in DOMAIN queue /\ queue'[i] = queue[i + 1] /\ i + 1 # 1
      BY <1>3
    <3>2. i + 1 = 1
      BY <1>2, <1>r, <2>2, <3>1 DEF ChargeInv, OneSuccess
    <3> QED
      BY <3>1, <3>2
  <2> QED
    BY <2>1, <2>2 DEF Queued, Success
<1>10. StepsFit'
  BY <1>6 DEF StepsFit, Success
<1>11. OneSuccess'
  <2> SUFFICES ASSUME NEW i \in DOMAIN queue', NEW j \in DOMAIN queue',
                      queue'[i].req = queue'[j].req, Success(queue'[i]), Success(queue'[j])
               PROVE  i = j
    BY DEF OneSuccess, Success
  <2>1. i + 1 = j + 1
    BY <1>3 DEF ChargeInv, OneSuccess
  <2> QED
    BY <1>3, <2>1
<1>12. ChargeInv'
  <2>1. ASSUME NEW r \in Requests PROVE ChargedWhenHandled(r)'
    <3>1. Queued(r)' \/ Handling(r)' => Queued(r)
      BY <1>8, <1>9
    <3>2. Queued(r)' => ~ Handling(r)'
      BY <1>8, <1>9
    <3>3. bill'[r].settles = bill[r].settles /\ at'[r] = at[r]
      BY <1>5
    <3> QED
      BY <3>1, <3>2, <3>3 DEF ChargeInv, ChargedWhenHandled
  <2> QED
    BY <1>10, <1>11, <2>1 DEF ChargeInv
<1>13. OwedInv'
  <2> SUFFICES ASSUME NEW r \in Requests
               PROVE  /\ at'[r] # "done" => bill'[r].owed = 0
                      /\ OwedInQueue(r)' /\ OwedInHand(r)' /\ OwedCharged(r)'
    BY DEF OwedInv
  <2>1. at'[r] # "done" => bill'[r].owed = 0
    BY <1>5 DEF OwedInv
  <2>2. OwedInQueue(r)'
    BY <1>3, <1>5 DEF OwedInv, OwedInQueue, DueRecorded, Success
  <2>3. Handling(r)' => DueRecorded(rec, r)
    BY <1>2, <1>r, <1>8 DEF OwedInv, OwedInQueue
  <2>4. bill[r].owed \in Nat
    BY <1>0 DEF BillTyped
  <2>5. OwedInHand(r)'
    BY <1>5, <1>6, <1>8, <2>3, <2>4 DEF DueRecorded, OwedInHand
  <2>6. OwedCharged(r)'
    BY <1>5, <1>7, <1>8, ExcusedStays DEF OwedInv, OwedCharged
  <2> QED
    BY <2>1, <2>2, <2>5, <2>6
<1> QED
  BY <1>12, <1>13

\* The plugin works on the record in its hand and charges nothing.
LEMMA InnerStep ==
    ASSUME TypeInv, ChargeInv, OwedInv, [Next]_vars,
           Release \/ Lookup \/ SettleNothing \/ SettleFails \/ Clear \/ RecordFails
    PROVE  ChargeInv' /\ OwedInv'
<1>0. RecordsTyped /\ BillTyped /\ MoneyTyped
  BY DEF TypeInv, BillingTypeOK
<1>1. plugin.step # "idle" /\ UNCHANGED <<queue, bill, at>>
  BY DEF Release, Lookup, SettleNothing, SettleFails, Clear, RecordFails
<1>2. plugin.rec \in Records /\ plugin # Waiting
  BY <1>0, <1>1, RecordInHand DEF InHand, Waiting
<1>3. /\ plugin'.rec.req = plugin.rec.req /\ plugin'.rec.kind = plugin.rec.kind
      /\ plugin' # Waiting
      /\ \/ plugin.step = "release" /\ plugin'.step = "fail"
         \/ plugin'.step = "fail" /\ plugin.rec.req \in excused'
         \/ /\ plugin.step = "lookup" /\ plugin'.step = "settle"
            /\ plugin'.rec.cost = Larger(holds[Held], StreamCost)
         \/ /\ plugin.step = "settle" /\ plugin'.step = "record"
            /\ plugin.rec.cost = 0
         \/ plugin.step = "clear" /\ plugin'.step = "record"
  BY <1>2 DEF Release, Lookup, SettleNothing, SettleFails, Clear, RecordFails,
     Free, Step, Excuse, Waiting, Records
<1>4. \A r \in Requests : (Queued(r)' <=> Queued(r)) /\ (Handling(r)' <=> Handling(r))
  BY <1>1, <1>2, <1>3 DEF Queued, Handling, Success
<1>5. ChargeInv'
  <2>1. StepsFit'
    BY <1>3 DEF ChargeInv, StepsFit, Success
  <2>2. OneSuccess'
    BY <1>1 DEF ChargeInv, OneSuccess, Success
  <2>3. ASSUME NEW r \in Requests PROVE ChargedWhenHandled(r)'
    BY <1>1, <1>3, <1>4 DEF ChargeInv, ChargedWhenHandled
  <2> QED
    BY <2>1, <2>2, <2>3 DEF ChargeInv
<1>6. OwedInv'
  <2> SUFFICES ASSUME NEW r \in Requests
               PROVE  /\ at'[r] # "done" => bill'[r].owed = 0
                      /\ OwedInQueue(r)' /\ OwedInHand(r)' /\ OwedCharged(r)'
    BY DEF OwedInv
  <2>1. at'[r] # "done" => bill'[r].owed = 0
    BY <1>1 DEF OwedInv
  <2>2. OwedInQueue(r)'
    BY <1>1 DEF OwedInv, OwedInQueue, DueRecorded, Success
  <2>3. bill[r].owed \in Nat /\ bill[r].charged \in Nat
    BY <1>0 DEF BillTyped
  <2>4. OwedInHand(r)'
    <3> SUFFICES ASSUME Handling(r)', r \notin excused'
                 PROVE  /\ plugin'.step = "lookup" => bill'[r].owed = StreamCost
                        /\ plugin'.step = "settle" => plugin'.rec.cost >= bill'[r].owed
                        /\ plugin'.step \in {"clear", "record"} =>
                              bill'[r].charged >= bill'[r].owed
                        /\ plugin'.step # "fail"
      BY DEF OwedInHand
    <3>1. Handling(r) /\ r \notin excused /\ plugin.rec.req = r /\ Success(plugin.rec)
      BY <1>4, ExcusedStays DEF Handling
    <3>2. plugin.step # "release"
      BY <3>1 DEF ChargeInv, StepsFit
    <3>3. /\ plugin.step = "lookup" => bill[r].owed = StreamCost
          /\ plugin.step = "settle" => plugin.rec.cost >= bill[r].owed
          /\ plugin.step = "clear" => bill[r].charged >= bill[r].owed
      BY <3>1 DEF OwedInv, OwedInHand
    <3>4. Larger(holds[Held], StreamCost) >= StreamCost
      <4>1. plugin.rec.req \in Requests
        BY <1>2 DEF Records
      <4>2. holds[Held] \in Nat
        BY <1>0, <4>1 DEF TypeInv, BillingTypeOK, RecordsArrived, Pending,
           HandlersTyped, MoneyTyped, Held
      <4> QED
        BY <4>2, BillingAssumption DEF Larger
    <3> QED
      BY <1>1, <1>3, <2>3, <3>1, <3>2, <3>3, <3>4
  <2>5. OwedCharged(r)'
    BY <1>1, <1>4, ExcusedStays DEF OwedInv, OwedCharged
  <2> QED
    BY <2>1, <2>2, <2>4, <2>5
<1> QED
  BY <1>5, <1>6

\* The charge itself: its request was charged nothing before.
LEMMA SettleStep ==
    ASSUME TypeInv, ChargeInv, OwedInv, [Next]_vars, Settle
    PROVE  ChargeInv' /\ OwedInv'
<1>0. RecordsTyped /\ BillTyped
  BY DEF TypeInv, BillingTypeOK
<1>1. PICK s \in Requests : s = plugin.rec.req
  BY <1>0, RecordInHand DEF Settle
<1>2. /\ plugin.step = "settle" /\ plugin' = [step |-> "clear", rec |-> plugin.rec]
      /\ plugin.rec.cost \in Nat /\ UNCHANGED <<queue, at, excused>>
      /\ bill' = [bill EXCEPT ![s].charged = @ + plugin.rec.cost, ![s].settles = @ + 1]
  BY <1>0, <1>1, RecordInHand DEF Settle, Charge, Step
<1>3. Success(plugin.rec) /\ plugin # Waiting /\ plugin' # Waiting
  BY <1>2 DEF ChargeInv, StepsFit, Waiting
<1>4. \A r \in Requests : (Queued(r)' <=> Queued(r)) /\ (Handling(r)' <=> Handling(r))
                             /\ (Handling(r) <=> r = s)
  BY <1>1, <1>2, <1>3 DEF Queued, Handling, Success
<1>5. \A r \in Requests :
         /\ bill'[r].owed = bill[r].owed
         /\ bill'[r].settles = IF r = s THEN bill[r].settles + 1 ELSE bill[r].settles
         /\ bill'[r].charged = IF r = s THEN bill[r].charged + plugin.rec.cost
                                        ELSE bill[r].charged
  BY <1>0, <1>2 DEF BillTyped
<1>6. at[s] = "done" /\ ~ Queued(s) /\ bill[s].settles = 0
  BY <1>2, <1>4 DEF ChargeInv, ChargedWhenHandled
<1>7. ChargeInv'
  <2>1. StepsFit'
    BY <1>2, <1>3 DEF StepsFit, Success
  <2>2. OneSuccess'
    BY <1>2 DEF ChargeInv, OneSuccess, Success
  <2>3. ASSUME NEW r \in Requests PROVE ChargedWhenHandled(r)'
    <3>1. CASE r = s
      <4>1. at'[s] = "done" /\ plugin'.step = "clear"
        BY <1>2, <1>6
      <4>2. ~ Queued(s)'
        BY <1>4, <1>6
      <4>3. bill'[s].settles = 1
        BY <1>5, <1>6
      <4> QED
        BY <3>1, <4>1, <4>2, <4>3 DEF ChargedWhenHandled
    <3>2. CASE r # s
      BY <1>2, <1>4, <1>5, <3>2, ZenonT(30) DEF ChargeInv, ChargedWhenHandled
    <3> QED
      BY <3>1, <3>2
  <2> QED
    BY <2>1, <2>2, <2>3 DEF ChargeInv
<1>8. OwedInv'
  <2> SUFFICES ASSUME NEW r \in Requests
               PROVE  /\ at'[r] # "done" => bill'[r].owed = 0
                      /\ OwedInQueue(r)' /\ OwedInHand(r)' /\ OwedCharged(r)'
    BY DEF OwedInv
  <2>1. at'[r] # "done" => bill'[r].owed = 0
    BY <1>2, <1>5 DEF OwedInv
  <2>2. OwedInQueue(r)'
    BY <1>2, <1>5 DEF OwedInv, OwedInQueue, DueRecorded, Success
  <2>3. bill[r].owed \in Nat /\ bill[r].charged \in Nat
    BY <1>0 DEF BillTyped
  <2>4. OwedInHand(r)'
    <3> SUFFICES ASSUME Handling(r)', r \notin excused'
                 PROVE  /\ plugin'.step = "clear"
                        /\ bill'[r].charged >= bill'[r].owed
      BY DEF OwedInHand
    <3>1. Handling(r) /\ r = s /\ r \notin excused /\ plugin'.step = "clear"
      BY <1>2, <1>4
    <3>2. plugin.rec.cost >= bill[r].owed
      BY <1>2, <3>1 DEF OwedInv, OwedInHand
    <3>3. /\ bill'[r].charged = bill[r].charged + plugin.rec.cost
          /\ bill'[r].owed = bill[r].owed
      BY <1>5, <3>1
    <3> QED
      BY <1>2, <2>3, <3>1, <3>2, <3>3
  <2>5. OwedCharged(r)'
    BY <1>2, <1>4, <1>5 DEF OwedInv, OwedCharged
  <2> QED
    BY <2>1, <2>2, <2>4, <2>5
<1> QED
  BY <1>7, <1>8

\* The plugin is through with a record, or dies with it.
LEMMA FinishStep ==
    ASSUME TypeInv, ChargeInv, OwedInv, [Next]_vars,
           WriteFailed \/ Record \/ Crash
    PROVE  ChargeInv' /\ OwedInv'
<1>0. HandlersTyped /\ RecordsTyped /\ BillTyped
  BY DEF TypeInv, BillingTypeOK
<1>1. plugin' = Waiting
  BY DEF WriteFailed, Record, Crash
<1>2. UNCHANGED queue \/ (Crash /\ queue' = <<>>)
  BY DEF WriteFailed, Record, Crash
<1>3. \A r \in Requests : ~ Handling(r)' /\ (Queued(r)' => Queued(r))
  BY <1>1, <1>2 DEF Handling, Queued, Success
<1>4. \A r \in Requests :
         /\ bill'[r].owed = bill[r].owed /\ bill'[r].settles = bill[r].settles
         /\ bill'[r].charged = bill[r].charged
  <2>1. CASE Record
    BY <1>0, <2>1, RecordInHand DEF Record, BillTyped
  <2>2. CASE WriteFailed \/ Crash
    BY <2>2 DEF WriteFailed, Crash
  <2> QED
    BY <2>1, <2>2
<1>5. \A r \in Requests : at[r] = "done" => at'[r] = "done"
  BY <1>0, DoneStays
<1>6. ChargeInv'
  <2>1. StepsFit'
    BY <1>1 DEF StepsFit, Waiting
  <2>2. OneSuccess'
    BY <1>2 DEF ChargeInv, OneSuccess, Success
  <2>3. ASSUME NEW r \in Requests PROVE ChargedWhenHandled(r)'
    BY <1>3, <1>4, <1>5 DEF ChargeInv, ChargedWhenHandled
  <2> QED
    BY <2>1, <2>2, <2>3 DEF ChargeInv
<1>7. OwedInv'
  <2> SUFFICES ASSUME NEW r \in Requests
               PROVE  /\ at'[r] # "done" => bill'[r].owed = 0
                      /\ OwedInQueue(r)' /\ OwedInHand(r)' /\ OwedCharged(r)'
    BY DEF OwedInv
  <2>1. at'[r] # "done" => bill'[r].owed = 0
    BY <1>4, <1>5 DEF OwedInv
  <2>2. OwedInQueue(r)'
    BY <1>2, <1>4 DEF OwedInv, OwedInQueue, DueRecorded, Success
  <2>3. OwedInHand(r)'
    BY <1>3 DEF OwedInHand
  <2>4. OwedCharged(r)'
    <3> SUFFICES ASSUME ~ Queued(r)', r \notin excused'
                 PROVE  bill[r].charged >= bill[r].owed
      BY <1>4 DEF OwedCharged
    <3>1. r \notin excused
      BY ExcusedStays
    <3>2. CASE Crash
      <4>1. ~ Pending(r)
        BY <3>2 DEF Crash
      <4>2. ~ Queued(r) /\ ~ Handling(r)
        BY <4>1 DEF Pending, Queued, Handling
      <4> QED
        BY <3>1, <4>2 DEF OwedInv, OwedCharged
    <3>3. CASE (WriteFailed \/ Record) /\ ~ Handling(r)
      <4>1. ~ Queued(r)
        BY <3>3 DEF WriteFailed, Record, Queued, Success
      <4> QED
        BY <3>1, <3>3, <4>1 DEF OwedInv, OwedCharged
    <3>4. CASE (WriteFailed \/ Record) /\ Handling(r)
      BY <3>1, <3>4 DEF OwedInv, OwedInHand, WriteFailed, Record
    <3> QED
      BY <3>2, <3>3, <3>4
  <2> QED
    BY <2>1, <2>2, <2>3, <2>4
<1> QED
  BY <1>6, <1>7

LEMMA ChargeStep == TypeInv /\ ChargeInv /\ OwedInv /\ [Next]_vars => ChargeInv' /\ OwedInv'
<1> SUFFICES ASSUME TypeInv, ChargeInv, OwedInv, [Next]_vars PROVE ChargeInv' /\ OwedInv'
  OBVIOUS
<1>1. CASE UNCHANGED <<queue, plugin, bill>>
  BY <1>1, QuietStep
<1>2. CASE \E r \in Requests : AttemptFails(r) \/ Serve(r) \/ Break(r)
  <2> PICK r \in Requests : AttemptFails(r) \/ Serve(r) \/ Break(r)
    BY <1>2
  <2>1. CASE Serve(r)
    BY <2>1, ServeStep
  <2>2. CASE (AttemptFails(r) \/ Break(r)) /\ Publish(Rec(r, "failed", 0))
    BY <2>2, FailureStep
  <2>3. CASE AttemptFails(r) /\ UNCHANGED queue
    BY <1>1, <2>3 DEF AttemptFails
  <2> QED
    BY <2>1, <2>2, <2>3 DEF AttemptFails, Break
<1>3. CASE HandleUsage
  BY <1>3, HandleStep
<1>4. CASE Release \/ Lookup \/ SettleNothing \/ SettleFails \/ Clear \/ RecordFails
  BY <1>4, InnerStep
<1>5. CASE Settle
  BY <1>5, SettleStep
<1>6. CASE WriteFailed \/ Record \/ Crash
  BY <1>6, FinishStep
<1> QED
  BY <1>1, <1>2, <1>3, <1>4, <1>5, <1>6, QueueSteps, PluginSteps, BillSteps DEF Dispatch

LEMMA ChargeInit == Init => ChargeInv /\ OwedInv
  BY DEF Init, ChargeInv, OwedInv, StepsFit, OneSuccess, ChargedWhenHandled,
     OwedInQueue, OwedInHand, OwedCharged, Queued, Handling, Waiting, NoRec

\* No request is settled twice, whatever fails after its charge, for any number
\* of requests and attempts.
THEOREM AlwaysChargedOnce == Spec => []ChargedOnce
<1>1. ChargeInv => ChargedOnce
  BY DEF ChargeInv, ChargedWhenHandled, ChargedOnce
<1> QED
  BY <1>1, TypeInvInit, TypeInvStep, ChargeInit, ChargeStep, PTL DEF Spec

\* Every success whose record is handled is charged what it owes, unless a
\* fault, strict mode or a crash excuses it: no other request's step and no
\* lost hold makes output free.
THEOREM OutputAlwaysPaid == Spec => []OutputPaid
<1>1. OwedInv => OutputPaid
  <2> SUFFICES ASSUME OwedInv, NEW r \in Requests \ excused, ~ Pending(r)
               PROVE  bill[r].charged >= bill[r].owed
    BY DEF OutputPaid
  <2>1. ~ Queued(r) /\ ~ Handling(r)
    BY DEF Pending, Queued, Handling
  <2> QED
    BY <2>1 DEF OwedInv, OwedCharged
<1> QED
  BY <1>1, TypeInvInit, TypeInvStep, ChargeInit, ChargeStep, PTL DEF Spec

(***************************************************************************)
(* Holds                                                                   *)
(***************************************************************************)

\* Somebody is still going to end the hold of r, or was kept from it.
Keeps(r) ==
    \/ InFlight(r)
    \/ r \in excused
    \/ \E i \in DOMAIN queue : queue[i].req = r
    \/ plugin.rec.req = r /\ plugin.step \in {"release", "lookup", "settle", "clear"}

ExcusedArrived == \A r \in excused : at[r] # "new"

HoldsKept ==
    \A t \in Traces : holds[t] # 0 => \E r \in Requests : trace[r] = t /\ Keeps(r)

LEMMA ExcusedStep == TypeInv /\ ExcusedArrived /\ [Next]_vars => ExcusedArrived'
<1> SUFFICES ASSUME TypeInv, ExcusedArrived, [Next]_vars, NEW r \in excused'
             PROVE  at'[r] # "new"
  BY DEF ExcusedArrived
<1>0. HandlersTyped /\ RecordsTyped /\ BillTyped /\ RecordsArrived
  BY DEF TypeInv, BillingTypeOK
<1>1. CASE r \in excused
  BY <1>0, <1>1, ArrivedStays DEF ExcusedArrived, BillTyped
<1>2. CASE r \notin excused
  <2>1. CASE Crash
    <3>1. r \in Requests /\ (InFlight(r) \/ Pending(r))
      BY <1>2, <2>1 DEF Crash
    <3>2. at[r] # "new"
      BY <1>0, <3>1 DEF InFlight, RecordsArrived
    <3> QED
      BY <1>0, <3>1, <3>2, ArrivedStays
  <2>2. CASE ~ Crash
    <3>1. \/ r \in Requests /\ at[r] # "new"
          \/ plugin.step # "idle" /\ r = plugin.rec.req
          \/ queue # <<>> /\ r = Head(queue).req
      BY <1>2, <2>2 DEF Next, Handle, Dispatch, Environment, vars, Arrive,
         CheckDebt, CheckQuota, QuotaFails, Preflight, Hold, HoldFails,
         AttemptFails, GiveUp, Serve, Break, ServeSilently, Panic,
         DeferredRelease, HandleUsage, Release, Lookup, Settle, SettleNothing,
         SettleFails, Clear, WriteFailed, Record, RecordFails, Deposit,
         Resolve, HoldExpires, PeriodEnds, SubscriptionEnds, Free, Excuse
    <3>2. CASE plugin.step # "idle" /\ r = plugin.rec.req
      <4>1. r \in Requests /\ Pending(r)
        BY <1>0, <3>2, RecordInHand DEF Pending
      <4> QED
        BY <1>0, <4>1, ArrivedStays DEF RecordsArrived
    <3>3. CASE queue # <<>> /\ r = Head(queue).req
      <4>1. 1 \in DOMAIN queue /\ Head(queue) = queue[1] /\ queue[1] \in Records
        BY <1>0, <3>3 DEF RecordsTyped
      <4>2. r \in Requests /\ Pending(r)
        BY <3>3, <4>1 DEF Pending, Records
      <4> QED
        BY <1>0, <4>2, ArrivedStays DEF RecordsArrived
    <3> QED
      BY <1>0, <3>1, <3>2, <3>3, ArrivedStays
  <2> QED
    BY <2>1, <2>2
<1> QED
  BY <1>1, <1>2

\* A request that keeps a hold has arrived: its trace id is fixed.
LEMMA KeeperArrived ==
    ASSUME TypeInv, ExcusedArrived, [Next]_vars, NEW r \in Requests, Keeps(r)
    PROVE  at[r] # "new" /\ trace[r] \in Traces /\ trace'[r] = trace[r]
<1>0. HandlersTyped /\ RecordsArrived
  BY DEF TypeInv, BillingTypeOK
<1>1. at[r] # "new"
  BY <1>0 DEF Keeps, InFlight, ExcusedArrived, RecordsArrived, Pending
<1>2. trace'[r] = trace[r]
  BY <1>0, <1>1, TraceSteps DEF Arrive, HandlersTyped
<1> QED
  BY <1>0, <1>1, <1>2 DEF HandlersTyped

\* What keeps a hold goes on keeping it until it deletes the hold.
LEMMA KeptOn ==
    ASSUME TypeInv, [Next]_vars, NEW r \in Requests, Keeps(r), ~ Keeps(r)'
    PROVE  holds' = [holds EXCEPT ![trace[r]] = 0]
<1>0. HandlersTyped /\ RecordsTyped
  BY DEF TypeInv, BillingTypeOK
<1>q. queue \in Seq(Records)
  BY <1>0 DEF RecordsTyped
<1>1. r \notin excused'
  BY DEF Keeps
<1>2. ~ Crash
  <2> SUFFICES ASSUME Crash PROVE FALSE
    OBVIOUS
  <2>1. ~ InFlight(r) /\ ~ Pending(r)
    BY <1>1 DEF Crash
  <2> QED
    BY <1>1, <2>1, ExcusedStays DEF Keeps, Pending
<1>3. CASE InFlight(r)
  <2>1. Handle(r) /\ at'[r] \notin {"upstream", "erroring"}
    BY <1>0, <1>2, <1>3, HandlerSteps DEF Keeps, InFlight, Handle, Arrive,
       CheckDebt, CheckQuota, QuotaFails, Preflight, Hold, HoldFails,
       AttemptFails, GiveUp, Serve, Break, ServeSilently, Panic,
       DeferredRelease, Goto, HandlersTyped
  <2>2. ~ (Serve(r) \/ Break(r))
    <3> SUFFICES ASSUME NEW rec, rec.req = r, Publish(rec), UNCHANGED plugin PROVE FALSE
      BY DEF Serve, Break, Rec
    <3>1. Len(queue) + 1 \in DOMAIN queue' /\ queue'[Len(queue) + 1] = rec
      BY <1>q DEF Publish
    <3> QED
      BY <3>1 DEF Keeps
  <2> QED
    BY <1>0, <1>1, <1>3, <2>1, <2>2 DEF Handle, InFlight, CheckDebt, CheckQuota,
       QuotaFails, Preflight, Hold, HoldFails, AttemptFails, GiveUp,
       ServeSilently, Panic, DeferredRelease, Goto, Excuse, HandlersTyped
<1>4. ASSUME NEW i \in DOMAIN queue, queue[i].req = r PROVE FALSE
  <2>1. CASE HandleUsage
    <3>1. CASE i = 1
      <4>1. Head(queue) = queue[1]
        BY <1>q, <3>1
      <4>2. /\ plugin'.rec.req = r
            /\ plugin'.step \in {"release", "lookup", "settle"} \/ r \in excused'
        BY <1>4, <2>1, <3>1, <4>1 DEF HandleUsage, Step, Excuse
      <4> QED
        BY <1>1, <4>2 DEF Keeps
    <3>2. CASE i # 1
      <4>1. i - 1 \in DOMAIN queue' /\ queue'[i - 1] = queue[i]
        BY <1>q, <2>1, <3>2 DEF HandleUsage
      <4> QED
        BY <1>4, <4>1 DEF Keeps
    <3> QED
      BY <3>1, <3>2
  <2>2. CASE UNCHANGED queue \/ \E rec \in Records : Publish(rec)
    <3>1. i \in DOMAIN queue' /\ queue'[i] = queue[i]
      BY <1>q, <2>2 DEF Publish
    <3> QED
      BY <1>4, <3>1 DEF Keeps
  <2>3. \A kind \in {"precise", "missing", "failed"}, c \in Nat, s \in Requests :
           Rec(s, kind, c) \in Records
    BY DEF Rec, Records
  <2> QED
    BY <1>2, <2>1, <2>2, <2>3, QueueSteps, BillingAssumption
       DEF AttemptFails, Serve, Break
<1>5. CASE plugin.rec.req = r /\ plugin.step \in {"release", "lookup", "settle", "clear"}
  <2>1. plugin.rec \in Records
    BY <1>0, <1>5, RecordInHand DEF InHand
  <2>2. ~ UNCHANGED plugin
    BY <1>5 DEF Keeps
  <2>3. CASE Release \/ SettleNothing \/ Clear
    BY <1>1, <1>5, <2>3 DEF Release, SettleNothing, Clear, Free, Excuse, Held
  <2>4. ~ (Lookup \/ Settle)
    <3> SUFFICES ASSUME Lookup \/ Settle PROVE FALSE
      OBVIOUS
    <3>1. plugin'.rec.req = r /\ (plugin'.step \in {"settle", "clear"} \/ r \in excused')
      BY <1>5, <2>1 DEF Lookup, Settle, Step, Excuse, Records
    <3> QED
      BY <1>1, <3>1 DEF Keeps
  <2>5. ~ SettleFails
    BY <1>1, <1>5 DEF SettleFails, Excuse
  <2> QED
    BY <1>2, <1>5, <2>2, <2>3, <2>4, <2>5, PluginSteps
       DEF Dispatch, HandleUsage, WriteFailed, Record, RecordFails
<1> QED
  BY <1>1, <1>3, <1>4, <1>5, ExcusedStays DEF Keeps

LEMMA HoldsKeptStep ==
    TypeInv /\ ExcusedArrived /\ HoldsKept /\ [Next]_vars => HoldsKept'
<1> SUFFICES ASSUME TypeInv, ExcusedArrived, HoldsKept, [Next]_vars,
                    NEW t \in Traces, holds'[t] # 0
             PROVE  \E r \in Requests : trace'[r] = t /\ Keeps(r)'
  BY DEF HoldsKept
<1>0. MoneyTyped /\ HandlersTyped
  BY DEF TypeInv, BillingTypeOK
<1>1. CASE holds[t] # 0
  <2>1. PICK r \in Requests : trace[r] = t /\ Keeps(r)
    BY <1>1 DEF HoldsKept
  <2>2. trace'[r] = t
    BY <2>1, KeeperArrived
  <2>3. Keeps(r)'
    BY <1>0, <2>1, KeptOn DEF MoneyTyped
  <2> QED
    BY <2>2, <2>3
<1>2. CASE holds[t] = 0
  <2>1. ~ (Release \/ SettleNothing \/ Clear \/ \E r \in Requests : DeferredRelease(r))
    BY <1>0, <1>2 DEF Release, SettleNothing, Clear, Free, DeferredRelease, MoneyTyped
  <2>2. ~ \E s \in Traces : HoldExpires(s)
    BY <1>0, <1>2 DEF HoldExpires, MoneyTyped
  <2>3. PICK r \in Requests : Hold(r) \/ HoldFails(r)
    BY <1>2, <2>1, <2>2, HoldSteps
  <2>4. holds' = [holds EXCEPT ![trace[r]] = HoldCost]
        /\ (at' = [at EXCEPT ![r] = "upstream"] \/ r \in excused')
    BY <1>2, <2>3 DEF Hold, HoldFails, Goto, Excuse
  <2>5. trace[r] = t /\ trace'[r] = t
    BY <1>0, <1>2, <2>3, <2>4 DEF MoneyTyped, Hold, HoldFails, flow
  <2>6. Keeps(r)'
    BY <1>0, <2>4 DEF Keeps, InFlight, HandlersTyped
  <2> QED
    BY <2>5, <2>6
<1> QED
  BY <1>1, <1>2

\* No hold is ever forgotten: behind each there is a request that runs, a
\* record on its way, or one of the interruptions the code leaves to the ttl,
\* also when requests share a trace id.
THEOREM HoldsAlwaysOwned == Spec => []HoldsHaveOwner
<1>1. Init => ExcusedArrived /\ HoldsKept
  BY DEF Init, ExcusedArrived, HoldsKept
<1>2. HoldsKept => HoldsHaveOwner
  BY DEF HoldsKept, HoldsHaveOwner, Keeps, Pending
<1> QED
  BY <1>1, <1>2, TypeInvInit, TypeInvStep, ExcusedStep, HoldsKeptStep, PTL DEF Spec
=============================================================================
