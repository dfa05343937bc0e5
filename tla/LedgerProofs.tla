---------------------------- MODULE LedgerProofs ----------------------------
(***************************************************************************)
(* The ledger's safety, for every value of its constants.                  *)
(***************************************************************************)
EXTENDS LedgerProps, FiniteSetTheorems, TLAPS

(***************************************************************************)
(* The sum of the holds                                                    *)
(***************************************************************************)

\* The units held are finitely many, so their number is a natural number.
LEMMA HeldFinite ==
    ASSUME NEW h \in [Requests -> Nat]
    PROVE  IsFiniteSet(HeldUnits(h)) /\ HeldSum(h) \in Nat
<1> DEFINE Parts == {{r} \X (1..h[r]) : r \in Requests}
           part  == [r \in Requests |-> {r} \X (1..h[r])]
<1>1. IsFiniteSet(Parts)
  <2>1. part \in Surjection(Requests, Parts)
    BY Zenon DEF Surjection
  <2> HIDE DEF Parts, part
  <2> QED BY <2>1, FS_Surjection, LedgerAssumption
<1>2. ASSUME NEW T \in Parts PROVE IsFiniteSet(T)
  <2>1. PICK r \in Requests : T = {r} \X (1..h[r])
    BY <1>2
  <2>2. IsFiniteSet(1..h[r])
    BY FS_Interval
  <2>3. IsFiniteSet({r})
    BY FS_Singleton
  <2> QED BY <2>1, <2>2, <2>3, FS_Product
<1>3. IsFiniteSet(UNION Parts)
  <2> HIDE DEF Parts
  <2> QED BY <1>1, <1>2, FS_UNION
<1> QED BY <1>3, FS_CardinalityType DEF HeldUnits, HeldSum

\* Which units are held.
LEMMA UnitHeld ==
    ASSUME NEW h \in [Requests -> Nat]
    PROVE  HeldUnits(h) = {u \in Requests \X Nat : u[2] \in 1..h[u[1]]}
BY DEF HeldUnits

\* Holds that are no larger hold no more: what the scripts, Release, Settle
\* and the expiry of a key leave of the holds is within what there was.
LEMMA HeldMonotone ==
    ASSUME NEW h \in [Requests -> Nat], NEW g \in [Requests -> Nat],
           \A r \in Requests : h[r] <= g[r]
    PROVE  HeldSum(h) <= HeldSum(g)
<1>1. HeldUnits(h) \subseteq HeldUnits(g)
  BY UnitHeld
<1> QED BY <1>1, HeldFinite, FS_Subset DEF HeldSum

\* A new hold of a adds at most a.
LEMMA HeldAdd ==
    ASSUME NEW h \in [Requests -> Nat], NEW r \in Requests, NEW a \in Nat,
           h[r] = 0
    PROVE  HeldSum([h EXCEPT ![r] = a]) <= HeldSum(h) + a
<1> DEFINE new   == [h EXCEPT ![r] = a]
           added == {r} \X (1..a)
<1>1. IsFiniteSet(added) /\ Cardinality(added) = a
  <2>1. IsFiniteSet({r}) /\ Cardinality({r}) = 1
    BY FS_Singleton
  <2>2. IsFiniteSet(1..a)
    BY FS_Interval
  <2>3. Cardinality(1..a) = a
    BY FS_Interval
  <2>4. IsFiniteSet(added)
    BY <2>1, <2>2, FS_Product
  <2>5. Cardinality(added) = Cardinality({r}) * Cardinality(1..a)
    BY <2>1, <2>2, FS_Product
  <2> QED BY <2>1, <2>3, <2>4, <2>5
<1>2. new \in [Requests -> Nat]
  OBVIOUS
<1>3. HeldUnits(new) \subseteq HeldUnits(h) \cup added
  <2>1. SUFFICES ASSUME NEW u \in HeldUnits(new), u \notin HeldUnits(h)
                 PROVE  u \in added
    OBVIOUS
  <2>2. u \in Requests \X Nat /\ u[2] \in 1..new[u[1]]
    BY <1>2, UnitHeld
  <2>3. u[2] \notin 1..h[u[1]]
    BY <2>1, <2>2, UnitHeld
  <2>4. u[1] = r
    BY <2>2, <2>3
  <2> QED BY <2>2, <2>4
<1>4. IsFiniteSet(HeldUnits(h)) /\ Cardinality(HeldUnits(h)) \in Nat
  BY HeldFinite DEF HeldSum
<1>5. /\ IsFiniteSet(HeldUnits(h) \cup added)
      /\ Cardinality(HeldUnits(h) \cup added) <= Cardinality(HeldUnits(h)) + a
  <2>1. Cardinality(HeldUnits(h) \cap added) \in Nat
    <3>1. IsFiniteSet(HeldUnits(h) \cap added)
      BY <1>1, FS_Subset
    <3> QED BY <3>1, FS_CardinalityType
  <2> HIDE DEF added
  <2> QED BY <1>1, <1>4, <2>1, FS_Union
<1>6. Cardinality(HeldUnits(new)) <= Cardinality(HeldUnits(h) \cup added)
  BY <1>3, <1>5, FS_Subset
<1>7. Cardinality(HeldUnits(new)) \in Nat
  BY <1>2, HeldFinite DEF HeldSum
<1>8. Cardinality(HeldUnits(h) \cup added) \in Nat
  BY <1>5, FS_CardinalityType
<1> HIDE DEF new, added
<1>9. Cardinality(HeldUnits(new)) <= Cardinality(HeldUnits(h)) + a
  BY <1>4, <1>5, <1>6, <1>7, <1>8
<1> QED BY <1>9 DEF HeldSum, new

\* Where nothing is held, the sum is zero.
LEMMA HeldZero == HeldSum([r \in Requests |-> 0]) = 0
<1>1. HeldUnits([r \in Requests |-> 0]) = {}
  BY DEF HeldUnits
<1> QED BY <1>1, FS_EmptySet DEF HeldSum

(***************************************************************************)
(* The parts of a step                                                     *)
(***************************************************************************)

\* What a script leaves of the holds and of their creation times.
LEMMA LiveHoldsType ==
    ASSUME TypeOK, NEW t
    PROVE  /\ LiveHolds(t) \in [Requests -> Nat]
           /\ LiveTS(t) \in [Requests -> Int]
           /\ \A r \in Requests : LiveHolds(t)[r] <= holds[r]
BY DEF TypeOK, LiveHolds, LiveTS, NoTime

\* A write of the two hold keys keeps their types.
LEMMA SetHoldsType ==
    ASSUME TypeOK, NEW h \in [Requests -> Nat], NEW t \in [Requests -> Int],
           SetHolds(h, t)
    PROVE  /\ holds' \in [Requests -> Nat]
           /\ holdsTS' \in [Requests -> Int]
           /\ deadline' \in [Keys -> Int]
BY DEF TypeOK, SetHolds, DeadlineFor, Keys, NoTime

\* A request starts a call in one of three steps, with arguments of their type,
\* and starts a transaction only for the kinds that write.
LEMMA RequestBegins ==
    ASSUME TypeOK, NEW c \in Calls, Request(c)
    PROVE  \E step \in {"script", "lock", "zrem"}, call \in CallRecords :
              /\ Begin(c, step, call)
              /\ step = "lock" => call.kind \in {"credit", "debit", "settle"}
                                  /\ call.amt \in Amounts
              /\ call.kind \in {"hold", "settle", "release"} =>
                    call.req \in Requests
<1> now \in Nat /\ Amounts \subseteq Nat
  BY LedgerAssumption DEF TypeOK
<1>1. CASE GetBalance(c)
  BY <1>1 DEF GetBalance, Call, CallRecords, Kinds, NoReq
<1>2. ASSUME NEW a \in Amounts, Credit(c, a) \/ Debit(c, a)
      PROVE  \E call \in CallRecords : /\ Begin(c, "lock", call)
                                       /\ call.kind \in {"credit", "debit"}
                                       /\ call.amt \in Amounts
  BY <1>2 DEF Credit, Debit, Call, CallRecords, Kinds, NoReq
<1>3. ASSUME NEW r \in Requests, Release(c, r)
      PROVE  \E call \in CallRecords : /\ Begin(c, "zrem", call)
                                       /\ call.req \in Requests
  BY <1>3 DEF Release, Call, CallRecords, Kinds, NoReq
<1>4. ASSUME NEW r \in Requests, NEW a \in Amounts, Hold(c, r, a)
      PROVE  \E call \in CallRecords : /\ Begin(c, "script", call)
                                       /\ call.req \in Requests
  BY <1>4 DEF Hold, Call, CallRecords, Kinds, NoReq
<1>5. ASSUME NEW r \in Requests, NEW a \in Amounts \cup {0}, Settle(c, r, a)
      PROVE  \E step \in {"lock", "zrem"}, call \in CallRecords :
                /\ Begin(c, step, call)
                /\ call.kind = "settle" /\ call.req \in Requests
                /\ step = "lock" => call.amt \in Amounts
  BY <1>5 DEF Settle, Call, CallRecords, Kinds, NoReq
<1> QED BY <1>1, <1>2, <1>3, <1>4, <1>5 DEF Request

(***************************************************************************)
(* The inductive invariant                                                 *)
(***************************************************************************)

LEMMA LedgerInit == Init => LedgerInv
<1> SUFFICES ASSUME Init PROVE LedgerInv
  OBVIOUS
<1>1. InitialBalance \in Nat
  BY LedgerAssumption
<1>2. TypeOK
  BY <1>1 DEF Init, TypeOK, Call, NoCall, CallRecords, Kinds, Steps, NoReq,
              NoTime, Miss, Free
<1>3. BalanceAccounted
  BY <1>1 DEF Init, BalanceAccounted
<1>4. ExposureBounded
  BY <1>1, HeldZero DEF Init, ExposureBounded
<1>5. LockedRead /\ CallsWellFormed /\ SeenCredited
  BY <1>1 DEF Init, LockedRead, CallsWellFormed, SeenCredited, NoCall, Call, Miss
<1> QED BY <1>2, <1>3, <1>4, <1>5 DEF LedgerInv

\* Every step keeps the types.
LEMMA TypeStep == LedgerInv /\ [Next]_vars => TypeOK'
<1> SUFFICES ASSUME LedgerInv, [Next]_vars PROVE TypeOK'
  OBVIOUS
<1> TypeOK /\ CallsWellFormed /\ LockedRead /\ BalanceAccounted
  BY DEF LedgerInv
<1> Free \notin Calls /\ NoCall \in CallRecords
  BY LedgerAssumption DEF Free, NoCall, Call, CallRecords, Kinds, NoReq
<1> USE DEF TypeOK, dbVars, holdVars
<1>1. CASE UNCHANGED vars
  BY <1>1 DEF vars
<1>2. ASSUME NEW c \in Calls, Request(c) PROVE TypeOK'
  <2>1. PICK step \in {"script", "lock", "zrem"}, call \in CallRecords :
           Begin(c, step, call)
    BY <1>2, RequestBegins
  <2> QED BY <2>1 DEF Begin, Steps
<1>3. ASSUME NEW c \in Calls, LockRow(c) PROVE TypeOK'
  BY <1>3 DEF LockRow, Steps
<1>4. ASSUME NEW c \in Calls, Transact(c) PROVE TypeOK'
  <2> op[c] \in CallRecords /\ op[c].amt \in Nat /\ read[c] \in Int
    BY DEF CallRecords
  <2>1. CASE CommitCredit(c)
    BY <2>1 DEF CommitCredit, Goto, Steps
  <2>2. CASE CommitDebit(c)
    BY <2>2 DEF CommitDebit, Goto, Steps
  <2>3. CASE RejectDebit(c)
    BY <2>3 DEF RejectDebit, Return, Steps
  <2>4. CASE CommitSettle(c)
    <3>1. pc[c] = "write" /\ op[c].kind = "settle"
      BY <2>4 DEF CommitSettle
    <3>2. op[c].req \in Requests
      BY <3>1 DEF CallsWellFormed
    <3>3. Debited(read[c], op[c].amt) \in Nat
          /\ op[c].amt - Debited(read[c], op[c].amt) \in Nat
      BY DEF Debited
    <3>4. log' \in [credit : Nat, debit : Nat, settle : Nat, shortfall : Nat]
      <4> DEFINE d == Debited(read[c], op[c].amt)
      <4>1. log' = [log EXCEPT !.settle = @ + d,
                               !.shortfall = @ + (op[c].amt - d)]
        BY <2>4 DEF CommitSettle
      <4>2. log.settle + d \in Nat /\ log.shortfall + (op[c].amt - d) \in Nat
        BY <3>3
      <4> HIDE DEF d
      <4> QED BY <4>1, <4>2
    <3>5. balance' \in Int /\ billed' \in Nat /\ settleRows' \subseteq Requests
      BY <2>4, <3>2, <3>3 DEF CommitSettle
    <3>6. pc' \in [Calls -> Steps] /\ op' \in [Calls -> CallRecords]
          /\ read' \in [Calls -> Int]
      BY <2>4 DEF CommitSettle, Goto, Steps
    <3> QED BY <2>4, <3>4, <3>5, <3>6 DEF CommitSettle
  <2>5. CASE AtBound(c)
    BY <2>5 DEF AtBound, Return, Steps
  <2> QED BY <1>4, <2>1, <2>2, <2>3, <2>4, <2>5 DEF Transact
<1>5. ASSUME NEW c \in Calls, Command(c) PROVE TypeOK'
  <2> op[c] \in CallRecords /\ op[c].amt \in Nat /\ op[c].at \in Nat
    BY DEF CallRecords
  <2>1. CASE ScriptMiss(c)
    BY <2>1 DEF ScriptMiss, Goto, Return, Steps
  <2>2. CASE HoldScript(c)
    <3>1. PICK h \in [Requests -> Nat], t \in [Requests -> Int] : SetHolds(h, t)
      <4>1. LiveHolds(op[c].at) \in [Requests -> Nat]
            /\ LiveTS(op[c].at) \in [Requests -> Int]
        BY LiveHoldsType
      <4>2. [LiveHolds(op[c].at) EXCEPT ![op[c].req] = op[c].amt]
               \in [Requests -> Nat]
        BY <4>1
      <4>3. [LiveTS(op[c].at) EXCEPT ![op[c].req] = op[c].at]
               \in [Requests -> Int]
        <5>1. op[c].at \in Int
          OBVIOUS
        <5> QED BY <4>1, <5>1
      <4> QED BY <2>2, <4>1, <4>2, <4>3 DEF HoldScript
    <3>2. holds' \in [Requests -> Nat] /\ holdsTS' \in [Requests -> Int]
          /\ deadline' \in [Keys -> Int]
      BY <3>1, SetHoldsType
    <3>3. pc' \in [Calls -> Steps] /\ op' \in [Calls -> CallRecords]
          /\ read' \in [Calls -> Int]
      BY <2>2 DEF HoldScript, Goto, Return, Steps
    <3> QED BY <2>2, <3>2, <3>3 DEF HoldScript
  <2>3. CASE BalanceScript(c)
    <3>1. holds' \in [Requests -> Nat] /\ holdsTS' \in [Requests -> Int]
          /\ deadline' \in [Keys -> Int]
      BY <2>3, LiveHoldsType, SetHoldsType DEF BalanceScript
    <3> QED BY <2>3, <3>1 DEF BalanceScript, Return, Steps
  <2>4. CASE LoadBalance(c)
    BY <2>4 DEF LoadBalance, Steps
  <2>5. CASE FillCache(c)
    BY <2>5 DEF FillCache, Steps
  <2>6. CASE ExpireKeys(c)
    <3>1. HoldTTL \in Nat /\ KeyGrace \in Nat
      BY LedgerAssumption
    <3>2. deadline' \in [Keys -> Int]
      BY <2>6, <3>1 DEF ExpireKeys, Keys, NoTime
    <3> QED BY <2>6, <3>2 DEF ExpireKeys, Return, Steps
  <2>7. CASE RemoveHold(c)
    <3>1. [holds EXCEPT ![op[c].req] = 0] \in [Requests -> Nat]
      OBVIOUS
    <3>2. holds' \in [Requests -> Nat] /\ holdsTS' \in [Requests -> Int]
          /\ deadline' \in [Keys -> Int]
      BY <2>7, <3>1, SetHoldsType DEF RemoveHold
    <3> QED BY <2>7, <3>2 DEF RemoveHold, Goto, Steps
  <2>8. CASE RemoveTimestamp(c)
    <3> NoTime \in Int
      BY DEF NoTime
    <3>1. [holdsTS EXCEPT ![op[c].req] = NoTime] \in [Requests -> Int]
      OBVIOUS
    <3>2. holds' \in [Requests -> Nat] /\ holdsTS' \in [Requests -> Int]
          /\ deadline' \in [Keys -> Int]
      BY <2>8, <3>1, SetHoldsType DEF RemoveTimestamp
    <3> QED BY <2>8, <3>2 DEF RemoveTimestamp, Goto, Steps
  <2>9. CASE Invalidate(c)
    BY <2>9 DEF Invalidate, Return, Steps, Miss
  <2> QED BY <1>5, <2>1, <2>2, <2>3, <2>4, <2>5, <2>6, <2>7, <2>8, <2>9
          DEF Command
<1>6. ASSUME NEW c \in Calls, Abandon(c) PROVE TypeOK'
  BY <1>6 DEF Abandon, Return, Steps
<1>7. CASE CacheExpires
  BY <1>7 DEF CacheExpires, Miss
<1>8. CASE Tick
  <2>1. holds' \in [Requests -> Nat] /\ holdsTS' \in [Requests -> Int]
        /\ deadline' \in [Keys -> Int]
    <3>1. PICK h \in [Requests -> Nat], t \in [Requests -> Int] : SetHolds(h, t)
      BY <1>8 DEF Tick, NoTime
    <3> QED BY <3>1, SetHoldsType
  <2> QED BY <1>8, <2>1 DEF Tick
<1> QED BY <1>1, <1>2, <1>3, <1>4, <1>5, <1>6, <1>7, <1>8 DEF Next, Environment

\* Every step keeps the accounts.  A transaction writes under the lock the
\* balance it read under the lock, so what it writes is what the rows say;
\* every other step leaves the accounts alone and gives nobody the lock.
Accounts == BalanceAccounted /\ LockedRead /\ CallsWellFormed

LEMMA AccountsStep == LedgerInv /\ [Next]_vars => Accounts'
<1> SUFFICES ASSUME LedgerInv, [Next]_vars PROVE Accounts'
  OBVIOUS
<1> TypeOK /\ CallsWellFormed /\ LockedRead /\ BalanceAccounted
  BY DEF LedgerInv
<1> Free \notin Calls
  BY LedgerAssumption DEF Free
<1> USE DEF dbVars, holdVars, Accounts
<1>1. CASE UNCHANGED vars
  BY <1>1 DEF vars, BalanceAccounted, LockedRead, CallsWellFormed
<1>2. ASSUME NEW c \in Calls, Request(c) PROVE Accounts'
  <2>1. PICK step \in {"script", "lock", "zrem"}, call \in CallRecords :
           /\ Begin(c, step, call)
           /\ step = "lock" => call.kind \in {"credit", "debit", "settle"}
                               /\ call.amt \in Amounts
           /\ call.kind \in {"hold", "settle", "release"} =>
                 call.req \in Requests
    BY <1>2, RequestBegins
  <2> QED BY <2>1 DEF Begin, TypeOK, BalanceAccounted, LockedRead, CallsWellFormed
<1>3. ASSUME NEW c \in Calls, LockRow(c) PROVE Accounts'
  BY <1>3 DEF LockRow, TypeOK, BalanceAccounted, LockedRead, CallsWellFormed
<1>4. ASSUME NEW c \in Calls, pc[c] = "write",
             \E step \in Steps \ {"lock", "write"} :
                Goto(c, step) \/ Return(c),
             rowLock' = Free
      PROVE  LockedRead' /\ CallsWellFormed'
  <2>1. \A d \in Calls : pc[d] = "write" => d = c
    BY <1>4 DEF LockedRead
  <2>2. pc' = [pc EXCEPT ![c] = pc'[c]] /\ pc'[c] \notin {"lock", "write"}
    BY <1>4 DEF Goto, Return, TypeOK
  <2>3. \A d \in Calls : pc'[d] # "write"
    BY <2>1, <2>2 DEF TypeOK
  <2>4. CallsWellFormed'
    BY <1>4, <2>2 DEF Goto, Return, CallsWellFormed, TypeOK, NoCall, Call
  <2> QED BY <2>3, <2>4 DEF LockedRead
<1>5. ASSUME NEW c \in Calls, Transact(c) PROVE Accounts'
  <2> op[c].amt \in Nat
    BY DEF TypeOK, CallRecords
  <2> pc[c] = "write" => read[c] = balance
    BY DEF LockedRead
  <2>1. CASE CommitCredit(c)
    BY <1>4, <2>1 DEF CommitCredit, BalanceAccounted, TypeOK, Steps
  <2>2. CASE CommitDebit(c)
    BY <1>4, <2>2 DEF CommitDebit, BalanceAccounted, TypeOK, Steps
  <2>3. CASE RejectDebit(c)
    BY <1>4, <2>3 DEF RejectDebit, BalanceAccounted, Steps
  <2>4. CASE CommitSettle(c)
    <3>1. LockedRead' /\ CallsWellFormed'
      BY <1>4, <2>4 DEF CommitSettle, Steps
    <3> DEFINE d == Debited(read[c], op[c].amt)
    <3>2. d \in Nat /\ d <= balance
      BY <2>4 DEF CommitSettle, Debited, BalanceAccounted, TypeOK
    <3>3. /\ balance' = balance - d
          /\ log' = [log EXCEPT !.settle = @ + d,
                                !.shortfall = @ + (op[c].amt - d)]
          /\ billed' = billed + op[c].amt
      BY <2>4 DEF CommitSettle
    <3> HIDE DEF d
    <3>4. BalanceAccounted'
      BY <3>2, <3>3 DEF BalanceAccounted, TypeOK
    <3> QED BY <3>1, <3>4
  <2>5. CASE AtBound(c)
    BY <1>4, <2>5 DEF AtBound, BalanceAccounted, Steps
  <2> QED BY <1>5, <2>1, <2>2, <2>3, <2>4, <2>5 DEF Transact
<1>6. ASSUME NEW c \in Calls, UNCHANGED dbVars, pc[c] # "write",
             pc' = [pc EXCEPT ![c] = pc'[c]], pc'[c] \notin {"lock", "write"},
             op' = op \/ op' = [op EXCEPT ![c] = NoCall],
             \A d \in Calls \ {c} : read'[d] = read[d]
      PROVE  Accounts'
  <2>1. BalanceAccounted'
    BY <1>6 DEF BalanceAccounted
  <2>2. LockedRead'
    BY <1>6 DEF LockedRead, TypeOK
  <2>3. CallsWellFormed'
    BY <1>6 DEF CallsWellFormed, TypeOK, NoCall, Call
  <2> QED BY <2>1, <2>2, <2>3
<1>7. ASSUME NEW c \in Calls, Command(c) PROVE Accounts'
  <2> USE DEF Goto, Return, TypeOK
  <2>1. CASE ScriptMiss(c)
    BY <1>6, <2>1 DEF ScriptMiss
  <2>2. CASE HoldScript(c)
    BY <1>6, <2>2 DEF HoldScript
  <2>3. CASE BalanceScript(c)
    BY <1>6, <2>3 DEF BalanceScript
  <2>4. CASE LoadBalance(c)
    BY <1>6, <2>4 DEF LoadBalance
  <2>5. CASE FillCache(c)
    BY <1>6, <2>5 DEF FillCache
  <2>6. CASE ExpireKeys(c)
    BY <1>6, <2>6 DEF ExpireKeys
  <2>7. CASE RemoveHold(c)
    BY <1>6, <2>7 DEF RemoveHold
  <2>8. CASE RemoveTimestamp(c)
    BY <1>6, <2>8 DEF RemoveTimestamp
  <2>9. CASE Invalidate(c)
    BY <1>6, <2>9 DEF Invalidate
  <2> QED BY <1>7, <2>1, <2>2, <2>3, <2>4, <2>5, <2>6, <2>7, <2>8, <2>9
          DEF Command
<1>8. ASSUME NEW c \in Calls, Abandon(c) PROVE Accounts'
  <2>1. BalanceAccounted'
    BY <1>8 DEF Abandon, BalanceAccounted
  <2>2. LockedRead'
    BY <1>8 DEF Abandon, Return, LockedRead, TypeOK
  <2>3. CallsWellFormed'
    BY <1>8 DEF Abandon, Return, CallsWellFormed, TypeOK, NoCall, Call
  <2> QED BY <2>1, <2>2, <2>3
<1>9. CASE Environment
  BY <1>9 DEF Environment, CacheExpires, Tick, BalanceAccounted, LockedRead,
              CallsWellFormed
<1> QED BY <1>1, <1>2, <1>3, <1>5, <1>7, <1>8, <1>9 DEF Next

\* Every step keeps the holds within the credits.  A new hold fits in the cached
\* balance, which is never more than was credited; every other step only takes
\* holds away, or adds credits.
LEMMA ExposureStep ==
    LedgerInv /\ [Next]_vars => ExposureBounded' /\ SeenCredited'
<1> DEFINE Goal == ExposureBounded' /\ SeenCredited'
<1> SUFFICES ASSUME LedgerInv, [Next]_vars PROVE Goal
  OBVIOUS
<1>a. /\ TypeOK /\ TypeOK' /\ BalanceAccounted /\ ExposureBounded
      /\ SeenCredited /\ CallsWellFormed
  BY TypeStep DEF LedgerInv
<1> /\ holds \in [Requests -> Nat] /\ holds' \in [Requests -> Nat]
    /\ log.credit \in Nat /\ log'.credit \in Nat /\ cache \in Int
    /\ pc \in [Calls -> Steps] /\ read \in [Calls -> Int]
  BY <1>a DEF TypeOK
<1>b. HeldSum(holds) \in Nat /\ HeldSum(holds') \in Nat
  BY HeldFinite
<1>c. HeldSum(holds) <= log.credit
  BY <1>a DEF ExposureBounded
<1>d. /\ cache <= log.credit
      /\ \A d \in Calls : pc[d] = "fill" => read[d] <= log.credit
  BY <1>a DEF SeenCredited
\* A step that adds no hold and shows nobody a balance keeps both.
<1>1. ASSUME \A q \in Requests : holds'[q] <= holds[q],
             log'.credit >= log.credit
      PROVE  ExposureBounded'
  <2>1. HeldSum(holds') <= HeldSum(holds)
    BY <1>1, HeldMonotone
  <2> QED BY <1>1, <1>b, <1>c, <2>1 DEF ExposureBounded
<1>2. ASSUME log'.credit >= log.credit, cache' \in {cache, Miss},
             \A d \in Calls : pc'[d] = "fill" =>
                pc[d] = "fill" /\ read'[d] = read[d]
      PROVE  SeenCredited'
  BY <1>2, <1>d DEF SeenCredited, Miss
<1>3. CASE UNCHANGED vars
  BY <1>3, <1>1, <1>2 DEF vars
<1> USE DEF dbVars, holdVars
<1>4. ASSUME NEW c \in Calls, Request(c) PROVE Goal
  <2>1. PICK step \in {"script", "lock", "zrem"}, call \in CallRecords :
           Begin(c, step, call)
    BY <1>4, <1>a, RequestBegins
  <2> QED BY <2>1, <1>1, <1>2 DEF Begin
<1>5. ASSUME NEW c \in Calls, LockRow(c) PROVE Goal
  BY <1>5, <1>1, <1>2 DEF LockRow
<1>6. ASSUME NEW c \in Calls, Transact(c) PROVE Goal
  <2>1. CASE CommitCredit(c)
    <3>1. log'.credit >= log.credit
      BY <2>1, <1>a DEF CommitCredit, TypeOK, CallRecords
    <3> QED BY <2>1, <3>1, <1>1, <1>2 DEF CommitCredit, Goto
  <2>2. CASE CommitDebit(c)
    <3>1. log'.credit = log.credit
      BY <2>2, <1>a DEF CommitDebit, TypeOK
    <3> QED BY <2>2, <3>1, <1>1, <1>2 DEF CommitDebit, Goto
  <2>3. CASE RejectDebit(c)
    BY <2>3, <1>1, <1>2 DEF RejectDebit, Return
  <2>4. CASE CommitSettle(c)
    <3>1. log'.credit = log.credit
      BY <2>4, <1>a DEF CommitSettle, TypeOK
    <3> QED BY <2>4, <3>1, <1>1, <1>2 DEF CommitSettle, Goto
  <2>5. CASE AtBound(c)
    BY <2>5, <1>1, <1>2 DEF AtBound, Return
  <2> QED BY <1>6, <2>1, <2>2, <2>3, <2>4, <2>5 DEF Transact
<1>7. ASSUME NEW c \in Calls, Command(c) PROVE Goal
  <2>1. CASE ScriptMiss(c)
    BY <2>1, <1>1, <1>2 DEF ScriptMiss, Goto, Return
  <2>2. CASE HoldScript(c)
    <3> DEFINE r    == op[c].req
               live == LiveHolds(op[c].at)
    <3>1. live \in [Requests -> Nat] /\ \A q \in Requests : live[q] <= holds[q]
      BY <1>a, LiveHoldsType
    <3>2. HeldSum(live) \in Nat
      BY <3>1, HeldFinite
    <3>3. UNCHANGED log /\ SeenCredited'
      BY <2>2, <1>2 DEF HoldScript, Goto, Return
    <3>4. CASE holds' = live
      BY <3>1, <3>3, <3>4, <1>1
    <3>5. CASE /\ live[r] = 0 /\ Available(op[c].at) >= op[c].amt
               /\ holds' = [live EXCEPT ![r] = op[c].amt]
      <4>1. r \in Requests
        BY <2>2, <1>a DEF HoldScript, CallsWellFormed
      <4>2. op[c].amt \in Nat
        BY <1>a DEF TypeOK, CallRecords
      <4>3. HeldSum(holds') <= HeldSum(live) + op[c].amt
        BY <3>1, <3>5, <4>1, <4>2, HeldAdd
      <4>4. HeldSum(live) + op[c].amt <= cache
        BY <3>2, <3>5, <4>2 DEF Available
      <4> HIDE DEF r, live
      <4>5. HeldSum(holds') <= log.credit
        BY <1>b, <1>d, <3>2, <4>2, <4>3, <4>4
      <4> QED BY <3>3, <4>5 DEF ExposureBounded
    <3> QED BY <2>2, <3>4, <3>5 DEF HoldScript, SetHolds
  <2>3. CASE BalanceScript(c)
    <3>1. \A q \in Requests : holds'[q] <= holds[q]
      BY <2>3, <1>a, LiveHoldsType DEF BalanceScript, SetHolds
    <3> QED BY <2>3, <3>1, <1>1, <1>2 DEF BalanceScript, Return
  <2>4. CASE LoadBalance(c)
    <3>1. balance <= log.credit
      BY <1>a DEF BalanceAccounted, TypeOK
    <3>2. SeenCredited'
      BY <2>4, <3>1, <1>d DEF LoadBalance, SeenCredited
    <3> QED BY <2>4, <3>2, <1>1 DEF LoadBalance
  <2>5. CASE FillCache(c)
    <3>1. SeenCredited'
      BY <2>5, <1>d DEF FillCache, SeenCredited
    <3> QED BY <2>5, <3>1, <1>1 DEF FillCache
  <2>6. CASE ExpireKeys(c)
    BY <2>6, <1>1, <1>2 DEF ExpireKeys, Return
  <2>7. CASE RemoveHold(c)
    <3>1. \A q \in Requests : holds'[q] <= holds[q]
      BY <2>7 DEF RemoveHold, SetHolds
    <3> QED BY <2>7, <3>1, <1>1, <1>2 DEF RemoveHold, Goto
  <2>8. CASE RemoveTimestamp(c)
    <3>1. holds' = holds
      BY <2>8 DEF RemoveTimestamp, SetHolds
    <3> QED BY <2>8, <3>1, <1>1, <1>2 DEF RemoveTimestamp, Goto
  <2>9. CASE Invalidate(c)
    BY <2>9, <1>1, <1>2 DEF Invalidate, Return
  <2> QED BY <1>7, <2>1, <2>2, <2>3, <2>4, <2>5, <2>6, <2>7, <2>8, <2>9
          DEF Command
<1>8. ASSUME NEW c \in Calls, Abandon(c) PROVE Goal
  BY <1>8, <1>1, <1>2 DEF Abandon, Return
<1>9. CASE CacheExpires
  BY <1>9, <1>1, <1>2 DEF CacheExpires
<1>10. CASE Tick
  <2>1. \A q \in Requests : holds'[q] <= holds[q]
    BY <1>10 DEF Tick, SetHolds
  <2> QED BY <1>10, <2>1, <1>1, <1>2 DEF Tick
<1> QED BY <1>3, <1>4, <1>5, <1>6, <1>7, <1>8, <1>9, <1>10
        DEF Next, Environment

LEMMA LedgerStep == LedgerInv /\ [Next]_vars => LedgerInv'
BY TypeStep, AccountsStep, ExposureStep DEF LedgerInv, Accounts

(***************************************************************************)
(* The theorems                                                            *)
(***************************************************************************)

\* The inductive invariant holds in every reachable state.
THEOREM LedgerInvariant == Spec => []LedgerInv
BY LedgerInit, LedgerStep, PTL DEF Spec

\* Every variable of the ledger keeps its type.
THEOREM TypesKept == Spec => []TypeOK
<1>1. LedgerInv => TypeOK
  BY DEF LedgerInv
<1> QED BY <1>1, LedgerInvariant, PTL

\* For any number of concurrent calls, any requests and any amounts, the
\* balance is what the committed rows say and never negative, and what was
\* billed is what was taken plus the recorded shortfall.
THEOREM BalanceAlwaysAccounted == Spec => []BalanceAccounted
<1>1. LedgerInv => BalanceAccounted
  BY DEF LedgerInv
<1> QED BY <1>1, LedgerInvariant, PTL

\* However stale the cache, the holds of a user never reserve more than was
\* credited to the account.
THEOREM ExposureAlwaysBounded == Spec => []ExposureBounded
<1>1. LedgerInv => ExposureBounded
  BY DEF LedgerInv
<1> QED BY <1>1, LedgerInvariant, PTL

(***************************************************************************)
(* The ledger implements the account                                       *)
(***************************************************************************)

\* A commit is a deposit, a withdrawal or a charge of the account, because the
\* balance it read under the row lock is still the balance; every other step
\* leaves the account alone.
LEMMA AccountStep == LedgerInv /\ [Next]_vars => [Acct!Next]_(Acct!vars)
<1> SUFFICES ASSUME LedgerInv, [Next]_vars PROVE [Acct!Next]_(Acct!vars)
  OBVIOUS
<1> USE DEF Acct!vars, dbVars
<1>1. CASE UNCHANGED vars
  BY <1>1 DEF vars
<1>2. ASSUME NEW c \in Calls, Request(c) PROVE UNCHANGED Acct!vars
  BY <1>2, RequestBegins DEF LedgerInv, Begin
<1>3. ASSUME NEW c \in Calls, LockRow(c) PROVE UNCHANGED Acct!vars
  BY <1>3 DEF LockRow
<1>4. ASSUME NEW c \in Calls, Transact(c) PROVE [Acct!Next]_(Acct!vars)
  <2> read[c] = balance /\ balance \in Nat /\ op[c].amt \in Nat
      /\ op[c].amt \in Amounts
      /\ log \in [credit : Nat, debit : Nat, settle : Nat, shortfall : Nat]
    BY <1>4 DEF Transact, CommitCredit, CommitDebit, RejectDebit, CommitSettle,
                AtBound, LedgerInv, LockedRead, CallsWellFormed,
                BalanceAccounted, TypeOK, CallRecords
  <2>1. CASE CommitCredit(c)
    BY <2>1 DEF CommitCredit, Acct!Next, Acct!Deposit
  <2>2. CASE CommitDebit(c)
    BY <2>2 DEF CommitDebit, Acct!Next, Acct!Withdraw
  <2>3. CASE RejectDebit(c)
    BY <2>3 DEF RejectDebit
  <2>4. CASE CommitSettle(c)
    <3> DEFINE a == op[c].amt
               d == Debited(balance, a)
    <3>1. /\ balance' = balance - d
          /\ log' = [log EXCEPT !.settle = @ + d, !.shortfall = @ + (a - d)]
          /\ billed' = billed + a
      BY <2>4 DEF CommitSettle
    <3>2. CASE a <= balance
      <4>1. d = a
        BY <3>2 DEF Debited
      <4>2. log' = [log EXCEPT !.settle = @ + a]
        <5>1. log' = [log EXCEPT !.settle = log.settle + a,
                                 !.shortfall = log.shortfall]
          <6>1. log.shortfall + (a - a) = log.shortfall
            OBVIOUS
          <6> HIDE DEF a, d
          <6> QED BY <3>1, <4>1, <6>1
        <5> HIDE DEF a
        <5> QED BY <5>1
      <4>3. Acct!Charge(a)
        BY <3>1, <3>2, <4>1, <4>2 DEF Acct!Charge
      <4> QED BY <4>3 DEF Acct!Next
    <3>3. CASE a > balance
      <4>1. d = balance
        BY <3>3 DEF Debited
      <4>2. Acct!Charge(a)
        BY <3>1, <3>3, <4>1 DEF Acct!Charge
      <4> QED BY <4>2 DEF Acct!Next
    <3> QED BY <3>2, <3>3
  <2>5. CASE AtBound(c)
    BY <2>5 DEF AtBound
  <2> QED BY <1>4, <2>1, <2>2, <2>3, <2>4, <2>5 DEF Transact
<1>5. ASSUME NEW c \in Calls, Command(c) PROVE UNCHANGED Acct!vars
  BY <1>5 DEF Command, ScriptMiss, HoldScript, BalanceScript, LoadBalance,
              FillCache, ExpireKeys, RemoveHold, RemoveTimestamp, Invalidate
<1>6. ASSUME NEW c \in Calls, Abandon(c) PROVE UNCHANGED Acct!vars
  BY <1>6 DEF Abandon
<1>7. CASE Environment
  BY <1>7 DEF Environment, CacheExpires, Tick
<1> QED BY <1>1, <1>2, <1>3, <1>4, <1>5, <1>6, <1>7 DEF Next

\* However many calls interleave, die or lose commands, the user's balance
\* behaves as one account: every credit, debit and charge happens at one
\* moment, whole, and a debit only when it is covered.
THEOREM LedgerImplementsAccount == Spec => AccountKept
<1>1. Init => Acct!Init
  BY DEF Init, Acct!Init
<1> QED BY <1>1, LedgerInvariant, AccountStep, PTL
        DEF Spec, AccountKept, Acct!Spec

(***************************************************************************)
(* Holds are kept until they are settled                                   *)
(***************************************************************************)

LEMMA ClearingInit == Init => ClearingSettled
BY DEF Init, ClearingSettled, NoCall, Call

LEMMA ClearingStep ==
    LedgerInv /\ ClearingSettled /\ [Next]_vars => ClearingSettled'
<1> SUFFICES ASSUME LedgerInv, ClearingSettled, [Next]_vars
             PROVE  ClearingSettled'
  OBVIOUS
<1>a. TypeOK /\ CallsWellFormed
  BY DEF LedgerInv
<1> /\ now \in Nat /\ pc \in [Calls -> Steps] /\ op \in [Calls -> CallRecords]
    /\ NoCall.at = 0 /\ NoCall.kind = "none" /\ NoCall.amt = 0
  BY <1>a DEF TypeOK, NoCall, Call
\* A step that starts no call and clears no hold keeps it.
<1>1. ASSUME NEW c \in Calls, now' = now, settleRows \subseteq settleRows',
             op' = op \/ op' = [op EXCEPT ![c] = NoCall],
             pc' = [pc EXCEPT ![c] = pc'[c]],
             pc'[c] = "zrem" => op[c].kind = "settle" /\ op[c].req \in settleRows'
      PROVE  ClearingSettled'
  BY <1>1 DEF ClearingSettled
<1>2. CASE UNCHANGED vars
  BY <1>2 DEF vars, ClearingSettled
<1> USE DEF dbVars, holdVars
<1>3. ASSUME NEW c \in Calls, Request(c) PROVE ClearingSettled'
  <2>1. PICK step \in {"script", "lock", "zrem"}, call \in CallRecords :
           /\ Begin(c, step, call)
           /\ call.at <= now
           /\ call.kind = "release" => call.amt = 0
           /\ step = "zrem" => call.amt = 0
    <3>1. CASE GetBalance(c)
      BY <3>1 DEF GetBalance, Call, CallRecords, Kinds, NoReq
    <3>2. ASSUME NEW a \in Amounts, Credit(c, a) \/ Debit(c, a)
          PROVE  \E call \in CallRecords :
                    /\ Begin(c, "lock", call)
                    /\ call.at <= now /\ call.kind # "release"
      <4> a \in Nat
        BY LedgerAssumption
      <4> QED BY <3>2 DEF Credit, Debit, Call, CallRecords, Kinds, NoReq
    <3>3. ASSUME NEW r \in Requests, Release(c, r)
          PROVE  \E call \in CallRecords :
                    /\ Begin(c, "zrem", call)
                    /\ call.at <= now /\ call.amt = 0
      BY <3>3 DEF Release, Call, CallRecords, Kinds, NoReq
    <3>4. ASSUME NEW r \in Requests, NEW a \in Amounts, Hold(c, r, a)
          PROVE  \E call \in CallRecords :
                    /\ Begin(c, "script", call)
                    /\ call.at <= now /\ call.kind # "release"
      <4> a \in Nat
        BY LedgerAssumption
      <4> QED BY <3>4 DEF Hold, Call, CallRecords, Kinds, NoReq
    <3>5. ASSUME NEW r \in Requests, NEW a \in Amounts \cup {0}, Settle(c, r, a)
          PROVE  \E step \in {"lock", "zrem"}, call \in CallRecords :
                    /\ Begin(c, step, call)
                    /\ call.at <= now /\ call.kind # "release"
                    /\ step = "zrem" => call.amt = 0
      <4> a \in Nat
        BY LedgerAssumption
      <4> QED BY <3>5 DEF Settle, Call, CallRecords, Kinds, NoReq
    <3> QED BY <1>3, <3>1, <3>2, <3>3, <3>4, <3>5 DEF Request
  <2> QED BY <2>1 DEF Begin, ClearingSettled
<1>4. ASSUME NEW c \in Calls, LockRow(c) PROVE ClearingSettled'
  BY <1>4, <1>1 DEF LockRow
<1>5. ASSUME NEW c \in Calls, Transact(c) PROVE ClearingSettled'
  <2> USE DEF Goto, Return
  <2>1. CASE CommitCredit(c)
    BY <2>1, <1>1 DEF CommitCredit
  <2>2. CASE CommitDebit(c)
    BY <2>2, <1>1 DEF CommitDebit
  <2>3. CASE RejectDebit(c)
    BY <2>3, <1>1 DEF RejectDebit
  <2>4. CASE CommitSettle(c)
    BY <2>4, <1>1 DEF CommitSettle
  <2>5. CASE AtBound(c)
    BY <2>5, <1>1 DEF AtBound
  <2> QED BY <1>5, <2>1, <2>2, <2>3, <2>4, <2>5 DEF Transact
<1>6. ASSUME NEW c \in Calls, Command(c) PROVE ClearingSettled'
  <2> USE DEF Goto, Return
  <2>1. CASE ScriptMiss(c)
    BY <2>1, <1>1 DEF ScriptMiss
  <2>2. CASE HoldScript(c)
    BY <2>2, <1>1 DEF HoldScript
  <2>3. CASE BalanceScript(c)
    BY <2>3, <1>1 DEF BalanceScript
  <2>4. CASE LoadBalance(c) \/ FillCache(c)
    BY <2>4, <1>1 DEF LoadBalance, FillCache
  <2>5. CASE ExpireKeys(c)
    BY <2>5, <1>1 DEF ExpireKeys
  <2>6. CASE RemoveHold(c) \/ RemoveTimestamp(c)
    BY <2>6, <1>1 DEF RemoveHold, RemoveTimestamp
  <2>7. CASE Invalidate(c)
    BY <2>7, <1>1 DEF Invalidate
  <2> QED BY <1>6, <2>1, <2>2, <2>3, <2>4, <2>5, <2>6, <2>7 DEF Command
<1>7. ASSUME NEW c \in Calls, Abandon(c) PROVE ClearingSettled'
  BY <1>7, <1>1 DEF Abandon, Return
<1>8. CASE CacheExpires
  BY <1>8 DEF CacheExpires, ClearingSettled
<1>9. CASE Tick
  <2>1. \A c \in Calls : op[c].at \in Nat
    BY DEF CallRecords
  <2> QED BY <1>9, <2>1 DEF Tick, ClearingSettled
<1> QED BY <1>2, <1>3, <1>4, <1>5, <1>6, <1>7, <1>8, <1>9
        DEF Next, Environment

\* A step takes a hold away only as HoldKeptUntilSettled allows.
KeepsHold(r) ==
    holds[r] # 0 /\ holds'[r] = 0 =>
       \/ r \in settleRows
       \/ \E c \in Calls : op[c].req = r /\ op[c].amt = 0
       \/ holdsTS[r] # NoTime /\ now > holdsTS[r] + HoldTTL
       \/ deadline["zset"] # NoTime /\ now' >= deadline["zset"]

LEMMA HoldStep ==
    ASSUME LedgerInv, ClearingSettled, [Next]_vars, NEW r \in Requests
    PROVE  KeepsHold(r)
<1> SUFFICES ASSUME holds[r] # 0, holds'[r] = 0
             PROVE  KeepsHold(r)
  BY DEF KeepsHold
<1>a. TypeOK
  BY DEF LedgerInv
<1>1. ASSUME NEW c \in Calls, LiveHolds(op[c].at)[r] = 0
      PROVE  KeepsHold(r)
  <2>1. Expired(r, op[c].at)
    BY <1>1 DEF LiveHolds
  <2>2. op[c].at \in Nat /\ op[c].at <= now /\ holdsTS[r] \in Int /\ now \in Nat
    BY <1>a DEF TypeOK, CallRecords, ClearingSettled
  <2> QED BY <2>1, <2>2, LedgerAssumption DEF Expired, KeepsHold
<1>2. ASSUME NEW c \in Calls, HoldScript(c) \/ BalanceScript(c)
      PROVE  KeepsHold(r)
  <2>1. LiveHolds(op[c].at)[r] = 0
    <3> DEFINE live == LiveHolds(op[c].at)
    <3>1. live \in [Requests -> Nat]
      BY <1>a, LiveHoldsType
    <3>2. \/ holds' = live
          \/ live[op[c].req] = 0 /\ holds' = [live EXCEPT ![op[c].req] = op[c].amt]
      BY <1>2 DEF HoldScript, BalanceScript, SetHolds
    <3> HIDE DEF live
    <3>3. live[r] = 0
      BY <3>1, <3>2
    <3> QED BY <3>3 DEF live
  <2> QED BY <2>1, <1>1
<1>3. ASSUME NEW c \in Calls, RemoveHold(c)
      PROVE  KeepsHold(r)
  <2>1. op[c].req = r
    BY <1>3, <1>a DEF RemoveHold, SetHolds, TypeOK, holdVars
  <2> QED BY <1>3, <2>1 DEF RemoveHold, ClearingSettled, KeepsHold
<1>4. CASE Tick
  BY <1>4, <1>a DEF Tick, SetHolds, KeepsHold, TypeOK
<1>5. CASE UNCHANGED holds
  BY <1>5
<1>6. ASSUME NEW c \in Calls, Command(c)
      PROVE  HoldScript(c) \/ BalanceScript(c) \/ RemoveHold(c) \/ UNCHANGED holds
  BY <1>6 DEF Command, ScriptMiss, LoadBalance, FillCache, ExpireKeys,
              RemoveTimestamp, SetHolds, Invalidate, holdVars
<1>7. ASSUME NEW c \in Calls, Request(c) PROVE UNCHANGED holds
  BY <1>7, <1>a, RequestBegins DEF Begin, holdVars
<1>8. ASSUME NEW c \in Calls, LockRow(c) \/ Transact(c) \/ Abandon(c)
      PROVE  UNCHANGED holds
  BY <1>8 DEF LockRow, Transact, CommitCredit, CommitDebit, RejectDebit,
              CommitSettle, AtBound, Abandon, holdVars
<1>9. CASE CacheExpires \/ UNCHANGED vars
  BY <1>9, <1>5 DEF CacheExpires, holdVars, vars
<1> QED BY <1>2, <1>3, <1>4, <1>5, <1>6, <1>7, <1>8, <1>9 DEF Next, Environment

\* A hold leaves the set only when its request has a committed settle row, by a
\* Release or a free settlement of its request, past its lifetime, or with the
\* whole key: a settlement whose transaction fails leaves its hold in place.
THEOREM HoldsKept == Spec => HoldKeptUntilSettled
<1>1. LedgerInv /\ ClearingSettled /\ [Next]_vars =>
         [\A r \in Requests : KeepsHold(r)]_vars
  BY HoldStep
<1>2. [\A r \in Requests : KeepsHold(r)]_vars =>
         [\A r \in Requests : holds[r] # 0 /\ holds'[r] = 0 =>
             \/ r \in settleRows
             \/ \E c \in Calls : op[c].req = r /\ op[c].amt = 0
             \/ holdsTS[r] # NoTime /\ now > holdsTS[r] + HoldTTL
             \/ deadline["zset"] # NoTime /\ now' >= deadline["zset"]]_vars
  BY DEF KeepsHold
<1> QED BY <1>1, <1>2, LedgerInvariant, ClearingInit, ClearingStep, PTL
        DEF Spec, HoldKeptUntilSettled
=============================================================================
