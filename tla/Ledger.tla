------------------------------- MODULE Ledger -------------------------------
(***************************************************************************)
(* The billing ledger (src/ledger): one user's persistent balance and      *)
(* balance_logs in PostgreSQL, the balance cached in Redis, and the sorted *)
(* set of holds with its hash of creation times.  Every key and every row  *)
(* belongs to one user, so one user is the whole state.                    *)
(*                                                                         *)
(* A call of the API (Credit, Debit, Hold, Settle, Release, GetBalance) is *)
(* a process: each database transaction, Lua script and Redis command of   *)
(* it is one step, and the steps of concurrent calls interleave.  The row  *)
(* lock of SELECT ... FOR UPDATE is explicit.  Amounts are whole units of  *)
(* money.                                                                  *)
(***************************************************************************)
EXTENDS Integers, FiniteSets

CONSTANTS
    Calls,           \* concurrent API calls (goroutines)
    Requests,        \* request IDs
    Amounts,         \* the positive amounts callers pass
    InitialBalance,  \* users.balance at the start
    HoldTTL,         \* l.holdTTL
    KeyGrace,        \* the 60 s Hold adds to the TTL of the hold keys
    MaxTime,         \* bound on the clock
    MaxCredit,       \* bound on the sum of the credits
    MaxBilled,       \* bound on the sum of the settled costs
    Faults           \* whether calls may die and ignored commands may be lost

ASSUME LedgerAssumption ==
    /\ IsFiniteSet(Requests)
    /\ Amounts \subseteq Nat \ {0}
    /\ {InitialBalance, HoldTTL, KeyGrace, MaxTime, MaxCredit, MaxBilled}
          \subseteq Nat
    /\ Faults \in BOOLEAN
    /\ "free" \notin Calls

VARIABLES
    balance,     \* users.balance
    rowLock,     \* the call whose transaction holds the user row, or Free
    log,         \* sums over the committed balance_logs rows, by kind
    billed,      \* sum of actualAmount over the committed settlements
    settleRows,  \* request IDs with a committed settle row
    cache,       \* balance:{user}: the cached balance, or Miss
    holds,       \* holds:{user}: score of each member, 0 when not a member
    holdsTS,     \* holds:ts:{user}: creation time of each field, or NoTime
    deadline,    \* expiry of the two hold keys, or NoTime
    now,         \* the clock the callers read
    pc, op, read \* of each call: its next step, arguments and value read

dbVars    == <<balance, rowLock, log, billed, settleRows>>
holdVars  == <<holds, holdsTS, deadline>>
vars == <<balance, rowLock, log, billed, settleRows, cache, holds, holdsTS,
          deadline, now, pc, op, read>>

Free   == "free"
Miss   == -1
NoTime == -1
NoReq  == "none"

Keys  == {"zset", "hash"}
Kinds == {"none", "credit", "debit", "hold", "settle", "release", "balance"}
Steps == {"idle", "script", "load", "fill", "retry", "expire",
          "lock", "write", "zrem", "hdel", "invalidate"}

\* A call and its arguments; "at" is the clock Hold and GetBalance read when
\* they start and pass to their scripts.
Call(kind, req, amt, at) == [kind |-> kind, req |-> req, amt |-> amt, at |-> at]
NoCall == Call("none", NoReq, 0, 0)

(***************************************************************************)
(* What the Lua scripts compute                                            *)
(***************************************************************************)

\* A set with one element for each unit of money held: its size is the sum
\* of the scores.
HeldUnits(h) == UNION {{r} \X (1..h[r]) : r \in Requests}
HeldSum(h)   == Cardinality(HeldUnits(h))

\* Mutant: a hold goes in the second in which it reaches its lifetime.
ExpiredEarly(r, t) == holdsTS[r] # NoTime /\ holdsTS[r] <= t - HoldTTL

Expired(r, t) == holdsTS[r] # NoTime /\ holdsTS[r] < t - HoldTTL

\* What is left of the set and of the hash once a script has cleaned them.
LiveHolds(t) == [r \in Requests |-> IF Expired(r, t) THEN 0 ELSE holds[r]]
LiveTS(t)    == [r \in Requests |-> IF Expired(r, t) THEN NoTime ELSE holdsTS[r]]

\* Mutant: the holds already placed are not subtracted.
AvailableGross(t) == cache

Available(t) == cache - HeldSum(LiveHolds(t))

\* A key that loses its last member is deleted, and its expiry with it.
DeadlineFor(h, t) ==
    [zset |-> IF \E r \in Requests : h[r] # 0 THEN deadline.zset ELSE NoTime,
     hash |-> IF \E r \in Requests : t[r] # NoTime THEN deadline.hash
                                                   ELSE NoTime]

SetHolds(h, t) ==
    /\ holds' = h
    /\ holdsTS' = t
    /\ deadline' = DeadlineFor(h, t)

(***************************************************************************)
(* The life of a call                                                      *)
(***************************************************************************)

Goto(c, step) ==
    /\ pc' = [pc EXCEPT ![c] = step]
    /\ read' = [read EXCEPT ![c] = 0]
    /\ UNCHANGED op

\* The call returns, with a result or an error.
Return(c) ==
    /\ pc' = [pc EXCEPT ![c] = "idle"]
    /\ op' = [op EXCEPT ![c] = NoCall]
    /\ read' = [read EXCEPT ![c] = 0]

Begin(c, step, call) ==
    /\ pc[c] = "idle"
    /\ pc' = [pc EXCEPT ![c] = step]
    /\ op' = [op EXCEPT ![c] = call]
    /\ UNCHANGED <<dbVars, holdVars, cache, now, read>>

Credit(c, a) == Begin(c, "lock", Call("credit", NoReq, a, 0))
Debit(c, a)  == Begin(c, "lock", Call("debit", NoReq, a, 0))
Hold(c, r, a) == Begin(c, "script", Call("hold", r, a, now))
Release(c, r) == Begin(c, "zrem", Call("release", r, 0, 0))
GetBalance(c) == Begin(c, "script", Call("balance", NoReq, 0, now))

\* A settlement that costs nothing skips the transaction.
Settle(c, r, a) ==
    Begin(c, IF a = 0 THEN "zrem" ELSE "lock", Call("settle", r, a, 0))

(***************************************************************************)
(* Transactions on the user row                                            *)
(***************************************************************************)

\* Mutant: a plain SELECT, which waits for nobody.
LockRowPlain(c) ==
    /\ pc[c] = "lock"
    /\ rowLock' = c
    /\ read' = [read EXCEPT ![c] = balance]
    /\ pc' = [pc EXCEPT ![c] = "write"]
    /\ UNCHANGED <<balance, log, billed, settleRows, cache, holdVars, now, op>>

\* SELECT ... FOR UPDATE
LockRow(c) ==
    /\ pc[c] = "lock"
    /\ rowLock = Free
    /\ rowLock' = c
    /\ read' = [read EXCEPT ![c] = balance]
    /\ pc' = [pc EXCEPT ![c] = "write"]
    /\ UNCHANGED <<balance, log, billed, settleRows, cache, holdVars, now, op>>

CommitCredit(c) ==
    /\ pc[c] = "write" /\ op[c].kind = "credit"
    /\ log.credit + op[c].amt <= MaxCredit
    /\ balance' = read[c] + op[c].amt
    /\ log' = [log EXCEPT !.credit = @ + op[c].amt]
    /\ rowLock' = Free
    /\ Goto(c, "invalidate")
    /\ UNCHANGED <<billed, settleRows, cache, holdVars, now>>

\* Mutant: the balance is compared with nothing.
CommitDebitUnchecked(c) ==
    /\ pc[c] = "write" /\ op[c].kind = "debit"
    /\ balance' = read[c] - op[c].amt
    /\ log' = [log EXCEPT !.debit = @ + op[c].amt]
    /\ rowLock' = Free
    /\ Goto(c, "invalidate")
    /\ UNCHANGED <<billed, settleRows, cache, holdVars, now>>

CommitDebit(c) ==
    /\ pc[c] = "write" /\ op[c].kind = "debit"
    /\ read[c] >= op[c].amt
    /\ balance' = read[c] - op[c].amt
    /\ log' = [log EXCEPT !.debit = @ + op[c].amt]
    /\ rowLock' = Free
    /\ Goto(c, "invalidate")
    /\ UNCHANGED <<billed, settleRows, cache, holdVars, now>>

\* Mutant: the error path returns without ending the transaction.
RejectDebitOpen(c) ==
    /\ pc[c] = "write" /\ op[c].kind = "debit"
    /\ read[c] < op[c].amt
    /\ Return(c)
    /\ UNCHANGED <<dbVars, cache, holdVars, now>>

\* ErrInsufficientBalance rolls the transaction back.
RejectDebit(c) ==
    /\ pc[c] = "write" /\ op[c].kind = "debit"
    /\ read[c] < op[c].amt
    /\ rowLock' = Free
    /\ Return(c)
    /\ UNCHANGED <<balance, log, billed, settleRows, cache, holdVars, now>>

\* What a settlement of cost a takes from a balance b.
Debited(b, a) == LET d == IF b < a THEN b ELSE a
                 IN  IF d < 0 THEN 0 ELSE d

CommitSettle(c) ==
    LET cost    == op[c].amt
        debited == Debited(read[c], cost)
    IN  /\ pc[c] = "write" /\ op[c].kind = "settle"
        /\ billed + cost <= MaxBilled
        /\ balance' = read[c] - debited
        /\ log' = [log EXCEPT !.settle = @ + debited,
                              !.shortfall = @ + (cost - debited)]
        /\ billed' = billed + cost
        /\ settleRows' = settleRows \cup {op[c].req}
        /\ rowLock' = Free
        /\ Goto(c, "zrem")
        /\ UNCHANGED <<cache, holdVars, now>>

(***************************************************************************)
(* Redis commands                                                          *)
(***************************************************************************)

\* The two scripts find no cached balance: the first time the balance is
\* loaded and the script retried, the second time the call fails.
ScriptMiss(c) ==
    /\ pc[c] \in {"script", "retry"}
    /\ cache = Miss
    /\ IF pc[c] = "script" THEN Goto(c, "load") ELSE Return(c)
    /\ UNCHANGED <<dbVars, holdVars, cache, now>>

\* holdScript with a cached balance: expired holds go, then the request ID
\* is looked up, then the new hold is compared with what is available.
HoldScript(c) ==
    LET r == op[c].req
        a == op[c].amt
        t == op[c].at
    IN  /\ pc[c] \in {"script", "retry"} /\ op[c].kind = "hold"
        /\ cache # Miss
        /\ \/ /\ LiveHolds(t)[r] # 0
              /\ SetHolds(LiveHolds(t), LiveTS(t))
              /\ Goto(c, "expire")
           \/ /\ LiveHolds(t)[r] = 0 /\ Available(t) >= a
              /\ SetHolds([LiveHolds(t) EXCEPT ![r] = a],
                          [LiveTS(t) EXCEPT ![r] = t])
              /\ Goto(c, "expire")
           \/ /\ LiveHolds(t)[r] = 0 /\ Available(t) < a
              /\ SetHolds(LiveHolds(t), LiveTS(t))
              /\ Return(c)
        /\ UNCHANGED <<dbVars, cache, now>>

\* getBalanceScript with a cached balance
BalanceScript(c) ==
    /\ pc[c] \in {"script", "retry"} /\ op[c].kind = "balance"
    /\ cache # Miss
    /\ SetHolds(LiveHolds(op[c].at), LiveTS(op[c].at))
    /\ Return(c)
    /\ UNCHANGED <<dbVars, cache, now>>

\* refreshBalanceCache: read the committed balance, then SET it.
LoadBalance(c) ==
    /\ pc[c] = "load"
    /\ read' = [read EXCEPT ![c] = balance]
    /\ pc' = [pc EXCEPT ![c] = "fill"]
    /\ UNCHANGED <<dbVars, holdVars, cache, now, op>>

FillCache(c) ==
    /\ pc[c] = "fill"
    /\ cache' = read[c]
    /\ read' = [read EXCEPT ![c] = 0]
    /\ pc' = [pc EXCEPT ![c] = "retry"]
    /\ UNCHANGED <<dbVars, holdVars, now, op>>

\* The two EXPIREs after a hold, each lost when its error is ignored; EXPIRE
\* of a key that does not exist does nothing.
ExpireKeys(c) ==
    /\ pc[c] = "expire"
    /\ \E done \in IF Faults THEN SUBSET Keys ELSE {Keys} :
          LET set == [k \in Keys |-> IF k \in done
                                     THEN now + HoldTTL + KeyGrace
                                     ELSE deadline[k]]
          IN  deadline' =
                [zset |-> IF \E r \in Requests : holds[r] # 0
                          THEN set["zset"] ELSE NoTime,
                 hash |-> IF \E r \in Requests : holdsTS[r] # NoTime
                          THEN set["hash"] ELSE NoTime]
    /\ Return(c)
    /\ UNCHANGED <<dbVars, holds, holdsTS, cache, now>>

\* ZREM and HDEL of Release and Settle, two commands.  Release and the free
\* settlement ignore an error and go on; a settlement that committed returns
\* it, which is Abandon.
Ignores(c) == Faults /\ (op[c].kind = "release" \/ op[c].amt = 0)

RemoveHold(c) ==
    /\ pc[c] = "zrem"
    /\ \/ SetHolds([holds EXCEPT ![op[c].req] = 0], holdsTS)
       \/ Ignores(c) /\ UNCHANGED holdVars
    /\ Goto(c, "hdel")
    /\ UNCHANGED <<dbVars, cache, now>>

RemoveTimestamp(c) ==
    /\ pc[c] = "hdel"
    /\ \/ SetHolds(holds, [holdsTS EXCEPT ![op[c].req] = NoTime])
       \/ Ignores(c) /\ UNCHANGED holdVars
    /\ Goto(c, "invalidate")
    /\ UNCHANGED <<dbVars, cache, now>>

\* invalidateBalanceCache ignores the error of its DEL.
Invalidate(c) ==
    /\ pc[c] = "invalidate"
    /\ \/ cache' = Miss
       \/ Faults /\ UNCHANGED cache
    /\ Return(c)
    /\ UNCHANGED <<dbVars, holdVars, now>>

(***************************************************************************)
(* The environment                                                         *)
(***************************************************************************)

\* The process dies, the context times out, the transaction fails or a
\* command returns an error the call returns: what was done stays done, an
\* open transaction is rolled back.
Abandon(c) ==
    /\ Faults
    /\ pc[c] # "idle"
    /\ rowLock' = IF rowLock = c THEN Free ELSE rowLock
    /\ Return(c)
    /\ UNCHANGED <<balance, log, billed, settleRows, cache, holdVars, now>>

\* A transaction the bounds of the model keep from committing fails.
AtBound(c) ==
    /\ pc[c] = "write"
    /\ \/ op[c].kind = "credit" /\ log.credit + op[c].amt > MaxCredit
       \/ op[c].kind = "settle" /\ billed + op[c].amt > MaxBilled
    /\ rowLock' = Free
    /\ Return(c)
    /\ UNCHANGED <<balance, log, billed, settleRows, cache, holdVars, now>>

\* The cached balance reaches balanceTTL, or Redis evicts it.
CacheExpires ==
    /\ cache # Miss
    /\ cache' = Miss
    /\ UNCHANGED <<dbVars, holdVars, now, pc, op, read>>

\* Time passes, and a hold key whose expiry is reached is gone.
Tick ==
    LET due(k) == deadline[k] # NoTime /\ deadline[k] <= now + 1
    IN  /\ now < MaxTime
        /\ now' = now + 1
        /\ SetHolds([r \in Requests |-> IF due("zset") THEN 0 ELSE holds[r]],
                    [r \in Requests |-> IF due("hash") THEN NoTime
                                                      ELSE holdsTS[r]])
        /\ UNCHANGED <<dbVars, cache, pc, op, read>>

(***************************************************************************)
(* Specification                                                           *)
(***************************************************************************)

Init ==
    /\ balance = InitialBalance
    /\ rowLock = Free
    /\ log = [credit |-> InitialBalance, debit |-> 0, settle |-> 0,
              shortfall |-> 0]
    /\ billed = 0
    /\ settleRows = {}
    /\ cache = Miss
    /\ holds = [r \in Requests |-> 0]
    /\ holdsTS = [r \in Requests |-> NoTime]
    /\ deadline = [k \in Keys |-> NoTime]
    /\ now = 0
    /\ pc = [c \in Calls |-> "idle"]
    /\ op = [c \in Calls |-> NoCall]
    /\ read = [c \in Calls |-> 0]

Request(c) ==
    \/ GetBalance(c)
    \/ \E a \in Amounts : Credit(c, a) \/ Debit(c, a)
    \/ \E r \in Requests :
          \/ Release(c, r)
          \/ \E a \in Amounts : Hold(c, r, a)
          \/ \E a \in Amounts \cup {0} : Settle(c, r, a)

Transact(c) ==
    \/ CommitCredit(c)
    \/ CommitDebit(c)
    \/ RejectDebit(c)
    \/ CommitSettle(c)
    \/ AtBound(c)

Command(c) ==
    \/ ScriptMiss(c)
    \/ HoldScript(c)
    \/ BalanceScript(c)
    \/ LoadBalance(c)
    \/ FillCache(c)
    \/ ExpireKeys(c)
    \/ RemoveHold(c)
    \/ RemoveTimestamp(c)
    \/ Invalidate(c)

Environment == CacheExpires \/ Tick

Next ==
    \/ \E c \in Calls :
          Request(c) \/ LockRow(c) \/ Transact(c) \/ Command(c) \/ Abandon(c)
    \/ Environment

Spec == Init /\ [][Next]_vars

\* Goroutines run, Redis and PostgreSQL answer, and PostgreSQL grants a row
\* lock in the order it was asked for, so a waiting call is not overtaken for
\* ever.
Fairness ==
    \A c \in Calls : /\ WF_vars(Transact(c) \/ Command(c))
                     /\ SF_vars(LockRow(c))

FairSpec == Spec /\ Fairness
=============================================================================
