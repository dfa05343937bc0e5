---------------------------- MODULE LedgerProps -----------------------------
(***************************************************************************)
(* What the ledger promises, and what it does not.                         *)
(***************************************************************************)
EXTENDS Ledger

CallRecords == [kind : Kinds, req : Requests \cup {NoReq}, amt : Nat, at : Nat]

\* Every variable has its type.
TypeOK ==
    /\ balance \in Int
    /\ rowLock \in Calls \cup {Free}
    /\ log \in [credit : Nat, debit : Nat, settle : Nat, shortfall : Nat]
    /\ billed \in Nat
    /\ settleRows \subseteq Requests
    /\ cache \in Int
    /\ holds \in [Requests -> Nat]
    /\ holdsTS \in [Requests -> Int]
    /\ deadline \in [Keys -> Int]
    /\ now \in Nat
    /\ pc \in [Calls -> Steps]
    /\ op \in [Calls -> CallRecords]
    /\ read \in [Calls -> Int]

\* However Credit, Debit and Settle interleave, the balance is what the
\* committed rows say, it never goes below zero, and what the settlements
\* could not take is recorded as shortfall: nothing is lost and nothing is
\* debited twice.  This rests on SELECT ... FOR UPDATE.
BalanceAccounted ==
    /\ balance >= 0
    /\ balance = log.credit - log.debit - log.settle
    /\ log.settle + log.shortfall = billed

\* The ledger keeps the account of Account: each commit is one credit, debit or
\* charge of the balance as it is at that moment, and nothing else touches it.
Acct == INSTANCE Account WITH balance <- balance, log <- log, billed <- billed

AccountKept == Acct!Spec

\* However stale the cached balance that admitted them, the holds of a user
\* never reserve more than was ever credited.
ExposureBounded == HeldSum(holds) <= log.credit

\* The two invariants are not inductive on their own.  They also rest on this:
\* a transaction that is about to write holds the row lock and the balance it
\* read is still the balance, calls have the arguments of their kind, and neither
\* the cache nor a refill in flight shows more than was credited.
LockedRead ==
    \A c \in Calls : pc[c] = "write" => rowLock = c /\ read[c] = balance

CallsWellFormed ==
    \A c \in Calls :
       /\ op[c].kind \in {"hold", "settle", "release"} => op[c].req \in Requests
       /\ pc[c] \in {"lock", "write"} =>
             op[c].kind \in {"credit", "debit", "settle"} /\ op[c].amt \in Amounts

SeenCredited ==
    /\ cache <= log.credit
    /\ \A c \in Calls : pc[c] = "fill" => read[c] <= log.credit

LedgerInv ==
    TypeOK /\ BalanceAccounted /\ ExposureBounded
       /\ LockedRead /\ CallsWellFormed /\ SeenCredited

\* A hold disappears only when its request has a committed settle row, when
\* a Release or a free Settle of that request is running, when it is past its
\* lifetime, or when Redis drops the key of a user without recent holds: a
\* settlement whose transaction fails leaves its hold in place.
HoldKeptUntilSettled ==
    [][\A r \in Requests : holds[r] # 0 /\ holds'[r] = 0 =>
         \/ r \in settleRows
         \/ \E c \in Calls : op[c].req = r /\ op[c].amt = 0
         \/ holdsTS[r] # NoTime /\ now > holdsTS[r] + HoldTTL
         \/ deadline["zset"] # NoTime /\ now' >= deadline["zset"]]_vars

\* HoldKeptUntilSettled rests on this: a call that is about to clear a hold is a
\* Release, a free settlement or one that has committed, and no call has read a
\* clock ahead of the clock.
ClearingSettled ==
    \A c \in Calls :
       /\ op[c].at <= now
       /\ op[c].kind = "release" => op[c].amt = 0
       /\ pc[c] = "zrem" =>
             \/ op[c].amt = 0
             \/ op[c].kind = "settle" /\ op[c].req \in settleRows

\* Every call returns: no call waits for ever for the row lock, whatever
\* dies while holding it.
CallsReturn == \A c \in Calls : pc[c] # "idle" ~> pc[c] = "idle"

(***************************************************************************)
(* What a test says and the code does not do                               *)
(***************************************************************************)

Quiet == \A c \in Calls : pc[c] = "idle"

\* Once every call has returned, a cached balance is the persistent one: "the
\* Redis cached balance key is deleted, ensuring subsequent Hold operations
\* read the updated value".  A refill that read the balance before a commit
\* writes it after the invalidation.
CoherentWhenQuiet == Quiet => cache \in {Miss, balance}
=============================================================================
