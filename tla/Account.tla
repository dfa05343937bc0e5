------------------------------ MODULE Account -------------------------------
(***************************************************************************)
(* What the ledger promises the holder of an account: money comes in by    *)
(* credits and leaves by debits and charges, one at a time.  A debit is    *)
(* covered or refused.  A charge takes what there is, and what it cannot   *)
(* take is put on record.                                                  *)
(***************************************************************************)
EXTENDS Integers

CONSTANTS
    Amounts,         \* the amounts of credits, debits and charges
    InitialBalance

VARIABLES
    balance,  \* what the account holds
    log,      \* sums of what came in, what went out, what was charged
              \* and what charges could not take
    billed    \* the sum of the charges

vars == <<balance, log, billed>>

Init ==
    /\ balance = InitialBalance
    /\ log = [credit |-> InitialBalance, debit |-> 0, settle |-> 0,
              shortfall |-> 0]
    /\ billed = 0

Deposit(a) ==
    /\ balance' = balance + a
    /\ log' = [log EXCEPT !.credit = @ + a]
    /\ UNCHANGED billed

Withdraw(a) ==
    /\ a <= balance
    /\ balance' = balance - a
    /\ log' = [log EXCEPT !.debit = @ + a]
    /\ UNCHANGED billed

Charge(a) ==
    /\ billed' = billed + a
    /\ \/ /\ a <= balance
          /\ balance' = balance - a
          /\ log' = [log EXCEPT !.settle = @ + a]
       \/ /\ a > balance
          /\ balance' = 0
          /\ log' = [log EXCEPT !.settle = @ + balance,
                                !.shortfall = @ + (a - balance)]

Next == \E a \in Amounts : Deposit(a) \/ Withdraw(a) \/ Charge(a)

Spec == Init /\ [][Next]_vars
=============================================================================
