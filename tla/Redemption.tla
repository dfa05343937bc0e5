------------------------------ MODULE Redemption ------------------------------
(***************************************************************************)
(* Redeem codes on the server: opsStore keeps them in memory under its      *)
(* mutex, and UserRedeemHandler marks a code used, unlocks, credits the     *)
(* ledger and, when the ledger refuses, locks again to take the mark back.  *)
(* It remembers the code by its position in the list, while administrators  *)
(* create and delete codes.                                                 *)
(*                                                                         *)
(* External: an error of Ledger.Credit means that nothing was credited (the *)
(* credit is one database transaction).                                     *)
(***************************************************************************)
EXTENDS Naturals, Sequences

CONSTANTS
    Redeemers,    \* users who redeem codes
    Attempts,     \* requests of POST /redeem
    MaxCodes,     \* bound: codes ever created
    MaxRestarts   \* bound: restarts of the server

VARIABLES
    redeemCodes,  \* opsStore.redeemCodes, in their order
    created,      \* codes created so far; every text is new, so the k-th is code k
    attempts,     \* each request: the user, the code and the remembered position
    credits,      \* how often each code was credited (the balance logs)
    displaced,    \* history: a code was deleted at or before a remembered position
    restarts      \* restarts so far

redeemVars == <<redeemCodes, created, attempts, credits, displaced, restarts>>

Codes == 1 .. MaxCodes
Nobody == "nobody"

ASSUME RedemptionAssumption == Nobody \notin Redeemers /\ MaxCodes \in Nat

NewCode(c) == [code |-> c, usedBy |-> Nobody]
Used(k) == redeemCodes[k].usedBy # Nobody

NoAttempt == [phase |-> "none", user |-> Nobody, code |-> 0, idx |-> 0]
UnderWay(r) == attempts[r].phase \in {"marked", "refused"}

RedeemInit ==
    /\ redeemCodes = << >> /\ created = 0
    /\ attempts = [r \in Attempts |-> NoAttempt]
    /\ credits = [c \in Codes |-> 0]
    /\ displaced = FALSE /\ restarts = 0

(***************************************************************************)
(* UserRedeemHandler                                                       *)
(***************************************************************************)

\* Mutant: whether the code is unused is not looked at under the lock.
MarkAgain(r, u, k) ==
    /\ attempts[r].phase = "none"
    /\ k \in DOMAIN redeemCodes
    /\ redeemCodes' = [redeemCodes EXCEPT ![k].usedBy = u]
    /\ attempts' = [attempts EXCEPT ![r] =
                        [phase |-> "marked", user |-> u, code |-> redeemCodes[k].code, idx |-> k]]
    /\ UNCHANGED <<created, credits, displaced, restarts>>

\* Under the lock: the first code with this text, if it is unused, is marked.
MarkUsed(r, u, k) ==
    /\ attempts[r].phase = "none"
    /\ k \in DOMAIN redeemCodes /\ ~Used(k)
    /\ redeemCodes' = [redeemCodes EXCEPT ![k].usedBy = u]
    /\ attempts' = [attempts EXCEPT ![r] =
                        [phase |-> "marked", user |-> u, code |-> redeemCodes[k].code, idx |-> k]]
    /\ UNCHANGED <<created, credits, displaced, restarts>>

\* Without the lock: the ledger credits the amount that was read with the code.
CreditRedeemed(r) ==
    /\ attempts[r].phase = "marked"
    /\ credits' = [credits EXCEPT ![attempts[r].code] = @ + 1]
    /\ attempts' = [attempts EXCEPT ![r].phase = "done"]
    /\ UNCHANGED <<redeemCodes, created, displaced, restarts>>

CreditRefused(r) ==
    /\ attempts[r].phase = "marked"
    /\ attempts' = [attempts EXCEPT ![r].phase = "refused"]
    /\ UNCHANGED <<redeemCodes, created, credits, displaced, restarts>>

\* Under the lock again: the code at the remembered position, whichever it is
\* by now, is unused again if this user used it.
RollBack(r) ==
    LET a == attempts[r]
        mine == a.idx <= Len(redeemCodes) /\ redeemCodes[a.idx].usedBy = a.user
    IN  /\ a.phase = "refused"
        /\ redeemCodes' = IF mine THEN [redeemCodes EXCEPT ![a.idx].usedBy = Nobody] ELSE redeemCodes
        /\ attempts' = [attempts EXCEPT ![r].phase = "done"]
        /\ UNCHANGED <<created, credits, displaced, restarts>>

(***************************************************************************)
(* The administrator, and the process                                      *)
(***************************************************************************)

CreateCodes(n) ==
    /\ n > 0 /\ created + n <= MaxCodes
    /\ redeemCodes' = redeemCodes \o [k \in 1 .. n |-> NewCode(created + k)]
    /\ created' = created + n
    /\ UNCHANGED <<attempts, credits, displaced, restarts>>

\* A deletion moves every later code one position down.
DropCode(k) ==
    /\ k \in DOMAIN redeemCodes
    /\ redeemCodes' = SubSeq(redeemCodes, 1, k - 1) \o SubSeq(redeemCodes, k + 1, Len(redeemCodes))
    /\ displaced' = (displaced \/ \E r \in Attempts : UnderWay(r) /\ k <= attempts[r].idx)
    /\ UNCHANGED <<created, attempts, credits, restarts>>

\* The codes live in the process and die with it; the credits are the database's.
RestartStore ==
    /\ restarts < MaxRestarts
    /\ restarts' = restarts + 1
    /\ redeemCodes' = << >>
    /\ attempts' = [r \in Attempts |-> IF UnderWay(r) THEN [attempts[r] EXCEPT !.phase = "done"]
                                       ELSE attempts[r]]
    /\ UNCHANGED <<created, credits, displaced>>

RedeemNext ==
    \/ \E r \in Attempts :
          \/ \E u \in Redeemers, k \in DOMAIN redeemCodes : MarkUsed(r, u, k)
          \/ CreditRedeemed(r)
          \/ CreditRefused(r)
          \/ RollBack(r)
    \/ \E n \in Codes : CreateCodes(n)
    \/ \E k \in DOMAIN redeemCodes : DropCode(k)
    \/ RestartStore

RedeemSpec == RedeemInit /\ [][RedeemNext]_redeemVars

(***************************************************************************)
(* Properties                                                              *)
(***************************************************************************)

UsedCodes == {redeemCodes[k].code : k \in {j \in DOMAIN redeemCodes : Used(j)}}
ListedCodes == {redeemCodes[k].code : k \in DOMAIN redeemCodes}
CodesUnderWay == {attempts[r].code : r \in {q \in Attempts : UnderWay(q)}}

\* Money and marks agree, whatever the interleaving of redemptions, refused
\* credits, roll-backs and restarts (UserRedeemHandler), as long as no deletion
\* moved a code under a redemption: a code of the list is marked used exactly when
\* it was credited or is being redeemed, and no code was credited twice.
UndisturbedUse ==
    ~displaced =>
        /\ \A c \in ListedCodes : (c \in UsedCodes) <=> (credits[c] = 1 \/ c \in CodesUnderWay)
        /\ \A c \in Codes : credits[c] <= 1

\* "Only roll back if nobody else has reused this code in the interim"
\* (handler_ops.go:283): no code is credited twice.  With a deletion the position
\* that is rolled back is another code's, one that the same user has redeemed.
CreditedOnce == \A c \in Codes : credits[c] <= 1
===============================================================================
