--------------------------- MODULE UserPagesProofs ---------------------------
(***************************************************************************)
(* The pages of the users: the money of purchases and of redeemed codes,   *)
(* tickets, API keys and the lists that come in pages.                     *)
(***************************************************************************)
EXTENDS Purchases, Redemption, Tickets, ListPages, ApiKeys, FiniteSetTheorems,
        SequenceTheorems, TLAPS

(***************************************************************************)
(* Purchases: the money is accounted for                                   *)
(***************************************************************************)

\* The inductive invariant: the handler of a purchase is in one of its phases.
PurchasePhases == {"none", "sent", "refused", "debited", "created", "uncreated"}

PurchasesInv ==
    /\ money \in Int /\ subs \in Nat /\ lost \in Nat
    /\ job \in [Tabs -> PurchasePhases]
    /\ MoneyAccounted

\* The purchases whose money is neither in the account nor in a subscription
\* are finitely many.
LEMMA OpenFinite == IsFiniteSet(Open) /\ Cardinality(Open) \in Nat
<1>1. Open \subseteq Tabs
  BY DEF Open
<1> QED
  BY <1>1, PurchasesAssumption, FS_Subset, FS_CardinalityType

\* A step of one handler opens its purchase, closes it, or does neither.
LEMMA OneJob ==
    ASSUME job \in [Tabs -> PurchasePhases], NEW t \in Tabs, NEW phase \in PurchasePhases, To(t, phase)
    PROVE  /\ job' \in [Tabs -> PurchasePhases]
           /\ (t \in Open) = (phase \in {"debited", "uncreated"}) => Open' = Open
           /\ t \notin Open /\ phase \in {"debited", "uncreated"} =>
                 Open' = Open \cup {t} /\ Cardinality(Open') = Cardinality(Open) + 1
           /\ t \in Open /\ phase \notin {"debited", "uncreated"} =>
                 Open' = Open \ {t} /\ Cardinality(Open') = Cardinality(Open) - 1
<1>1. job' = [job EXCEPT ![t] = phase]
  BY DEF To
<1>2. job' \in [Tabs -> PurchasePhases]
  BY <1>1
<1>3. ASSUME (t \in Open) = (phase \in {"debited", "uncreated"})
      PROVE  Open' = Open
  BY <1>1, <1>3 DEF Open
<1>4. ASSUME t \notin Open, phase \in {"debited", "uncreated"}
      PROVE  Open' = Open \cup {t} /\ Cardinality(Open') = Cardinality(Open) + 1
  <2>1. Open' = Open \cup {t}
    BY <1>1, <1>4 DEF Open
  <2> QED
    BY <2>1, <1>4, OpenFinite, FS_AddElement
<1>5. ASSUME t \in Open, phase \notin {"debited", "uncreated"}
      PROVE  Open' = Open \ {t} /\ Cardinality(Open') = Cardinality(Open) - 1
  <2>1. Open' = Open \ {t}
    BY <1>1, <1>5 DEF Open
  <2> QED
    BY <2>1, <1>5, OpenFinite, FS_RemoveElement
<1> QED
  BY <1>2, <1>3, <1>4, <1>5

\* At first no purchase is under way and the money is all there.
LEMMA PurchasesInvInit == PurchasesInit => PurchasesInv
<1> SUFFICES ASSUME PurchasesInit PROVE PurchasesInv
  OBVIOUS
<1>1. Open = {}
  BY DEF PurchasesInit, Open
<1>2. Cardinality(Open) = 0
  BY <1>1, FS_EmptySet
<1>3. job \in [Tabs -> PurchasePhases]
  BY DEF PurchasesInit, PurchasePhases
<1>4. money = Funds /\ subs = 0 /\ lost = 0
  BY DEF PurchasesInit
<1>5. Price * (subs + Cardinality(Open) + lost) = 0
  BY <1>2, <1>4, PurchasesAssumption
<1> QED
  BY <1>3, <1>4, <1>5, PurchasesAssumption DEF PurchasesInv, MoneyAccounted

\* What the money and the counts are together, after they moved by d.
LEMMA PurchaseMoved ==
    ASSUME NEW n \in Int
    PROVE  Price * (n + 1) = Price * n + Price /\ Price * (n - 1) = Price * n - Price
BY PurchasesAssumption

\* No step of a page or of a handler breaks it.
LEMMA PurchasesInvStep == PurchasesInv /\ [PurchasesNext]_purchaseVars => PurchasesInv'
<1> SUFFICES ASSUME PurchasesInv, [PurchasesNext]_purchaseVars PROVE PurchasesInv'
  OBVIOUS
<1> DEFINE taken == subs + Cardinality(Open) + lost
<1>a. /\ money \in Int /\ subs \in Nat /\ lost \in Nat /\ job \in [Tabs -> PurchasePhases]
      /\ money >= 0 /\ money + Price * taken = Funds
      /\ Cardinality(Open) \in Nat /\ taken \in Int
      /\ Price \in Nat \ {0} /\ Funds \in Nat
  BY OpenFinite, PurchasesAssumption DEF PurchasesInv, MoneyAccounted
<1>b. Price * (taken + 1) = Price * taken + Price /\ Price * (taken - 1) = Price * taken - Price
  BY <1>a, PurchaseMoved
<1>1. CASE UNCHANGED <<money, subs, lost, job>>
  BY <1>1 DEF PurchasesInv, MoneyAccounted, Open
<1>2. ASSUME NEW t \in Tabs, LoadData(t) \/ OpenCheckout(t) \/ CancelCheckout(t)
                            \/ StoreBalance(t) \/ HangUp(t)
      PROVE  PurchasesInv'
  BY <1>1, <1>2 DEF LoadData, OpenCheckout, CancelCheckout, StoreBalance, HangUp
<1>3. ASSUME NEW t \in Tabs, ConfirmPurchase(t) \/ Refuse(t) \/ CreateFails(t) \/ PurchaseAnswered(t)
      PROVE  PurchasesInv'
  <2>1. /\ UNCHANGED <<money, subs, lost>>
        /\ \E phase \in PurchasePhases :
              To(t, phase) /\ (t \in Open) = (phase \in {"debited", "uncreated"})
    BY <1>3 DEF ConfirmPurchase, Refuse, CreateFails, PurchaseAnswered, To, Open, PurchasePhases
  <2>2. job' \in [Tabs -> PurchasePhases] /\ Open' = Open
    BY <1>a, <2>1, OneJob
  <2> QED
    BY <1>a, <2>1, <2>2 DEF PurchasesInv, MoneyAccounted
<1>4. ASSUME NEW t \in Tabs, DebitPrice(t)
      PROVE  PurchasesInv'
  <2>1. To(t, "debited") /\ t \notin Open /\ money >= Price /\ money' = money - Price
        /\ UNCHANGED <<subs, lost>>
    BY <1>4 DEF DebitPrice, Open
  <2>2. job' \in [Tabs -> PurchasePhases] /\ Cardinality(Open') = Cardinality(Open) + 1
    BY <1>a, <2>1, OneJob DEF PurchasePhases
  <2>3. (subs + Cardinality(Open) + lost)' = taken + 1
    BY <1>a, <2>1, <2>2
  <2> QED
    BY <1>a, <1>b, <2>1, <2>2, <2>3 DEF PurchasesInv, MoneyAccounted
<1>5. ASSUME NEW t \in Tabs, CreateSubscription(t)
      PROVE  PurchasesInv'
  <2>1. To(t, "created") /\ t \in Open /\ subs' = subs + 1 /\ UNCHANGED <<money, lost>>
    BY <1>5 DEF CreateSubscription, Open
  <2>2. job' \in [Tabs -> PurchasePhases] /\ Cardinality(Open') = Cardinality(Open) - 1
    BY <1>a, <2>1, OneJob DEF PurchasePhases
  <2>3. (subs + Cardinality(Open) + lost)' = taken
    BY <1>a, <2>1, <2>2
  <2> QED
    BY <1>a, <2>1, <2>2, <2>3 DEF PurchasesInv, MoneyAccounted
<1>6. ASSUME NEW t \in Tabs, Compensate(t)
      PROVE  PurchasesInv'
  <2>1. To(t, "refused") /\ t \in Open /\ UNCHANGED subs
        /\ (\/ lost' = lost + 1 /\ money' = money
            \/ lost' = lost /\ money' = money + Price)
    BY <1>6 DEF Compensate, Open
  <2>2. job' \in [Tabs -> PurchasePhases] /\ Cardinality(Open') = Cardinality(Open) - 1
    BY <1>a, <2>1, OneJob DEF PurchasePhases
  <2>3. CASE lost' = lost + 1 /\ money' = money
    <3>1. (subs + Cardinality(Open) + lost)' = taken
      BY <1>a, <2>1, <2>2, <2>3
    <3> QED
      BY <1>a, <2>1, <2>2, <2>3, <3>1 DEF PurchasesInv, MoneyAccounted
  <2>4. CASE lost' = lost /\ money' = money + Price
    <3>1. (subs + Cardinality(Open) + lost)' = taken - 1
      BY <1>a, <2>1, <2>2, <2>4
    <3> QED
      BY <1>a, <1>b, <2>1, <2>2, <2>4, <3>1 DEF PurchasesInv, MoneyAccounted
  <2> QED
    BY <2>1, <2>3, <2>4
<1> QED
  BY <1>1, <1>2, <1>3, <1>4, <1>5, <1>6 DEF PurchasesNext, purchaseVars

\* For any number of tabs that buy at once, fail and hang up: the balance never
\* goes below zero, and all that left it is in subscriptions, in purchases under
\* way or in compensations that failed.
THEOREM MoneyAlwaysAccounted == PurchasesSpec => []MoneyAccounted
<1>1. PurchasesInv => MoneyAccounted
  BY DEF PurchasesInv
<1> QED
  BY <1>1, PurchasesInvInit, PurchasesInvStep, PTL DEF PurchasesSpec

(***************************************************************************)
(* Redemption: marks and credits agree                                     *)
(***************************************************************************)

(***************************************************************************)
(* The inductive invariant                                                 *)
(***************************************************************************)

CodeRecords == [code : Codes, usedBy : Redeemers \cup {Nobody}]

AttemptRecords ==
    [phase : {"none", "marked", "refused", "done"}, user : Redeemers \cup {Nobody},
     code : Nat, idx : Nat]

RedeemTypes ==
    /\ created \in 0 .. MaxCodes
    /\ redeemCodes \in Seq(CodeRecords)
    /\ attempts \in [Attempts -> AttemptRecords]
    /\ \A r \in Attempts : UnderWay(r) => attempts[r].code \in 1 .. created /\ attempts[r].idx >= 1
    /\ credits \in [Codes -> Nat]
    /\ displaced \in BOOLEAN

\* Codes are created once, and nothing happens to one before.
EachOnce ==
    /\ \A k \in DOMAIN redeemCodes : redeemCodes[k].code <= created
    /\ \A j, k \in DOMAIN redeemCodes : redeemCodes[j].code = redeemCodes[k].code => j = k
    /\ \A c \in Codes : c > created => credits[c] = 0

\* A request under way finds its code where it remembers it, marked by its user
\* and not credited ...
Remembers(r) ==
    /\ attempts[r].idx \in DOMAIN redeemCodes
    /\ redeemCodes[attempts[r].idx].code = attempts[r].code
    /\ redeemCodes[attempts[r].idx].usedBy = attempts[r].user
    /\ attempts[r].user \in Redeemers
    /\ credits[attempts[r].code] = 0

\* ... and no two requests have the same code.
Remembered ==
    /\ \A r \in Attempts : UnderWay(r) => Remembers(r)
    /\ \A q, r \in Attempts : UnderWay(q) /\ UnderWay(r) /\ attempts[q].idx = attempts[r].idx => q = r

\* What is marked was credited or belongs to a request under way.
Settled ==
    /\ \A k \in DOMAIN redeemCodes :
          Used(k) <=> \/ credits[redeemCodes[k].code] = 1
                      \/ \E r \in Attempts : UnderWay(r) /\ attempts[r].idx = k
    /\ \A c \in Codes : credits[c] <= 1

RedeemInv ==
    /\ RedeemTypes
    /\ EachOnce
    /\ ~displaced => Remembered /\ Settled

(***************************************************************************)
(* Lists                                                                   *)
(***************************************************************************)

\* What becomes of the list when one code is marked for w, or for nobody.
LEMMA Remarked ==
    ASSUME NEW s \in Seq(CodeRecords), NEW k \in DOMAIN s, NEW w \in Redeemers \cup {Nobody}
    PROVE  LET t == [s EXCEPT ![k].usedBy = w]
           IN  /\ t \in Seq(CodeRecords) /\ DOMAIN t = DOMAIN s
               /\ \A j \in DOMAIN s : t[j].code = s[j].code
               /\ \A j \in DOMAIN s : t[j].usedBy = IF j = k THEN w ELSE s[j].usedBy
<1> DEFINE e == [s[k] EXCEPT !.usedBy = w]
           t == [s EXCEPT ![k] = e]
<1>1. k \in 1 .. Len(s) /\ DOMAIN s = 1 .. Len(s) /\ Len(s) \in Nat
  BY LenProperties
<1>2. s[k] \in CodeRecords
  BY <1>1, ElementOfSeq
<1>3. e \in CodeRecords /\ e.code = s[k].code /\ e.usedBy = w
  BY <1>2 DEF CodeRecords
<1> HIDE DEF e
<1>4. /\ t \in Seq(CodeRecords) /\ Len(t) = Len(s)
      /\ \A j \in 1 .. Len(s) : t[j] = IF j = k THEN e ELSE s[j]
  BY <1>1, <1>3, ExceptSeq
<1>5. DOMAIN t = DOMAIN s
  OBVIOUS
<1>6. /\ \A j \in DOMAIN s : t[j].code = s[j].code
      /\ \A j \in DOMAIN s : t[j].usedBy = IF j = k THEN w ELSE s[j].usedBy
  BY <1>1, <1>3, <1>4
<1> QED
  BY <1>4, <1>5, <1>6 DEF e

\* What is left of a list when one element is taken out of it.
LEMMA TakenOut ==
    ASSUME NEW S, NEW s \in Seq(S), NEW k \in DOMAIN s
    PROVE  LET t == SubSeq(s, 1, k - 1) \o SubSeq(s, k + 1, Len(s))
           IN  /\ t \in Seq(S) /\ DOMAIN t = 1 .. (Len(s) - 1)
               /\ \A j \in 1 .. (Len(s) - 1) : t[j] = IF j < k THEN s[j] ELSE s[j + 1]
<1> DEFINE a == SubSeq(s, 1, k - 1)
           b == SubSeq(s, k + 1, Len(s))
<1>0. k \in 1 .. Len(s) /\ Len(s) \in Nat /\ \A j \in 1 .. Len(s) : s[j] \in S
  BY LenProperties, ElementOfSeq
<1>1. a \in Seq(S) /\ Len(a) = k - 1 /\ \A j \in 1 .. (k - 1) : a[j] = s[j]
  <2>1. \A j \in 1 .. (k - 1) : s[j] \in S
    BY <1>0
  <2>2. /\ a \in Seq(S) /\ Len(a) = IF 1 <= k - 1 THEN k - 1 - 1 + 1 ELSE 0
        /\ \A j \in 1 .. (k - 1) - 1 + 1 : a[j] = s[1 + j - 1]
    BY <1>0, <2>1, SubSeqProperties
  <2> QED
    BY <1>0, <2>2
<1>2. b \in Seq(S) /\ Len(b) = Len(s) - k /\ \A j \in 1 .. (Len(s) - k) : b[j] = s[j + k]
  <2>1. \A j \in (k + 1) .. Len(s) : s[j] \in S
    BY <1>0
  <2>2. /\ b \in Seq(S) /\ Len(b) = IF k + 1 <= Len(s) THEN Len(s) - (k + 1) + 1 ELSE 0
        /\ \A j \in 1 .. Len(s) - (k + 1) + 1 : b[j] = s[(k + 1) + j - 1]
    BY <1>0, <2>1, SubSeqProperties
  <2> QED
    BY <1>0, <2>2
<1> HIDE DEF a, b
<1>3. /\ a \o b \in Seq(S) /\ Len(a \o b) = Len(a) + Len(b)
      /\ \A j \in 1 .. (Len(a) + Len(b)) : (a \o b)[j] = IF j <= Len(a) THEN a[j] ELSE b[j - Len(a)]
  BY <1>1, <1>2, ConcatProperties
<1>4. DOMAIN (a \o b) = 1 .. (Len(s) - 1)
  BY <1>0, <1>1, <1>2, <1>3, LenProperties, SMTT(30)
<1>5. ASSUME NEW j \in 1 .. (Len(s) - 1)
      PROVE  (a \o b)[j] = IF j < k THEN s[j] ELSE s[j + 1]
  <2>1. (a \o b)[j] = IF j <= k - 1 THEN a[j] ELSE b[j - (k - 1)]
    <3>1. Len(a) = k - 1 /\ j \in 1 .. (Len(a) + Len(b))
      BY <1>0, <1>1, <1>2
    <3> QED
      BY <1>3, <3>1
  <2>2. CASE j < k
    BY <1>0, <1>1, <2>1, <2>2
  <2>3. CASE ~(j < k)
    <3>1. j - (k - 1) \in 1 .. (Len(s) - k) /\ (j - (k - 1)) + k = j + 1
      BY <1>0, <2>3
    <3> QED
      BY <1>0, <1>2, <2>1, <2>3, <3>1
  <2> QED
    BY <2>2, <2>3
<1> QED
  BY <1>3, <1>4, <1>5 DEF a, b

(***************************************************************************)
(* The steps                                                               *)
(***************************************************************************)

\* Whatever is listed was created.
LEMMA CodesListed ==
    ASSUME RedeemTypes
    PROVE  \A k \in DOMAIN redeemCodes : redeemCodes[k].code \in Codes
<1>1. \A k \in DOMAIN redeemCodes : redeemCodes[k] \in CodeRecords
  BY LenProperties, ElementOfSeq DEF RedeemTypes
<1> QED
  BY <1>1 DEF CodeRecords

\* At first there is no code and no request.
LEMMA RedeemInvInit == RedeemInit => RedeemInv
<1> SUFFICES ASSUME RedeemInit PROVE RedeemInv
  OBVIOUS
<1>1. redeemCodes \in Seq(CodeRecords) /\ DOMAIN redeemCodes = {}
  BY EmptySeq DEF RedeemInit
<1>2. attempts \in [Attempts -> AttemptRecords] /\ \A r \in Attempts : ~UnderWay(r)
  BY DEF RedeemInit, AttemptRecords, NoAttempt, UnderWay
<1>3. credits \in [Codes -> Nat] /\ \A c \in Codes : credits[c] = 0
  BY DEF RedeemInit
<1>4. RedeemTypes
  <2>1. created \in 0 .. MaxCodes
    BY RedemptionAssumption DEF RedeemInit
  <2>2. displaced \in BOOLEAN
    BY DEF RedeemInit
  <2> QED
    BY <1>1, <1>2, <1>3, <2>1, <2>2 DEF RedeemTypes
<1>5. EachOnce
  BY <1>1, <1>3 DEF EachOnce
<1>6. Remembered /\ Settled
  BY <1>1, <1>2, <1>3 DEF Remembered, Settled
<1> QED
  BY <1>4, <1>5, <1>6 DEF RedeemInv

\* A code is marked under the lock, so no other request has it.
LEMMA MarkKeeps ==
    ASSUME RedeemInv, NEW r \in Attempts, NEW u \in Redeemers, NEW k \in DOMAIN redeemCodes,
           MarkUsed(r, u, k)
    PROVE  RedeemInv'
<1> DEFINE a == [phase |-> "marked", user |-> u, code |-> redeemCodes[k].code, idx |-> k]
<1>1. /\ attempts[r].phase = "none" /\ redeemCodes[k].usedBy = Nobody
      /\ redeemCodes' = [redeemCodes EXCEPT ![k].usedBy = u]
      /\ attempts' = [attempts EXCEPT ![r] = a]
      /\ UNCHANGED <<created, credits, displaced>>
  BY DEF MarkUsed, Used
<1>2. /\ redeemCodes' \in Seq(CodeRecords) /\ DOMAIN redeemCodes' = DOMAIN redeemCodes
      /\ \A j \in DOMAIN redeemCodes : redeemCodes'[j].code = redeemCodes[j].code
      /\ \A j \in DOMAIN redeemCodes :
            redeemCodes'[j].usedBy = IF j = k THEN u ELSE redeemCodes[j].usedBy
  BY <1>1, Remarked DEF RedeemInv, RedeemTypes
<1>3. k \in Nat /\ k >= 1 /\ redeemCodes[k].code \in Codes /\ redeemCodes[k].code \in 1 .. created
  <2>1. redeemCodes[k] \in CodeRecords /\ k \in Nat /\ k >= 1
    BY LenProperties, ElementOfSeq DEF RedeemInv, RedeemTypes
  <2> QED
    BY <2>1, RedemptionAssumption DEF CodeRecords, Codes, RedeemInv, RedeemTypes, EachOnce
<1>4. /\ attempts'[r] = a
      /\ \A q \in Attempts : q # r => attempts'[q] = attempts[q]
      /\ attempts' \in [Attempts -> AttemptRecords]
  BY <1>1, <1>3 DEF RedeemInv, RedeemTypes, AttemptRecords, Codes
<1>5. ~UnderWay(r) /\ UnderWay(r)' /\ \A q \in Attempts : q # r => UnderWay(q)' = UnderWay(q)
  BY <1>1, <1>4 DEF UnderWay
<1>6. RedeemTypes'
  BY <1>1, <1>2, <1>3, <1>4, <1>5 DEF RedeemInv, RedeemTypes
<1>7. EachOnce'
  BY <1>1, <1>2 DEF RedeemInv, EachOnce
<1>8. ASSUME ~displaced PROVE Remembered' /\ Settled'
  <2>1. Remembered /\ Settled
    BY <1>8 DEF RedeemInv
  <2>2. \A q \in Attempts : UnderWay(q) => attempts[q].idx # k
    BY <1>1, <2>1, RedemptionAssumption DEF Remembered, Remembers
  <2>3. credits[redeemCodes[k].code] = 0
    <3>1. credits[redeemCodes[k].code] # 1 /\ credits[redeemCodes[k].code] <= 1
      BY <1>1, <1>3, <2>1 DEF Settled, Used
    <3> QED
      BY <1>3, <3>1 DEF RedeemInv, RedeemTypes
  <2>4. Remembers(r)'
    BY <1>1, <1>2, <1>4, <2>3 DEF Remembers
  <2>5. \A q \in Attempts : q # r /\ UnderWay(q) => Remembers(q)'
    BY <1>1, <1>2, <1>4, <2>1, <2>2 DEF Remembered, Remembers
  <2>6. Remembered'
    BY <1>4, <1>5, <2>1, <2>2, <2>4, <2>5 DEF Remembered
  <2>7. Settled'
    <3>1. ASSUME NEW j \in DOMAIN redeemCodes
          PROVE  Used(j)' <=> \/ credits[redeemCodes[j].code] = 1
                              \/ \E q \in Attempts : UnderWay(q)' /\ attempts'[q].idx = j
      <4>1. CASE j = k
        BY <1>2, <1>4, <1>5, <4>1, RedemptionAssumption DEF Used
      <4>2. CASE j # k
        BY <1>2, <1>4, <1>5, <2>1, <4>2 DEF Settled, Used
      <4> QED
        BY <4>1, <4>2
    <3> QED
      BY <1>1, <1>2, <2>1, <3>1 DEF Settled
  <2> QED
    BY <2>6, <2>7
<1> QED
  BY <1>1, <1>6, <1>7, <1>8 DEF RedeemInv

\* The credit takes a code from the requests under way to those that are credited.
LEMMA CreditKeeps ==
    ASSUME RedeemInv, NEW r \in Attempts, CreditRedeemed(r)
    PROVE  RedeemInv'
<1> DEFINE c == attempts[r].code
<1>1. /\ attempts[r].phase = "marked" /\ UnderWay(r)
      /\ credits' = [credits EXCEPT ![c] = @ + 1]
      /\ UNCHANGED <<redeemCodes, created, displaced>>
  BY DEF CreditRedeemed, UnderWay
<1>2. c \in Codes /\ c <= created
  BY <1>1, RedemptionAssumption DEF RedeemInv, RedeemTypes, Codes
<1>3. /\ attempts' \in [Attempts -> AttemptRecords]
      /\ attempts'[r].phase = "done"
      /\ \A q \in Attempts : q # r => attempts'[q] = attempts[q]
  BY DEF CreditRedeemed, RedeemInv, RedeemTypes, AttemptRecords
<1>4. /\ credits' \in [Codes -> Nat] /\ credits'[c] = credits[c] + 1
      /\ \A d \in Codes : d # c => credits'[d] = credits[d]
  BY <1>1, <1>2 DEF RedeemInv, RedeemTypes
<1>5. ~UnderWay(r)' /\ \A q \in Attempts : q # r => UnderWay(q)' = UnderWay(q)
  BY <1>3 DEF UnderWay
<1>6. RedeemTypes'
  BY <1>1, <1>3, <1>4, <1>5 DEF RedeemInv, RedeemTypes
<1>7. EachOnce'
  <2>1. \A d \in Codes : d > created => credits'[d] = 0
    BY <1>2, <1>4 DEF RedeemInv, RedeemTypes, EachOnce, Codes
  <2> QED
    BY <1>1, <2>1 DEF RedeemInv, EachOnce
<1>8. ASSUME ~displaced PROVE Remembered' /\ Settled'
  <2>1. Remembered /\ Settled
    BY <1>8 DEF RedeemInv
  <2>2. /\ attempts[r].idx \in DOMAIN redeemCodes
        /\ redeemCodes[attempts[r].idx].code = c /\ Used(attempts[r].idx) /\ credits[c] = 0
    BY <1>1, <2>1, RedemptionAssumption DEF Remembered, Remembers, Used
  <2>3. \A k \in DOMAIN redeemCodes : redeemCodes[k].code = c => k = attempts[r].idx
    BY <2>2 DEF RedeemInv, EachOnce
  <2>4. \A q \in Attempts : q # r /\ UnderWay(q) =>
            attempts[q].idx # attempts[r].idx /\ attempts[q].code # c
    BY <1>1, <2>1, <2>3 DEF Remembered, Remembers
  <2>5. ASSUME NEW q \in Attempts, q # r, UnderWay(q) PROVE Remembers(q)'
    <3>1. attempts[q].code \in Codes
      BY <2>5, RedemptionAssumption DEF RedeemInv, RedeemTypes, Codes
    <3> QED
      BY <1>1, <1>3, <1>4, <2>1, <2>4, <2>5, <3>1 DEF Remembered, Remembers
  <2>6. Remembered'
    BY <1>3, <1>5, <2>1, <2>5 DEF Remembered
  <2>7. ASSUME NEW k \in DOMAIN redeemCodes
        PROVE  Used(k) <=> \/ credits'[redeemCodes[k].code] = 1
                           \/ \E q \in Attempts : UnderWay(q)' /\ attempts'[q].idx = k
    <3>1. redeemCodes[k].code \in Codes
      BY CodesListed DEF RedeemInv
    <3>2. CASE redeemCodes[k].code = c
      BY <1>4, <2>2, <2>3, <3>2
    <3>3. CASE redeemCodes[k].code # c
      <4>1. k # attempts[r].idx /\ credits'[redeemCodes[k].code] = credits[redeemCodes[k].code]
        BY <1>4, <2>2, <3>1, <3>3
      <4> QED
        BY <1>3, <1>5, <2>1, <4>1 DEF Settled
    <3> QED
      BY <3>2, <3>3
  <2>8. \A d \in Codes : credits'[d] <= 1
    BY <1>4, <2>1, <2>2 DEF Settled
  <2> QED
    BY <1>1, <2>6, <2>7, <2>8 DEF Settled, Used
<1> QED
  BY <1>1, <1>6, <1>7, <1>8 DEF RedeemInv

\* The refusal of the credit changes nothing but what the request knows.
LEMMA RefusedKeeps ==
    ASSUME RedeemInv, NEW r \in Attempts, CreditRefused(r)
    PROVE  RedeemInv'
<1>1. /\ UnderWay(r) /\ UNCHANGED <<redeemCodes, created, credits, displaced>>
      /\ attempts' \in [Attempts -> AttemptRecords]
      /\ attempts'[r].phase = "refused"
      /\ \A q \in Attempts : /\ attempts'[q].idx = attempts[q].idx
                             /\ attempts'[q].code = attempts[q].code
                             /\ attempts'[q].user = attempts[q].user
                             /\ q # r => attempts'[q] = attempts[q]
  BY DEF CreditRefused, UnderWay, RedeemInv, RedeemTypes, AttemptRecords
<1>2. \A q \in Attempts : UnderWay(q)' = UnderWay(q)
  BY <1>1 DEF UnderWay
<1>3. RedeemTypes' /\ EachOnce'
  BY <1>1, <1>2 DEF RedeemInv, RedeemTypes, EachOnce
<1>4. ASSUME ~displaced PROVE Remembered' /\ Settled'
  <2>1. Remembered /\ Settled
    BY <1>4 DEF RedeemInv
  <2>2. \A q \in Attempts : UnderWay(q) => Remembers(q)'
    BY <1>1, <2>1 DEF Remembered, Remembers
  <2>3. Remembered'
    BY <1>1, <1>2, <2>1, <2>2 DEF Remembered
  <2> QED
    BY <1>1, <1>2, <2>1, <2>3 DEF Settled, Used
<1> QED
  BY <1>1, <1>3, <1>4 DEF RedeemInv

\* What the roll-back unmarks is the request's own code, when none was deleted.
LEMMA RollBackKeeps ==
    ASSUME RedeemInv, NEW r \in Attempts, RollBack(r)
    PROVE  RedeemInv'
<1> DEFINE i == attempts[r].idx
           mine == i <= Len(redeemCodes) /\ redeemCodes[i].usedBy = attempts[r].user
<1>1. /\ UnderWay(r) /\ UNCHANGED <<created, credits, displaced>>
      /\ redeemCodes' = IF mine THEN [redeemCodes EXCEPT ![i].usedBy = Nobody] ELSE redeemCodes
  BY DEF RollBack, UnderWay
<1>2. /\ attempts' \in [Attempts -> AttemptRecords]
      /\ attempts'[r].phase = "done"
      /\ \A q \in Attempts : q # r => attempts'[q] = attempts[q]
  BY DEF RollBack, RedeemInv, RedeemTypes, AttemptRecords
<1>3. ~UnderWay(r)' /\ \A q \in Attempts : q # r => UnderWay(q)' = UnderWay(q)
  BY <1>2 DEF UnderWay
<1>4. mine => i \in DOMAIN redeemCodes
  BY <1>1, LenProperties DEF RedeemInv, RedeemTypes, AttemptRecords
<1>5. /\ redeemCodes' \in Seq(CodeRecords) /\ DOMAIN redeemCodes' = DOMAIN redeemCodes
      /\ \A j \in DOMAIN redeemCodes : redeemCodes'[j].code = redeemCodes[j].code
      /\ mine => \A j \in DOMAIN redeemCodes :
                    redeemCodes'[j].usedBy = IF j = i THEN Nobody ELSE redeemCodes[j].usedBy
  <2>1. CASE mine
    <3>1. PICK k \in DOMAIN redeemCodes, w \in Redeemers \cup {Nobody} : k = i /\ w = Nobody
      BY <1>4, <2>1
    <3>2. redeemCodes' = [redeemCodes EXCEPT ![k].usedBy = w] /\ redeemCodes \in Seq(CodeRecords)
      BY <1>1, <2>1, <3>1 DEF RedeemInv, RedeemTypes
    <3> HIDE DEF i, mine
    <3>3. /\ redeemCodes' \in Seq(CodeRecords) /\ DOMAIN redeemCodes' = DOMAIN redeemCodes
          /\ \A j \in DOMAIN redeemCodes : redeemCodes'[j].code = redeemCodes[j].code
          /\ \A j \in DOMAIN redeemCodes :
                redeemCodes'[j].usedBy = IF j = k THEN w ELSE redeemCodes[j].usedBy
      BY <3>2, Remarked
    <3> QED
      BY <3>1, <3>3
  <2>2. CASE ~mine
    BY <1>1, <2>2 DEF RedeemInv, RedeemTypes
  <2> QED
    BY <2>1, <2>2
<1>6. RedeemTypes'
  BY <1>1, <1>2, <1>3, <1>5 DEF RedeemInv, RedeemTypes
<1>7. EachOnce'
  BY <1>1, <1>5 DEF RedeemInv, EachOnce
<1>8. ASSUME ~displaced PROVE Remembered' /\ Settled'
  <2>1. Remembered /\ Settled
    BY <1>8 DEF RedeemInv
  <2>2. /\ i \in DOMAIN redeemCodes /\ redeemCodes[i].usedBy = attempts[r].user
        /\ redeemCodes[i].code = attempts[r].code /\ credits[redeemCodes[i].code] = 0
    BY <1>1, <2>1 DEF Remembered, Remembers
  <2>3. mine
    BY <2>2, LenProperties DEF RedeemInv, RedeemTypes
  <2>4. /\ redeemCodes'[i].usedBy = Nobody
        /\ \A j \in DOMAIN redeemCodes : j # i => redeemCodes'[j].usedBy = redeemCodes[j].usedBy
    BY <1>5, <2>2, <2>3
  <2> HIDE DEF mine
  <2>5. \A q \in Attempts : q # r /\ UnderWay(q) => attempts[q].idx # i
    BY <1>1, <2>1 DEF Remembered
  <2>6. \A q \in Attempts : q # r /\ UnderWay(q) => Remembers(q)'
    BY <1>1, <1>2, <1>5, <2>1, <2>4, <2>5 DEF Remembered, Remembers
  <2>7. Remembered'
    BY <1>2, <1>3, <2>1, <2>6 DEF Remembered
  <2>8. ASSUME NEW j \in DOMAIN redeemCodes
        PROVE  Used(j)' <=> \/ credits[redeemCodes[j].code] = 1
                            \/ \E q \in Attempts : UnderWay(q)' /\ attempts'[q].idx = j
    <3>1. CASE j = i
      BY <1>2, <1>3, <2>2, <2>4, <2>5, <3>1 DEF Used
    <3>2. CASE j # i
      <4>1. Used(j)' <=> Used(j)
        BY <2>4, <3>2 DEF Used
      <4> QED
        BY <1>2, <1>3, <2>1, <3>2, <4>1 DEF Settled
    <3> QED
      BY <3>1, <3>2
  <2> QED
    BY <1>1, <1>5, <2>1, <2>7, <2>8 DEF Settled
<1> QED
  BY <1>1, <1>6, <1>7, <1>8 DEF RedeemInv

\* New codes come behind the others.
LEMMA CreateKeeps ==
    ASSUME RedeemInv, NEW n \in Codes, CreateCodes(n)
    PROVE  RedeemInv'
<1> DEFINE new == [k \in 1 .. n |-> NewCode(created + k)]
           l == Len(redeemCodes)
<1>1. /\ n \in Nat /\ n > 0 /\ created \in Nat /\ created + n <= MaxCodes /\ MaxCodes \in Nat
      /\ redeemCodes' = redeemCodes \o new /\ created' = created + n
      /\ UNCHANGED <<attempts, credits, displaced>>
  BY RedemptionAssumption DEF CreateCodes, Codes, RedeemInv, RedeemTypes
<1>2. /\ new \in Seq(CodeRecords) /\ Len(new) = n
      /\ \A k \in 1 .. n : new[k].code = created + k /\ new[k].usedBy = Nobody
  <2>1. \A k \in 1 .. n : NewCode(created + k) \in CodeRecords
    BY <1>1 DEF NewCode, CodeRecords, Codes
  <2>2. new \in Seq(CodeRecords)
    BY <1>1, <2>1, IsASeq
  <2>3. DOMAIN new = 1 .. n /\ \A k \in 1 .. n : new[k] = NewCode(created + k)
    OBVIOUS
  <2>4. Len(new) = n
    <3> HIDE DEF new
    <3> QED
      BY <1>1, <2>2, <2>3, LenProperties
  <2> QED
    BY <2>2, <2>3, <2>4 DEF NewCode
<1> HIDE DEF new
<1>3. l \in Nat /\ DOMAIN redeemCodes = 1 .. l /\ redeemCodes \in Seq(CodeRecords)
  BY LenProperties DEF RedeemInv, RedeemTypes
<1>4. /\ redeemCodes' \in Seq(CodeRecords) /\ Len(redeemCodes') = l + n
      /\ \A k \in 1 .. (l + n) : redeemCodes'[k] = IF k <= l THEN redeemCodes[k] ELSE new[k - l]
  BY <1>1, <1>2, <1>3, ConcatProperties
<1>5. DOMAIN redeemCodes' = 1 .. (l + n)
  BY <1>4, LenProperties
<1>6. \A k \in DOMAIN redeemCodes : k \in DOMAIN redeemCodes' /\ redeemCodes'[k] = redeemCodes[k]
  BY <1>1, <1>3, <1>4, <1>5
<1>7. ASSUME NEW k \in DOMAIN redeemCodes', k \notin DOMAIN redeemCodes
      PROVE  redeemCodes'[k].code = created + (k - l) /\ redeemCodes'[k].usedBy = Nobody
             /\ k \in Nat /\ k - l \in 1 .. n
  <2>1. k \in 1 .. (l + n) /\ ~(k <= l) /\ k - l \in 1 .. n
    BY <1>1, <1>3, <1>5, <1>7
  <2> QED
    BY <1>2, <1>3, <1>4, <2>1
<1>8. \A q \in Attempts : UnderWay(q)' = UnderWay(q)
  BY <1>1 DEF UnderWay
<1>9. RedeemTypes'
  BY <1>1, <1>4, <1>8 DEF RedeemInv, RedeemTypes
<1>10. EachOnce'
  <2>1. \A k \in DOMAIN redeemCodes : redeemCodes[k].code \in Nat /\ redeemCodes[k].code <= created
    BY CodesListed DEF RedeemInv, EachOnce, Codes
  <2>2. \A k \in DOMAIN redeemCodes' : redeemCodes'[k].code <= created'
    BY <1>1, <1>6, <1>7, <2>1
  <2>3. ASSUME NEW j \in DOMAIN redeemCodes', NEW k \in DOMAIN redeemCodes',
               redeemCodes'[j].code = redeemCodes'[k].code
        PROVE  j = k
    <3>1. CASE j \in DOMAIN redeemCodes /\ k \in DOMAIN redeemCodes
      BY <1>6, <2>3, <3>1 DEF RedeemInv, EachOnce
    <3>2. CASE j \in DOMAIN redeemCodes /\ k \notin DOMAIN redeemCodes
      BY <1>1, <1>3, <1>6, <1>7, <2>1, <2>3, <3>2
    <3>3. CASE j \notin DOMAIN redeemCodes /\ k \in DOMAIN redeemCodes
      BY <1>1, <1>3, <1>6, <1>7, <2>1, <2>3, <3>3
    <3>4. CASE j \notin DOMAIN redeemCodes /\ k \notin DOMAIN redeemCodes
      BY <1>1, <1>3, <1>7, <2>3, <3>4, SMTT(30)
    <3> QED
      BY <3>1, <3>2, <3>3, <3>4
  <2>4. \A c \in Codes : c > created' => credits'[c] = 0
    BY <1>1 DEF RedeemInv, EachOnce, Codes
  <2> QED
    BY <2>2, <2>3, <2>4 DEF EachOnce
<1>11. ASSUME ~displaced PROVE Remembered' /\ Settled'
  <2>1. Remembered /\ Settled
    BY <1>11 DEF RedeemInv
  <2>2. \A q \in Attempts : UnderWay(q) => Remembers(q)'
    BY <1>1, <1>6, <2>1 DEF Remembered, Remembers
  <2>3. Remembered'
    BY <1>1, <1>8, <2>1, <2>2 DEF Remembered
  <2>4. ASSUME NEW k \in DOMAIN redeemCodes'
        PROVE  Used(k)' <=> \/ credits[redeemCodes'[k].code] = 1
                            \/ \E q \in Attempts : UnderWay(q) /\ attempts[q].idx = k
    <3>1. CASE k \in DOMAIN redeemCodes
      BY <1>6, <2>1, <3>1 DEF Settled, Used
    <3>2. CASE k \notin DOMAIN redeemCodes
      <4>1. redeemCodes'[k].code \in Codes /\ redeemCodes'[k].code > created
        BY <1>1, <1>3, <1>7, <3>2 DEF Codes
      <4>2. credits[redeemCodes'[k].code] = 0
        BY <4>1 DEF RedeemInv, EachOnce
      <4>3. \A q \in Attempts : UnderWay(q) => attempts[q].idx # k
        BY <2>1, <3>2 DEF Remembered, Remembers
      <4>4. ~Used(k)'
        BY <1>7, <3>2 DEF Used
      <4> QED
        BY <4>2, <4>3, <4>4
    <3> QED
      BY <3>1, <3>2
  <2> QED
    BY <1>1, <1>8, <2>1, <2>3, <2>4 DEF Settled
<1> QED
  BY <1>1, <1>9, <1>10, <1>11 DEF RedeemInv

\* A deletion behind every remembered position moves none of them.
LEMMA DropKeeps ==
    ASSUME RedeemInv, NEW k \in DOMAIN redeemCodes, DropCode(k)
    PROVE  RedeemInv'
<1> DEFINE l == Len(redeemCodes)
           Old(j) == IF j < k THEN j ELSE j + 1
<1>1. /\ redeemCodes' = SubSeq(redeemCodes, 1, k - 1) \o SubSeq(redeemCodes, k + 1, l)
      /\ displaced' = (displaced \/ \E r \in Attempts : UnderWay(r) /\ k <= attempts[r].idx)
      /\ UNCHANGED <<created, attempts, credits>>
  BY DEF DropCode
<1>2. l \in Nat /\ DOMAIN redeemCodes = 1 .. l /\ redeemCodes \in Seq(CodeRecords) /\ k \in 1 .. l
  BY LenProperties DEF RedeemInv, RedeemTypes
<1>3. /\ redeemCodes' \in Seq(CodeRecords) /\ DOMAIN redeemCodes' = 1 .. (l - 1)
      /\ \A j \in 1 .. (l - 1) :
            redeemCodes'[j] = IF j < k THEN redeemCodes[j] ELSE redeemCodes[j + 1]
  BY <1>1, <1>2, TakenOut
<1>4. \A j \in DOMAIN redeemCodes' : Old(j) \in DOMAIN redeemCodes /\ redeemCodes'[j] = redeemCodes[Old(j)]
  BY <1>2, <1>3
<1>5. \A i, j \in DOMAIN redeemCodes' : Old(i) = Old(j) => i = j
  BY <1>2, <1>3
<1>6. \A q \in Attempts : UnderWay(q)' = UnderWay(q)
  BY <1>1 DEF UnderWay
<1>7. RedeemTypes'
  BY <1>1, <1>3, <1>6 DEF RedeemInv, RedeemTypes
<1>8. EachOnce'
  <2>1. \A j \in DOMAIN redeemCodes' : redeemCodes'[j].code <= created
    BY <1>4 DEF RedeemInv, EachOnce
  <2>2. \A i, j \in DOMAIN redeemCodes' : redeemCodes'[i].code = redeemCodes'[j].code => i = j
    BY <1>4, <1>5 DEF RedeemInv, EachOnce
  <2> QED
    BY <1>1, <2>1, <2>2 DEF RedeemInv, EachOnce
<1>9. ASSUME ~displaced' PROVE Remembered' /\ Settled'
  <2>1. Remembered /\ Settled
    BY <1>1, <1>9 DEF RedeemInv
  <2>2. ASSUME NEW q \in Attempts, UnderWay(q)
        PROVE  /\ attempts[q].idx \in DOMAIN redeemCodes' /\ attempts[q].idx < k
               /\ redeemCodes'[attempts[q].idx] = redeemCodes[attempts[q].idx]
    <3>1. attempts[q].idx \in 1 .. l /\ ~(k <= attempts[q].idx)
      BY <1>1, <1>2, <1>9, <2>1, <2>2 DEF Remembered, Remembers
    <3>2. attempts[q].idx \in 1 .. (l - 1) /\ attempts[q].idx < k
      BY <1>2, <3>1
    <3> QED
      BY <1>3, <3>2
  <2>3. \A q \in Attempts : UnderWay(q) => Remembers(q)'
    BY <1>1, <2>1, <2>2 DEF Remembered, Remembers
  <2>4. Remembered'
    BY <1>1, <1>6, <2>1, <2>3 DEF Remembered
  <2>5. ASSUME NEW j \in DOMAIN redeemCodes'
        PROVE  Used(j)' <=> \/ credits[redeemCodes'[j].code] = 1
                            \/ \E q \in Attempts : UnderWay(q) /\ attempts[q].idx = j
    <3>1. Used(j)' <=> Used(Old(j))
      BY <1>4 DEF Used
    <3>2. ASSUME NEW q \in Attempts, UnderWay(q)
          PROVE  attempts[q].idx = Old(j) <=> attempts[q].idx = j
      <4>1. attempts[q].idx \in 1 .. (l - 1) /\ attempts[q].idx < k
        BY <1>3, <2>2, <3>2
      <4> QED
        BY <1>2, <1>3, <4>1
    <3>3. Used(Old(j)) <=> \/ credits[redeemCodes[Old(j)].code] = 1
                           \/ \E q \in Attempts : UnderWay(q) /\ attempts[q].idx = Old(j)
      BY <1>4, <2>1 DEF Settled
    <3> HIDE DEF Old
    <3> QED
      BY <1>4, <3>1, <3>2, <3>3
  <2> QED
    BY <1>1, <1>6, <2>1, <2>4, <2>5 DEF Settled
<1> QED
  BY <1>7, <1>8, <1>9 DEF RedeemInv

\* A restart leaves neither codes nor requests.
LEMMA RestartKeeps ==
    ASSUME RedeemInv, RestartStore
    PROVE  RedeemInv'
<1>1. /\ redeemCodes' = << >> /\ UNCHANGED <<created, credits, displaced>>
      /\ attempts' \in [Attempts -> AttemptRecords]
  BY DEF RestartStore, RedeemInv, RedeemTypes, AttemptRecords
<1>2. \A q \in Attempts : ~UnderWay(q)'
  BY DEF RestartStore, UnderWay, RedeemInv, RedeemTypes, AttemptRecords
<1>3. redeemCodes' \in Seq(CodeRecords) /\ DOMAIN redeemCodes' = {}
  BY <1>1, EmptySeq
<1>4. RedeemTypes' /\ EachOnce'
  BY <1>1, <1>2, <1>3 DEF RedeemInv, RedeemTypes, EachOnce
<1>5. Remembered'
  BY <1>2 DEF Remembered
<1>6. ~displaced' => Settled'
  BY <1>1, <1>3 DEF Settled, RedeemInv
<1> QED
  BY <1>4, <1>5, <1>6 DEF RedeemInv

\* Every step of the program keeps the invariant.
LEMMA RedeemInvStep == RedeemInv /\ [RedeemNext]_redeemVars => RedeemInv'
<1> SUFFICES ASSUME RedeemInv, [RedeemNext]_redeemVars PROVE RedeemInv'
  OBVIOUS
<1>1. CASE UNCHANGED redeemVars
  BY <1>1 DEF redeemVars, RedeemInv, RedeemTypes, EachOnce, Remembered, Remembers, Settled, Used, UnderWay
<1>2. CASE RedeemNext
  BY <1>2, MarkKeeps, CreditKeeps, RefusedKeeps, RollBackKeeps, CreateKeeps, DropKeeps, RestartKeeps
     DEF RedeemNext
<1> QED
  BY <1>1, <1>2

(***************************************************************************)
(* The theorem                                                             *)
(***************************************************************************)

\* The invariant says what the property asks.
LEMMA RedeemInvSuffices == RedeemInv => UndisturbedUse
<1> SUFFICES ASSUME RedeemInv, ~displaced PROVE UndisturbedUse
  BY DEF UndisturbedUse
<1>1. Remembered /\ Settled
  BY DEF RedeemInv
<1>2. \A r \in Attempts, k \in DOMAIN redeemCodes :
          UnderWay(r) => (attempts[r].idx = k <=> attempts[r].code = redeemCodes[k].code)
  BY <1>1 DEF Remembered, Remembers, RedeemInv, EachOnce
<1>3. ASSUME NEW k \in DOMAIN redeemCodes
      PROVE  LET c == redeemCodes[k].code IN (c \in UsedCodes) <=> (credits[c] = 1 \/ c \in CodesUnderWay)
  <2>1. redeemCodes[k].code \in UsedCodes <=> Used(k)
    BY DEF UsedCodes, RedeemInv, EachOnce
  <2>2. redeemCodes[k].code \in CodesUnderWay <=> \E r \in Attempts : UnderWay(r) /\ attempts[r].idx = k
    BY <1>2 DEF CodesUnderWay
  <2> QED
    BY <1>1, <2>1, <2>2 DEF Settled
<1>4. \A c \in ListedCodes : (c \in UsedCodes) <=> (credits[c] = 1 \/ c \in CodesUnderWay)
  BY <1>3 DEF ListedCodes
<1> QED
  BY <1>1, <1>4 DEF UndisturbedUse, Settled

\* As long as no deletion moves a code under a redemption, a listed code is marked
\* exactly when it was credited or is being redeemed, and none is credited twice:
\* UserRedeemHandler's unlock between the mark and the credit does no harm by itself.
THEOREM UndisturbedAlways == RedeemSpec => []UndisturbedUse
<1>1. RedeemSpec => []RedeemInv
  BY RedeemInvInit, RedeemInvStep, PTL DEF RedeemSpec
<1> QED
  BY <1>1, RedeemInvSuffices, PTL

(***************************************************************************)
(* Tickets: what one changed is shown, and the draft is kept               *)
(***************************************************************************)

TicketStatuses == StatusOptions \cup {"open", "answered"}
TicketRows == [status: TicketStatuses, assignee: {Unassigned, "self"}]
TicketJobs ==
    [phase: {"idle", "sent", "loaded", "saved"}, row: TicketRows \cup {NoRow},
     value: StatusOptions \cup {Unassigned, "box", "close"}]

\* The state of the detail query tells its answer, a status, from its stages.
TicketTypes ==
    /\ me \in Sides /\ ticket \in TicketRows
    /\ jobs \in [JobIds -> TicketJobs]
    /\ query \in TicketStatuses \cup {"idle", "asked", "failed"}
    /\ lacks \in [pane: BOOLEAN, answer: BOOLEAN]
    /\ draft \in BOOLEAN

\* A handler saves the row it has loaded, with a status there is.
JobInv(j) ==
    /\ jobs[j].phase = "loaded" => jobs[j].row \in TicketRows
    /\ j = "status" /\ jobs[j].phase \in {"sent", "loaded"} => jobs[j].value \in StatusOptions

\* The inductive invariant: neither the pane at rest nor an answer on its way
\* to it misses what its side was told is done.
TicketsInv ==
    /\ TicketTypes
    /\ \A j \in JobIds : JobInv(j)
    /\ OwnChangeShown
    /\ query \in TicketStatuses => ~lacks.answer

\* At first the pane holds nothing and misses nothing.
LEMMA TicketsInvInit == TicketsInit => TicketsInv
<1> SUFFICES ASSUME TicketsInit PROVE TicketsInv
  OBVIOUS
<1>1. NoTicketJob \in TicketJobs /\ NoTicketJob.phase = "idle"
  BY DEF NoTicketJob, TicketJobs, NoRow, Unassigned
<1>2. ticket \in TicketRows /\ lacks \in [pane: BOOLEAN, answer: BOOLEAN] /\ ~lacks.pane
  BY DEF TicketsInit, TicketRows, TicketStatuses, NoGap
<1>3. "idle" \notin TicketStatuses
  BY TicketsAssumption DEF TicketStatuses
<1> QED
  BY <1>1, <1>2, <1>3 DEF TicketsInit, TicketsInv, TicketTypes, JobInv, OwnChangeShown

\* A job that is moved on leaves the other jobs alone.
LEMMA JobMoved ==
    ASSUME TicketsInv, NEW j \in JobIds, NEW task \in TicketJobs, jobs' = [jobs EXCEPT ![j] = task],
           task.phase = "loaded" => task.row \in TicketRows,
           j = "status" /\ task.phase \in {"sent", "loaded"} => task.value \in StatusOptions
    PROVE  jobs' \in [JobIds -> TicketJobs] /\ \A k \in JobIds : JobInv(k)'
<1>1. jobs' \in [JobIds -> TicketJobs] /\ jobs'[j] = task /\ \A k \in JobIds \ {j} : jobs'[k] = jobs[k]
  BY DEF TicketsInv, TicketTypes
<1> QED
  BY <1>1 DEF TicketsInv, JobInv

\* Every request that is sent asks for what its handler can save.
LEMMA SubmitKeeps ==
    ASSUME TicketsInv, NEW j \in JobIds, NEW value \in StatusOptions \cup {Unassigned, "box", "close"},
           j = "status" => value \in StatusOptions, Submit(j, value)
    PROVE  TicketsInv'
<1> DEFINE task == [NoTicketJob EXCEPT !.phase = "sent", !.value = value]
<1>1. NoTicketJob \in TicketJobs
  BY DEF NoTicketJob, TicketJobs, NoRow, Unassigned
<1>2. task \in TicketJobs /\ task.phase = "sent" /\ task.value = value
  BY <1>1 DEF TicketJobs
<1>3. jobs' = [jobs EXCEPT ![j] = task]
  BY DEF Submit
<1> HIDE DEF task
<1>4. jobs' \in [JobIds -> TicketJobs] /\ \A k \in JobIds : JobInv(k)'
  BY <1>2, <1>3, JobMoved
<1> QED
  BY <1>4 DEF Submit, TicketsInv, TicketTypes, OwnChangeShown

\* What is written is a row.
LEMMA WrittenIsRow ==
    ASSUME TicketsInv, NEW j \in JobIds, jobs[j].phase = "loaded"
    PROVE  Written(j) \in TicketRows
<1>1. jobs[j] \in TicketJobs /\ jobs[j].row \in TicketRows /\ ticket \in TicketRows
  BY DEF TicketsInv, TicketTypes, JobInv
<1>2. CASE IsReply(j)
  <2>1. StatusAfterReply(j) \in TicketStatuses
    <3>1. jobs[j].row.status \in TicketStatuses
      BY <1>1 DEF TicketRows
    <3> QED
      BY <3>1 DEF StatusAfterReply, TicketStatuses
  <2> QED
    BY <1>1, <1>2, <2>1 DEF Written, IsReply, TicketRows
<1>3. CASE j = "status"
  <2>1. jobs[j].value \in TicketStatuses
    BY <1>3 DEF TicketsInv, JobInv, TicketStatuses
  <2> QED
    BY <1>1, <1>3, <2>1 DEF Written, IsReply, TicketRows
<1>4. CASE j = "assign"
  BY <1>1, <1>4 DEF Written, IsReply, TicketRows
<1> QED
  BY <1>2, <1>3, <1>4 DEF JobIds, IsReply

\* No request of either side, no handler and no answer breaks it.
LEMMA TicketsInvStep == TicketsInv /\ [TicketsNext]_ticketVars => TicketsInv'
<1> SUFFICES ASSUME TicketsInv, [TicketsNext]_ticketVars PROVE TicketsInv'
  OBVIOUS
<1> USE DEF OwnChangeShown
<1>s. TicketStatuses \cap {"idle", "asked", "failed"} = {}
  BY TicketsAssumption DEF TicketStatuses
<1>j. UNCHANGED jobs => \A j \in JobIds : JobInv(j)'
  BY DEF TicketsInv, JobInv
<1>n. NoTicketJob \in TicketJobs /\ NoTicketJob.phase = "idle"
  BY DEF NoTicketJob, TicketJobs, NoRow, Unassigned
<1>1. CASE OpenTicket \/ DetailFails \/ Type
  BY <1>1, <1>s, <1>j DEF OpenTicket, DetailFails, Type, TicketsInv, TicketTypes
<1>2. CASE DetailRead
  <2>1. query' \in TicketStatuses
    BY <1>2 DEF DetailRead, TicketsInv, TicketTypes, TicketRows
  <2>2. lacks' \in [pane: BOOLEAN, answer: BOOLEAN] /\ ~lacks'.answer
    BY <1>2 DEF DetailRead, TicketsInv, TicketTypes
  <2> QED
    BY <1>2, <1>s, <1>j, <2>1, <2>2 DEF DetailRead, TicketsInv, TicketTypes
<1>3. CASE DetailArrives
  <2>1. ~lacks.answer
    BY <1>3 DEF DetailArrives, TicketsInv, TicketTypes
  <2>2. lacks' \in [pane: BOOLEAN, answer: BOOLEAN] /\ ~lacks'.pane
    BY <1>3, <2>1 DEF DetailArrives, TicketsInv, TicketTypes
  <2> QED
    BY <1>3, <1>s, <1>j, <2>2 DEF DetailArrives, TicketsInv, TicketTypes
<1>4. ASSUME NEW j \in JobIds, SubmitReply(j)
      PROVE  TicketsInv'
  BY <1>4, SubmitKeeps DEF SubmitReply, IsReply
<1>5. CASE SubmitQuickReply \/ HandleClose \/ AssignTicket
  BY <1>5, SubmitKeeps DEF SubmitQuickReply, HandleClose, AssignTicket, JobIds
<1>6. ASSUME NEW status \in StatusOptions, HandleStatusChange(status)
      PROVE  TicketsInv'
  BY <1>6, SubmitKeeps DEF HandleStatusChange, JobIds
<1>7. ASSUME NEW j \in JobIds, LoadTicket(j)
      PROVE  TicketsInv'
  <2> DEFINE task == [jobs[j] EXCEPT !.phase = "loaded", !.row = ticket]
  <2>1. jobs[j] \in TicketJobs /\ ticket \in TicketRows
    BY DEF TicketsInv, TicketTypes
  <2>2. task \in TicketJobs /\ task.row = ticket /\ task.value = jobs[j].value
    BY <2>1 DEF TicketJobs
  <2>3. jobs' = [jobs EXCEPT ![j] = task] /\ jobs[j].phase = "sent"
    BY <1>7 DEF LoadTicket
  <2> HIDE DEF task
  <2>4. jobs' \in [JobIds -> TicketJobs] /\ \A k \in JobIds : JobInv(k)'
    BY <2>1, <2>2, <2>3, JobMoved DEF TicketsInv, JobInv
  <2> QED
    BY <1>7, <2>4 DEF LoadTicket, TicketsInv, TicketTypes
<1>8. ASSUME NEW j \in JobIds, SaveTicket(j)
      PROVE  TicketsInv'
  <2> DEFINE task == [jobs[j] EXCEPT !.phase = "saved", !.row = NoRow]
  <2>1. jobs[j] \in TicketJobs
    BY DEF TicketsInv, TicketTypes
  <2>2. task \in TicketJobs /\ task.phase = "saved"
    BY <2>1 DEF TicketJobs
  <2>3. jobs' = [jobs EXCEPT ![j] = task] /\ ticket' \in TicketRows
    BY <1>8, WrittenIsRow DEF SaveTicket
  <2> HIDE DEF task
  <2>4. jobs' \in [JobIds -> TicketJobs] /\ \A k \in JobIds : JobInv(k)'
    BY <2>2, <2>3, JobMoved
  <2> QED
    BY <1>8, <2>3, <2>4 DEF SaveTicket, TicketsInv, TicketTypes
<1>9. ASSUME NEW j \in JobIds, JobAccepted(j) \/ JobRefused(j)
      PROVE  TicketsInv'
  <2>1. jobs' \in [JobIds -> TicketJobs] /\ \A k \in JobIds : JobInv(k)'
    BY <1>9, <1>n, JobMoved DEF JobAccepted, JobRefused
  <2>2. CASE JobAccepted(j) /\ SideOf(j) = me
    BY <2>1, <2>2, <1>s DEF JobAccepted, Refetched, TicketsInv, TicketTypes
  <2>3. CASE JobAccepted(j) /\ SideOf(j) # me
    BY <2>1, <2>3 DEF JobAccepted, Refetched, TicketsInv, TicketTypes
  <2>4. CASE JobRefused(j)
    BY <2>1, <2>4 DEF JobRefused, TicketsInv, TicketTypes
  <2> QED
    BY <1>9, <2>2, <2>3, <2>4
<1>10. CASE UNCHANGED ticketVars
  BY <1>10, <1>j DEF ticketVars, TicketsInv, TicketTypes
<1> QED
  BY <1>1, <1>2, <1>3, <1>4, <1>5, <1>6, <1>7, <1>8, <1>9, <1>10 DEF TicketsNext

\* Whichever answers cross, a pane at rest shows what its side was told is
\* done, for any statuses and any number of requests.
THEOREM OwnChangeAlwaysShown == TicketsSpec => []OwnChangeShown
<1>1. TicketsInv => OwnChangeShown
  BY DEF TicketsInv
<1> QED
  BY <1>1, TicketsInvInit, TicketsInvStep, PTL DEF TicketsSpec

\* Only the answer that accepts a reply of its side empties a box.
LEMMA DraftStep ==
    TicketsInv /\ [TicketsNext]_ticketVars =>
        (draft /\ ~draft' => \E j \in JobIds : SideOf(j) = me /\ jobs[j].phase = "saved" /\ jobs'[j] = NoTicketJob)
<1> SUFFICES ASSUME TicketsInv, [TicketsNext]_ticketVars, draft, ~draft'
             PROVE  \E j \in JobIds : SideOf(j) = me /\ jobs[j].phase = "saved" /\ jobs'[j] = NoTicketJob
  OBVIOUS
<1>1. PICK j \in JobIds : JobAccepted(j)
  BY DEF TicketsNext, ticketVars, OpenTicket, DetailRead, DetailArrives, DetailFails, Type, SubmitReply,
     SubmitQuickReply, HandleClose, AssignTicket, HandleStatusChange, Submit, LoadTicket, SaveTicket, JobRefused
<1> QED
  BY <1>1 DEF JobAccepted, Clears, TicketsInv, TicketTypes

\* A request that fails leaves the text in the box.
THEOREM DraftAlwaysKept == TicketsSpec => DraftKept
<1>1. TicketsInv /\ [TicketsNext]_ticketVars =>
          [draft /\ ~draft' =>
              \E j \in JobIds : SideOf(j) = me /\ jobs[j].phase = "saved" /\ jobs'[j] = NoTicketJob]_ticketVars
  BY DraftStep
<1> QED
  BY <1>1, TicketsInvInit, TicketsInvStep, PTL DEF TicketsSpec, DraftKept

(***************************************************************************)
(* API keys: the table shows what is stored                                *)
(***************************************************************************)

Bindings == KeyGroups \cup {Unbound}
KeyTerms == [group: Bindings, expires: {"never", "in days"}]
KeyCalls ==
    [kind: {"create", "delete", "rebind"}, key: KeyIds \cup {NoKey}, terms: KeyTerms, done: BOOLEAN]

\* A change the server has made and the page has not heard of.
Unheard == \E c \in calls : c.done

\* The inductive invariant: the table, and a list on its way to it, show the
\* keys there are, unless a change is unheard, the list is being asked for, or
\* an answer was lost.
KeysInv ==
    /\ calls \subseteq KeyCalls
    /\ form.group \in Bindings
    /\ DOMAIN listed \subseteq KeyIds /\ DOMAIN stored \subseteq KeyIds
    /\ listing = Listing(listing.phase, listing.keys) /\ DOMAIN listing.keys \subseteq KeyIds
    /\ form = [open |-> form.open, group |-> form.group, expiration |-> form.expiration]
    /\ ~Unheard /\ ~unsure /\ listing.phase = "idle" => listed = stored
    /\ ~Unheard /\ ~unsure /\ listing.phase = "answered" => listing.keys = stored

\* At first there is no key, and the list is asked for.
LEMMA KeysInvInit == KeysInit => KeysInv
  BY DEF KeysInit, KeysInv, NoKeys, ListAsked, Listing, ResetForm, Bindings, Unheard

\* What the list and the dialog do leaves the changes alone.
LEMMA CallSent ==
    ASSUME KeysInv, NEW c \in KeyCalls, ~c.done, calls' = calls \cup {c},
           UNCHANGED <<stored, listed, listing, form, unsure>>
    PROVE  KeysInv'
  BY DEF KeysInv, Unheard, Listing

\* Every change of a key the server makes is unheard of at first.
LEMMA WrittenUnheard ==
    ASSUME KeysInv, NEW c \in calls, KeyWritten(c)
    PROVE  KeysInv'
<1>1. c \in KeyCalls /\ ~c.done
  BY DEF KeysInv, KeyWritten
<1>2. PICK k \in KeyIds \cup {NoKey} : calls' = (calls \ {c}) \cup {[c EXCEPT !.key = k, !.done = TRUE]}
  <2>1. CASE c.kind = "create"
    BY <2>1 DEF KeyWritten, CreateApiKey
  <2>2. CASE c.kind = "delete" \/ c.kind = "rebind"
    <3>1. calls' = (calls \ {c}) \cup {[c EXCEPT !.done = TRUE]}
      BY <2>2 DEF KeyWritten, DeleteApiKey, RebindApiKeyGroup
    <3>2. [c EXCEPT !.done = TRUE] = [c EXCEPT !.key = c.key, !.done = TRUE] /\ c.key \in KeyIds \cup {NoKey}
      BY <1>1 DEF KeyCalls
    <3> QED
      BY <3>1, <3>2
  <2> QED
    BY <1>1, <2>1, <2>2 DEF KeyCalls
<1>3. [c EXCEPT !.key = k, !.done = TRUE] \in KeyCalls /\ [c EXCEPT !.key = k, !.done = TRUE].done
  BY <1>1 DEF KeyCalls
<1>4. DOMAIN stored' \subseteq KeyIds
  <2>1. CASE c.kind = "create"
    <3>1. PICK m \in KeyIds : stored' = WithKey(stored, m, Terms(Unbound, "never"))
      BY <2>1 DEF KeyWritten, CreateApiKey
    <3>2. DOMAIN stored' = DOMAIN stored \cup {m}
      BY <3>1 DEF WithKey
    <3> QED
      BY <3>2 DEF KeysInv
  <2>2. CASE c.kind = "delete"
    BY <2>2 DEF KeyWritten, DeleteApiKey, KeysInv
  <2>3. CASE c.kind = "rebind"
    BY <2>3 DEF KeyWritten, RebindApiKeyGroup, KeysInv
  <2> QED
    BY <1>1, <2>1, <2>2, <2>3 DEF KeyCalls
<1>5. calls' \subseteq KeyCalls /\ Unheard'
  BY <1>2, <1>3 DEF KeysInv, Unheard
<1> QED
  BY <1>4, <1>5 DEF KeyWritten, KeysInv, Listing

\* No order of the changes, their answers and the lists breaks it.
LEMMA KeysInvStep == KeysInv /\ [KeysNext]_keyVars => KeysInv'
<1> SUFFICES ASSUME KeysInv, [KeysNext]_keyVars PROVE KeysInv'
  OBVIOUS
<1>u. UNCHANGED calls => Unheard' = Unheard
  BY DEF Unheard
<1>1. CASE KeysRead
  BY <1>1, <1>u DEF KeysRead, KeysInv, Listing, NoKeys
<1>2. CASE KeysArrive
  BY <1>2, <1>u DEF KeysArrive, KeysInv, Listing, NoKeys
<1>3. CASE KeysRefocused
  BY <1>3, <1>u DEF KeysRefocused, KeysInv, ListAsked, Listing, NoKeys
<1>4. ASSUME SetOpen \/ (\E g \in Bindings : SelectGroup(g)) \/ (\E e \in Expirations : SetExpiration(e))
      PROVE  KeysInv'
  <2>1. /\ form' = [open |-> form'.open, group |-> form'.group, expiration |-> form'.expiration]
        /\ form'.group \in Bindings
    BY <1>4 DEF SetOpen, SelectGroup, SetExpiration, KeysInv
  <2> QED
    BY <1>4, <1>u, <2>1 DEF SetOpen, SelectGroup, SetExpiration, KeysInv, Listing
<1>5. CASE SubmitKey
  <2>1. Call("create", NoKey, Terms(form.group, ExpiresInDays)) \in KeyCalls
    BY DEF Call, Terms, ExpiresInDays, KeyCalls, KeyTerms, KeysInv
  <2>2. ~Call("create", NoKey, Terms(form.group, ExpiresInDays)).done
    BY DEF Call
  <2> QED
    BY <1>5, <2>1, <2>2, CallSent DEF SubmitKey
<1>6. ASSUME NEW k \in KeyIds, DeleteKey(k)
      PROVE  KeysInv'
  <2>1. Call("delete", k, Terms(Unbound, "never")) \in KeyCalls
    BY DEF Call, Terms, KeyCalls, KeyTerms, Bindings
  <2>2. ~Call("delete", k, Terms(Unbound, "never")).done
    BY DEF Call
  <2> QED
    BY <1>6, <2>1, <2>2, CallSent DEF DeleteKey
<1>7. ASSUME NEW k \in KeyIds, NEW g \in Bindings, RebindGroup(k, g)
      PROVE  KeysInv'
  <2>1. Call("rebind", k, Terms(g, "never")) \in KeyCalls
    BY DEF Call, Terms, KeyCalls, KeyTerms
  <2>2. ~Call("rebind", k, Terms(g, "never")).done
    BY DEF Call
  <2> QED
    BY <1>7, <2>1, <2>2, CallSent DEF RebindGroup
<1>8. ASSUME NEW c \in calls, KeyWritten(c)
      PROVE  KeysInv'
  BY <1>8, WrittenUnheard
<1>9. ASSUME NEW c \in calls, KeySucceeded(c)
      PROVE  KeysInv'
  <2>1. /\ form' = [open |-> form'.open, group |-> form'.group, expiration |-> form'.expiration]
        /\ form'.group \in Bindings
    BY <1>9 DEF KeySucceeded, ResetForm, KeysInv, Bindings
  <2> QED
    BY <1>9, <2>1 DEF KeySucceeded, KeyAnswered, InvalidateKeys, ListAsked, KeysInv, Listing, NoKeys
<1>10. ASSUME NEW c \in calls, KeyFailed(c)
       PROVE  KeysInv'
  <2>1. calls' = calls \ {c} /\ (Unheard /\ ~Unheard' => c.done) /\ c \in KeyCalls
    BY <1>10 DEF KeyFailed, KeyAnswered, Unheard, KeysInv
  <2>2. ~Unheard' /\ ~unsure' => ~Unheard /\ ~unsure
    BY <1>10, <2>1 DEF KeyFailed
  <2> QED
    BY <1>10, <2>1, <2>2 DEF KeyFailed, KeysInv, Listing
<1>11. CASE UNCHANGED keyVars
  BY <1>11, <1>u DEF keyVars, KeysInv, Listing
<1> QED
  BY <1>1, <1>2, <1>3, <1>4, <1>5, <1>6, <1>7, <1>8, <1>9, <1>10, <1>11 DEF KeysNext, Bindings

\* For any keys and groups, and any number of changes under way: once all are
\* answered and the list was read, the table shows the keys there are.
THEOREM KeysShownAlwaysStored == KeysSpec => []KeysShownAreStored
<1>1. KeysInv => KeysShownAreStored
  BY DEF KeysInv, KeysShownAreStored, Unheard
<1> QED
  BY <1>1, KeysInvInit, KeysInvStep, PTL DEF KeysSpec

(***************************************************************************)
(* Lists in pages: the rows are those the controls ask for                 *)
(***************************************************************************)

CarefulQueries == Careful \ {"refunds"}
Controls == [number: Numbers, filter: {"all", "some"}]

\* What an entry may hold, or its request ask, that only its own page has.
EntryRight(k, v) == v = NoRows \/ v = Answer(k[1], At(k[2], k[3]))

Entries(v) == [of: {v}, fresh: BOOLEAN]

CacheRight ==
    /\ cache = [k \in Keys |-> cache[k]] /\ fetching = [k \in Keys |-> fetching[k]]
    /\ \A k \in Keys : cache[k] \in Entries(cache[k].of)
    /\ \A k \in Keys : k[1] \in CarefulQueries => EntryRight(k, cache[k].of) /\ EntryRight(k, fetching[k])

\* The controls lead to a page there is, filtered as this list can be.
ControlsRight ==
    open \in Careful => /\ controls \in Controls /\ controls.filter \in Filters(open)
                        /\ controls.number <= LastPage(controls.filter)

\* The refunds take their controls away while they load, so that there is one
\* request at most, and it is for them.
RefundsRight ==
    open = "refunds" => /\ requests \subseteq {Answer("refunds", controls)}
                        /\ requests = {} /\ ~failed => rows \in {NoRows, Answer("refunds", controls)}

\* The inductive invariant.
ListInv ==
    /\ CacheRight /\ ControlsRight /\ RefundsRight
    /\ open \in listPages \cup {"none"} /\ controls = At(controls.number, controls.filter)

\* What the careful lists are.
LEMMA CarefulLists ==
    /\ \A p \in CarefulQueries : p # "none" /\ Cached(p) /\ ListOf(p).loads # "handler"
    /\ \A p \in CarefulQueries : NumbersAfter(p, controls.number) = {1}
    /\ ~Cached("refunds") /\ ListOf("refunds").loads # "handler" /\ ListOf("refunds").busy = "hides controls"
    /\ Filters("refunds") = {"all"}
    /\ \A p : Filters(p) \subseteq {"all", "some"} /\ "all" \in Filters(p)
  BY ZenonT(30) DEF CarefulQueries, Careful, Cached, ListOf, List, Filters, NumbersAfter, TicketsList, AdminTicketsList,
         OrdersList, SubscriptionsList, RefundsList

\* No other page writes to a key of theirs.
LEMMA KeyTellsPage ==
    ASSUME NEW p, NEW at
    PROVE  /\ p \in CarefulQueries => KeyOf(p, at) = <<p, at.number, at.filter>>
           /\ KeyOf(p, at)[1] \in CarefulQueries => KeyOf(p, at) = <<p, at.number, at.filter>>
<1>1. CASE p = "users"
  BY <1>1 DEF KeyOf, CarefulQueries, Careful
<1>2. CASE p \in {"usage", "usageLogs"}
  BY <1>2 DEF KeyOf, CarefulQueries, Careful
<1>3. CASE p \notin {"users", "usage", "usageLogs"}
  BY <1>3 DEF KeyOf
<1> QED
  BY <1>1, <1>2, <1>3

\* The answer to a careful query belongs to the entry of its key.
LEMMA OwnAnswerRight ==
    ASSUME NEW p, NEW at, at = At(at.number, at.filter), KeyOf(p, at)[1] \in CarefulQueries
    PROVE  EntryRight(KeyOf(p, at), Answer(p, at))
<1>1. KeyOf(p, at) = <<p, at.number, at.filter>>
  BY KeyTellsPage
<1> QED
  BY <1>1 DEF EntryRight

\* A query of the page that is open has an entry.
LEMMA OpenHasEntry ==
    ASSUME open \in listPages, Cached(open), controls \in Controls
    PROVE  KeyOf(open, controls) \in Keys
<1>1. controls = At(controls.number, controls.filter) /\ controls.number \in Numbers
      /\ controls.filter \in {"all", "some"}
  BY DEF Controls, At
<1> QED
  BY <1>1 DEF Keys

\* A careful list that shows rows shows its own, for its controls.
LEMMA ShownIsOwn ==
    ASSUME ListInv, open \in CarefulQueries, Shown # NoRows
    PROVE  Shown = Answer(open, controls)
<1>1. open \in listPages /\ Cached(open) /\ controls \in Controls
  BY CarefulLists DEF ListInv, ControlsRight, CarefulQueries
<1>2. KeyOf(open, controls) \in Keys /\ KeyOf(open, controls) = <<open, controls.number, controls.filter>>
  BY <1>1, OpenHasEntry, KeyTellsPage
<1>3. controls = At(controls.number, controls.filter)
  BY <1>1 DEF Controls, At
<1> QED
  BY <1>1, <1>2, <1>3 DEF Shown, ListInv, CacheRight, EntryRight

\* There are two pages of everything, and one or two of the rest.
LEMMA LastPages == LastPage("all") = 2 /\ \A f : LastPage(f) \in {1, 2}
  BY DEF LastPage

\* An entry that goes stale keeps its rows.
LEMMA EntryOfStale ==
    ASSUME NEW v, NEW e \in Entries(v)
    PROVE  LET stale == [e EXCEPT !.fresh = FALSE] IN stale \in Entries(v) /\ stale.of = v
  BY DEF Entries

\* At first the cache is empty.
LEMMA ListInvInit == ListInit => ListInv
<1> SUFFICES ASSUME ListInit PROVE ListInv
  OBVIOUS
<1>1. \A k \in Keys : cache[k] = NoEntry /\ fetching[k] = NoRows
  BY DEF ListInit
<1>2. cache = [k \in Keys |-> cache[k]] /\ fetching = [k \in Keys |-> fetching[k]]
  BY DEF ListInit
<1>3. NoEntry \in Entries(NoRows) /\ NoEntry.of = NoRows
  BY DEF NoEntry, Entries
<1>4. CacheRight
  BY <1>1, <1>2, <1>3 DEF CacheRight, EntryRight
<1> QED
  BY <1>4 DEF ListInit, ListInv, ControlsRight, RefundsRight, Careful, At

\* What is observed, or fetched again, is asked for under its own key.
LEMMA FetchKeepsCache ==
    ASSUME CacheRight, NEW p, NEW at, at = At(at.number, at.filter), UNCHANGED listPages,
           fetching' \in {fetching, [fetching EXCEPT ![KeyOf(p, at)] = Answer(p, at)]},
           cache' \in {cache, [k \in Keys |-> [cache[k] EXCEPT !.fresh = FALSE]]}
    PROVE  CacheRight'
<1>1. Keys' = Keys
  BY DEF Keys
<1>2. fetching' = [k \in Keys |-> fetching'[k]]
      /\ \A k \in Keys : k[1] \in CarefulQueries => EntryRight(k, fetching'[k])
  BY OwnAnswerRight DEF CacheRight
<1>3. \A k \in Keys : LET stale == [cache[k] EXCEPT !.fresh = FALSE] IN
                        stale \in Entries(cache[k].of) /\ stale.of = cache[k].of
  BY EntryOfStale DEF CacheRight
<1>4. cache' = [k \in Keys |-> cache'[k]]
      /\ \A k \in Keys : cache'[k] \in Entries(cache'[k].of) /\ cache'[k].of = cache[k].of
  BY <1>3 DEF CacheRight
<1> QED
  BY <1>1, <1>2, <1>4 DEF CacheRight, EntryRight

\* The two ways to load keep the cache; the second asks for what it is given.
LEMMA LoadKeepsCache ==
    ASSUME CacheRight, NEW p, NEW at, at = At(at.number, at.filter), UNCHANGED listPages, Load(p, at)
    PROVE  /\ CacheRight'
           /\ ~Cached(p) => requests' = requests \cup {Answer(p, at)}
           /\ UNCHANGED <<rows, failed>>
<1>1. CASE Cached(p)
  <2>1. fetching' \in {fetching, [fetching EXCEPT ![KeyOf(p, at)] = Answer(p, at)]} /\ cache' = cache
    BY <1>1 DEF Load, Observe
  <2> QED
    BY <1>1, <2>1, FetchKeepsCache DEF Load
<1>2. CASE ~Cached(p)
  BY <1>2, FetchKeepsCache DEF Load, Ask
<1> QED
  BY <1>1, <1>2

\* No order of the controls, the answers and the pages breaks it.
LEMMA ListInvStep == ListInv /\ [ListNext]_listVars => ListInv'
<1> SUFFICES ASSUME ListInv, [ListNext]_listVars PROVE ListInv'
  OBVIOUS
<1>a. \A n, f : At(n, f) = At(At(n, f).number, At(n, f).filter) /\ At(n, f).number = n /\ At(n, f).filter = f
  BY DEF At
<1>b. \A n \in Numbers, f \in {"all", "some"} : At(n, f) \in Controls
  BY DEF At, Controls
<1>c. open \in Careful => controls = At(controls.number, controls.filter) /\ controls.number \in Numbers
                          /\ controls.filter \in {"all", "some"}
  BY DEF ListInv, ControlsRight, Controls, At
<1>k. listPages' = listPages => Keys' = Keys
  BY DEF Keys
<1>d. Careful = CarefulQueries \cup {"refunds"} /\ "refunds" \notin CarefulQueries
  BY DEF Careful, CarefulQueries
<1>1. ASSUME NEW p \in listPages, OpenList(p)
      PROVE  ListInv'
  <2>1. CacheRight'
    <3>1. CASE Cached(p)
      BY <1>1, <1>a, <3>1, FetchKeepsCache DEF OpenList, Observe, ListInv
    <3>2. CASE ~Cached(p)
      BY <1>1, <1>a, <3>2, FetchKeepsCache DEF OpenList, ListInv
    <3> QED
      BY <3>1, <3>2
  <2>2. At(1, "all") \in Controls /\ "all" \in Filters(p) /\ 1 <= LastPage("all")
    <3>1. At(1, "all") \in Controls
      BY <1>b DEF Numbers
    <3>2. "all" \in Filters(p)
      BY CarefulLists
    <3> QED
      BY <3>1, <3>2, LastPages
  <2>3. ControlsRight'
    BY <1>1, <1>a, <2>2 DEF OpenList, ControlsRight
  <2>4. RefundsRight'
    BY <1>1, CarefulLists DEF OpenList, RefundsRight
  <2> QED
    BY <1>1, <1>a, <2>1, <2>3, <2>4 DEF OpenList, ListInv
<1>2. ASSUME NEW k \in Keys, QueryAnswered(k) \/ EntryStale(k)
      PROVE  ListInv'
  <2>1. Keys' = Keys
    BY <1>2 DEF QueryAnswered, EntryStale, Keys
  <2>2. CASE QueryAnswered(k)
    <3> DEFINE e == [of |-> fetching[k], fresh |-> TRUE]
    <3>1. e \in Entries(fetching[k]) /\ e.of = fetching[k]
      BY DEF Entries
    <3>2. fetching' = [fetching EXCEPT ![k] = NoRows] /\ cache' \in {cache, [cache EXCEPT ![k] = e]}
      BY <2>2 DEF QueryAnswered
    <3> HIDE DEF e
    <3>3. CacheRight'
      BY <2>1, <3>1, <3>2 DEF ListInv, CacheRight, EntryRight
    <3> QED
      BY <2>2, <3>3 DEF QueryAnswered, ListInv, ControlsRight, RefundsRight
  <2>3. CASE EntryStale(k)
    <3> DEFINE e == [cache[k] EXCEPT !.fresh = FALSE]
    <3>1. e \in Entries(cache[k].of) /\ e.of = cache[k].of
      BY EntryOfStale DEF ListInv, CacheRight
    <3>2. cache' = [cache EXCEPT ![k] = e] /\ fetching' = fetching
      BY <2>3 DEF EntryStale
    <3> HIDE DEF e
    <3>3. CacheRight'
      BY <2>1, <3>1, <3>2 DEF ListInv, CacheRight, EntryRight
    <3> QED
      BY <2>3, <3>3 DEF EntryStale, ListInv, ControlsRight, RefundsRight
  <2> QED
    BY <1>2, <2>2, <2>3
<1>3. ASSUME NEW r \in requests, FetchAnswered(r)
      PROVE  ListInv'
  <2>1. open \notin CarefulQueries
    BY <1>3, CarefulLists DEF FetchAnswered
  <2>2. CacheRight'
    BY <1>3, <1>k DEF FetchAnswered, ListInv, CacheRight, EntryRight
  <2>3. open = "refunds" => UNCHANGED controls /\ requests' \subseteq requests
                            /\ ((rows' = r /\ ~failed') \/ failed' = TRUE)
    BY <1>3, CarefulLists DEF FetchAnswered
  <2>4. ControlsRight'
    BY <1>3, <1>d, <2>1, <2>3 DEF FetchAnswered, ListInv, ControlsRight
  <2>5. RefundsRight'
    BY <1>3, <2>3 DEF FetchAnswered, ListInv, RefundsRight
  <2> QED
    BY <1>3, <1>a, <2>2, <2>4, <2>5 DEF FetchAnswered, ListInv
<1>4. ASSUME NEW n \in Numbers, SetNumber(n)
      PROVE  ListInv'
  <2>1. /\ controls' = At(n, controls.filter) /\ Load(open, controls') /\ UNCHANGED <<listPages, open>>
        /\ n <= PagesShown /\ (Busy => ListOf(open).busy = "nothing")
    BY <1>4 DEF SetNumber
  <2>2. /\ CacheRight' /\ UNCHANGED <<rows, failed>>
        /\ ~Cached(open) => requests' = requests \cup {Answer(open, controls')}
    BY <1>a, <2>1, LoadKeepsCache DEF ListInv
  <2>3. open \in CarefulQueries => n <= LastPage(controls.filter)
    <3> SUFFICES ASSUME open \in CarefulQueries PROVE n <= LastPage(controls.filter)
      OBVIOUS
    <3>1. CASE Shown = NoRows
      BY <1>c, <1>d, <2>1, <3>1 DEF PagesShown, LastPage, Numbers
    <3>2. CASE Shown # NoRows
      <4>1. Shown = Answer(open, controls)
        BY <3>2, ShownIsOwn
      <4> QED
        BY <2>1, <3>2, <4>1 DEF PagesShown, Answer
    <3> QED
      BY <3>1, <3>2
  <2>4. open = "refunds" => controls.filter = "all" /\ n <= LastPage(controls.filter)
    <3> SUFFICES ASSUME open = "refunds" PROVE controls.filter = "all" /\ n <= LastPage(controls.filter)
      OBVIOUS
    <3>1. controls.filter = "all"
      BY CarefulLists, <1>d DEF ListInv, ControlsRight
    <3> QED
      BY <3>1, LastPages DEF Numbers
  <2>5. ControlsRight'
    BY <1>a, <1>b, <1>c, <1>d, <2>1, <2>3, <2>4 DEF ListInv, ControlsRight
  <2>6. RefundsRight'
    <3> SUFFICES ASSUME open = "refunds" PROVE requests' = {Answer("refunds", controls')}
      BY <2>1 DEF RefundsRight
    <3>1. ~Busy /\ ~Cached(open)
      BY <2>1, CarefulLists
    <3>2. requests = {}
      BY <3>1 DEF Busy, Loading
    <3> QED
      BY <2>2, <3>1, <3>2
  <2> QED
    BY <1>a, <2>1, <2>2, <2>5, <2>6 DEF ListInv
<1>5. ASSUME NEW filter \in {"all", "some"}, SetFilter(filter)
      PROVE  ListInv'
  <2>1. open # "refunds"
    BY <1>5, <1>d, CarefulLists DEF SetFilter, ListInv, ControlsRight
  <2>2. PICK n \in NumbersAfter(open, controls.number) : controls' = At(n, filter)
    BY <1>5 DEF SetFilter
  <2>3. CacheRight'
    <3> DEFINE at == IF ListOf(open).loads = "handler" THEN At(1, controls.filter) ELSE At(n, filter)
    <3>1. at = At(at.number, at.filter)
      BY <1>a
    <3>2. Load(open, at)
      BY <1>5, <2>2 DEF SetFilter
    <3> QED
      BY <1>5, <3>1, <3>2, LoadKeepsCache DEF SetFilter, ListInv
  <2>4. ControlsRight'
    <3> SUFFICES ASSUME open \in CarefulQueries
                 PROVE  controls' \in Controls /\ filter \in Filters(open) /\ controls'.number <= LastPage(filter)
                        /\ controls'.filter = filter
      BY <1>5, <1>d, <2>1 DEF SetFilter, ControlsRight
    <3>0. NumbersAfter(open, controls.number) = {1}
      BY CarefulLists
    <3>1. n = 1 /\ 1 \in Numbers
      BY <2>2, <3>0 DEF Numbers
    <3>2. controls' \in Controls /\ controls'.number = 1 /\ controls'.filter = filter
      BY <1>a, <1>b, <2>2, <3>1
    <3>3. filter \in Filters(open)
      BY <1>5 DEF SetFilter
    <3> QED
      BY <3>2, <3>3, LastPages
  <2> QED
    BY <1>5, <1>a, <2>1, <2>2, <2>3, <2>4 DEF SetFilter, ListInv, RefundsRight
<1>6. CASE RefreshList
  <2>1. CASE Cached(open)
    <3>1. /\ fetching' = [fetching EXCEPT ![KeyOf(open, controls)] = Answer(open, controls)]
          /\ cache' = [k \in Keys |-> [cache[k] EXCEPT !.fresh = FALSE]]
          /\ UNCHANGED <<listPages, open, rows, failed, controls, requests>>
      BY <1>6, <2>1 DEF RefreshList
    <3>2. CacheRight'
      BY <3>1, FetchKeepsCache DEF ListInv
    <3>3. open # "refunds"
      BY <2>1, CarefulLists
    <3> QED
      BY <3>1, <3>2, <3>3 DEF ListInv, ControlsRight, RefundsRight
  <2>2. CASE ~Cached(open)
    <3>1. /\ \E n \in IF open = "auditLogs" THEN {1, controls.number} ELSE {controls.number} :
               /\ controls' = At(n, controls.filter)
               /\ requests' = {Answer(open, controls), Answer(open, controls')}
          /\ UNCHANGED <<listPages, open, rows, failed, cache, fetching>>
      BY <1>6, <2>2 DEF RefreshList
    <3>2. open \notin CarefulQueries
      BY <2>2, CarefulLists
    <3>3. open = "refunds" => controls' = controls /\ requests' = {Answer("refunds", controls)}
      BY <1>c, <1>d, <3>1
    <3>4. CacheRight'
      BY <3>1, <1>k DEF ListInv, CacheRight, EntryRight
    <3>5. ControlsRight' /\ RefundsRight'
      BY <1>d, <3>1, <3>2, <3>3 DEF ListInv, ControlsRight, RefundsRight
    <3> QED
      BY <1>a, <3>1, <3>4, <3>5 DEF ListInv
  <2> QED
    BY <2>1, <2>2
<1>7. CASE UNCHANGED listVars
  <2>1. CacheRight'
    BY <1>7, <1>k DEF listVars, ListInv, CacheRight, EntryRight
  <2> QED
    BY <1>7, <2>1 DEF listVars, ListInv, ControlsRight, RefundsRight
<1> QED
  BY <1>1, <1>2, <1>3, <1>4, <1>5, <1>6, <1>7 DEF ListNext

\* For any pages one goes to and fro between: the rows of a careful list that
\* rests are those of its controls, on a page there is.
THEOREM RowsAlwaysMatchControls == ListSpec => []RowsMatchControls
<1>1. ListInv => RowsMatchControls
  <2> SUFFICES ASSUME ListInv PROVE RowsMatchControls
    OBVIOUS
  <2>1. ASSUME NEW p \in CarefulQueries
        PROVE  RowsMatch(p)
    BY <2>1, ShownIsOwn DEF RowsMatch
  <2>2. RowsMatch("refunds")
    BY CarefulLists DEF RowsMatch, ListInv, RefundsRight, Loading, Shown
  <2>3. NeverStranded
    BY DEF ListInv, ControlsRight, NeverStranded
  <2> QED
    BY <2>1, <2>2, <2>3 DEF RowsMatchControls, CarefulQueries
<1> QED
  BY <1>1, ListInvInit, ListInvStep, PTL DEF ListSpec

==============================================================================
