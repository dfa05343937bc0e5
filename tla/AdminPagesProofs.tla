--------------------------- MODULE AdminPagesProofs ---------------------------
(***************************************************************************)
(* The pages of the administrators: provider credentials, users,           *)
(* subscriptions, auth files, the three pages that create, save and delete *)
(* items, and the Ampcode settings.                                        *)
(***************************************************************************)
EXTENDS ProviderConfig, AdminUsers, AdminSubscriptions, AuthFiles, AuthFileImport, CrudPages,
        Ampcode, FiniteSetTheorems, SequenceTheorems, TLAPS

(***************************************************************************)
(* Provider credentials: keys stay real, a fresh save is local             *)
(***************************************************************************)

(***************************************************************************)
(* The loop over the rows                                                  *)
(***************************************************************************)

\* A function on an initial segment is a sequence.
LEMMA SegmentIsSeq ==
    ASSUME NEW n \in Nat, NEW S, NEW f \in [1..n -> S]
    PROVE  f \in Seq(S) /\ Len(f) = n
  OBVIOUS

\* A set of natural numbers that is not empty has a least element.
LEMMA LeastOfNat ==
    ASSUME NEW T \in SUBSET Nat, T # {}
    PROVE  \E m \in T : \A n \in T : m <= n
<1> DEFINE U == {0..n : n \in T}
           R == StrictSubsetOrdering(Nat)
<1>1. \A n \in Nat : 0..n \in FiniteSubsetsOf(Nat)
  <2> TAKE n \in Nat
  <2>1. IsFiniteSet(0..n)
    BY FS_Interval
  <2> QED
    BY <2>1 DEF FiniteSubsetsOf
<1>2. U \subseteq FiniteSubsetsOf(Nat) /\ U # {}
  BY <1>1
<1>3. IsWellFoundedOn(R, FiniteSubsetsOf(Nat))
  BY FS_StrictSubsetOrderingWellFounded
<1>4. PICK x \in U : \A y \in U : ~ (<<y, x>> \in R)
  <2> HIDE DEF U, R
  <2> QED
    BY <1>2, <1>3, WFMin
<1>5. PICK m \in T : x = 0..m
  BY <1>4
<1>6. \A n \in T : m <= n
  <2> SUFFICES ASSUME NEW n \in T, n < m PROVE FALSE
    OBVIOUS
  <2>1. 0..n \subseteq 0..m /\ 0..n # 0..m
    <3>1. m \in 0..m /\ m \notin 0..n
      OBVIOUS
    <3> QED
      BY <3>1
  <2>2. <<0..n, 0..m>> \in R
    BY <2>1 DEF StrictSubsetOrdering
  <2>3. 0..n \in U
    OBVIOUS
  <2> QED
    BY <1>4, <1>5, <2>2, <2>3
<1> QED
  BY <1>6

\* The loop up to its row m, as a function from the rows to the lists.
LoopTo(list, put, m, f) ==
    f = [n \in 0..m |-> IF n = 0 THEN list ELSE PutRow(f[n-1], put, n)]

\* The loop can be run to every row.
LEMMA LoopRuns ==
    ASSUME NEW list, NEW put, NEW N \in Nat
    PROVE  \E f : LoopTo(list, put, N, f)
<1> DEFINE T == {m \in Nat : ~ \E f : LoopTo(list, put, m, f)}
<1>1. ASSUME T # {} PROVE FALSE
  <2>1. PICK m \in T : \A n \in T : m <= n
    <3>1. T \in SUBSET Nat
      OBVIOUS
    <3> HIDE DEF T
    <3> QED
      BY <1>1, <3>1, LeastOfNat
  <2>2. CASE m = 0
    <3> DEFINE g == [n \in 0..0 |-> list]
    <3>1. g = [n \in 0..0 |-> IF n = 0 THEN list ELSE PutRow(g[n-1], put, n)]
      OBVIOUS
    <3> QED
      BY <2>1, <2>2, <3>1 DEF LoopTo
  <2>3. CASE m # 0
    <3>1. m - 1 \in Nat /\ m - 1 \notin T
      BY <2>1, <2>3
    <3>2. PICK f : LoopTo(list, put, m - 1, f)
      BY <3>1
    <3>3. f = [n \in 0..(m-1) |-> IF n = 0 THEN list ELSE PutRow(f[n-1], put, n)]
      BY <3>2 DEF LoopTo
    <3> DEFINE g == [n \in 0..m |-> IF n = m THEN PutRow(f[m-1], put, m) ELSE f[n]]
    <3>4. ASSUME NEW n \in 0..m
          PROVE  g[n] = IF n = 0 THEN list ELSE PutRow(g[n-1], put, n)
      <4>1. CASE n = 0
        BY <2>3, <3>1, <3>3, <4>1
      <4>2. CASE n = m
        <5>1. g[n-1] = f[m-1]
          BY <2>3, <3>1, <4>2
        <5> QED
          BY <2>3, <4>2, <5>1
      <4>3. CASE n # 0 /\ n # m
        <5>1. n \in 0..(m-1) /\ n - 1 \in 0..m /\ n - 1 # m
          BY <2>1, <4>3
        <5>2. g[n] = f[n] /\ g[n-1] = f[n-1]
          BY <4>3, <5>1
        <5>3. f[n] = PutRow(f[n-1], put, n)
          BY <3>3, <4>3, <5>1
        <5> QED
          BY <4>3, <5>2, <5>3
      <4> QED
        BY <4>1, <4>2, <4>3
    <3>5. LoopTo(list, put, m, g)
      BY <3>4 DEF LoopTo
    <3> QED
      BY <2>1, <3>5
  <2> QED
    BY <2>2, <2>3
<1> QED
  BY <1>1

\* What every row keeps, the loop keeps: when G[n] holds of the list after n
\* rows, if G[n-1] held before, the list that the loop leaves is in the last G.
LEMMA LoopKeeps ==
    ASSUME NEW list, NEW put, Len(put) \in Nat, NEW G,
           list \in G[0],
           \A n \in 1..Len(put) : \A l \in G[n-1] : PutRow(l, put, n) \in G[n]
    PROVE  PutRows(list, put) \in G[Len(put)]
<1> DEFINE sofar == CHOOSE f : LoopTo(list, put, Len(put), f)
<1>1. PutRows(list, put) = sofar[Len(put)]
  BY DEF PutRows, LoopTo
<1>2. LoopTo(list, put, Len(put), sofar)
  BY LoopRuns
<1> HIDE DEF sofar
<1>3. /\ sofar[0] = list
      /\ \A n \in 1..Len(put) : sofar[n] = PutRow(sofar[n-1], put, n)
  BY <1>2 DEF LoopTo
<1> DEFINE T == {n \in 0..Len(put) : sofar[n] \notin G[n]}
<1>4. ASSUME T # {} PROVE FALSE
  <2>1. PICK m \in T : \A n \in T : m <= n
    <3>1. T \in SUBSET Nat
      OBVIOUS
    <3> HIDE DEF T
    <3> QED
      BY <1>4, <3>1, LeastOfNat
  <2>2. m \in 0..Len(put) /\ m # 0
    BY <1>3
  <2>3. m - 1 \in 0..Len(put) /\ m - 1 \notin T /\ m \in 1..Len(put)
    BY <2>1, <2>2
  <2>4. sofar[m-1] \in G[m-1]
    BY <2>3
  <2>5. sofar[m] \in G[m]
    BY <1>3, <2>3, <2>4
  <2> QED
    BY <2>5
<1>5. Len(put) \in 0..Len(put)
  OBVIOUS
<1> QED
  BY <1>1, <1>4, <1>5

(***************************************************************************)
(* The shapes                                                              *)
(***************************************************************************)

AuthKeys == {"its own", "typed"}
SettingsSeen == Settings \union {"initial"}

\* A credential, and what a row holds.
Auths == [id : AuthIds, label : Int, key : AuthKeys, setting : SettingsSeen]
RowShapes == [id : AuthIds \union {0}, label : Int, key : AuthKeys \union {Masked},
              setting : SettingsSeen]
RowLists == [list : Seq(RowShapes), version : Nat]

ChangePhases == {"idle", "reading", "putting", "succeeded", "failed"}
ChangeShapes == [phase : ChangePhases, index : Nat, row : RowShapes, version : Nat,
                 list : Seq(RowShapes)]

\* In particular no credential's key is masked.
ProvidersTyped ==
    /\ auths \in Seq(Auths)
    /\ version \in Nat
    /\ items \in RowLists
    /\ changes \in [ChangeKinds -> ChangeShapes]
    /\ providerReads \subseteq RowLists
    /\ \A kind \in ChangeKinds \ {"add"} :
          changes[kind].phase = "reading" => changes[kind].index # 0

\* No two credentials have the same identifier.
IdsDiffer == \A i, j \in 1..Len(auths) : auths[i].id = auths[j].id => i = j

\* A row that is put changes one credential at most, and neither its identifier
\* nor whether its key is real.
LEMMA PutOne ==
    ASSUME NEW row \in RowShapes, NEW a \in Auths
    PROVE  /\ AuthFromPayload(row, a) \in Auths
           /\ AuthFromPayload(row, a).id = a.id
           /\ AuthFromPayload(row, a).setting = row.setting
           /\ row.key = Masked => AuthFromPayload(row, a).key = a.key
<1> DEFINE b == [a EXCEPT !.setting = row.setting]
           d == [b EXCEPT !.label = IF row.label # Unlabelled THEN row.label ELSE b.label]
<1>1. b \in Auths /\ b.id = a.id /\ b.setting = row.setting /\ b.key = a.key
  BY DEF Auths, RowShapes
<1>2. AuthFromPayload(row, a)
        = [d EXCEPT !.key = IF row.key = Masked THEN d.key ELSE row.key]
  BY DEF AuthFromPayload, Auths
<1> HIDE DEF b
<1>3. d \in Auths /\ d.id = b.id /\ d.setting = b.setting /\ d.key = b.key
  BY <1>1 DEF Auths, RowShapes
<1> HIDE DEF d
<1>4. row.key \in AuthKeys \union {Masked} /\ row.setting \in SettingsSeen
  BY DEF RowShapes
<1> QED
  BY <1>1, <1>2, <1>3, <1>4 DEF Auths

\* A list after some rows: the same credentials, at the same places.
Like(list) ==
    {l \in Seq(Auths) : Len(l) = Len(list) /\ \A i \in 1..Len(list) : l[i].id = list[i].id}

\* A row that is put leaves the same credentials at the same places, and alters
\* the one it finds.
LEMMA PutRowLike ==
    ASSUME NEW list, Len(list) \in Nat, NEW put \in Seq(RowShapes), NEW n \in 1..Len(put),
           NEW l \in Like(list)
    PROVE  /\ PutRow(l, put, n) \in Like(list)
           /\ \A i \in 1..Len(list) : PutRow(l, put, n)[i] =
                 IF i = FindProviderAuth(l, put[n], n) THEN AuthFromPayload(put[n], l[i])
                 ELSE l[i]
<1> DEFINE at == FindProviderAuth(l, put[n], n)
<1> HIDE DEF at
<1>1. l \in Seq(Auths) /\ Len(l) = Len(list) /\ put[n] \in RowShapes
  BY DEF Like
<1>2. PutRow(l, put, n) = IF at = 0 THEN l ELSE [l EXCEPT ![at] = AuthFromPayload(put[n], l[at])]
  BY DEF PutRow, at
<1>3. \A i \in 1..Len(list) : l[i] \in Auths
  BY <1>1
<1>4. \A i \in 1..Len(list) :
        /\ AuthFromPayload(put[n], l[i]) \in Auths
        /\ AuthFromPayload(put[n], l[i]).id = l[i].id
  BY <1>1, <1>3, PutOne
<1>5. CASE at = 0
  BY <1>1, <1>2, <1>5 DEF at
<1>6. CASE at # 0
  <2> DEFINE m == [l EXCEPT ![at] = AuthFromPayload(put[n], l[at])]
  <2>1. DOMAIN l = 1..Len(list)
    BY <1>1
  <2>2. m = [i \in 1..Len(list) |-> IF i = at THEN AuthFromPayload(put[n], l[i]) ELSE l[i]]
    BY <2>1
  <2>3. m \in [1..Len(list) -> Auths]
    BY <1>3, <1>4, <2>2
  <2> HIDE DEF m
  <2>4. m \in Seq(Auths) /\ Len(m) = Len(list)
    BY <2>3, SegmentIsSeq
  <2>5. \A i \in 1..Len(list) :
           m[i] = IF i = at THEN AuthFromPayload(put[n], l[i]) ELSE l[i]
    BY <2>2
  <2>6. \A i \in 1..Len(list) : m[i].id = list[i].id
    BY <1>4, <2>5 DEF Like
  <2>7. PutRow(l, put, n) = m
    BY <1>2, <1>6 DEF m
  <2> QED
    BY <2>4, <2>5, <2>6, <2>7 DEF Like, at
<1> QED
  BY <1>5, <1>6

\* The whole list put back leaves the same credentials at the same places.
LEMMA PutRowsLike ==
    ASSUME NEW list \in Seq(Auths), NEW put \in Seq(RowShapes)
    PROVE  PutRows(list, put) \in Like(list)
<1> DEFINE G == [n \in 0..Len(put) |-> Like(list)]
<1>1. Len(put) \in Nat /\ Len(list) \in Nat
  OBVIOUS
<1>2. list \in G[0]
  BY DEF Like
<1>3. \A n \in 1..Len(put) : \A l \in G[n-1] : PutRow(l, put, n) \in G[n]
  BY <1>1, PutRowLike
<1>4. G[Len(put)] = Like(list)
  BY <1>1
<1> HIDE DEF G
<1>5. PutRows(list, put) \in G[Len(put)]
  BY <1>1, <1>2, <1>3, LoopKeeps
<1> QED
  BY <1>4, <1>5

(***************************************************************************)
(* What is read and what is built                                          *)
(***************************************************************************)

\* What the list handler shows of a credential.
LEMMA SerializedRow ==
    ASSUME NEW a \in Auths, NEW n \in Nat
    PROVE  /\ Serialized(a, n) \in RowShapes
           /\ Serialized(a, n).id = a.id
           /\ Serialized(a, n).setting = a.setting
           /\ Serialized(a, n).key = Masked
<1> DEFINE b == [a EXCEPT !.key = Masked]
<1>1. b \in RowShapes /\ b.id = a.id /\ b.setting = a.setting /\ b.key = Masked
  BY DEF Auths, RowShapes
<1>2. Serialized(a, n) = [b EXCEPT !.label = IF b.label = Unlabelled THEN -n ELSE b.label]
  BY DEF Serialized, Auths
<1> HIDE DEF b
<1>3. (IF b.label = Unlabelled THEN -n ELSE b.label) \in Int
  BY <1>1 DEF RowShapes
<1> QED
  BY <1>1, <1>2, <1>3 DEF RowShapes

\* The list that is read has a row for every credential, in their order.
LEMMA SerializedList ==
    ASSUME NEW list \in Seq(Auths)
    PROVE  /\ SerializedAuths(list) \in Seq(RowShapes)
           /\ Len(SerializedAuths(list)) = Len(list)
           /\ \A n \in 1..Len(list) : SerializedAuths(list)[n] = Serialized(list[n], n)
<1>1. Len(list) \in Nat /\ \A n \in 1..Len(list) : list[n] \in Auths /\ n \in Nat
  OBVIOUS
<1>2. \A n \in 1..Len(list) : Serialized(list[n], n) \in RowShapes
  BY <1>1, SerializedRow
<1>3. SerializedAuths(list) = [n \in 1..Len(list) |-> Serialized(list[n], n)]
  BY DEF SerializedAuths
<1>4. SerializedAuths(list) \in [1..Len(list) -> RowShapes]
  BY <1>2, <1>3
<1> QED
  BY <1>1, <1>3, <1>4, SegmentIsSeq

\* A list without one of its elements.
LEMMA Removed ==
    ASSUME NEW S, NEW s \in Seq(S), NEW i \in 1..Len(s)
    PROVE  /\ RemoveAt(s, i) \in Seq(S)
           /\ Len(RemoveAt(s, i)) = Len(s) - 1
           /\ \A n \in 1..Len(s) - 1 :
                 RemoveAt(s, i)[n] = IF n < i THEN s[n] ELSE s[n+1]
<1> DEFINE a == SubSeq(s, 1, i - 1)
           b == SubSeq(s, i + 1, Len(s))
<1>1. /\ a \in Seq(S) /\ Len(a) = i - 1
      /\ \A n \in 1..(i - 1) : a[n] = s[n]
  OBVIOUS
<1>2. /\ b \in Seq(S) /\ Len(b) = Len(s) - i
      /\ \A n \in 1..(Len(s) - i) : b[n] = s[i + n]
  OBVIOUS
<1>3. RemoveAt(s, i) = a \o b
  BY DEF RemoveAt
<1> HIDE DEF a, b
<1>4. a \o b \in Seq(S) /\ Len(a \o b) = Len(s) - 1
  <2>1. a \o b \in Seq(S) /\ Len(a \o b) = Len(a) + Len(b)
    BY <1>1, <1>2, ConcatProperties
  <2>2. Len(s) \in Nat
    OBVIOUS
  <2> QED
    BY <1>1, <1>2, <2>1, <2>2
<1>5. ASSUME NEW n \in 1..Len(s) - 1
      PROVE  (a \o b)[n] = IF n < i THEN s[n] ELSE s[n+1]
  <2>1. CASE n < i
    <3>1. (a \o b)[n] = a[n]
      BY <1>1, <1>2, <2>1
    <3> QED
      BY <1>1, <2>1, <3>1
  <2>2. CASE ~(n < i)
    <3>1. (a \o b)[n] = b[n - (i - 1)]
      BY <1>1, <1>2, <2>2
    <3>2. n - (i - 1) \in 1..(Len(s) - i) /\ i + (n - (i - 1)) = n + 1
      BY <2>2
    <3> QED
      BY <1>2, <2>2, <3>1, <3>2
  <2> QED
    BY <2>1, <2>2
<1> QED
  BY <1>3, <1>4, <1>5

\* A list with one element altered.
LEMMA Altered ==
    ASSUME NEW S, NEW s \in Seq(S), NEW i \in 1..Len(s), NEW e \in S
    PROVE  /\ [s EXCEPT ![i] = e] \in Seq(S)
           /\ Len([s EXCEPT ![i] = e]) = Len(s)
           /\ \A n \in 1..Len(s) : [s EXCEPT ![i] = e][n] = IF n = i THEN e ELSE s[n]
  OBVIOUS

\* What a change builds is a list of rows.
LEMMA BuiltTyped ==
    ASSUME NEW kind \in ChangeKinds, NEW list \in Seq(RowShapes), NEW c \in ChangeShapes,
           c.index \in 1..Len(list) \/ kind \in {"add", "delete"},
           kind = "delete" => c.index # 0
    PROVE  Built(kind, list, c) \in Seq(RowShapes)
<1>1. c.row \in RowShapes /\ c.index \in Nat
  BY DEF ChangeShapes
<1>2. CASE kind = "add"
  <2> DEFINE same == {i \in 1..Len(list) :
                         ProviderKind = "openai" /\ list[i].label = c.row.label}
             i == CHOOSE i \in same : \A j \in same : i <= j
             e == [list[i] EXCEPT !.key = c.row.key, !.setting = c.row.setting]
  <2>1. CASE same = {}
    <3>1. Built(kind, list, c) = Append(list, c.row)
      BY <1>2, <2>1 DEF Built, BuildProviderAddArray
    <3> QED
      BY <1>1, <3>1
  <2>2. CASE same # {}
    <3>1. i \in same
      <4>1. same \in SUBSET Nat
        OBVIOUS
      <4> HIDE DEF same
      <4>2. \E m \in same : \A n \in same : m <= n
        BY <2>2, <4>1, LeastOfNat
      <4> QED
        BY <4>2
    <3>2. i \in 1..Len(list) /\ list[i] \in RowShapes
      BY <3>1
    <3>3. Built(kind, list, c) = [list EXCEPT ![i] = e]
      BY <1>2, <2>2, <3>2 DEF Built, BuildProviderAddArray
    <3> HIDE DEF i
    <3>4. e \in RowShapes
      BY <1>1, <3>2 DEF RowShapes
    <3> HIDE DEF e
    <3> QED
      BY <3>2, <3>3, <3>4, Altered
  <2> QED
    BY <2>1, <2>2
<1>3. CASE kind = "edit"
  <2> DEFINE e == [c.row EXCEPT !.key = IF ProviderKind = "openai" THEN Masked ELSE c.row.key]
  <2>1. Built(kind, list, c) = [list EXCEPT ![c.index] = e]
    BY <1>1, <1>3 DEF Built, BuildProviderEditArray, RowShapes
  <2>2. e \in RowShapes
    BY <1>1 DEF RowShapes
  <2> HIDE DEF e
  <2> QED
    BY <1>3, <2>1, <2>2, Altered
<1>4. CASE kind = "models"
  <2> DEFINE e == [list[c.index] EXCEPT !.setting = c.row.setting]
  <2>1. list[c.index] \in RowShapes /\ c.index \in 1..Len(list)
    BY <1>4
  <2>2. Built(kind, list, c) = [list EXCEPT ![c.index] = e]
    BY <1>4, <2>1 DEF Built, BuildProviderModelsArray
  <2>3. e \in RowShapes
    BY <1>1, <2>1 DEF RowShapes
  <2> HIDE DEF e
  <2> QED
    BY <2>1, <2>2, <2>3, Altered
<1>5. CASE kind = "delete"
  <2>1. CASE c.index > Len(list)
    BY <1>5, <2>1 DEF Built, BuildProviderDeleteArray
  <2>2. CASE ~(c.index > Len(list))
    <3>1. c.index \in 1..Len(list)
      BY <1>1, <1>5, <2>2
    <3>2. Built(kind, list, c) = RemoveAt(list, c.index)
      BY <1>5, <2>2 DEF Built, BuildProviderDeleteArray
    <3> QED
      BY <3>1, <3>2, Removed
  <2> QED
    BY <2>1, <2>2
<1> QED
  BY <1>2, <1>3, <1>4, <1>5 DEF ChangeKinds

(***************************************************************************)
(* The list that is put back                                               *)
(***************************************************************************)

\* Every row stands for a credential of the list, by its identifier, and asks
\* for what the credential has, but for the one at the place at.
RowsFit(list, at, setting, put) ==
    \A n \in 1..Len(put) : \E i \in 1..Len(list) :
      /\ put[n].id = list[i].id
      /\ IF i = at THEN put[n].setting = setting
         ELSE put[n].setting = list[i].setting /\ put[n].key = Masked

\* A row with the identifier of a credential finds it, wherever it stands.
LEMMA FoundById ==
    ASSUME NEW list \in Seq(Auths),
           \A i, j \in 1..Len(list) : list[i].id = list[j].id => i = j,
           NEW l \in Like(list), NEW row, NEW n, NEW j \in 1..Len(list),
           row.id = list[j].id
    PROVE  FindProviderAuth(l, row, n) = j
<1> DEFINE S == {i \in 1..Len(l) : row.id # 0 /\ l[i].id = row.id}
<1>1. list[j].id # 0
  <2>1. list[j] \in Auths
    OBVIOUS
  <2>2. list[j].id \in AuthIds
    BY <2>1 DEF Auths
  <2> QED
    BY <2>2, ProviderAssumption
<1>2. Len(l) = Len(list) /\ \A i \in 1..Len(list) : l[i].id = list[i].id
  BY DEF Like
<1>3. S = {j}
  BY <1>1, <1>2
<1>4. First(S) = j
  <2>1. S # {} /\ \A i \in S : i = j
    BY <1>3
  <2>2. j \in Nat
    OBVIOUS
  <2> HIDE DEF S
  <2> QED
    BY <1>3, <2>1, <2>2 DEF First
<1> QED
  BY <1>4 DEF FindProviderAuth

\* What a list that fits changes: the credential at the place at alone, which
\* gets the setting if there is a row for it.
LEMMA PutRowsLocal ==
    ASSUME NEW list \in Seq(Auths),
           \A i, j \in 1..Len(list) : list[i].id = list[j].id => i = j,
           NEW put \in Seq(RowShapes), NEW at, NEW setting,
           RowsFit(list, at, setting, put)
    PROVE  \A i \in 1..Len(list) :
             IF i = at
             THEN /\ PutRows(list, put)[i].setting \in {list[i].setting, setting}
                  /\ (\E n \in 1..Len(put) : put[n].id = list[i].id)
                       => PutRows(list, put)[i].setting = setting
             ELSE /\ PutRows(list, put)[i].setting = list[i].setting
                  /\ PutRows(list, put)[i].key = list[i].key
<1> DEFINE Right(m, l) ==
             \A i \in 1..Len(list) :
               IF i = at
               THEN /\ l[i].setting \in {list[i].setting, setting}
                    /\ (\E n \in 1..m : put[n].id = list[i].id) => l[i].setting = setting
               ELSE l[i].setting = list[i].setting /\ l[i].key = list[i].key
           G == [m \in 0..Len(put) |-> {l \in Like(list) : Right(m, l)}]
<1>1. Len(put) \in Nat /\ Len(list) \in Nat
  OBVIOUS
<1>2. list \in G[0]
  BY DEF Like
<1>3. ASSUME NEW n \in 1..Len(put), NEW l \in Like(list), Right(n - 1, l)
      PROVE  PutRow(l, put, n) \in Like(list) /\ Right(n, PutRow(l, put, n))
  <2> DEFINE p == PutRow(l, put, n)
  <2>1. PICK j \in 1..Len(list) :
           /\ put[n].id = list[j].id
           /\ IF j = at THEN put[n].setting = setting
              ELSE put[n].setting = list[j].setting /\ put[n].key = Masked
    BY DEF RowsFit
  <2>2. FindProviderAuth(l, put[n], n) = j
    BY <2>1, FoundById
  <2>3. /\ p \in Like(list)
        /\ \A i \in 1..Len(list) :
              p[i] = IF i = j THEN AuthFromPayload(put[n], l[i]) ELSE l[i]
    BY <1>1, <2>2, PutRowLike
  <2>4. put[n] \in RowShapes /\ l[j] \in Auths
    BY DEF Like
  <2>5. /\ p[j].setting = put[n].setting
        /\ put[n].key = Masked => p[j].key = l[j].key
    BY <2>3, <2>4, PutOne
  <2>6. \A i \in 1..Len(list) : i # j => p[i] = l[i]
    BY <2>3
  <2> HIDE DEF p
  <2>7. ASSUME NEW i \in 1..Len(list)
        PROVE  IF i = at
               THEN /\ p[i].setting \in {list[i].setting, setting}
                    /\ (\E m \in 1..n : put[m].id = list[i].id) => p[i].setting = setting
               ELSE p[i].setting = list[i].setting /\ p[i].key = list[i].key
    <3>1. CASE i = j
      <4>1. CASE i = at
        BY <2>1, <2>5, <3>1, <4>1
      <4>2. CASE i # at
        BY <1>3, <2>1, <2>5, <3>1, <4>2
      <4> QED
        BY <4>1, <4>2
    <3>2. CASE i # j
      <4>1. p[i] = l[i]
        BY <2>6, <3>2
      <4>2. CASE i = at
        <5>1. l[i].setting \in {list[i].setting, setting}
          BY <1>3, <4>2
        <5>2. ASSUME NEW m \in 1..n, put[m].id = list[i].id
              PROVE  l[i].setting = setting
          <6>1. m # n
            BY <2>1, <3>2, <5>2
          <6>2. m \in 1..(n - 1)
            BY <6>1
          <6> QED
            BY <1>3, <4>2, <5>2, <6>2
        <5> QED
          BY <4>1, <4>2, <5>1, <5>2
      <4>3. CASE i # at
        BY <1>3, <4>1, <4>3
      <4> QED
        BY <4>2, <4>3
    <3> QED
      BY <3>1, <3>2
  <2> QED
    BY <2>3, <2>7 DEF p
<1> HIDE DEF Right
<1>4. \A n \in 1..Len(put) : \A l \in G[n-1] : PutRow(l, put, n) \in G[n]
  BY <1>1, <1>3
<1>5. G[Len(put)] = {l \in Like(list) : Right(Len(put), l)}
  BY <1>1
<1> HIDE DEF G
<1>6. PutRows(list, put) \in G[Len(put)]
  BY <1>1, <1>2, <1>4, LoopKeeps
<1>7. Right(Len(put), PutRows(list, put))
  BY <1>5, <1>6
<1> QED
  BY <1>7 DEF Right

\* The place of the credential that a change is about, if it asks for anything.
At(kind, c) == IF kind = "delete" THEN 0 ELSE c.index

\* What a change builds from the list fits it.
LEMMA BuiltFits ==
    ASSUME NEW list \in Seq(Auths), NEW kind \in ChangeKinds \ {"add"},
           NEW c \in ChangeShapes, c.index \in 1..Len(list),
           c.row.id = list[c.index].id
    PROVE  LET put == Built(kind, SerializedAuths(list), c)
           IN  /\ RowsFit(list, At(kind, c), c.row.setting, put)
               /\ kind # "delete" => \E n \in 1..Len(put) : put[n].id = c.row.id
<1> DEFINE shown == SerializedAuths(list)
           put == Built(kind, shown, c)
<1>1. /\ shown \in Seq(RowShapes) /\ Len(shown) = Len(list) /\ Len(list) \in Nat
      /\ \A n \in 1..Len(list) : shown[n] = Serialized(list[n], n)
  BY SerializedList
<1>2. \A n \in 1..Len(list) :
        /\ shown[n] \in RowShapes /\ shown[n].id = list[n].id
        /\ shown[n].setting = list[n].setting /\ shown[n].key = Masked
  <2> TAKE n \in 1..Len(list)
  <2>1. list[n] \in Auths /\ n \in Nat
    OBVIOUS
  <2> QED
    BY <1>1, <2>1, SerializedRow
<1>3. c.row \in RowShapes /\ c.index \in Nat
  BY DEF ChangeShapes
<1> HIDE DEF shown
<1>4. ASSUME kind # "delete", NEW e \in RowShapes, e.id = c.row.id,
             e.setting = c.row.setting, put = [shown EXCEPT ![c.index] = e]
      PROVE  /\ RowsFit(list, At(kind, c), c.row.setting, put)
             /\ \E n \in 1..Len(put) : put[n].id = c.row.id
  <2>1. /\ Len(put) = Len(list)
        /\ \A n \in 1..Len(list) : put[n] = IF n = c.index THEN e ELSE shown[n]
    BY <1>1, <1>4, Altered
  <2> HIDE DEF put
  <2>2. At(kind, c) = c.index
    BY <1>4 DEF At
  <2>3. put[c.index].id = c.row.id
    BY <1>4, <2>1
  <2>4. \A n \in 1..Len(put) :
           /\ put[n].id = list[n].id
           /\ IF n = c.index THEN put[n].setting = c.row.setting
              ELSE put[n].setting = list[n].setting /\ put[n].key = Masked
    BY <1>2, <1>4, <2>1
  <2> QED
    BY <2>1, <2>2, <2>3, <2>4 DEF RowsFit
<1>5. CASE kind = "edit"
  <2> DEFINE e == [c.row EXCEPT !.key = IF ProviderKind = "openai" THEN Masked ELSE c.row.key]
  <2>1. put = [shown EXCEPT ![c.index] = e]
    BY <1>3, <1>5 DEF Built, BuildProviderEditArray, RowShapes
  <2>2. e \in RowShapes /\ e.id = c.row.id /\ e.setting = c.row.setting
    BY <1>3 DEF RowShapes
  <2> HIDE DEF e, put
  <2> QED
    BY <1>4, <1>5, <2>1, <2>2 DEF put, shown
<1>6. CASE kind = "models"
  <2> DEFINE e == [shown[c.index] EXCEPT !.setting = c.row.setting]
  <2>1. put = [shown EXCEPT ![c.index] = e]
    BY <1>1, <1>6 DEF Built, BuildProviderModelsArray
  <2>2. e \in RowShapes /\ e.id = c.row.id /\ e.setting = c.row.setting
    BY <1>2, <1>3 DEF RowShapes
  <2> HIDE DEF e, put
  <2> QED
    BY <1>4, <1>6, <2>1, <2>2 DEF put, shown
<1>7. CASE kind = "delete"
  <2>1. put = RemoveAt(shown, c.index)
    BY <1>1, <1>7 DEF Built, BuildProviderDeleteArray
  <2> HIDE DEF put
  <2>2. /\ Len(put) = Len(list) - 1
        /\ \A n \in 1..Len(list) - 1 : put[n] = IF n < c.index THEN shown[n] ELSE shown[n+1]
    <3>1. c.index \in 1..Len(shown)
      BY <1>1
    <3>2. /\ Len(RemoveAt(shown, c.index)) = Len(shown) - 1
          /\ \A n \in 1..Len(shown) - 1 :
                RemoveAt(shown, c.index)[n] = IF n < c.index THEN shown[n] ELSE shown[n+1]
      BY <1>1, <3>1, Removed
    <3> QED
      BY <1>1, <2>1, <3>2
  <2>3. ASSUME NEW n \in 1..Len(put)
        PROVE  \E i \in 1..Len(list) :
                 /\ put[n].id = list[i].id
                 /\ put[n].setting = list[i].setting /\ put[n].key = Masked
    <3>1. n \in 1..Len(list) /\ n + 1 \in 1..Len(list)
      BY <1>1, <2>2
    <3>2. put[n] = shown[n] \/ put[n] = shown[n+1]
      BY <2>2
    <3> QED
      BY <1>2, <3>1, <3>2
  <2>4. At(kind, c) \notin 1..Len(list)
    BY <1>7 DEF At
  <2> QED
    BY <1>7, <2>3, <2>4 DEF RowsFit, put, shown
<1> QED
  BY <1>5, <1>6, <1>7 DEF ChangeKinds, put, shown

(***************************************************************************)
(* The invariant                                                           *)
(***************************************************************************)

\* Rows that were read from version v show the credentials of the list at it.
RowsFresh(r, list, v) ==
    /\ r.version <= v
    /\ r.version = v =>
         \A i \in 1..Len(r.list) :
            i \in 1..Len(list) /\ r.list[i] = Serialized(list[i], i)

\* A change of a row that was read from version v names its credential, and has
\* built what fits the list.
ChangeFresh(kind, c, list, v) ==
    /\ c.version <= v
    /\ kind # "add" /\ c.version = v =>
         /\ c.phase \in {"reading", "putting"} =>
               c.index \in 1..Len(list) /\ c.row.id = list[c.index].id
         /\ c.phase = "putting" =>
               /\ RowsFit(list, At(kind, c), c.row.setting, c.list)
               /\ kind # "delete" => \E n \in 1..Len(c.list) : c.list[n].id = c.row.id

ProvidersFresh ==
    /\ RowsFresh(items, auths, version)
    /\ \A r \in providerReads : RowsFresh(r, auths, version)
    /\ \A kind \in ChangeKinds : ChangeFresh(kind, changes[kind], auths, version)

ProvidersInv == ProvidersTyped /\ IdsDiffer /\ ProvidersFresh

\* The credentials change with their version alone.
LEMMA VersionTells ==
    ASSUME ProvidersTyped, [ProvidersNext]_providerVars
    PROVE  /\ version' \in {version, version + 1}
           /\ version' = version => auths' = auths
<1>1. version \in Nat
  BY DEF ProvidersTyped
<1>2. CASE UNCHANGED <<auths, version>>
  BY <1>2
<1>3. ASSUME NEW kind \in ChangeKinds, PutProviders(kind) \/ PutStops(kind)
      PROVE  version' = IF auths' = auths THEN version ELSE version + 1
  BY <1>3 DEF PutProviders, PutStops
<1>4. ASSUME NEW list, Elsewhere(list) PROVE version' = version + 1
  BY <1>4 DEF Elsewhere
<1>5. \/ UNCHANGED <<auths, version>>
      \/ \E kind \in ChangeKinds : PutProviders(kind) \/ PutStops(kind)
      \/ \E list : Elsewhere(list)
  BY DEF ProvidersNext, providerVars, FetchItems, ItemsArrive, HandleAdd, HandleDelete,
     HandleSaveConfiguredModels, PersistEdit, Start, ReadLatest, ReadFails, ChangeAnswered,
     ChangeLost, AuthCreated, AuthDeleted, AuthSet
<1> QED
  BY <1>1, <1>2, <1>3, <1>4, <1>5

\* The rows that a list has now are fresh.
LEMMA RowsNow ==
    ASSUME NEW list \in Seq(Auths), NEW v \in Nat
    PROVE  Rows(list, v) \in RowLists /\ RowsFresh(Rows(list, v), list, v)
  BY SerializedList DEF Rows, RowLists, RowsFresh

\* What is told, or was given up, is fresh.
LEMMA ToldIsFresh ==
    ASSUME NEW ph \in {"idle", "succeeded", "failed"}, NEW kind, NEW list, NEW v \in Nat
    PROVE  /\ NoChange \in ChangeShapes
           /\ [NoChange EXCEPT !.phase = ph] \in ChangeShapes
           /\ ChangeFresh(kind, NoChange, list, v)
           /\ ChangeFresh(kind, [NoChange EXCEPT !.phase = ph], list, v)
<1>1. NewRow(Unlabelled, Masked, "initial") \in RowShapes /\ << >> \in Seq(RowShapes)
  BY DEF NewRow, RowShapes, Unlabelled, SettingsSeen
<1>2. NoChange \in ChangeShapes /\ NoChange.phase = "idle" /\ NoChange.version = 0
  BY <1>1 DEF NoChange, ChangeShapes, ChangePhases
<1> DEFINE d == [NoChange EXCEPT !.phase = ph]
<1>3. d \in ChangeShapes /\ d.phase = ph /\ d.version = 0
  BY <1>2 DEF ChangeShapes, ChangePhases
<1> HIDE DEF d
<1>4. ChangeFresh(kind, NoChange, list, v)
  BY <1>2 DEF ChangeFresh
<1>5. ChangeFresh(kind, d, list, v)
  BY <1>3 DEF ChangeFresh
<1> QED
  BY <1>2, <1>3, <1>4, <1>5 DEF d

\* Rows that are fresh stay so while the list does, and nothing is claimed of
\* those of an older version.
LEMMA RowsStay ==
    ASSUME NEW list, NEW v \in Nat, NEW list2, NEW v2 \in {v, v + 1},
           v2 = v => list2 = list,
           NEW r \in RowLists, RowsFresh(r, list, v)
    PROVE  RowsFresh(r, list2, v2)
<1>1. CASE v2 = v
  BY <1>1
<1>2. CASE v2 = v + 1
  BY <1>2 DEF RowsFresh, RowLists
<1> QED
  BY <1>1, <1>2

\* The same of a change.
LEMMA ChangeStays ==
    ASSUME NEW list, NEW v \in Nat, NEW list2, NEW v2 \in {v, v + 1},
           v2 = v => list2 = list,
           NEW kind, NEW c \in ChangeShapes, ChangeFresh(kind, c, list, v)
    PROVE  ChangeFresh(kind, c, list2, v2)
<1>1. CASE v2 = v
  BY <1>1
<1>2. CASE v2 = v + 1
  <2>1. c.version \in Nat /\ c.version <= v
    BY DEF ChangeShapes, ChangeFresh
  <2>2. c.version <= v2 /\ c.version # v2
    BY <1>2, <2>1
  <2> QED
    BY <2>2 DEF ChangeFresh
<1> QED
  BY <1>1, <1>2

\* A step of one change, that leaves the rest alone.
LEMMA ChangeMoves ==
    ASSUME ProvidersInv, UNCHANGED <<auths, version, items, providerReads>>,
           NEW kind \in ChangeKinds, NEW d \in ChangeShapes,
           changes' = [changes EXCEPT ![kind] = d],
           ChangeFresh(kind, d, auths, version),
           kind # "add" /\ d.phase = "reading" => d.index # 0
    PROVE  ProvidersInv'
<1>1. changes \in [ChangeKinds -> ChangeShapes]
  BY DEF ProvidersInv, ProvidersTyped
<1>2. /\ changes' \in [ChangeKinds -> ChangeShapes]
      /\ \A k \in ChangeKinds : changes'[k] = IF k = kind THEN d ELSE changes[k]
  BY <1>1
<1>3. ProvidersTyped'
  BY <1>2 DEF ProvidersInv, ProvidersTyped
<1>4. IdsDiffer'
  BY DEF ProvidersInv, IdsDiffer
<1>5. \A k \in ChangeKinds : ChangeFresh(k, changes'[k], auths, version)
  BY <1>2 DEF ProvidersInv, ProvidersFresh
<1>6. ProvidersFresh'
  BY <1>5 DEF ProvidersInv, ProvidersFresh
<1> QED
  BY <1>3, <1>4, <1>6 DEF ProvidersInv

\* A step that changes the list: the version tells, and what the changes hold
\* is of the old one.
LEMMA ListMoves ==
    ASSUME ProvidersInv, UNCHANGED <<items, providerReads>>,
           version' \in {version, version + 1}, version' = version => auths' = auths,
           auths' \in Seq(Auths), IdsDiffer',
           changes' \in [ChangeKinds -> ChangeShapes],
           \A k \in ChangeKinds :
              \/ changes'[k] = changes[k]
              \/ changes'[k].phase # "reading" /\ ChangeFresh(k, changes'[k], auths, version)
    PROVE  ProvidersInv'
<1>1. version \in Nat /\ items \in RowLists /\ providerReads \subseteq RowLists
  BY DEF ProvidersInv, ProvidersTyped
<1>2. version' \in Nat
  BY <1>1
<1>3. ProvidersTyped'
  BY <1>2 DEF ProvidersInv, ProvidersTyped
<1>4. RowsFresh(items, auths', version')
  <2>1. RowsFresh(items, auths, version)
    BY DEF ProvidersInv, ProvidersFresh
  <2> QED
    BY <1>1, <2>1, RowsStay
<1>5. ASSUME NEW r \in providerReads PROVE RowsFresh(r, auths', version')
  <2>1. RowsFresh(r, auths, version) /\ r \in RowLists
    BY <1>1 DEF ProvidersInv, ProvidersFresh
  <2> QED
    BY <1>1, <2>1, RowsStay
<1>6. ASSUME NEW k \in ChangeKinds PROVE ChangeFresh(k, changes'[k], auths', version')
  <2>1. ChangeFresh(k, changes'[k], auths, version) /\ changes'[k] \in ChangeShapes
    BY DEF ProvidersInv, ProvidersFresh
  <2> QED
    BY <1>1, <2>1, ChangeStays
<1>7. ProvidersFresh'
  BY <1>4, <1>5, <1>6 DEF ProvidersFresh
<1> QED
  BY <1>3, <1>7 DEF ProvidersInv

\* The tab opens with no rows, whatever credentials there are.
LEMMA ProvidersStart == ProvidersInit => ProvidersInv
<1> SUFFICES ASSUME ProvidersInit PROVE ProvidersInv
  OBVIOUS
<1>1. auths \in Seq(Auths)
  <2>1. auths \in Seq([id : AuthIds, label : Nat, key : {"its own"},
                       setting : Settings \union {"initial"}])
    BY FirstAuthsAssumption DEF ProvidersInit
  <2> DEFINE S == [id : AuthIds, label : Nat, key : {"its own"},
                   setting : Settings \union {"initial"}]
  <2>2. S \subseteq Auths
    <3> SUFFICES ASSUME NEW a \in S PROVE a \in Auths
      OBVIOUS
    <3>1. a = [id |-> a.id, label |-> a.label, key |-> a.key, setting |-> a.setting]
      OBVIOUS
    <3>2. /\ a.id \in AuthIds /\ a.label \in Int /\ a.key \in AuthKeys
          /\ a.setting \in SettingsSeen
      <4>1. a.id \in AuthIds /\ a.label \in Nat /\ a.key = "its own"
        OBVIOUS
      <4>2. a.setting \in Settings \union {"initial"}
        OBVIOUS
      <4> HIDE DEF S
      <4>3. \A n \in Nat : n \in Int
        OBVIOUS
      <4> QED
        BY <4>1, <4>2, <4>3, Zenon DEF AuthKeys, SettingsSeen
    <3> HIDE DEF S
    <3> QED
      BY <3>1, <3>2, Zenon DEF Auths
  <2>3. auths \in Seq(S)
    BY <2>1
  <2> HIDE DEF S
  <2> QED
    BY <2>2, <2>3
<1>2. IdsDiffer
  BY FirstAuthsAssumption DEF ProvidersInit, IdsDiffer
<1>3. << >> \in Seq(Auths) /\ Len(<< >>) = 0 /\ 0 \in Nat
  OBVIOUS
<1>4. items \in RowLists /\ items.version = 0 /\ Len(items.list) = 0
  <2>1. items = Rows(<< >>, 0)
    BY DEF ProvidersInit
  <2>2. Rows(<< >>, 0) \in RowLists
    BY <1>3, RowsNow
  <2>3. SerializedAuths(<< >>) \in Seq(RowShapes) /\ Len(SerializedAuths(<< >>)) = 0
    BY <1>3, SerializedList
  <2> QED
    BY <2>1, <2>2, <2>3 DEF Rows
<1>5. RowsFresh(items, auths, version)
  BY <1>4 DEF RowsFresh, ProvidersInit
<1>6. NoChange \in ChangeShapes /\ NoChange.phase = "idle"
  BY <1>3, ToldIsFresh DEF NoChange
<1>7. changes = [k \in ChangeKinds |-> NoChange] /\ version = 0 /\ providerReads = {}
  BY DEF ProvidersInit
<1>8. \A k \in ChangeKinds : ChangeFresh(k, changes[k], auths, version)
  BY <1>3, <1>7, ToldIsFresh
<1> QED
  BY <1>1, <1>2, <1>4, <1>5, <1>6, <1>7, <1>8 DEF ProvidersInv, ProvidersTyped, ProvidersFresh

\* Starting a change: whatever it is about was shown.
LEMMA StartKeeps ==
    ASSUME ProvidersInv, NEW kind \in ChangeKinds, NEW index \in Nat, NEW row \in RowShapes,
           NEW v \in Nat, Start(kind, index, row, v), v <= version,
           kind # "add" => index # 0,
           kind # "add" /\ v = version =>
              index \in 1..Len(auths) /\ row.id = auths[index].id
    PROVE  ProvidersInv'
<1> DEFINE d == [phase |-> "reading", index |-> index, row |-> row, version |-> v,
                 list |-> << >>]
<1>1. << >> \in Seq(RowShapes)
  OBVIOUS
<1>2. d \in ChangeShapes
  BY <1>1 DEF ChangeShapes, ChangePhases
<1>3. ChangeFresh(kind, d, auths, version)
  BY DEF ChangeFresh
<1>4. d.phase = "reading" /\ d.index = index
  OBVIOUS
<1>5. changes' = [changes EXCEPT ![kind] = d] /\ UNCHANGED <<auths, version, items, providerReads>>
  BY DEF Start
<1> HIDE DEF d
<1> QED
  BY <1>2, <1>3, <1>4, <1>5, ChangeMoves

\* Every step keeps the shapes, the identifiers and what is fresh.
LEMMA ProvidersStep == ProvidersInv /\ [ProvidersNext]_providerVars => ProvidersInv'
<1> SUFFICES ASSUME ProvidersInv, [ProvidersNext]_providerVars PROVE ProvidersInv'
  OBVIOUS
<1> USE DEF ProvidersInv
<1>1. /\ auths \in Seq(Auths) /\ version \in Nat /\ Len(auths) \in Nat
      /\ items \in RowLists /\ providerReads \subseteq RowLists
      /\ changes \in [ChangeKinds -> ChangeShapes]
  BY DEF ProvidersTyped
<1>2. /\ version' \in {version, version + 1}
      /\ version' = version => auths' = auths
  BY VersionTells
<1>3. /\ Rows(auths, version) \in RowLists
      /\ RowsFresh(Rows(auths, version), auths, version)
  BY <1>1, RowsNow
<1>4. CASE UNCHANGED providerVars
  BY <1>4 DEF providerVars, ProvidersTyped, IdsDiffer, ProvidersFresh
<1>5. CASE FetchItems
  <2>1. /\ providerReads' = providerReads \union {Rows(auths, version)}
        /\ UNCHANGED <<auths, version, items, changes>>
    BY <1>5 DEF FetchItems
  <2> QED
    BY <1>3, <2>1 DEF ProvidersTyped, IdsDiffer, ProvidersFresh
<1>6. ASSUME NEW rows \in providerReads, ItemsArrive(rows) PROVE ProvidersInv'
  BY <1>6 DEF ItemsArrive, ProvidersTyped, IdsDiffer, ProvidersFresh
<1>7. ASSUME NEW label \in AuthIds, NEW setting \in Settings, HandleAdd(label, setting)
      PROVE  ProvidersInv'
  <2> DEFINE row == NewRow(IF ProviderKind = "openai" THEN label ELSE Unlabelled,
                           "typed", setting)
  <2>1. label \in Int
    BY ProviderAssumption
  <2>2. row \in RowShapes
    BY <2>1 DEF NewRow, RowShapes, Unlabelled, AuthKeys, SettingsSeen
  <2>3. Start("add", 0, row, version)
    BY <1>7 DEF HandleAdd
  <2> HIDE DEF row
  <2>4. "add" \in ChangeKinds /\ version <= version
    BY <1>1 DEF ChangeKinds
  <2> QED
    BY <1>1, <2>2, <2>3, <2>4, StartKeeps
<1>8. ASSUME NEW i \in 1..Len(items.list), NEW row \in RowShapes, row.id = items.list[i].id,
             NEW kind \in ChangeKinds, kind # "add",
             Start(kind, i, row, items.version)
      PROVE  ProvidersInv'
  <2>1. items.version \in Nat /\ items.list \in Seq(RowShapes) /\ i \in Nat /\ i # 0
    BY <1>1 DEF RowLists
  <2>2. items.version <= version
    BY DEF ProvidersFresh, RowsFresh
  <2>3. ASSUME items.version = version
        PROVE  i \in 1..Len(auths) /\ row.id = auths[i].id
    <3>1. i \in 1..Len(auths) /\ items.list[i] = Serialized(auths[i], i)
      BY <2>3 DEF ProvidersFresh, RowsFresh
    <3>2. auths[i] \in Auths
      BY <1>1, <3>1
    <3>3. Serialized(auths[i], i).id = auths[i].id
      BY <2>1, <3>2, SerializedRow
    <3> QED
      BY <1>8, <3>1, <3>3
  <2> QED
    BY <1>8, <2>1, <2>2, <2>3, StartKeeps
<1>9. ASSUME NEW i \in 1..Len(items.list),
             \/ HandleDelete(i)
             \/ \E setting \in Settings : \/ HandleSaveConfiguredModels(i, setting)
                                          \/ \E key \in {Masked, "typed"} : PersistEdit(i, key, setting)
      PROVE  ProvidersInv'
  <2>1. items.list[i] \in RowShapes
    BY <1>1 DEF RowLists
  <2>2. CASE HandleDelete(i)
    BY <1>8, <2>1, <2>2 DEF HandleDelete, ChangeKinds
  <2>3. ASSUME NEW setting \in Settings, HandleSaveConfiguredModels(i, setting)
        PROVE  ProvidersInv'
    <3> DEFINE row == [items.list[i] EXCEPT !.setting = setting]
    <3>1. row \in RowShapes /\ row.id = items.list[i].id
      BY <2>1 DEF RowShapes, SettingsSeen
    <3>2. Start("models", i, row, items.version)
      BY <2>3 DEF HandleSaveConfiguredModels
    <3> HIDE DEF row
    <3> QED
      BY <1>8, <3>1, <3>2 DEF ChangeKinds
  <2>4. ASSUME NEW setting \in Settings, NEW key \in {Masked, "typed"},
               PersistEdit(i, key, setting)
        PROVE  ProvidersInv'
    <3> DEFINE row == [items.list[i] EXCEPT !.key = key, !.setting = setting]
    <3>1. row \in RowShapes /\ row.id = items.list[i].id
      BY <2>1 DEF RowShapes, SettingsSeen, AuthKeys
    <3>2. Start("edit", i, row, items.version)
      BY <2>4 DEF PersistEdit
    <3> HIDE DEF row
    <3> QED
      BY <1>8, <3>1, <3>2 DEF ChangeKinds
  <2> QED
    BY <1>9, <2>2, <2>3, <2>4
<1>10. ASSUME NEW kind \in ChangeKinds, changes' = [changes EXCEPT ![kind] = NoChange],
              UNCHANGED <<auths, version, items, providerReads>>
       PROVE  ProvidersInv'
  <2>1. NoChange \in ChangeShapes /\ ChangeFresh(kind, NoChange, auths, version)
    BY <1>1, ToldIsFresh
  <2>2. NoChange.phase # "reading"
    BY DEF NoChange
  <2> QED
    BY <1>10, <2>1, <2>2, ChangeMoves
<1>11. ASSUME NEW kind \in ChangeKinds, ReadLatest(kind) PROVE ProvidersInv'
  <2> DEFINE c == changes[kind]
             list == SerializedAuths(auths)
             gone == c.index > Len(list)
             d == [c EXCEPT !.phase = "putting", !.list = Built(kind, list, c)]
  <2>1. c.phase = "reading" /\ c \in ChangeShapes
    BY <1>1, <1>11 DEF ReadLatest
  <2>2. /\ changes' = [changes EXCEPT ![kind] = IF gone /\ kind # "delete" THEN NoChange ELSE d]
        /\ UNCHANGED <<auths, version, items, providerReads>>
    BY <1>11 DEF ReadLatest
  <2>3. list \in Seq(RowShapes) /\ Len(list) = Len(auths)
    BY <1>1, SerializedList
  <2>4. CASE gone /\ kind # "delete"
    BY <1>10, <2>2, <2>4
  <2>5. CASE ~(gone /\ kind # "delete")
    <3>1. c.index \in Nat /\ (c.index <= Len(list) \/ kind = "delete")
      BY <1>1, <2>1, <2>3, <2>5 DEF ChangeShapes
    <3>2. kind # "add" => c.index # 0
      BY <2>1 DEF ProvidersTyped
    <3>3. c.index \in 1..Len(list) \/ kind \in {"add", "delete"}
      BY <1>1, <2>3, <3>1, <3>2
    <3>4. Built(kind, list, c) \in Seq(RowShapes)
      BY <2>1, <2>3, <3>2, <3>3, BuiltTyped
    <3>5. /\ d \in ChangeShapes /\ d.phase = "putting" /\ d.index = c.index /\ d.row = c.row
          /\ d.version = c.version /\ d.list = Built(kind, list, c)
      <4> DEFINE put == Built(kind, list, c)
      <4> HIDE DEF put, c
      <4> QED
        BY <2>1, <3>4 DEF put, ChangeShapes, ChangePhases
    <3>6. ChangeFresh(kind, c, auths, version)
      BY DEF ProvidersFresh
    <3>7. ASSUME kind # "add", c.version = version
          PROVE  /\ c.index \in 1..Len(auths) /\ c.row.id = auths[c.index].id
                 /\ RowsFit(auths, At(kind, c), c.row.setting, d.list)
                 /\ kind # "delete" => \E n \in 1..Len(d.list) : d.list[n].id = c.row.id
      <4>1. c.index \in 1..Len(auths) /\ c.row.id = auths[c.index].id
        BY <2>1, <3>6, <3>7 DEF ChangeFresh
      <4>2. kind \in ChangeKinds \ {"add"}
        BY <3>7
      <4> HIDE DEF c, d
      <4> QED
        BY <1>1, <2>1, <3>5, <4>1, <4>2, BuiltFits
    <3>8. c.version <= version
      BY <3>6 DEF ChangeFresh
    <3>9. At(kind, d) = At(kind, c)
      BY <3>5 DEF At
    <3> HIDE DEF c, d
    <3>10. ChangeFresh(kind, d, auths, version)
      BY <3>5, <3>7, <3>8, <3>9 DEF ChangeFresh
    <3>11. changes' = [changes EXCEPT ![kind] = d]
      BY <2>2, <2>5
    <3> QED
      BY <2>2, <3>5, <3>10, <3>11, ChangeMoves
  <2> QED
    BY <2>4, <2>5
<1>12. ASSUME NEW kind \in ChangeKinds, ReadFails(kind) \/ ChangeLost(kind) PROVE ProvidersInv'
  BY <1>10, <1>12 DEF ReadFails, ChangeLost
<1>13. ASSUME NEW kind \in ChangeKinds, PutProviders(kind) \/ PutStops(kind)
       PROVE  ProvidersInv'
  <2>1. changes[kind].list \in Seq(RowShapes)
    BY <1>1 DEF ChangeShapes
  <2>2. PICK put \in Seq(RowShapes) : auths' = PutRows(auths, put)
    <3>1. \A n \in 1..Len(changes[kind].list) :
             SubSeq(changes[kind].list, 1, n - 1) \in Seq(RowShapes)
      BY <2>1
    <3> QED
      BY <1>13, <2>1, <3>1 DEF PutProviders, PutStops
  <2>3. PICK ph \in {"succeeded", "failed"} :
           changes' = [changes EXCEPT ![kind] = [NoChange EXCEPT !.phase = ph]]
    BY <1>13 DEF PutProviders, PutStops
  <2>4. UNCHANGED <<items, providerReads>>
    BY <1>13 DEF PutProviders, PutStops
  <2>5. auths' \in Like(auths)
    BY <1>1, <2>2, PutRowsLike
  <2>6. auths' \in Seq(Auths) /\ IdsDiffer'
    BY <2>5 DEF Like, IdsDiffer
  <2> DEFINE d == [NoChange EXCEPT !.phase = ph]
  <2>7. d \in ChangeShapes /\ ChangeFresh(kind, d, auths, version) /\ d.phase # "reading"
    <3>1. ph \in {"idle", "succeeded", "failed"}
      OBVIOUS
    <3>2. d \in ChangeShapes /\ ChangeFresh(kind, d, auths, version)
      BY <1>1, <3>1, ToldIsFresh
    <3>3. d.phase = ph
      BY DEF NoChange
    <3> QED
      BY <3>2, <3>3
  <2>8. changes' = [changes EXCEPT ![kind] = d]
    BY <2>3
  <2> HIDE DEF d
  <2>9. /\ changes' \in [ChangeKinds -> ChangeShapes]
        /\ \A k \in ChangeKinds : changes'[k] = IF k = kind THEN d ELSE changes[k]
    BY <1>1, <2>7, <2>8
  <2> QED
    BY <1>2, <2>4, <2>6, <2>7, <2>9, ListMoves
<1>14. ASSUME NEW kind \in ChangeKinds, ChangeAnswered(kind) PROVE ProvidersInv'
  <2>1. /\ changes' = [changes EXCEPT ![kind] = NoChange]
        /\ providerReads' \subseteq providerReads \union {Rows(auths, version)}
        /\ UNCHANGED <<auths, version, items>>
    BY <1>14 DEF ChangeAnswered
  <2>2. NoChange \in ChangeShapes /\ ChangeFresh(kind, NoChange, auths, version)
    BY <1>1, ToldIsFresh
  <2>3. NoChange.phase # "reading"
    BY DEF NoChange
  <2>4. /\ changes' \in [ChangeKinds -> ChangeShapes]
        /\ \A k \in ChangeKinds : changes'[k] = IF k = kind THEN NoChange ELSE changes[k]
    BY <1>1, <2>1, <2>2
  <2>5. ProvidersTyped'
    BY <1>3, <2>1, <2>3, <2>4 DEF ProvidersTyped
  <2>6. ProvidersFresh'
    BY <1>3, <2>1, <2>2, <2>4 DEF ProvidersFresh
  <2> QED
    BY <2>1, <2>5, <2>6 DEF IdsDiffer
<1>15. ASSUME NEW list \in Seq(Auths), Elsewhere(list),
              \A i, j \in 1..Len(list) : list[i].id = list[j].id => i = j
       PROVE  ProvidersInv'
  <2>1. auths' = list /\ UNCHANGED <<items, changes, providerReads>>
    BY <1>15 DEF Elsewhere
  <2>2. IdsDiffer'
    BY <1>15, <2>1 DEF IdsDiffer
  <2> QED
    BY <1>1, <1>2, <2>1, <2>2, ListMoves
<1>16. ASSUME NEW id \in AuthIds, AuthCreated(id) PROVE ProvidersInv'
  <2> DEFINE a == Auth(id, IF ProviderKind = "openai" THEN id ELSE Unlabelled)
  <2>1. id \in Int
    BY ProviderAssumption
  <2>2. a \in Auths /\ a.id = id
    BY <2>1 DEF Auth, Auths, AuthKeys, SettingsSeen, Unlabelled
  <2>3. \A i \in 1..Len(auths) : auths[i].id # id
    BY <1>16 DEF AuthCreated
  <2>4. Elsewhere(Append(auths, a))
    BY <1>16 DEF AuthCreated
  <2> HIDE DEF a
  <2>5. /\ Append(auths, a) \in Seq(Auths) /\ Len(Append(auths, a)) = Len(auths) + 1
        /\ \A i \in 1..Len(auths) + 1 :
              Append(auths, a)[i] = IF i = Len(auths) + 1 THEN a ELSE auths[i]
    BY <1>1, <2>2
  <2>6. \A i, j \in 1..Len(Append(auths, a)) :
           Append(auths, a)[i].id = Append(auths, a)[j].id => i = j
    BY <1>1, <2>2, <2>3, <2>5 DEF IdsDiffer
  <2> QED
    BY <1>15, <2>4, <2>5, <2>6
<1>17. ASSUME NEW i \in 1..Len(auths), AuthDeleted(i) PROVE ProvidersInv'
  <2>1. Elsewhere(RemoveAt(auths, i))
    BY <1>17 DEF AuthDeleted
  <2>2. /\ RemoveAt(auths, i) \in Seq(Auths) /\ Len(RemoveAt(auths, i)) = Len(auths) - 1
        /\ \A n \in 1..Len(auths) - 1 :
              RemoveAt(auths, i)[n] = IF n < i THEN auths[n] ELSE auths[n+1]
    BY <1>1, Removed
  <2>3. \A m, n \in 1..Len(RemoveAt(auths, i)) :
           RemoveAt(auths, i)[m].id = RemoveAt(auths, i)[n].id => m = n
    BY <1>1, <2>2 DEF IdsDiffer
  <2> QED
    BY <1>15, <2>1, <2>2, <2>3
<1>18. ASSUME NEW i \in 1..Len(auths), NEW setting \in Settings, AuthSet(i, setting)
       PROVE  ProvidersInv'
  <2> DEFINE a == [auths[i] EXCEPT !.setting = setting]
  <2>1. auths[i] \in Auths
    BY <1>1
  <2>2. a \in Auths /\ a.id = auths[i].id
    BY <2>1 DEF Auths, SettingsSeen
  <2>3. Elsewhere([auths EXCEPT ![i] = a])
    BY <1>18 DEF AuthSet
  <2> HIDE DEF a
  <2>4. /\ [auths EXCEPT ![i] = a] \in Seq(Auths)
        /\ Len([auths EXCEPT ![i] = a]) = Len(auths)
        /\ \A n \in 1..Len(auths) : [auths EXCEPT ![i] = a][n] = IF n = i THEN a ELSE auths[n]
    BY <1>1, <2>2, Altered
  <2>5. \A m, n \in 1..Len([auths EXCEPT ![i] = a]) :
           [auths EXCEPT ![i] = a][m].id = [auths EXCEPT ![i] = a][n].id => m = n
    BY <2>2, <2>4 DEF IdsDiffer
  <2> QED
    BY <1>15, <2>3, <2>4, <2>5
<1> QED
  BY <1>4, <1>5, <1>6, <1>7, <1>9, <1>11, <1>12, <1>13, <1>14, <1>16, <1>17, <1>18
     DEF ProvidersNext

(***************************************************************************)
(* The theorems                                                            *)
(***************************************************************************)

\* The inductive invariant holds in every reachable state.
THEOREM ProvidersInvariant == ProvidersSpec => []ProvidersInv
  BY ProvidersStart, ProvidersStep, PTL DEF ProvidersSpec

\* Whatever lists go to and fro, from however many administrators, and wherever
\* a save stops: no credential gets a masked key.
THEOREM KeysStayReal == ProvidersSpec => []KeysAreReal
<1>1. ProvidersInv => KeysAreReal
  <2> SUFFICES ASSUME ProvidersInv, NEW i \in 1..Len(auths) PROVE auths[i].key # Masked
    BY DEF KeysAreReal
  <2>1. auths[i] \in Auths
    BY DEF ProvidersInv, ProvidersTyped
  <2>2. auths[i].key \in AuthKeys
    BY <2>1 DEF Auths
  <2> QED
    BY <2>2 DEF AuthKeys, Masked
<1> QED
  BY <1>1, ProvidersInvariant, PTL

\* One step of putting a list back that was fresh.
LEMMA SaveIsLocal ==
    ASSUME ProvidersInv, NEW kind \in ChangeKinds \ {"add"},
           PutProviders(kind) \/ PutStops(kind), changes[kind].version = version
    PROVE  \A i \in 1..Len(auths) :
              /\ auths'[i].id = auths[i].id
              /\ IF auths[i].id = changes[kind].row.id /\ kind # "delete"
                 THEN \/ auths'[i].setting = changes[kind].row.setting
                      \/ auths'[i].setting = auths[i].setting /\ changes'[kind].phase = "failed"
                 ELSE auths'[i].setting = auths[i].setting /\ auths'[i].key = auths[i].key
<1> DEFINE c == changes[kind]
           at == At(kind, c)
<1>1. /\ auths \in Seq(Auths) /\ Len(auths) \in Nat /\ c \in ChangeShapes
      /\ changes \in [ChangeKinds -> ChangeShapes] /\ c.list \in Seq(RowShapes)
  BY DEF ProvidersInv, ProvidersTyped, ChangeShapes
<1>2. \A i, j \in 1..Len(auths) : auths[i].id = auths[j].id => i = j
  BY DEF ProvidersInv, IdsDiffer
<1>3. c.phase = "putting" /\ c.version = version
  BY DEF PutProviders, PutStops
<1>4. ChangeFresh(kind, c, auths, version)
  BY DEF ProvidersInv, ProvidersFresh
<1>5. /\ c.index \in 1..Len(auths) /\ c.row.id = auths[c.index].id
      /\ RowsFit(auths, at, c.row.setting, c.list)
      /\ kind # "delete" => \E n \in 1..Len(c.list) : c.list[n].id = c.row.id
  BY <1>3, <1>4 DEF ChangeFresh
<1>6. PICK put \in Seq(RowShapes) :
         /\ auths' = PutRows(auths, put)
         /\ RowsFit(auths, at, c.row.setting, put)
         /\ put = c.list \/ changes'[kind].phase = "failed"
  <2>1. CASE PutProviders(kind)
    BY <1>1, <1>5, <2>1 DEF PutProviders
  <2>2. CASE PutStops(kind)
    <3>1. PICK n \in 1..Len(c.list) : auths' = PutRows(auths, SubSeq(c.list, 1, n - 1))
      BY <2>2 DEF PutStops
    <3> DEFINE put == SubSeq(c.list, 1, n - 1)
    <3>2. /\ put \in Seq(RowShapes) /\ Len(put) = n - 1
          /\ \A m \in 1..(n - 1) : put[m] = c.list[m] /\ m \in 1..Len(c.list)
      BY <1>1
    <3>3. changes'[kind].phase = "failed"
      <4>1. changes' = [changes EXCEPT ![kind] = [NoChange EXCEPT !.phase = "failed"]]
        BY <2>2 DEF PutStops
      <4>2. [NoChange EXCEPT !.phase = "failed"].phase = "failed"
        BY DEF NoChange
      <4> QED
        BY <1>1, <4>1, <4>2
    <3> HIDE DEF put, c, at
    <3>4. RowsFit(auths, at, c.row.setting, put)
      <4>1. \A m \in 1..Len(put) : m \in 1..Len(c.list) /\ put[m] = c.list[m]
        BY <3>2
      <4>2. \A m \in 1..Len(c.list) : \E i \in 1..Len(auths) :
               /\ c.list[m].id = auths[i].id
               /\ IF i = at THEN c.list[m].setting = c.row.setting
                  ELSE c.list[m].setting = auths[i].setting /\ c.list[m].key = Masked
        BY <1>5 DEF RowsFit
      <4>3. ASSUME NEW m \in 1..Len(put)
            PROVE  \E i \in 1..Len(auths) :
               /\ put[m].id = auths[i].id
               /\ IF i = at THEN put[m].setting = c.row.setting
                  ELSE put[m].setting = auths[i].setting /\ put[m].key = Masked
        <5>1. m \in 1..Len(c.list) /\ put[m] = c.list[m]
          BY <4>1
        <5>2. PICK i \in 1..Len(auths) :
               /\ c.list[m].id = auths[i].id
               /\ IF i = at THEN c.list[m].setting = c.row.setting
                  ELSE c.list[m].setting = auths[i].setting /\ c.list[m].key = Masked
          BY <4>2, <5>1
        <5> QED
          BY <5>1, <5>2
      <4> QED
        BY <4>3 DEF RowsFit
    <3> QED
      BY <3>1, <3>2, <3>3, <3>4 DEF put
  <2> QED
    BY <2>1, <2>2
<1>7. auths' \in Like(auths)
  BY <1>1, <1>6, PutRowsLike
<1>8. \A i \in 1..Len(auths) :
        IF i = at
        THEN /\ auths'[i].setting \in {auths[i].setting, c.row.setting}
             /\ (\E n \in 1..Len(put) : put[n].id = auths[i].id)
                  => auths'[i].setting = c.row.setting
        ELSE auths'[i].setting = auths[i].setting /\ auths'[i].key = auths[i].key
  BY <1>1, <1>2, <1>6, PutRowsLocal
<1>9. \A i \in 1..Len(auths) : auths[i].id = c.row.id /\ kind # "delete" <=> i = at
  BY <1>2, <1>5 DEF At
<1>10. kind # "delete" /\ put = c.list => \E n \in 1..Len(put) : put[n].id = c.row.id
  BY <1>5
<1> HIDE DEF at, c
<1>11. ASSUME NEW i \in 1..Len(auths)
       PROVE  /\ auths'[i].id = auths[i].id
              /\ IF auths[i].id = c.row.id /\ kind # "delete"
                 THEN \/ auths'[i].setting = c.row.setting
                      \/ auths'[i].setting = auths[i].setting /\ changes'[kind].phase = "failed"
                 ELSE auths'[i].setting = auths[i].setting /\ auths'[i].key = auths[i].key
  <2>1. auths'[i].id = auths[i].id
    BY <1>7 DEF Like
  <2>2. CASE i = at
    BY <1>6, <1>8, <1>9, <1>10, <2>1, <2>2
  <2>3. CASE i # at
    BY <1>8, <1>9, <2>1, <2>3
  <2> QED
    BY <2>2, <2>3
<1> QED
  BY <1>11 DEF c

\* A save of a row that is up to date touches no other credential, and touches
\* its own as it was asked, in any number and order of credentials: each row
\* finds its credential by the identifier, whatever was removed before it.
THEOREM FreshSavesAreLocal == ProvidersSpec => FreshSaveIsLocal
<1> DEFINE Local ==
       \A kind \in {"edit", "models", "delete"} :
          changes[kind].phase = "putting" /\ changes[kind].version = version
              /\ changes'[kind].phase \in {"succeeded", "failed"} =>
            \A i \in 1..Len(auths) :
              /\ auths'[i].id = auths[i].id
              /\ IF auths[i].id = changes[kind].row.id /\ kind # "delete"
                 THEN \/ auths'[i].setting = changes[kind].row.setting
                      \/ auths'[i].setting = auths[i].setting /\ changes'[kind].phase = "failed"
                 ELSE auths'[i].setting = auths[i].setting /\ auths'[i].key = auths[i].key
<1>1. ASSUME ProvidersInv, [ProvidersNext]_providerVars PROVE [Local]_providerVars
  <2> SUFFICES ASSUME ProvidersNext, NEW kind \in {"edit", "models", "delete"},
                      changes[kind].phase = "putting", changes[kind].version = version,
                      changes'[kind].phase \in {"succeeded", "failed"}
               PROVE  \A i \in 1..Len(auths) :
              /\ auths'[i].id = auths[i].id
              /\ IF auths[i].id = changes[kind].row.id /\ kind # "delete"
                 THEN \/ auths'[i].setting = changes[kind].row.setting
                      \/ auths'[i].setting = auths[i].setting /\ changes'[kind].phase = "failed"
                 ELSE auths'[i].setting = auths[i].setting /\ auths'[i].key = auths[i].key
    BY <1>1
  <2>1. kind \in ChangeKinds \ {"add"}
    BY DEF ChangeKinds
  <2>2. changes \in [ChangeKinds -> ChangeShapes]
    BY <1>1 DEF ProvidersInv, ProvidersTyped
  <2>3. changes'[kind] # changes[kind]
    OBVIOUS
  <2>4. ASSUME NEW k \in ChangeKinds, NEW d, changes' = [changes EXCEPT ![k] = d]
        PROVE  k = kind
    BY <2>1, <2>2, <2>3, <2>4
  <2>5. NoChange.phase = "idle"
    BY DEF NoChange
  <2>6. ASSUME NEW k \in ChangeKinds, changes' = [changes EXCEPT ![k] = NoChange]
        PROVE  FALSE
    <3>1. k = kind
      BY <2>4, <2>6
    <3>2. changes'[kind] = NoChange
      BY <2>2, <2>6, <3>1
    <3> QED
      BY <2>5, <3>2
  <2>7. ASSUME NEW k, NEW index, NEW row, NEW v, Start(k, index, row, v)
        PROVE  changes'[kind].phase = changes[kind].phase \/ changes'[kind].phase = "reading"
    BY <2>1, <2>2, <2>7 DEF Start
  <2>8. ASSUME NEW k \in ChangeKinds, ReadLatest(k) PROVE FALSE
    <3>1. changes[k].phase = "reading"
      BY <2>8 DEF ReadLatest
    <3>2. changes'[kind] = changes[kind]
      BY <2>1, <2>2, <2>8, <3>1 DEF ReadLatest
    <3> QED
      BY <2>3, <3>2
  <2>9. ASSUME NEW k \in ChangeKinds, PutProviders(k) \/ PutStops(k) PROVE k = kind
    BY <2>4, <2>9 DEF PutProviders, PutStops
  <2>10. \E k \in ChangeKinds : PutProviders(k) \/ PutStops(k)
    <3>1. ~ UNCHANGED changes
      BY <2>3
    <3>2. \A k, index, row, v : ~ Start(k, index, row, v)
      BY <2>7
    <3>3. \A k \in ChangeKinds :
             ~ReadLatest(k) /\ ~ReadFails(k) /\ ~ChangeLost(k) /\ ~ChangeAnswered(k)
      BY <2>6, <2>8 DEF ReadFails, ChangeLost, ChangeAnswered
    <3> QED
      BY <3>1, <3>2, <3>3 DEF ProvidersNext, FetchItems, ItemsArrive, HandleAdd, HandleDelete,
         HandleSaveConfiguredModels, PersistEdit, AuthCreated, AuthDeleted, AuthSet, Elsewhere
  <2>11. PutProviders(kind) \/ PutStops(kind)
    BY <2>9, <2>10
  <2> QED
    BY <1>1, <2>1, <2>11, SaveIsLocal
<1>2. FreshSaveIsLocal <=> [][Local]_providerVars
  BY DEF FreshSaveIsLocal
<1> HIDE DEF Local
<1> QED
  BY <1>1, <1>2, ProvidersInvariant, PTL DEF ProvidersSpec

(***************************************************************************)
(* Users: nobody is deleted without a confirmation                         *)
(***************************************************************************)

\* A status that says deleted, of user u, was agreed to.
Agreed(u, status) == status = "deleted" => u \in agreed
AgreedForm(d) ==
    /\ d = [kind |-> d.kind, user |-> d.user, balance |-> d.balance, status |-> d.status]
    /\ Agreed(d.user, d.status)

\* The inductive invariant: whatever says of a user that it is deleted - the
\* table, a row read or shown, a form that would write it back - and whatever
\* will delete one is about a user whose deletion was agreed to.
UsersInv ==
    /\ people = [u \in UserIds |-> people[u]]
    /\ \A u \in UserIds : /\ people[u] = Person(people[u].balance, people[u].status)
                          /\ Agreed(u, people[u].status)
    /\ userLoad = [phase |-> userLoad.phase, rows |-> userLoad.rows]
    /\ \A r \in userRows \cup userLoad.rows : Agreed(r.id, r.is.status)
    /\ AgreedForm(dialog) /\ \A s \in saves : AgreedForm(s)
    /\ batch = [on |-> batch.on, left |-> batch.left] /\ batch.left \subseteq agreed
    /\ deleting \subseteq agreed

\* At first nobody is deleted, and nothing is under way.
LEMMA UsersInvInit == UsersInit => UsersInv
<1> SUFFICES ASSUME UsersInit PROVE UsersInv
  OBVIOUS
<1>1. ASSUME NEW u \in UserIds
      PROVE  people[u] = Person(people[u].balance, people[u].status) /\ people[u].status # "deleted"
  BY DEF UsersInit, Person, Absent
<1>2. people = [u \in UserIds |-> people[u]]
  BY DEF UsersInit
<1> QED
  BY <1>1, <1>2 DEF UsersInit, UsersInv, Agreed, AgreedForm, AskedLoad, NoForm, NoBatch

\* What is agreed to stays so: a state that is kept stays right.
LEMMA StillAgreed ==
    ASSUME agreed \subseteq agreed'
    PROVE  /\ \A u, status : Agreed(u, status) => Agreed(u, status)'
           /\ \A d : AgreedForm(d) => AgreedForm(d)'
  BY DEF Agreed, AgreedForm

\* A form that is made with a status that was agreed to, or keeps its status.
LEMMA FormMade ==
    ASSUME NEW kind, NEW u, NEW balance, NEW status, Agreed(u, status)
    PROVE  AgreedForm([kind |-> kind, user |-> u, balance |-> balance, status |-> status])
  BY DEF AgreedForm

\* A form stays agreed to when its status changes to one that is.
LEMMA FormToggled ==
    ASSUME NEW d, AgreedForm(d), NEW status, Agreed(d.user, status)
    PROVE  AgreedForm([d EXCEPT !.status = status])
<1>1. [d EXCEPT !.status = status] = [kind |-> d.kind, user |-> d.user, balance |-> d.balance, status |-> status]
  BY DEF AgreedForm
<1> QED
  BY <1>1, FormMade

\* A payment leaves the status of a user alone.
LEMMA PersonPaid ==
    ASSUME NEW balance, NEW status, NEW more
    PROVE  [Person(balance, status) EXCEPT !.balance = @ + more] = Person(balance + more, status)
  BY DEF Person

\* A change of the table for one user keeps it right.
LEMMA PersonMoved ==
    ASSUME UsersInv, NEW u, NEW p, p = Person(p.balance, p.status), Agreed(u, p.status),
           UNCHANGED agreed, people' = [people EXCEPT ![u] = p]
    PROVE  /\ people' = [v \in UserIds |-> people'[v]]
           /\ \A v \in UserIds : /\ people'[v] = Person(people'[v].balance, people'[v].status)
                                 /\ Agreed(v, people[v].status)'
<1>1. people' = [v \in UserIds |-> IF v = u THEN p ELSE people[v]]
  BY DEF UsersInv
<1> QED
  BY <1>1 DEF UsersInv, Agreed

\* A load that is restarted has no rows yet.
LEMMA InvalidatedEmpty ==
    ASSUME UsersInv
    PROVE  Invalidated = [phase |-> Invalidated.phase, rows |-> Invalidated.rows] /\ Invalidated.rows = {}
  BY DEF Invalidated, IdleLoad, AskedLoad, UsersInv

\* A deletion that was agreed to, whatever comes of it.
LEMMA DeleteAgreed ==
    ASSUME UsersInv, NEW u \in agreed, NEW ok, DeleteUser(u, ok), UNCHANGED agreed,
           batch' = [on |-> batch'.on, left |-> batch'.left], batch'.left \subseteq batch.left,
           deleting' \subseteq deleting, UNCHANGED <<userRows, dialog, saves>>
    PROVE  UsersInv'
<1> DEFINE p == [people[u] EXCEPT !.status = "deleted"]
<1>1. CASE u \in UserIds /\ MarkDeleted(u)
  <2>1. p = Person(p.balance, p.status) /\ Agreed(u, p.status)
    BY <1>1 DEF UsersInv, Person, Agreed
  <2>2. people' = [people EXCEPT ![u] = p]
    BY <1>1 DEF MarkDeleted
  <2> HIDE DEF p
  <2>3. /\ people' = [v \in UserIds |-> people'[v]]
        /\ \A v \in UserIds : /\ people'[v] = Person(people'[v].balance, people'[v].status)
                              /\ Agreed(v, people[v].status)'
    BY <2>1, <2>2, PersonMoved
  <2> QED
    BY <2>3, InvalidatedEmpty DEF DeleteUser, UsersInv, Agreed, AgreedForm, Person
<1>2. CASE u \notin UserIds \/ ~MarkDeleted(u)
  <2>1. UNCHANGED people
    BY <1>2 DEF DeleteUser, MarkDeleted, UsersInv
  <2> QED
    BY <2>1, InvalidatedEmpty DEF DeleteUser, UsersInv, Agreed, AgreedForm, Person
<1> QED
  BY <1>1, <1>2

\* A row that is read says what the table says.
LEMMA ReadAgreed ==
    ASSUME UsersInv, NEW n, NEW r \in PageRows(n)
    PROVE  Agreed(r.id, r.is.status)
<1>1. PICK u \in UserIds : r = UserRow(u)
  BY DEF PageRows, People
<1> QED
  BY <1>1 DEF UserRow, UsersInv

\* A save that comes off writes what its form says, or leaves the status.
LEMMA SavedAgreed ==
    ASSUME UsersInv, NEW s \in saves, DialogSaved(s)
    PROVE  UsersInv'
<1>1. AgreedForm(s)
  BY DEF UsersInv
<1>2. /\ people' = [v \in UserIds |-> people'[v]]
      /\ \A v \in UserIds : /\ people'[v] = Person(people'[v].balance, people'[v].status)
                            /\ Agreed(v, people[v].status)'
  <2>1. ASSUME NEW balance, NEW status, Agreed(s.user, status),
               people' = [people EXCEPT ![s.user] = Person(balance, status)]
        PROVE  <1>2!:
    <3> DEFINE p == Person(balance, status)
    <3>1. p = Person(p.balance, p.status) /\ p.status = status
      BY DEF Person
    <3>2. people' = [people EXCEPT ![s.user] = p] /\ UNCHANGED agreed
      BY <2>1 DEF DialogSaved
    <3> HIDE DEF p
    <3> QED
      BY <2>1, <3>1, <3>2, PersonMoved
  <2>2. CASE AdminUsersUpdate(s)
    BY <1>1, <2>1, <2>2 DEF AdminUsersUpdate, AgreedForm
  <2>3. CASE AdminUsersCreate(s)
    <3>1. Agreed(s.user, "active")
      BY DEF Agreed
    <3> QED
      BY <2>1, <2>3, <3>1 DEF AdminUsersCreate
  <2>4. CASE AdminUsersDeposit(s)
    <3>1. CASE s.user \in UserIds
      <4>1. /\ people[s.user] = Person(people[s.user].balance, people[s.user].status)
            /\ Agreed(s.user, people[s.user].status)
        BY <3>1 DEF UsersInv
      <4>2. people' = [people EXCEPT ![s.user] =
                         Person(people[s.user].balance + s.balance, people[s.user].status)]
        <5> DEFINE p == people[s.user]
        <5>1. people' = [people EXCEPT ![s.user] = [p EXCEPT !.balance = @ + s.balance]]
          BY <2>4 DEF AdminUsersDeposit
        <5>2. p = Person(p.balance, p.status)
          BY <4>1
        <5> HIDE DEF p
        <5>3. [p EXCEPT !.balance = @ + s.balance] = Person(p.balance + s.balance, p.status)
          BY <5>2, PersonPaid
        <5> QED
          BY <5>1, <5>3 DEF p
      <4> QED
        BY <2>1, <4>1, <4>2
    <3>2. CASE s.user \notin UserIds
      <4>1. UNCHANGED <<people, agreed>>
        BY <2>4, <3>2 DEF AdminUsersDeposit, UsersInv, DialogSaved
      <4> QED
        BY <4>1 DEF UsersInv, Agreed
    <3> QED
      BY <3>1, <3>2
  <2> QED
    BY <2>2, <2>3, <2>4 DEF DialogSaved
<1>3. AgreedForm(dialog)' /\ \A t \in saves' : AgreedForm(t)'
  <2>1. Agreed(0, "") /\ AgreedForm(NoForm)
    BY FormMade DEF NoForm, Agreed
  <2>2. AgreedForm(dialog') /\ UNCHANGED agreed /\ \A t \in saves' : AgreedForm(t)
    BY <2>1 DEF DialogSaved, UsersInv
  <2> QED
    BY <2>2 DEF AgreedForm, Agreed
<1>4. /\ userLoad' = [phase |-> userLoad'.phase, rows |-> userLoad'.rows]
      /\ \A r \in userRows' \cup userLoad'.rows : Agreed(r.id, r.is.status)'
  BY InvalidatedEmpty DEF DialogSaved, UsersInv, Agreed
<1> QED
  BY <1>2, <1>3, <1>4 DEF DialogSaved, UsersInv

\* No step of the page, of the server or of the ledger breaks it.
LEMMA UsersInvStep == UsersInv /\ [UsersNext]_userVars => UsersInv'
<1> SUFFICES ASSUME UsersInv, [UsersNext]_userVars PROVE UsersInv'
  OBVIOUS
<1>k. UNCHANGED <<people, userRows, userLoad, agreed, batch, deleting, dialog, saves>> => UsersInv'
  BY DEF UsersInv, Agreed, AgreedForm, Person
<1>f. ASSUME AgreedForm(dialog)', \A s \in saves' : AgreedForm(s)',
             UNCHANGED <<people, userRows, userLoad, agreed, batch, deleting>>
      PROVE  UsersInv'
  BY <1>f DEF UsersInv, Agreed, Person
<1>1. CASE UsersRead
  <2>1. userLoad' = [phase |-> userLoad'.phase, rows |-> userLoad'.rows] /\ userLoad'.rows = PageRows(userPage)
    BY <1>1 DEF UsersRead
  <2> QED
    BY <1>1, <2>1, ReadAgreed DEF UsersRead, UsersInv, Agreed, AgreedForm, Person
<1>2. CASE UsersShown
  BY <1>2 DEF UsersShown, IdleLoad, UsersInv, Agreed, AgreedForm, Person
<1>3. ASSUME NEW n, TurnUsersPage(n) \/ RefetchUsers
      PROVE  UsersInv'
  BY <1>3 DEF TurnUsersPage, RefetchUsers, AskedLoad, UsersInv, Agreed, AgreedForm, Person
<1>4. ASSUME NEW u, HandleSelectUser(u) \/ AskToDelete(u) \/ AskToDeleteBatch \/ HandleSelectAllVisible
      PROVE  UsersInv'
  BY <1>4, <1>k DEF HandleSelectUser, AskToDelete, AskToDeleteBatch, HandleSelectAllVisible, Selects
<1>5. ASSUME NEW ok \in BOOLEAN, SettleConfirm(ok)
      PROVE  UsersInv'
  <2>1. agreed \subseteq agreed' /\ deleting' \subseteq agreed'
    BY <1>5 DEF SettleConfirm, UsersInv
  <2>2. batch' = [on |-> batch'.on, left |-> batch'.left] /\ batch'.left \subseteq agreed'
    BY <1>5 DEF SettleConfirm, UsersInv
  <2>3. UNCHANGED <<people, userRows, userLoad, dialog, saves>>
    BY <1>5 DEF SettleConfirm
  <2> QED
    BY <2>1, <2>2, <2>3 DEF UsersInv, Agreed, AgreedForm, Person
<1>6. ASSUME NEW u \in UserIds, NEW ok \in BOOLEAN, HandleDeleteUser(u, ok)
      PROVE  UsersInv'
  BY <1>6, DeleteAgreed DEF HandleDeleteUser, UsersInv
<1>7. ASSUME NEW u \in UserIds, NEW ok \in BOOLEAN, BatchStep(u, ok)
      PROVE  UsersInv'
  <2>1. batch' = [on |-> batch'.on, left |-> batch'.left] /\ batch'.left \subseteq batch.left /\ u \in agreed
    BY <1>7 DEF BatchStep, UsersInv
  <2> QED
    BY <1>7, <2>1, DeleteAgreed DEF BatchStep
<1>8. CASE BatchEnds
  BY <1>8 DEF BatchEnds, NoBatch, UsersInv, Agreed, AgreedForm, Person
<1>9. ASSUME NEW r \in userRows, OpenEdit(r) \/ OpenDeposit(r)
      PROVE  UsersInv'
  <2>1. Agreed(r.id, r.is.status)
    BY DEF UsersInv
  <2>2. AgreedForm(dialog)'
    <3>1. Agreed(r.id, "")
      BY DEF Agreed
    <3>2. AgreedForm(dialog')
      BY <1>9, <2>1, <3>1, FormMade DEF OpenEdit, OpenDeposit
    <3> QED
      BY <1>9, <3>2 DEF OpenEdit, OpenDeposit, AgreedForm, Agreed
  <2>3. \A s \in saves' : AgreedForm(s)'
    BY <1>9 DEF OpenEdit, OpenDeposit, AgreedForm, Agreed, UsersInv
  <2> QED
    BY <1>9, <1>f, <2>2, <2>3 DEF OpenEdit, OpenDeposit
<1>10. ASSUME NEW u, ToggleStatus \/ OpenCreate(u) \/ CloseDialog
       PROVE  UsersInv'
  <2>1. AgreedForm(dialog)'
    <3>1. \A v : Agreed(v, "active") /\ Agreed(v, "disabled") /\ Agreed(v, "")
      BY DEF Agreed
    <3>2. CASE ToggleStatus
      <4>1. PICK status \in {"active", "disabled"} : dialog' = [dialog EXCEPT !.status = status]
        BY <3>2 DEF ToggleStatus
      <4>2. Agreed(dialog.user, status) /\ AgreedForm(dialog)
        BY <3>1 DEF UsersInv
      <4> QED
        BY <3>2, <4>1, <4>2, FormToggled DEF ToggleStatus, AgreedForm, Agreed
    <3>3. CASE OpenCreate(u) \/ CloseDialog
      <4>1. AgreedForm(dialog')
        BY <3>1, <3>3, FormMade DEF OpenCreate, CloseDialog, NoForm
      <4> QED
        BY <3>3, <4>1 DEF OpenCreate, CloseDialog, AgreedForm, Agreed
    <3> QED
      BY <1>10, <3>2, <3>3
  <2>2. \A s \in saves' : AgreedForm(s)'
    BY <1>10 DEF ToggleStatus, OpenCreate, CloseDialog, AgreedForm, Agreed, UsersInv
  <2> QED
    BY <1>10, <1>f, <2>1, <2>2 DEF ToggleStatus, OpenCreate, CloseDialog
<1>11. CASE SubmitDialog
  BY <1>11, <1>f DEF SubmitDialog, AgreedForm, Agreed, UsersInv
<1>12. ASSUME NEW s \in saves, DialogSaved(s)
       PROVE  UsersInv'
  BY <1>12, SavedAgreed
<1>13. ASSUME NEW s \in saves, DialogFailed(s)
       PROVE  UsersInv'
  BY <1>13, <1>f DEF DialogFailed, AgreedForm, Agreed, UsersInv
<1>14. ASSUME NEW u \in UserIds, Spend(u)
       PROVE  UsersInv'
  <2> DEFINE p == [people[u] EXCEPT !.balance = @ - 1]
  <2>1. p = Person(p.balance, p.status) /\ Agreed(u, p.status)
    BY DEF UsersInv, Person
  <2>2. people' = [people EXCEPT ![u] = p] /\ UNCHANGED agreed
    BY <1>14 DEF Spend
  <2> HIDE DEF p
  <2>3. /\ people' = [v \in UserIds |-> people'[v]]
        /\ \A v \in UserIds : /\ people'[v] = Person(people'[v].balance, people'[v].status)
                              /\ Agreed(v, people[v].status)'
    BY <2>1, <2>2, PersonMoved
  <2> QED
    BY <1>14, <2>3 DEF Spend, UsersInv, Agreed, AgreedForm
<1>15. CASE UNCHANGED userVars
  BY <1>15, <1>k DEF userVars
<1> QED
  BY <1>1, <1>2, <1>3, <1>4, <1>5, <1>6, <1>7, <1>8, <1>9, <1>10, <1>11, <1>12, <1>13, <1>14, <1>15
     DEF UsersNext

\* For any users, balances and number of changes asked for: nobody is deleted
\* but who was named by a confirmation.
THEOREM DeletedAlwaysConfirmed == UsersSpec => []DeletedWereConfirmed
<1>1. UsersInv => DeletedWereConfirmed
  BY DEF UsersInv, DeletedWereConfirmed, Agreed
<1> QED
  BY <1>1, UsersInvInit, UsersInvStep, PTL DEF UsersSpec

(***************************************************************************)
(* Subscriptions: usage is not invented, the page shows what is stored     *)
(***************************************************************************)

Subs == [status: {"active", "suspended", "revoked"}, days: Nat, used: Nat]
SubLimits == Limits \cup {Unlimited}
RowChanges == {"extend", "revoke", "reactivate", "resetQuota"}
SubCalls ==
    [what: RowChanges \cup {"assign", "createPackage", "updatePackage", "deletePackage"},
     id: SubIds \cup {0}, limit: SubLimits,
     phase: {"sent", "loaded", "done", "failed"}, row: Subs]

SubTypes ==
    /\ subsTable \in [SubIds -> Subs]
    /\ consumed \in [SubIds -> Nat]
    /\ handlers \subseteq SubCalls
    /\ extending \in [open: BOOLEAN, id: SubIds \cup {0}, waiting: BOOLEAN]
    /\ packageForm \in [open: BOOLEAN, new: BOOLEAN, limit: SubLimits, saving: BOOLEAN]
    /\ package \in [there: BOOLEAN, limit: SubLimits]
    /\ packageRow \in [there: BOOLEAN, limit: SubLimits]

\* A handler that will save a row holds no more usage than there ever was.
HandlerInv(c) ==
    /\ OnRow(c) => c.id \in SubIds
    /\ c.phase = "loaded" => OnRow(c) /\ c.row.used <= consumed[c.id]

\* A change that is saved and whose answer is not there yet.
SubUnheard == \E c \in handlers : c.phase = "done"
SubsMatch ==
    \A s \in SubIds : subRows[s].status = subsTable[s].status /\ subRows[s].days = subsTable[s].days

\* The inductive invariant: neither a row nor a copy of it on its way back
\* holds more usage than there ever was, and the screen is only behind the
\* table while something says so.
SubsInv ==
    /\ SubTypes
    /\ UsageNeverInvented
    /\ extending.open => extending.id \in SubIds
    /\ \A c \in handlers : HandlerInv(c)
    /\ subsLoad = "idle" /\ ~subUnsure /\ ~SubUnheard => SubsMatch

\* The first subscription is one.
LEMMA SubIsSub == Sub \in Subs
  BY DEF Sub, Subs

\* At first nothing is used, and the screen shows the table.
LEMMA SubsInvInit == SubsInit => SubsInv
<1> SUFFICES ASSUME SubsInit PROVE SubsInv
  OBVIOUS
<1>1. subsTable \in [SubIds -> Subs] /\ consumed \in [SubIds -> Nat]
  BY SubIsSub DEF SubsInit
<1>2. UsageNeverInvented
  BY DEF SubsInit, UsageNeverInvented, Sub
<1>3. SubTypes
  BY <1>1 DEF SubsInit, SubTypes, NoExtension, NoPackageForm, SubLimits
<1> QED
  BY <1>2, <1>3 DEF SubsInit, SubsInv, SubsMatch, NoExtension

\* A request that is sent has not done anything.
LEMMA SubCallSent ==
    ASSUME SubsInv, NEW what \in RowChanges \cup {"assign", "createPackage", "updatePackage", "deletePackage"},
           NEW id \in SubIds \cup {0}, NEW limit \in SubLimits,
           what \in RowChanges => id \in SubIds, AskServer(SubCall(what, id, limit)),
           (SubTypes /\ (extending.open => extending.id \in SubIds))'
    PROVE  SubsInv'
<1> DEFINE c == SubCall(what, id, limit)
<1>1. c \in SubCalls /\ c.phase = "sent" /\ (OnRow(c) => c.id \in SubIds)
  BY SubIsSub DEF SubCall, SubCalls, OnRow, RowChanges
<1>2. /\ handlers' = handlers \cup {c}
      /\ UNCHANGED <<subsTable, consumed, package, subRows, packageRow, subsLoad, subUnsure>>
  BY DEF AskServer
<1> HIDE DEF c
<1> QED
  BY <1>1, <1>2 DEF SubsInv, SubTypes, HandlerInv, SubUnheard, SubsMatch, UsageNeverInvented, OnRow

\* A request whose handler moves on, or that is answered, leaves the table.
LEMMA SubCallMoved ==
    ASSUME SubsInv, NEW c \in handlers, handlers' \subseteq SubCalls,
           \A d \in handlers' : d \in handlers \/ HandlerInv(d)',
           c.phase = "done" => subsLoad' # "idle" \/ subUnsure',
           handlers \ {c} \subseteq handlers',
           subsLoad' = subsLoad \/ subsLoad' = "asked", subUnsure => subUnsure',
           SubTypes', extending' = extending \/ ~extending'.open,
           UNCHANGED <<subsTable, consumed, subRows>>
    PROVE  SubsInv'
<1>1. UsageNeverInvented' /\ (SubsMatch => SubsMatch') /\ \A d \in handlers' : HandlerInv(d)'
  BY DEF SubsInv, UsageNeverInvented, SubsMatch, HandlerInv
<1>2. subsLoad' = "idle" /\ ~subUnsure' /\ ~SubUnheard' => SubsMatch
  BY DEF SubsInv, SubUnheard
<1> QED
  BY <1>1, <1>2 DEF SubsInv

\* A row that was loaded is saved, whatever was added to it since.
LEMMA SaveNeverInvents ==
    ASSUME SubsInv, NEW c \in handlers, SaveRow(c)
    PROVE  SubsInv'
<1> DEFINE row == ChangedRow(c.what, c.row)
           d == [c EXCEPT !.phase = "done", !.row = Sub]
<1>1. c \in SubCalls /\ c.phase = "loaded" /\ c.what \in RowChanges /\ c.id \in SubIds /\ c.row \in Subs
      /\ c.row.used <= consumed[c.id] /\ consumed[c.id] \in Nat
  BY DEF SaveRow, SubsInv, SubTypes, HandlerInv, OnRow, RowChanges, SubCalls
<1>2. row \in Subs /\ row.used <= consumed[c.id]
  <2>1. CASE c.what = "extend"
    BY <1>1, <2>1 DEF ChangedRow, Subs
  <2>2. CASE c.what = "revoke"
    BY <1>1, <2>2 DEF ChangedRow, Subs
  <2>3. CASE c.what = "reactivate"
    BY <1>1, <2>3 DEF ChangedRow, Subs
  <2>4. CASE c.what = "resetQuota"
    BY <1>1, <2>4 DEF ChangedRow, Subs
  <2> QED
    BY <1>1, <2>1, <2>2, <2>3, <2>4 DEF RowChanges
<1>3. d \in SubCalls /\ d.phase = "done" /\ d.what = c.what /\ d.id = c.id
  BY <1>1, SubIsSub DEF SubCalls
<1>4. /\ subsTable' = [subsTable EXCEPT ![c.id] = row]
      /\ handlers' = (handlers \ {c}) \cup {d}
      /\ UNCHANGED <<consumed, package, subRows, packageRow, subsLoad, extending, packageForm, assigning, subUnsure>>
  BY DEF SaveRow, Dialogs
<1> HIDE DEF row, d
<1>5. subsTable' \in [SubIds -> Subs] /\ UsageNeverInvented'
  BY <1>1, <1>2, <1>4 DEF SubsInv, SubTypes, UsageNeverInvented
<1>6. handlers' \subseteq SubCalls /\ SubUnheard' /\ \A e \in handlers' : HandlerInv(e)'
  BY <1>1, <1>3, <1>4 DEF SubsInv, SubTypes, SubUnheard, HandlerInv, OnRow
<1>7. SubTypes'
  BY <1>4, <1>5, <1>6 DEF SubsInv, SubTypes
<1> QED
  BY <1>4, <1>5, <1>6, <1>7 DEF SubsInv

\* No order of the dialogs, the handlers, the answers and the usage breaks it.
LEMMA SubsInvStep == SubsInv /\ [SubsNext]_subVars => SubsInv'
<1> SUFFICES ASSUME SubsInv, [SubsNext]_subVars PROVE SubsInv'
  OBVIOUS
<1>k. ASSUME UNCHANGED <<Server, subRows, subsLoad, subUnsure>>,
             SubTypes', extending'.open => extending'.id \in SubIds
      PROVE  SubsInv'
  BY <1>k DEF Server, SubsInv, UsageNeverInvented, HandlerInv, SubUnheard, SubsMatch
<1>0. 0 \in SubIds \cup {0} /\ Unlimited \in SubLimits
  BY DEF SubLimits
<1>1. CASE HandleExtend
  <2>1. extending.id \in SubIds /\ extending' \in [open: BOOLEAN, id: SubIds \cup {0}, waiting: BOOLEAN]
        /\ extending'.id = extending.id
    BY <1>1 DEF HandleExtend, SubsInv, SubTypes
  <2>2. AskServer(SubCall("extend", extending.id, Unlimited))
    BY <1>1 DEF HandleExtend
  <2>3. handlers' \subseteq SubCalls
    BY <1>0, <2>1, <2>2, SubIsSub DEF AskServer, SubCall, SubCalls, RowChanges, SubsInv, SubTypes
  <2>4. SubTypes'
    BY <1>1, <2>1, <2>2, <2>3 DEF HandleExtend, AskServer, SubsInv, SubTypes
  <2> QED
    BY <1>0, <2>1, <2>2, <2>4, SubCallSent DEF RowChanges
<1>2. ASSUME NEW what, NEW s \in SubIds, ChangeSub(what, s)
      PROVE  SubsInv'
  <2>1. what \in RowChanges /\ AskServer(SubCall(what, s, Unlimited))
    BY <1>2 DEF ChangeSub, RowOffers, RowChanges
  <2>2. handlers' \subseteq SubCalls
    BY <1>0, <2>1, SubIsSub DEF AskServer, SubCall, SubCalls, RowChanges, SubsInv, SubTypes
  <2>3. (SubTypes /\ (extending.open => extending.id \in SubIds))'
    BY <1>2, <2>1, <2>2 DEF ChangeSub, Dialogs, AskServer, SubsInv, SubTypes
  <2> QED
    BY <1>0, <2>1, <2>3, SubCallSent
<1>3. ASSUME NEW what \in {"assign", "createPackage", "updatePackage", "deletePackage"},
             NEW limit \in SubLimits, AskServer(SubCall(what, 0, limit)), UNCHANGED extending,
             packageForm' \in [open: BOOLEAN, new: BOOLEAN, limit: SubLimits, saving: BOOLEAN]
      PROVE  SubsInv'
  <2>1. handlers' \subseteq SubCalls
    BY <1>0, <1>3, SubIsSub DEF AskServer, SubCall, SubCalls, SubsInv, SubTypes
  <2>2. (SubTypes /\ (extending.open => extending.id \in SubIds))'
    BY <1>3, <2>1 DEF AskServer, SubsInv, SubTypes
  <2> QED
    BY <1>0, <1>3, <2>2, SubCallSent DEF RowChanges
<1>4. CASE HandleAssign \/ HandleDeleteGroup
  BY <1>0, <1>3, <1>4 DEF HandleAssign, HandleDeleteGroup, Dialogs, SubsInv, SubTypes
<1>5. CASE HandleSaveGroup
  <2>1. packageForm.limit \in SubLimits
        /\ packageForm' \in [open: BOOLEAN, new: BOOLEAN, limit: SubLimits, saving: BOOLEAN]
    BY <1>5 DEF HandleSaveGroup, SubsInv, SubTypes
  <2> QED
    BY <1>3, <1>5, <2>1 DEF HandleSaveGroup
<1>6. ASSUME NEW s \in SubIds, OpenExtend(s)
      PROVE  SubsInv'
  <2>1. extending' \in [open: BOOLEAN, id: SubIds \cup {0}, waiting: BOOLEAN] /\ extending'.id = s
    BY <1>6 DEF OpenExtend, SubsInv, SubTypes
  <2> QED
    BY <1>6, <1>k, <2>1 DEF OpenExtend, Server, SubsInv, SubTypes
<1>7. ASSUME NEW new \in BOOLEAN, NEW limit \in SubLimits, OpenAssign \/ OpenPackage(new) \/ TypeLimit(limit)
      PROVE  SubsInv'
  <2>1. packageForm' \in [open: BOOLEAN, new: BOOLEAN, limit: SubLimits, saving: BOOLEAN]
    BY <1>7, <1>0 DEF OpenAssign, OpenPackage, TypeLimit, SubsInv, SubTypes
  <2> QED
    BY <1>7, <1>k, <2>1 DEF OpenAssign, OpenPackage, TypeLimit, Server, SubsInv, SubTypes
<1>8. CASE CloseSubDialogs
  <2>1. /\ packageForm' \in [open: BOOLEAN, new: BOOLEAN, limit: SubLimits, saving: BOOLEAN]
        /\ extending' \in [open: BOOLEAN, id: SubIds \cup {0}, waiting: BOOLEAN] /\ ~extending'.open
    BY <1>8 DEF CloseSubDialogs, SubsInv, SubTypes
  <2> QED
    BY <1>8, <1>k, <2>1 DEF CloseSubDialogs, Server, SubsInv, SubTypes
<1>9. ASSUME NEW c \in handlers, LoadRow(c)
      PROVE  SubsInv'
  <2> DEFINE d == [c EXCEPT !.phase = "loaded", !.row = subsTable[c.id]]
  <2>1. c \in SubCalls /\ c.id \in SubIds /\ subsTable[c.id] \in Subs /\ subsTable[c.id].used <= consumed[c.id]
    BY <1>9 DEF LoadRow, SubsInv, SubTypes, HandlerInv, UsageNeverInvented
  <2>2. d \in SubCalls /\ d.what = c.what /\ d.id = c.id /\ d.phase = "loaded" /\ d.row = subsTable[c.id]
    BY <2>1 DEF SubCalls
  <2>3. /\ handlers' = (handlers \ {c}) \cup {d} /\ OnRow(c) /\ c.phase = "sent"
        /\ UNCHANGED <<subsTable, consumed, package, subRows, packageRow, subsLoad, extending, packageForm, subUnsure>>
    BY <1>9 DEF LoadRow, Dialogs
  <2> HIDE DEF d
  <2>4. handlers' \subseteq SubCalls /\ \A e \in handlers' : e \in handlers \/ HandlerInv(e)'
    BY <2>1, <2>2, <2>3 DEF SubsInv, SubTypes, HandlerInv, OnRow
  <2>5. SubTypes'
    BY <2>3, <2>4 DEF SubsInv, SubTypes
  <2> QED
    BY <2>3, <2>4, <2>5, SubCallMoved
<1>10. ASSUME NEW c \in handlers, SaveRow(c)
       PROVE  SubsInv'
  BY <1>10, SaveNeverInvents
<1>11. ASSUME NEW c \in handlers, c.phase = "sent", NEW phase \in {"done", "failed"}, ~OnRow(c),
              handlers' = (handlers \ {c}) \cup {[c EXCEPT !.phase = phase]},
              package' \in [there: BOOLEAN, limit: SubLimits],
              UNCHANGED <<subsTable, consumed, subRows, packageRow, subsLoad, Dialogs, subUnsure>>
       PROVE  SubsInv'
  <2> DEFINE d == [c EXCEPT !.phase = phase]
  <2>1. d \in SubCalls /\ d.what = c.what /\ d.phase = phase
    BY <1>11 DEF SubsInv, SubTypes, SubCalls
  <2>2. handlers' = (handlers \ {c}) \cup {d}
    BY <1>11
  <2> HIDE DEF d
  <2>3. handlers' \subseteq SubCalls /\ \A e \in handlers' : e \in handlers \/ HandlerInv(e)'
    BY <1>11, <2>1, <2>2 DEF SubsInv, SubTypes, HandlerInv, OnRow
  <2>4. SubTypes'
    BY <1>11, <2>3 DEF Dialogs, SubsInv, SubTypes
  <2> QED
    BY <1>11, <2>2, <2>3, <2>4, SubCallMoved DEF Dialogs
<1>12. ASSUME NEW c \in handlers, HandlePackage(c) \/ RefuseAssignment(c)
       PROVE  SubsInv'
  <2>1. package' \in [there: BOOLEAN, limit: SubLimits]
    <3>1. package' \in {package, NoPackage, SaveAdminGroup(c.limit)}
      BY <1>12 DEF HandlePackage, RefuseAssignment
    <3>2. \A limit : NoPackage \in [there: BOOLEAN, limit: SubLimits]
                      /\ SaveAdminGroup(limit) \in [there: BOOLEAN, limit: SubLimits]
      BY <1>0 DEF SaveAdminGroup, NoPackage
    <3> QED
      BY <3>1, <3>2 DEF SubsInv, SubTypes
  <2>2. \E phase \in {"done", "failed"} : handlers' = (handlers \ {c}) \cup {[c EXCEPT !.phase = phase]}
    BY <1>12 DEF HandlePackage, RefuseAssignment
  <2> QED
    BY <1>11, <1>12, <2>1, <2>2 DEF HandlePackage, RefuseAssignment, OnRow, Dialogs
<1>13. ASSUME NEW c \in handlers, SubCallLost(c)
       PROVE  SubsInv'
  <2> DEFINE d == [c EXCEPT !.phase = "failed", !.row = Sub]
  <2>1. d \in SubCalls /\ d.what = c.what /\ d.id = c.id /\ d.phase = "failed"
    BY SubIsSub DEF SubsInv, SubTypes, SubCalls
  <2>2. handlers' = (handlers \ {c}) \cup {d}
    BY <1>13 DEF SubCallLost
  <2> HIDE DEF d
  <2>3. handlers' \subseteq SubCalls /\ \A e \in handlers' : e \in handlers \/ HandlerInv(e)'
    BY <2>1, <2>2 DEF SubsInv, SubTypes, HandlerInv, OnRow
  <2>4. SubTypes'
    BY <1>13, <2>3 DEF SubCallLost, Dialogs, SubsInv, SubTypes
  <2> QED
    BY <1>13, <2>2, <2>3, <2>4, SubCallMoved DEF SubCallLost, Dialogs
<1>14. ASSUME NEW c \in handlers, SubAnswered(c)
       PROVE  SubsInv'
  <2>1. /\ packageForm' \in [open: BOOLEAN, new: BOOLEAN, limit: SubLimits, saving: BOOLEAN]
        /\ extending' \in [open: BOOLEAN, id: SubIds \cup {0}, waiting: BOOLEAN]
        /\ extending' = extending \/ ~extending'.open
    BY <1>14, <1>0 DEF SubAnswered, NoExtension, NoPackageForm, SubsInv, SubTypes
  <2>2. SubTypes'
    BY <1>14, <2>1 DEF SubAnswered, SubsInv, SubTypes
  <2>3. handlers' = handlers \ {c} /\ handlers \subseteq SubCalls
    BY <1>14 DEF SubAnswered, SubsInv, SubTypes
  <2>4. c.phase = "done" => subsLoad' # "idle"
    BY <1>14 DEF SubAnswered, ReloadSubs
  <2>5. subsLoad' = subsLoad \/ subsLoad' = "asked"
    BY <1>14 DEF SubAnswered, ReloadSubs
  <2> QED
    BY <1>14, <2>1, <2>2, <2>3, <2>4, <2>5, SubCallMoved DEF SubAnswered
<1>15. ASSUME NEW s \in SubIds, UseSub(s)
       PROVE  SubsInv'
  <2> DEFINE row == [subsTable[s] EXCEPT !.used = @ + 1]
  <2>1. /\ subsTable[s] \in Subs /\ consumed[s] \in Nat /\ subsTable[s].used <= consumed[s]
    BY DEF SubsInv, SubTypes, UsageNeverInvented
  <2>2. row \in Subs /\ row.used <= consumed[s] + 1
        /\ row.status = subsTable[s].status /\ row.days = subsTable[s].days
    BY <2>1 DEF Subs
  <2>3. subsTable' = [subsTable EXCEPT ![s] = row] /\ consumed' = [consumed EXCEPT ![s] = consumed[s] + 1]
    BY <1>15 DEF UseSub
  <2> HIDE DEF row
  <2>4. /\ subsTable' \in [SubIds -> Subs] /\ consumed' \in [SubIds -> Nat]
        /\ \A t \in SubIds : consumed[t] <= consumed'[t]
        /\ \A t \in SubIds : /\ subsTable'[t].status = subsTable[t].status
                             /\ subsTable'[t].days = subsTable[t].days
    BY <2>1, <2>2, <2>3 DEF SubsInv, SubTypes
  <2>5. UsageNeverInvented'
    BY <2>1, <2>2, <2>3 DEF SubsInv, SubTypes, UsageNeverInvented
  <2>6. \A c \in handlers : HandlerInv(c)'
    <3> SUFFICES ASSUME NEW c \in handlers, c.phase = "loaded"
                 PROVE  c.row.used <= consumed'[c.id]
      BY DEF SubsInv, HandlerInv
    <3>1. c.id \in SubIds /\ c.row.used <= consumed[c.id] /\ c.row.used \in Nat
      BY DEF SubsInv, HandlerInv, SubTypes, SubCalls, Subs
    <3> QED
      BY <2>4, <3>1 DEF SubsInv, SubTypes
  <2> QED
    BY <1>15, <2>4, <2>5, <2>6 DEF UseSub, Dialogs, SubsInv, SubTypes, SubUnheard, SubsMatch
<1>16. CASE SubsLoaded
  BY <1>16 DEF SubsLoaded, Server, Dialogs, SubsInv, SubTypes, UsageNeverInvented, HandlerInv, SubUnheard, SubsMatch
<1>17. CASE SubsNotLoaded
  BY <1>17 DEF SubsNotLoaded, Server, Dialogs, SubsInv, SubTypes, UsageNeverInvented, HandlerInv, SubUnheard, SubsMatch
<1>18. CASE UNCHANGED subVars
  BY <1>18 DEF subVars, SubsInv, SubTypes, UsageNeverInvented, HandlerInv, SubUnheard, SubsMatch
<1> QED
  BY <1>1, <1>2, <1>4, <1>5, <1>6, <1>7, <1>8, <1>9, <1>10, <1>12, <1>13, <1>14, <1>15, <1>16, <1>17, <1>18
     DEF SubsNext, SubLimits

\* For any subscriptions, usage and number of changes: no order of the
\* handlers charges usage that never was, ...
THEOREM UsageNeverEverInvented == SubsSpec => []UsageNeverInvented
<1>1. SubsInv => UsageNeverInvented
  BY DEF SubsInv
<1> QED
  BY <1>1, SubsInvInit, SubsInvStep, PTL DEF SubsSpec

\* ... and a table that is not waiting for anything shows the status and the
\* days there are.
THEOREM SubsShownAlwaysStored == SubsSpec => []SubsShownAreStored
<1>1. SubsInv => SubsShownAreStored
  BY DEF SubsInv, SubsShownAreStored, SubUnheard, SubsMatch
<1> QED
  BY <1>1, SubsInvInit, SubsInvStep, PTL DEF SubsSpec

(***************************************************************************)
(* Auth files: what is deleted was chosen                                  *)
(***************************************************************************)

\* The inductive invariant: what is ticked, and what a deletion that runs has
\* left to do, was chosen.  The records are as they are made.
FilesInv ==
    /\ DeletedWereChosen
    /\ selectedNames \subseteq chosen
    /\ oneDelete = [phase |-> oneDelete.phase, left |-> oneDelete.left] /\ oneDelete.left \subseteq chosen
    /\ batchDelete = [phase |-> batchDelete.phase, left |-> batchDelete.left] /\ batchDelete.left \subseteq chosen

\* At first nothing is ticked.
LEMMA FilesInvInit == FilesInit => FilesInv
  BY DEF FilesInit, FilesInv, DeletedWereChosen, NoJob

\* Erasing by a chosen name erases what was chosen.
LEMMA EraseChosen ==
    ASSUME FilesInv, NEW name \in chosen, Erase(name), UNCHANGED chosen
    PROVE  DeletedWereChosen'
  BY DEF Erase, FindAuthFile, FilesInv, DeletedWereChosen

\* No step of the page, of the server or of an import breaks it.
LEMMA FilesInvStep == FilesInv /\ [FilesNext]_fileVars => FilesInv'
<1> SUFFICES ASSUME FilesInv, [FilesNext]_fileVars PROVE FilesInv'
  OBVIOUS
<1> USE DEF listState, editState, deleteState, history
<1>k. UNCHANGED <<selectedNames, oneDelete, batchDelete, chosen, erased>> => FilesInv'
  BY DEF FilesInv, DeletedWereChosen
<1>1. CASE FilesServed \/ FilesShown \/ HandleRefreshList
  BY <1>1, <1>k DEF FilesServed, FilesShown, HandleRefreshList
<1>2. ASSUME NEW labels \in SUBSET Labels, FilterFiles(labels)
      PROVE  FilesInv'
  BY <1>2, <1>k DEF FilterFiles
<1>3. ASSUME NEW checked \in BOOLEAN, HandleSelectAll(checked)
      PROVE  FilesInv'
  BY <1>3 DEF HandleSelectAll, FilesInv, DeletedWereChosen
<1>4. ASSUME NEW name \in Labels, HandleSelectOne(name)
      PROVE  FilesInv'
  BY <1>4 DEF HandleSelectOne, FilesInv, DeletedWereChosen
<1>5. ASSUME NEW f \in fileRows, OpenDelete(f) \/ OpenFileEdit(f)
      PROVE  FilesInv'
  BY <1>5, <1>k DEF OpenDelete, OpenFileEdit
<1>6. CASE OpenBatchDelete \/ CancelDelete \/ CancelBatchDelete
  BY <1>6, <1>k DEF OpenBatchDelete, CancelDelete, CancelBatchDelete
<1>7. CASE HandleFileDelete
  BY <1>7 DEF HandleFileDelete, FilesInv, DeletedWereChosen
<1>8. CASE HandleBatchDelete
  BY <1>8 DEF HandleBatchDelete, FilesInv, DeletedWereChosen
<1>9. CASE DeleteServed
  <2>1. DeletedWereChosen'
    BY <1>9, EraseChosen DEF DeleteServed, FilesInv
  <2> QED
    BY <1>9, <2>1 DEF DeleteServed, FilesInv
<1>10. CASE DeleteAnswered \/ DeleteLost
  BY <1>10 DEF DeleteAnswered, DeleteLost, NoJob, FilesInv, DeletedWereChosen
<1>11. CASE BatchDeleteStep
  <2>1. PICK name \in batchDelete.left : /\ Erase(name) \/ UNCHANGED <<credentials, erased>>
                                         /\ batchDelete' = [batchDelete EXCEPT !.left = @ \ {name}]
    BY <1>11 DEF BatchDeleteStep
  <2>2. DeletedWereChosen'
    BY <1>11, <2>1, EraseChosen DEF BatchDeleteStep, FilesInv, DeletedWereChosen
  <2> QED
    BY <1>11, <2>1, <2>2 DEF BatchDeleteStep, FilesInv
<1>12. CASE BatchDeleteEnds
  BY <1>12 DEF BatchDeleteEnds, NoJob, FilesInv, DeletedWereChosen
<1>13. ASSUME NEW targets, HandleBatchStatus(targets)
       PROVE  FilesInv'
  BY <1>13, <1>k DEF HandleBatchStatus
<1>14. CASE BatchStatusStep
  BY <1>14, <1>k DEF BatchStatusStep
<1>15. CASE BatchStatusEnds
  BY <1>15 DEF BatchStatusEnds, FilesInv, DeletedWereChosen
<1>16. ASSUME NEW label \in Labels, Imported(label)
       PROVE  FilesInv'
  BY <1>16, <1>k DEF Imported
<1>17. CASE CloseFileEdit \/ HandleEditSave \/ UpdateAuthFile \/ UNCHANGED fileVars
  BY <1>17, <1>k DEF CloseFileEdit, HandleEditSave, UpdateAuthFile, fileVars
<1> QED
  BY <1>1, <1>2, <1>3, <1>4, <1>5, <1>6, <1>7, <1>8, <1>9, <1>10, <1>11, <1>12, <1>13, <1>14, <1>15,
     <1>16, <1>17 DEF FilesNext

\* For any credentials, labels and number of requests, and however the list
\* changes under the selection, only what was chosen is deleted.
THEOREM DeletedAlwaysChosen == FilesSpec => []DeletedWereChosen
<1>1. FilesInv => DeletedWereChosen
  BY DEF FilesInv
<1> QED
  BY <1>1, FilesInvInit, FilesInvStep, PTL DEF FilesSpec

(***************************************************************************)
(* Import of auth files: what is sent is what is shown                     *)
(***************************************************************************)

\* The inductive invariant: files and text are never there at the same time,
\* whichever dialog they come from.
OneSource == picked = <<>> \/ pasted = <<>>

\* At first there is neither.
LEMMA OneSourceInit == ImportInit => OneSource
  BY DEF ImportInit, OneSource

\* What takes files drops the text, and the other way round.
LEMMA OneSourceStep == OneSource /\ [ImportNext]_importVars => OneSource'
<1> SUFFICES ASSUME OneSource, [ImportNext]_importVars PROVE OneSource'
  OBVIOUS
<1>1. CASE OpenImport \/ CloseImport \/ ClearFiles \/ UploadDone
  BY <1>1 DEF OpenImport, CloseImport, ClearFiles, UploadDone, OneSource
<1>2. ASSUME NEW mode \in {"files", "paste"}, HandleModeChange(mode)
      PROVE  OneSource'
  BY <1>2 DEF HandleModeChange, OneSource
<1>3. ASSUME NEW f \in Files, TypePaste(f)
      PROVE  OneSource'
  BY <1>3 DEF TypePaste, OneSource
<1>4. ASSUME NEW files, HandleFileList(files)
      PROVE  OneSource'
  BY <1>4 DEF HandleFileList, OneSource
<1>5. ASSUME NEW r \in readings, FilesRead(r)
      PROVE  OneSource'
  BY <1>5 DEF FilesRead, OneSource
<1>6. CASE HandleUpload \/ RegisterFile \/ UploadFails \/ UNCHANGED importVars
  BY <1>6 DEF HandleUpload, RegisterFile, UploadFails, importVars, OneSource
<1> QED
  BY <1>1, <1>2, <1>3, <1>4, <1>5, <1>6 DEF ImportNext

\* Whichever tab is in view and whatever an earlier dialog still reads, the
\* button sends what is shown.
THEOREM UploadAlwaysSendsWhatIsShown == ImportSpec => []UploadSendsWhatIsShown
<1>1. OneSource => UploadSendsWhatIsShown
  BY DEF OneSource, UploadSendsWhatIsShown, CanUpload, Payload, InView
<1> QED
  BY <1>1, OneSourceInit, OneSourceStep, PTL DEF ImportSpec

(***************************************************************************)
(* Items: a row stands for the item it was read from                       *)
(***************************************************************************)

CrudTexts == Texts \cup {"", "welcome", "1.0"}
Items == [id: Nat, text: CrudTexts, life: Nat, origin: Nat]
Requests == [what: {"create", "save", "delete"}, row: Items, text: CrudTexts, phase: {"sent", "done", "failed"}]
Editors == [row: Items, text: CrudTexts]
Creators == [open: BOOLEAN, name: {""}, text: CrudTexts, sending: BOOLEAN]

\* Whatever may still name an item, and the items themselves.
Seen == crudStore \cup crudRows \cup (UNION lists) \cup {editor.row} \cup {c.row : c \in crudCalls}

NumberedTypes ==
    /\ crudLife \in Nat /\ crudLife >= 1 /\ nextId \in Nat /\ nextId >= 1 /\ minted \in Nat
    /\ Seen \subseteq Items
    /\ crudCalls \subseteq Requests
    /\ editor \in Editors
    /\ creator \in Creators

\* The inductive invariant of the pages whose items are numbered: no number
\* of this life was dealt out that is still to come, and all that is seen of
\* this life under one number is one item.
NumberedInv ==
    /\ NumberedTypes
    /\ \A r \in Seen : r.life <= crudLife /\ (r.life = crudLife => r.id < nextId)
    /\ \A i \in crudStore : i.life = crudLife
    /\ \A r \in Seen, i \in crudStore : r.id = i.id /\ r.life = crudLife => r.origin = i.origin

CrudInv == crudPage \in CrudPages /\ (Numbered => NumberedInv)

\* What is seen, source by source.
LEMMA SeenIs ==
    \A r : r \in Seen <=> \/ r \in crudStore \/ r \in crudRows \/ r = editor.row
                          \/ \E l \in lists : r \in l
                          \/ \E c \in crudCalls : r = c.row
<1> DEFINE R == {c.row : c \in crudCalls}
           L == UNION lists
<1>1. \A r : r \in R <=> \E c \in crudCalls : r = c.row
  OBVIOUS
<1>2. \A r : r \in L <=> \E l \in lists : r \in l
  OBVIOUS
<1>3. Seen = crudStore \cup crudRows \cup L \cup {editor.row} \cup R
  BY DEF Seen
<1> HIDE DEF R, L
<1> QED
  BY <1>1, <1>2, <1>3

\* The same after a step.
LEMMA SeenIsThen ==
    \A r : r \in Seen' <=> \/ r \in crudStore' \/ r \in crudRows' \/ r = editor'.row
                           \/ \E l \in lists' : r \in l
                           \/ \E c \in crudCalls' : r = c.row
<1> DEFINE R == {c.row : c \in crudCalls'}
           L == UNION lists'
<1>1. \A r : r \in R <=> \E c \in crudCalls' : r = c.row
  OBVIOUS
<1>2. \A r : r \in L <=> \E l \in lists' : r \in l
  OBVIOUS
<1>3. Seen' = crudStore' \cup crudRows' \cup L \cup {editor'.row} \cup R
  BY DEF Seen
<1> HIDE DEF R, L
<1> QED
  BY <1>1, <1>2, <1>3

\* The row of no item belongs to no life of the process.
LEMMA NoItemIsItem == NoItem \in Items /\ NoItem.life = 0
  BY DEF NoItem, Items, CrudTexts

\* What a process starts with, whatever its life: at most announcement 1.
LEMMA FirstItemsSmall ==
    ASSUME crudPage \in CrudPages, Numbered
    PROVE  /\ FirstItems \subseteq Items
           /\ \A i \in FirstItems : i.id = 1 /\ i.life = 1 /\ i.origin = 1
           /\ FirstItems # {} => crudPage = "announcements"
<1>1. [id |-> 1, text |-> "welcome", life |-> 1, origin |-> 1] \in Items
  BY DEF Items, CrudTexts
<1>2. CASE crudPage = "announcements"
  BY <1>1, <1>2 DEF FirstItems
<1>3. CASE crudPage = "codes"
  BY <1>3 DEF FirstItems
<1> QED
  BY <1>2, <1>3, CrudPagesAssumption DEF Numbered

\* At first only what the process starts with is seen.
LEMMA CrudInvInit == CrudInit => CrudInv
<1> SUFFICES ASSUME CrudInit, Numbered PROVE NumberedInv
  BY DEF CrudInit, CrudInv
<1>1. Seen = FirstItems \cup {NoItem}
  BY SeenIs, SeenIsThen DEF CrudInit, NotEditing
<1>2. crudPage \in CrudPages /\ crudLife = 1 /\ nextId \in {1, 2} /\ minted = 1 /\ crudStore = FirstItems
      /\ (crudPage = "announcements" => nextId = 2) /\ crudCalls = {}
  BY DEF CrudInit
<1>3. editor \in Editors /\ creator \in Creators
  BY NoItemIsItem DEF CrudInit, NotEditing, Closed, CrudTexts, Editors, Creators
<1> QED
  BY <1>1, <1>2, <1>3, FirstItemsSmall, NoItemIsItem DEF NumberedInv, NumberedTypes

\* A step of the page learns of nothing the server does not have.
LEMMA NothingNewSeen ==
    ASSUME NumberedInv, UNCHANGED crudServer, Seen' \subseteq Seen \cup {NoItem},
           crudCalls' \subseteq Requests, editor' \in Editors,
           creator' \in Creators
    PROVE  NumberedInv'
<1>1. UNCHANGED <<crudLife, nextId, minted, crudStore>>
  BY DEF crudServer
<1>2. \A r \in Seen' : r \in Items /\ r.life <= crudLife /\ (r.life = crudLife => r.id < nextId)
  BY NoItemIsItem DEF NumberedInv, NumberedTypes
<1>3. \A r \in Seen', i \in crudStore : r.id = i.id /\ r.life = crudLife => r.origin = i.origin
  BY NoItemIsItem DEF NumberedInv, NumberedTypes
<1> QED
  BY <1>1, <1>2, <1>3 DEF NumberedInv, NumberedTypes

\* A request asks for a change of an item that is seen, or of none.
LEMMA RequestSent ==
    ASSUME NumberedInv, NEW what \in {"create", "save", "delete"}, NEW row \in Seen \cup {NoItem},
           NEW text \in CrudTexts, Send(Request(what, row, text)), UNCHANGED editor,
           creator' \in Creators
    PROVE  NumberedInv'
<1> DEFINE c == Request(what, row, text)
<1>1. c \in Requests /\ c.row = row
  BY NoItemIsItem DEF Request, Requests, NumberedInv, NumberedTypes
<1>2. crudCalls' = crudCalls \cup {c} /\ UNCHANGED <<crudServer, crudRows, lists>> /\ UNCHANGED crudStore
  BY DEF Send, crudServer
<1> HIDE DEF c
<1>3. Seen' \subseteq Seen \cup {NoItem}
  BY <1>1, <1>2, SeenIs, SeenIsThen
<1>4. crudCalls' \subseteq Requests /\ editor' \in Editors
  BY <1>1, <1>2 DEF NumberedInv, NumberedTypes
<1> QED
  BY <1>2, <1>3, <1>4, NothingNewSeen

\* A request that is handled, lost or answered stays about the same item.
LEMMA PhaseMoved ==
    ASSUME NumberedInv, NEW c \in crudCalls, NEW phase \in {"done", "failed"},
           crudCalls' = (crudCalls \ {c}) \cup {[c EXCEPT !.phase = phase]}
    PROVE  crudCalls' \subseteq Requests /\ {d.row : d \in crudCalls'} \subseteq {d.row : d \in crudCalls}
<1> DEFINE e == [c EXCEPT !.phase = phase]
<1>1. e \in Requests /\ e.row = c.row
  BY DEF NumberedInv, NumberedTypes, Requests
<1>2. crudCalls' = (crudCalls \ {c}) \cup {e}
  OBVIOUS
<1> HIDE DEF e
<1> QED
  BY <1>1, <1>2 DEF NumberedInv, NumberedTypes

\* The three things the server does to its items.
LEMMA MintedFresh ==
    ASSUME NumberedInv, NEW text \in CrudTexts, Minted(text), UNCHANGED crudLife,
           NEW S, S \subseteq Seen \cup crudStore'
    PROVE  /\ nextId' \in Nat /\ nextId' >= 1 /\ minted' \in Nat
           /\ \A i \in crudStore' : i.life = crudLife
           /\ \A r \in S : r \in Items /\ r.life <= crudLife /\ (r.life = crudLife => r.id < nextId')
           /\ \A r \in S, i \in crudStore' : r.id = i.id /\ r.life = crudLife => r.origin = i.origin
<1> DEFINE new == Item(nextId, text, minted + 1)
<1>1. /\ crudStore' = crudStore \cup {new} /\ nextId' = nextId + 1 /\ minted' = minted + 1
  BY DEF Minted
<1>2. new \in Items /\ new.id = nextId /\ new.life = crudLife
  BY DEF Item, Items, NumberedInv, NumberedTypes
<1>3. nextId \in Nat /\ nextId >= 1 /\ minted \in Nat /\ crudLife \in Nat /\ crudLife >= 1 /\ crudStore \subseteq Seen /\ Seen \subseteq Items
  BY SeenIs, SeenIsThen DEF NumberedInv, NumberedTypes
<1> HIDE DEF new
<1>4. \A r \in S : r \in Items /\ r.life <= crudLife /\ (r.life = crudLife => r.id < nextId')
  <2> SUFFICES ASSUME NEW r \in S
               PROVE  r \in Items /\ r.life <= crudLife /\ (r.life = crudLife => r.id < nextId')
    OBVIOUS
  <2>1. CASE r = new
    BY <1>1, <1>2, <1>3, <2>1
  <2>2. CASE r \in Seen
    <3>1. r \in Items /\ r.id \in Nat /\ r.life \in Nat
      BY <1>3, <2>2 DEF Items
    <3> QED
      BY <1>1, <1>3, <2>2, <3>1 DEF NumberedInv
  <2> QED
    BY <1>1, <1>3, <2>1, <2>2
<1>5. \A r \in S, i \in crudStore' : r.id = i.id /\ r.life = crudLife => r.origin = i.origin
  <2> SUFFICES ASSUME NEW r \in S, NEW i \in crudStore', r.id = i.id, r.life = crudLife
               PROVE  r.origin = i.origin
    OBVIOUS
  <2>1. CASE r \in Seen /\ i \in crudStore
    BY <2>1 DEF NumberedInv
  <2>2. CASE r = new /\ i \in crudStore
    BY <1>2, <1>3, <2>2 DEF NumberedInv, Items
  <2>3. CASE r \in Seen /\ i = new
    BY <1>2, <1>3, <2>3 DEF NumberedInv, Items
  <2> QED
    BY <1>1, <1>3, <2>1, <2>2, <2>3
<1>6. \A i \in crudStore' : i.life = crudLife
  BY <1>1, <1>2 DEF NumberedInv
<1> QED
  BY <1>1, <1>3, <1>4, <1>5, <1>6

\* An update changes texts, never the names of items.
LEMMA UpdateSame ==
    ASSUME NumberedInv, NEW id, NEW text \in CrudTexts, UpdateItem(id, text), NEW j \in crudStore'
    PROVE  \E i \in crudStore : j \in Items /\ j.id = i.id /\ j.life = i.life /\ j.origin = i.origin
<1>1. PICK i \in crudStore : j = IF i.id = id THEN [i EXCEPT !.text = text] ELSE i
  BY DEF UpdateItem
<1>2. i \in Items
  BY SeenIs, SeenIsThen DEF NumberedInv, NumberedTypes
<1> QED
  BY <1>1, <1>2 DEF Items

\* A request that is handled leaves every name with its item.
LEMMA HandleKeepsNames ==
    ASSUME NumberedInv, Numbered, NEW c \in crudCalls, Handle(c)
    PROVE  NumberedInv'
<1>1. c \in Requests /\ c.text \in CrudTexts /\ c.row \in Seen
  BY SeenIs, SeenIsThen DEF NumberedInv, NumberedTypes, Requests
<1>2. \E phase \in {"done", "failed"} : crudCalls' = (crudCalls \ {c}) \cup {[c EXCEPT !.phase = phase]}
  BY DEF Handle
<1>3. crudCalls' \subseteq Requests /\ {d.row : d \in crudCalls'} \subseteq {d.row : d \in crudCalls}
  BY <1>2, PhaseMoved
<1>4. UNCHANGED <<crudLife, crudRows, lists, creator, editor>>
  BY DEF Handle, crudServer
<1>5. Seen' \subseteq Seen \cup crudStore' /\ crudStore \subseteq Seen
  BY <1>3, <1>4, SeenIs, SeenIsThen
<1>6. editor' \in Editors /\ creator' \in Creators
  BY <1>4 DEF NumberedInv, NumberedTypes
<1>7. CASE UNCHANGED crudServer
  <2>1. Seen' \subseteq Seen
    BY <1>5, <1>7, SeenIs, SeenIsThen DEF crudServer
  <2> QED
    BY <1>3, <1>6, <1>7, <2>1, NothingNewSeen
<1>8. CASE Minted(c.text)
  <2>1. /\ nextId' \in Nat /\ nextId' >= 1 /\ minted' \in Nat
        /\ \A i \in crudStore' : i.life = crudLife
        /\ \A r \in Seen' : r \in Items /\ r.life <= crudLife /\ (r.life = crudLife => r.id < nextId')
        /\ \A r \in Seen', i \in crudStore' : r.id = i.id /\ r.life = crudLife => r.origin = i.origin
    BY <1>1, <1>4, <1>5, <1>8, MintedFresh
  <2> QED
    BY <1>3, <1>4, <1>6, <2>1 DEF NumberedInv, NumberedTypes
<1>9. CASE UpdateItem(c.row.id, c.text) \/ DeleteItem(c.row.id)
  <2>1. /\ UNCHANGED <<nextId, minted>>
        /\ \A j \in crudStore' : \E i \in crudStore : j \in Items /\ j.id = i.id /\ j.life = i.life /\ j.origin = i.origin
    <3>1. CASE UpdateItem(c.row.id, c.text)
      BY <1>1, <3>1, UpdateSame DEF UpdateItem
    <3>2. CASE DeleteItem(c.row.id)
      BY <1>5, <3>2 DEF DeleteItem, NumberedInv, NumberedTypes
    <3> QED
      BY <1>9, <3>1, <3>2
  <2>2. \A r \in Seen' : r \in Items /\ \E s \in Seen : r.id = s.id /\ r.life = s.life /\ r.origin = s.origin
    BY <1>5, <2>1 DEF NumberedInv, NumberedTypes
  <2>3. \A r \in Seen' : r.life <= crudLife /\ (r.life = crudLife => r.id < nextId)
    BY <2>2 DEF NumberedInv
  <2>4. \A r \in Seen', i \in crudStore' : r.id = i.id /\ r.life = crudLife => r.origin = i.origin
    BY <2>1, <2>2 DEF NumberedInv
  <2>5. \A i \in crudStore' : i.life = crudLife
    BY <2>1 DEF NumberedInv
  <2> QED
    BY <1>3, <1>4, <1>6, <2>1, <2>2, <2>3, <2>4, <2>5 DEF NumberedInv, NumberedTypes
<1> QED
  BY <1>7, <1>8, <1>9 DEF Handle

\* A new process knows nothing of what was seen of the last.
LEMMA RestartKeepsNames ==
    ASSUME NumberedInv, Numbered, crudPage \in CrudPages, ServerRestarts
    PROVE  NumberedInv'
<1> DEFINE born(i) == [i EXCEPT !.life = crudLife + 1, !.origin = minted + 1]
<1>1. /\ crudLife' = crudLife + 1 /\ minted' = minted + 1
      /\ nextId' = (IF crudPage = "announcements" THEN 2 ELSE 1)
      /\ UNCHANGED <<crudRows, lists, creator, editor, crudCalls>>
  BY DEF ServerRestarts
<1>s. crudStore' = {born(i) : i \in FirstItems}
  BY DEF ServerRestarts
<1>2. crudLife \in Nat /\ crudLife >= 1 /\ minted \in Nat
  BY DEF NumberedInv, NumberedTypes
<1>3. \A j \in crudStore' : j \in Items /\ j.id = 1 /\ j.life = crudLife' /\ j.origin = minted + 1
  <2> SUFFICES ASSUME NEW i \in FirstItems
               PROVE  born(i) \in Items /\ born(i).id = 1 /\ born(i).life = crudLife' /\ born(i).origin = minted + 1
    BY <1>s
  <2>1. i \in Items /\ i.id = 1
    BY FirstItemsSmall
  <2>2. crudLife + 1 \in Nat /\ minted + 1 \in Nat /\ crudLife' = crudLife + 1
    BY <1>1, <1>2
  <2> QED
    BY <2>1, <2>2 DEF Items
<1>4. crudStore' # {} => nextId' = 2
  BY <1>1, <1>s, FirstItemsSmall
<1> HIDE DEF born
<1>5. \A r \in Seen' : r \in crudStore' \/ (r \in Seen /\ r \in Items /\ r.life < crudLife')
  <2>1. Seen' \subseteq Seen \cup crudStore'
    BY <1>1, SeenIs, SeenIsThen
  <2>2. \A r \in Seen : r \in Items /\ r.life < crudLife'
    BY <1>1, <1>2 DEF NumberedInv, NumberedTypes, Items
  <2> QED
    BY <2>1, <2>2
<1>6. \A r \in Seen' : r \in Items /\ r.life <= crudLife' /\ (r.life = crudLife' => r.id < nextId')
  BY <1>1, <1>2, <1>3, <1>4, <1>5 DEF Items
<1>7. \A r \in Seen', i \in crudStore' : r.id = i.id /\ r.life = crudLife' => r.origin = i.origin
  BY <1>1, <1>2, <1>3, <1>5 DEF Items
<1> QED
  BY <1>1, <1>2, <1>3, <1>6, <1>7 DEF NumberedInv, NumberedTypes

\* No order of the lists, the requests and their answers breaks it.
LEMMA CrudInvStep == CrudInv /\ [CrudNext]_crudVars => CrudInv'
<1> SUFFICES ASSUME CrudInv, [CrudNext]_crudVars PROVE CrudInv'
  OBVIOUS
<1>1. UNCHANGED crudPage
  BY DEF CrudNext, crudVars, ListItems, ListArrives, ListLost, ServerRestarts, CreateAnnouncement, CancelEdit,
         SaveAnnouncement, SaveGroup, CloseCreator, FillAnnouncement, TypeAnnouncement, GenerateCodes,
         EditAnnouncement, DeleteAnnouncement, DeleteCode, DeleteGroup, OpenGroup, TypeGroup, Handle, Lost,
         Succeeded, Failed, Send, Asks
<1> SUFFICES ASSUME Numbered PROVE NumberedInv'
  BY <1>1 DEF CrudInv, Numbered
<1>2. NumberedInv /\ crudPage \in CrudPages /\ crudPage # "groups"
  BY DEF CrudInv, Numbered
<1>3. Seen \subseteq Items /\ crudRows \subseteq Seen /\ crudStore \subseteq Seen /\ UNION lists \subseteq Seen
      /\ editor.row \in Seen /\ crudCalls \subseteq Requests
  BY <1>2, SeenIs, SeenIsThen DEF NumberedInv, NumberedTypes
<1>4. ASSUME UNCHANGED <<crudServer, editor, crudCalls>>, UNCHANGED creator,
             crudRows' \subseteq Seen, UNION lists' \subseteq Seen
      PROVE  NumberedInv'
  <2>1. Seen' \subseteq Seen
    BY <1>4, SeenIs, SeenIsThen DEF crudServer
  <2>2. /\ crudCalls' \subseteq Requests /\ editor' \in Editors
        /\ creator' \in Creators
    BY <1>2, <1>4 DEF NumberedInv, NumberedTypes
  <2> QED
    BY <1>2, <1>4, <2>1, <2>2, NothingNewSeen
<1>5. CASE ListItems \/ ListArrives \/ ListLost
  BY <1>3, <1>4, <1>5 DEF ListItems, ListArrives, ListLost, crudServer
<1>6. CASE ServerRestarts
  BY <1>2, <1>6, RestartKeepsNames
<1>7. ASSUME UNCHANGED <<crudServer, crudRows, lists, crudCalls>>,
             editor' \in Editors, editor'.row \in Seen \cup {NoItem},
             creator' \in Creators
      PROVE  NumberedInv'
  <2>1. Seen' \subseteq Seen \cup {NoItem}
    BY <1>7, SeenIs, SeenIsThen DEF crudServer
  <2> QED
    BY <1>2, <1>3, <1>7, <2>1, NothingNewSeen
<1>8. editor \in Editors /\ creator \in Creators
  BY <1>2 DEF NumberedInv, NumberedTypes
<1>9. NotEditing \in Editors /\ NotEditing.row = NoItem
  BY NoItemIsItem DEF NotEditing, CrudTexts, Editors, Creators
<1>10. ASSUME NEW text \in CrudTexts, FillAnnouncement(text) \/ CloseCreator \/ CancelEdit \/ TypeAnnouncement(text)
       PROVE  NumberedInv'
  <2>1. /\ editor' \in Editors /\ editor'.row \in {editor.row, NoItem}
        /\ creator' \in Creators
    BY <1>8, <1>9, <1>10 DEF FillAnnouncement, CloseCreator, CancelEdit, TypeAnnouncement, CrudTexts, Editors, Creators
  <2>2. UNCHANGED <<crudServer, crudRows, lists, crudCalls>>
    BY <1>10 DEF FillAnnouncement, CloseCreator, CancelEdit, TypeAnnouncement, Asks, crudServer
  <2> QED
    BY <1>3, <1>7, <2>1, <2>2
<1>t. "" \in CrudTexts /\ Texts \subseteq CrudTexts
  BY DEF CrudTexts
<1>11. ASSUME NEW r \in crudRows, EditAnnouncement(r)
       PROVE  NumberedInv'
  <2>1. editor' \in Editors /\ editor'.row = r
    BY <1>3, <1>11 DEF EditAnnouncement, Items, Editors, Creators
  <2> QED
    BY <1>3, <1>7, <1>8, <1>11, <2>1 DEF EditAnnouncement, Asks, crudServer
<1>12. CASE CreateAnnouncement
  <2>1. creator.text \in CrudTexts /\ creator' \in Creators
    BY <1>8, <1>12 DEF CreateAnnouncement, Editors, Creators
  <2> QED
    BY <1>2, <1>12, <2>1, RequestSent DEF CreateAnnouncement
<1>13. ASSUME NEW text \in CrudTexts, GenerateCodes(text)
       PROVE  NumberedInv'
  <2>1. text \in CrudTexts /\ creator' \in Creators
    BY <1>13 DEF GenerateCodes, CrudTexts, Editors, Creators
  <2> QED
    BY <1>2, <1>13, <2>1, RequestSent DEF GenerateCodes
<1>14. CASE SaveAnnouncement
  <2>1. editor.text \in CrudTexts
    BY <1>8 DEF Editors
  <2> QED
    BY <1>2, <1>3, <1>8, <1>14, <2>1, RequestSent DEF SaveAnnouncement
<1>15. ASSUME NEW r \in crudRows, DeleteAnnouncement(r) \/ DeleteCode(r)
       PROVE  NumberedInv'
  <2>1. "" \in CrudTexts /\ r \in Seen
    BY <1>3 DEF CrudTexts
  <2> QED
    BY <1>2, <1>8, <1>15, <2>1, RequestSent DEF DeleteAnnouncement, DeleteCode
<1>16. ASSUME NEW r, NEW name, NEW rate, SaveGroup \/ DeleteGroup(r) \/ OpenGroup(name, rate) \/ TypeGroup(name, rate)
       PROVE  NumberedInv'
  BY <1>2, <1>16 DEF SaveGroup, DeleteGroup, OpenGroup, TypeGroup
<1>17. ASSUME NEW c \in crudCalls, Handle(c)
       PROVE  NumberedInv'
  BY <1>2, <1>17, HandleKeepsNames
<1>18. ASSUME NEW c \in crudCalls, Lost(c)
       PROVE  NumberedInv'
  <2>1. crudCalls' \subseteq Requests /\ {d.row : d \in crudCalls'} \subseteq {d.row : d \in crudCalls}
    BY <1>2, <1>18, PhaseMoved DEF Lost
  <2>2. UNCHANGED <<crudServer, crudRows, lists, creator, editor>> /\ UNCHANGED crudStore
    BY <1>18 DEF Lost, crudServer
  <2>3. Seen' \subseteq Seen
    BY <2>1, <2>2, SeenIs, SeenIsThen
  <2> QED
    BY <1>2, <1>8, <2>1, <2>2, <2>3, NothingNewSeen
<1>19. ASSUME NEW c \in crudCalls, Succeeded(c) \/ Failed(c)
       PROVE  NumberedInv'
  <2>1. creator' \in Creators
    BY <1>8, <1>19 DEF Succeeded, Failed, Editors, Creators
  <2>2. editor' \in Editors /\ editor'.row \in {editor.row, NoItem}
    BY <1>8, <1>9, <1>19 DEF Succeeded, Failed, Editors, Creators
  <2>3. UNCHANGED <<crudServer, crudRows, lists>> /\ UNCHANGED crudStore /\ crudCalls' \subseteq crudCalls
    BY <1>19 DEF Succeeded, Failed, crudServer
  <2>4. Seen' \subseteq Seen \cup {NoItem}
    BY <2>2, <2>3, SeenIs, SeenIsThen
  <2> QED
    BY <1>2, <1>3, <2>1, <2>2, <2>3, <2>4, NothingNewSeen
<1>20. CASE UNCHANGED crudVars
  BY <1>3, <1>4, <1>20 DEF crudVars, crudServer
<1> QED
  BY <1>t, <1>5, <1>6, <1>10, <1>11, <1>12, <1>13, <1>14, <1>15, <1>16, <1>17, <1>18, <1>19, <1>20 DEF CrudNext

\* For any texts, and any number of changes and of lives of the server: what
\* names an item of this life names the item it was loaded as.
THEOREM RowsAlwaysNameTheirItem == CrudSpec => []RowsNameTheirItem
<1>1. CrudInv => RowsNameTheirItem
  <2> SUFFICES ASSUME CrudInv, Numbered PROVE RowsNameTheirItem
    BY DEF RowsNameTheirItem
  <2>1. Addressed \subseteq Seen
    BY SeenIs, SeenIsThen DEF Addressed
  <2> QED
    BY <2>1 DEF CrudInv, NumberedInv, RowsNameTheirItem
<1> QED
  BY <1>1, CrudInvInit, CrudInvStep, PTL DEF CrudSpec

(***************************************************************************)
(* Ampcode: nothing is erased, and the page at rest shows what is kept     *)
(***************************************************************************)

\* Sequences of whatever; at most one element has one of these operations; none has.
IsSeq(s) == \E S : s \in Seq(S)
Alone(s, ops) == \A j, k \in DOMAIN s : s[j].op \in ops /\ s[k].op \in ops => j = k
NoneOf(s, ops) == \A k \in DOMAIN s : s[k].op \notin ops

\* What is left of a sequence: its other elements, each once.
LEMMA WithoutIs ==
    ASSUME NEW s, IsSeq(s), NEW k \in DOMAIN s
    PROVE  /\ IsSeq(Without(s, k))
           /\ \A j \in DOMAIN Without(s, k) : \E i \in DOMAIN s \ {k} : Without(s, k)[j] = s[i]
           /\ \A i \in DOMAIN s \ {k} : \E j \in DOMAIN Without(s, k) : Without(s, k)[j] = s[i]
           /\ \A ops : Alone(s, ops) => /\ Alone(Without(s, k), ops)
                                        /\ s[k].op \in ops => NoneOf(Without(s, k), ops)
<1> PICK S : s \in Seq(S)
  BY DEF IsSeq
<1> DEFINE t == Without(s, k)
           skip(j) == IF j < k THEN j ELSE j + 1
<1>1. /\ t \in Seq(S) /\ DOMAIN t = 1..(Len(s) - 1) /\ DOMAIN s = 1..Len(s) /\ Len(s) \in Nat
      /\ \A j \in DOMAIN t : t[j] = s[skip(j)]
  <2> DEFINE a == SubSeq(s, 1, k - 1)
             b == SubSeq(s, k + 1, Len(s))
  <2>1. DOMAIN s = 1..Len(s) /\ Len(s) \in Nat /\ k \in 1..Len(s)
    OBVIOUS
  <2>2. a \in Seq(S) /\ Len(a) = k - 1 /\ \A j \in 1..(k - 1) : a[j] = s[j]
    BY <2>1
  <2>3. b \in Seq(S) /\ Len(b) = Len(s) - k /\ \A j \in 1..(Len(s) - k) : b[j] = s[k + j]
    BY <2>1
  <2>4. t = a \o b
    BY DEF Without
  <2> HIDE DEF a, b, t
  <2>5. /\ t \in Seq(S) /\ Len(t) = Len(a) + Len(b)
        /\ \A j \in 1..(Len(a) + Len(b)) : t[j] = IF j <= Len(a) THEN a[j] ELSE b[j - Len(a)]
    BY <2>2, <2>3, <2>4, ConcatProperties
  <2>6. Len(t) = Len(s) - 1
    BY <2>1, <2>2, <2>3, <2>5
  <2>7. ASSUME NEW j \in 1..(Len(s) - 1)
        PROVE  t[j] = s[skip(j)]
    <3>1. CASE j < k
      BY <2>1, <2>2, <2>3, <2>5, <3>1
    <3>2. CASE ~(j < k)
      <4>1. t[j] = b[j - (k - 1)] /\ j - (k - 1) \in 1..(Len(s) - k)
        BY <2>1, <2>2, <2>3, <2>5, <3>2
      <4>2. k + (j - (k - 1)) = j + 1
        BY <2>1
      <4> QED
        BY <2>3, <3>2, <4>1, <4>2
    <3> QED
      BY <3>1, <3>2
  <2>8. DOMAIN t = 1..Len(t)
    BY <2>5
  <2> QED
    BY <2>1, <2>5, <2>6, <2>7, <2>8
<1>2. \A j \in DOMAIN t : skip(j) \in DOMAIN s \ {k}
  BY <1>1
<1>3. \A i \in DOMAIN s \ {k} : \E j \in DOMAIN t : skip(j) = i
  <2> TAKE i \in DOMAIN s \ {k}
  <2> DEFINE j == IF i < k THEN i ELSE i - 1
  <2>1. j \in DOMAIN t /\ skip(j) = i
    BY <1>1
  <2> QED
    BY <2>1
<1>4. \A i, j \in DOMAIN t : skip(i) = skip(j) => i = j
  BY <1>1
<1> HIDE DEF t, skip
<1>5. IsSeq(t)
  BY <1>1 DEF IsSeq
<1>6. \A ops : Alone(s, ops) => Alone(t, ops) /\ (s[k].op \in ops => NoneOf(t, ops))
  BY <1>1, <1>2, <1>4 DEF Alone, NoneOf
<1> QED
  BY <1>1, <1>2, <1>3, <1>5, <1>6 DEF t

\* A name for what Append gives, for the provers.
Longer(s, e) == Append(s, e)

\* A sequence with one element more: the others stay where they are.
LEMMA LongerIs ==
    ASSUME NEW s, IsSeq(s), NEW e
    PROVE  /\ IsSeq(Longer(s, e)) /\ Longer(s, e) # << >>
           /\ \A j \in DOMAIN Longer(s, e) : Longer(s, e)[j] = e \/ (j \in DOMAIN s /\ Longer(s, e)[j] = s[j])
           /\ \E j \in DOMAIN Longer(s, e) : Longer(s, e)[j] = e
           /\ \A i \in DOMAIN s : i \in DOMAIN Longer(s, e) /\ Longer(s, e)[i] = s[i]
           /\ \A ops : Alone(s, ops) /\ (e.op \in ops => NoneOf(s, ops)) => Alone(Longer(s, e), ops)
<1> PICK S : s \in Seq(S)
  BY DEF IsSeq
<1> DEFINE t == Append(s, e)
<1>1. /\ t \in Seq(S \cup {e}) /\ DOMAIN t = 1..(Len(s) + 1) /\ DOMAIN s = 1..Len(s) /\ Len(s) \in Nat
      /\ \A j \in DOMAIN s : t[j] = s[j]
      /\ t[Len(s) + 1] = e /\ t # << >>
  OBVIOUS
<1> HIDE DEF t
<1>2. IsSeq(t)
  BY <1>1 DEF IsSeq
<1>3. \A j \in DOMAIN t : (j = Len(s) + 1 /\ t[j] = e) \/ (j \in DOMAIN s /\ t[j] = s[j])
  BY <1>1
<1>4. \A ops : Alone(s, ops) /\ (e.op \in ops => NoneOf(s, ops)) => Alone(t, ops)
  BY <1>3 DEF Alone, NoneOf
<1> QED
  BY <1>1, <1>2, <1>3, <1>4 DEF t, Longer

\* A sequence with one element replaced.
LEMMA ExceptIs ==
    ASSUME NEW s, IsSeq(s), NEW k \in DOMAIN s, NEW e
    PROVE  /\ IsSeq([s EXCEPT ![k] = e]) /\ DOMAIN [s EXCEPT ![k] = e] = DOMAIN s
           /\ \A j \in DOMAIN s : [s EXCEPT ![k] = e][j] = IF j = k THEN e ELSE s[j]
           /\ \A ops : Alone(s, ops) /\ e.op = s[k].op => Alone([s EXCEPT ![k] = e], ops)
<1> PICK S : s \in Seq(S)
  BY DEF IsSeq
<1> DEFINE t == [s EXCEPT ![k] = e]
<1>1. t \in Seq(S \cup {e}) /\ DOMAIN t = DOMAIN s /\ \A j \in DOMAIN s : t[j] = IF j = k THEN e ELSE s[j]
  OBVIOUS
<1> HIDE DEF t
<1>2. IsSeq(t)
  BY <1>1 DEF IsSeq
<1>3. \A ops : Alone(s, ops) /\ e.op = s[k].op => Alone(t, ops)
  BY <1>1 DEF Alone
<1> QED
  BY <1>1, <1>2, <1>3 DEF t

(***************************************************************************)
(* The invariant                                                           *)
(***************************************************************************)

AmpOps == Typed \cup PairOps \cup {"force", "maps"}

\* Records as they are made, whatever their values.
StoreOk(s) == s \in [url: {s.url}, key: {s.key}, pairs: {s.pairs}, maps: {s.maps}]
Kept(S) == S = {} \/ \E s : S = {s} /\ StoreOk(s)
CallOk(c) ==
    /\ c \in [op: AmpOps, val: {c.val}, phase: {"sent", "loaded", "saved"}, loaded: {c.loaded}]
    /\ Kept(c.loaded) /\ (c.phase = "loaded" => c.loaded # {})
    /\ c.op = "force" => c.phase = "sent"
LoadOk(l) == l \in [stage: 1..3, saw: {l.saw}] /\ Kept(l.saw)

AmpShapes ==
    /\ StoreOk(ampStore)
    /\ ampShown \in [url: {ampShown.url}, key: {ampShown.key}, pairs: {ampShown.pairs},
                      maps: {ampShown.maps}, force: BOOLEAN]
    /\ IsSeq(ampCalls) /\ \A k \in DOMAIN ampCalls : CallOk(ampCalls[k])
    /\ IsSeq(ampLoads) /\ \A i \in DOMAIN ampLoads : LoadOk(ampLoads[i])
    /\ ampHydrated \in BOOLEAN /\ ampTimers \subseteq Typed
    /\ ~ampHydrated => StillLoading /\ ampTimers = {}

\* Nothing is empty that was not cleared: on the server, in what was read of
\* it, in what is on its way to it, and on the page once that was read.
Filled(s) == \A f \in Typed : s[f] = "" => f \in ampCleared
PageKnown == ampHydrated \/ \E i \in DOMAIN ampLoads : ampLoads[i].stage > 1
NothingErased ==
    /\ Filled(ampStore)
    /\ \A i \in DOMAIN ampLoads : \A s \in ampLoads[i].saw : Filled(s)
    /\ \A k \in DOMAIN ampCalls :
          /\ \A s \in ampCalls[k].loaded : Filled(s)
          /\ ampCalls[k].op \in Typed /\ ampCalls[k].val = "" => ampCalls[k].op \in ampCleared
    /\ PageKnown => Filled(ampShown)

\* A load that will show what the server has in a field now.
WillShow(f) ==
    \E i \in DOMAIN ampLoads : ampLoads[i].stage = 1 /\ \A s \in ampLoads[i].saw : s[f] = ampStore[f]

\* A field without a timer is on its way to the server, or there, or will be
\* shown again.
FieldInStep(f) ==
    /\ Alone(ampCalls, {f})
    /\ \A k \in DOMAIN ampCalls :
          ampCalls[k].op = f /\ ampCalls[k].phase = "saved" => ampStore[f] = ampCalls[k].val
    /\ ampHydrated /\ f \notin ampTimers =>
          \/ \E k \in DOMAIN ampCalls : ampCalls[k].op = f /\ ampCalls[k].val = ampShown[f]
          \/ NoneOf(ampCalls, {f}) /\ (ampStore[f] = ampShown[f] \/ WillShow(f))

\* A change of the pairs is alone: no other, and nothing is being read.
PairsInStep ==
    /\ Alone(ampCalls, PairOps)
    /\ \A k \in DOMAIN ampCalls : LET c == ampCalls[k] IN
          c.op \in PairOps =>
              /\ ~StillLoading
              /\ ampStore.pairs = IF c.phase # "saved" THEN ampShown.pairs
                                  ELSE IF c.op = "addPair" THEN c.val ELSE ampShown.pairs \ c.val
    /\ ~StillLoading /\ NoneOf(ampCalls, PairOps) => ampStore.pairs = ampShown.pairs
    /\ \A i \in DOMAIN ampLoads : ampLoads[i].stage = 3 =>
          \A s \in ampLoads[i].saw : s.pairs = ampStore.pairs

\* The inductive invariant.
AmpInv ==
    /\ AmpShapes
    /\ "unread" \notin ampMishaps => NothingErased
    /\ ampMishaps = {} => PairsInStep /\ \A f \in Typed : FieldInStep(f)

\* Nothing is in the empty sequence.
LEMMA EmptyIs == DOMAIN << >> = {} /\ << >> \in Seq({})
  OBVIOUS

\* One element is in the sequence of one.
LEMMA SingleIs ==
    ASSUME NEW e
    PROVE  DOMAIN <<e>> = {1} /\ <<e>>[1] = e /\ <<e>> \in Seq({e}) /\ <<e>> # << >>
<1>1. DOMAIN <<e>> = 1..1 /\ <<e>>[1] = e /\ <<e>> \in Seq({e})
  OBVIOUS
<1>2. Len(<<e>>) = 1 /\ Len(<< >>) = 0
  OBVIOUS
<1> QED
  BY <1>1, <1>2

\* What the server starts with is a record of the four fields.
LEMMA FirstStoreOk ==
    ASSUME NEW s \in FirstStores
    PROVE  StoreOk(s)
<1>1. CASE s = [url |-> "", key |-> "", pairs |-> {}, maps |-> << >>]
  BY <1>1 DEF StoreOk
<1>2. CASE s \in UNION {{[url |-> x, key |-> x, pairs |-> AmpPairs, maps |-> <<m>>] : x \in AmpTexts} : m \in AmpModels}
  <2> DEFINE Full(m) == {[url |-> x, key |-> x, pairs |-> AmpPairs, maps |-> <<m>>] : x \in AmpTexts}
  <2>1. PICK m \in AmpModels : s \in Full(m)
    BY <1>2
  <2>2. PICK x \in AmpTexts : s = [url |-> x, key |-> x, pairs |-> AmpPairs, maps |-> <<m>>]
    BY <2>1
  <2> QED
    BY <2>2 DEF StoreOk
<1> QED
  BY <1>1, <1>2 DEF FirstStores

\* At first nothing was read, and what is empty counts as cleared.
LEMMA AmpInvInit == AmpInit => AmpInv
<1> SUFFICES ASSUME AmpInit PROVE AmpInv
  OBVIOUS
<1>0. /\ ampStore \in FirstStores /\ ampLoads = <<Asked(1)>> /\ ampCalls = << >> /\ ampHydrated = FALSE
      /\ ampCleared = {f \in Typed : ampStore[f] = ""}
  BY DEF AmpInit
<1>1. StoreOk(ampStore)
  BY <1>0, FirstStoreOk
<1>2. /\ DOMAIN ampLoads = {1} /\ ampLoads[1] = Asked(1) /\ ampLoads # << >>
      /\ Asked(1).stage = 1 /\ Asked(1).saw = {} /\ LoadOk(Asked(1))
  <2>1. Asked(1).stage = 1 /\ Asked(1).saw = {} /\ LoadOk(Asked(1))
    BY DEF Asked, LoadOk, Kept
  <2> QED
    BY <1>0, <2>1, SingleIs
<1>3. DOMAIN ampCalls = {}
  BY <1>0, EmptyIs
<1>4. IsSeq(ampCalls) /\ IsSeq(ampLoads)
  BY <1>0, EmptyIs, SingleIs DEF IsSeq
<1>5. AmpShapes
  BY <1>1, <1>2, <1>3, <1>4 DEF AmpShapes, AmpInit, EmptyPage, StillLoading
<1>6. NothingErased
  <2>1. Filled(ampStore)
    BY <1>0 DEF Filled
  <2>2. \A i \in DOMAIN ampLoads : ampLoads[i].stage = 1 /\ ampLoads[i].saw = {}
    BY <1>0, <1>2
  <2>3. ~PageKnown
    <3>1. ~(1 > 1)
      OBVIOUS
    <3> QED
      BY <1>0, <2>2, <3>1 DEF PageKnown
  <2> QED
    BY <1>3, <2>1, <2>2, <2>3 DEF NothingErased
<1>7. PairsInStep /\ \A f \in Typed : FieldInStep(f)
  BY <1>2, <1>3 DEF AmpInit, PairsInStep, FieldInStep, Alone, NoneOf, StillLoading
<1> QED
  BY <1>5, <1>6, <1>7 DEF AmpInv

(***************************************************************************)
(* What keeps a part of it                                                 *)
(***************************************************************************)

\* The calls of some operations are those there were, none moved to "saved".
SameCalls(ops) ==
    /\ \A k \in DOMAIN ampCalls' : ampCalls'[k].op \in ops =>
          \E j \in DOMAIN ampCalls : /\ ampCalls[j].op = ampCalls'[k].op /\ ampCalls[j].val = ampCalls'[k].val
                                     /\ (ampCalls[j].phase = "saved") <=> (ampCalls'[k].phase = "saved")
    /\ \A j \in DOMAIN ampCalls : ampCalls[j].op \in ops =>
          \E k \in DOMAIN ampCalls' : ampCalls[j].op = ampCalls'[k].op /\ ampCalls[j].val = ampCalls'[k].val

\* A step that neither touches a field nor ends or saves a change of it keeps the field in step.
LEMMA FieldKept ==
    ASSUME NEW f, FieldInStep(f), Alone(ampCalls', {f}), SameCalls({f}),
           ampStore'[f] = ampStore[f], ampShown'[f] = ampShown[f],
           ampHydrated' /\ f \notin ampTimers' => ampHydrated /\ f \notin ampTimers,
           WillShow(f) => WillShow(f)'
    PROVE  FieldInStep(f)'
  BY DEF FieldInStep, SameCalls, NoneOf

\* The same of the pairs, when no load begins or ends.
LEMMA PairsKept ==
    ASSUME PairsInStep, Alone(ampCalls', PairOps), SameCalls(PairOps),
           ampStore'.pairs = ampStore.pairs, ampShown'.pairs = ampShown.pairs, StillLoading' = StillLoading,
           \A i \in DOMAIN ampLoads' : ampLoads'[i].stage = 3 =>
               \A s \in ampLoads'[i].saw : s.pairs = ampStore.pairs
    PROVE  PairsInStep'
<1>1. NoneOf(ampCalls', PairOps) => NoneOf(ampCalls, PairOps)
  BY DEF SameCalls, NoneOf
<1>2. \A k \in DOMAIN ampCalls' : LET c == ampCalls'[k] IN
          c.op \in PairOps =>
              /\ ~StillLoading
              /\ ampStore.pairs = IF c.phase # "saved" THEN ampShown.pairs
                                  ELSE IF c.op = "addPair" THEN c.val ELSE ampShown.pairs \ c.val
  BY DEF PairsInStep, SameCalls
<1> QED
  BY <1>1, <1>2 DEF PairsInStep

\* The calls are the same when nothing changed them.
LEMMA SameCallsKept ==
    ASSUME UNCHANGED ampCalls
    PROVE  \A ops : SameCalls(ops)
  BY DEF SameCalls

\* The page changes what is not saved by itself, or nothing.
LEMMA PageQuiet ==
    ASSUME AmpInv,
           UNCHANGED <<ampStore, ampHydrated, ampTimers, ampCalls, ampLoads, ampCleared, ampMishaps>>,
           ampShown' \in [url: {ampShown'.url}, key: {ampShown'.key}, pairs: {ampShown'.pairs},
                          maps: {ampShown'.maps}, force: BOOLEAN],
           \A f \in {"url", "key", "pairs"} : ampShown'[f] = ampShown[f]
    PROVE  AmpInv'
<1>1. AmpShapes'
  BY DEF AmpInv, AmpShapes, StillLoading
<1>2. NothingErased => NothingErased'
  BY ZenonT(30) DEF NothingErased, Filled, PageKnown, Typed
<1>3. ASSUME NEW f \in Typed, FieldInStep(f)
      PROVE  FieldInStep(f)'
  <2>1. WillShow(f) => WillShow(f)'
    BY DEF WillShow
  <2> QED
    BY <1>3, <2>1, FieldKept, SameCallsKept DEF FieldInStep, Typed
<1>4. PairsInStep => PairsInStep'
  BY PairsKept, SameCallsKept DEF PairsInStep, StillLoading
<1> QED
  BY <1>1, <1>2, <1>3, <1>4 DEF AmpInv

(***************************************************************************)
(* Sending                                                                 *)
(***************************************************************************)

\* A change is sent; the page may turn its switch and starts no timer.
LEMMA SendKeeps ==
    ASSUME AmpInv, NEW op \in AmpOps, NEW val, SendAmp(op, val),
           op \in Typed => val = ampShown[op] /\ ampTimers' = ampTimers \ {op} /\ op \in ampTimers,
           op \notin Typed => ampTimers' = ampTimers,
           UNCHANGED <<ampStore, ampHydrated, ampLoads, ampCleared>>,
           ampShown' \in [url: {ampShown.url}, key: {ampShown.key}, pairs: {ampShown.pairs},
                          maps: {ampShown.maps}, force: BOOLEAN]
    PROVE  AmpInv'
<1> DEFINE e == [op |-> op, val |-> val, phase |-> "sent", loaded |-> {}]
<1>1. ampCalls' = Longer(ampCalls, e) /\ IsSeq(ampCalls)
  BY DEF SendAmp, AmpInv, AmpShapes, Longer
<1>2. e.op = op /\ e.val = val /\ e.phase = "sent" /\ e.loaded = {} /\ CallOk(e)
  BY DEF CallOk, Kept
<1>3. \A f \in {"url", "key", "pairs", "maps"} : ampShown'[f] = ampShown[f]
  OBVIOUS
<1> HIDE DEF e
<1>4. /\ IsSeq(ampCalls')
      /\ \A j \in DOMAIN ampCalls' : ampCalls'[j] = e \/ (j \in DOMAIN ampCalls /\ ampCalls'[j] = ampCalls[j])
      /\ \E j \in DOMAIN ampCalls' : ampCalls'[j] = e
      /\ \A i \in DOMAIN ampCalls : i \in DOMAIN ampCalls' /\ ampCalls'[i] = ampCalls[i]
      /\ \A ops : Alone(ampCalls, ops) /\ (op \in ops => NoneOf(ampCalls, ops)) => Alone(ampCalls', ops)
  <2>1. /\ IsSeq(Longer(ampCalls, e))
        /\ \A j \in DOMAIN Longer(ampCalls, e) :
              Longer(ampCalls, e)[j] = e \/ (j \in DOMAIN ampCalls /\ Longer(ampCalls, e)[j] = ampCalls[j])
        /\ \E j \in DOMAIN Longer(ampCalls, e) : Longer(ampCalls, e)[j] = e
        /\ \A i \in DOMAIN ampCalls : i \in DOMAIN Longer(ampCalls, e) /\ Longer(ampCalls, e)[i] = ampCalls[i]
    <3>1. IsSeq(Longer(ampCalls, e))
      BY <1>1, LongerIs
    <3>2. \A j \in DOMAIN Longer(ampCalls, e) :
              Longer(ampCalls, e)[j] = e \/ (j \in DOMAIN ampCalls /\ Longer(ampCalls, e)[j] = ampCalls[j])
      BY <1>1, LongerIs
    <3>3. \E j \in DOMAIN Longer(ampCalls, e) : Longer(ampCalls, e)[j] = e
      BY <1>1, LongerIs
    <3>4. \A i \in DOMAIN ampCalls : i \in DOMAIN Longer(ampCalls, e) /\ Longer(ampCalls, e)[i] = ampCalls[i]
      BY <1>1, LongerIs
    <3> QED
      BY <3>1, <3>2, <3>3, <3>4
  <2>2. ASSUME NEW ops, Alone(ampCalls, ops), op \in ops => NoneOf(ampCalls, ops)
        PROVE  Alone(Longer(ampCalls, e), ops)
    <3>1. e.op \in ops => NoneOf(ampCalls, ops)
      BY <1>2, <2>2
    <3> QED
      BY <1>1, <2>2, <3>1, LongerIs
  <2> QED
    BY <1>1, <2>1, <2>2
<1>5. ampMishaps \subseteq ampMishaps' /\ (Crossing(op) => "crossed" \in ampMishaps')
      /\ ("unread" \in ampMishaps' <=> "unread" \in ampMishaps)
  BY DEF SendAmp
<1>6. AmpShapes'
  <2>1. \A k \in DOMAIN ampCalls' : CallOk(ampCalls'[k])
    BY <1>2, <1>4 DEF AmpInv, AmpShapes
  <2>2. ampTimers' \subseteq ampTimers
    BY DEF AmpOps
  <2> QED
    BY <1>3, <1>4, <2>1, <2>2 DEF AmpInv, AmpShapes, StillLoading
<1>7. ASSUME NothingErased
      PROVE  NothingErased'
  <2>1. op \in Typed /\ val = "" => op \in ampCleared
    <3>1. op \in Typed => ampHydrated
      BY DEF AmpInv, AmpShapes
    <3> QED
      BY <1>7, <3>1 DEF NothingErased, PageKnown, Filled
  <2>2. \A k \in DOMAIN ampCalls' :
          /\ \A s \in ampCalls'[k].loaded : Filled(s)
          /\ ampCalls'[k].op \in Typed /\ ampCalls'[k].val = "" => ampCalls'[k].op \in ampCleared
    BY <1>2, <1>4, <1>7, <2>1 DEF NothingErased
  <2>3. Filled(ampShown) => Filled(ampShown')
    BY <1>3 DEF Filled, Typed
  <2> QED
    BY <1>7, <2>2, <2>3 DEF NothingErased, Filled, PageKnown
<1>8. \A ops : op \notin ops /\ Alone(ampCalls, ops) => SameCalls(ops) /\ Alone(ampCalls', ops)
  BY <1>2, <1>4 DEF SameCalls
<1>9. ASSUME ampMishaps' = {}, NEW f \in Typed, FieldInStep(f)
      PROVE  FieldInStep(f)'
  <2>0. WillShow(f) => WillShow(f)'
    BY DEF WillShow
  <2>1. CASE op # f
    <3>1. ampHydrated' /\ f \notin ampTimers' => ampHydrated /\ f \notin ampTimers
      BY <2>1 DEF AmpOps
    <3>2. Alone(ampCalls', {f}) /\ SameCalls({f})
      BY <1>8, <1>9, <2>1 DEF FieldInStep
    <3> QED
      BY <1>3, <1>9, <2>0, <3>1, <3>2, FieldKept DEF Typed
  <2>2. CASE op = f
    <3>1. NoneOf(ampCalls, {f})
      BY <1>5, <1>9, <2>2 DEF Crossing, Busy, NoneOf
    <3>2. Alone(ampCalls', {f})
      BY <1>4, <1>9, <2>2, <3>1 DEF FieldInStep
    <3>3. \E k \in DOMAIN ampCalls' : ampCalls'[k].op = f /\ ampCalls'[k].val = ampShown'[f]
      BY <1>2, <1>3, <1>4, <2>2 DEF Typed
    <3>4. \A k \in DOMAIN ampCalls' : ampCalls'[k].op = f => ampCalls'[k].phase = "sent"
      BY <1>2, <1>4, <3>1 DEF NoneOf
    <3> QED
      BY <3>2, <3>3, <3>4 DEF FieldInStep
  <2> QED
    BY <2>1, <2>2
<1>10. ASSUME ampMishaps' = {}, PairsInStep
       PROVE  PairsInStep'
  <2>1. CASE op \notin PairOps
    BY <1>3, <1>8, <1>10, <2>1, PairsKept DEF PairsInStep, StillLoading
  <2>2. CASE op \in PairOps
    <3>1. NoneOf(ampCalls, PairOps) /\ ~StillLoading
      BY <1>5, <1>10, <2>2 DEF Crossing, Busy, NoneOf
    <3>2. ampStore.pairs = ampShown.pairs
      BY <1>10, <3>1 DEF PairsInStep
    <3>3. Alone(ampCalls', PairOps)
      BY <1>4, <1>10, <3>1 DEF PairsInStep
    <3>4. \A k \in DOMAIN ampCalls' : ampCalls'[k].op \in PairOps => ampCalls'[k].phase = "sent"
      BY <1>2, <1>4, <3>1 DEF NoneOf
    <3>5. ~NoneOf(ampCalls', PairOps)
      BY <1>2, <1>4, <2>2 DEF NoneOf
    <3> QED
      BY <1>3, <1>10, <3>1, <3>2, <3>3, <3>4, <3>5 DEF PairsInStep, StillLoading
  <2> QED
    BY <2>1, <2>2
<1>11. ampMishaps' = {} => ampMishaps = {}
  BY <1>5
<1> QED
  BY <1>5, <1>6, <1>7, <1>9, <1>10, <1>11 DEF AmpInv

(***************************************************************************)
(* The server                                                              *)
(***************************************************************************)

\* What a handler changes of its call.
LEMMA RecordMoved ==
    ASSUME NEW c, c = [op |-> c.op, val |-> c.val, phase |-> c.phase, loaded |-> c.loaded], NEW p, NEW S
    PROVE  [[c EXCEPT !.phase = p] EXCEPT !.loaded = S] = [op |-> c.op, val |-> c.val, phase |-> p, loaded |-> S]
<1> DEFINE d == [c EXCEPT !.phase = p]
<1>1. d = [op |-> c.op, val |-> c.val, phase |-> p, loaded |-> c.loaded]
  OBVIOUS
<1> HIDE DEF d
<1>2. [d EXCEPT !.loaded = S] = [op |-> c.op, val |-> c.val, phase |-> p, loaded |-> S]
  BY <1>1
<1> QED
  BY <1>2 DEF d

\* The other calls are untouched when a handler has moved one.
LEMMA CallMoved ==
    ASSUME NEW k \in DOMAIN ampCalls, IsSeq(ampCalls), CallOk(ampCalls[k]), NEW p, NEW S,
           ampCalls' = [ampCalls EXCEPT ![k].phase = p, ![k].loaded = S]
    PROVE  /\ IsSeq(ampCalls') /\ DOMAIN ampCalls' = DOMAIN ampCalls
           /\ \A j \in DOMAIN ampCalls : j # k => ampCalls'[j] = ampCalls[j]
           /\ ampCalls'[k] = [op |-> ampCalls[k].op, val |-> ampCalls[k].val, phase |-> p, loaded |-> S]
           /\ \A ops : Alone(ampCalls, ops) => Alone(ampCalls', ops)
<1> DEFINE c == ampCalls[k]
           e == [op |-> c.op, val |-> c.val, phase |-> p, loaded |-> S]
<1>1. c = [op |-> c.op, val |-> c.val, phase |-> c.phase, loaded |-> c.loaded]
  BY DEF CallOk
<1>2. [[c EXCEPT !.phase = p] EXCEPT !.loaded = S] = e
  BY <1>1, RecordMoved
<1>3. PICK T : ampCalls \in Seq(T)
  BY DEF IsSeq
<1>4. ampCalls' = [j \in DOMAIN ampCalls |->
                      IF j = k THEN [[c EXCEPT !.phase = p] EXCEPT !.loaded = S] ELSE ampCalls[j]]
  BY <1>3
<1>5. e.op = c.op
  OBVIOUS
<1> HIDE DEF e
<1>6. DOMAIN ampCalls' = DOMAIN ampCalls /\ \A j \in DOMAIN ampCalls : ampCalls'[j] = IF j = k THEN e ELSE ampCalls[j]
  BY <1>2, <1>4
<1>7. IsSeq(ampCalls')
  <2>1. ampCalls' = [j \in DOMAIN ampCalls |-> IF j = k THEN e ELSE ampCalls[j]]
    BY <1>2, <1>4
  <2>2. ampCalls' = [ampCalls EXCEPT ![k] = e]
    BY <1>3, <2>1
  <2>3. IsSeq([ampCalls EXCEPT ![k] = e])
    BY <1>5, ExceptIs
  <2> QED
    BY <2>2, <2>3
<1>8. \A ops : Alone(ampCalls, ops) => Alone(ampCalls', ops)
  BY <1>5, <1>6 DEF Alone
<1> QED
  BY <1>6, <1>7, <1>8 DEF e

\* A handler loads: its call carries the value of the server.
LEMMA LoadsKeep ==
    ASSUME AmpInv, NEW k \in DOMAIN ampCalls, HandlerLoads(k)
    PROVE  AmpInv'
<1> DEFINE c == ampCalls[k]
<1>1. IsSeq(ampCalls) /\ CallOk(c) /\ StoreOk(ampStore)
  BY DEF AmpInv, AmpShapes
<1>2. /\ IsSeq(ampCalls') /\ DOMAIN ampCalls' = DOMAIN ampCalls
      /\ \A j \in DOMAIN ampCalls : j # k => ampCalls'[j] = ampCalls[j]
      /\ ampCalls'[k] = [op |-> c.op, val |-> c.val, phase |-> "loaded", loaded |-> {ampStore}]
      /\ \A ops : Alone(ampCalls, ops) => Alone(ampCalls', ops)
  BY <1>1, CallMoved DEF HandlerLoads
<1>3. /\ ampCalls'[k].op = c.op /\ ampCalls'[k].val = c.val
      /\ ampCalls'[k].phase = "loaded" /\ ampCalls'[k].loaded = {ampStore}
      /\ c.phase = "sent" /\ c.op # "force" /\ c.op \in AmpOps
  BY <1>1, <1>2 DEF HandlerLoads, CallOk
<1>4. CallOk(ampCalls'[k])
  <2>1. Kept({ampStore})
    BY <1>1 DEF Kept
  <2> QED
    BY <1>2, <1>3, <2>1 DEF CallOk
<1> HIDE DEF c
<1>5. UNCHANGED <<ampStore, ampShown, ampHydrated, ampTimers, ampLoads, ampCleared, ampMishaps>>
  BY DEF HandlerLoads, AmpServes
<1>6. AmpShapes'
  BY <1>2, <1>4, <1>5 DEF AmpInv, AmpShapes, StillLoading
<1>7. NothingErased => NothingErased'
  BY <1>2, <1>3, <1>5, ZenonT(30) DEF NothingErased, Filled, PageKnown, c
<1>8. \A ops : SameCalls(ops)
  BY <1>2, <1>3 DEF SameCalls, c
<1>9. ASSUME NEW f \in Typed, FieldInStep(f)
      PROVE  FieldInStep(f)'
  <2>1. WillShow(f) => WillShow(f)'
    BY <1>5 DEF WillShow
  <2> QED
    BY <1>2, <1>5, <1>8, <1>9, <2>1, FieldKept DEF FieldInStep
<1>10. PairsInStep => PairsInStep'
  BY <1>2, <1>5, <1>8, PairsKept DEF PairsInStep, StillLoading
<1> QED
  BY <1>5, <1>6, <1>7, <1>9, <1>10 DEF AmpInv

\* What a handler writes: one field, or the pairs, and records stay records.
LEMMA AppliedIs ==
    ASSUME NEW c, CallOk(c), c.op # "force", NEW old, StoreOk(old)
    PROVE  /\ StoreOk(Applied(c, old))
           /\ \A f \in Typed : Applied(c, old)[f] = IF c.op = f THEN c.val ELSE old[f]
           /\ Applied(c, old).pairs = CASE c.op = "addPair" -> c.val
                                         [] c.op = "dropPair" -> old.pairs \ c.val
                                         [] OTHER -> old.pairs
<1>1. c.op \in {"url", "key", "addPair", "dropPair", "maps"}
  BY DEF CallOk, AmpOps, Typed, PairOps
<1>2. CASE c.op = "url"
  BY <1>2 DEF Applied, StoreOk, Typed
<1>3. CASE c.op = "key"
  BY <1>3 DEF Applied, StoreOk, Typed
<1>4. CASE c.op = "addPair"
  BY <1>4 DEF Applied, StoreOk, Typed
<1>5. CASE c.op = "dropPair"
  BY <1>5 DEF Applied, StoreOk, Typed
<1>6. CASE c.op = "maps"
  BY <1>6 DEF Applied, StoreOk, Typed
<1> QED
  BY <1>1, <1>2, <1>3, <1>4, <1>5, <1>6

\* A handler saves: unless the save was torn, it changes what it is about and nothing else.
LEMMA SavesKeep ==
    ASSUME AmpInv, NEW k \in DOMAIN ampCalls, HandlerSaves(k)
    PROVE  AmpInv'
<1> DEFINE c == ampCalls[k]
           old == CHOOSE s \in c.loaded : TRUE
<1>1. IsSeq(ampCalls) /\ CallOk(c) /\ StoreOk(ampStore) /\ c.phase = "loaded"
  BY DEF AmpInv, AmpShapes, HandlerSaves
<1>2. /\ IsSeq(ampCalls') /\ DOMAIN ampCalls' = DOMAIN ampCalls
      /\ \A j \in DOMAIN ampCalls : j # k => ampCalls'[j] = ampCalls[j]
      /\ ampCalls'[k] = [op |-> c.op, val |-> c.val, phase |-> "saved", loaded |-> {}]
      /\ \A ops : Alone(ampCalls, ops) => Alone(ampCalls', ops)
  BY <1>1, CallMoved DEF HandlerSaves
<1>3. /\ ampCalls'[k].op = c.op /\ ampCalls'[k].val = c.val
      /\ ampCalls'[k].phase = "saved" /\ ampCalls'[k].loaded = {}
      /\ c.op # "force" /\ c.op \in AmpOps
  BY <1>1, <1>2 DEF CallOk
<1>4. CallOk(ampCalls'[k])
  BY <1>2, <1>3 DEF CallOk, Kept
<1>5. UNCHANGED <<ampShown, ampHydrated, ampTimers, ampLoads, ampCleared>>
      /\ ampStore' = Applied(c, old)
      /\ (ampMishaps' = IF c.loaded = {ampStore} THEN ampMishaps ELSE ampMishaps \cup {"torn"})
  BY DEF HandlerSaves, AmpServes
<1>6. c.loaded = {old} /\ StoreOk(old)
  <2>1. PICK s : c.loaded = {s} /\ StoreOk(s)
    BY <1>1 DEF CallOk, Kept
  <2> QED
    BY <2>1
<1> HIDE DEF c, old
<1>7. /\ StoreOk(ampStore')
      /\ \A f \in Typed : ampStore'[f] = IF c.op = f THEN c.val ELSE old[f]
      /\ ampStore'.pairs = CASE c.op = "addPair" -> c.val
                             [] c.op = "dropPair" -> old.pairs \ c.val
                             [] OTHER -> old.pairs
  <2>1. /\ StoreOk(Applied(c, old))
        /\ \A f \in Typed : Applied(c, old)[f] = IF c.op = f THEN c.val ELSE old[f]
        /\ Applied(c, old).pairs = CASE c.op = "addPair" -> c.val
                                      [] c.op = "dropPair" -> old.pairs \ c.val
                                      [] OTHER -> old.pairs
    BY <1>1, <1>3, <1>6, AppliedIs
  <2> QED
    BY <1>5, <2>1
<1>8. AmpShapes'
  BY <1>2, <1>4, <1>5, <1>7 DEF AmpInv, AmpShapes, StillLoading
<1>9. ASSUME NothingErased
      PROVE  NothingErased'
  <2>1. Filled(old) /\ (c.op \in Typed /\ c.val = "" => c.op \in ampCleared)
    BY <1>6, <1>9 DEF NothingErased, c
  <2>2. Filled(ampStore')
    BY <1>7, <2>1 DEF Filled
  <2> QED
    BY <1>2, <1>3, <1>5, <1>9, <2>1, <2>2 DEF NothingErased, Filled, PageKnown
<1>10. ampMishaps' = {} => ampMishaps = {} /\ old = ampStore
  BY <1>5, <1>6
<1>11. ("unread" \in ampMishaps') <=> ("unread" \in ampMishaps)
  BY <1>5
<1>12. ASSUME NEW f \in Typed, FieldInStep(f), old = ampStore
       PROVE  FieldInStep(f)'
  <2>1. CASE c.op = f
    <3>1. Alone(ampCalls', {f})
      BY <1>2, <1>12 DEF FieldInStep
    <3>2. ampCalls'[k].op = f /\ ampStore'[f] = ampCalls'[k].val
      BY <1>3, <1>7, <2>1
    <3>3. \A j \in DOMAIN ampCalls' : ampCalls'[j].op = f => j = k
      BY <1>2, <3>1, <3>2 DEF Alone
    <3>4. ampHydrated /\ f \notin ampTimers => c.val = ampShown[f]
      BY <1>12, <2>1 DEF FieldInStep, Alone, NoneOf, c
    <3> QED
      BY <1>2, <1>3, <1>5, <3>1, <3>2, <3>3, <3>4 DEF FieldInStep
  <2>2. CASE c.op # f
    <3>1. ampStore'[f] = ampStore[f]
      BY <1>7, <1>12, <2>2
    <3>2. SameCalls({f})
      BY <1>2, <1>3, <2>2 DEF SameCalls, c
    <3>3. WillShow(f) => WillShow(f)'
      BY <1>5, <3>1 DEF WillShow
    <3> QED
      BY <1>2, <1>5, <1>12, <3>1, <3>2, <3>3, FieldKept DEF FieldInStep
  <2> QED
    BY <2>1, <2>2
<1>13. ASSUME PairsInStep, old = ampStore
       PROVE  PairsInStep'
  <2>1. CASE c.op \in PairOps
    <3>1. Alone(ampCalls', PairOps) /\ ampCalls'[k].op \in PairOps
      BY <1>2, <1>3, <1>13, <2>1 DEF PairsInStep
    <3>2. \A j \in DOMAIN ampCalls' : ampCalls'[j].op \in PairOps => j = k
      BY <1>2, <3>1 DEF Alone
    <3>3. ~StillLoading /\ ampStore.pairs = ampShown.pairs
      BY <1>1, <1>13, <2>1 DEF PairsInStep, c
    <3>4. ampStore'.pairs = IF c.op = "addPair" THEN c.val ELSE ampShown.pairs \ c.val
      BY <1>7, <1>13, <2>1, <3>3 DEF PairOps
    <3>5. ~NoneOf(ampCalls', PairOps)
      BY <1>2, <3>1 DEF NoneOf
    <3>6. \A i \in DOMAIN ampLoads : FALSE
      BY <3>3, EmptyIs DEF StillLoading
    <3> QED
      BY <1>3, <1>5, <3>1, <3>2, <3>3, <3>4, <3>5, <3>6 DEF PairsInStep, StillLoading
  <2>2. CASE c.op \notin PairOps
    <3>1. ampStore'.pairs = ampStore.pairs
      BY <1>7, <1>13, <2>2 DEF PairOps
    <3>2. SameCalls(PairOps)
      BY <1>2, <1>3, <2>2 DEF SameCalls, c
    <3> QED
      BY <1>2, <1>5, <1>13, <3>1, <3>2, PairsKept DEF PairsInStep, StillLoading
  <2> QED
    BY <2>1, <2>2
<1> QED
  BY <1>8, <1>9, <1>10, <1>11, <1>12, <1>13 DEF AmpInv

(***************************************************************************)
(* Ending                                                                  *)
(***************************************************************************)

\* The calls when one of them is over.
LEMMA CallGone ==
    ASSUME NEW k \in DOMAIN ampCalls, IsSeq(ampCalls), ampCalls' = Without(ampCalls, k)
    PROVE  /\ IsSeq(ampCalls')
           /\ \A j \in DOMAIN ampCalls' : \E i \in DOMAIN ampCalls \ {k} : ampCalls'[j] = ampCalls[i]
           /\ \A ops : Alone(ampCalls, ops) => Alone(ampCalls', ops) /\ (ampCalls[k].op \in ops => NoneOf(ampCalls', ops))
           /\ \A ops : ampCalls[k].op \notin ops => SameCalls(ops)
<1>1. /\ \A j \in DOMAIN ampCalls' : \E i \in DOMAIN ampCalls \ {k} : ampCalls'[j] = ampCalls[i]
      /\ \A i \in DOMAIN ampCalls \ {k} : \E j \in DOMAIN ampCalls' : ampCalls'[j] = ampCalls[i]
  BY WithoutIs
<1>2. IsSeq(ampCalls')
  BY WithoutIs
<1>3. \A ops : Alone(ampCalls, ops) => Alone(ampCalls', ops) /\ (ampCalls[k].op \in ops => NoneOf(ampCalls', ops))
  BY WithoutIs
<1>4. \A ops : ampCalls[k].op \notin ops => SameCalls(ops)
  BY <1>1 DEF SameCalls
<1> QED
  BY <1>1, <1>2, <1>3, <1>4

\* The page hears of a change: page and server agree on it.
LEMMA SavedKeeps ==
    ASSUME AmpInv, NEW k \in DOMAIN ampCalls, AmpSaved(k)
    PROVE  AmpInv'
<1> DEFINE c == ampCalls[k]
<1>1. IsSeq(ampCalls) /\ CallOk(c) /\ c.phase = "saved" /\ ampCalls' = Without(ampCalls, k)
  BY DEF AmpInv, AmpShapes, AmpSaved, CallEnds
<1>2. UNCHANGED <<ampStore, ampHydrated, ampTimers, ampLoads, ampCleared, ampMishaps>>
  BY DEF AmpSaved
<1>3. IsSeq(ampCalls') /\ \A j \in DOMAIN ampCalls' : \E i \in DOMAIN ampCalls \ {k} : ampCalls'[j] = ampCalls[i]
  BY <1>1, CallGone
<1>4. \A ops : Alone(ampCalls, ops) => Alone(ampCalls', ops) /\ (c.op \in ops => NoneOf(ampCalls', ops))
  BY <1>1, CallGone
<1>5. \A ops : c.op \notin ops => SameCalls(ops)
  BY <1>1, CallGone
<1>6. /\ ampShown' \in [url: {ampShown'.url}, key: {ampShown'.key}, pairs: {ampShown'.pairs},
                          maps: {ampShown'.maps}, force: BOOLEAN]
      /\ ampShown'.url = ampShown.url /\ ampShown'.key = ampShown.key
      /\ ampShown'.pairs = CASE c.op = "addPair" -> c.val
                             [] c.op = "dropPair" -> ampShown.pairs \ c.val
                             [] OTHER -> ampShown.pairs
  <2>1. ampShown \in [url: {ampShown.url}, key: {ampShown.key}, pairs: {ampShown.pairs},
                      maps: {ampShown.maps}, force: BOOLEAN]
    BY DEF AmpInv, AmpShapes
  <2>2. CASE c.op = "addPair"
    BY <2>1, <2>2 DEF AmpSaved
  <2>3. CASE c.op = "dropPair"
    BY <2>1, <2>3 DEF AmpSaved
  <2>4. CASE c.op = "maps"
    BY <2>1, <2>4 DEF AmpSaved
  <2>5. CASE c.op \notin {"addPair", "dropPair", "maps"}
    BY <2>1, <2>5 DEF AmpSaved
  <2> QED
    BY <2>2, <2>3, <2>4, <2>5
<1> HIDE DEF c
<1>7. AmpShapes'
  BY <1>2, <1>3, <1>6 DEF AmpInv, AmpShapes, StillLoading
<1>8. ASSUME NothingErased
      PROVE  NothingErased'
  <2>1. Filled(ampShown) => Filled(ampShown')
    BY <1>6 DEF Filled, Typed
  <2> QED
    BY <1>2, <1>3, <1>8, <2>1 DEF NothingErased, PageKnown, Filled
<1>9. ASSUME NEW f \in Typed, FieldInStep(f)
      PROVE  FieldInStep(f)'
  <2>1. ampShown'[f] = ampShown[f]
    BY <1>6 DEF Typed
  <2>2. CASE c.op # f
    <3>1. SameCalls({f}) /\ Alone(ampCalls', {f})
      BY <1>4, <1>5, <1>9, <2>2 DEF FieldInStep
    <3>2. WillShow(f) => WillShow(f)'
      BY <1>2 DEF WillShow
    <3> QED
      BY <1>2, <1>9, <2>1, <3>1, <3>2, FieldKept
  <2>3. CASE c.op = f
    <3>1. NoneOf(ampCalls', {f}) /\ Alone(ampCalls', {f}) /\ Alone(ampCalls, {f})
      BY <1>4, <1>9, <2>3 DEF FieldInStep
    <3>2. ampStore[f] = c.val
      BY <1>1, <1>9, <2>3 DEF FieldInStep, c
    <3>3. ampHydrated /\ f \notin ampTimers => c.val = ampShown[f]
      BY <1>9, <2>3 DEF FieldInStep, Alone, NoneOf, c
    <3> QED
      BY <1>2, <2>1, <3>1, <3>2, <3>3 DEF FieldInStep, NoneOf
  <2> QED
    BY <2>2, <2>3
<1>10. ASSUME PairsInStep
       PROVE  PairsInStep'
  <2>1. CASE c.op \notin PairOps
    <3>1. SameCalls(PairOps) /\ Alone(ampCalls', PairOps)
      BY <1>4, <1>5, <1>10, <2>1 DEF PairsInStep
    <3>2. ampShown'.pairs = ampShown.pairs
      BY <1>6, <2>1 DEF PairOps
    <3> QED
      BY <1>2, <1>10, <3>1, <3>2, PairsKept DEF PairsInStep, StillLoading
  <2>2. CASE c.op \in PairOps
    <3>1. NoneOf(ampCalls', PairOps) /\ Alone(ampCalls', PairOps)
      BY <1>4, <1>10, <2>2 DEF PairsInStep
    <3>2. ~StillLoading /\ ampStore.pairs = IF c.op = "addPair" THEN c.val ELSE ampShown.pairs \ c.val
      BY <1>1, <1>10, <2>2 DEF PairsInStep, c
    <3>3. ampStore.pairs = ampShown'.pairs
      BY <1>6, <2>2, <3>2 DEF PairOps
    <3>4. \A i \in DOMAIN ampLoads : FALSE
      BY <3>2, EmptyIs DEF StillLoading
    <3> QED
      BY <1>2, <3>1, <3>3, <3>4 DEF PairsInStep, NoneOf
  <2> QED
    BY <2>1, <2>2
<1> QED
  BY <1>2, <1>7, <1>8, <1>9, <1>10 DEF AmpInv

\* Mappings are no part of what is kept in step.
LEMMA MappingsFailKeeps ==
    ASSUME AmpInv, NEW k \in DOMAIN ampCalls, MappingsFail(k)
    PROVE  AmpInv'
<1> DEFINE c == ampCalls[k]
<1>1. IsSeq(ampCalls) /\ c.op = "maps" /\ ampCalls' = Without(ampCalls, k)
  BY DEF AmpInv, AmpShapes, MappingsFail, CallEnds
<1>2. UNCHANGED <<ampStore, ampShown, ampHydrated, ampTimers, ampLoads, ampCleared, ampMishaps>>
  BY DEF MappingsFail
<1>3. IsSeq(ampCalls') /\ \A j \in DOMAIN ampCalls' : \E i \in DOMAIN ampCalls \ {k} : ampCalls'[j] = ampCalls[i]
  BY <1>1, CallGone
<1>4. \A ops : Alone(ampCalls, ops) => Alone(ampCalls', ops)
  BY <1>1, CallGone
<1>5. \A ops : c.op \notin ops => SameCalls(ops)
  BY <1>1, CallGone
<1> HIDE DEF c
<1>6. AmpShapes'
  BY <1>2, <1>3 DEF AmpInv, AmpShapes, StillLoading
<1>7. NothingErased => NothingErased'
  BY <1>2, <1>3 DEF NothingErased, PageKnown, Filled
<1>8. ASSUME NEW f \in Typed, FieldInStep(f)
      PROVE  FieldInStep(f)'
  <2>1. SameCalls({f}) /\ Alone(ampCalls', {f})
    BY <1>1, <1>4, <1>5, <1>8 DEF FieldInStep, Typed
  <2>2. WillShow(f) => WillShow(f)'
    BY <1>2 DEF WillShow
  <2> QED
    BY <1>2, <1>8, <2>1, <2>2, FieldKept
<1>9. ASSUME PairsInStep
      PROVE  PairsInStep'
  <2>1. SameCalls(PairOps) /\ Alone(ampCalls', PairOps)
    BY <1>1, <1>4, <1>5, <1>9 DEF PairsInStep, PairOps
  <2> QED
    BY <1>2, <1>9, <2>1, PairsKept DEF PairsInStep, StillLoading
<1> QED
  BY <1>2, <1>6, <1>7, <1>8, <1>9 DEF AmpInv

\* A change fails: the load it starts will show what the server has.
LEMMA AmpFailsKeeps ==
    ASSUME AmpInv, NEW k \in DOMAIN ampCalls, AmpFails(k)
    PROVE  AmpInv'
<1> DEFINE c == ampCalls[k]
<1>1. IsSeq(ampCalls) /\ IsSeq(ampLoads) /\ ampCalls' = Without(ampCalls, k) /\ ampLoads' = Longer(ampLoads, Asked(1))
  BY DEF AmpInv, AmpShapes, AmpFails, Longer
<1>2. UNCHANGED <<ampStore, ampShown, ampHydrated, ampTimers, ampCleared>>
  BY DEF AmpFails
<1>3. /\ ampMishaps \subseteq ampMishaps' /\ ("unread" \in ampMishaps' <=> "unread" \in ampMishaps)
      /\ ampMishaps' = {} => \A j \in DOMAIN ampCalls \ {k} : ampCalls[j].op \notin PairOps
  BY DEF AmpFails
<1>4. IsSeq(ampCalls') /\ \A j \in DOMAIN ampCalls' : \E i \in DOMAIN ampCalls \ {k} : ampCalls'[j] = ampCalls[i]
  BY <1>1, CallGone
<1>5. \A ops : Alone(ampCalls, ops) => Alone(ampCalls', ops) /\ (c.op \in ops => NoneOf(ampCalls', ops))
  BY <1>1, CallGone
<1>6. \A ops : c.op \notin ops => SameCalls(ops)
  BY <1>1, CallGone
<1>7. Asked(1).stage = 1 /\ Asked(1).saw = {} /\ LoadOk(Asked(1))
  BY DEF Asked, LoadOk, Kept
<1>8. /\ IsSeq(ampLoads') /\ StillLoading'
      /\ \A i \in DOMAIN ampLoads' :
            (ampLoads'[i].stage = 1 /\ ampLoads'[i].saw = {} /\ LoadOk(ampLoads'[i]))
            \/ (i \in DOMAIN ampLoads /\ ampLoads'[i] = ampLoads[i])
      /\ \E i \in DOMAIN ampLoads' : ampLoads'[i].stage = 1 /\ ampLoads'[i].saw = {}
      /\ \A i \in DOMAIN ampLoads : i \in DOMAIN ampLoads' /\ ampLoads'[i] = ampLoads[i]
  <2>1. IsSeq(ampLoads') /\ StillLoading'
    BY <1>1, LongerIs DEF StillLoading
  <2>2. \A i \in DOMAIN ampLoads' : ampLoads'[i] = Asked(1) \/ (i \in DOMAIN ampLoads /\ ampLoads'[i] = ampLoads[i])
    BY <1>1, LongerIs
  <2>3. \E i \in DOMAIN ampLoads' : ampLoads'[i] = Asked(1)
    BY <1>1, LongerIs
  <2>4. \A i \in DOMAIN ampLoads : i \in DOMAIN ampLoads' /\ ampLoads'[i] = ampLoads[i]
    BY <1>1, LongerIs
  <2> QED
    BY <1>7, <2>1, <2>2, <2>3, <2>4
<1> HIDE DEF c
<1>9. AmpShapes'
  <2>1. \A i \in DOMAIN ampLoads' : LoadOk(ampLoads'[i])
    BY <1>8 DEF AmpInv, AmpShapes
  <2> QED
    BY <1>2, <1>4, <1>8, <2>1 DEF AmpInv, AmpShapes
<1>10. ASSUME NothingErased
       PROVE  NothingErased'
  <2>1. PageKnown' => PageKnown
    <3>1. ~(1 > 1)
      OBVIOUS
    <3> QED
      BY <1>2, <1>8, <3>1 DEF PageKnown
  <2>2. \A i \in DOMAIN ampLoads' : \A s \in ampLoads'[i].saw : Filled(s)
    BY <1>8, <1>10 DEF NothingErased
  <2> QED
    BY <1>2, <1>4, <1>10, <2>1, <2>2 DEF NothingErased, Filled
<1>11. ASSUME NEW f \in Typed, FieldInStep(f)
       PROVE  FieldInStep(f)'
  <2>1. WillShow(f)'
    BY <1>8 DEF WillShow
  <2>2. CASE c.op # f
    <3>1. SameCalls({f}) /\ Alone(ampCalls', {f})
      BY <1>5, <1>6, <1>11, <2>2 DEF FieldInStep
    <3> QED
      BY <1>2, <1>11, <2>1, <3>1, FieldKept
  <2>3. CASE c.op = f
    <3>1. NoneOf(ampCalls', {f}) /\ Alone(ampCalls', {f})
      BY <1>5, <1>11, <2>3 DEF FieldInStep
    <3> QED
      BY <2>1, <3>1 DEF FieldInStep, NoneOf
  <2> QED
    BY <2>2, <2>3
<1>12. ASSUME PairsInStep, ampMishaps' = {}
       PROVE  PairsInStep'
  <2>1. NoneOf(ampCalls', PairOps)
    BY <1>3, <1>4, <1>12 DEF NoneOf
  <2>2. Alone(ampCalls', PairOps)
    BY <2>1 DEF NoneOf, Alone
  <2>3. \A i \in DOMAIN ampLoads' : ampLoads'[i].stage = 3 =>
          \A s \in ampLoads'[i].saw : s.pairs = ampStore.pairs
    BY <1>8, <1>12 DEF PairsInStep
  <2> QED
    BY <1>2, <1>8, <2>1, <2>2, <2>3 DEF PairsInStep, NoneOf
<1> QED
  BY <1>3, <1>9, <1>10, <1>11, <1>12 DEF AmpInv

(***************************************************************************)
(* Reading and typing                                                      *)
(***************************************************************************)

\* A field of the page changes, and then its timer runs or it shows what the
\* server has.
LEMMA FieldRead ==
    ASSUME NEW f, FieldInStep(f), UNCHANGED <<ampStore, ampCalls>>, 
           ampHydrated' /\ f \notin ampTimers' =>
               ampHydrated /\ f \notin ampTimers /\ ampShown'[f] = ampShown[f],
           WillShow(f) => WillShow(f)' \/ ampStore[f] = ampShown'[f]
    PROVE  FieldInStep(f)'
<1>1. Alone(ampCalls', {f})
  BY DEF FieldInStep
<1>2. \A k \in DOMAIN ampCalls' :
          ampCalls'[k].op = f /\ ampCalls'[k].phase = "saved" => ampStore'[f] = ampCalls'[k].val
  BY DEF FieldInStep
<1>3. ampHydrated' /\ f \notin ampTimers' =>
          \/ \E k \in DOMAIN ampCalls' : ampCalls'[k].op = f /\ ampCalls'[k].val = ampShown'[f]
          \/ NoneOf(ampCalls', {f}) /\ (ampStore'[f] = ampShown'[f] \/ WillShow(f)')
  BY DEF FieldInStep
<1> QED
  BY <1>1, <1>2, <1>3 DEF FieldInStep

\* One load goes on; the others are untouched.
LEMMA LoadMoved ==
    ASSUME NEW i \in DOMAIN ampLoads, IsSeq(ampLoads), NEW e, ampLoads' = [ampLoads EXCEPT ![i] = e]
    PROVE  /\ IsSeq(ampLoads') /\ DOMAIN ampLoads' = DOMAIN ampLoads /\ StillLoading'
           /\ ampLoads'[i] = e
           /\ \A j \in DOMAIN ampLoads : j # i => ampLoads'[j] = ampLoads[j]
<1>1. IsSeq(ampLoads') /\ DOMAIN ampLoads' = DOMAIN ampLoads
  BY ExceptIs
<1>2. ampLoads'[i] = e /\ \A j \in DOMAIN ampLoads : j # i => ampLoads'[j] = ampLoads[j]
  BY ExceptIs
<1>3. StillLoading'
  BY <1>1, EmptyIs DEF StillLoading
<1> QED
  BY <1>1, <1>2, <1>3

\* What a load carries is what the server has.
LEMMA ReadKeeps ==
    ASSUME AmpInv, NEW i \in DOMAIN ampLoads, AmpRead(i)
    PROVE  AmpInv'
<1> DEFINE e == [stage |-> ampLoads[i].stage, saw |-> {ampStore}]
<1>1. IsSeq(ampLoads) /\ LoadOk(ampLoads[i]) /\ StoreOk(ampStore)
  BY DEF AmpInv, AmpShapes
<1>2. ampLoads' = [ampLoads EXCEPT ![i] = e]
  <2>1. [ampLoads[i] EXCEPT !.saw = {ampStore}] = e
    <3>1. ampLoads[i] = [stage |-> ampLoads[i].stage, saw |-> ampLoads[i].saw]
      BY <1>1 DEF LoadOk
    <3> QED
      BY <3>1
  <2>2. PICK S : ampLoads \in Seq(S)
    BY <1>1 DEF IsSeq
  <2> HIDE DEF e
  <2>3. ampLoads' = [j \in DOMAIN ampLoads |->
                        IF j = i THEN [ampLoads[i] EXCEPT !.saw = {ampStore}] ELSE ampLoads[j]]
    BY <2>2 DEF AmpRead
  <2>4. [ampLoads EXCEPT ![i] = e] = [j \in DOMAIN ampLoads |-> IF j = i THEN e ELSE ampLoads[j]]
    BY <2>2
  <2> QED
    BY <2>1, <2>3, <2>4
<1>3. e.stage = ampLoads[i].stage /\ e.saw = {ampStore} /\ LoadOk(e)
  <2>1. ampLoads[i].stage \in 1..3
    BY <1>1 DEF LoadOk
  <2>2. Kept({ampStore})
    BY <1>1 DEF Kept
  <2> QED
    BY <2>1, <2>2 DEF LoadOk
<1> HIDE DEF e
<1>4. /\ IsSeq(ampLoads') /\ DOMAIN ampLoads' = DOMAIN ampLoads /\ StillLoading'
      /\ ampLoads'[i] = e
      /\ \A j \in DOMAIN ampLoads : j # i => ampLoads'[j] = ampLoads[j]
  BY <1>1, <1>2, LoadMoved
<1>5. UNCHANGED <<ampStore, ampShown, ampHydrated, ampTimers, ampCalls, ampCleared, ampMishaps>>
  BY DEF AmpRead
<1>6. StillLoading
  BY EmptyIs DEF StillLoading
<1>7. AmpShapes'
  BY <1>3, <1>4, <1>5 DEF AmpInv, AmpShapes
<1>8. NothingErased => NothingErased'
  BY <1>3, <1>4, <1>5 DEF NothingErased, PageKnown, Filled
<1>9. ASSUME NEW f \in Typed, FieldInStep(f)
      PROVE  FieldInStep(f)'
  <2>1. WillShow(f) => WillShow(f)'
    BY <1>3, <1>4, <1>5 DEF WillShow
  <2> QED
    BY <1>5, <1>9, <2>1, FieldKept, SameCallsKept DEF FieldInStep
<1>10. ASSUME PairsInStep
       PROVE  PairsInStep'
  <2>1. \A j \in DOMAIN ampLoads' : ampLoads'[j].stage = 3 =>
            \A s \in ampLoads'[j].saw : s.pairs = ampStore.pairs
    BY <1>3, <1>4, <1>10 DEF PairsInStep
  <2>2. StillLoading' = StillLoading
    BY <1>4, <1>6 DEF StillLoading
  <2>3. Alone(ampCalls', PairOps) /\ SameCalls(PairOps)
    BY <1>5, <1>10, SameCallsKept DEF PairsInStep
  <2> QED
    BY <1>5, <1>10, <2>1, <2>2, <2>3, PairsKept
<1> QED
  BY <1>5, <1>7, <1>8, <1>9, <1>10 DEF AmpInv

\* A load is over.
LEMMA LoadGone ==
    ASSUME NEW i \in DOMAIN ampLoads, IsSeq(ampLoads), ampLoads' = Without(ampLoads, i)
    PROVE  /\ IsSeq(ampLoads')
           /\ \A j \in DOMAIN ampLoads' : \E m \in DOMAIN ampLoads : ampLoads'[j] = ampLoads[m]
           /\ \A m \in DOMAIN ampLoads : m # i => \E j \in DOMAIN ampLoads' : ampLoads'[j] = ampLoads[m]
<1>1. IsSeq(ampLoads')
  BY WithoutIs
<1>2. \A j \in DOMAIN ampLoads' : \E m \in DOMAIN ampLoads \ {i} : ampLoads'[j] = ampLoads[m]
  BY WithoutIs
<1>3. \A m \in DOMAIN ampLoads \ {i} : \E j \in DOMAIN ampLoads' : ampLoads'[j] = ampLoads[m]
  BY WithoutIs
<1> QED
  BY <1>1, <1>2, <1>3

\* A load fails: an accident, but nothing is erased once something was read.
LEMMA ReadFailsKeeps ==
    ASSUME AmpInv, NEW i \in DOMAIN ampLoads, AmpReadFails(i)
    PROVE  AmpInv'
<1>1. IsSeq(ampLoads) /\ LoadOk(ampLoads[i]) /\ ampLoads' = Without(ampLoads, i)
  BY DEF AmpInv, AmpShapes, AmpReadFails
<1>2. IsSeq(ampLoads') /\ \A j \in DOMAIN ampLoads' : \E m \in DOMAIN ampLoads : ampLoads'[j] = ampLoads[m]
  BY <1>1, LoadGone
<1>3. UNCHANGED <<ampStore, ampShown, ampCalls, ampCleared>> /\ ampHydrated' = TRUE
  BY DEF AmpReadFails
<1>4. ampTimers' \subseteq Typed
  BY DEF AmpReadFails, Effects, AmpInv, AmpShapes
<1>5. /\ ampMishaps' # {}
      /\ "unread" \notin ampMishaps' => "unread" \notin ampMishaps /\ (ampLoads[i].stage # 1 \/ ampHydrated)
  BY DEF AmpReadFails
<1>6. AmpShapes'
  BY <1>2, <1>3, <1>4 DEF AmpInv, AmpShapes
<1>7. ASSUME NothingErased, ampLoads[i].stage # 1 \/ ampHydrated
      PROVE  NothingErased'
  <2>1. PageKnown
    <3>1. ampLoads[i].stage # 1 => ampLoads[i].stage > 1
      BY <1>1 DEF LoadOk
    <3> QED
      BY <1>7, <3>1 DEF PageKnown
  <2> QED
    BY <1>2, <1>3, <1>7, <2>1 DEF NothingErased, Filled
<1> QED
  BY <1>5, <1>6, <1>7 DEF AmpInv

\* What the page shows after an answer, in the fields this is about.
LEMMA ArrivesShows ==
    ASSUME AmpShapes, NEW i \in DOMAIN ampLoads, AmpReadArrives(i), NEW seen, ampLoads[i].saw = {seen}
    PROVE  /\ ampShown' \in [url: {ampShown'.url}, key: {ampShown'.key}, pairs: {ampShown'.pairs},
                             maps: {ampShown'.maps}, force: BOOLEAN]
           /\ \A f \in Typed : ampShown'[f] = IF ampLoads[i].stage = 1 THEN seen[f] ELSE ampShown[f]
           /\ ampShown'.pairs = IF ampLoads[i].stage = 3 THEN seen.pairs ELSE ampShown.pairs
<1>1. (CHOOSE s \in ampLoads[i].saw : TRUE) = seen
  OBVIOUS
<1>2. ampShown \in [url: {ampShown.url}, key: {ampShown.key}, pairs: {ampShown.pairs},
                    maps: {ampShown.maps}, force: BOOLEAN]
  BY DEF AmpShapes
<1>3. ampLoads[i].stage = 1 \/ ampLoads[i].stage = 2 \/ ampLoads[i].stage = 3
  <2>1. ampLoads[i].stage \in 1..3
    BY DEF AmpShapes, LoadOk
  <2> QED
    BY <2>1
<1>4. CASE ampLoads[i].stage = 1
  <2>1. ampShown' = [ampShown EXCEPT !.url = seen.url, !.key = seen.key, !.force = FALSE]
    <3> DEFINE old == CHOOSE s \in ampLoads[i].saw : TRUE
    <3>1. ampShown' = [ampShown EXCEPT !.url = old.url, !.key = old.key, !.force = FALSE]
      BY <1>4 DEF AmpReadArrives
    <3> QED
      BY <1>1, <3>1
  <2>2. ampShown' \in [url: {seen.url}, key: {seen.key}, pairs: {ampShown.pairs},
                       maps: {ampShown.maps}, force: BOOLEAN]
    <3> DEFINE one == [ampShown EXCEPT !.url = seen.url]
               two == [one EXCEPT !.key = seen.key]
    <3>1. one \in [url: {seen.url}, key: {ampShown.key}, pairs: {ampShown.pairs},
                   maps: {ampShown.maps}, force: BOOLEAN]
      BY <1>2
    <3> HIDE DEF one
    <3>2. two \in [url: {seen.url}, key: {seen.key}, pairs: {ampShown.pairs},
                   maps: {ampShown.maps}, force: BOOLEAN]
      BY <3>1
    <3> HIDE DEF two
    <3>3. [two EXCEPT !.force = FALSE] \in [url: {seen.url}, key: {seen.key}, pairs: {ampShown.pairs},
                                            maps: {ampShown.maps}, force: BOOLEAN]
      BY <3>2
    <3>4. ampShown' = [two EXCEPT !.force = FALSE]
      BY <2>1 DEF one, two
    <3> QED
      BY <3>3, <3>4
  <2> QED
    BY <1>4, <2>2 DEF Typed
<1>5. CASE ampLoads[i].stage = 2
  <2>1. ampShown' = [ampShown EXCEPT !.maps = seen.maps]
    BY <1>1, <1>5 DEF AmpReadArrives
  <2> QED
    BY <1>2, <1>5, <2>1 DEF Typed
<1>6. CASE ampLoads[i].stage = 3
  <2>1. ampShown' = [ampShown EXCEPT !.pairs = seen.pairs]
    BY <1>1, <1>6 DEF AmpReadArrives
  <2> QED
    BY <1>2, <1>6, <2>1 DEF Typed
<1> QED
  BY <1>3, <1>4, <1>5, <1>6

\* An answer arrives: what differs from it gets a timer or is what the server has.
LEMMA ArrivesKeeps ==
    ASSUME AmpInv, NEW i \in DOMAIN ampLoads, AmpReadArrives(i)
    PROVE  AmpInv'
<1> DEFINE n == ampLoads[i].stage
<1>1. IsSeq(ampLoads) /\ LoadOk(ampLoads[i]) /\ n \in 1..3
  BY DEF AmpInv, AmpShapes, LoadOk
<1>2. PICK seen : ampLoads[i].saw = {seen} /\ StoreOk(seen)
  BY <1>1 DEF AmpReadArrives, LoadOk, Kept
<1>3. /\ ampShown' \in [url: {ampShown'.url}, key: {ampShown'.key}, pairs: {ampShown'.pairs},
                        maps: {ampShown'.maps}, force: BOOLEAN]
      /\ \A f \in Typed : ampShown'[f] = IF n = 1 THEN seen[f] ELSE ampShown[f]
      /\ ampShown'.pairs = IF n = 3 THEN seen.pairs ELSE ampShown.pairs
  BY <1>2, ArrivesShows DEF AmpInv
<1>4. UNCHANGED <<ampStore, ampCalls, ampCleared, ampMishaps>>
  BY DEF AmpReadArrives
<1>5. /\ ampHydrated' = (ampHydrated \/ n = 3)
      /\ ampLoads' = IF n = 3 THEN Without(ampLoads, i) ELSE [ampLoads EXCEPT ![i] = Asked(n + 1)]
      /\ ampTimers' = ampTimers \cup
            {f \in Typed : ampHydrated' /\ (~ampHydrated \/ ampShown'[f] # ampShown[f])}
  BY DEF AmpReadArrives, Effects
<1>6. Asked(n + 1).stage = n + 1 /\ Asked(n + 1).saw = {} /\ (n # 3 => LoadOk(Asked(n + 1)))
  <2>1. n # 3 => n + 1 \in 1..3
    BY <1>1
  <2> QED
    BY <2>1 DEF Asked, LoadOk, Kept
<1>7. CASE n = 3
  <2>1. /\ IsSeq(ampLoads')
        /\ \A j \in DOMAIN ampLoads' : \E m \in DOMAIN ampLoads : ampLoads'[j] = ampLoads[m]
        /\ \A m \in DOMAIN ampLoads : m # i => \E j \in DOMAIN ampLoads' : ampLoads'[j] = ampLoads[m]
    BY <1>1, <1>5, <1>7, LoadGone
  <2>2. ampHydrated' = TRUE
    BY <1>5, <1>7
  <2>3. AmpShapes'
    BY <1>3, <1>4, <1>5, <2>1, <2>2 DEF AmpInv, AmpShapes
  <2>4. ASSUME NothingErased
        PROVE  NothingErased'
    <3>1. PageKnown
      BY <1>7 DEF PageKnown
    <3>2. Filled(ampShown')
      <4>1. \A f \in Typed : ampShown'[f] = ampShown[f]
        BY <1>3, <1>7
      <4> QED
        BY <2>4, <3>1, <4>1 DEF NothingErased, Filled
    <3> QED
      BY <1>4, <2>1, <2>4, <3>2, ZenonT(30) DEF NothingErased, Filled
  <2>5. ASSUME NEW f \in Typed, FieldInStep(f)
        PROVE  FieldInStep(f)'
    <3>1. ampHydrated' /\ f \notin ampTimers' =>
              ampHydrated /\ f \notin ampTimers /\ ampShown'[f] = ampShown[f]
      BY <1>5, <2>2
    <3>2. WillShow(f) => WillShow(f)'
      BY <1>4, <1>7, <2>1 DEF WillShow
    <3> QED
      BY <1>4, <2>5, <3>1, <3>2, FieldRead
  <2>6. ASSUME PairsInStep
        PROVE  PairsInStep'
    <3>1. StillLoading
      BY EmptyIs DEF StillLoading
    <3>2. ampShown'.pairs = ampStore.pairs
      BY <1>2, <1>3, <1>7, <2>6 DEF PairsInStep
    <3>3. NoneOf(ampCalls, PairOps)
      BY <2>6, <3>1 DEF PairsInStep, NoneOf
    <3> QED
      BY <1>4, <2>1, <2>6, <3>2, <3>3 DEF PairsInStep, NoneOf
  <2> QED
    BY <1>4, <2>3, <2>4, <2>5, <2>6 DEF AmpInv
<1>8. CASE n # 3
  <2>1. /\ IsSeq(ampLoads') /\ DOMAIN ampLoads' = DOMAIN ampLoads /\ StillLoading'
        /\ ampLoads'[i] = Asked(n + 1)
        /\ \A j \in DOMAIN ampLoads : j # i => ampLoads'[j] = ampLoads[j]
    BY <1>1, <1>5, <1>8, LoadMoved
  <2>2. ampHydrated' = ampHydrated
    BY <1>5, <1>8 DEF AmpInv, AmpShapes
  <2>3. AmpShapes'
    BY <1>3, <1>4, <1>5, <1>6, <1>8, <2>1, <2>2 DEF AmpInv, AmpShapes
  <2>4. ASSUME NothingErased
        PROVE  NothingErased'
    <3>1. n # 1 => PageKnown
      <4>1. n # 1 => n > 1
        BY <1>1
      <4> QED
        BY <4>1 DEF PageKnown
    <3>2. Filled(seen)
      BY <1>2, <2>4 DEF NothingErased
    <3>3. Filled(ampShown')
      <4>1. CASE n = 1
        BY <1>3, <3>2, <4>1 DEF Filled
      <4>2. CASE n # 1
        BY <1>3, <2>4, <3>1, <4>2 DEF NothingErased, Filled
      <4> QED
        BY <4>1, <4>2
    <3> QED
      BY <1>4, <1>6, <2>1, <2>4, <3>3 DEF NothingErased, Filled
  <2>5. ASSUME NEW f \in Typed, FieldInStep(f)
        PROVE  FieldInStep(f)'
    <3>1. ampHydrated' /\ f \notin ampTimers' =>
              ampHydrated /\ f \notin ampTimers /\ ampShown'[f] = ampShown[f]
      BY <1>5, <2>2
    <3>2. WillShow(f) => WillShow(f)' \/ ampStore[f] = ampShown'[f]
      <4> SUFFICES ASSUME WillShow(f) PROVE WillShow(f)' \/ ampStore[f] = ampShown'[f]
        OBVIOUS
      <4>1. PICK m \in DOMAIN ampLoads : ampLoads[m].stage = 1 /\ \A s \in ampLoads[m].saw : s[f] = ampStore[f]
        BY DEF WillShow
      <4>2. CASE m = i
        BY <1>2, <1>3, <4>1, <4>2
      <4>3. CASE m # i
        BY <1>4, <2>1, <4>1, <4>3 DEF WillShow
      <4> QED
        BY <4>2, <4>3
    <3> QED
      BY <1>4, <2>5, <3>1, <3>2, FieldRead
  <2>6. ASSUME PairsInStep
        PROVE  PairsInStep'
    <3>1. StillLoading
      BY EmptyIs DEF StillLoading
    <3>2. \A j \in DOMAIN ampLoads' : ampLoads'[j].stage = 3 =>
              \A s \in ampLoads'[j].saw : s.pairs = ampStore.pairs
      BY <1>6, <2>1, <2>6 DEF PairsInStep
    <3>3. NoneOf(ampCalls, PairOps)
      BY <2>6, <3>1 DEF PairsInStep, NoneOf
    <3> QED
      BY <1>4, <2>1, <2>6, <3>2, <3>3 DEF PairsInStep, NoneOf
  <2> QED
    BY <1>4, <2>3, <2>4, <2>5, <2>6 DEF AmpInv
<1> QED
  BY <1>7, <1>8

\* Typing starts the timer of the field, or is overwritten by the first load.
LEMMA TypesKeep ==
    ASSUME AmpInv, NEW f \in Typed, NEW x, TypeField(f, x)
    PROVE  AmpInv'
<1>1. ampShown' = [ampShown EXCEPT ![f] = x] /\ ampShown[f] # x
  BY DEF TypeField
<1>2. UNCHANGED <<ampStore, ampHydrated, ampCalls, ampLoads, ampMishaps>>
  BY DEF TypeField
<1>3. ampCleared' = IF x = "" THEN ampCleared \cup {f} ELSE ampCleared
  BY DEF TypeField
<1>4. /\ ampShown' \in [url: {ampShown'.url}, key: {ampShown'.key}, pairs: {ampShown'.pairs},
                        maps: {ampShown'.maps}, force: BOOLEAN]
      /\ \A g \in Typed : ampShown'[g] = IF g = f THEN x ELSE ampShown[g]
      /\ ampShown'.pairs = ampShown.pairs
  <2>1. ampShown \in [url: {ampShown.url}, key: {ampShown.key}, pairs: {ampShown.pairs},
                      maps: {ampShown.maps}, force: BOOLEAN]
    BY DEF AmpInv, AmpShapes
  <2>2. CASE f = "url"
    BY <1>1, <2>1, <2>2 DEF Typed
  <2>3. CASE f = "key"
    BY <1>1, <2>1, <2>3 DEF Typed
  <2> QED
    BY <2>2, <2>3 DEF Typed
<1>5. ampTimers' = ampTimers \cup
          {g \in Typed : ampHydrated' /\ (~ampHydrated \/ ampShown'[g] # ampShown[g])}
  BY DEF TypeField, Effects
<1>6. AmpShapes'
  BY <1>1, <1>2, <1>4, <1>5 DEF AmpInv, AmpShapes, StillLoading
<1>7. ASSUME NothingErased
      PROVE  NothingErased'
  <2>1. \A s : Filled(s) => Filled(s)'
    BY <1>3 DEF Filled
  <2>2. Filled(ampShown) => \A g \in Typed : ampShown'[g] = "" => g \in ampCleared'
    BY <1>3, <1>4 DEF Filled
  <2>3. PageKnown' = PageKnown
    BY <1>2 DEF PageKnown
  <2> QED
    BY <1>2, <1>3, <1>7, <2>2, <2>3 DEF NothingErased, Filled
<1>8. ASSUME NEW g \in Typed, FieldInStep(g)
      PROVE  FieldInStep(g)'
  <2>1. ampHydrated' /\ g \notin ampTimers' =>
            ampHydrated /\ g \notin ampTimers /\ ampShown'[g] = ampShown[g]
    BY <1>2, <1>5
  <2>2. WillShow(g) => WillShow(g)'
    BY <1>2 DEF WillShow
  <2> QED
    BY <1>2, <1>8, <2>1, <2>2, FieldRead
<1>9. PairsInStep => PairsInStep'
  BY <1>2, <1>4, PairsKept, SameCallsKept DEF PairsInStep, StillLoading
<1> QED
  BY <1>2, <1>6, <1>7, <1>8, <1>9 DEF AmpInv

(***************************************************************************)
(* Every step                                                              *)
(***************************************************************************)

\* Drafting mappings touches nothing that is kept in step.
LEMMA DraftKeeps ==
    ASSUME AmpInv, NEW rows, DraftMappings(rows)
    PROVE  AmpInv'
<1>1. ampShown' \in [url: {ampShown'.url}, key: {ampShown'.key}, pairs: {ampShown'.pairs},
                     maps: {ampShown'.maps}, force: BOOLEAN]
      /\ \A f \in {"url", "key", "pairs"} : ampShown'[f] = ampShown[f]
  BY DEF DraftMappings, AmpInv, AmpShapes
<1> QED
  BY <1>1, PageQuiet DEF DraftMappings

\* Nor do the test of the upstream and a step of somebody else.
LEMMA ShownKeeps ==
    ASSUME AmpInv, UNCHANGED <<ampStore, ampShown, ampHydrated, ampTimers, ampCalls, ampLoads, ampCleared, ampMishaps>>
    PROVE  AmpInv'
<1>1. ampShown' \in [url: {ampShown'.url}, key: {ampShown'.key}, pairs: {ampShown'.pairs},
                     maps: {ampShown'.maps}, force: BOOLEAN]
  BY DEF AmpInv, AmpShapes
<1> QED
  BY <1>1, PageQuiet

\* Every step keeps the invariant.
LEMMA AmpInvNext == AmpInv /\ [AmpNext]_ampVars => AmpInv'
<1> SUFFICES ASSUME AmpInv, [AmpNext]_ampVars PROVE AmpInv'
  OBVIOUS
<1>0. ampShown \in [url: {ampShown.url}, key: {ampShown.key}, pairs: {ampShown.pairs},
                    maps: {ampShown.maps}, force: BOOLEAN]
  BY DEF AmpInv, AmpShapes
<1>1. ASSUME NEW i \in DOMAIN ampLoads, AmpRead(i) \/ AmpReadArrives(i) \/ AmpReadFails(i) PROVE AmpInv'
  BY <1>1, ReadKeeps, ArrivesKeeps, ReadFailsKeeps
<1>2. ASSUME NEW f \in Typed, AutoSave(f) PROVE AmpInv'
  <2>1. f \in AmpOps
    BY DEF AmpOps
  <2> QED
    BY <1>0, <1>2, <2>1, SendKeeps DEF AutoSave
<1>3. ASSUME NEW f \in Typed, NEW x, TypeField(f, x) PROVE AmpInv'
  BY <1>3, TypesKeep
<1>4. ASSUME NEW p, AddPair(p) PROVE AmpInv'
  <2>1. "addPair" \in AmpOps /\ "addPair" \notin Typed
    BY DEF AmpOps, PairOps, Typed
  <2> QED
    BY <1>0, <1>4, <2>1, SendKeeps DEF AddPair
<1>5. ASSUME NEW p, DropPair(p) PROVE AmpInv'
  <2>1. "dropPair" \in AmpOps /\ "dropPair" \notin Typed
    BY DEF AmpOps, PairOps, Typed
  <2> QED
    BY <1>0, <1>5, <2>1, SendKeeps DEF DropPair
<1>6. ASSUME ToggleForce PROVE AmpInv'
  <2>1. "force" \in AmpOps /\ "force" \notin Typed
    BY DEF AmpOps, Typed
  <2>2. ampShown' \in [url: {ampShown.url}, key: {ampShown.key}, pairs: {ampShown.pairs},
                       maps: {ampShown.maps}, force: BOOLEAN]
    BY <1>0, <1>6 DEF ToggleForce
  <2> QED
    BY <1>6, <2>1, <2>2, SendKeeps DEF ToggleForce
<1>7. ASSUME SaveMappings PROVE AmpInv'
  <2>1. "maps" \in AmpOps /\ "maps" \notin Typed
    BY DEF AmpOps, Typed
  <2> QED
    BY <1>0, <1>7, <2>1, SendKeeps DEF SaveMappings
<1>8. ASSUME NEW rows, DraftMappings(rows) PROVE AmpInv'
  BY <1>8, DraftKeeps
<1>9. ASSUME NEW k \in DOMAIN ampCalls,
             HandlerLoads(k) \/ HandlerSaves(k) \/ AmpSaved(k) \/ MappingsFail(k) \/ AmpFails(k)
      PROVE  AmpInv'
  BY <1>9, LoadsKeep, SavesKeep, SavedKeeps, MappingsFailKeeps, AmpFailsKeeps
<1>10. ASSUME TestUpstream \/ \E answer : ProbeAnswers(answer) PROVE AmpInv'
  BY <1>10, ShownKeeps DEF TestUpstream, ProbeAnswers, ProbeOnly
<1>11. ASSUME UNCHANGED ampVars PROVE AmpInv'
  BY <1>11, ShownKeeps DEF ampVars
<1> QED
  BY <1>1, <1>2, <1>3, <1>4, <1>5, <1>6, <1>7, <1>8, <1>9, <1>10, <1>11
     DEF AmpNext, AddMapping, EditMapping, DropMapping

\* The invariant says what the property asks.
LEMMA AmpInvShows == AmpInv => KeptAsShown
<1> SUFFICES ASSUME AmpInv PROVE KeptAsShown
  OBVIOUS
<1>1. "unread" \notin ampMishaps => \A f \in Typed : ampStore[f] = "" => f \in ampCleared
  BY DEF AmpInv, NothingErased, Filled
<1>2. ASSUME AtRest, ampMishaps = {}
      PROVE  \A f \in {"url", "key", "pairs"} : ampStore[f] = ampShown[f]
  <2>1. DOMAIN ampCalls = {} /\ DOMAIN ampLoads = {} /\ ~StillLoading /\ ampHydrated
    BY <1>2, EmptyIs DEF AtRest, StillLoading, AmpInv, AmpShapes
  <2>2. \A f \in Typed : ampStore[f] = ampShown[f]
    BY <1>2, <2>1 DEF AmpInv, FieldInStep, WillShow, AtRest
  <2>3. ampStore.pairs = ampShown.pairs
    BY <1>2, <2>1 DEF AmpInv, PairsInStep, NoneOf
  <2> QED
    BY <2>2, <2>3 DEF Typed
<1> QED
  BY <1>1, <1>2 DEF KeptAsShown

\* The timers of the Ampcode page erase nothing on the server, and at rest the
\* page and the server agree unless one of the known accidents happened.
THEOREM KeptAlwaysAsShown == AmpSpec => []KeptAsShown
<1>1. AmpInit => AmpInv
  BY AmpInvInit
<1>2. AmpInv /\ [AmpNext]_ampVars => AmpInv'
  BY AmpInvNext
<1>3. AmpInv => KeptAsShown
  BY AmpInvShows
<1> QED
  BY <1>1, <1>2, <1>3, PTL DEF AmpSpec

==============================================================================
