---------------------------- MODULE AccessProofs -----------------------------
(***************************************************************************)
(* What authentication believes is never older than a cached entry and the  *)
(* time two requests take, for any callers, clerks, groups and writes.      *)
(***************************************************************************)
EXTENDS Access, TLAPS

(***************************************************************************)
(* The inductive invariant                                                 *)
(***************************************************************************)

BoundTo == PriceGroups \cup {NoGroup}
UserStates == {"active", "deleted"}
Rates == {"base", "discount"}
LaterSteps == {"lookStatus", "readStatus", "storeStatus", "readGroup", "readPaid"}

RowTypes ==
    /\ userStatus \in UserStates
    /\ keyStatus \in {"active", "revoked"}
    /\ keyGroup \in BoundTo
    /\ groupRate \in [PriceGroups -> {"base", "discount", "gone"}]
    /\ subscribed \in SUBSET PriceGroups

CacheTypes ==
    /\ keyCache \in SUBSET [value : [group : BoundTo, rate : Rates], until : Int]
    /\ statusCache \in SUBSET [value : UserStates, until : Int]

Requests ==
    [pc : {"idle", "lookKey", "readKey", "readRate", "storeKey"} \cup LaterSteps,
     byKey : BOOLEAN, since : Int, group : BoundTo, rate : Rates, status : UserStates]

Tasks ==
    [pc : {"idle", "update", "rebind", "flushStatus", "flushKey"}, group : BoundTo,
     old : UserStates]
ClerkTypes == clerks \in [Clerks -> Tasks]

\* What is true now was last true now, and nothing was true later.
MemoryKept ==
    /\ tick \in Int
    /\ held \in [Facts -> Int]
    /\ \A f \in Facts : held[f] <= tick
    /\ \A f \in Truths : held[f] = tick

\* The key was active, bound to the group and at that rate, at time t or later.
KeyKnown(t, group, rate) ==
    /\ held[<<"key", "active">>] >= t
    /\ held[<<"bound", group>>] >= t
    /\ rate = "discount" => group \in PriceGroups /\ held[<<group, "discount">>] >= t

UserKnown(t, status) == held[<<"user", status>>] >= t

\* The oldest time of which an entry knows that is stored, or hit, at time t.
EntryAge(t) == t - KeyTTL - AuthLag

CachesKnow ==
    /\ \A e \in keyCache : KeyKnown(EntryAge(e.until), e.value.group, e.value.rate)
    /\ \A e \in statusCache : UserKnown(EntryAge(e.until), e.value)

\* What a request r has learnt: from a row since it came, from a cache what the
\* entry knew.
RequestKnows(r) ==
    /\ r.pc # "idle" => r.since <= tick /\ tick - r.since <= AuthLag
    /\ r.pc \in {"idle", "lookKey", "readKey"} => r.group = NoGroup
    /\ r.pc \in {"idle", "lookKey", "readKey", "readRate"} => r.rate = "base"
    /\ r.pc = "readRate" => r.group \in PriceGroups
    /\ r.pc \in {"lookKey", "readKey", "readRate", "storeKey"} => r.byKey
    /\ r.pc \in {"readRate", "storeKey"} => KeyKnown(r.since, r.group, r.rate)
    /\ r.pc \in LaterSteps /\ r.byKey => KeyKnown(EntryAge(r.since), r.group, r.rate)
    /\ r.pc \in LaterSteps /\ ~r.byKey => r.rate = "base"
    /\ r.pc = "storeStatus" => UserKnown(r.since, r.status)
    /\ r.pc \in {"readGroup", "readPaid"} => UserKnown(EntryAge(r.since), "active")

AccessInv ==
    /\ RowTypes /\ CacheTypes /\ ClerkTypes
    /\ callers \in [Callers -> Requests]
    /\ MemoryKept
    /\ CachesKnow
    /\ \A c \in Callers : RequestKnows(callers[c])
    /\ CachesAgeOnly

\* The facts that are true are facts.
LEMMA TruthsAreFacts == RowTypes => Truths \subseteq Facts
BY DEF RowTypes, Truths, Facts, UserStates, BoundTo

\* What is known is a fact.
LEMMA KnownAreFacts ==
    /\ \A status \in UserStates : <<"user", status>> \in Facts
    /\ <<"key", "active">> \in Facts /\ <<"key", "revoked">> \in Facts
    /\ \A g \in BoundTo : <<"bound", g>> \in Facts
    /\ \A g \in PriceGroups : \A r \in {"base", "discount", "gone", "paid"} : <<g, r>> \in Facts
BY DEF Facts, UserStates, BoundTo

\* At first nothing is cached and nobody asks.
LEMMA AccessInvInit == AccessInit => AccessInv
<1> SUFFICES ASSUME AccessInit PROVE AccessInv
  OBVIOUS
<1> USE DEF AccessInit
<1>0. NoTask \in Tasks
  BY DEF NoTask, Tasks, BoundTo, UserStates
<1>1. RowTypes /\ ClerkTypes
  <2>1. userStatus \in UserStates /\ keyStatus \in {"active", "revoked"} /\ keyGroup \in BoundTo
    BY DEF UserStates, BoundTo
  <2>2. groupRate \in [PriceGroups -> {"base", "discount", "gone"}] /\ subscribed \in SUBSET PriceGroups
    OBVIOUS
  <2>3. clerks \in [Clerks -> Tasks]
    BY <1>0
  <2> QED
    BY <2>1, <2>2, <2>3 DEF RowTypes, ClerkTypes
<1>2. CacheTypes /\ CachesKnow
  BY DEF CacheTypes, CachesKnow
<1>3. callers \in [Callers -> Requests] /\ \A c \in Callers : RequestKnows(callers[c])
  BY DEF Requests, RequestKnows, NoRequest, BoundTo, Rates, UserStates, LaterSteps
<1>4. MemoryKept
  BY <1>1, TruthsAreFacts, AccessAssumption DEF MemoryKept, Oldest
<1>5. CachesAgeOnly
  BY DEF CachesAgeOnly
<1> QED
  BY <1>1, <1>2, <1>3, <1>4, <1>5 DEF AccessInv

(***************************************************************************)
(* Steps of a request                                                      *)
(***************************************************************************)

\* The request of c becomes one that knows what it should.
Moves(c) == \E r \in Requests : callers' = [callers EXCEPT ![c] = r] /\ RequestKnows(r)

\* A step of a request disturbs nothing but the request, the caches and the verdict.
LEMMA CallKeeps ==
    ASSUME AccessInv, NEW c \in Callers, InCall, Moves(c),
           CacheTypes', CachesKnow', CachesAgeOnly'
    PROVE  AccessInv'
<1>1. RowTypes' /\ ClerkTypes' /\ MemoryKept'
  BY DEF AccessInv, InCall, rowVars, RowTypes, ClerkTypes, MemoryKept, Truths
<1>2. PICK r \in Requests : callers' = [callers EXCEPT ![c] = r] /\ RequestKnows(r)
  BY DEF Moves
<1>3. callers' \in [Callers -> Requests]
  BY <1>2 DEF AccessInv
<1>4. ASSUME NEW d \in Callers PROVE RequestKnows(callers[d])'
  <2>1. PICK q \in Requests : q = callers'[d] /\ RequestKnows(q)
    BY <1>2, <1>3 DEF AccessInv
  <2>2. RequestKnows(q)'
    BY <2>1 DEF RequestKnows, KeyKnown, UserKnown, InCall
  <2> QED
    BY <2>1, <2>2 DEF RequestKnows, KeyKnown, UserKnown
<1> QED
  BY <1>1, <1>3, <1>4 DEF AccessInv

\* A step that stores nothing leaves the caches right ...
LEMMA CachesStay ==
    ASSUME AccessInv, InCall, UNCHANGED <<keyCache, statusCache>>
    PROVE  CacheTypes' /\ CachesKnow'
BY DEF AccessInv, InCall, CacheTypes, CachesKnow, KeyKnown, UserKnown

\* ... and one that decides nothing leaves nothing to judge.
LEMMA NoVerdict == ASSUME verdict' = {} PROVE CachesAgeOnly'
BY DEF CachesAgeOnly

\* A request that is over knows nothing.
LEMMA OverMoves ==
    ASSUME AccessInv, NEW c \in Callers, callers' = [callers EXCEPT ![c] = NoRequest]
    PROVE  Moves(c)
<1>1. NoRequest \in Requests
  BY DEF NoRequest, Requests, BoundTo, Rates, UserStates
<1>2. RequestKnows(NoRequest)
  BY DEF NoRequest, RequestKnows, LaterSteps
<1> QED
  BY <1>1, <1>2 DEF Moves

\* A request is admitted rightly when the user and the key were active lately, and
\* a discount was given lately by the group the key was bound to lately.
LEMMA AdmitKeeps ==
    ASSUME AccessInv, NEW c \in Callers, InCall, NEW group, NEW rate, Admits(c, group, rate),
           UserKnown(Oldest(tick), "active"),
           callers[c].byKey => held[<<"key", "active">>] >= Oldest(tick),
           rate = "discount" =>
              /\ KeyKnown(Oldest(tick), group, rate)
              /\ \/ held[<<group, "paid">>] >= callers[c].since
                 \/ held[<<group, "base">>] >= callers[c].since
    PROVE  Moves(c) /\ CachesAgeOnly'
<1>1. Moves(c)
  BY OverMoves DEF Admits, Decides
<1>2. verdict' = {[result |-> "admitted", byKey |-> callers[c].byKey, since |-> callers[c].since,
                   group |-> group, rate |-> rate]}
  BY DEF Admits, Decides
<1>3. CachesAgeOnly'
  BY <1>2 DEF CachesAgeOnly, InCall, UserKnown, KeyKnown, Oldest
<1> QED
  BY <1>1, <1>3

\* A user is refused rightly who was not active lately, a key that is revoked.
LEMMA RefuseKeeps ==
    ASSUME AccessInv, NEW c \in Callers, InCall, NEW why, Refuses(c, why), why # "admitted",
           why = "noUser" => UserKnown(Oldest(tick), "deleted"),
           why = "noKey" => held[<<"key", "revoked">>] >= callers[c].since
    PROVE  Moves(c) /\ CachesAgeOnly'
<1>1. Moves(c)
  BY OverMoves DEF Refuses, Decides
<1>2. verdict' = {[result |-> why, byKey |-> callers[c].byKey, since |-> callers[c].since,
                   group |-> NoGroup, rate |-> "base"]}
  BY DEF Refuses, Decides
<1>3. CachesAgeOnly'
  BY <1>2 DEF CachesAgeOnly, InCall, UserKnown, Oldest
<1> QED
  BY <1>1, <1>3

\* What was known when the request came is known lately.
LEMMA SinceIsLately ==
    ASSUME AccessInv, NEW c \in Callers, callers[c].pc # "idle"
    PROVE  /\ callers[c] \in Requests /\ callers[c].since \in Int /\ tick \in Int
           /\ callers[c].since <= tick
           /\ EntryAge(callers[c].since) \in Int /\ Oldest(tick) \in Int
           /\ EntryAge(callers[c].since) >= Oldest(tick)
           /\ callers[c].since >= EntryAge(callers[c].since)
<1>1. callers[c] \in Requests /\ RequestKnows(callers[c]) /\ tick \in Int
  BY DEF AccessInv, MemoryKept
<1>2. callers[c].since \in Int
  BY <1>1 DEF Requests
<1>3. callers[c].since <= tick /\ tick - callers[c].since <= AuthLag
  BY <1>1 DEF RequestKnows
<1> QED
  BY <1>1, <1>2, <1>3, AccessAssumption DEF EntryAge, Oldest

\* Knowledge is knowledge of any earlier time.
LEMMA KeyKnownSooner ==
    ASSUME MemoryKept, NEW t \in Int, NEW s \in Int, s <= t, NEW group \in BoundTo, NEW rate \in Rates,
           KeyKnown(t, group, rate)
    PROVE  KeyKnown(s, group, rate)
<1>1. held[<<"key", "active">>] \in Int /\ held[<<"bound", group>>] \in Int
  BY KnownAreFacts DEF MemoryKept
<1>2. group \in PriceGroups => held[<<group, "discount">>] \in Int
  BY KnownAreFacts DEF MemoryKept
<1> QED
  BY <1>1, <1>2 DEF KeyKnown

LEMMA UserKnownSooner ==
    ASSUME MemoryKept, NEW t \in Int, NEW s \in Int, s <= t, NEW status \in UserStates,
           UserKnown(t, status)
    PROVE  UserKnown(s, status)
<1>1. held[<<"user", status>>] \in Int
  BY KnownAreFacts DEF MemoryKept
<1> QED
  BY <1>1 DEF UserKnown

\* What is true now is known since the request came.
LEMMA TrueIsKnown ==
    ASSUME AccessInv, NEW c \in Callers, callers[c].pc # "idle", NEW f \in Truths
    PROVE  held[f] >= callers[c].since
BY SinceIsLately DEF AccessInv, MemoryKept

\* An entry that is live knows of a time an entry's age ago.
LEMMA LiveIsYoung ==
    ASSUME AccessInv, NEW c \in Callers, callers[c].pc # "idle", NEW until \in Int, tick <= until
    PROVE  EntryAge(until) \in Int /\ EntryAge(callers[c].since) <= EntryAge(until)
BY SinceIsLately, AccessAssumption DEF EntryAge

\* When the status of the user is known, the request is over or goes on.
LEMMA JudgedKeeps ==
    ASSUME AccessInv, NEW c \in Callers, callers[c].pc \in {"lookStatus", "storeStatus"},
           NEW status \in UserStates, UserKnown(EntryAge(callers[c].since), status),
           Judged(c, status), InCall
    PROVE  Moves(c) /\ CachesAgeOnly'
<1>1. /\ callers[c] \in Requests /\ RequestKnows(callers[c]) /\ MemoryKept
      /\ callers[c].pc # "idle" /\ callers[c].pc \in LaterSteps
  BY DEF AccessInv, LaterSteps
<1>2. UserKnown(Oldest(tick), status)
  BY <1>1, SinceIsLately, UserKnownSooner
<1>3. callers[c].byKey => held[<<"key", "active">>] >= Oldest(tick)
  <2> SUFFICES ASSUME callers[c].byKey PROVE held[<<"key", "active">>] >= Oldest(tick)
    OBVIOUS
  <2>1. KeyKnown(EntryAge(callers[c].since), callers[c].group, callers[c].rate)
    BY <1>1 DEF RequestKnows
  <2>2. KeyKnown(Oldest(tick), callers[c].group, callers[c].rate)
    BY <2>1, <1>1, SinceIsLately, KeyKnownSooner DEF Requests
  <2> QED
    BY <2>2 DEF KeyKnown
<1>4. CASE status # "active"
  <2>1. Refuses(c, "noUser") /\ status = "deleted"
    BY <1>4 DEF Judged, UserStates
  <2> QED
    BY <2>1, <1>2, RefuseKeeps
<1>5. CASE status = "active" /\ callers[c].group = NoGroup
  <2>1. Admits(c, NoGroup, "base")
    BY <1>5 DEF Judged
  <2> QED
    BY <2>1, <1>2, <1>3, <1>5, AdmitKeeps
<1>6. CASE status = "active" /\ callers[c].group # NoGroup
  <2> DEFINE r == [callers[c] EXCEPT !.pc = "readGroup"]
  <2>1. callers' = [callers EXCEPT ![c] = r] /\ verdict' = {}
    BY <1>6 DEF Judged, Goto, Learns
  <2>2. /\ r \in Requests /\ r.pc = "readGroup" /\ r.byKey = callers[c].byKey
        /\ r.since = callers[c].since /\ r.group = callers[c].group /\ r.rate = callers[c].rate
    BY <1>1 DEF Requests, LaterSteps
  <2> HIDE DEF r
  <2>3. RequestKnows(r)
    BY <2>2, <1>1, <1>6 DEF RequestKnows, LaterSteps
  <2> QED
    BY <2>1, <2>2, <2>3, NoVerdict DEF Moves
<1> QED
  BY <1>4, <1>5, <1>6

\* A request comes.
LEMMA ArriveKeeps ==
    ASSUME AccessInv, NEW c \in Callers, NEW byKey \in BOOLEAN, Arrive(c, byKey) PROVE AccessInv'
<1> DEFINE r == [callers[c] EXCEPT !.pc = IF byKey THEN "lookKey" ELSE "lookStatus",
                                   !.byKey = byKey, !.since = tick]
<1>1. callers[c].pc = "idle" /\ callers' = [callers EXCEPT ![c] = r] /\ verdict' = {}
  BY DEF Arrive, Learns
<1>2. callers[c] \in Requests /\ RequestKnows(callers[c]) /\ tick \in Int
  BY DEF AccessInv, MemoryKept
<1>3. /\ r \in Requests /\ r.pc = (IF byKey THEN "lookKey" ELSE "lookStatus") /\ r.byKey = byKey
      /\ r.since = tick /\ r.group = callers[c].group /\ r.rate = callers[c].rate
  BY <1>2 DEF Requests, LaterSteps
<1> HIDE DEF r
<1>4. RequestKnows(r)
  BY <1>1, <1>2, <1>3, AccessAssumption DEF RequestKnows, LaterSteps
<1>5. InCall /\ UNCHANGED <<keyCache, statusCache>>
  BY DEF Arrive
<1> QED
  BY <1>1, <1>3, <1>4, <1>5, NoVerdict, CachesStay, CallKeeps DEF Moves

\* The key is cached.
LEMMA KeyHitKeeps ==
    ASSUME AccessInv, NEW c \in Callers, KeyHit(c) PROVE AccessInv'
<1>0. PICK e \in Live(keyCache) :
         Learns(c, [callers[c] EXCEPT !.pc = "lookStatus", !.group = e.value.group,
                                      !.rate = e.value.rate])
  BY DEF KeyHit
<1> DEFINE r == [callers[c] EXCEPT !.pc = "lookStatus", !.group = e.value.group, !.rate = e.value.rate]
<1>1. callers[c].pc = "lookKey" /\ callers' = [callers EXCEPT ![c] = r] /\ verdict' = {}
  BY <1>0 DEF KeyHit, Learns
<1>2. /\ callers[c] \in Requests /\ RequestKnows(callers[c]) /\ MemoryKept
      /\ e.value.group \in BoundTo /\ e.value.rate \in Rates /\ e.until \in Int /\ tick <= e.until
      /\ KeyKnown(EntryAge(e.until), e.value.group, e.value.rate)
  BY DEF AccessInv, Live, CacheTypes, CachesKnow
<1>3. KeyKnown(EntryAge(callers[c].since), e.value.group, e.value.rate)
  BY <1>1, <1>2, LiveIsYoung, SinceIsLately, KeyKnownSooner
<1>4. /\ r \in Requests /\ r.pc = "lookStatus" /\ r.byKey = callers[c].byKey
      /\ r.since = callers[c].since /\ r.group = e.value.group /\ r.rate = e.value.rate
  BY <1>2 DEF Requests, LaterSteps
<1> HIDE DEF r
<1>5. RequestKnows(r)
  BY <1>1, <1>2, <1>3, <1>4 DEF RequestKnows, LaterSteps
<1>6. InCall /\ UNCHANGED <<keyCache, statusCache>>
  BY DEF KeyHit
<1> QED
  BY <1>1, <1>4, <1>5, <1>6, NoVerdict, CachesStay, CallKeeps DEF Moves

\* The key, the status or the discount has to be read: only the step changes.
LEMMA GotoMoves ==
    ASSUME AccessInv, NEW c \in Callers, NEW step, Goto(c, step),
           \/ callers[c].pc = "lookKey" /\ step = "readKey"
           \/ callers[c].pc = "lookStatus" /\ step = "readStatus"
           \/ callers[c].pc = "readGroup" /\ step = "readPaid"
    PROVE  Moves(c) /\ verdict' = {}
<1> DEFINE r == [callers[c] EXCEPT !.pc = step]
<1>1. callers' = [callers EXCEPT ![c] = r] /\ verdict' = {}
  BY DEF Goto, Learns
<1>2. callers[c] \in Requests /\ RequestKnows(callers[c])
  BY DEF AccessInv
<1>3. /\ r \in Requests /\ r.pc = step /\ r.byKey = callers[c].byKey
      /\ r.since = callers[c].since /\ r.group = callers[c].group /\ r.rate = callers[c].rate
  BY <1>2 DEF Requests, LaterSteps
<1> HIDE DEF r
<1>4. RequestKnows(r)
  BY <1>2, <1>3 DEF RequestKnows, LaterSteps
<1> QED
  BY <1>1, <1>3, <1>4 DEF Moves

LEMMA MissesKeep ==
    ASSUME AccessInv, NEW c \in Callers, KeyMiss(c) \/ StatusMiss(c) PROVE AccessInv'
<1>1. InCall /\ UNCHANGED <<keyCache, statusCache>>
  BY DEF KeyMiss, StatusMiss
<1>2. Moves(c) /\ verdict' = {}
  BY GotoMoves DEF KeyMiss, StatusMiss
<1> QED
  BY <1>1, <1>2, NoVerdict, CachesStay, CallKeeps

\* The row of the key is read.
LEMMA ReadKeyKeeps ==
    ASSUME AccessInv, NEW c \in Callers, ReadKey(c) PROVE AccessInv'
<1>1. InCall /\ UNCHANGED <<keyCache, statusCache>> /\ callers[c].pc = "readKey"
  BY DEF ReadKey
<1>2. callers[c] \in Requests /\ RequestKnows(callers[c]) /\ RowTypes
  BY DEF AccessInv
<1>3. CASE keyStatus # "active"
  <2>1. Refuses(c, "noKey") /\ keyStatus = "revoked"
    BY <1>2, <1>3 DEF ReadKey, RowTypes
  <2>2. held[<<"key", "revoked">>] >= callers[c].since
    BY <1>1, <2>1, TrueIsKnown DEF Truths
  <2>3. Moves(c) /\ CachesAgeOnly'
    BY <2>1, <2>2, <1>1, RefuseKeeps
  <2> QED
    BY <2>3, <1>1, CachesStay, CallKeeps
<1>4. CASE keyStatus = "active"
  <2> DEFINE r == [callers[c] EXCEPT !.group = keyGroup,
                       !.pc = IF keyGroup = NoGroup THEN "storeKey" ELSE "readRate"]
  <2>1. callers' = [callers EXCEPT ![c] = r] /\ verdict' = {}
    BY <1>4 DEF ReadKey, Learns
  <2>2. /\ r \in Requests /\ r.pc = (IF keyGroup = NoGroup THEN "storeKey" ELSE "readRate")
        /\ r.byKey = callers[c].byKey /\ r.since = callers[c].since /\ r.group = keyGroup
        /\ r.rate = callers[c].rate
    BY <1>2 DEF Requests, LaterSteps, RowTypes
  <2> HIDE DEF r
  <2>3. <<"key", "active">> \in Truths /\ <<"bound", keyGroup>> \in Truths
    BY <1>4 DEF Truths
  <2>4. held[<<"key", "active">>] >= callers[c].since /\ held[<<"bound", keyGroup>>] >= callers[c].since
    BY <2>3, <1>1, TrueIsKnown
  <2>5. RequestKnows(r)
    BY <1>1, <1>2, <2>2, <2>4 DEF RequestKnows, KeyKnown, LaterSteps, RowTypes, BoundTo
  <2> QED
    BY <2>1, <2>2, <2>5, <1>1, NoVerdict, CachesStay, CallKeeps DEF Moves
<1> QED
  BY <1>3, <1>4

\* The rate of its group is read, or cannot be.
LEMMA ReadRateKeeps ==
    ASSUME AccessInv, NEW c \in Callers, ReadRate(c) PROVE AccessInv'
<1>1. InCall /\ UNCHANGED <<keyCache, statusCache>> /\ callers[c].pc = "readRate"
  BY DEF ReadRate
<1>2. callers[c] \in Requests /\ RequestKnows(callers[c]) /\ RowTypes
  BY DEF AccessInv
<1>3. PICK rate \in {"base"} \cup ({groupRate[callers[c].group]} \ {"gone"}) :
         Learns(c, [callers[c] EXCEPT !.pc = "storeKey", !.rate = rate])
  BY DEF ReadRate
<1> DEFINE r == [callers[c] EXCEPT !.pc = "storeKey", !.rate = rate]
<1>4. callers' = [callers EXCEPT ![c] = r] /\ verdict' = {}
  BY <1>3 DEF Learns
<1>5. callers[c].group \in PriceGroups /\ callers[c].byKey
      /\ KeyKnown(callers[c].since, callers[c].group, callers[c].rate)
  BY <1>1, <1>2 DEF RequestKnows
<1>6. rate \in Rates /\ (rate = "discount" => <<callers[c].group, "discount">> \in Truths)
  BY <1>2, <1>5 DEF RowTypes, Rates, Truths
<1>7. /\ r \in Requests /\ r.pc = "storeKey" /\ r.byKey = callers[c].byKey
      /\ r.since = callers[c].since /\ r.group = callers[c].group /\ r.rate = rate
  BY <1>2, <1>6 DEF Requests, LaterSteps
<1> HIDE DEF r
<1>8. rate = "discount" => held[<<callers[c].group, "discount">>] >= callers[c].since
  BY <1>1, <1>6, TrueIsKnown
<1>9. RequestKnows(r)
  BY <1>1, <1>2, <1>5, <1>7, <1>8 DEF RequestKnows, KeyKnown, LaterSteps
<1> QED
  BY <1>4, <1>7, <1>9, <1>1, NoVerdict, CachesStay, CallKeeps DEF Moves

\* The key is stored, with what was read of it since the request came.
LEMMA StoreKeyKeeps ==
    ASSUME AccessInv, NEW c \in Callers, StoreKey(c) PROVE AccessInv'
<1>1. InCall /\ UNCHANGED statusCache /\ callers[c].pc = "storeKey"
  BY DEF StoreKey
<1>2. callers[c] \in Requests /\ RequestKnows(callers[c]) /\ MemoryKept
  BY DEF AccessInv
<1> DEFINE r == [callers[c] EXCEPT !.pc = "lookStatus"]
           e == Entry([group |-> callers[c].group, rate |-> callers[c].rate])
<1>3. callers' = [callers EXCEPT ![c] = r] /\ verdict' = {} /\ keyCache' = {e}
  BY DEF StoreKey, Goto, Learns
<1>4. /\ r \in Requests /\ r.pc = "lookStatus" /\ r.byKey = callers[c].byKey
      /\ r.since = callers[c].since /\ r.group = callers[c].group /\ r.rate = callers[c].rate
  BY <1>2 DEF Requests, LaterSteps
<1>5. /\ e \in [value : [group : BoundTo, rate : Rates], until : Int]
      /\ e.value.group = callers[c].group /\ e.value.rate = callers[c].rate /\ e.until = tick + KeyTTL
  BY <1>2, AccessAssumption DEF Entry, Requests, MemoryKept
<1> HIDE DEF r, e
<1>6. callers[c].byKey /\ KeyKnown(callers[c].since, callers[c].group, callers[c].rate)
  BY <1>1, <1>2 DEF RequestKnows
<1>7. callers[c].group \in BoundTo /\ callers[c].rate \in Rates
  BY <1>2 DEF Requests
<1>8. KeyKnown(EntryAge(callers[c].since), callers[c].group, callers[c].rate)
  BY <1>1, <1>2, <1>6, <1>7, SinceIsLately, KeyKnownSooner
<1>9. RequestKnows(r)
  BY <1>1, <1>2, <1>4, <1>8, <1>6 DEF RequestKnows, LaterSteps
<1>10. EntryAge(e.until) \in Int /\ EntryAge(e.until) <= callers[c].since
  <2>1. callers[c].since \in Int /\ tick \in Int /\ tick - callers[c].since <= AuthLag
    BY <1>1, <1>2 DEF RequestKnows, Requests, MemoryKept
  <2> QED
    BY <2>1, <1>5, AccessAssumption DEF EntryAge
<1>11. KeyKnown(EntryAge(e.until), e.value.group, e.value.rate)
  BY <1>1, <1>2, <1>5, <1>6, <1>7, <1>10, SinceIsLately, KeyKnownSooner
<1>12. CacheTypes'
  BY <1>1, <1>3, <1>5 DEF CacheTypes, AccessInv
<1>13. CachesKnow'
  <2>1. \A q \in statusCache' : UserKnown(EntryAge(q.until), q.value)'
    BY <1>1 DEF AccessInv, CachesKnow, UserKnown, InCall
  <2>2. \A q \in keyCache' : KeyKnown(EntryAge(q.until), q.value.group, q.value.rate)'
    BY <1>1, <1>3, <1>11 DEF KeyKnown, InCall
  <2> QED
    BY <2>1, <2>2 DEF CachesKnow
<1> QED
  BY <1>1, <1>3, <1>4, <1>9, <1>12, <1>13, NoVerdict, CallKeeps DEF Moves

\* The status is cached.
LEMMA StatusHitKeeps ==
    ASSUME AccessInv, NEW c \in Callers, StatusHit(c) PROVE AccessInv'
<1>1. InCall /\ UNCHANGED <<keyCache, statusCache>> /\ callers[c].pc = "lookStatus"
  BY DEF StatusHit
<1>2. PICK e \in Live(statusCache) : Judged(c, e.value)
  BY DEF StatusHit
<1>3. /\ e.value \in UserStates /\ e.until \in Int /\ tick <= e.until /\ MemoryKept
      /\ UserKnown(EntryAge(e.until), e.value)
  BY DEF AccessInv, Live, CacheTypes, CachesKnow
<1>4. UserKnown(EntryAge(callers[c].since), e.value)
  BY <1>1, <1>3, LiveIsYoung, SinceIsLately, UserKnownSooner
<1>5. Moves(c) /\ CachesAgeOnly'
  BY <1>1, <1>2, <1>3, <1>4, JudgedKeeps
<1> QED
  BY <1>1, <1>5, CachesStay, CallKeeps

\* The status is read.
LEMMA ReadStatusKeeps ==
    ASSUME AccessInv, NEW c \in Callers, ReadStatus(c) PROVE AccessInv'
<1> DEFINE r == [callers[c] EXCEPT !.pc = "storeStatus", !.status = userStatus]
<1>1. /\ InCall /\ UNCHANGED <<keyCache, statusCache>> /\ callers[c].pc = "readStatus"
      /\ callers' = [callers EXCEPT ![c] = r] /\ verdict' = {}
  BY DEF ReadStatus, Learns
<1>2. callers[c] \in Requests /\ RequestKnows(callers[c]) /\ userStatus \in UserStates
  BY DEF AccessInv, RowTypes
<1>3. /\ r \in Requests /\ r.pc = "storeStatus" /\ r.byKey = callers[c].byKey
      /\ r.since = callers[c].since /\ r.group = callers[c].group /\ r.rate = callers[c].rate
      /\ r.status = userStatus
  BY <1>2 DEF Requests, LaterSteps
<1> HIDE DEF r
<1>4. UserKnown(callers[c].since, userStatus)
  <2>1. <<"user", userStatus>> \in Truths
    BY DEF Truths
  <2> QED
    BY <2>1, <1>1, TrueIsKnown DEF UserKnown
<1>5. RequestKnows(r)
  BY <1>1, <1>2, <1>3, <1>4 DEF RequestKnows, LaterSteps
<1> QED
  BY <1>1, <1>3, <1>5, NoVerdict, CachesStay, CallKeeps DEF Moves

\* The status is stored, as it was since the request came.
LEMMA StoreStatusKeeps ==
    ASSUME AccessInv, NEW c \in Callers, StoreStatus(c) PROVE AccessInv'
<1> DEFINE e == Entry(callers[c].status)
<1>1. /\ InCall /\ UNCHANGED keyCache /\ callers[c].pc = "storeStatus"
      /\ statusCache' = {e} /\ Judged(c, callers[c].status)
  BY DEF StoreStatus
<1>2. callers[c] \in Requests /\ RequestKnows(callers[c]) /\ MemoryKept /\ callers[c].status \in UserStates
  BY DEF AccessInv, Requests
<1>3. e \in [value : UserStates, until : Int] /\ e.value = callers[c].status /\ e.until = tick + KeyTTL
  BY <1>2, AccessAssumption DEF Entry, MemoryKept
<1> HIDE DEF e
<1>4. UserKnown(callers[c].since, callers[c].status)
  BY <1>1, <1>2 DEF RequestKnows
<1>5. UserKnown(EntryAge(callers[c].since), callers[c].status)
  BY <1>1, <1>2, <1>4, SinceIsLately, UserKnownSooner
<1>6. EntryAge(e.until) \in Int /\ EntryAge(e.until) <= callers[c].since
  <2>1. callers[c].since \in Int /\ tick \in Int /\ tick - callers[c].since <= AuthLag
    BY <1>1, <1>2 DEF RequestKnows, Requests, MemoryKept
  <2> QED
    BY <2>1, <1>3, AccessAssumption DEF EntryAge
<1>7. UserKnown(EntryAge(e.until), e.value)
  BY <1>1, <1>2, <1>3, <1>4, <1>6, SinceIsLately, UserKnownSooner
<1>8. CacheTypes'
  BY <1>1, <1>3 DEF CacheTypes, AccessInv
<1>9. CachesKnow'
  <2>1. \A q \in keyCache' : KeyKnown(EntryAge(q.until), q.value.group, q.value.rate)'
    BY <1>1 DEF AccessInv, CachesKnow, KeyKnown, InCall
  <2>2. \A q \in statusCache' : UserKnown(EntryAge(q.until), q.value)'
    BY <1>1, <1>7 DEF UserKnown, InCall
  <2> QED
    BY <2>1, <2>2 DEF CachesKnow
<1>10. Moves(c) /\ CachesAgeOnly'
  BY <1>1, <1>2, <1>5, JudgedKeeps
<1> QED
  BY <1>1, <1>8, <1>9, <1>10, CallKeeps

\* The request has asked for the entitlement: what it has is as it should be, if
\* the group was found at the baseline or paid for.
LEMMA EntitledKeeps ==
    ASSUME AccessInv, NEW c \in Callers, callers[c].pc \in {"readGroup", "readPaid"}, InCall,
           \/ Admits(c, NoGroup, "base")
           \/ /\ Admits(c, callers[c].group, callers[c].rate)
              /\ \/ callers[c].group \in subscribed
                 \/ groupRate[callers[c].group] = "base"
    PROVE  Moves(c) /\ CachesAgeOnly'
<1>1. /\ callers[c] \in Requests /\ RequestKnows(callers[c]) /\ MemoryKept /\ RowTypes
      /\ callers[c].pc # "idle" /\ callers[c].pc \in LaterSteps
      /\ callers[c].group \in BoundTo /\ callers[c].rate \in Rates
  BY DEF AccessInv, LaterSteps, Requests
<1>2. UserKnown(Oldest(tick), "active")
  BY <1>1, SinceIsLately, UserKnownSooner DEF RequestKnows, UserStates
<1>3. callers[c].byKey => KeyKnown(Oldest(tick), callers[c].group, callers[c].rate)
  BY <1>1, SinceIsLately, KeyKnownSooner DEF RequestKnows
<1>4. callers[c].byKey => held[<<"key", "active">>] >= Oldest(tick)
  BY <1>3 DEF KeyKnown
<1>5. CASE Admits(c, NoGroup, "base")
  BY <1>2, <1>4, <1>5, AdmitKeeps
<1>6. CASE /\ Admits(c, callers[c].group, callers[c].rate)
           /\ \/ callers[c].group \in subscribed
              \/ groupRate[callers[c].group] = "base"
  <2>1. callers[c].rate = "discount" =>
           callers[c].group \in PriceGroups /\ KeyKnown(Oldest(tick), callers[c].group, callers[c].rate)
    BY <1>1, <1>3 DEF RequestKnows, KeyKnown
  <2>2. callers[c].rate = "discount" =>
           \/ <<callers[c].group, "paid">> \in Truths
           \/ <<callers[c].group, "base">> \in Truths
    BY <2>1, <1>6 DEF Truths
  <2>3. callers[c].rate = "discount" =>
           \/ held[<<callers[c].group, "paid">>] >= callers[c].since
           \/ held[<<callers[c].group, "base">>] >= callers[c].since
    BY <2>2, <1>1, TrueIsKnown
  <2> QED
    BY <1>2, <1>4, <1>6, <2>1, <2>3, AdmitKeeps
<1> QED
  BY <1>5, <1>6

LEMMA EntitlementsKeep ==
    ASSUME AccessInv, NEW c \in Callers, ReadGroup(c) \/ ReadPaid(c) PROVE AccessInv'
<1>1. /\ InCall /\ UNCHANGED <<keyCache, statusCache>>
      /\ callers[c].pc \in {"readGroup", "readPaid"}
  BY DEF ReadGroup, ReadPaid
<1>2. CASE callers[c].pc = "readGroup" /\ Goto(c, "readPaid")
  BY <1>1, <1>2, GotoMoves, NoVerdict, CachesStay, CallKeeps
<1>3. CASE \/ Admits(c, NoGroup, "base")
           \/ /\ Admits(c, callers[c].group, callers[c].rate)
              /\ \/ callers[c].group \in subscribed
                 \/ groupRate[callers[c].group] = "base"
  BY <1>1, <1>3, EntitledKeeps, CachesStay, CallKeeps
<1> QED
  BY <1>2, <1>3 DEF ReadGroup, ReadPaid

\* The database fails.
LEMMA LookupFailsKeeps ==
    ASSUME AccessInv, NEW c \in Callers, LookupFails(c) PROVE AccessInv'
<1>1. InCall /\ UNCHANGED <<keyCache, statusCache>> /\ Refuses(c, "failed")
  BY DEF LookupFails
<1>2. Moves(c) /\ CachesAgeOnly'
  BY <1>1, RefuseKeeps
<1> QED
  BY <1>1, <1>2, CachesStay, CallKeeps

(***************************************************************************)
(* Steps of the panel and of the clock                                     *)
(***************************************************************************)

\* Memory only grows: what was known stays known.
LEMMA MemoryGrows ==
    ASSUME AccessInv, RowTypes', tick' = tick \/ tick' = tick + 1, Remember
    PROVE  MemoryKept' /\ \A f \in Facts : held'[f] >= held[f]
<1>1. Truths' \subseteq Facts
  BY TruthsAreFacts DEF RowTypes, Truths, Facts, UserStates, BoundTo
<1>2. tick \in Int /\ tick' \in Int /\ tick <= tick' /\ held \in [Facts -> Int]
      /\ \A f \in Facts : held[f] <= tick
  BY DEF AccessInv, MemoryKept
<1>3. held' = [f \in Facts |-> IF f \in Truths' THEN tick' ELSE held[f]]
  BY DEF Remember
<1>4. held' \in [Facts -> Int] /\ \A f \in Facts : held'[f] >= held[f] /\ held'[f] <= tick'
  BY <1>2, <1>3
<1>5. \A f \in Truths' : held'[f] = tick'
  BY <1>1, <1>3
<1> QED
  BY <1>2, <1>4, <1>5 DEF MemoryKept

LEMMA KeyKnownStays ==
    ASSUME MemoryKept, MemoryKept', \A f \in Facts : held'[f] >= held[f],
           NEW t \in Int, NEW group \in BoundTo, NEW rate \in Rates, KeyKnown(t, group, rate)
    PROVE  KeyKnown(t, group, rate)'
<1>1. /\ held[<<"key", "active">>] \in Int /\ held'[<<"key", "active">>] \in Int
      /\ held[<<"bound", group>>] \in Int /\ held'[<<"bound", group>>] \in Int
      /\ held'[<<"key", "active">>] >= held[<<"key", "active">>]
      /\ held'[<<"bound", group>>] >= held[<<"bound", group>>]
  BY KnownAreFacts DEF MemoryKept
<1>2. group \in PriceGroups =>
         /\ held[<<group, "discount">>] \in Int /\ held'[<<group, "discount">>] \in Int
         /\ held'[<<group, "discount">>] >= held[<<group, "discount">>]
  BY KnownAreFacts DEF MemoryKept
<1> QED
  BY <1>1, <1>2 DEF KeyKnown

LEMMA UserKnownStays ==
    ASSUME MemoryKept, MemoryKept', \A f \in Facts : held'[f] >= held[f],
           NEW t \in Int, NEW status \in UserStates, UserKnown(t, status)
    PROVE  UserKnown(t, status)'
<1>1. /\ held[<<"user", status>>] \in Int /\ held'[<<"user", status>>] \in Int
      /\ held'[<<"user", status>>] >= held[<<"user", status>>]
  BY KnownAreFacts DEF MemoryKept
<1> QED
  BY <1>1 DEF UserKnown

\* A request that does not move knows no less, as long as it takes its time only.
LEMMA RequestStays ==
    ASSUME MemoryKept, MemoryKept', \A f \in Facts : held'[f] >= held[f],
           NEW r \in Requests, RequestKnows(r),
           r.pc # "idle" => r.since <= tick' /\ tick' - r.since <= AuthLag
    PROVE  RequestKnows(r)'
<1>1. /\ r.since \in Int /\ EntryAge(r.since) \in Int
      /\ r.group \in BoundTo /\ r.rate \in Rates /\ r.status \in UserStates /\ "active" \in UserStates
  BY AccessAssumption DEF Requests, EntryAge, UserStates
<1>2. KeyKnown(r.since, r.group, r.rate) => KeyKnown(r.since, r.group, r.rate)'
  BY <1>1, KeyKnownStays
<1>3. KeyKnown(EntryAge(r.since), r.group, r.rate) => KeyKnown(EntryAge(r.since), r.group, r.rate)'
  BY <1>1, KeyKnownStays DEF KeyKnown
<1>4. UserKnown(r.since, r.status) => UserKnown(r.since, r.status)'
  BY <1>1, UserKnownStays
<1>5. UserKnown(EntryAge(r.since), "active") => UserKnown(EntryAge(r.since), "active")'
  BY <1>1, UserKnownStays DEF UserKnown
<1> QED
  BY <1>2, <1>3, <1>4, <1>5 DEF RequestKnows

\* Whatever the panel writes and drops, and whenever the clock ticks.
LEMMA OthersKeep ==
    ASSUME AccessInv, RowTypes', ClerkTypes', Remember, verdict' = {}, UNCHANGED callers,
           keyCache' \subseteq keyCache, statusCache' \subseteq statusCache,
           \/ tick' = tick
           \/ /\ tick' = tick + 1
              /\ \A c \in Callers : callers[c].pc # "idle" => tick - callers[c].since < AuthLag
    PROVE  AccessInv'
<1>1. MemoryKept /\ MemoryKept' /\ \A f \in Facts : held'[f] >= held[f]
  BY MemoryGrows DEF AccessInv
<1>2. CacheTypes'
  BY DEF AccessInv, CacheTypes
<1>3. CachesKnow'
  <2>1. ASSUME NEW e \in keyCache' PROVE KeyKnown(EntryAge(e.until), e.value.group, e.value.rate)'
    <3>1. /\ e.until \in Int /\ EntryAge(e.until) \in Int /\ e.value.group \in BoundTo /\ e.value.rate \in Rates
          /\ KeyKnown(EntryAge(e.until), e.value.group, e.value.rate)
      BY AccessAssumption DEF AccessInv, CacheTypes, CachesKnow, EntryAge
    <3> QED
      BY <1>1, <3>1, KeyKnownStays
  <2>2. ASSUME NEW e \in statusCache' PROVE UserKnown(EntryAge(e.until), e.value)'
    <3>1. /\ e.until \in Int /\ EntryAge(e.until) \in Int /\ e.value \in UserStates
          /\ UserKnown(EntryAge(e.until), e.value)
      BY AccessAssumption DEF AccessInv, CacheTypes, CachesKnow, EntryAge
    <3> QED
      BY <1>1, <3>1, UserKnownStays
  <2> QED
    BY <2>1, <2>2 DEF CachesKnow
<1>4. ASSUME NEW c \in Callers PROVE RequestKnows(callers[c])'
  <2>1. PICK r \in Requests : r = callers[c] /\ r = callers'[c] /\ RequestKnows(r)
    BY DEF AccessInv
  <2>2. r.pc # "idle" => r.since <= tick' /\ tick' - r.since <= AuthLag
    BY <2>1, AccessAssumption DEF RequestKnows, AccessInv, MemoryKept, Requests
  <2>3. RequestKnows(r)'
    BY <1>1, <2>1, <2>2, RequestStays
  <2> QED
    BY <2>1, <2>3 DEF RequestKnows, KeyKnown, UserKnown
<1> QED
  BY <1>1, <1>2, <1>3, <1>4, NoVerdict DEF AccessInv

\* A step of the panel changes some rows and drops entries, or does not.
LEMMA PanelKeeps ==
    ASSUME AccessInv, InPanel, RowTypes', ClerkTypes',
           keyCache' \subseteq keyCache, statusCache' \subseteq statusCache
    PROVE  AccessInv'
BY OthersKeep DEF InPanel

LEMMA ClerksKeep ==
    ASSUME AccessInv, NEW h \in Clerks,
           \/ DropUser(h) \/ LoadUser(h)
           \/ \E status \in {"active", "deleted"} : SaveUser(h, status)
           \/ FlushStatus(h) \/ FlushKey(h)
           \/ \E g \in PriceGroups \cup {NoGroup} : CheckRebind(h, g)
           \/ Rebind(h)
    PROVE  AccessInv'
<1>1. RowTypes /\ ClerkTypes /\ clerks[h] \in Tasks
  BY DEF AccessInv, ClerkTypes
<1> USE DEF ClerkTypes, Tasks, ClerkGoto, OnlyReads, Commits, rowVars
<1>2. CASE DropUser(h)
  <2>1. RowTypes' /\ ClerkTypes'
    BY <1>1, <1>2 DEF DropUser, RowTypes, UserStates
  <2> QED
    BY <2>1, <1>2, PanelKeeps DEF DropUser
<1>3. CASE LoadUser(h)
  <2>1. RowTypes' /\ ClerkTypes'
    BY <1>1, <1>3 DEF LoadUser, RowTypes
  <2> QED
    BY <2>1, <1>3, PanelKeeps DEF LoadUser
<1>4. ASSUME NEW status \in {"active", "deleted"}, SaveUser(h, status) PROVE AccessInv'
  <2>1. RowTypes' /\ ClerkTypes'
    BY <1>1, <1>4 DEF SaveUser, RowTypes, UserStates
  <2> QED
    BY <2>1, <1>4, PanelKeeps DEF SaveUser
<1>5. CASE FlushStatus(h)
  <2>1. RowTypes' /\ ClerkTypes'
    BY <1>1, <1>5 DEF FlushStatus, RowTypes
  <2> QED
    BY <2>1, <1>5, PanelKeeps DEF FlushStatus
<1>6. CASE FlushKey(h)
  <2>1. RowTypes' /\ ClerkTypes'
    BY <1>1, <1>6 DEF FlushKey, RowTypes
  <2> QED
    BY <2>1, <1>6, PanelKeeps DEF FlushKey
<1>7. ASSUME NEW g \in PriceGroups \cup {NoGroup}, CheckRebind(h, g) PROVE AccessInv'
  <2>1. RowTypes' /\ ClerkTypes'
    BY <1>1, <1>7 DEF CheckRebind, RowTypes, BoundTo
  <2> QED
    BY <2>1, <1>7, PanelKeeps DEF CheckRebind
<1>8. CASE Rebind(h)
  <2>1. RowTypes' /\ ClerkTypes'
    BY <1>1, <1>8 DEF Rebind, RowTypes, BoundTo
  <2> QED
    BY <2>1, <1>8, PanelKeeps DEF Rebind
<1> QED
  BY <1>2, <1>3, <1>4, <1>5, <1>6, <1>7, <1>8

\* The key is revoked, a group changes its rate, a subscription begins or ends.
LEMMA WritesKeep ==
    ASSUME AccessInv,
           \/ RevokeKey
           \/ \E g \in PriceGroups :
                 ChangePaid(g) \/ \E rate \in {"base", "discount", "gone"} : SetRate(g, rate)
    PROVE  AccessInv'
<1>1. RowTypes /\ ClerkTypes
  BY DEF AccessInv
<1>2. CASE RevokeKey
  <2>1. RowTypes' /\ ClerkTypes'
    BY <1>1, <1>2 DEF RevokeKey, RowTypes, Commits, ClerkTypes
  <2> QED
    BY <2>1, <1>2, PanelKeeps DEF RevokeKey, Commits
<1>3. ASSUME NEW g \in PriceGroups, ChangePaid(g) PROVE AccessInv'
  <2>1. RowTypes' /\ ClerkTypes'
    BY <1>1, <1>3 DEF ChangePaid, RowTypes, Commits, ClerkTypes
  <2> QED
    BY <2>1, <1>3, PanelKeeps DEF ChangePaid, Commits
<1>4. ASSUME NEW g \in PriceGroups, NEW rate \in {"base", "discount", "gone"}, SetRate(g, rate)
      PROVE  AccessInv'
  <2>1. RowTypes' /\ ClerkTypes'
    BY <1>1, <1>4 DEF SetRate, RowTypes, Commits, ClerkTypes
  <2> QED
    BY <2>1, <1>4, PanelKeeps DEF SetRate, Commits
<1> QED
  BY <1>2, <1>3, <1>4

LEMMA TicksKeep == ASSUME AccessInv, Ticks PROVE AccessInv'
<1>1. RowTypes' /\ ClerkTypes'
  BY DEF AccessInv, Ticks, rowVars, RowTypes, ClerkTypes
<1> QED
  BY <1>1, OthersKeep DEF Ticks

(***************************************************************************)
(* The theorem                                                             *)
(***************************************************************************)

LEMMA AccessInvStep == AccessInv /\ [AccessNext]_accessVars => AccessInv'
<1> SUFFICES ASSUME AccessInv, [AccessNext]_accessVars PROVE AccessInv'
  OBVIOUS
<1>1. ASSUME NEW c \in Callers,
             \/ \E byKey \in BOOLEAN : Arrive(c, byKey)
             \/ KeyHit(c) \/ KeyMiss(c) \/ ReadKey(c) \/ ReadRate(c) \/ StoreKey(c)
             \/ StatusHit(c) \/ StatusMiss(c) \/ ReadStatus(c) \/ StoreStatus(c)
             \/ ReadGroup(c) \/ ReadPaid(c) \/ LookupFails(c)
      PROVE  AccessInv'
  BY <1>1, ArriveKeeps, KeyHitKeeps, MissesKeep, ReadKeyKeeps, ReadRateKeeps, StoreKeyKeeps,
     StatusHitKeeps, ReadStatusKeeps, StoreStatusKeeps, EntitlementsKeep, LookupFailsKeeps
<1>2. CASE UNCHANGED accessVars
  BY <1>2, ZenonT(30) DEF accessVars, rowVars, AccessInv, RowTypes, CacheTypes, ClerkTypes, MemoryKept, Truths,
     CachesKnow, KeyKnown, UserKnown, RequestKnows, CachesAgeOnly
<1> QED
  BY <1>1, <1>2, ClerksKeep, WritesKeep, TicksKeep DEF AccessNext

\* However many requests fill the caches beside however many handlers that write
\* rows and drop entries (Authenticate, invalidateUserCaches,
\* RebindAPIKeyGroupHandler), no decision rests on anything older than the life of
\* an entry and the time of two requests, and no discount on an entitlement that
\* was not there during the request.
THEOREM CachesAlwaysAgeOnly == AccessSpec => []CachesAgeOnly
<1>1. AccessInit => AccessInv
  BY AccessInvInit
<1>2. AccessInv /\ [AccessNext]_accessVars => AccessInv'
  BY AccessInvStep
<1>3. AccessInv => CachesAgeOnly
  BY DEF AccessInv
<1> QED
  BY <1>1, <1>2, <1>3, PTL DEF AccessSpec
==============================================================================
