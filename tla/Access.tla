-------------------------------- MODULE Access --------------------------------
(***************************************************************************)
(* How a request on /v1 learns whose it is and at which rate it is charged: *)
(* AccessProvider.Authenticate reads the API key and the status of its user *)
(* through two in-memory caches and checks the entitlement to the key's     *)
(* group in the database each time.  The handlers that change these rows    *)
(* drop entries of the caches after their commit, or do not.  A miss reads  *)
(* the database and stores the entry later, so that a drop can fall between. *)
(*                                                                         *)
(* One user with one key; a rate is the baseline or a discount.  Get drops  *)
(* an expired entry, and so does the sweeper: here it is just not used.     *)
(* The panel's middleware fills the same caches in the same way.            *)
(***************************************************************************)
EXTENDS Integers

CONSTANTS
    Callers,      \* goroutines that authenticate requests, one after the other
    Clerks,       \* goroutines that handle requests of the panel
    PriceGroups,  \* groups a key can be bound to
    KeyTTL,       \* apiKeyTTL, also the longest life of a cached status
    AuthLag,      \* ticks that authentication takes at the most
    MaxTicks,     \* bound: ticks of the clock
    MaxWrites     \* bound: writes to the rows

ASSUME AccessAssumption == KeyTTL \in Nat \ {0} /\ AuthLag \in Nat /\ MaxTicks \in Nat

VARIABLES
    tick,         \* the clock
    userStatus,   \* users.status
    keyStatus,    \* api_keys.status
    keyGroup,     \* api_keys.group_id
    groupRate,    \* rate_multiplier of each group, or that its row is gone
    subscribed,   \* groups with an active subscription of the user
    keyCache,     \* APIKeyCache: the entry of the key, or none
    statusCache,  \* UserStatusCache: the entry of the user, or none
    callers,      \* requests being authenticated
    clerks,       \* requests of the panel
    writes,       \* writes to the rows so far
    verdict,      \* history: what the last step decided of a request, if anything
    held          \* history: when each fact was last true

rowVars == <<userStatus, keyStatus, keyGroup, groupRate, subscribed>>
accessVars == <<tick, rowVars, keyCache, statusCache, callers, clerks, writes, verdict, held>>

NoGroup == "none"
Entry(value) == [value |-> value, until |-> tick + KeyTTL]
Live(cache) == {e \in cache : tick <= e.until}

(***************************************************************************)
(* Facts                                                                   *)
(***************************************************************************)

Facts ==
    ({"user"} \X {"active", "deleted"}) \cup ({"key"} \X {"active", "revoked"})
        \cup ({"bound"} \X (PriceGroups \cup {NoGroup}))
        \cup (PriceGroups \X {"base", "discount", "gone", "paid"})

Truths ==
    {<<"user", userStatus>>, <<"key", keyStatus>>, <<"bound", keyGroup>>}
        \cup {<<g, groupRate[g]>> : g \in PriceGroups} \cup {<<g, "paid">> : g \in subscribed}

Remember == held' = [f \in Facts |-> IF f \in Truths' THEN tick' ELSE held[f]]

\* The oldest time of which a request that ends at t may have heard: the entry was
\* read by a request that took its time to store it, and lived its life.
Oldest(t) == t - KeyTTL - 2 * AuthLag

(***************************************************************************)
(* Authenticate                                                            *)
(***************************************************************************)

NoRequest == [pc |-> "idle", byKey |-> FALSE, since |-> 0, group |-> NoGroup, rate |-> "base",
              status |-> "active"]
NoTask == [pc |-> "idle", group |-> NoGroup, old |-> "active"]

AccessInit ==
    /\ tick = 0
    /\ userStatus \in {"active", "deleted"} /\ keyStatus = "active"
    /\ keyGroup \in PriceGroups \cup {NoGroup}
    /\ groupRate = [g \in PriceGroups |-> "discount"]
    /\ subscribed = PriceGroups
    /\ keyCache = {} /\ statusCache = {}
    /\ callers = [c \in Callers |-> NoRequest]
    /\ clerks = [h \in Clerks |-> NoTask]
    /\ writes = 0 /\ verdict = {}
    /\ held = [f \in Facts |-> IF f \in Truths THEN 0 ELSE Oldest(0) - 1]

\* A step of the request of c, which makes it r, and is not its last ...
Learns(c, r) == callers' = [callers EXCEPT ![c] = r] /\ verdict' = {}
Goto(c, step) == Learns(c, [callers[c] EXCEPT !.pc = step])

\* ... and those that are.
Decides(c, result, group, rate) ==
    /\ callers' = [callers EXCEPT ![c] = NoRequest]
    /\ verdict' = {[result |-> result, byKey |-> callers[c].byKey, since |-> callers[c].since,
                    group |-> group, rate |-> rate]}
Refuses(c, why) == Decides(c, why, NoGroup, "base")
Admits(c, group, rate) == Decides(c, "admitted", group, rate)

InCall == UNCHANGED <<tick, rowVars, clerks, writes, held>>

Arrive(c, byKey) ==
    /\ callers[c].pc = "idle"
    /\ Learns(c, [callers[c] EXCEPT !.pc = IF byKey THEN "lookKey" ELSE "lookStatus",
                                    !.byKey = byKey, !.since = tick])
    /\ UNCHANGED <<keyCache, statusCache>> /\ InCall

\* The cached key: only active keys are stored.
KeyHit(c) ==
    /\ callers[c].pc = "lookKey"
    /\ \E e \in Live(keyCache) :
          Learns(c, [callers[c] EXCEPT !.pc = "lookStatus", !.group = e.value.group,
                                       !.rate = e.value.rate])
    /\ UNCHANGED <<keyCache, statusCache>> /\ InCall

KeyMiss(c) ==
    /\ callers[c].pc = "lookKey" /\ Live(keyCache) = {}
    /\ Goto(c, "readKey")
    /\ UNCHANGED <<keyCache, statusCache>> /\ InCall

\* The row of the key, if it is active ...
ReadKey(c) ==
    /\ callers[c].pc = "readKey"
    /\ IF keyStatus # "active" THEN Refuses(c, "noKey")
       ELSE Learns(c, [callers[c] EXCEPT !.group = keyGroup,
                           !.pc = IF keyGroup = NoGroup THEN "storeKey" ELSE "readRate"])
    /\ UNCHANGED <<keyCache, statusCache>> /\ InCall

\* ... and then the rate of its group, the baseline when that cannot be read ...
ReadRate(c) ==
    /\ callers[c].pc = "readRate"
    /\ \E rate \in {"base"} \cup ({groupRate[callers[c].group]} \ {"gone"}) :
          Learns(c, [callers[c] EXCEPT !.pc = "storeKey", !.rate = rate])
    /\ UNCHANGED <<keyCache, statusCache>> /\ InCall

\* ... are stored, whatever was dropped in between.
StoreKey(c) ==
    /\ callers[c].pc = "storeKey"
    /\ keyCache' = {Entry([group |-> callers[c].group, rate |-> callers[c].rate])}
    /\ Goto(c, "lookStatus")
    /\ UNCHANGED statusCache /\ InCall

\* userIsActive has its answer: who is not active is refused, a request with a
\* JWT or with a key of no group is admitted at the baseline.
Judged(c, status) ==
    IF status # "active" THEN Refuses(c, "noUser")
    ELSE IF callers[c].group = NoGroup THEN Admits(c, NoGroup, "base")
    ELSE Goto(c, "readGroup")

StatusHit(c) ==
    /\ callers[c].pc = "lookStatus"
    /\ \E e \in Live(statusCache) : Judged(c, e.value)
    /\ UNCHANGED <<keyCache, statusCache>> /\ InCall

StatusMiss(c) ==
    /\ callers[c].pc = "lookStatus" /\ Live(statusCache) = {}
    /\ Goto(c, "readStatus")
    /\ UNCHANGED <<keyCache, statusCache>> /\ InCall

ReadStatus(c) ==
    /\ callers[c].pc = "readStatus"
    /\ Learns(c, [callers[c] EXCEPT !.pc = "storeStatus", !.status = userStatus])
    /\ UNCHANGED <<keyCache, statusCache>> /\ InCall

\* Every status is stored, also one that refuses.
StoreStatus(c) ==
    /\ callers[c].pc = "storeStatus"
    /\ statusCache' = {Entry(callers[c].status)}
    /\ Judged(c, callers[c].status)
    /\ UNCHANGED keyCache /\ InCall

\* accessControlsGroupEntitled: the row of the group decides alone, unless it
\* has a discount; what cannot be read is no entitlement.
ReadGroup(c) ==
    /\ callers[c].pc = "readGroup"
    /\ \/ groupRate[callers[c].group] = "base" /\ Admits(c, callers[c].group, callers[c].rate)
       \/ groupRate[callers[c].group] = "discount" /\ Goto(c, "readPaid")
       \/ Admits(c, NoGroup, "base")
    /\ UNCHANGED <<keyCache, statusCache>> /\ InCall

ReadPaid(c) ==
    /\ callers[c].pc = "readPaid"
    /\ \/ callers[c].group \in subscribed /\ Admits(c, callers[c].group, callers[c].rate)
       \/ Admits(c, NoGroup, "base")
    /\ UNCHANGED <<keyCache, statusCache>> /\ InCall

\* Mutant: a status that could not be read is stored as one that refuses.
LookupFailsStored(c) ==
    /\ callers[c].pc \in {"readKey", "readStatus"}
    /\ IF callers[c].pc = "readKey" THEN Refuses(c, "failed")
       ELSE Learns(c, [callers[c] EXCEPT !.pc = "storeStatus", !.status = "missing"])
    /\ UNCHANGED <<keyCache, statusCache>> /\ InCall

\* The database fails: the request is refused and nothing is stored.
LookupFails(c) ==
    /\ callers[c].pc \in {"readKey", "readStatus"}
    /\ Refuses(c, "failed")
    /\ UNCHANGED <<keyCache, statusCache>> /\ InCall

(***************************************************************************)
(* The panel                                                               *)
(***************************************************************************)

ClerkGoto(h, step) == clerks' = [clerks EXCEPT ![h].pc = step]
InPanel == UNCHANGED <<tick, callers>> /\ verdict' = {} /\ Remember
OnlyReads == UNCHANGED <<rowVars, keyCache, statusCache, writes>> /\ InPanel
Commits(others) ==
    /\ writes < MaxWrites
    /\ writes' = writes + 1
    /\ UNCHANGED <<others, keyCache, statusCache>> /\ InPanel

\* AdminUsersDeleteHandler commits, then flushes (invalidateUserCaches).
DropUser(h) ==
    /\ clerks[h].pc = "idle"
    /\ userStatus' = "deleted"
    /\ ClerkGoto(h, "flushStatus")
    /\ Commits(<<keyStatus, keyGroup, groupRate, subscribed>>)

\* AdminUsersUpdateHandler loads the user ...
LoadUser(h) ==
    /\ clerks[h].pc = "idle"
    /\ clerks' = [clerks EXCEPT ![h].pc = "update", ![h].old = userStatus]
    /\ OnlyReads

\* ... and saves it; it flushes when the status it loaded was another and the new
\* one is not active.  A user who is active again keeps the cached refusal.
SaveUser(h, status) ==
    /\ clerks[h].pc = "update"
    /\ userStatus' = status
    /\ ClerkGoto(h, IF status # clerks[h].old /\ status # "active" THEN "flushStatus" ELSE "idle")
    /\ Commits(<<keyStatus, keyGroup, groupRate, subscribed>>)

FlushStatus(h) ==
    /\ clerks[h].pc = "flushStatus"
    /\ statusCache' = {}
    /\ \E step \in {"flushKey", "idle"} : ClerkGoto(h, step)   \* the keys can be listed, or not
    /\ UNCHANGED <<rowVars, keyCache, writes>> /\ InPanel

FlushKey(h) ==
    /\ clerks[h].pc = "flushKey"
    /\ keyCache' = {}
    /\ ClerkGoto(h, "idle")
    /\ UNCHANGED <<rowVars, statusCache, writes>> /\ InPanel

\* DeleteAPIKeyHandler: the cached key stays.
RevokeKey ==
    /\ keyStatus' = "revoked"
    /\ UNCHANGED clerks /\ Commits(<<userStatus, keyGroup, groupRate, subscribed>>)

\* RebindAPIKeyGroupHandler: the group must be there and the user entitled to it ...
CheckRebind(h, g) ==
    /\ clerks[h].pc = "idle"
    /\ g # NoGroup => (groupRate[g] = "base" \/ (groupRate[g] = "discount" /\ g \in subscribed))
    /\ clerks' = [clerks EXCEPT ![h].pc = "rebind", ![h].group = g]
    /\ OnlyReads

\* ... then the row is written, and the cached key is dropped.
Rebind(h) ==
    /\ clerks[h].pc = "rebind"
    /\ keyGroup' = clerks[h].group
    /\ clerks' = [clerks EXCEPT ![h].pc = "flushKey", ![h].group = NoGroup]
    /\ Commits(<<userStatus, keyStatus, groupRate, subscribed>>)

\* AdminUpsertPricingGroupHandler and AdminDeletePricingGroupHandler: a group that
\* was deleted does not come back under its number.
SetRate(g, rate) ==
    /\ groupRate[g] # "gone" /\ groupRate[g] # rate
    /\ groupRate' = [groupRate EXCEPT ![g] = rate]
    /\ UNCHANGED clerks /\ Commits(<<userStatus, keyStatus, keyGroup, subscribed>>)

\* Subscriptions are bought, revoked and run out; no cache knows of them.
ChangePaid(g) ==
    /\ subscribed' = IF g \in subscribed THEN subscribed \ {g} ELSE subscribed \cup {g}
    /\ UNCHANGED clerks /\ Commits(<<userStatus, keyStatus, keyGroup, groupRate>>)

Ticks ==
    /\ tick < MaxTicks
    /\ \A c \in Callers : callers[c].pc # "idle" => tick - callers[c].since < AuthLag
    /\ tick' = tick + 1
    /\ verdict' = {}
    /\ UNCHANGED <<rowVars, keyCache, statusCache, callers, clerks, writes>> /\ Remember

AccessNext ==
    \/ \E c \in Callers :
          \/ \E byKey \in BOOLEAN : Arrive(c, byKey)
          \/ KeyHit(c) \/ KeyMiss(c) \/ ReadKey(c) \/ ReadRate(c) \/ StoreKey(c)
          \/ StatusHit(c) \/ StatusMiss(c) \/ ReadStatus(c) \/ StoreStatus(c)
          \/ ReadGroup(c) \/ ReadPaid(c) \/ LookupFails(c)
    \/ \E h \in Clerks :
          \/ DropUser(h) \/ LoadUser(h)
          \/ \E status \in {"active", "deleted"} : SaveUser(h, status)
          \/ FlushStatus(h) \/ FlushKey(h)
          \/ \E g \in PriceGroups \cup {NoGroup} : CheckRebind(h, g)
          \/ Rebind(h)
    \/ RevokeKey
    \/ \E g \in PriceGroups : ChangePaid(g) \/ \E rate \in {"base", "discount", "gone"} : SetRate(g, rate)
    \/ Ticks

AccessSpec == AccessInit /\ [][AccessNext]_accessVars

(***************************************************************************)
(* Property                                                                *)
(***************************************************************************)

\* However fills and flushes interleave (Authenticate, invalidateUserCaches,
\* RebindAPIKeyGroupHandler), what a cache said is never older than its ttl and the
\* time two requests take.  A request is admitted for a key and a user that were
\* active, and refused for a user who was not, that lately; it has a discount only
\* of a group that the key was bound to and that gave one that lately, and that the
\* user was entitled to during the request.  A key is refused only when it is
\* revoked during the request: refusals of keys are never cached.
CachesAgeOnly ==
    \A v \in verdict :
        LET Lately(f) == held[f] >= Oldest(tick)
            During(f) == held[f] >= v.since
        IN  /\ v.result = "admitted" =>
                  /\ Lately(<<"user", "active">>)
                  /\ v.byKey => Lately(<<"key", "active">>)
            /\ v.result = "admitted" /\ v.rate = "discount" =>
                  /\ Lately(<<"bound", v.group>>) /\ Lately(<<v.group, "discount">>)
                  /\ During(<<v.group, "paid">>) \/ During(<<v.group, "base">>)
            /\ v.result = "noUser" => Lately(<<"user", "deleted">>)
            /\ v.result = "noKey" => During(<<"key", "revoked">>)
===============================================================================
