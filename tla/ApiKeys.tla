------------------------------ MODULE ApiKeys ------------------------------
(***************************************************************************)
(* The page of a user's API keys: the dialog that creates a key, the table *)
(* with its deletions and its menu of groups (features/user-api-keys), the *)
(* query they refresh, and the handlers (handler_user.go).  Each request   *)
(* is written by the server in one statement; its answer may be lost.      *)
(***************************************************************************)
EXTENDS Integers, FiniteSets

CONSTANTS
    KeyIds,      \* the identifiers the server gives, a bound on the creations
    KeyGroups,   \* the groups a key may be bound to
    MaxCalls     \* bound on the requests under way

ASSUME ApiKeysAssumption == KeyIds \subseteq Nat \ {0} /\ MaxCalls \in Nat

VARIABLES
    stored,      \* the keys that are not revoked: identifier to group and expiry
    listed,      \* the list the query holds
    listing,     \* the query: idle, asked, answered with some keys, or failed
    calls,       \* the requests that change a key
    creating,    \* the create button is locked
    form,        \* the dialog: whether it is open, what it asks for
    rebindingId, \* the key whose menu is locked
    given,       \* the identifiers the server has given
    unsure       \* an answer was lost after the server had written

keyVars == <<stored, listed, listing, calls, creating, form, rebindingId, given, unsure>>

Unbound == "unbound"
NoKey == 0
NoKeys == [k \in {} |-> Unbound]
Terms(group, expires) == [group |-> group, expires |-> expires]

\* The dialog starts from a key without group that never expires.
ResetForm == [open |-> FALSE, group |-> Unbound, expiration |-> "permanent"]
Expirations == {"permanent", "custom without days", "in days"}

\* What is left of a submitted form when its answer comes.
Call(kind, key, terms) == [kind |-> kind, key |-> key, terms |-> terms, done |-> FALSE]

Listing(phase, keys) == [phase |-> phase, keys |-> keys]
ListAsked == Listing("asked", NoKeys)

KeysInit ==
    /\ stored = NoKeys
    /\ listed = NoKeys /\ listing = ListAsked
    /\ calls = {} /\ creating = FALSE /\ form = ResetForm
    /\ rebindingId = NoKey
    /\ given = {} /\ unsure = FALSE

(***************************************************************************)
(* The list                                                                *)
(***************************************************************************)

KeysRead ==
    /\ listing = ListAsked
    /\ listing' \in {Listing("failed", NoKeys), Listing("answered", stored)}
    /\ UNCHANGED <<stored, listed, calls, creating, form, rebindingId, given, unsure>>

KeysArrive ==
    /\ listing.phase = "answered"
    /\ listing' = Listing("idle", NoKeys) /\ listed' = listing.keys
    /\ UNCHANGED <<stored, calls, creating, form, rebindingId, given, unsure>>

\* The window gets the focus back: react-query asks again.
KeysRefocused ==
    /\ listing.phase \in {"idle", "failed"}
    /\ listing' = ListAsked
    /\ unsure' = FALSE
    /\ UNCHANGED <<stored, listed, calls, creating, form, rebindingId, given>>

\* Mutant: a request under way is taken for the new one.
InvalidateUnlessAsked(state) == IF state.phase = "idle" THEN ListAsked ELSE state

\* invalidateQueries drops a request under way for one that is sent now.
InvalidateKeys(state) == ListAsked

(***************************************************************************)
(* The dialog                                                              *)
(***************************************************************************)

\* The dialog stays as it was typed when it is closed, and may be edited or
\* closed while a key is being created.
SetOpen ==
    /\ form' = [form EXCEPT !.open = ~@]
    /\ UNCHANGED <<stored, listed, listing, calls, creating, rebindingId, given, unsure>>

SelectGroup(g) ==
    /\ form.open /\ form' = [form EXCEPT !.group = g]
    /\ UNCHANGED <<stored, listed, listing, calls, creating, rebindingId, given, unsure>>

\* A preset has its days; custom starts without any, and the browser only
\* checks a number that is typed.
SetExpiration(expiration) ==
    /\ form.open /\ form' = [form EXCEPT !.expiration = expiration]
    /\ UNCHANGED <<stored, listed, listing, calls, creating, rebindingId, given, unsure>>

\* Custom without days is left out of the request, as permanent is.
ExpiresInDays == IF form.expiration = "in days" THEN "in days" ELSE "never"

\* The name is typed, and the button is not locked.
SubmitKey ==
    /\ form.open /\ ~creating /\ Cardinality(calls) < MaxCalls
    /\ creating' = TRUE
    /\ calls' = calls \union {Call("create", NoKey, Terms(form.group, ExpiresInDays))}
    /\ UNCHANGED <<stored, listed, listing, form, rebindingId, given, unsure>>

(***************************************************************************)
(* The table                                                               *)
(***************************************************************************)

DeleteKey(k) ==
    /\ k \in DOMAIN listed /\ Cardinality(calls) < MaxCalls
    /\ calls' = calls \union {Call("delete", k, Terms(Unbound, "never"))}
    /\ UNCHANGED <<stored, listed, listing, creating, form, rebindingId, given, unsure>>

\* One lock for the whole table: choosing for a second key unlocks the first.
RebindGroup(k, g) ==
    /\ k \in DOMAIN listed /\ rebindingId # k /\ Cardinality(calls) < MaxCalls
    /\ g = Unbound => listed[k].group # Unbound
    /\ rebindingId' = k
    /\ calls' = calls \union {Call("rebind", k, Terms(g, "never"))}
    /\ UNCHANGED <<stored, listed, listing, creating, form, given, unsure>>

(***************************************************************************)
(* The handlers                                                            *)
(***************************************************************************)

WithKey(keys, k, terms) == [j \in DOMAIN keys \union {k} |-> IF j = k THEN terms ELSE keys[j]]

\* The request's body is read for the name alone: no group, and a key has no
\* expiry to store.
CreateApiKey(c) ==
    \E k \in KeyIds :
        /\ k \notin given
        /\ stored' = WithKey(stored, k, Terms(Unbound, "never"))
        /\ given' = given \union {k}
        /\ calls' = (calls \ {c}) \union {[c EXCEPT !.key = k, !.done = TRUE]}

DeleteApiKey(c) ==
    /\ stored' = [j \in DOMAIN stored \ {c.key} |-> stored[j]]
    /\ calls' = (calls \ {c}) \union {[c EXCEPT !.done = TRUE]}
    /\ UNCHANGED given

\* A key that was revoked meanwhile is still found, and is none of the list.
RebindApiKeyGroup(c) ==
    /\ stored' = [j \in DOMAIN stored |->
                    IF j = c.key THEN [stored[j] EXCEPT !.group = c.terms.group] ELSE stored[j]]
    /\ calls' = (calls \ {c}) \union {[c EXCEPT !.done = TRUE]}
    /\ UNCHANGED given

KeyWritten(c) ==
    /\ ~c.done
    /\ CASE c.kind = "create" -> CreateApiKey(c)
         [] c.kind = "delete" -> DeleteApiKey(c)
         [] c.kind = "rebind" -> RebindApiKeyGroup(c)
    /\ UNCHANGED <<listed, listing, creating, form, rebindingId, unsure>>

(***************************************************************************)
(* The answers                                                             *)
(***************************************************************************)

\* The form is reset whatever was typed into it meanwhile, and the menus are
\* unlocked whichever key the answer is about.
KeyAnswered(c) ==
    /\ calls' = calls \ {c}
    /\ creating' = (creating /\ c.kind # "create")
    /\ rebindingId' = IF c.kind = "rebind" THEN NoKey ELSE rebindingId

KeySucceeded(c) ==
    /\ c.done /\ KeyAnswered(c)
    /\ form' = IF c.kind = "create" THEN ResetForm ELSE form
    /\ listing' = InvalidateKeys(listing)
    /\ UNCHANGED <<stored, listed, given, unsure>>

\* Refused, or the answer lost: a toast, and no refresh.
KeyFailed(c) ==
    /\ KeyAnswered(c)
    /\ unsure' = (unsure \/ c.done)
    /\ UNCHANGED <<stored, listed, listing, form, given>>

KeysNext ==
    \/ KeysRead \/ KeysArrive \/ KeysRefocused
    \/ SetOpen \/ SubmitKey
    \/ \E g \in KeyGroups \union {Unbound} : SelectGroup(g)
    \/ \E expiration \in Expirations : SetExpiration(expiration)
    \/ \E k \in KeyIds : DeleteKey(k) \/ (\E g \in KeyGroups \union {Unbound} : RebindGroup(k, g))
    \/ \E c \in calls : KeyWritten(c) \/ KeySucceeded(c) \/ KeyFailed(c)

KeysSpec == KeysInit /\ [][KeysNext]_keyVars

(***************************************************************************)
(* Properties                                                              *)
(***************************************************************************)

\* Once every request has been answered and the list read after the last of
\* them, the table shows the keys there are, whatever was answered in what
\* order: a list asked for before a change does not cover it.  A lost answer
\* leaves the table behind until the window is focused again.
KeysShownAreStored ==
    (calls = {} /\ listing.phase = "idle" /\ ~unsure) => listed = stored
=============================================================================
