------------------------------ MODULE Session -------------------------------
(***************************************************************************)
(* Who the console believes it is: the auth store and its copy in          *)
(* localStorage (auth_store.ts), the API client that attaches the token    *)
(* and logs out on a 401 (client.ts), the profile query that every page of *)
(* the layout shares (auth/hooks.ts), and the routes (App.tsx).  Accounts  *)
(* log in one after the other in one tab; the query cache outlives a       *)
(* session.  react-query is external: a query has at most one request, a   *)
(* request outlives the page that made it, and a mount joins it.           *)
(***************************************************************************)
EXTENDS Integers

CONSTANTS
    Accounts,      \* the accounts used in this tab
    Admins,        \* those with the role admin
    MaxLogins      \* bound on successful logins


VARIABLES
    place,         \* the page that is open
    token,         \* of the auth store: the number of its login, 0 for none
    user,          \* of the auth store: the account it names, or Nobody
    owner,         \* per login, the account it was issued for
    expired,       \* logins the server no longer accepts
    profile,       \* the cached profile: whose, and whether still fresh
    asking,        \* the profile request in flight: its token, retries left
    submitting     \* the account whose login is in flight, or Nobody

sessionVars == <<place, token, user, owner, expired, profile, asking, submitting>>

Nobody  == "nobody"

ASSUME SessionAssumption ==
    Admins \subseteq Accounts /\ MaxLogins \in Nat /\ Nobody \notin Accounts

Logins  == 1..MaxLogins
NoAsk   == [token |-> 0, left |-> -1]
Public  == {"home", "login", "register"}
\* Pages of the layout; redeem observes the profile itself.
UserPages == {"dashboard", "redeem"}
AdminPages == {"users"}
Pages   == Public \cup UserPages \cup AdminPages

SessionInit ==
    /\ place = "home" /\ token = 0 /\ user = Nobody
    /\ owner = [l \in Logins |-> Nobody]
    /\ expired = {}
    /\ profile = [of |-> Nobody, fresh |-> FALSE]
    /\ asking = NoAsk
    /\ submitting = Nobody

\* UserLayout is on the screen: it redirects without a token or a user.
Mounted == place \notin Public /\ token # 0 /\ user # Nobody

RoleOf(account) == IF account \in Admins THEN "admin" ELSE "user"

\* What the layout shows for the open page.
PageShown ==
    IF place \in Public THEN place
    ELSE IF token = 0 \/ user = Nobody THEN "login"
    ELSE IF place \in AdminPages /\ RoleOf(user) # "admin" THEN "forbidden"
    ELSE place

\* The links of the home page.
HomeLinks == Public \cup (IF token # 0 THEN {"dashboard"} ELSE {})

\* The links on the screen: those of the home page, or of the sidebar.
LinksShown ==
    IF place \in Public THEN HomeLinks
    ELSE IF PageShown = "forbidden" THEN {}
    ELSE UserPages \cup (IF RoleOf(user) = "admin" THEN AdminPages ELSE {})

(***************************************************************************)
(* The store                                                               *)
(***************************************************************************)

Updated(current, account) == IF current # Nobody THEN account ELSE current
Logout == token' = 0 /\ user' = Nobody

(***************************************************************************)
(* The profile query                                                       *)
(***************************************************************************)

Fetching == asking # NoAsk
FetchProfile(t) == [token |-> t, left |-> 1]

\* A component that observes the profile mounts: a stale profile is fetched,
\* unless a request is under way already, whoever made it.
OnMount(t) ==
    asking' = IF Fetching \/ profile.fresh THEN asking ELSE FetchProfile(t)

\* The layout comes up on the page: the effect copies the cached profile.
LayoutMounts(t, account) ==
    /\ OnMount(t)
    /\ user' = IF profile.of = Nobody THEN account ELSE Updated(account, profile.of)

GoneStale ==
    /\ profile.fresh
    /\ profile' = [profile EXCEPT !.fresh = FALSE]
    /\ UNCHANGED <<place, token, user, owner, expired, asking, submitting>>

\* Mutant: the focus does not fetch a profile that is there.
WindowFocusWithout ==
    /\ Mounted /\ ~Fetching /\ ~profile.fresh /\ profile.of = Nobody
    /\ asking' = FetchProfile(token)
    /\ UNCHANGED <<place, token, user, owner, expired, profile, submitting>>

WindowFocus ==
    /\ Mounted /\ ~Fetching /\ ~profile.fresh
    /\ asking' = FetchProfile(token)
    /\ UNCHANGED <<place, token, user, owner, expired, profile, submitting>>

TokenOwner(t) == IF t = 0 THEN Nobody ELSE owner[t]
TokenAccepted(t) == t # 0 /\ t \notin expired

\* Mutant: the answer itself stores its user, whatever is mounted.
ProfileArrivesAnywhere ==
    /\ Fetching /\ TokenAccepted(asking.token)
    /\ asking' = NoAsk
    /\ profile' = [of |-> TokenOwner(asking.token), fresh |-> TRUE]
    /\ user' = profile'.of
    /\ UNCHANGED <<place, token, owner, expired, submitting>>

\* The effect of the layout runs when the answer changes the cached profile.
ProfileArrives ==
    /\ Fetching /\ TokenAccepted(asking.token)
    /\ asking' = NoAsk
    /\ profile' = [of |-> TokenOwner(asking.token), fresh |-> TRUE]
    /\ user' = IF Mounted /\ profile'.of # profile.of THEN Updated(user, profile'.of)
               ELSE user
    /\ UNCHANGED <<place, token, owner, expired, submitting>>

\* Any 401 logs out whoever is logged in.  A retry is sent with the token of
\* that time.
ProfileFails ==
    /\ Fetching
    /\ IF TokenAccepted(asking.token) THEN UNCHANGED <<token, user>> ELSE Logout
    /\ asking' = IF asking.left > 0 THEN [token |-> token', left |-> asking.left - 1]
                 ELSE NoAsk
    /\ place' = IF Mounted /\ token' = 0 THEN "login" ELSE place
    /\ UNCHANGED <<owner, expired, profile, submitting>>

(***************************************************************************)
(* The person at the tab, and the server                                   *)
(***************************************************************************)

Navigate(to) ==
    /\ to # place
    /\ place' = IF to \notin Public /\ (token = 0 \/ user = Nobody) THEN "login" ELSE to
    /\ IF place' \in Public THEN UNCHANGED <<user, asking>>
       ELSE IF ~Mounted THEN LayoutMounts(token, user)
       ELSE IF place' = "redeem" THEN OnMount(token) /\ UNCHANGED user
       ELSE UNCHANGED <<user, asking>>
    /\ UNCHANGED <<token, owner, expired, profile, submitting>>

FollowLink(to) == to \in LinksShown /\ Navigate(to)

SubmitLogin(account) ==
    /\ PageShown = "login" /\ submitting = Nobody
    /\ submitting' = account
    /\ UNCHANGED <<place, token, user, owner, expired, profile, asking>>

NextLogin == CHOOSE l \in Logins : /\ owner[l] = Nobody
                                   /\ \A k \in Logins : k < l => owner[k] # Nobody

\* useLogin stores the session and invalidates the profile; the page, if it
\* is still there, goes to the dashboard.
LoginAnswered ==
    /\ submitting # Nobody /\ \E l \in Logins : owner[l] = Nobody
    /\ submitting' = Nobody
    /\ owner' = [owner EXCEPT ![NextLogin] = submitting]
    /\ token' = NextLogin
    /\ profile' = [profile EXCEPT !.fresh = FALSE]
    /\ IF place = "login"
       THEN /\ place' = "dashboard"
            /\ user' = IF profile.of = Nobody THEN submitting ELSE profile.of
            /\ asking' = IF Fetching THEN asking ELSE FetchProfile(NextLogin)
       ELSE /\ user' = submitting
            /\ asking' = IF Mounted /\ (profile.of # Nobody \/ ~Fetching)
                         THEN FetchProfile(NextLogin) ELSE asking
            /\ UNCHANGED place
    /\ UNCHANGED expired

\* Wrong credentials are a 401 like any other.
LoginRefused ==
    /\ submitting # Nobody
    /\ submitting' = Nobody
    /\ Logout
    /\ place' = IF Mounted THEN "login" ELSE place
    /\ UNCHANGED <<owner, expired, profile, asking>>

RegisteredDone ==
    /\ place = "register" /\ place' = "login"
    /\ UNCHANGED <<token, user, owner, expired, profile, asking, submitting>>

LogoutClicked ==
    /\ Mounted /\ PageShown # "forbidden"
    /\ Logout /\ place' = "login"
    /\ UNCHANGED <<owner, expired, profile, asking, submitting>>

Expire(l) ==
    /\ owner[l] # Nobody /\ l \notin expired
    /\ expired' = expired \cup {l}
    /\ UNCHANGED <<place, token, user, owner, profile, asking, submitting>>

\* A reload keeps what localStorage holds, and the address.
ReloadTab ==
    /\ profile' = [of |-> Nobody, fresh |-> FALSE]
    /\ asking' = IF Mounted THEN FetchProfile(token) ELSE NoAsk
    /\ submitting' = Nobody
    /\ UNCHANGED <<place, token, user, owner, expired>>

SessionNext ==
    \/ GoneStale \/ WindowFocus \/ ProfileArrives \/ ProfileFails
    \/ \E to \in Pages : Navigate(to) \/ FollowLink(to)
    \/ \E account \in Accounts : SubmitLogin(account)
    \/ LoginAnswered \/ LoginRefused \/ RegisteredDone \/ LogoutClicked \/ ReloadTab
    \/ \E l \in Logins : Expire(l)

SessionSpec == SessionInit /\ [][SessionNext]_sessionVars

\* Requests are answered, in the end by the server; the 30 seconds pass; the
\* window gets the focus.
SessionFairness ==
    /\ WF_sessionVars(GoneStale) /\ SF_sessionVars(WindowFocus)
    /\ SF_sessionVars(ProfileArrives) /\ WF_sessionVars(ProfileFails)

(***************************************************************************)
(* Properties                                                              *)
(***************************************************************************)

\* The store never names a user without a token or the reverse: no answer
\* that comes after a logout brings the user back.
TokenAndUserTogether == (token = 0) = (user = Nobody)

\* The profile of an earlier account, which the cache keeps over a logout and
\* which a late answer may bring back, does not stay on the screen.
ProfileSettles ==
    <>[](Mounted /\ TokenAccepted(token)) => <>[](profile.of \in {Nobody, TokenOwner(token)})
=============================================================================
