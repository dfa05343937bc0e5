---------------------------- MODULE WaitingProofs ----------------------------
(***************************************************************************)
(* What the console does while it waits for somebody else: the session, the *)
(* QR sections of payments and the polling of OAuth logins.                *)
(***************************************************************************)
EXTENDS Session, Payments, OAuthFlow, TLAPS

(***************************************************************************)
(* The session: the store names a user exactly when it holds a token       *)
(***************************************************************************)

Someone == Accounts \cup {Nobody}

\* The logins are dealt in order.
Dealt(n) == \A l \in Logins : owner[l] # Nobody <=> l <= n

\* No token, or that of a login that was answered.
Given(of, t) == t = 0 \/ (t \in Logins /\ of[t] # Nobody)

\* The inductive invariant: the store and the request for the profile carry the
\* token of a login that was answered, so the answer names somebody; whatever
\* names an account names one, or nobody.  The profile in the cache may be any account's.
SessionInv ==
    /\ Given(owner, token) /\ Given(owner, asking.token)
    /\ user \in Someone
    /\ owner \in [Logins -> Someone]
    /\ profile.of \in Someone
    /\ submitting \in Someone
    /\ \E n \in 0 .. MaxLogins : Dealt(n)
    /\ TokenAndUserTogether

\* At first nobody is logged in.
LEMMA SessionInvInit == SessionInit => SessionInv
<1> SUFFICES ASSUME SessionInit PROVE SessionInv
  OBVIOUS
<1>1. Dealt(0) /\ 0 \in 0 .. MaxLogins
  BY SessionAssumption DEF SessionInit, Dealt, Logins
<1> QED
  BY <1>1 DEF SessionInit, SessionInv, TokenAndUserTogether, Someone, NoAsk, Given

\* Copying the cached profile never logs anybody in or out.
LEMMA UpdatedKeeps ==
    ASSUME NEW current \in Someone, NEW account \in Someone, account # Nobody
    PROVE  /\ Updated(current, account) \in Someone
           /\ (Updated(current, account) = Nobody) = (current = Nobody)
BY DEF Updated

\* The next login is the one after those that were dealt.
LEMMA NextLoginDealt ==
    ASSUME NEW n \in 0 .. MaxLogins, Dealt(n), \E l \in Logins : owner[l] = Nobody
    PROVE  NextLogin \in Logins /\ NextLogin = n + 1
<1>1. PICK l \in Logins : owner[l] = Nobody
  OBVIOUS
<1>2. l > n
  BY <1>1, SessionAssumption DEF Dealt, Logins
<1>3. n + 1 \in Logins
  BY <1>1, <1>2, SessionAssumption DEF Logins
<1>4. \A k \in Logins : (owner[k] = Nobody /\ \A j \in Logins : j < k => owner[j] # Nobody) <=> k = n + 1
  BY <1>3, SessionAssumption DEF Dealt, Logins
<1> QED
  BY <1>3, <1>4 DEF NextLogin

\* The layout that comes up keeps whoever is logged in logged in.
LEMMA LayoutKeeps ==
    ASSUME SessionInv, LayoutMounts(token, user), UNCHANGED <<token, owner>>
    PROVE  /\ user' \in Someone /\ (user' = Nobody) = (user = Nobody)
           /\ Given(owner', asking'.token)
<1>1. user' \in Someone /\ (user' = Nobody) = (user = Nobody)
  BY UpdatedKeeps DEF LayoutMounts, SessionInv
<1>2. Given(owner', asking'.token)
  BY DEF LayoutMounts, OnMount, FetchProfile, SessionInv, Given
<1> QED
  BY <1>1, <1>2

\* No step of the tab, of the server or of time breaks it.
LEMMA SessionInvStep == SessionInv /\ [SessionNext]_sessionVars => SessionInv'
<1> SUFFICES ASSUME SessionInv, [SessionNext]_sessionVars PROVE SessionInv'
  OBVIOUS
<1>k. UNCHANGED owner => (\E n \in 0 .. MaxLogins : Dealt(n))'
  BY DEF SessionInv, Dealt
<1>1. CASE UNCHANGED sessionVars
  BY <1>1, <1>k DEF sessionVars, SessionInv, TokenAndUserTogether
<1>2. CASE GoneStale
  BY <1>2, <1>k DEF GoneStale, SessionInv, TokenAndUserTogether
<1>3. CASE WindowFocus
  BY <1>3, <1>k DEF WindowFocus, FetchProfile, SessionInv, Given, TokenAndUserTogether
<1>4. CASE ProfileArrives
  <2>1. profile'.of = TokenOwner(asking.token) /\ profile'.of \in Someone
    <3>1. profile' = [of |-> TokenOwner(asking.token), fresh |-> TRUE]
      BY <1>4 DEF ProfileArrives
    <3>2. TokenOwner(asking.token) \in Someone
      BY DEF TokenOwner, SessionInv, Given, Someone
    <3> QED
      BY <3>1, <3>2
  <2>2. user' \in Someone /\ (user' = Nobody) = (user = Nobody)
    <3>1. profile'.of # Nobody
      BY <1>4, <2>1 DEF ProfileArrives, TokenAccepted, TokenOwner, SessionInv, Given
    <3>2. CASE UNCHANGED user
      BY <3>2 DEF SessionInv
    <3>3. CASE Mounted /\ user' = Updated(user, profile'.of)
      BY <3>1, <3>3, <2>1 DEF Mounted, Updated, SessionInv
    <3> QED
      BY <1>4, <3>2, <3>3 DEF ProfileArrives
  <2> QED
    BY <1>4, <1>k, <2>1, <2>2 DEF ProfileArrives, NoAsk, SessionInv, Given, TokenAndUserTogether
<1>5. CASE ProfileFails
  <2>1. \/ UNCHANGED <<token, user>>
        \/ token' = 0 /\ user' = Nobody
    BY <1>5 DEF ProfileFails, Logout
  <2>2. Given(owner', asking'.token)
    BY <1>5, <2>1 DEF ProfileFails, NoAsk, SessionInv, Given
  <2> QED
    BY <1>5, <1>k, <2>1, <2>2 DEF ProfileFails, SessionInv, Given, TokenAndUserTogether, Someone
<1>6. ASSUME NEW to \in Pages, Navigate(to) \/ FollowLink(to)
      PROVE  SessionInv'
  <2>1. Navigate(to)
    BY <1>6 DEF FollowLink
  <2>2. /\ user' \in Someone /\ (user' = Nobody) = (user = Nobody)
        /\ Given(owner', asking'.token)
    <3>o. UNCHANGED <<token, owner>>
      BY <2>1 DEF Navigate
    <3>1. CASE UNCHANGED <<user, asking>>
      BY <3>o, <3>1 DEF SessionInv
    <3>2. CASE LayoutMounts(token, user)
      BY <3>o, <3>2, LayoutKeeps
    <3>3. CASE OnMount(token) /\ UNCHANGED user
      BY <3>o, <3>3 DEF OnMount, FetchProfile, SessionInv, Given
    <3> QED
      BY <2>1, <3>1, <3>2, <3>3 DEF Navigate
  <2> QED
    BY <1>k, <2>1, <2>2 DEF Navigate, SessionInv, TokenAndUserTogether
<1>7. ASSUME NEW account \in Accounts, SubmitLogin(account)
      PROVE  SessionInv'
  BY <1>7, <1>k DEF SubmitLogin, SessionInv, TokenAndUserTogether, Someone
<1>8. CASE LoginAnswered
  <2>1. PICK n \in 0 .. MaxLogins : Dealt(n)
    BY DEF SessionInv
  <2>2. NextLogin \in Logins /\ NextLogin = n + 1
    BY <1>8, <2>1, NextLoginDealt DEF LoginAnswered
  <2>3. submitting \in Someone /\ submitting # Nobody
    BY <1>8 DEF LoginAnswered, SessionInv
  <2>4. n + 1 \in 0 .. MaxLogins /\ Dealt(n + 1)'
    BY <1>8, <2>1, <2>2, <2>3, SessionAssumption DEF LoginAnswered, SessionInv, Dealt, Logins
  <2>5. user' \in Someone /\ user' # Nobody
    BY <1>8, <2>3 DEF LoginAnswered, SessionInv
  <2>6. Given(owner', asking'.token)
    BY <1>8, <2>2, <2>3 DEF LoginAnswered, FetchProfile, SessionInv, Given
  <2>7. /\ owner' \in [Logins -> Someone] /\ Given(owner', token') /\ token' # 0
        /\ profile'.of \in Someone /\ submitting' = Nobody
    BY <1>8, <2>2, <2>3, SessionAssumption DEF LoginAnswered, SessionInv, Logins, Given
  <2> QED
    BY <2>4, <2>5, <2>6, <2>7 DEF SessionInv, TokenAndUserTogether, Someone
<1>9. CASE LoginRefused \/ LogoutClicked
  BY <1>9, <1>k DEF LoginRefused, LogoutClicked, Logout, SessionInv, Given, TokenAndUserTogether, Someone
<1>10. CASE RegisteredDone
  BY <1>10, <1>k DEF RegisteredDone, SessionInv, TokenAndUserTogether
<1>11. ASSUME NEW l \in Logins, Expire(l)
       PROVE  SessionInv'
  BY <1>11, <1>k DEF Expire, SessionInv, TokenAndUserTogether
<1>12. CASE ReloadTab
  BY <1>12, <1>k DEF ReloadTab, FetchProfile, NoAsk, SessionInv, Given, TokenAndUserTogether, Someone
<1> QED
  BY <1>1, <1>2, <1>3, <1>4, <1>5, <1>6, <1>7, <1>8, <1>9, <1>10, <1>11, <1>12 DEF SessionNext

\* Whoever logs in and out, and whenever a profile that was asked for under
\* another login arrives, the store has a user exactly when it has a token.
THEOREM TokenAndUserAlwaysTogether == SessionSpec => []TokenAndUserTogether
<1>1. SessionInv => TokenAndUserTogether
  BY DEF SessionInv
<1> QED
  BY <1>1, SessionInvInit, SessionInvStep, PTL DEF SessionSpec

(***************************************************************************)
(* Payments: who has paid is told so once                                  *)
(***************************************************************************)

\* What is kept of each channel.
PaymentsTypes ==
    /\ order \in [Channels -> {"none", "pending", "paid", "failed"}]
    /\ section \in [Channels -> {"form", "creating", "waiting", "paid", "failed"}]
    /\ poll \in [Channels -> {"idle", "asked", "pending", "paid", "failed"}]
    /\ told \in [Channels -> 0..1]

\* A status query is only under way while the section waits; nothing has been
\* told by then, and an answer that says paid is about the order there is.
Following(c) ==
    /\ poll[c] # "idle" => section[c] = "waiting"
    /\ section[c] = "waiting" => told[c] = 0 /\ order[c] # "none"
    /\ poll[c] = "paid" => order[c] = "paid"
    /\ told[c] = 1 => order[c] = "paid"

\* The inductive invariant of the recharge page.
PaymentsInv == PaymentsTypes /\ \A c \in Channels : Following(c)

\* At first no channel has an order.
LEMMA PaymentsInvInit == PaymentsInit => PaymentsInv
  BY DEF PaymentsInit, PaymentsInv, PaymentsTypes, Following

\* No step of the page, of the provider or of a payment beside it breaks it.
LEMMA PaymentsInvStep == PaymentsInv /\ [PaymentsNext]_paymentVars => PaymentsInv'
<1> SUFFICES ASSUME PaymentsInv, [PaymentsNext]_paymentVars PROVE PaymentsInv'
  OBVIOUS
<1> DEFINE Kept == UNCHANGED <<order, section, poll, told>>
<1>k. Kept => PaymentsInv'
  BY DEF PaymentsInv, PaymentsTypes, Following
<1>i. ASSUME InvalidatePayments(section), UNCHANGED <<order, section, told>>
      PROVE  PaymentsInv'
  BY <1>i DEF InvalidatePayments, PaymentsInv, PaymentsTypes, Following
<1>1. ASSUME NEW c \in Channels, NEW value \in Amounts, TypeAmount(c, value)
      PROVE  PaymentsInv'
  BY <1>1, <1>k DEF TypeAmount
<1>2. ASSUME NEW c \in Channels, HandleCreateOrder(c) \/ OrderRefused(c) \/ HandleReset(c)
      PROVE  PaymentsInv'
  <2>1. PICK shows \in {"creating", "form"} : section' = [section EXCEPT ![c] = shows]
    BY <1>2 DEF HandleCreateOrder, OrderRefused, HandleReset
  <2>2. section[c] # "waiting" /\ UNCHANGED <<order, poll, told>>
    BY <1>2 DEF HandleCreateOrder, OrderRefused, HandleReset, Final
  <2> QED
    BY <2>1, <2>2 DEF PaymentsInv, PaymentsTypes, Following
<1>3. ASSUME NEW c \in Channels, OrderCreated(c)
      PROVE  PaymentsInv'
  BY <1>3 DEF OrderCreated, InvalidatePayments, PaymentsInv, PaymentsTypes, Following
<1>4. ASSUME NEW c \in Channels, PollTimer(c) \/ StatusRead(c)
      PROVE  PaymentsInv'
  BY <1>4 DEF PollTimer, StatusRead, Polling, PaymentsInv, PaymentsTypes, Following
<1>5. ASSUME NEW c \in Channels, StatusArrives(c)
      PROVE  PaymentsInv'
  BY <1>5 DEF StatusArrives, Final, PaymentsInv, PaymentsTypes, Following
<1>6. ASSUME NEW c \in Channels, NEW status \in Final, OrderEnds(c, status)
      PROVE  PaymentsInv'
  BY <1>6 DEF OrderEnds, Final, PaymentsInv, PaymentsTypes, Following
<1>7. CASE IntentCreated
  BY <1>7, <1>i DEF IntentCreated
<1>8. CASE StripeLoads \/ CardSubmitted \/ CardConfirmed \/ CardRefused \/ Webhook
  BY <1>8, <1>k DEF StripeLoads, CardSubmitted, CardConfirmed, CardRefused, Webhook
<1>9. CASE HandleRedeem \/ Redeemed \/ RedeemRefused \/ RefreshRead \/ RefreshArrives
  BY <1>9, <1>k DEF HandleRedeem, Redeemed, RedeemRefused, RefreshRead, RefreshArrives
<1>10. ASSUME NEW r \in Reads, ReadTimer(r) \/ ReadArrives(r)
       PROVE  PaymentsInv'
  BY <1>10, <1>k DEF ReadTimer, ReadArrives
<1>11. CASE UNCHANGED paymentVars
  BY <1>11, <1>k DEF paymentVars
<1> QED
  BY <1>1, <1>2, <1>3, <1>4, <1>5, <1>6, <1>7, <1>8, <1>9, <1>10, <1>11 DEF PaymentsNext

\* For any number of channels, however many answers come and whatever is paid
\* beside them, a person is told that an order is paid once, and only of one
\* that is.
THEOREM PaidAlwaysToldOnce == PaymentsSpec => []PaidToldOnce
<1>1. PaymentsInv => PaidToldOnce
  BY DEF PaymentsInv, PaymentsTypes, Following, PaidToldOnce
<1> QED
  BY <1>1, PaymentsInvInit, PaymentsInvStep, PTL DEF PaymentsSpec

(***************************************************************************)
(* OAuth logins: success is honest, and every poll has its loop            *)
(***************************************************************************)

OAuthLoopRecords ==
    [phase: {"unused", "timer", "asking", "ended"}, kind: {"status", "files"},
     start: StartIds \cup {NoState}, count: 0..4, sawWait: BOOLEAN, before: Nat, now: Nat]

OAuthTypes ==
    /\ session \in [state: States, oauthState: StartIds \cup {NoState}]
    /\ starting \in [StartIds -> {"unused", "asked", "answered"}]
    /\ loops \in [LoopIds -> OAuthLoopRecords]
    /\ shown \in Nat /\ files \in Nat
    /\ manual \in [phase: {"idle", "posting"}, oauthState: StartIds \cup {NoState}, shown: Nat]
    /\ pollTimer \in LoopIds \cup {0}
    /\ sdk \in [StartIds -> {"none", "issued", "waiting", "done", "failed"}]

\* The SDK knows of the login.
Issued(s) == s # NoState => sdk[s] # "none"
AtWork(l) == loops[l].phase \in {"timer", "asking"}

\* What a loop was begun with: the state of a login that was issued, and twice
\* the same count of files, so that it never finds more than it began with.
\* Once it takes an "ok" for a success, its login is registered.
LoopInv(l) ==
    AtWork(l) =>
        /\ Issued(loops[l].start) /\ loops[l].now = loops[l].before
        /\ loops[l].kind = "status" <=> loops[l].start # NoState
        /\ loops[l].sawWait \/ loops[l].count = 4 =>
              (loops[l].kind = "status" => sdk[loops[l].start] # "issued")

\* The inductive invariant of the page.
OAuthInv ==
    /\ OAuthTypes
    /\ \A l \in LoopIds : LoopInv(l)
    /\ \A s \in StartIds : starting[s] # "answered" => sdk[s] = "none"
    /\ Issued(session.oauthState) /\ Issued(manual.oauthState)
    /\ SuccessHonest /\ PollingServed

\* At first no login was started.
LEMMA OAuthInvInit == OAuthInit => OAuthInv
  BY DEF OAuthInit, OAuthInv, OAuthTypes, LoopInv, AtWork, Issued, SuccessHonest, PollingServed,
     OAuthLoopRecords, NoLoop, NoManual, Session, NoState, States

\* A loop that goes on, or is begun, works for the page.
LEMMA Armed ==
    ASSUME OAuthInv, NEW l \in LoopIds, NEW loop \in OAuthLoopRecords, ArmTimer(l, loop), UNCHANGED sdk,
           Issued(loop.start), loop.now = loop.before, loop.kind = "status" <=> loop.start # NoState,
           loop.sawWait \/ loop.count = 4 => (loop.kind = "status" => sdk[loop.start] # "issued")
    PROVE  /\ loops' \in [LoopIds -> OAuthLoopRecords] /\ pollTimer' \in LoopIds
           /\ \A k \in LoopIds : LoopInv(k)'
           /\ PollingServed'
<1>1. loops' \in [LoopIds -> OAuthLoopRecords] /\ pollTimer' \in LoopIds
  BY DEF ArmTimer, OAuthInv, OAuthTypes, OAuthLoopRecords
<1>2. loops'[l] = [loop EXCEPT !.phase = "timer"] /\ \A k \in LoopIds \ {l} : loops'[k] = loops[k]
  BY DEF ArmTimer, OAuthInv, OAuthTypes
<1>3. LoopInv(l)'
  BY <1>2 DEF LoopInv, AtWork, Issued, OAuthLoopRecords
<1>4. \A k \in LoopIds \ {l} : LoopInv(k)'
  BY <1>2 DEF LoopInv, AtWork, Issued, OAuthInv
<1>5. PollingServed'
  BY <1>2 DEF PollingServed, OAuthLoopRecords
<1> QED
  BY <1>1, <1>3, <1>4, <1>5

\* A loop that a start or a paste begins.
LEMMA LoopBegun ==
    ASSUME OAuthInv, NEW oauthState \in StartIds \cup {NoState}, NEW closure \in Nat,
           StartLoop(oauthState, closure), Issued(oauthState)',
           \A s \in StartIds : sdk[s] # "none" => sdk'[s] = sdk[s]
    PROVE  /\ loops' \in [LoopIds -> OAuthLoopRecords] /\ pollTimer' \in LoopIds
           /\ \A k \in LoopIds : LoopInv(k)'
           /\ PollingServed'
<1> DEFINE loop == [NoLoop EXCEPT !.kind = IF oauthState = NoState THEN "files" ELSE "status",
                       !.start = oauthState, !.before = closure, !.now = closure]
<1>1. PICK l \in LoopIds : ArmTimer(l, loop)
  BY DEF StartLoop, Unused
<1>2. NoLoop \in OAuthLoopRecords /\ NoLoop.count = 0 /\ NoLoop.sawWait = FALSE
  BY DEF NoLoop, OAuthLoopRecords, NoState
<1>3. /\ loop \in OAuthLoopRecords
      /\ loop.start = oauthState /\ loop.kind = IF oauthState = NoState THEN "files" ELSE "status"
      /\ loop.before = closure /\ loop.now = closure /\ loop.count = 0 /\ ~loop.sawWait
  BY <1>2 DEF OAuthLoopRecords
<1> HIDE DEF loop
<1>4. loops' \in [LoopIds -> OAuthLoopRecords] /\ pollTimer' \in LoopIds
  BY <1>1, <1>3 DEF ArmTimer, OAuthInv, OAuthTypes, OAuthLoopRecords
<1>5. loops'[l] = [loop EXCEPT !.phase = "timer"] /\ \A k \in LoopIds \ {l} : loops'[k] = loops[k]
  BY <1>1 DEF ArmTimer, OAuthInv, OAuthTypes
<1>6. LoopInv(l)'
  BY <1>3, <1>5 DEF LoopInv, AtWork, Issued, OAuthLoopRecords
<1>7. ASSUME NEW k \in LoopIds \ {l}
      PROVE  LoopInv(k)'
  BY <1>5 DEF LoopInv, AtWork, Issued, OAuthInv, OAuthTypes, OAuthLoopRecords
<1>8. PollingServed'
  BY <1>3, <1>5 DEF PollingServed, OAuthLoopRecords
<1> QED
  BY <1>4, <1>6, <1>7, <1>8

\* A loop that ends, and tells the page how, if it may.
LEMMA LoopEnded ==
    ASSUME OAuthInv, NEW l \in LoopIds, EndLoop(l), session'.state # "polling",
           session' \in [state: States, oauthState: {NoState}],
           session'.state = "success" => \E s \in StartIds : sdk[s] = "done",
           pollTimer' \in LoopIds \cup {0},
           UNCHANGED <<starting, manual, sdk, shown, files>>
    PROVE  OAuthInv'
<1>1. loops' \in [LoopIds -> OAuthLoopRecords]
  <2>1. [NoLoop EXCEPT !.phase = "ended"] \in OAuthLoopRecords
    <3>1. NoLoop \in OAuthLoopRecords
      BY DEF OAuthLoopRecords, NoLoop, NoState
    <3> QED
      BY <3>1 DEF OAuthLoopRecords
  <2> QED
    BY <2>1 DEF EndLoop, OAuthInv, OAuthTypes
<1>2. ASSUME NEW k \in LoopIds
      PROVE  LoopInv(k)'
  BY DEF EndLoop, OAuthInv, OAuthTypes, LoopInv, AtWork, Issued, NoLoop
<1> QED
  BY <1>1, <1>2 DEF OAuthInv, OAuthTypes, Issued, SuccessHonest, PollingServed, NoState

\* A status that is taken for a success is that of a login that came off.
LEMMA OkIsDone ==
    ASSUME OAuthInv, NEW l \in LoopIds, loops[l].phase = "asking", loops[l].kind = "status",
           StatusOf(l) = "ok", ~EarlyOk(l)
    PROVE  \E s \in StartIds : sdk[s] = "done"
<1>1. loops[l] \in OAuthLoopRecords /\ LoopInv(l)
  BY DEF OAuthInv, OAuthTypes
<1>2. loops[l].sawWait \/ loops[l].count = 4
  BY <1>1 DEF EarlyOk, OAuthLoopRecords
<1>3. loops[l].start \in StartIds /\ sdk[loops[l].start] \notin {"none", "issued"}
  BY <1>1, <1>2 DEF LoopInv, AtWork, Issued, OAuthLoopRecords
<1>4. sdk[loops[l].start] = "done"
  BY <1>3 DEF StatusOf, OAuthInv, OAuthTypes
<1> QED
  BY <1>3, <1>4

\* No answer, no timer and nothing the administrator does breaks it.
LEMMA OAuthInvStep == OAuthInv /\ [OAuthNext]_oauthVars => OAuthInv'
<1> SUFFICES ASSUME OAuthInv, [OAuthNext]_oauthVars PROVE OAuthInv'
  OBVIOUS
<1>t. \A l \in LoopIds : loops[l] \in OAuthLoopRecords /\ LoopInv(l)
  BY DEF OAuthInv, OAuthTypes
<1>l. UNCHANGED <<loops, sdk>> => \A l \in LoopIds : LoopInv(l)'
  BY DEF OAuthInv, LoopInv, AtWork, Issued
<1>1. ASSUME NEW l \in LoopIds, TimesOut(l)
      PROVE  OAuthInv'
  <2>1. session' = [state |-> "error", oauthState |-> NoState]
    BY <1>1 DEF TimesOut, Session
  <2> QED
    BY <1>1, <2>1, LoopEnded DEF TimesOut, States, OAuthInv, OAuthTypes
<1>2. ASSUME NEW l \in LoopIds, TimerFires(l)
      PROVE  OAuthInv'
  <2>1. loops'[l] = [loops[l] EXCEPT !.phase = "asking", !.count = AtMost(@ + 1, 4)]
    BY <1>2 DEF TimerFires, OAuthInv, OAuthTypes
  <2>2. AtMost(loops[l].count + 1, 4) \in 0..4 /\ (AtMost(loops[l].count + 1, 4) = 4 => loops[l].count \in {3, 4})
    BY <1>t DEF AtMost, OAuthLoopRecords
  <2>3. \A k \in LoopIds \ {l} : loops'[k] = loops[k]
    BY <1>2 DEF TimerFires, OAuthInv, OAuthTypes
  <2>4. loops' \in [LoopIds -> OAuthLoopRecords]
    <3>1. loops'[l] \in OAuthLoopRecords
      BY <1>t, <2>1, <2>2 DEF OAuthLoopRecords
    <3>2. loops' = [k \in LoopIds |-> loops'[k]]
      BY <1>2 DEF TimerFires, OAuthInv, OAuthTypes
    <3> QED
      BY <1>t, <2>3, <3>1, <3>2
  <2>5. LoopInv(l)'
    <3>1. /\ loops'[l].kind = loops[l].kind /\ loops'[l].start = loops[l].start
          /\ loops'[l].before = loops[l].before /\ loops'[l].now = loops[l].now
          /\ loops'[l].sawWait = loops[l].sawWait /\ loops'[l].count = AtMost(loops[l].count + 1, 4)
      BY <1>t, <2>1 DEF OAuthLoopRecords
    <3> QED
      BY <1>2, <1>t, <2>2, <3>1 DEF TimerFires, RegisteredBy, LoopInv, AtWork, Issued
  <2>6. \A k \in LoopIds \ {l} : LoopInv(k)'
    BY <1>2, <1>t, <2>3, ZenonT(30) DEF TimerFires, LoopInv, AtWork, Issued
  <2>7. PollingServed'
    <3>1. loops'[l].phase = "asking"
      BY <1>t, <2>1 DEF OAuthLoopRecords
    <3> QED
      BY <1>2, <3>1 DEF TimerFires, PollingServed
  <2> QED
    BY <1>2, <2>4, <2>5, <2>6, <2>7 DEF TimerFires, OAuthInv, OAuthTypes, Issued, SuccessHonest
<1>3. ASSUME NEW l \in LoopIds, StatusAnswered(l)
      PROVE  OAuthInv'
  <2>1. ASSUME ArmTimer(l, loops[l]), UNCHANGED <<session, loading>>
        PROVE  OAuthInv'
    <3>1. /\ loops' \in [LoopIds -> OAuthLoopRecords] /\ pollTimer' \in LoopIds
          /\ \A k \in LoopIds : LoopInv(k)' /\ PollingServed'
      BY <1>3, <1>t, <2>1, Armed DEF StatusAnswered, LoopInv, AtWork
    <3> QED
      BY <1>3, <2>1, <3>1 DEF StatusAnswered, OAuthInv, OAuthTypes, Issued, SuccessHonest
  <2>2. ASSUME StatusOf(l) = "wait", ArmTimer(l, [loops[l] EXCEPT !.sawWait = TRUE]), UNCHANGED <<session, loading>>
        PROVE  OAuthInv'
    <3> DEFINE loop == [loops[l] EXCEPT !.sawWait = TRUE]
    <3>1. loop \in OAuthLoopRecords
      BY <1>t DEF OAuthLoopRecords
    <3>2. loop.start = loops[l].start /\ loop.kind = loops[l].kind /\ loop.now = loops[l].now /\ loop.before = loops[l].before
      BY <1>t DEF OAuthLoopRecords
    <3>3. sdk[loop.start] = "waiting"
      BY <2>2, <3>2 DEF StatusOf
    <3> HIDE DEF loop
    <3>4. /\ loops' \in [LoopIds -> OAuthLoopRecords] /\ pollTimer' \in LoopIds
          /\ \A k \in LoopIds : LoopInv(k)' /\ PollingServed'
      <4>1. ArmTimer(l, loop) /\ UNCHANGED sdk
        BY <1>3, <2>2 DEF loop, StatusAnswered
      <4> QED
        BY <1>3, <1>t, <3>1, <3>2, <3>3, <4>1, Armed DEF StatusAnswered, LoopInv, AtWork
    <3> QED
      BY <1>3, <2>2, <3>4 DEF StatusAnswered, OAuthInv, OAuthTypes, Issued, SuccessHonest
  <2>3. ASSUME NEW outcome \in {"error", "success"}, Conclude(l, outcome),
               outcome = "success" => StatusOf(l) = "ok" /\ ~EarlyOk(l)
        PROVE  OAuthInv'
    <3>1. outcome = "success" => \E s \in StartIds : sdk[s] = "done"
      BY <1>3, <2>3, OkIsDone DEF StatusAnswered
    <3>2. session' = [state |-> outcome, oauthState |-> NoState]
      BY <2>3 DEF Conclude, Session
    <3> QED
      BY <1>3, <2>3, <3>1, <3>2, LoopEnded DEF StatusAnswered, Conclude, States, OAuthInv, OAuthTypes
  <2> QED
    BY <1>3, <2>1, <2>2, <2>3 DEF StatusAnswered
<1>4. ASSUME NEW l \in LoopIds, FilesPolled(l)
      PROVE  OAuthInv'
  <2>1. ~(loops[l].now > loops[l].before)
    BY <1>4, <1>t DEF FilesPolled, LoopInv, AtWork, OAuthLoopRecords
  <2>2. ArmTimer(l, loops[l]) /\ UNCHANGED session /\ shown' \in Nat
    BY <1>4, <2>1 DEF FilesPolled, Loaded, OAuthInv, OAuthTypes
  <2>3. /\ loops' \in [LoopIds -> OAuthLoopRecords] /\ pollTimer' \in LoopIds
        /\ \A k \in LoopIds : LoopInv(k)' /\ PollingServed'
    BY <1>4, <1>t, <2>2, Armed DEF FilesPolled, LoopInv, AtWork
  <2> QED
    BY <1>4, <2>2, <2>3 DEF FilesPolled, OAuthInv, OAuthTypes, Issued, SuccessHonest
<1>5. CASE LoadAuthFiles
  BY <1>5, <1>l DEF LoadAuthFiles, Loaded, OAuthInv, OAuthTypes, Issued, SuccessHonest, PollingServed
<1>6. ASSUME NEW s \in StartIds, StartOAuth(s)
      PROVE  OAuthInv'
  BY <1>6, <1>l DEF StartOAuth, Session, States, NoState, OAuthInv, OAuthTypes, Issued, SuccessHonest, PollingServed
<1>7. ASSUME NEW s \in StartIds, AuthUrlAnswered(s)
      PROVE  OAuthInv'
  <2>1. CASE session' = Session("error", NoState) /\ UNCHANGED <<loops, pollTimer, sdk>>
    BY <1>7, <1>l, <2>1 DEF AuthUrlAnswered, Session, States, NoState, OAuthInv, OAuthTypes, Issued, SuccessHonest, PollingServed
  <2>2. ASSUME NEW oauthState \in {s, NoState}, session' = Session("polling", oauthState),
               sdk' = [sdk EXCEPT ![s] = "issued"], StartLoop(oauthState, shown)
        PROVE  OAuthInv'
    <3>1. sdk[s] = "none"
      BY <1>7 DEF AuthUrlAnswered, OAuthInv
    <3>2. Issued(oauthState)' /\ \A r \in StartIds : sdk[r] # "none" => sdk'[r] = sdk[r]
      BY <2>2, <3>1 DEF Issued, OAuthInv, OAuthTypes
    <3>3. /\ loops' \in [LoopIds -> OAuthLoopRecords] /\ pollTimer' \in LoopIds
          /\ \A k \in LoopIds : LoopInv(k)' /\ PollingServed'
      BY <2>2, <3>2, LoopBegun DEF OAuthInv, OAuthTypes
    <3> QED
      BY <1>7, <2>2, <3>2, <3>3 DEF AuthUrlAnswered, Session, States, OAuthInv, OAuthTypes, Issued, SuccessHonest
  <2> QED
    BY <1>7, <2>1, <2>2 DEF AuthUrlAnswered
<1>8. CASE ResetSession
  <2>1. session' = [state |-> "none", oauthState |-> NoState] /\ pollTimer' = 0
    BY <1>8 DEF ResetSession, Session
  <2>2. CASE pollTimer # 0 /\ EndLoop(pollTimer)
    BY <1>8, <2>1, <2>2, LoopEnded DEF ResetSession, States, OAuthInv, OAuthTypes
  <2>3. CASE UNCHANGED loops
    BY <1>8, <1>l, <2>1, <2>3 DEF ResetSession, States, NoState, OAuthInv, OAuthTypes, Issued, SuccessHonest, PollingServed
  <2> QED
    BY <1>8, <2>2, <2>3 DEF ResetSession
<1>9. CASE SubmitManualCallback
  BY <1>9, <1>l DEF SubmitManualCallback, OAuthInv, OAuthTypes, Issued, SuccessHonest, PollingServed
<1>10. CASE ManualAnswered
  <2>1. manual' = [phase |-> "idle", oauthState |-> NoState, shown |-> 0]
    BY <1>10 DEF ManualAnswered, NoManual
  <2>2. CASE UNCHANGED <<loops, pollTimer>>
    BY <1>10, <1>l, <2>1, <2>2 DEF ManualAnswered, NoState, OAuthInv, OAuthTypes, Issued, SuccessHonest, PollingServed
  <2>3. CASE StartLoop(manual.oauthState, manual.shown)
    <3>1. /\ loops' \in [LoopIds -> OAuthLoopRecords] /\ pollTimer' \in LoopIds
          /\ \A k \in LoopIds : LoopInv(k)' /\ PollingServed'
      BY <1>10, <2>3, LoopBegun DEF ManualAnswered, Issued, OAuthInv, OAuthTypes
    <3> QED
      BY <1>10, <2>1, <3>1 DEF ManualAnswered, NoState, OAuthInv, OAuthTypes, Issued, SuccessHonest
  <2> QED
    BY <1>10, <2>2, <2>3 DEF ManualAnswered
<1>11. ASSUME NEW s \in StartIds, SdkStep(s)
       PROVE  OAuthInv'
  <2>1. /\ sdk' \in [StartIds -> {"none", "issued", "waiting", "done", "failed"}] /\ files' \in Nat
        /\ \A r \in StartIds : (sdk'[r] = "none" <=> sdk[r] = "none") /\ (sdk'[r] = "issued" => sdk[r] = "issued")
                              /\ (sdk[r] = "done" => sdk'[r] = "done")
    BY <1>11 DEF SdkStep, OAuthInv, OAuthTypes
  <2>2. ASSUME NEW l \in LoopIds
        PROVE  LoopInv(l)'
    BY <1>11, <1>t, <2>1 DEF SdkStep, LoopInv, AtWork, Issued, OAuthLoopRecords
  <2> QED
    BY <1>11, <2>1, <2>2 DEF SdkStep, OAuthInv, OAuthTypes, Issued, SuccessHonest, PollingServed
<1>12. CASE UNCHANGED oauthVars
  BY <1>12, <1>l DEF oauthVars, OAuthInv, OAuthTypes, Issued, SuccessHonest, PollingServed
<1> QED
  BY <1>1, <1>2, <1>3, <1>4, <1>5, <1>6, <1>7, <1>8, <1>9, <1>10, <1>11, <1>12 DEF OAuthNext

\* For any number of logins, loops and pastes, the page says that a login came
\* off only when one did.
THEOREM SuccessAlwaysHonest == OAuthSpec => []SuccessHonest
<1>1. OAuthInv => SuccessHonest
  BY DEF OAuthInv
<1> QED
  BY <1>1, OAuthInvInit, OAuthInvStep, PTL DEF OAuthSpec

\* Nor does it ever wait with no loop left that asks.
THEOREM PollingAlwaysServed == OAuthSpec => []PollingServed
<1>1. OAuthInv => PollingServed
  BY DEF OAuthInv
<1> QED
  BY <1>1, OAuthInvInit, OAuthInvStep, PTL DEF OAuthSpec

==============================================================================
