----------------------------- MODULE OAuthFlow ------------------------------
(***************************************************************************)
(* The OAuth page of the console (AdminProxyOAuthPage.tsx) for one of its  *)
(* providers: the administrator starts a login, cancels it, or pastes a    *)
(* callback by hand, while poll loops ask the SDK how the login goes.      *)
(* Every start and every paste begins a loop; the page remembers only the  *)
(* timer that was set last.  The SDK is external.  A login that the page   *)
(* is left with ends with the behaviour.                                   *)
(***************************************************************************)
EXTENDS Integers, OAuthCallback

CONSTANTS
    OAuthStarts,    \* bound on the logins started
    OAuthLoops,     \* bound on the poll loops begun
    OAuthProviders  \* how a provider takes a pasted callback: [mode, xai]

VARIABLES
    session,      \* what the page shows: its state, and the oauthState
    starting,     \* starts whose auth-url request is in flight
    loops,        \* the poll loops begun so far
    pollTimer,    \* the loop whose timer pollTimerRef holds, 0 for none
    loading,      \* a load of the auth files is in flight
    shown,        \* the provider's auth files the page knows of
    manual,       \* the paste being submitted
    sdk,          \* per start, the SDK's session
    files         \* the provider's auth files there are

oauthVars == <<session, starting, loops, pollTimer, loading, shown,
               manual, sdk, files>>

StartIds == 1..OAuthStarts
LoopIds  == 1..OAuthLoops

NoState == 0    \* a session without an oauthState, as in a device flow
States  == {"none", "pending", "polling", "success", "error"}

Session(st, oauthState) == [state |-> st, oauthState |-> oauthState]
NoManual == [phase |-> "idle", oauthState |-> NoState, shown |-> 0]
NoLoop   == [phase |-> "unused", kind |-> "status", start |-> NoState, count |-> 0,
             sawWait |-> FALSE, before |-> 0, now |-> 0]

OAuthInit ==
    /\ session = Session("none", NoState)
    /\ starting = [s \in StartIds |-> "unused"]
    /\ loops = [l \in LoopIds |-> NoLoop]
    /\ pollTimer = 0 /\ loading = TRUE /\ shown = 0
    /\ manual = NoManual
    /\ sdk = [s \in StartIds |-> "none"]
    /\ files = 0

Visible == ~loading \/ \E l \in LoopIds : loops[l].phase # "unused"

(***************************************************************************)
(* Poll loops                                                              *)
(***************************************************************************)

Unused == {l \in LoopIds : loops[l].phase = "unused"}

\* Mutant: a timer that has been set before is not set again.
ArmTimerOnce(l, loop) ==
    /\ loops' = [loops EXCEPT ![l] = [loop EXCEPT !.phase = IF loop.count > 1 THEN "ended" ELSE "timer"]]
    /\ pollTimer' = l

\* The 2 or 3 seconds of a timer are not told apart.
ArmTimer(l, loop) ==
    /\ loops' = [loops EXCEPT ![l] = [loop EXCEPT !.phase = "timer"]]
    /\ pollTimer' = l

\* Both counts of pollAuthFilesForCompletion come from the render it was
\* called in.
StartLoop(oauthState, closure) ==
    \E l \in Unused :
        /\ \A k \in Unused : l <= k
        /\ ArmTimer(l, [NoLoop EXCEPT
               !.kind = IF oauthState = NoState THEN "files" ELSE "status",
               !.start = oauthState, !.before = closure, !.now = closure])

EndLoop(l) == loops' = [loops EXCEPT ![l] = [NoLoop EXCEPT !.phase = "ended"]]

Conclude(l, outcome) ==
    /\ EndLoop(l)
    /\ session' = Session(outcome, NoState)
    /\ loading' = TRUE
    /\ UNCHANGED pollTimer

\* Mutant: a loop that has heard of the login does not time out.
TimesOutUnseen(l) ==
    /\ loops[l].phase = "timer" /\ ~loops[l].sawWait
    /\ EndLoop(l)
    /\ session' = Session("error", NoState)
    /\ UNCHANGED <<starting, pollTimer, loading, shown, manual, sdk, files>>

\* A timer that fires after the six minutes of its loop.
TimesOut(l) ==
    /\ loops[l].phase = "timer"
    /\ EndLoop(l)
    /\ session' = Session("error", NoState)
    /\ UNCHANGED <<starting, pollTimer, loading, shown, manual, sdk, files>>

AtMost(n, bound) == IF n > bound THEN bound ELSE n

\* Assumed of the SDK: the fourth poll of a login finds it registered.
RegisteredBy(l) ==
    loops[l].count = 3 /\ loops[l].kind = "status" => sdk[loops[l].start] # "issued"

TimerFires(l) ==
    /\ loops[l].phase = "timer"
    /\ RegisteredBy(l)
    /\ loops' = [loops EXCEPT ![l].phase = "asking", ![l].count = AtMost(@ + 1, 4)]
    /\ UNCHANGED <<session, starting, pollTimer, loading, shown, manual,
                   sdk, files>>

\* What get-auth-status answers.  "ok" stands for no session at all, which is
\* also the answer before the SDK has registered it.
StatusOf(l) ==
    CASE sdk[loops[l].start] = "waiting" -> "wait"
      [] sdk[loops[l].start] = "failed" -> "error"
      [] OTHER -> "ok"

\* Mutant: two answers are waited for, not three.
EarlyOkTwice(l) == ~loops[l].sawWait /\ loops[l].count <= 2

EarlyOk(l) == ~loops[l].sawWait /\ loops[l].count <= 3

StatusAnswered(l) ==
    /\ loops[l].phase = "asking" /\ loops[l].kind = "status"
    /\ \/ /\ StatusOf(l) = "wait"
          /\ ArmTimer(l, [loops[l] EXCEPT !.sawWait = TRUE])
          /\ UNCHANGED <<session, loading>>
       \/ StatusOf(l) = "error" /\ Conclude(l, "error")
       \/ /\ StatusOf(l) = "ok" /\ EarlyOk(l)
          /\ ArmTimer(l, loops[l])
          /\ UNCHANGED <<session, loading>>
       \/ StatusOf(l) = "ok" /\ ~EarlyOk(l) /\ Conclude(l, "success")
       \/ ArmTimer(l, loops[l]) /\ UNCHANGED <<session, loading>>    \* it threw
    /\ UNCHANGED <<starting, shown, manual, sdk, files>>

\* The answer of loadAuthFiles, which swallows a failure.
Loaded == {files, shown}

FilesPolled(l) ==
    /\ loops[l].phase = "asking" /\ loops[l].kind = "files"
    /\ \E n \in Loaded :
        /\ shown' = n
        /\ IF loops[l].now > loops[l].before
           THEN /\ EndLoop(l)
                /\ session' = Session("success", NoState)
                /\ UNCHANGED pollTimer
           ELSE /\ ArmTimer(l, loops[l])
                /\ UNCHANGED session
    /\ UNCHANGED <<starting, loading, manual, sdk, files>>

LoadAuthFiles ==
    /\ loading /\ loading' = FALSE
    /\ shown' \in Loaded
    /\ UNCHANGED <<session, starting, loops, pollTimer, manual, sdk, files>>

(***************************************************************************)
(* The administrator                                                       *)
(***************************************************************************)

\* The button that starts a login stands where no session is shown.
LoginOffered == Visible /\ session.state = "none"

StartOAuth(s) ==
    /\ LoginOffered /\ Unused # {}
    /\ starting[s] = "unused" /\ \A r \in StartIds : r < s => starting[r] # "unused"
    /\ starting' = [starting EXCEPT ![s] = "asked"]
    /\ session' = Session("pending", NoState)
    /\ UNCHANGED <<loops, pollTimer, loading, shown, manual, sdk, files>>

\* The SDK answers with a URL and a state, with a URL only, or not at all.
AuthUrlAnswered(s) ==
    /\ starting[s] = "asked"
    /\ starting' = [starting EXCEPT ![s] = "answered"]
    /\ \/ \E oauthState \in {s, NoState} :
            /\ session' = Session("polling", oauthState)
            /\ sdk' = [sdk EXCEPT ![s] = "issued"]
            /\ StartLoop(oauthState, shown)
       \/ session' = Session("error", NoState) /\ UNCHANGED <<loops, pollTimer, sdk>>
    /\ UNCHANGED <<loading, shown, manual, files>>

\* Cancel, done or close, by the state of the session; pending offers none.
ResetOffered == session.state \in {"polling", "success", "error"}

\* Cancel, done and close are one handler: the timer that was set last is
\* cleared, a request in flight is not.
ResetSession ==
    /\ ResetOffered
    /\ session' = Session("none", NoState)
    /\ pollTimer' = 0
    /\ IF pollTimer # 0 /\ loops[pollTimer].phase = "timer"
       THEN EndLoop(pollTimer) ELSE UNCHANGED loops
    /\ UNCHANGED <<starting, loading, shown, manual, sdk, files>>

SessionState == IF session.oauthState = NoState THEN Nothing ELSE "session"

\* What is posted for a paste: nothing when it cannot be read.
Posted(provider, paste) ==
    LET parsed == ParseOAuthCallbackInput(paste, SessionState, provider.xai)
        state == Or(parsed.state, SessionState)
        ready == /\ ~parsed.error
                 /\ IF provider.mode = "sdk"
                    THEN parsed.redirect \/ (parsed.code # Nothing /\ parsed.state # Nothing)
                    ELSE parsed.code # Nothing /\ state # Nothing
    IN IF ready THEN {[code |-> parsed.code, state |-> state]} ELSE {}

\* What a provider that takes a paste can make something of.
Readable ==
    {taken \in OAuthProviders \X Pastes :
        taken[1].mode # "none" /\ Posted(taken[1], taken[2]) # {}}

\* The panel below the provider, with or without a session.
PasteOffered == Visible /\ manual.phase = "idle"

SubmitManualCallback ==
    /\ PasteOffered
    /\ Unused # {} /\ Readable # {}
    /\ manual' = [phase |-> "posting", oauthState |-> session.oauthState, shown |-> shown]
    /\ UNCHANGED <<session, starting, loops, pollTimer, loading, shown, sdk, files>>

\* The session and the files are those of the render that submitted.
ManualAnswered ==
    /\ manual.phase = "posting"
    /\ manual' = NoManual
    /\ \/ /\ StartLoop(manual.oauthState, manual.shown)
          /\ loading' = TRUE
       \/ UNCHANGED <<loops, pollTimer, loading>>
    /\ UNCHANGED <<session, starting, shown, sdk, files>>

(***************************************************************************)
(* The SDK                                                                 *)
(***************************************************************************)

\* A login is registered after its URL is issued; it completes with a new
\* auth file, or fails.
SdkStep(s) ==
    /\ \/ sdk[s] = "issued" /\ sdk' = [sdk EXCEPT ![s] = "waiting"] /\ UNCHANGED files
       \/ /\ sdk[s] = "waiting" /\ sdk' = [sdk EXCEPT ![s] = "done"]
          /\ files' = files + 1
       \/ sdk[s] = "waiting" /\ sdk' = [sdk EXCEPT ![s] = "failed"] /\ UNCHANGED files
    /\ UNCHANGED <<session, starting, loops, pollTimer, loading, shown, manual>>

OAuthNext ==
    \/ \E l \in LoopIds : \/ TimesOut(l) \/ TimerFires(l)
                          \/ StatusAnswered(l) \/ FilesPolled(l)
    \/ LoadAuthFiles
    \/ \E s \in StartIds : StartOAuth(s) \/ AuthUrlAnswered(s) \/ SdkStep(s)
    \/ ResetSession
    \/ SubmitManualCallback \/ ManualAnswered

OAuthSpec == OAuthInit /\ [][OAuthNext]_oauthVars

\* Timers fire, requests are answered, and time passes: a loop does not
\* poll for ever.
OAuthFairness ==
    \A l \in LoopIds :
        /\ WF_oauthVars(TimerFires(l))
        /\ WF_oauthVars(StatusAnswered(l))
        /\ WF_oauthVars(FilesPolled(l))
        /\ SF_oauthVars(TimesOut(l))

(***************************************************************************)
(* Properties                                                              *)
(***************************************************************************)

\* The page only says that a login succeeded when one did: the "ok" the SDK
\* gives before it has registered a login is not taken for one, whichever loop
\* of whichever login hears it.
SuccessHonest == session.state = "success" => \E s \in StartIds : sdk[s] = "done"

\* While the page says it waits for a login some loop is at work: no answer, no
\* failure and no cancelled timer leaves it waiting with nobody asking.
PollingServed ==
    session.state = "polling" => \E l \in LoopIds : loops[l].phase \in {"timer", "asking"}

\* The page does not wait for ever.
PollingEnds == session.state = "polling" ~> session.state # "polling"
=============================================================================
