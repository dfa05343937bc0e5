---------------------------- MODULE RateLimiter -----------------------------
(***************************************************************************)
(* The rate limiter (src/infra/rate_limiter.go): several gateways share the*)
(* windows of each user, the windows of the whole gateway and the sets of  *)
(* concurrent requests in Redis.  Allow reads the gateway's clock and then *)
(* runs one Lua script with it, so scripts run later than the clock they   *)
(* use says, and out of order.  The script's request and token windows of  *)
(* one user hold the same records, and one set stands for both; the expiry *)
(* of the window keys (120 s) is left out, since a key that is not touched *)
(* for a window holds nothing the script still counts.                     *)
(***************************************************************************)
EXTENDS Integers, FiniteSets

CONSTANTS
    Calls,       \* concurrent calls of Allow, over all the gateways
    Identities,  \* the users
    Limits,      \* what a call's group and model resolve to: [req, tok, conc]
    Tokens,      \* token counts of a request (holdmw.go passes 1)
    MaxReq, MaxTok,   \* the largest req and tok of Limits
    GlobalReq, GlobalTok,   \* the caps of the whole gateway; for 0
                 \* the script checks nothing (NewRateLimiter sets a default)
    Window,      \* the window, 1 minute
    ConcTTL,     \* EXPIRE of a set of concurrent requests, 10 minutes
    Lag,         \* bound: a script runs at most Lag after its clock reading
    MaxTime,     \* bound on the clock
    Faults       \* whether Redis may fail

ASSUME LimiterAssumption ==
    /\ {MaxReq, MaxTok} \subseteq Nat \ {0}
    /\ {GlobalReq, GlobalTok, Lag} \subseteq Nat
    /\ Window \in Nat \ {0} /\ ConcTTL \in Nat \ {0} /\ MaxTime \in Nat
    /\ Lag < Window
    /\ Tokens \subseteq Nat
    /\ Limits \subseteq [req : 1..MaxReq, tok : 1..MaxTok, conc : Nat \ {0}]
    /\ Faults \in BOOLEAN

VARIABLES
    window,   \* window[i]: the records in the req and tok keys of user i
    gwindow,  \* the records in the two global keys
    conc,     \* conc[i]: the members of the set of concurrent requests
    concEnd,  \* when conc[i] expires
    log,      \* every record ever made (history)
    now,      \* the true time
    call      \* where each call is

vars == <<window, gwindow, conc, concEnd, log, now, call>>

Idle == [at |-> "idle"]

\* The script has been sent, with the clock it uses.
Sent(i, lim, tok, clock) ==
    [at |-> "sent", who |-> i, lim |-> lim, tok |-> tok, clock |-> clock]

\* The request runs; id is its record's, or 0 when the limiter failed open.
Running(i, id) == [at |-> "running", who |-> i, id |-> id]

\* Mutant: the window is one unit short.
CleanedEarly(records, clock) == {e \in records : e.score > clock - Window + 1}

\* What ZREMRANGEBYSCORE leaves of a window.
Cleaned(records, clock) == {e \in records : e.score > clock - Window}

\* The tokens of the records, told apart by their record and their number.
TokensOf(records) == UNION {{e} \X (1..e.tok) : e \in records}
Spent(records) == Cardinality(TokensOf(records))

(***************************************************************************)
(* Allow                                                                   *)
(***************************************************************************)

Allow(c) ==
    /\ call[c] = Idle
    /\ \E i \in Identities, lim \in Limits, tok \in Tokens :
          call' = [call EXCEPT ![c] = Sent(i, lim, tok, now)]
    /\ UNCHANGED <<window, gwindow, conc, concEnd, log, now>>

\* Mutant: the token check forgets the request that asks.
PermittedSpent(i, lim, tok, own, all) ==
    /\ Cardinality(own) < lim.req
    /\ Spent(own) <= lim.tok
    /\ Cardinality(conc[i]) < lim.conc
    /\ GlobalReq > 0 => Cardinality(all) < GlobalReq
    /\ GlobalTok > 0 => Spent(all) + tok <= GlobalTok

\* The checks of the script, on the cleaned windows.
Permitted(i, lim, tok, own, all) ==
    /\ Cardinality(own) < lim.req
    /\ Spent(own) + tok <= lim.tok
    /\ Cardinality(conc[i]) < lim.conc
    /\ GlobalReq > 0 => Cardinality(all) < GlobalReq
    /\ GlobalTok > 0 => Spent(all) + tok <= GlobalTok

\* Mutant: the set's expiry is renewed before the checks.
ScriptRenews(c) ==
    /\ call[c].at = "sent"
    /\ LET k == call[c]
           i == k.who
           own == Cleaned(window[i], k.clock)
           all == Cleaned(gwindow, k.clock)
           e == [id |-> Cardinality(log) + 1, who |-> i, tok |-> k.tok,
                 score |-> k.clock, real |-> now]
       IN  /\ IF Permitted(i, k.lim, k.tok, own, all)
              THEN /\ window' = [window EXCEPT ![i] = own \cup {e}]
                   /\ gwindow' = all \cup {e}
                   /\ conc' = [conc EXCEPT ![i] = @ \cup {e.id}]
                   /\ log' = log \cup {e}
                   /\ call' = [call EXCEPT ![c] = Running(i, e.id)]
              ELSE /\ window' = [window EXCEPT ![i] = own]
                   /\ gwindow' = all
                   /\ call' = [call EXCEPT ![c] = Idle]
                   /\ UNCHANGED <<conc, log>>
           /\ concEnd' = [concEnd EXCEPT ![i] = now + ConcTTL]
    /\ UNCHANGED now

\* The Lua script: the windows are cleaned whether or not the request passes,
\* and a request that passes is recorded everywhere at once.
Script(c) ==
    /\ call[c].at = "sent"
    /\ LET k == call[c]
           i == k.who
           own == Cleaned(window[i], k.clock)
           all == Cleaned(gwindow, k.clock)
           e == [id |-> Cardinality(log) + 1, who |-> i, tok |-> k.tok,
                 score |-> k.clock, real |-> now]
       IN  IF Permitted(i, k.lim, k.tok, own, all)
           THEN /\ window' = [window EXCEPT ![i] = own \cup {e}]
                /\ gwindow' = all \cup {e}
                /\ conc' = [conc EXCEPT ![i] = @ \cup {e.id}]
                /\ concEnd' = [concEnd EXCEPT ![i] = now + ConcTTL]
                /\ log' = log \cup {e}
                /\ call' = [call EXCEPT ![c] = Running(i, e.id)]
           ELSE /\ window' = [window EXCEPT ![i] = own]
                /\ gwindow' = all
                /\ call' = [call EXCEPT ![c] = Idle]
                /\ UNCHANGED <<conc, concEnd, log>>
    /\ UNCHANGED now

\* Redis fails: the request is let through without a record.
FailOpen(c) ==
    /\ Faults
    /\ call[c].at = "sent"
    /\ call' = [call EXCEPT ![c] = Running(call[c].who, 0)]
    /\ UNCHANGED <<window, gwindow, conc, concEnd, log, now>>

(***************************************************************************)
(* The environment                                                         *)
(***************************************************************************)

\* The request completes.  Nobody calls ReleaseConc, which needs the id that
\* Allow keeps to itself.
Complete(c) ==
    /\ call[c].at = "running"
    /\ call' = [call EXCEPT ![c] = Idle]
    /\ UNCHANGED <<window, gwindow, conc, concEnd, log, now>>

\* Time passes, and Redis drops the sets that are not renewed.
Tick ==
    /\ now < MaxTime
    /\ \A c \in Calls : call[c].at = "sent" => now + 1 <= call[c].clock + Lag
    /\ now' = now + 1
    /\ conc' = [i \in Identities |-> IF now' >= concEnd[i] THEN {} ELSE conc[i]]
    /\ UNCHANGED <<window, gwindow, concEnd, log, call>>

(***************************************************************************)
(* Specification                                                           *)
(***************************************************************************)

Init ==
    /\ window = [i \in Identities |-> {}]
    /\ gwindow = {}
    /\ conc = [i \in Identities |-> {}]
    /\ concEnd = [i \in Identities |-> 0]
    /\ log = {}
    /\ now = 0
    /\ call = [c \in Calls |-> Idle]

Next ==
    \/ \E c \in Calls : Allow(c) \/ Script(c) \/ FailOpen(c) \/ Complete(c)
    \/ Tick

Spec == Init /\ [][Next]_vars

(***************************************************************************)
(* Properties                                                              *)
(***************************************************************************)

\* The records made in the span of time that ends at t.
During(records, t, span) == {e \in records : t - span < e.real /\ e.real <= t}

Of(i) == {e \in log : e.who = i}

UserRequestsBounded ==
    \A i \in Identities : \A t \in 0..now :
        Cardinality(During(Of(i), t, Window - Lag)) <= MaxReq

GlobalRequestsBounded ==
    GlobalReq > 0 => \A t \in 0..now :
        Cardinality(During(log, t, Window - Lag)) <= GlobalReq

\* Whatever the order in which the gateways' scripts run, no user gets more
\* than the limit through in any span of time shorter than the window by the
\* lag of the clock readings (rateLimitLua), and all users together stay below
\* the cap of the gateway.
RequestsBounded == UserRequestsBounded /\ GlobalRequestsBounded

UserTokensBounded ==
    \A i \in Identities : \A t \in 0..now :
        Spent(During(Of(i), t, Window - Lag)) <= MaxTok

GlobalTokensBounded ==
    GlobalTok > 0 => \A t \in 0..now :
        Spent(During(log, t, Window - Lag)) <= GlobalTok

\* The same for the tokens of a user, and of all users together.
TokensBounded == UserTokensBounded /\ GlobalTokensBounded

\* The members left behind in the set of concurrent requests deny nobody for
\* ever: while they are there, the user got a request through less than ConcTTL
\* ago.  Denied requests do not keep them alive.
DenialsEnd ==
    \A i \in Identities :
        conc[i] # {} => \E e \in Of(i) : now < e.real + ConcTTL
=============================================================================
