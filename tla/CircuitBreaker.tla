--------------------------- MODULE CircuitBreaker ---------------------------
(***************************************************************************)
(* The circuit breaker of one provider (src/infra/circuit_breaker.go), its *)
(* state in a Redis hash that every gateway process shares.  A request     *)
(* asks Allow and, if it is admitted, reports how the provider answered    *)
(* with RecordSuccess or RecordFailure.  Each of the three reads the hash  *)
(* and writes it in separate commands, so requests interleave between      *)
(* them.  Time is counted in ticks, as ages and remaining lifetimes.       *)
(***************************************************************************)
EXTENDS Integers

CONSTANTS
    Procs,        \* concurrent requests
    MinSamples,   \* the 5 records needed before the circuit trips
    RateNum,      \* failureThreshold is RateNum / RateDen
    RateDen,
    Cooldown,     \* cooldownPeriod
    Window,       \* windowSize
    MaxTotal,     \* bound on the records counted between two resets
    Faults        \* whether Redis commands may fail at first

ASSUME BreakerAssumption ==
    /\ {MinSamples, RateDen, Cooldown, Window} \subseteq Nat \ {0}
    /\ {RateNum, MaxTotal} \subseteq Nat
    /\ Faults \in BOOLEAN

VARIABLES
    state,      \* field state of the hash, or None
    failures, successes, total,   \* the counters, 0 when there is none
    openAge,    \* ticks since opened_at, or NoTime
    ttl,        \* remaining lifetime of the hash, or NoTime
    recent,     \* failures of this tick, ticks since a success was
    flaky,      \* Redis commands may still fail
    pc          \* where each request is

vars == <<state, failures, successes, total, openAge, ttl, recent, flaky, pc>>
counters == <<failures, successes, total>>

None   == "none"
NoTime == -1
States == {None, "closed", "open", "half_open"}
Steps  == {"idle", "to_half_open", "repair", "upstream", "probe",
           "count", "reset", "trip"}

KeyTTL == Cooldown + Window

Goto(p, step) == pc' = [pc EXCEPT ![p] = step]

\* Ages are not told apart once past the cooldown, or past the window.
Older(age) == IF age > Cooldown THEN age ELSE age + 1
Calmer(age) == IF age > Window THEN age ELSE age + 1

(***************************************************************************)
(* Allow                                                                   *)
(***************************************************************************)

Admit(p) ==
    /\ pc[p] = "idle"
    /\ \/ state \in {None, "closed"} /\ Goto(p, "upstream")
       \/ state = "half_open" /\ Goto(p, "probe")
       \/ state = "open" /\ openAge = NoTime /\ Goto(p, "repair")
       \/ state = "open" /\ openAge >= Cooldown /\ Goto(p, "to_half_open")
       \/ flaky /\ Goto(p, "upstream")
    /\ UNCHANGED <<state, counters, openAge, ttl, recent, flaky>>

\* Within the cooldown the request is rejected.
Reject(p) ==
    /\ pc[p] = "idle"
    /\ state = "open" /\ openAge \in 0..(Cooldown - 1)
    /\ UNCHANGED vars

\* Mutant: the expiry is renewed and the state is not written.
HalfOpenForgotten(p) ==
    /\ pc[p] = "to_half_open"
    /\ ttl' = KeyTTL
    /\ Goto(p, "probe")
    /\ UNCHANGED <<state, counters, openAge, recent, flaky>>

\* The request is a probe whether or not the transition could be written.
HalfOpen(p) ==
    /\ pc[p] = "to_half_open"
    /\ \/ state' = "half_open" /\ ttl' = KeyTTL
       \/ flaky /\ UNCHANGED <<state, ttl>>
    /\ Goto(p, "probe")
    /\ UNCHANGED <<counters, openAge, recent, flaky>>

(***************************************************************************)
(* RecordSuccess and RecordFailure                                         *)
(***************************************************************************)

Answered(p) == pc[p] \in {"upstream", "probe"}

ReadOnSuccess(p) ==
    /\ Answered(p)
    /\ Goto(p, IF state = "half_open" THEN "reset" ELSE "count")
    /\ UNCHANGED <<state, counters, openAge, ttl, recent, flaky>>

\* Mutant: the two increments are separate and the second is lost.
CountSuccessHalf(p) ==
    /\ pc[p] = "count"
    /\ total < MaxTotal
    /\ successes' = successes + 1
    /\ ttl' = KeyTTL
    /\ recent' = [recent EXCEPT !.calm = 0]
    /\ Goto(p, "idle")
    /\ UNCHANGED <<state, failures, total, openAge, flaky>>

CountSuccess(p) ==
    /\ pc[p] = "count"
    /\ total < MaxTotal
    /\ successes' = successes + 1
    /\ total' = total + 1
    /\ ttl' = KeyTTL
    /\ recent' = [recent EXCEPT !.calm = 0]
    /\ Goto(p, "idle")
    /\ UNCHANGED <<state, failures, openAge, flaky>>

\* resetState, after a probe's success or from Allow, which then admits.
Reset(p) ==
    /\ pc[p] \in {"reset", "repair"}
    /\ state' = "closed"
    /\ failures' = 0 /\ successes' = 0 /\ total' = 0
    /\ openAge' = NoTime
    /\ ttl' = KeyTTL
    /\ IF pc[p] = "repair"
       THEN Goto(p, "upstream") /\ UNCHANGED recent
       ELSE Goto(p, "idle") /\ recent' = [recent EXCEPT !.calm = 0]
    /\ UNCHANGED flaky

\* One pipeline counts the failure and returns the counters the request
\* decides on.
CountFailure(p) ==
    /\ Answered(p)
    /\ total < MaxTotal
    /\ failures' = failures + 1
    /\ total' = total + 1
    /\ ttl' = KeyTTL
    /\ recent' = [recent EXCEPT !.bad = IF @ < MinSamples THEN @ + 1 ELSE @]
    /\ Goto(p, IF /\ total' >= MinSamples
                  /\ failures' * RateDen >= RateNum * total'
               THEN "trip" ELSE "idle")
    /\ UNCHANGED <<state, successes, openAge, flaky>>

\* HSET of state and opened_at, which creates the hash if it is gone, and
\* gives it no expiry.
Trip(p) ==
    /\ pc[p] = "trip"
    /\ state' = "open"
    /\ openAge' = 0
    /\ Goto(p, "idle")
    /\ UNCHANGED <<counters, ttl, recent, flaky>>

(***************************************************************************)
(* The environment                                                         *)
(***************************************************************************)

\* A command fails, or the process dies, or the outcome is never reported: the
\* rest of the request's work on the hash is not done.  Allow admits although
\* its repair failed.
Drop(p) ==
    /\ \/ Answered(p) /\ Goto(p, "idle")
       \/ pc[p] = "count" /\ (flaky \/ total = MaxTotal) /\ Goto(p, "idle")
       \/ flaky /\ pc[p] \in {"reset", "trip"} /\ Goto(p, "idle")
       \/ flaky /\ pc[p] = "repair" /\ Goto(p, "upstream")
    /\ UNCHANGED <<state, counters, openAge, ttl, recent, flaky>>

Tick ==
    /\ IF ttl = 1
       THEN /\ state' = None
            /\ failures' = 0 /\ successes' = 0 /\ total' = 0
            /\ openAge' = NoTime /\ ttl' = NoTime
       ELSE /\ openAge' = IF openAge = NoTime THEN NoTime ELSE Older(openAge)
            /\ ttl' = IF ttl = NoTime THEN NoTime ELSE ttl - 1
            /\ UNCHANGED <<state, counters>>
    /\ recent' = [bad |-> 0, calm |-> Calmer(recent.calm)]
    /\ UNCHANGED <<flaky, pc>>

\* Redis stops failing.
Mend ==
    /\ flaky
    /\ flaky' = FALSE
    /\ UNCHANGED <<state, counters, openAge, ttl, recent, pc>>

(***************************************************************************)
(* Specification                                                           *)
(***************************************************************************)

Init ==
    /\ state = None
    /\ failures = 0 /\ successes = 0 /\ total = 0
    /\ openAge = NoTime /\ ttl = NoTime
    /\ recent = [bad |-> 0, calm |-> Window + 1]
    /\ flaky = Faults
    /\ pc = [p \in Procs |-> "idle"]

Record(p) ==
    \/ HalfOpen(p)
    \/ ReadOnSuccess(p)
    \/ CountSuccess(p)
    \/ Reset(p)
    \/ CountFailure(p)
    \/ Trip(p)

Next ==
    \/ \E p \in Procs : Admit(p) \/ Reject(p) \/ Record(p) \/ Drop(p)
    \/ Tick
    \/ Mend

Spec == Init /\ [][Next]_vars

\* Requests keep coming and do their commands, time passes, and Redis does not
\* fail for ever.
FairSpec ==
    /\ Spec
    /\ WF_vars(Tick) /\ WF_vars(Mend)
    /\ \A p \in Procs : WF_vars(Admit(p)) /\ WF_vars(Record(p) \/ Drop(p))

(***************************************************************************)
(* Properties                                                              *)
(***************************************************************************)

\* Every variable has its type.
BreakerTypeOK ==
    /\ state \in States
    /\ {failures, successes, total} \subseteq 0..MaxTotal
    /\ openAge \in {NoTime} \cup 0..(Cooldown + 1)
    /\ ttl \in {NoTime} \cup 1..KeyTTL
    /\ recent \in [bad : 0..MinSamples, calm : 0..(Window + 1)]
    /\ flaky \in BOOLEAN
    /\ pc \in [Procs -> Steps]

\* Whatever interleaves with the pipelines, with a reset and with the expiry of
\* the hash, the failure rate is taken over counters that agree: each record
\* counted once on its side and once in the total.
CountersAgree == failures + successes = total

\* An open circuit always has the time it opened at: the branches of Allow that
\* repair a hash without opened_at are never needed.
OpenHasTime == state = "open" => openAge # NoTime

\* While requests come and Redis does not fail for ever, no circuit stays open
\* for ever, whatever late failures still arrive from requests admitted before:
\* the cooldown ends and a probe is let through.
Recovers == state = "open" ~> state # "open"
=============================================================================
