--------------------------- MODULE BreakerProofs ----------------------------
(***************************************************************************)
(* The circuit breaker's types, counters and opening time are consistent   *)
(* for any number of requests, any threshold, cooldown and window.         *)
(***************************************************************************)
EXTENDS CircuitBreaker, TLAPS

\* The inductive invariant.  The bound on each counter needs that they agree:
\* a pipeline checks none of them but the total.
BreakerInv == BreakerTypeOK /\ CountersAgree /\ OpenHasTime

\* A request moves to a step there is.
LEMMA StepTyped ==
    ASSUME BreakerTypeOK, NEW p \in Procs, NEW step \in Steps, Goto(p, step)
    PROVE  pc' \in [Procs -> Steps]
  BY DEF BreakerTypeOK, Goto

\* The invariant holds before the first request: there is no hash.
LEMMA BreakerInvInit == Init => BreakerInv
  BY BreakerAssumption DEF Init, BreakerInv, BreakerTypeOK, CountersAgree,
     OpenHasTime, NoTime, None, States, Steps

\* No step of Allow, of a record, of a failing command or of the clock breaks
\* it.
LEMMA BreakerInvStep == BreakerInv /\ [Next]_vars => BreakerInv'
<1> SUFFICES ASSUME BreakerInv, [Next]_vars PROVE BreakerInv'
  OBVIOUS
<1> USE BreakerAssumption DEF BreakerInv, CountersAgree, OpenHasTime, counters
<1>1. CASE UNCHANGED vars
  BY <1>1 DEF vars, BreakerTypeOK
<1>2. CASE Mend
  BY <1>2 DEF Mend, BreakerTypeOK
<1>3. CASE Tick
  <2>1. recent' \in [bad : 0..MinSamples, calm : 0..(Window + 1)]
    BY <1>3 DEF Tick, Calmer, BreakerTypeOK
  <2>2. CASE ttl = 1
    BY <1>3, <2>1, <2>2 DEF Tick, BreakerTypeOK, NoTime, None, States
  <2>3. CASE ttl # 1
    BY <1>3, <2>1, <2>3 DEF Tick, BreakerTypeOK, Older, NoTime, KeyTTL
  <2> QED
    BY <2>2, <2>3
<1>4. ASSUME NEW p \in Procs, Admit(p) \/ Reject(p) \/ Record(p) \/ Drop(p)
      PROVE  BreakerInv'
  <2>p. pc' \in [Procs -> Steps]
    <3>1. UNCHANGED pc \/ \E step \in Steps : Goto(p, step)
      BY <1>4 DEF Admit, Reject, Record, Drop, HalfOpen, ReadOnSuccess,
         CountSuccess, Reset, CountFailure, Trip, Steps, vars
    <3> QED
      BY <3>1, StepTyped DEF BreakerTypeOK
  <2>1. CASE Admit(p) \/ Reject(p) \/ ReadOnSuccess(p) \/ Drop(p)
    BY <2>p, <2>1 DEF Admit, Reject, ReadOnSuccess, Drop, vars, BreakerTypeOK
  <2>2. CASE HalfOpen(p)
    <3>1. state' \in States /\ ttl' \in {NoTime} \cup 1..KeyTTL
      BY <2>2 DEF HalfOpen, BreakerTypeOK, KeyTTL, States
    <3>2. state' = "open" => state = "open"
      BY <2>2 DEF HalfOpen
    <3>3. UNCHANGED <<counters, openAge, recent, flaky>>
      BY <2>2 DEF HalfOpen
    <3> QED
      BY <2>p, <3>1, <3>2, <3>3 DEF BreakerTypeOK
  <2>3. CASE CountSuccess(p)
    BY <2>p, <2>3 DEF CountSuccess, BreakerTypeOK, KeyTTL
  <2>4. CASE Reset(p)
    <3>1. recent' \in [bad : 0..MinSamples, calm : 0..(Window + 1)]
      BY <2>4 DEF Reset, BreakerTypeOK
    <3>2. /\ state' = "closed" /\ openAge' = NoTime /\ ttl' = KeyTTL
          /\ failures' = 0 /\ successes' = 0 /\ total' = 0
      BY <2>4 DEF Reset
    <3>3. flaky' \in BOOLEAN
      BY <2>4 DEF Reset, BreakerTypeOK
    <3> QED
      BY <2>p, <3>1, <3>2, <3>3 DEF BreakerTypeOK, States, KeyTTL
  <2>5. CASE CountFailure(p)
    BY <2>p, <2>5 DEF CountFailure, BreakerTypeOK, KeyTTL
  <2>6. CASE Trip(p)
    BY <2>p, <2>6 DEF Trip, BreakerTypeOK, States, NoTime
  <2> QED
    BY <1>4, <2>1, <2>2, <2>3, <2>4, <2>5, <2>6 DEF Record
<1> QED
  BY <1>1, <1>2, <1>3, <1>4 DEF Next

\* Every field of the hash and of a request keeps its type, whatever is lost
\* and whenever the hash expires.
THEOREM BreakerTypes == Spec => []BreakerTypeOK
<1>1. BreakerInv => BreakerTypeOK
  BY DEF BreakerInv
<1> QED
  BY <1>1, BreakerInvInit, BreakerInvStep, PTL DEF Spec

\* The failure rate is always taken over counters that agree, and an open
\* circuit can always tell when it opened, so that it can close again.
THEOREM BreakerConsistent == Spec => [](CountersAgree /\ OpenHasTime)
<1>1. BreakerInv => CountersAgree /\ OpenHasTime
  BY DEF BreakerInv
<1> QED
  BY <1>1, BreakerInvInit, BreakerInvStep, PTL DEF Spec
=============================================================================
