--------------------------- MODULE LimiterProofs ----------------------------
(***************************************************************************)
(* The rate limiter bounds the requests and the tokens of a user, and of   *)
(* the gateway, for any number of concurrent calls and gateways, any window*)
(* and any limits: a record younger than the window is in both windows     *)
(* whatever clocks the scripts that cleaned them were given, so a script   *)
(* that admits a request has counted every record of the span.             *)
(***************************************************************************)
EXTENDS RateLimiter, FiniteSetTheorems, TLAPS

(***************************************************************************)
(* The inductive invariant                                                 *)
(***************************************************************************)

\* A script that is under way has a clock reading at most Lag old.
SentFresh(k) ==
    k.at = "sent" =>
        /\ k.who \in Identities /\ k.lim \in Limits /\ k.tok \in Tokens
        /\ k.clock \in 0..now /\ now <= k.clock + Lag

\* A record's score lags behind its time, and its time behind the clock.
LogTimed == \A e \in log : e.score <= e.real /\ e.real <= e.score + Lag /\ e.real <= now

\* No script has cleaned away a record that is younger than the window.
YoungKept ==
    \A e \in log : e.score > now - Window => e \in gwindow /\ e \in window[e.who]

\* What is logged of a request.
Records ==
    [id : Nat \ {0}, who : Identities, tok : Tokens, score : Nat, real : Nat]

LimiterInv ==
    /\ now \in Nat /\ log \subseteq Records /\ IsFiniteSet(log)
    /\ window \in [Identities -> SUBSET log] /\ gwindow \subseteq log
    /\ \A i \in Identities : \A e \in window[i] : e.who = i
    /\ DOMAIN call = Calls /\ call = [c \in Calls |-> call[c]]
    /\ \A c \in Calls : SentFresh(call[c])
    /\ LogTimed
    /\ YoungKept
    /\ UserRequestsBounded
    /\ GlobalRequestsBounded

(***************************************************************************)
(* Counting                                                                *)
(***************************************************************************)

\* A set with one element more than a subset of S has at most one element more
\* than S.
LEMMA OneMore ==
    ASSUME NEW S, IsFiniteSet(S), NEW T \in SUBSET S, NEW e, NEW N \in Nat,
           Cardinality(S) < N
    PROVE  Cardinality(T \cup {e}) <= N
<1>1. IsFiniteSet(T) /\ Cardinality(T) <= Cardinality(S)
  BY FS_Subset
<1>2. Cardinality(T) \in Nat /\ Cardinality(S) \in Nat
  BY <1>1, FS_CardinalityType
<1>3. Cardinality(T \cup {e}) = IF e \in T THEN Cardinality(T) ELSE Cardinality(T) + 1
  BY <1>1, FS_AddElement
<1> QED
  BY <1>1, <1>2, <1>3

\* A subset of a set with at most N elements has at most N elements.
LEMMA NoMore ==
    ASSUME NEW S, IsFiniteSet(S), NEW T \in SUBSET S, NEW N \in Nat,
           Cardinality(S) <= N
    PROVE  Cardinality(T) <= N
<1>1. IsFiniteSet(T) /\ Cardinality(T) <= Cardinality(S)
  BY FS_Subset
<1>2. Cardinality(T) \in Nat /\ Cardinality(S) \in Nat
  BY <1>1, FS_CardinalityType
<1> QED
  BY <1>1, <1>2

\* The records of a span that ends now are still in the window that a script
\* with a clock reading at most Lag old cleans.
LEMMA SpanInWindow ==
    ASSUME NEW S, S \subseteq log, log \subseteq Records, LogTimed, now \in Nat,
           NEW w, \A r \in S : r.score > now - Window => r \in w,
           NEW clock \in 0..now
    PROVE  During(S, now, Window - Lag) \subseteq Cleaned(w, clock)
<1> SUFFICES ASSUME NEW r \in During(S, now, Window - Lag)
             PROVE  r \in Cleaned(w, clock)
  OBVIOUS
<1>1. r \in S /\ r \in log /\ now - (Window - Lag) < r.real
  BY DEF During
<1>2. r.score \in Nat /\ r.real \in Nat /\ r.real <= r.score + Lag
  BY <1>1 DEF Records, LogTimed
<1>3. r.score > now - Window
  BY <1>1, <1>2, LimiterAssumption
<1>4. r.score > clock - Window
  BY <1>2, <1>3, LimiterAssumption
<1> QED
  BY <1>1, <1>3, <1>4 DEF Cleaned

\* The step of the count: when the window that was cleaned with a clock reading
\* at most Lag old holds all the young records of a set and fewer than N, the
\* set with one more record has at most N in any span shorter than the window
\* by the lag.
LEMMA SpanBounded ==
    ASSUME NEW S, S \subseteq log, IsFiniteSet(log), log \subseteq Records, LogTimed,
           now \in Nat, NEW w, w \subseteq log,
           \A r \in S : r.score > now - Window => r \in w,
           NEW clock \in 0..now, now <= clock + Lag,
           NEW N \in Nat, Cardinality(Cleaned(w, clock)) < N,
           \A t \in 0..now : Cardinality(During(S, t, Window - Lag)) <= N,
           NEW e, e.real = now,
           NEW t \in 0..now
    PROVE  Cardinality(During(S \cup {e}, t, Window - Lag)) <= N
<1>1. During(S \cup {e}, t, Window - Lag) \subseteq During(S, t, Window - Lag) \cup {e}
  BY DEF During
<1>2. IsFiniteSet(During(S, t, Window - Lag)) /\ IsFiniteSet(Cleaned(w, clock))
  BY FS_Subset DEF During, Cleaned
<1>3. CASE e \in During(S \cup {e}, t, Window - Lag)
  <2>1. t = now
    BY <1>3 DEF During
  <2>2. During(S, t, Window - Lag) \subseteq Cleaned(w, clock)
    BY <2>1, SpanInWindow
  <2>3. Cardinality(During(S, t, Window - Lag) \cup {e}) <= N
    BY <1>2, <2>2, OneMore
  <2>4. During(S \cup {e}, t, Window - Lag) = During(S, t, Window - Lag) \cup {e}
    BY <1>1, <1>3 DEF During
  <2> QED
    BY <2>3, <2>4
<1>4. CASE e \notin During(S \cup {e}, t, Window - Lag)
  <2>1. During(S \cup {e}, t, Window - Lag) \subseteq During(S, t, Window - Lag)
    BY <1>1, <1>4
  <2>2. Cardinality(During(S, t, Window - Lag)) <= N
    OBVIOUS
  <2> QED
    BY <1>2, <2>1, <2>2, NoMore
<1> QED
  BY <1>3, <1>4

(***************************************************************************)
(* The invariant is inductive                                              *)
(***************************************************************************)

LEMMA LimiterInit == Init => LimiterInv
<1> SUFFICES ASSUME Init PROVE LimiterInv
  OBVIOUS
<1>1. log = {} /\ now = 0 /\ IsFiniteSet(log)
  BY FS_EmptySet DEF Init
<1>2. \A c \in Calls : SentFresh(call[c])
  BY DEF Init, SentFresh, Idle
<1>3. UserRequestsBounded
  <2> SUFFICES ASSUME NEW i \in Identities, NEW t \in 0..now
               PROVE  Cardinality(During(Of(i), t, Window - Lag)) <= MaxReq
    BY DEF UserRequestsBounded
  <2>1. During(Of(i), t, Window - Lag) = {}
    BY <1>1 DEF During, Of
  <2>2. Cardinality({}) = 0
    BY FS_EmptySet
  <2>3. Cardinality(During(Of(i), t, Window - Lag)) = 0
    BY <2>1, <2>2, Zenon
  <2> QED
    BY <2>3, LimiterAssumption
<1>4. GlobalRequestsBounded
  <2> SUFFICES ASSUME GlobalReq > 0, NEW t \in 0..now
               PROVE  Cardinality(During(log, t, Window - Lag)) <= GlobalReq
    BY DEF GlobalRequestsBounded
  <2>1. During(log, t, Window - Lag) = {}
    BY <1>1 DEF During
  <2>2. Cardinality({}) = 0
    BY FS_EmptySet
  <2> QED
    BY <2>1, <2>2, LimiterAssumption
<1> QED
  BY <1>1, <1>2, <1>3, <1>4 DEF LimiterInv, Init, LogTimed, YoungKept

\* A step that leaves the log, the windows and the clock alone and only moves
\* calls that do not send a script.
LEMMA CallMoves ==
    ASSUME LimiterInv, UNCHANGED <<window, gwindow, log, now>>,
           NEW c \in Calls, NEW k, call' = [call EXCEPT ![c] = k], SentFresh(k)
    PROVE  LimiterInv'
<1>1. \A d \in Calls : SentFresh(call'[d])
  BY DEF LimiterInv
<1>2. \A d \in Calls : SentFresh(call[d])'
  BY <1>1 DEF SentFresh
<1>3. DOMAIN call' = Calls /\ call' = [d \in Calls |-> call'[d]]
  BY DEF LimiterInv
<1> QED
  BY <1>2, <1>3 DEF LimiterInv, LogTimed, YoungKept, UserRequestsBounded,
     GlobalRequestsBounded, Of, During

\* A clock step: the spans that end now contain no record that the spans that
\* ended a moment ago did not.
LEMMA TickKeeps == LimiterInv /\ Tick => LimiterInv'
<1> SUFFICES ASSUME LimiterInv, Tick PROVE LimiterInv'
  OBVIOUS
<1>1. now \in Nat /\ now' = now + 1 /\ UNCHANGED <<window, gwindow, log, call>>
  BY DEF LimiterInv, Tick
<1>2. \A c \in Calls : SentFresh(call[c])'
  BY <1>1 DEF LimiterInv, Tick, SentFresh
<1>3. LogTimed'
  <2> SUFFICES ASSUME NEW e \in log
               PROVE  e.score <= e.real /\ e.real <= e.score + Lag /\ e.real <= now + 1
    BY <1>1 DEF LogTimed
  <2>1. e.real \in Nat
    BY DEF LimiterInv, Records
  <2> QED
    BY <1>1, <2>1 DEF LimiterInv, LogTimed
<1>4. YoungKept'
  <2> SUFFICES ASSUME NEW e \in log', e.score > now' - Window
               PROVE  e \in gwindow' /\ e \in window'[e.who]
    BY DEF YoungKept
  <2>1. e \in log /\ e.score \in Nat
    BY <1>1 DEF LimiterInv, Records
  <2>2. e.score > now - Window
    BY <1>1, <2>1, LimiterAssumption
  <2>3. e \in gwindow /\ e \in window[e.who]
    BY <2>1, <2>2 DEF LimiterInv, YoungKept
  <2> QED
    BY <1>1, <2>3
<1>5. ASSUME NEW S, S \subseteq log, NEW N \in Nat,
             \A t \in 0..now : Cardinality(During(S, t, Window - Lag)) <= N,
             NEW t \in 0..now + 1
      PROVE  Cardinality(During(S, t, Window - Lag)) <= N
  <2>1. CASE t \in 0..now
    BY <1>5, <2>1
  <2>2. CASE t = now + 1
    <3>1. During(S, t, Window - Lag) \subseteq During(S, now, Window - Lag)
      <4> SUFFICES ASSUME NEW e \in S, t - (Window - Lag) < e.real, e.real <= t
                   PROVE  now - (Window - Lag) < e.real /\ e.real <= now
        BY DEF During
      <4>1. e.real \in Nat /\ e.real <= now
        BY <1>5 DEF LimiterInv, Records, LogTimed
      <4> QED
        BY <1>1, <2>2, <4>1, LimiterAssumption
    <3>2. IsFiniteSet(During(S, now, Window - Lag))
      <4>1. During(S, now, Window - Lag) \subseteq log
        BY <1>5 DEF During
      <4> QED
        BY <4>1, FS_Subset DEF LimiterInv
    <3>3. Cardinality(During(S, now, Window - Lag)) <= N
      BY <1>1, <1>5
    <3> QED
      BY <3>1, <3>2, <3>3, NoMore
  <2> QED
    BY <1>1, <1>5, <2>1, <2>2
<1>6. UserRequestsBounded'
  <2> SUFFICES ASSUME NEW i \in Identities, NEW t \in 0..now + 1
               PROVE  Cardinality(During(Of(i), t, Window - Lag)) <= MaxReq
    BY <1>1 DEF UserRequestsBounded, Of, During
  <2>1. Of(i) \subseteq log /\ MaxReq \in Nat
    BY LimiterAssumption DEF Of
  <2>2. \A u \in 0..now : Cardinality(During(Of(i), u, Window - Lag)) <= MaxReq
    BY DEF LimiterInv, UserRequestsBounded
  <2> QED
    BY <1>5, <2>1, <2>2
<1>7. GlobalRequestsBounded'
  <2> SUFFICES ASSUME GlobalReq > 0, NEW t \in 0..now + 1
               PROVE  Cardinality(During(log, t, Window - Lag)) <= GlobalReq
    BY <1>1 DEF GlobalRequestsBounded, During
  <2>1. \A u \in 0..now : Cardinality(During(log, u, Window - Lag)) <= GlobalReq
    BY DEF LimiterInv, GlobalRequestsBounded
  <2> QED
    BY <1>5, <2>1, LimiterAssumption
<1> QED
  BY <1>1, <1>2, <1>3, <1>4, <1>6, <1>7 DEF LimiterInv

\* A script that denies only cleans windows, of records that are old.
LEMMA DenyKeeps ==
    ASSUME LimiterInv, NEW c \in Calls, call[c].at = "sent",
           window' = [window EXCEPT ![call[c].who] =
                         Cleaned(window[call[c].who], call[c].clock)],
           gwindow' = Cleaned(gwindow, call[c].clock),
           call' = [call EXCEPT ![c] = Idle],
           UNCHANGED <<log, now>>
    PROVE  LimiterInv'
<1> DEFINE k == call[c]
<1>1. SentFresh(k) /\ k.who \in Identities /\ k.clock \in 0..now
  BY DEF LimiterInv, SentFresh
<1>2. window' \in [Identities -> SUBSET log] /\ gwindow' \subseteq log
  BY <1>1 DEF LimiterInv, Cleaned
<1>3. \A i \in Identities : window'[i] \subseteq window[i]
  BY <1>1 DEF LimiterInv, Cleaned
<1>4. YoungKept'
  <2> SUFFICES ASSUME NEW e \in log, e.score > now - Window
               PROVE  e \in gwindow' /\ e \in window'[e.who]
    BY DEF YoungKept
  <2>1. e.score \in Nat /\ e.who \in Identities
    BY DEF LimiterInv, Records
  <2>2. e.score > k.clock - Window
    BY <1>1, <2>1, LimiterAssumption DEF LimiterInv
  <2>3. e \in gwindow /\ e \in window[e.who]
    BY DEF LimiterInv, YoungKept
  <2> QED
    BY <1>1, <2>1, <2>2, <2>3 DEF LimiterInv, Cleaned
<1>5. DOMAIN call' = Calls /\ call' = [d \in Calls |-> call'[d]]
  BY DEF LimiterInv
<1>6. \A d \in Calls : SentFresh(call[d])'
  BY DEF LimiterInv, SentFresh, Idle
<1>7. \A i \in Identities : \A e \in window'[i] : e.who = i
  BY <1>3 DEF LimiterInv
<1> QED
  BY <1>2, <1>4, <1>5, <1>6, <1>7
     DEF LimiterInv, LogTimed, UserRequestsBounded, GlobalRequestsBounded, Of, During

\* A script that admits adds one record to the log and to both windows, each of
\* which had room for it.
LEMMA AdmitKeeps ==
    ASSUME LimiterInv, NEW c \in Calls, call[c].at = "sent",
           NEW e, e = [id |-> Cardinality(log) + 1, who |-> call[c].who,
                       tok |-> call[c].tok, score |-> call[c].clock, real |-> now],
           Permitted(call[c].who, call[c].lim, call[c].tok,
                     Cleaned(window[call[c].who], call[c].clock),
                     Cleaned(gwindow, call[c].clock)),
           window' = [window EXCEPT ![call[c].who] =
                         Cleaned(window[call[c].who], call[c].clock) \cup {e}],
           gwindow' = Cleaned(gwindow, call[c].clock) \cup {e},
           call' = [call EXCEPT ![c] = Running(call[c].who, e.id)],
           log' = log \cup {e}, now' = now
    PROVE  LimiterInv'
<1> DEFINE k == call[c]
<1>1. /\ SentFresh(k) /\ k.who \in Identities /\ k.lim \in Limits /\ k.tok \in Tokens
      /\ k.clock \in 0..now /\ now <= k.clock + Lag
  BY DEF LimiterInv, SentFresh
<1>2. now \in Nat /\ k.clock \in Nat /\ k.clock <= now
  BY <1>1 DEF LimiterInv
<1>3. IsFiniteSet(log) /\ Cardinality(log) \in Nat
  BY FS_CardinalityType DEF LimiterInv
<1>4. e \in Records
  BY <1>1, <1>2, <1>3 DEF Records
<1>5. IsFiniteSet(log')
  BY <1>3, FS_AddElement
<1>6. log' \subseteq Records
  BY <1>4 DEF LimiterInv
<1>7. window' \in [Identities -> SUBSET log'] /\ gwindow' \subseteq log'
  BY <1>1 DEF LimiterInv, Cleaned
<1>8. \A i \in Identities : \A r \in window'[i] : r.who = i
  BY <1>1 DEF LimiterInv, Cleaned
<1>9. LogTimed'
  BY <1>1, <1>2, LimiterAssumption DEF LimiterInv, LogTimed
<1>10. YoungKept'
  <2> SUFFICES ASSUME NEW r \in log', r.score > now - Window
               PROVE  r \in gwindow' /\ r \in window'[r.who]
    BY DEF YoungKept
  <2>1. CASE r = e
    BY <1>1, <2>1 DEF LimiterInv
  <2>2. CASE r \in log
    <3>1. r.score \in Nat /\ r.who \in Identities
      BY <2>2 DEF LimiterInv, Records
    <3>2. r.score > k.clock - Window
      BY <1>2, <3>1, LimiterAssumption
    <3>3. r \in gwindow /\ r \in window[r.who]
      BY <2>2 DEF LimiterInv, YoungKept
    <3> QED
      BY <1>1, <3>1, <3>2, <3>3 DEF LimiterInv, Cleaned
  <2> QED
    BY <2>1, <2>2
<1>11. UserRequestsBounded'
  <2> SUFFICES ASSUME NEW i \in Identities, NEW t \in 0..now
               PROVE  Cardinality(During(Of(i)', t, Window - Lag)) <= MaxReq
    BY <1>2 DEF UserRequestsBounded, During, Of
  <2>1. \A u \in 0..now : Cardinality(During(Of(i), u, Window - Lag)) <= MaxReq
    BY DEF LimiterInv, UserRequestsBounded
  <2>2. CASE i = k.who
    <3>1. Of(i)' = Of(i) \cup {e}
      BY <2>2 DEF Of
    <3>2. Of(i) \subseteq log /\ window[i] \subseteq log
      BY DEF Of, LimiterInv
    <3>3. \A r \in Of(i) : r.score > now - Window => r \in window[i]
      BY DEF Of, LimiterInv, YoungKept
    <3>4. k.lim.req \in Nat /\ k.lim.req <= MaxReq /\ MaxReq \in Nat
      BY <1>1, LimiterAssumption
    <3>5. IsFiniteSet(Cleaned(window[i], k.clock))
      BY <1>3, <3>2, FS_Subset DEF Cleaned
    <3>6. Cardinality(Cleaned(window[i], k.clock)) \in Nat
      BY <3>5, FS_CardinalityType
    <3>7. Cardinality(Cleaned(window[i], k.clock)) < k.lim.req
      BY <2>2 DEF Permitted
    <3>8. Cardinality(Cleaned(window[i], k.clock)) < MaxReq
      BY <3>4, <3>6, <3>7
    <3>9. LogTimed /\ log \subseteq Records /\ e.real = now
      BY DEF LimiterInv
    <3> QED
      BY <1>1, <1>2, <1>3, <2>1, <3>1, <3>2, <3>3, <3>4, <3>8, <3>9, SpanBounded
  <2>3. CASE i # k.who
    <3>1. Of(i)' = Of(i)
      BY <2>3 DEF Of
    <3> QED
      BY <2>1, <3>1
  <2> QED
    BY <2>2, <2>3
<1>12. GlobalRequestsBounded'
  <2> SUFFICES ASSUME GlobalReq > 0, NEW t \in 0..now
               PROVE  Cardinality(During(log', t, Window - Lag)) <= GlobalReq
    BY <1>2 DEF GlobalRequestsBounded, During
  <2>1. \A u \in 0..now : Cardinality(During(log, u, Window - Lag)) <= GlobalReq
    BY DEF LimiterInv, GlobalRequestsBounded
  <2>2. Cardinality(Cleaned(gwindow, k.clock)) < GlobalReq
    BY DEF Permitted
  <2>3. \A r \in log : r.score > now - Window => r \in gwindow
    BY DEF LimiterInv, YoungKept
  <2>4. LogTimed /\ log \subseteq Records /\ e.real = now /\ gwindow \subseteq log
    BY DEF LimiterInv
  <2>5. GlobalReq \in Nat
    BY LimiterAssumption
  <2> QED
    BY <1>1, <1>2, <1>3, <2>1, <2>2, <2>3, <2>4, <2>5, SpanBounded
<1>13. DOMAIN call' = Calls /\ call' = [d \in Calls |-> call'[d]]
  BY DEF LimiterInv
<1>14. \A d \in Calls : SentFresh(call[d])'
  BY DEF LimiterInv, SentFresh, Running
<1> QED
  BY <1>2, <1>5, <1>6, <1>7, <1>8, <1>9, <1>10, <1>11, <1>12, <1>13, <1>14
     DEF LimiterInv

LEMMA LimiterStep == LimiterInv /\ [Next]_vars => LimiterInv'
<1> SUFFICES ASSUME LimiterInv, [Next]_vars PROVE LimiterInv'
  OBVIOUS
<1>1. CASE UNCHANGED vars
  BY <1>1 DEF vars, LimiterInv, SentFresh, LogTimed, YoungKept, UserRequestsBounded,
     GlobalRequestsBounded, Of, During
<1>2. CASE Tick
  BY <1>2, TickKeeps
<1>3. ASSUME NEW c \in Calls, Allow(c) PROVE LimiterInv'
  <2>1. PICK i \in Identities, lim \in Limits, tok \in Tokens :
           call' = [call EXCEPT ![c] = Sent(i, lim, tok, now)]
    BY <1>3 DEF Allow
  <2>2. now \in 0..now /\ now <= now + Lag
    BY LimiterAssumption DEF LimiterInv
  <2>3. SentFresh(Sent(i, lim, tok, now))
    BY <2>2 DEF SentFresh, Sent
  <2> QED
    BY <1>3, <2>1, <2>3, CallMoves DEF Allow
<1>4. ASSUME NEW c \in Calls, FailOpen(c) PROVE LimiterInv'
  BY <1>4, CallMoves DEF FailOpen, SentFresh, Running
<1>5. ASSUME NEW c \in Calls, Complete(c) PROVE LimiterInv'
  BY <1>5, CallMoves DEF Complete, SentFresh, Idle
<1>6. ASSUME NEW c \in Calls, Script(c) PROVE LimiterInv'
  <2> DEFINE k == call[c]
             own == Cleaned(window[k.who], k.clock)
             all == Cleaned(gwindow, k.clock)
             e == [id |-> Cardinality(log) + 1, who |-> k.who, tok |-> k.tok,
                   score |-> k.clock, real |-> now]
  <2>1. CASE Permitted(k.who, k.lim, k.tok, own, all)
    BY <1>6, <2>1, AdmitKeeps DEF Script
  <2>2. CASE ~Permitted(k.who, k.lim, k.tok, own, all)
    BY <1>6, <2>2, DenyKeeps DEF Script
  <2> QED
    BY <2>1, <2>2
<1> QED
  BY <1>1, <1>2, <1>3, <1>4, <1>5, <1>6 DEF Next

(***************************************************************************)
(* The theorems                                                            *)
(***************************************************************************)

\* The inductive invariant holds in every reachable state.
THEOREM LimiterInvariant == Spec => []LimiterInv
BY LimiterInit, LimiterStep, PTL DEF Spec

\* For any number of calls and gateways, any limits and any lag of the clocks
\* below the window, no user gets more requests through than the limit, and all
\* users no more than the cap, in any span shorter than the window by the lag.
THEOREM RequestsAlwaysBounded == Spec => []RequestsBounded
<1>1. LimiterInv => RequestsBounded
  BY DEF LimiterInv, RequestsBounded
<1> QED
  BY <1>1, LimiterInvariant, PTL

(***************************************************************************)
(* Tokens                                                                  *)
(***************************************************************************)

\* A finite set of records has finitely many tokens.
LEMMA TokensFinite ==
    ASSUME NEW S, S \subseteq Records, IsFiniteSet(S)
    PROVE  IsFiniteSet(TokensOf(S)) /\ Spent(S) \in Nat
<1> DEFINE f == [e \in S |-> {e} \X (1..e.tok)]
           P == {{e} \X (1..e.tok) : e \in S}
<1>1. f \in Surjection(S, P)
  BY DEF Surjection
<1>2. IsFiniteSet(P)
  BY <1>1, FS_Surjection
<1>3. ASSUME NEW e \in S PROVE IsFiniteSet({e} \X (1..e.tok))
  <2> HIDE DEF f, P
  <2>1. e \in Records
    OBVIOUS
  <2>2. e.tok \in Nat
    BY <2>1, LimiterAssumption DEF Records
  <2>3. e.tok \in Int /\ 1 \in Int
    BY <2>2
  <2>4. IsFiniteSet(1..e.tok)
    BY <2>3, FS_Interval
  <2>5. IsFiniteSet({e})
    BY FS_Singleton
  <2> QED
    BY <2>4, <2>5, FS_Product, Zenon
<1>4. IsFiniteSet(UNION P)
  BY <1>2, <1>3, FS_UNION
<1> QED
  BY <1>4, FS_CardinalityType DEF TokensOf, Spent

\* Fewer records have no more tokens.
LEMMA NoMoreTokens ==
    ASSUME NEW S, S \subseteq Records, IsFiniteSet(S), NEW T \in SUBSET S
    PROVE  Spent(T) <= Spent(S)
<1>1. TokensOf(T) \subseteq TokensOf(S)
  BY DEF TokensOf
<1> QED
  BY <1>1, TokensFinite, FS_Subset DEF Spent

\* One more record has its own tokens more, or none if it is there already.
LEMMA OneMoreRecord ==
    ASSUME NEW S, S \subseteq Records, IsFiniteSet(S), NEW e \in Records
    PROVE  Spent(S \cup {e}) <= Spent(S) + e.tok
<1> DEFINE own == {e} \X (1..e.tok)
<1>1. e.tok \in Nat
  BY LimiterAssumption DEF Records
<1>2. IsFiniteSet(1..e.tok) /\ Cardinality(1..e.tok) = e.tok
  BY <1>1, FS_Interval
<1>3. IsFiniteSet({e}) /\ Cardinality({e}) = 1
  BY FS_Singleton
<1>4. IsFiniteSet(own) /\ Cardinality(own) = 1 * e.tok
  <2> DEFINE one == {e}
             numbers == 1..e.tok
  <2>1. IsFiniteSet(one) /\ Cardinality(one) = 1 /\ IsFiniteSet(numbers) /\ Cardinality(numbers) = e.tok
    BY <1>2, <1>3
  <2>2. own = one \X numbers
    OBVIOUS
  <2> HIDE DEF own, one, numbers
  <2>3. IsFiniteSet(one \X numbers) /\ Cardinality(one \X numbers) = Cardinality(one) * Cardinality(numbers)
    BY <2>1, FS_Product, Zenon
  <2> QED
    BY <2>1, <2>2, <2>3, Zenon
<1>5. TokensOf(S \cup {e}) = TokensOf(S) \cup own
  BY DEF TokensOf
<1>6. IsFiniteSet(TokensOf(S)) /\ Spent(S) \in Nat
  BY TokensFinite
<1> HIDE DEF own
<1>7. Cardinality(TokensOf(S) \cup own)
        = Cardinality(TokensOf(S)) + Cardinality(own) - Cardinality(TokensOf(S) \cap own)
  BY <1>4, <1>6, FS_Union
<1>8. IsFiniteSet(TokensOf(S) \cap own)
  BY <1>4, FS_Subset
<1>9. Cardinality(TokensOf(S) \cap own) \in Nat
  BY <1>8, FS_CardinalityType
<1>10. Cardinality(own) = e.tok
  BY <1>1, <1>4
<1>11. Spent(S \cup {e})
        = Spent(S) + Cardinality(own) - Cardinality(TokensOf(S) \cap own)
  BY <1>5, <1>7, Zenon DEF Spent
<1> QED
  BY <1>1, <1>6, <1>9, <1>10, <1>11

\* What SpanBounded says of requests, for tokens.
LEMMA SpanSpends ==
    ASSUME NEW S, S \subseteq log, IsFiniteSet(log), log \subseteq Records, LogTimed,
           now \in Nat, NEW w, w \subseteq log,
           \A r \in S : r.score > now - Window => r \in w,
           NEW clock \in 0..now, NEW e \in Records, e.real = now,
           NEW N \in Nat, Spent(Cleaned(w, clock)) + e.tok <= N,
           \A t \in 0..now : Spent(During(S, t, Window - Lag)) <= N,
           NEW t \in 0..now
    PROVE  Spent(During(S \cup {e}, t, Window - Lag)) <= N
<1> DEFINE D == During(S, t, Window - Lag)
           C == Cleaned(w, clock)
<1>1. D \subseteq log /\ C \subseteq log
  BY DEF During, Cleaned
<1>2. /\ IsFiniteSet(D) /\ D \subseteq Records
      /\ IsFiniteSet(C) /\ C \subseteq Records
  BY <1>1, FS_Subset
<1>3. Spent(D) \in Nat /\ Spent(C) \in Nat /\ e.tok \in Nat
  BY <1>2, TokensFinite, LimiterAssumption DEF Records
<1>4. CASE t = now
  <2>1. D \subseteq C
    BY <1>4, SpanInWindow
  <2>2. Spent(D) <= Spent(C)
    BY <1>2, <2>1, NoMoreTokens
  <2>3. Spent(D \cup {e}) <= Spent(D) + e.tok
    BY <1>2, OneMoreRecord
  <2>4. During(S \cup {e}, t, Window - Lag) \subseteq D \cup {e}
    BY DEF During
  <2>5. IsFiniteSet(D \cup {e}) /\ D \cup {e} \subseteq Records
    BY <1>2, FS_AddElement
  <2>6. Spent(D \cup {e}) \in Nat
    BY <2>5, TokensFinite
  <2>7. Spent(During(S \cup {e}, t, Window - Lag)) <= Spent(D \cup {e})
    BY <2>4, <2>5, NoMoreTokens
  <2>8. Spent(During(S \cup {e}, t, Window - Lag)) \in Nat
    <3>1. IsFiniteSet(During(S \cup {e}, t, Window - Lag))
      BY <2>4, <2>5, FS_Subset
    <3> QED
      BY <2>4, <2>5, <3>1, TokensFinite
  <2>9. Spent(C) + e.tok <= N
    OBVIOUS
  <2> HIDE DEF D, C
  <2> QED
    BY <1>3, <2>2, <2>3, <2>6, <2>7, <2>8, <2>9
<1>5. CASE t # now
  <2>1. During(S \cup {e}, t, Window - Lag) = D
    BY <1>5 DEF During
  <2> QED
    BY <2>1
<1> QED
  BY <1>4, <1>5

\* The bounds need no more than LimiterInv, and are kept beside it.
TokenInv == UserTokensBounded /\ GlobalTokensBounded

\* No tokens are spent at first.
LEMMA TokenInit == Init => TokenInv
<1> SUFFICES ASSUME Init PROVE TokenInv
  OBVIOUS
<1>1. \A t : During({}, t, Window - Lag) = {}
  BY DEF During
<1>2. TokensOf({}) = {}
  BY DEF TokensOf
<1>3. Spent({}) = 0
  BY <1>2, FS_EmptySet, Zenon DEF Spent
<1>4. log = {} /\ \A i \in Identities : Of(i) = {}
  BY DEF Init, Of
<1>5. UserTokensBounded
  <2> SUFFICES ASSUME NEW i \in Identities, NEW t \in 0..now
               PROVE  Spent(During(Of(i), t, Window - Lag)) <= MaxTok
    BY DEF UserTokensBounded
  <2>1. Spent(During(Of(i), t, Window - Lag)) = 0
    BY <1>1, <1>3, <1>4, Zenon
  <2> QED
    BY <2>1, LimiterAssumption
<1>6. GlobalTokensBounded
  <2> SUFFICES ASSUME GlobalTok > 0, NEW t \in 0..now
               PROVE  Spent(During(log, t, Window - Lag)) <= GlobalTok
    BY DEF GlobalTokensBounded
  <2>1. Spent(During(log, t, Window - Lag)) = 0
    BY <1>1, <1>3, <1>4, Zenon
  <2> QED
    BY <2>1, LimiterAssumption
<1> QED
  BY <1>5, <1>6 DEF TokenInv

\* A clock step: the spans that end now hold no records that the spans that
\* ended a moment ago did not.
LEMMA TokenTick == LimiterInv /\ TokenInv /\ Tick => TokenInv'
<1> SUFFICES ASSUME LimiterInv, TokenInv, Tick PROVE TokenInv'
  OBVIOUS
<1>1. now \in Nat /\ now' = now + 1 /\ log' = log
  BY DEF LimiterInv, Tick
<1>2. ASSUME NEW S, S \subseteq log, NEW N \in Nat,
             \A t \in 0..now : Spent(During(S, t, Window - Lag)) <= N,
             NEW t \in 0..now + 1
      PROVE  Spent(During(S, t, Window - Lag)) <= N
  <2>1. CASE t \in 0..now
    BY <1>2, <2>1
  <2>2. CASE t = now + 1
    <3> DEFINE D == During(S, now, Window - Lag)
               E == During(S, t, Window - Lag)
    <3>1. E \subseteq D
      <4> SUFFICES ASSUME NEW e \in S, t - (Window - Lag) < e.real, e.real <= t
                   PROVE  now - (Window - Lag) < e.real /\ e.real <= now
        BY DEF During
      <4>1. e.real \in Nat /\ e.real <= now
        BY <1>2 DEF LimiterInv, Records, LogTimed
      <4> QED
        BY <1>1, <2>2, <4>1, LimiterAssumption
    <3>2. D \subseteq log
      BY <1>2 DEF During
    <3>3. D \subseteq Records /\ IsFiniteSet(D)
      BY <3>2, FS_Subset DEF LimiterInv
    <3>4. Spent(E) <= Spent(D) /\ Spent(D) \in Nat
      BY <3>1, <3>3, NoMoreTokens, TokensFinite
    <3>5. Spent(E) \in Nat
      <4>1. IsFiniteSet(E)
        BY <3>1, <3>3, FS_Subset
      <4> QED
        BY <3>1, <3>3, <4>1, TokensFinite
    <3>6. Spent(D) <= N
      BY <1>1, <1>2
    <3> HIDE DEF D, E
    <3>7. Spent(E) <= N
      BY <3>4, <3>5, <3>6
    <3> QED
      BY <3>7 DEF E
  <2> QED
    BY <1>1, <1>2, <2>1, <2>2
<1>3. UserTokensBounded'
  <2> SUFFICES ASSUME NEW i \in Identities, NEW t \in 0..now + 1
               PROVE  Spent(During(Of(i), t, Window - Lag)) <= MaxTok
    BY <1>1 DEF UserTokensBounded, Of, During, Spent, TokensOf
  <2>1. Of(i) \subseteq log /\ MaxTok \in Nat
    BY LimiterAssumption DEF Of
  <2>2. \A u \in 0..now : Spent(During(Of(i), u, Window - Lag)) <= MaxTok
    BY DEF TokenInv, UserTokensBounded
  <2> QED
    BY <1>2, <2>1, <2>2
<1>4. GlobalTokensBounded'
  <2> SUFFICES ASSUME GlobalTok > 0, NEW t \in 0..now + 1
               PROVE  Spent(During(log, t, Window - Lag)) <= GlobalTok
    BY <1>1 DEF GlobalTokensBounded, During, Spent, TokensOf
  <2>1. \A u \in 0..now : Spent(During(log, u, Window - Lag)) <= GlobalTok
    BY DEF TokenInv, GlobalTokensBounded
  <2> QED
    BY <1>2, <2>1, LimiterAssumption
<1> QED
  BY <1>3, <1>4 DEF TokenInv

\* A script that admits a request has counted the tokens of every record of the
\* spans that end now.
LEMMA TokenAdmit ==
    ASSUME LimiterInv, TokenInv, NEW c \in Calls, call[c].at = "sent",
           NEW e, e = [id |-> Cardinality(log) + 1, who |-> call[c].who,
                       tok |-> call[c].tok, score |-> call[c].clock, real |-> now],
           Permitted(call[c].who, call[c].lim, call[c].tok,
                     Cleaned(window[call[c].who], call[c].clock),
                     Cleaned(gwindow, call[c].clock)),
           log' = log \cup {e}, now' = now
    PROVE  TokenInv'
<1> DEFINE k == call[c]
<1>1. /\ k.who \in Identities /\ k.lim \in Limits /\ k.tok \in Tokens
      /\ k.clock \in 0..now /\ now \in Nat
  BY DEF LimiterInv, SentFresh
<1>2. IsFiniteSet(log) /\ Cardinality(log) \in Nat /\ log \subseteq Records /\ LogTimed
  BY FS_CardinalityType DEF LimiterInv
<1>3. e \in Records /\ e.real = now /\ e.tok = k.tok
  BY <1>1, <1>2 DEF Records
<1>4. UserTokensBounded'
  <2> SUFFICES ASSUME NEW i \in Identities, NEW t \in 0..now
               PROVE  Spent(During(Of(i)', t, Window - Lag)) <= MaxTok
    BY <1>1 DEF UserTokensBounded, During, Of, Spent, TokensOf
  <2>1. \A u \in 0..now : Spent(During(Of(i), u, Window - Lag)) <= MaxTok
    BY DEF TokenInv, UserTokensBounded
  <2>2. CASE i = k.who
    <3>1. Of(i)' = Of(i) \cup {e}
      BY <2>2 DEF Of
    <3>2. Of(i) \subseteq log /\ window[i] \subseteq log
      BY DEF Of, LimiterInv
    <3>3. \A r \in Of(i) : r.score > now - Window => r \in window[i]
      BY DEF Of, LimiterInv, YoungKept
    <3>4. k.lim.tok \in Nat /\ k.lim.tok <= MaxTok /\ MaxTok \in Nat
      BY <1>1, LimiterAssumption
    <3>5. Cleaned(window[i], k.clock) \subseteq log
      BY <3>2 DEF Cleaned
    <3>6. Spent(Cleaned(window[i], k.clock)) \in Nat /\ e.tok \in Nat
      <4>1. IsFiniteSet(Cleaned(window[i], k.clock))
        BY <1>2, <3>5, FS_Subset
      <4> QED
        BY <1>2, <1>3, <3>5, <4>1, TokensFinite, LimiterAssumption DEF Records
    <3>7. Spent(Cleaned(window[i], k.clock)) + e.tok <= k.lim.tok
      BY <1>3, <2>2 DEF Permitted
    <3>8. Spent(Cleaned(window[i], k.clock)) + e.tok <= MaxTok
      BY <3>4, <3>6, <3>7
    <3> QED
      BY <1>1, <1>2, <1>3, <2>1, <3>1, <3>2, <3>3, <3>4, <3>8, SpanSpends
  <2>3. CASE i # k.who
    <3>1. Of(i)' = Of(i)
      BY <2>3 DEF Of
    <3> QED
      BY <2>1, <3>1
  <2> QED
    BY <2>2, <2>3
<1>5. GlobalTokensBounded'
  <2> SUFFICES ASSUME GlobalTok > 0, NEW t \in 0..now
               PROVE  Spent(During(log', t, Window - Lag)) <= GlobalTok
    BY <1>1 DEF GlobalTokensBounded, During, Spent, TokensOf
  <2>1. \A u \in 0..now : Spent(During(log, u, Window - Lag)) <= GlobalTok
    BY DEF TokenInv, GlobalTokensBounded
  <2>2. Spent(Cleaned(gwindow, k.clock)) + e.tok <= GlobalTok
    BY <1>3 DEF Permitted
  <2>3. \A r \in log : r.score > now - Window => r \in gwindow
    BY DEF LimiterInv, YoungKept
  <2>4. GlobalTok \in Nat /\ gwindow \subseteq log
    BY LimiterAssumption DEF LimiterInv
  <2> QED
    BY <1>1, <1>2, <1>3, <2>1, <2>2, <2>3, <2>4, SpanSpends
<1> QED
  BY <1>4, <1>5 DEF TokenInv

\* Every step keeps the bounds on the tokens.
LEMMA TokenStep == LimiterInv /\ TokenInv /\ [Next]_vars => TokenInv'
<1> SUFFICES ASSUME LimiterInv, TokenInv, [Next]_vars PROVE TokenInv'
  OBVIOUS
<1>1. CASE UNCHANGED <<log, now>>
  BY <1>1 DEF TokenInv, UserTokensBounded, GlobalTokensBounded, Of, During, Spent, TokensOf
<1>2. CASE Tick
  BY <1>2, TokenTick
<1>3. ASSUME NEW c \in Calls, Script(c) PROVE TokenInv'
  <2> DEFINE k == call[c]
             own == Cleaned(window[k.who], k.clock)
             all == Cleaned(gwindow, k.clock)
  <2>1. CASE Permitted(k.who, k.lim, k.tok, own, all)
    BY <1>3, <2>1, TokenAdmit DEF Script
  <2>2. CASE ~Permitted(k.who, k.lim, k.tok, own, all)
    BY <1>1, <1>3, <2>2 DEF Script
  <2> QED
    BY <2>1, <2>2
<1> QED
  BY <1>1, <1>2, <1>3 DEF Next, Allow, FailOpen, Complete, vars

\* The same for tokens: no user spends more than the largest limit, and all
\* users together no more than the cap of the gateway, in any span shorter than
\* the window by the lag, whatever the order of the scripts.
THEOREM TokensAlwaysBounded == Spec => []TokensBounded
<1>1. TokenInv => TokensBounded
  BY DEF TokenInv, TokensBounded
<1> QED
  BY <1>1, TokenInit, TokenStep, LimiterInvariant, PTL DEF Spec
(***************************************************************************)
(* Denials end                                                             *)
(***************************************************************************)

\* The sets of concurrent requests expire ConcTTL after a recorded request.
ConcInv ==
    /\ now \in Nat
    /\ conc \in [Identities -> SUBSET (Nat \ {0})] /\ concEnd \in [Identities -> Nat]
    /\ \A i \in Identities : conc[i] # {} =>
          /\ now < concEnd[i]
          /\ \E e \in log : e.who = i /\ concEnd[i] = e.real + ConcTTL

LEMMA ConcStep == LimiterInv /\ ConcInv /\ [Next]_vars => ConcInv'
<1> SUFFICES ASSUME LimiterInv, ConcInv, [Next]_vars PROVE ConcInv'
  OBVIOUS
<1>1. CASE UNCHANGED <<conc, concEnd, log, now>>
  BY <1>1 DEF ConcInv
<1>2. CASE Tick
  <2>1. now' \in Nat /\ now' = now + 1 /\ UNCHANGED <<concEnd, log>>
    BY <1>2 DEF ConcInv, Tick
  <2>2. conc' = [i \in Identities |-> IF now' >= concEnd[i] THEN {} ELSE conc[i]]
    BY <1>2 DEF Tick
  <2>3. conc' \in [Identities -> SUBSET (Nat \ {0})]
    BY <2>2 DEF ConcInv
  <2>4. ASSUME NEW i \in Identities, conc'[i] # {}
        PROVE  /\ now' < concEnd[i]
               /\ \E e \in log : e.who = i /\ concEnd[i] = e.real + ConcTTL
    <3>1. ~(now' >= concEnd[i]) /\ conc[i] # {}
      BY <2>2, <2>4
    <3> QED
      BY <2>1, <3>1 DEF ConcInv
  <2> QED
    BY <2>1, <2>3, <2>4 DEF ConcInv
<1>3. ASSUME NEW c \in Calls, Script(c) PROVE ConcInv'
  <2> DEFINE k == call[c]
             own == Cleaned(window[k.who], k.clock)
             all == Cleaned(gwindow, k.clock)
             e == [id |-> Cardinality(log) + 1, who |-> k.who, tok |-> k.tok,
                   score |-> k.clock, real |-> now]
  <2>1. k.who \in Identities
    BY <1>3 DEF LimiterInv, SentFresh, Script
  <2>2. CASE Permitted(k.who, k.lim, k.tok, own, all)
    <3>1. /\ conc' = [conc EXCEPT ![k.who] = @ \cup {e.id}]
          /\ concEnd' = [concEnd EXCEPT ![k.who] = now + ConcTTL]
          /\ log' = log \cup {e} /\ now' = now
      BY <1>3, <2>2 DEF Script
    <3>2. e.id \in Nat \ {0} /\ e.who = k.who /\ e.real = now
      BY FS_CardinalityType DEF LimiterInv
    <3> HIDE DEF e, own, all, k
    <3>3. now + ConcTTL \in Nat /\ now < now + ConcTTL
      BY LimiterAssumption DEF ConcInv
    <3>4. conc' \in [Identities -> SUBSET (Nat \ {0})]
      BY <3>1, <3>2 DEF ConcInv
    <3>5. concEnd' \in [Identities -> Nat]
      BY <3>1, <3>3 DEF ConcInv
    <3>6. ASSUME NEW i \in Identities, conc'[i] # {}
          PROVE  /\ now' < concEnd'[i]
                 /\ \E r \in log' : r.who = i /\ concEnd'[i] = r.real + ConcTTL
      <4>1. CASE i = k.who
        BY <2>1, <3>1, <3>2, <3>3, <4>1 DEF ConcInv
      <4>2. CASE i # k.who
        BY <3>1, <3>6, <4>2 DEF ConcInv
      <4> QED
        BY <4>1, <4>2
    <3> QED
      BY <3>1, <3>4, <3>5, <3>6 DEF ConcInv
  <2>3. CASE ~Permitted(k.who, k.lim, k.tok, own, all)
    BY <1>1, <1>3, <2>3 DEF Script
  <2> QED
    BY <2>2, <2>3
<1> QED
  BY <1>1, <1>2, <1>3 DEF Next, Allow, FailOpen, Complete, vars

\* The slots that completed requests leave behind deny a user for ConcTTL after
\* the last request that was admitted, however often the user asks meanwhile.
THEOREM DenialsAlwaysEnd == Spec => []DenialsEnd
<1>1. Init => ConcInv
  BY DEF Init, ConcInv
<1>2. LimiterInv /\ ConcInv => DenialsEnd
  BY DEF LimiterInv, ConcInv, DenialsEnd, Of
<1> QED
  BY <1>1, <1>2, ConcStep, LimiterInvariant, PTL DEF Spec
=============================================================================
