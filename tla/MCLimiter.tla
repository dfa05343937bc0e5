----------------------------- MODULE MCLimiter ------------------------------
(***************************************************************************)
(* Instances of the rate limiter for TLC.                                  *)
(***************************************************************************)
EXTENDS RateLimiter, TLC

CONSTANTS g1, g2, u1, u2

TwoCalls == {g1, g2}
TwoUsers == {u1, u2}
Symmetry == Permutations(Calls) \cup Permutations(Identities)

\* Two groups: one with a lower request limit, one with a lower token limit.
TwoLimits == {[req |-> 1, tok |-> 3, conc |-> 2],
              [req |-> 2, tok |-> 2, conc |-> 3]}
=============================================================================
