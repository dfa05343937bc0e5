------------------------------ MODULE MCLedger ------------------------------
(***************************************************************************)
(* Instances of the ledger for TLC.                                        *)
(***************************************************************************)
EXTENDS LedgerProps, TLC

CONSTANTS c1, c2, r1, r2

MCCalls    == {c1, c2}
MCRequests == {r1, r2}
Symmetry   == Permutations(MCCalls) \cup Permutations(MCRequests)
=============================================================================
