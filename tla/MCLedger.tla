------------------------------- MODULE MCLedger -------------------------------
EXTENDS Ledger, TLC

CONSTANTS w1, w2, r1

Symmetry == Permutations({w1, w2})

(* No property speaks of what follows two overlapping appends: a state in  *)
(* which they overlap is checked, its successors are not.                  *)
InTurn == "overlap" \notin forked
=============================================================================
