---------------------------- MODULE MCComputeServer ----------------------------
EXTENDS ComputeServer, TLC

CONSTANTS r1, r2, r3, t1, t2

(* Three requests for one task id: the retries of a client.                *)
MCRetries == [r \in Request |-> t1]

(* Two requests for one task id and one for another.                       *)
MCIdOf == [r \in Request |-> IF r = r3 THEN t2 ELSE t1]

(* Retries are interchangeable.                                            *)
MCSymmetry == Permutations(Request)

(* A bound: a state in which a second request lost its entry to a clean-up  *)
(* is checked, and its successors are not.                                  *)
OneForgotten == Cardinality(forgotten) <= 1
=============================================================================
