------------------------------ MODULE MCDispatch ------------------------------
(* Instances of Dispatch for TLC: every call submits the same task, the    *)
(* case in which calls meet; eligibility is a constant of the cfg.         *)
EXTENDS Dispatch, TLC

SameTask == [r \in Run |-> CHOOSE t \in Task : TRUE]
AllEligible == [t \in Task |-> Node]

(* Neither nodes nor callers are told apart by anything but their names.   *)
Symmetry == Permutations(Node) \cup Permutations(Run)

=============================================================================
