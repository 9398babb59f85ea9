------------------------------ MODULE MCIntake ------------------------------
EXTENDS Intake, TLC

CONSTANTS p1, p2, c1, c2, k1, k2

(* Nothing orders the processes, the contents or the cases. *)
Symmetry == Permutations({p1, p2}) \cup Permutations({c1, c2}) \cup Permutations({k1, k2})
=============================================================================
