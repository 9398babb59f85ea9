---------------------------- MODULE MCOperations ----------------------------
EXTENDS Operations, TLC

CONSTANTS p1, p2, c1, c2

(* Nothing orders the processes or the contents. *)
Symmetry == Permutations({p1, p2}) \cup Permutations({c1, c2})
=============================================================================
