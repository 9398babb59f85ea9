----------------------------- MODULE MCSessions -----------------------------
EXTENDS Sessions, TLC

CONSTANTS t1, t2, u1, u2

(* Nothing orders the tabs or the examiners. *)
Symmetry == Permutations({t1, t2}) \cup Permutations({u1, u2})
=============================================================================
