----------------------------- MODULE MCAccounts -----------------------------
EXTENDS Accounts, TLC

CONSTANTS kim, raj, b1, b2

(* Nothing orders the users or the browsers. *)
Symmetry == Permutations({kim, raj}) \cup Permutations({b1, b2})
=============================================================================
