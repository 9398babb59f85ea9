-------------------------- MODULE MCCustodyTransfer -------------------------
EXTENDS CustodyTransfer, TLC
CONSTANTS kim, raj, ana, s1, s2, i1

Symmetry == Permutations({kim, raj, ana}) \cup Permutations({s1, s2})
=============================================================================
