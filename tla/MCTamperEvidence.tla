-------------------------- MODULE MCTamperEvidence --------------------------
EXTENDS TamperEvidence
=============================================================================
