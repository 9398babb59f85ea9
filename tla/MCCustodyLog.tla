---------------------------- MODULE MCCustodyLog ----------------------------
EXTENDS CustodyLog
CONSTANTS w1, w2, w3, c1, c2, c3
=============================================================================
