---------------------------- MODULE MCRequestor ----------------------------
\* TLC instance of Requestor, with its inductive invariant.
EXTENDS RequestorInv
=============================================================================
