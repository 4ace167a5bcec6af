--------------------------- MODULE MCNodeBreaker ---------------------------
(* A breaker with a window of three outcomes.                              *)
EXTENDS NodeBreaker
=============================================================================
