-------------------------- MODULE MCCircuitBreaker --------------------------
\* TLC instance of CircuitBreaker.  Threads and hosts are interchangeable.
EXTENDS CircuitBreaker, TLC

Symmetry == Permutations(Threads) \cup Permutations(Hosts)
=============================================================================
