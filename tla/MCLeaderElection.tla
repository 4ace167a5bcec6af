-------------------------- MODULE MCLeaderElection --------------------------
\* TLC instance of LeaderElection, in seconds: the lease, the tick interval and
\* the curl timeout of the code; a sweep is a call of the store that waits for
\* another call of the store.
EXTENDS LeaderElectionInv
=============================================================================
