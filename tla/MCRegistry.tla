---------------------------- MODULE MCRegistry ----------------------------
\* TLC instance of Registry: a host that connects twice, so that it can be
\* restarted, or come back after its connection broke.
EXTENDS Registry

MCMaxConns == [h \in Hosts |-> 2]
=============================================================================
