---------------------------- MODULE MCRpcClient ----------------------------
\* TLC instance of RpcClient.
EXTENDS RpcClient

CONSTANTS h1, h2, h3, t1, t2

MCVirtualNodes == (h1 :> {1, 4}) @@ (h2 :> {2, 4, 7}) @@ (h3 :> {0, 2})
MCKinds == (t1 :> {"sync", "callback"}) @@ (t2 :> {"future", "proto"})
=============================================================================
