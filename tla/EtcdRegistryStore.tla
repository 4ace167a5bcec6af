------------------------- MODULE EtcdRegistryStore -------------------------
(***************************************************************************)
(* server/etcd_registry_store.cpp: the registry's store on etcd.  A key    *)
(* stands for a (method, host) pair.  The server's event loop runs one     *)
(* operation at a time (io), the sweep runs beside it in its own thread    *)
(* (sw).  Every call of etcd is a step of its own: between two of them the *)
(* other thread runs, leases expire, and the call or its answer may be     *)
(* lost.  The four maps of the store change together under _mutex.         *)
(* Loads are left out, and so are the sweeps of the grace period after the *)
(* start, which do nothing.                                                *)
(***************************************************************************)
EXTENDS Naturals

CONSTANTS
  Keys, Conns,
  MaxLeases,    \* bound: leases granted in a behaviour
  MaxRestarts   \* bound: restarts of the registry server

ASSUME EtcdStoreAssumption == MaxLeases \in Nat /\ MaxRestarts \in Nat

Leases == 1 .. MaxLeases
NoLease == 0       \* -1 in the code: a grant that failed
Absent == MaxLeases + 1
StoreIdle == [at |-> "idle"]

\* An operation of the loop on key k: its next call, the lease it works with,
\* and the connection that will own the key, when it is a registration.
Doing(at, op, k, own, l) == [at |-> at, op |-> op, k |-> k, own |-> own, lease |-> l]

VARIABLES
  kv,          \* etcd: the lease of a key, NoLease when the key is not there
  granted,     \* etcd: number of leases granted so far
  live,        \* etcd: leases that have not expired
  toLease,     \* _keys_to_lease, Absent for a key that is not in it
  byConn,      \* _keys_by_conn
  known,       \* _known_keys
  open,        \* connections of providers
  io,          \* the operation of the event loop
  sw,          \* the sweep
  restarts

kvVars == <<kv, granted, live>>
mapVars == <<toLease, byConn, known>>
storeVars == <<kv, granted, live, toLease, byConn, known, open, io, sw, restarts>>

Stored == {k \in Keys : kv[k] # NoLease}

StoreInit ==
  /\ kv = [k \in Keys |-> NoLease]
  /\ granted = 0
  /\ live = {}
  /\ toLease = [k \in Keys |-> Absent]
  /\ byConn = [c \in Conns |-> {}]
  /\ known = {}
  /\ open = {}
  /\ io = StoreIdle
  /\ sw = StoreIdle
  /\ restarts = 0

---------------------------------------------------------------------------
(* etcd.                                                                   *)

\* A lease runs out and takes the keys bound to it away.
LeaseExpires(l) ==
  /\ l \in live
  /\ live' = live \ {l}
  /\ kv' = [k \in Keys |-> IF kv[k] = l THEN NoLease ELSE kv[k]]
  /\ UNCHANGED <<granted, mapVars, open, io, sw, restarts>>

\* /v3/kv/put with a lease: refused, with an answer, when the lease is over.
EtcdPut(k, l) == kv' = IF l \in live THEN [kv EXCEPT ![k] = l] ELSE kv

---------------------------------------------------------------------------
(* The operations of the event loop.                                       *)

Accept(c) ==
  /\ c \notin open
  /\ byConn[c] = {}
  /\ open' = open \cup {c}
  /\ UNCHANGED <<kvVars, mapVars, io, sw, restarts>>

\* registerInstance: the first call is the grant.
RegisterInstance(c, k) ==
  /\ io = StoreIdle
  /\ c \in open
  /\ io' = Doing("grant", "register", k, {c}, NoLease)
  /\ UNCHANGED <<kvVars, mapVars, open, sw, restarts>>

\* heartbeat: a key without a lease is refused and nothing else happens.
Heartbeat(k) ==
  /\ io = StoreIdle
  /\ toLease[k] \in Leases
  /\ io' = Doing("keepalive", "heartbeat", k, {}, toLease[k])
  /\ UNCHANGED <<kvVars, mapVars, open, sw, restarts>>

\* http_lease_keepalive: a lease that is over is a failure, and so is every
\* answer that is lost or has no TTL at its top level.  Then register again.
Keepalive ==
  /\ io.at = "keepalive"
  /\ \/ io.lease \in live /\ io' = StoreIdle
     \/ io' = Doing("grant", "heartbeat", io.k, {}, NoLease)
  /\ UNCHANGED <<kvVars, mapVars, open, sw, restarts>>

\* http_lease_grant succeeds, or fails: a heartbeat then gives up, a
\* registration goes on.
Grant ==
  /\ io.at = "grant"
  /\ \/ /\ granted < MaxLeases
        /\ granted' = granted + 1
        /\ live' = live \cup {granted + 1}
        /\ io' = [io EXCEPT !.at = "put", !.lease = granted + 1]
     \/ /\ UNCHANGED <<granted, live>>
        /\ io' = IF io.op = "heartbeat" THEN StoreIdle ELSE [io EXCEPT !.at = "put"]
  /\ UNCHANGED <<kv, mapVars, open, sw, restarts>>

\* reportLoad puts the key under the lease it has.
ReportLoad(k) ==
  /\ io = StoreIdle
  /\ toLease[k] \in Leases
  /\ io' = Doing("put", "load", k, {}, toLease[k])
  /\ UNCHANGED <<kvVars, mapVars, open, sw, restarts>>

\* Only a registration does not look at the result of its put.
AfterPut(ok) ==
  IF io.op = "register" \/ (io.op = "heartbeat" /\ ok) THEN [io EXCEPT !.at = "record"] ELSE StoreIdle

\* Deviation: http_put in place of http_put_with_lease, the key never expires.
PutWithoutLease ==
  /\ io.at = "put"
  /\ kv' = [kv EXCEPT ![io.k] = Absent]
  /\ io' = AfterPut(TRUE)
  /\ sw' = IF sw = StoreIdle THEN sw ELSE [sw EXCEPT !.fresh = @ \cup {io.k}]
  /\ UNCHANGED <<granted, live, mapVars, open, restarts>>

\* http_put_with_lease: the call or its answer may be lost, and a refusal by
\* etcd is an answer like any other.
PutWithLease ==
  /\ io.at = "put"
  /\ \/ EtcdPut(io.k, io.lease) /\ \E ok \in BOOLEAN : io' = AfterPut(ok)
     \/ kv' = kv /\ io' = AfterPut(FALSE)
  /\ sw' = IF sw = StoreIdle THEN sw ELSE [sw EXCEPT !.fresh = @ \cup {io.k}]
  /\ UNCHANGED <<granted, live, mapVars, open, restarts>>

\* The maps, under the mutex.
Record ==
  /\ io.at = "record"
  /\ toLease' = [toLease EXCEPT ![io.k] = io.lease]
  /\ known' = known \cup {io.k}
  /\ byConn' = [c \in Conns |-> IF c \in io.own THEN byConn[c] \cup {io.k} ELSE byConn[c]]
  /\ io' = StoreIdle
  /\ UNCHANGED <<kvVars, open, sw, restarts>>

\* What the maps are when the keys ks are erased from them.
Erase(ks) ==
  /\ toLease' = [k \in Keys |-> IF k \in ks THEN Absent ELSE toLease[k]]
  /\ known' = known \ ks

\* Deviation: the keys are deleted from etcd, and kept in the maps.
DisconnectKeepsMaps(c) ==
  /\ io = StoreIdle
  /\ c \in open
  /\ open' = open \ {c}
  /\ byConn' = [byConn EXCEPT ![c] = {}]
  /\ UNCHANGED <<toLease, known>>
  /\ io' = IF byConn[c] = {} THEN StoreIdle ELSE [at |-> "delete", ks |-> byConn[c]]
  /\ UNCHANGED <<kvVars, sw, restarts>>

\* disconnectProvider: first the maps ...
DisconnectProvider(c) ==
  /\ io = StoreIdle
  /\ c \in open
  /\ open' = open \ {c}
  /\ byConn' = [byConn EXCEPT ![c] = {}]
  /\ Erase(byConn[c])
  /\ io' = IF byConn[c] = {} THEN StoreIdle ELSE [at |-> "delete", ks |-> byConn[c]]
  /\ UNCHANGED <<kvVars, sw, restarts>>

\* ... then etcd, key by key; a delete may be lost.
DeleteKey(k) ==
  /\ io.at = "delete"
  /\ k \in io.ks
  /\ kv' \in {kv, [kv EXCEPT ![k] = NoLease]}
  /\ io' = IF io.ks = {k} THEN StoreIdle ELSE [io EXCEPT !.ks = @ \ {k}]
  /\ UNCHANGED <<granted, live, mapVars, open, sw, restarts>>

---------------------------------------------------------------------------
(* The sweep.                                                              *)

\* Deviation: the end of the range is wrong, some keys are not returned.
ReadPrefixShort == {[cur |-> ks, failed |-> FALSE] : ks \in SUBSET Stored}

\* http_get_prefix: every key, or none when the call fails in any way.
ReadPrefix == {[cur |-> Stored, failed |-> FALSE], [cur |-> {}, failed |-> TRUE]}

\* sweepExpired reads the keys; fresh is history: keys put since.
SweepRead ==
  /\ sw = StoreIdle
  /\ \E r \in ReadPrefix :
       sw' = [at |-> "diff", cur |-> r.cur, failed |-> r.failed, fresh |-> {}]
  /\ UNCHANGED <<kvVars, mapVars, open, io, restarts>>

Vanished == known \ sw.cur

\* Deviation: the known keys are replaced before they are compared.
SweepDiffLate ==
  /\ sw.at = "diff"
  /\ UNCHANGED <<toLease, known>>
  /\ sw' = StoreIdle
  /\ UNCHANGED <<kvVars, byConn, open, io, restarts>>

\* ... and takes the known keys that it did not read for vanished: they are
\* erased and announced as OFFLINE.  What it read is known from now on.
SweepDiff ==
  /\ sw.at = "diff"
  /\ toLease' = [k \in Keys |-> IF k \in Vanished THEN Absent ELSE toLease[k]]
  /\ known' = (known \ Vanished) \cup sw.cur
  /\ sw' = StoreIdle
  /\ UNCHANGED <<kvVars, byConn, open, io, restarts>>

\* The registry server dies and starts again: the maps are gone, the keys stay.
RegistryRestarts ==
  /\ restarts < MaxRestarts
  /\ restarts' = restarts + 1
  /\ toLease' = [k \in Keys |-> Absent]
  /\ byConn' = [c \in Conns |-> {}]
  /\ known' = {}
  /\ open' = {}
  /\ io' = StoreIdle
  /\ sw' = StoreIdle
  /\ UNCHANGED kvVars

StoreNext ==
  \/ \E l \in Leases : LeaseExpires(l)
  \/ \E c \in Conns : Accept(c) \/ DisconnectProvider(c) \/ \E k \in Keys : RegisterInstance(c, k)
  \/ \E k \in Keys : Heartbeat(k) \/ ReportLoad(k) \/ DeleteKey(k)
  \/ Keepalive \/ Grant \/ PutWithLease \/ Record
  \/ SweepRead \/ SweepDiff
  \/ RegistryRestarts

\* The sweep timer goes on, and a sweep ends.
StoreSpec == StoreInit /\ [][StoreNext]_storeVars /\ WF_storeVars(SweepRead) /\ WF_storeVars(SweepDiff)

---------------------------------------------------------------------------
\* Type correctness.
StoreTypeOK ==
  /\ kv \in [Keys -> 0 .. MaxLeases]
  /\ granted \in 0 .. MaxLeases
  /\ live \subseteq 1 .. granted
  /\ \A k \in Stored : kv[k] \in live
  /\ toLease \in [Keys -> 0 .. Absent]
  /\ byConn \in [Conns -> SUBSET Keys]
  /\ known \subseteq Keys /\ open \subseteq Conns
  /\ io.at \in {"idle", "grant", "keepalive", "put", "record", "delete"}
  /\ sw.at \in {"idle", "diff"}

\* Whatever the store keeps alive for a provider ends with a connection: every
\* key that has an entry in _keys_to_lease is among the keys of an open
\* connection, whose close will erase and delete it.  It depends on heartbeats
\* and closes running in the same loop, while the sweep may erase in between.
OwnedUntilClosed ==
  \A k \in Keys : toLease[k] # Absent => \E c \in open : k \in byConn[c]

\* The store's maps, through all failing calls and expiring leases: every stored
\* key hangs on a live lease, and every remembered lease on an open connection.
StoreSafe == StoreTypeOK /\ OwnedUntilClosed

\* A sweep announces a key that is in etcd as OFFLINE only in two cases: its
\* read failed, or the key was put behind its read.
FalseOfflineCauses ==
  [][SweepDiff => \A k \in Vanished : kv[k] = NoLease \/ sw.failed \/ k \in sw.fresh]_storeVars

\* A known provider whose key is gone does not stay unnoticed: its key comes
\* back or it is taken out of the known keys, which announces it.
VanishedAnnounced ==
  \A k \in Keys : (k \in known /\ kv[k] = NoLease) ~> (kv[k] # NoLease \/ k \notin known)
=============================================================================
