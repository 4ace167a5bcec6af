----------------------------- MODULE EtcdProofs -----------------------------
(***************************************************************************)
(* Machine-checked proofs about what the registry builds on etcd: the      *)
(* leader election, for every number of instances, whatever calls are lost *)
(* and however often instances crash, as long as a lease outlasts a call   *)
(* and the interval of the election timer; and the store, for any number   *)
(* of keys, connections, leases and restarts.                              *)
(***************************************************************************)
EXTENDS LeaderElectionInv, EtcdRegistryStore, TLAPS

\* The constants as the provers need them.
LEMMA Constants ==
  /\ TTL \in Nat /\ TTL > 0 /\ Period \in Nat /\ Period > 0
  /\ CurlMax \in Nat /\ CurlMax > 0 /\ SweepMax \in Nat
  /\ Prompt \in Nat /\ Prompt <= CurlMax
  /\ Margin \in Nat /\ Margin >= CurlMax /\ Margin >= Period
  /\ "none" \notin Nodes /\ "orphan" \notin Nodes
  /\ MaxFaults \in Nat
BY ElectionAssumption DEF ElectionAssumption, Margin

LEMMA InitInv == Init => IInv
<1> SUFFICES ASSUME Init PROVE IInv
  OBVIOUS
<1> USE Constants
<1>1. TypeOK
  BY DEF Init, TypeOK, Calls
<1>2. KeyLeased /\ Holds /\ Kept
  BY DEF Init, KeyLeased, Holds, Kept
<1>3. Places
  BY DEF Init, Places, Calls
<1>4. Fresh
  BY DEF Init, Fresh, Obtained
<1>5. StaleParts
  BY DEF Init, StaleParts
<1>6. RefreshedLeft
  BY DEF Init, RefreshedLeft
<1> QED
  BY <1>1, <1>2, <1>3, <1>4, <1>5, <1>6 DEF IInv

\* The election timer fires.
LEMMA TickStep ==
  ASSUME IInv, NEW n \in Nodes, ElectionTick(n)
  PROVE  IInv'
<1> USE Constants DEF ElectionTick, Post, etcdVars
<1>1. TypeOK'
  BY DEF IInv, TypeOK, Calls
<1>2. KeyLeased'
  BY DEF IInv, KeyLeased
<1>3. Places'
  BY DEF IInv, TypeOK, Places, Calls
<1>4. Fresh'
  BY DEF IInv, TypeOK, Fresh, Obtained
<1>5. Holds'
  BY DEF IInv, TypeOK, Holds
<1>6. Kept'
  BY DEF IInv, TypeOK, Kept
<1>7. StaleParts'
  BY DEF IInv, TypeOK, Places, StaleParts
<1>8. RefreshedLeft'
  BY DEF IInv, TypeOK, RefreshedLeft
<1> QED
  BY <1>1, <1>2, <1>3, <1>4, <1>5, <1>6, <1>7, <1>8 DEF IInv

\* The sweep timer fires, and the sweep ends.
LEMMA SweepStep ==
  ASSUME IInv, NEW n \in Nodes, SweepStart(n) \/ SweepEnd(n)
  PROVE  IInv'
<1> USE Constants DEF SweepStart, SweepEnd, Idle, etcdVars
<1>1. TypeOK'
  BY DEF IInv, TypeOK, Calls
<1>2. KeyLeased'
  BY DEF IInv, KeyLeased
<1>3. Places'
  BY DEF IInv, TypeOK, Places, Calls
<1>4. Fresh'
  BY DEF IInv, TypeOK, Places, Fresh, Obtained
<1>5. Holds'
  BY DEF IInv, TypeOK, Holds
<1>6. Kept'
  BY DEF IInv, TypeOK, Kept
<1>7. StaleParts'
  BY DEF IInv, TypeOK, Places, StaleParts
<1>8. RefreshedLeft'
  BY DEF IInv, TypeOK, Places, RefreshedLeft
<1> QED
  BY <1>1, <1>2, <1>3, <1>4, <1>5, <1>6, <1>7, <1>8 DEF IInv

\* The grant returns or fails.
LEMMA GrantDone ==
  ASSUME IInv, NEW n \in Nodes, NEW res \in {"yes", "no", "fail"}, pc[n] = "grant",
         AfterGrant(n, res), res = step[n] \/ res = "fail", Settle,
         UNCHANGED <<due, swept, etcdVars>>, faults' \in Nat, step[n] # "sent" \/ res = "fail"
  PROVE  IInv'
<1> USE Constants DEF AfterGrant, Post, Idle, Settle, etcdVars
<1>1. TypeOK'
  BY DEF IInv, TypeOK, Places, Calls
<1>2. KeyLeased'
  BY DEF IInv, TypeOK, KeyLeased
<1>3. Places'
  BY DEF IInv, TypeOK, Places, Calls
<1>4. Fresh'
  BY DEF IInv, TypeOK, Places, Fresh, Obtained
<1>5. Holds'
  BY DEF IInv, TypeOK, Places, KeyLeased, Holds
<1>6. Kept'
  BY DEF IInv, TypeOK, Places, Kept
<1>7. StaleParts'
  BY DEF IInv, TypeOK, Places, Holds, Kept, StaleParts, Fresh, Obtained
<1>8. RefreshedLeft'
  BY DEF IInv, TypeOK, Places, Kept, RefreshedLeft, Fresh, Obtained
<1> QED
  BY <1>1, <1>2, <1>3, <1>4, <1>5, <1>6, <1>7, <1>8 DEF IInv

\* The transaction returns or fails.
LEMMA TxnDone ==
  ASSUME IInv, NEW n \in Nodes, NEW res \in {"yes", "no", "fail"}, pc[n] = "txn",
         AfterTxn(n, res), res = step[n] \/ res = "fail", Settle,
         UNCHANGED <<due, swept, etcdVars>>, faults' \in Nat
  PROVE  IInv'
<1> USE Constants DEF AfterTxn, Post, Idle, Settle, etcdVars
<1>1. TypeOK'
  BY DEF IInv, TypeOK, Places, Calls
<1>2. KeyLeased'
  BY DEF IInv, TypeOK, KeyLeased
<1>3. Places'
  BY DEF IInv, TypeOK, Places, Calls
<1>4. Fresh'
  BY DEF IInv, TypeOK, Places, Fresh, Obtained
<1>5. Holds'
  BY DEF IInv, TypeOK, Places, KeyLeased, Holds
<1>6. Kept'
  BY DEF IInv, TypeOK, Places, Kept
<1>7. StaleParts'
  BY DEF IInv, TypeOK, Places, Holds, Kept, StaleParts, Fresh, Obtained
<1>8. RefreshedLeft'
  BY DEF IInv, TypeOK, Places, Kept, RefreshedLeft, Fresh, Obtained
<1> QED
  BY <1>1, <1>2, <1>3, <1>4, <1>5, <1>6, <1>7, <1>8 DEF IInv

\* The revoke of a lost campaign returns or fails.
LEMMA RevokeDone ==
  ASSUME IInv, NEW n \in Nodes, NEW res \in {"yes", "no", "fail"}, pc[n] = "revoke",
         AfterRevoke(n), Settle,
         UNCHANGED <<due, swept, etcdVars>>, faults' \in Nat
  PROVE  IInv'
<1> USE Constants DEF AfterRevoke, Idle, Settle, etcdVars
<1>1. TypeOK'
  BY DEF IInv, TypeOK, Places, Calls
<1>2. KeyLeased'
  BY DEF IInv, TypeOK, KeyLeased
<1>3. Places'
  BY DEF IInv, TypeOK, Places, Calls
<1>4. Fresh'
  BY DEF IInv, TypeOK, Places, Fresh, Obtained
<1>5. Holds'
  BY DEF IInv, TypeOK, Places, KeyLeased, Holds
<1>6. Kept'
  BY DEF IInv, TypeOK, Places, Kept
<1>7. StaleParts'
  BY DEF IInv, TypeOK, Places, Holds, Kept, StaleParts, Fresh, Obtained
<1>8. RefreshedLeft'
  BY DEF IInv, TypeOK, Places, Kept, RefreshedLeft, Fresh, Obtained
<1> QED
  BY <1>1, <1>2, <1>3, <1>4, <1>5, <1>6, <1>7, <1>8 DEF IInv

\* The keepalive returns or fails.
LEMMA KeepaliveDone ==
  ASSUME IInv, Timely,
         NEW n \in Nodes, NEW res \in {"yes", "no", "fail"}, pc[n] = "keepalive",
         AfterKeepalive(n, res), res = step[n] \/ res = "fail", Settle,
         UNCHANGED <<due, swept, etcdVars>>, faults' \in Nat
  PROVE  IInv'
<1> USE Constants DEF Timely, AfterKeepalive, Post, Idle, Settle, etcdVars
<1>1. TypeOK'
  BY DEF IInv, TypeOK, Places, Calls
<1>2. KeyLeased'
  BY DEF IInv, TypeOK, KeyLeased
<1>3. Places'
  BY DEF IInv, TypeOK, Places, Calls
<1>4. Fresh'
  BY DEF IInv, TypeOK, Places, Fresh, Obtained
<1>5. Holds'
  BY DEF IInv, TypeOK, Places, KeyLeased, Holds
<1>6. Kept'
  BY DEF IInv, TypeOK, Places, Kept
<1>7. StaleParts'
  BY DEF IInv, TypeOK, Places, Holds, Kept, StaleParts, Fresh, Obtained
<1>8. RefreshedLeft'
  BY DEF IInv, TypeOK, Places, Kept, RefreshedLeft, Fresh, Obtained
<1> QED
  BY <1>1, <1>2, <1>3, <1>4, <1>5, <1>6, <1>7, <1>8 DEF IInv

\* The revoke of a leader that gives up returns or fails.
LEMMA ResignDone ==
  ASSUME IInv, NEW n \in Nodes, NEW res \in {"yes", "no", "fail"}, pc[n] = "resign",
         AfterResign(n), Settle,
         UNCHANGED <<due, swept, etcdVars>>, faults' \in Nat
  PROVE  IInv'
<1> USE Constants DEF AfterResign, Idle, Settle, etcdVars
<1>1. TypeOK'
  BY DEF IInv, TypeOK, Places, Calls
<1>2. KeyLeased'
  BY DEF IInv, TypeOK, KeyLeased
<1>3. Places'
  BY DEF IInv, TypeOK, Places, Calls
<1>4. Fresh'
  BY DEF IInv, TypeOK, Places, Fresh, Obtained
<1>5. Holds'
  BY DEF IInv, TypeOK, Places, KeyLeased, Holds
<1>6. Kept'
  BY DEF IInv, TypeOK, Places, Kept
<1>7. StaleParts'
  BY DEF IInv, TypeOK, Places, Holds, Kept, StaleParts, Fresh, Obtained
<1>8. RefreshedLeft'
  BY DEF IInv, TypeOK, Places, Kept, RefreshedLeft, Fresh, Obtained
<1> QED
  BY <1>1, <1>2, <1>3, <1>4, <1>5, <1>6, <1>7, <1>8 DEF IInv

\* An instance crashes.
LEMMA CrashStep ==
  ASSUME IInv, NEW n \in Nodes, Crash(n)
  PROVE  IInv'
<1> USE Constants DEF Crash, Fault, Settle, etcdVars
<1>1. TypeOK'
  BY DEF IInv, TypeOK, Places, Calls
<1>2. KeyLeased'
  BY DEF IInv, TypeOK, KeyLeased
<1>3. Places'
  BY DEF IInv, TypeOK, Places, Calls
<1>4. Fresh'
  BY DEF IInv, TypeOK, Places, Fresh, Obtained
<1>5. Holds'
  BY DEF IInv, TypeOK, Places, KeyLeased, Holds
<1>6. Kept'
  BY DEF IInv, TypeOK, Places, Kept
<1>7. StaleParts'
  BY DEF IInv, TypeOK, Places, Holds, Kept, StaleParts, Fresh, Obtained
<1>8. RefreshedLeft'
  BY DEF IInv, TypeOK, Places, Kept, RefreshedLeft, Fresh, Obtained
<1> QED
  BY <1>1, <1>2, <1>3, <1>4, <1>5, <1>6, <1>7, <1>8 DEF IInv

\* An instance is started again.
LEMMA RestartStep ==
  ASSUME IInv, NEW n \in Nodes, Restart(n)
  PROVE  IInv'
<1> USE Constants DEF Restart, Idle, etcdVars
<1>1. TypeOK'
  BY DEF IInv, TypeOK, Places, Calls
<1>2. KeyLeased'
  BY DEF IInv, TypeOK, KeyLeased
<1>3. Places'
  BY DEF IInv, TypeOK, Places, Calls
<1>4. Fresh'
  BY DEF IInv, TypeOK, Places, Fresh, Obtained
<1>5. Holds'
  BY DEF IInv, TypeOK, Places, KeyLeased, Holds
<1>6. Kept'
  BY DEF IInv, TypeOK, Places, Kept
<1>7. StaleParts'
  BY DEF IInv, TypeOK, Places, Holds, Kept, StaleParts, Fresh, Obtained
<1>8. RefreshedLeft'
  BY DEF IInv, TypeOK, Places, Kept, RefreshedLeft, Fresh, Obtained
<1> QED
  BY <1>1, <1>2, <1>3, <1>4, <1>5, <1>6, <1>7, <1>8 DEF IInv

\* etcd applies a call.
LEMMA EtcdStep ==
  ASSUME IInv, NEW n \in Nodes, Apply(n)
  PROVE  IInv'
<1> USE Constants DEF Apply, EtcdGrant, EtcdTxn, EtcdKeepalive, EtcdRevoke
<1>1. TypeOK'
  BY DEF IInv, TypeOK, Places, Calls
<1>2. KeyLeased'
  BY DEF IInv, TypeOK, KeyLeased
<1>3. Places'
  BY DEF IInv, TypeOK, Places, Calls
<1>4. Fresh'
  BY DEF IInv, TypeOK, Places, Fresh, Obtained
<1>5. Holds'
  BY DEF IInv, TypeOK, Places, KeyLeased, Holds
<1>6. Kept'
  BY DEF IInv, TypeOK, Places, Kept
<1>7. StaleParts'
  BY DEF IInv, TypeOK, Places, Holds, Kept, StaleParts, Fresh, Obtained
<1>8. RefreshedLeft'
  BY DEF IInv, TypeOK, Places, Kept, RefreshedLeft, Fresh, Obtained
<1> QED
  BY <1>1, <1>2, <1>3, <1>4, <1>5, <1>6, <1>7, <1>8 DEF IInv

\* A second passes.
LEMMA SecondStep ==
  ASSUME IInv, Timely, Second
  PROVE  IInv'
<1>f. faults' \in Nat
  BY DEF IInv, TypeOK, Second, Fault
<1>u. \A n \in Nodes : ~Urgent(n)
  BY DEF Second
<1>n. /\ lease' = [n \in Nodes |-> Less(lease[n])]
      /\ orphan' = Less(orphan)
      /\ key' = IF KeyExpires THEN "none" ELSE key
      /\ busy' = [n \in Nodes |-> IF pc[n] \in {"idle", "down"} THEN 0 ELSE busy[n] + 1]
      /\ due' = [n \in Nodes |-> IF pc[n] = "down" THEN due[n] ELSE Less(due[n])]
      /\ stale' = [n \in Nodes |->
                     IF n \in leader /\ key # n THEN stale[n] + 1 ELSE stale[n]]
      /\ UNCHANGED <<pc, step, leader, refreshed, swept>>
  BY DEF Second
<1> USE Constants, <1>u, <1>n DEF Timely, Urgent, Less, KeyExpires
<1>1. TypeOK'
  BY <1>f DEF IInv, TypeOK, Places, Calls
<1>2. KeyLeased'
  BY DEF IInv, TypeOK, KeyLeased
<1>3. Places'
  BY DEF IInv, TypeOK, Places, Calls
<1>4. Fresh'
  BY DEF IInv, TypeOK, Places, Fresh, Obtained
<1>5. Holds'
  BY DEF IInv, TypeOK, Places, KeyLeased, Holds
<1>6. Kept'
  BY DEF IInv, TypeOK, Places, Kept
<1>7. StaleParts'
  BY DEF IInv, TypeOK, Places, Holds, Kept, StaleParts, Fresh, Obtained
<1>8. RefreshedLeft'
  BY DEF IInv, TypeOK, Places, Kept, RefreshedLeft, Fresh, Obtained
<1> QED
  BY <1>1, <1>2, <1>3, <1>4, <1>5, <1>6, <1>7, <1>8 DEF IInv

\* A call returns, with its response or with an error.
LEMMA CallDone ==
  ASSUME IInv, Timely, NEW n \in Nodes, Finish(n) \/ CurlFails(n)
  PROVE  IInv'
<1>1. step[n] \in {"sent", "yes", "no"} /\ faults \in Nat
  BY DEF IInv, TypeOK
<1>2. faults' \in Nat
  BY <1>1 DEF Finish, CurlFails, Fault
<1>3. PICK res \in {"yes", "no", "fail"} :
        /\ After(n, res)
        /\ res = step[n] \/ res = "fail"
        /\ step[n] # "sent" \/ res = "fail"
  BY <1>1 DEF Finish, CurlFails
<1>4. Settle /\ UNCHANGED <<due, swept, etcdVars>>
  BY DEF Finish, CurlFails
<1>5. CASE pc[n] = "grant" /\ AfterGrant(n, res)
  BY <1>2, <1>3, <1>4, <1>5, GrantDone
<1>6. CASE pc[n] = "txn" /\ AfterTxn(n, res)
  BY <1>2, <1>3, <1>4, <1>6, TxnDone
<1>7. CASE pc[n] = "revoke" /\ AfterRevoke(n)
  BY <1>2, <1>3, <1>4, <1>7, RevokeDone
<1>8. CASE pc[n] = "keepalive" /\ AfterKeepalive(n, res)
  BY <1>2, <1>3, <1>4, <1>8, KeepaliveDone
<1>9. CASE pc[n] = "resign" /\ AfterResign(n)
  BY <1>2, <1>3, <1>4, <1>9, ResignDone
<1> QED
  BY <1>3, <1>5, <1>6, <1>7, <1>8, <1>9 DEF After

LEMMA StutterStep ==
  ASSUME IInv, UNCHANGED vars
  PROVE  IInv'
BY DEF IInv, vars, TypeOK, KeyLeased, Places, Fresh, Obtained, Holds, Kept,
       StaleParts, RefreshedLeft

LEMMA NextInv ==
  ASSUME IInv, Timely, [Next]_vars
  PROVE  IInv'
BY TickStep, SweepStep, CallDone, CrashStep, RestartStep, EtcdStep, SecondStep,
   StutterStep DEF Next, NodeStep

\* IInv is an invariant of the election, for every number of instances and
\* every interval, given that a lease outlasts a call and a timer period.
THEOREM Invariance ==
  ASSUME Timely
  PROVE  Spec => []IInv
<1>1. Init => IInv
  BY InitInv
<1>2. IInv /\ [Next]_vars => IInv'
  BY NextInv
<1> QED
  BY <1>1, <1>2, PTL DEF Spec

\* Every state is well typed (the fields of EtcdLeaderElector and etcd's lease
\* and key).
THEOREM TypeCorrect ==
  ASSUME Timely
  PROVE  Spec => []TypeOK
<1>1. IInv => TypeOK
  BY DEF IInv
<1> QED
  BY <1>1, Invariance, PTL

\* A leader whose refreshLease succeeded once holds the key when the sweep timer
\* finds its loop free, and through the first TTL - Margin seconds of the sweep
\* (two, with the intervals of the code), however long the sweep goes on.
THEOREM RefreshedLeaderHolds ==
  ASSUME Timely
  PROVE  Spec => []RefreshedHolds
<1>1. ASSUME IInv PROVE RefreshedHolds
  <2> SUFFICES ASSUME NEW n \in refreshed,
                      \/ pc[n] = "idle" /\ n \notin swept
                      \/ pc[n] = "sweep" /\ busy[n] < TTL - Margin
               PROVE  key = n
    BY DEF RefreshedHolds
  <2>1. n \in leader /\ n \in Nodes
    BY <1>1 DEF IInv, TypeOK
  <2>2. Margin < TTL
    BY Constants DEF Timely, Margin
  <2>3. lease[n] \in Nat /\ busy[n] \in Nat
    BY <1>1, <2>1, Constants DEF IInv, TypeOK
  <2>4. \/ lease[n] >= TTL - Margin
        \/ busy[n] < TTL - Margin /\ lease[n] >= TTL - Margin - busy[n]
    BY <1>1 DEF IInv, RefreshedLeft
  <2>5. lease[n] > 0
    BY <2>2, <2>3, <2>4, Constants
  <2> QED
    BY <1>1, <2>1, <2>5 DEF IInv, Holds
<1> QED
  BY <1>1, Invariance, PTL

\* An instance gives its leadership up at most a sweep and two calls behind the
\* loss of its key.
THEOREM StaleLeaderBound ==
  ASSUME Timely
  PROVE  Spec => []StaleBound
<1>1. ASSUME IInv PROVE StaleBound
  <2> SUFFICES ASSUME NEW n \in Nodes
               PROVE  stale[n] <= SweepMax + 2 * CurlMax
    BY DEF StaleBound
  <2>1. stale[n] \in Nat /\ busy[n] \in Nat
    BY <1>1 DEF IInv, TypeOK
  <2>2. CASE n \notin leader
    BY <1>1, <2>1, <2>2, Constants DEF IInv, StaleParts
  <2>3. CASE n \in leader /\ pc[n] = "idle"
    BY <1>1, <2>1, <2>3, Constants DEF IInv, StaleParts
  <2>4. CASE n \in leader /\ pc[n] = "sweep"
    BY <1>1, <2>1, <2>4, Constants DEF IInv, StaleParts, Places
  <2>5. CASE n \in leader /\ pc[n] = "keepalive"
    BY <1>1, <2>1, <2>5, Constants DEF IInv, StaleParts, Places, Calls
  <2>6. CASE n \in leader /\ pc[n] = "resign"
    BY <1>1, <2>1, <2>6, Constants DEF IInv, StaleParts, Places, Calls
  <2> QED
    BY <1>1, <2>2, <2>3, <2>4, <2>5, <2>6 DEF IInv, Places
<1> QED
  BY <1>1, Invariance, PTL

\* The safety of the election (electionTick beside the sweep of the same loop),
\* as the run checks it: all of the above at once.
THEOREM Safety ==
  ASSUME Timely
  PROVE  Spec => []ElectionSafe
<1>1. TypeOK /\ RefreshedHolds /\ StaleBound => ElectionSafe
  BY DEF ElectionSafe
<1>2. Spec => []TypeOK
  BY TypeCorrect
<1>3. Spec => []RefreshedHolds
  BY RefreshedLeaderHolds
<1>4. Spec => []StaleBound
  BY StaleLeaderBound
<1> QED
  BY <1>1, <1>2, <1>3, <1>4, PTL

---------------------------------------------------------------------------
(* The store.                                                              *)

\* What the event loop and the sweep can be doing.
IoStates ==
  {StoreIdle} \cup [at : {"grant", "keepalive", "put", "record"},
                    op : {"register", "heartbeat", "load"},
                    k : Keys, own : SUBSET Conns, lease : 0 .. MaxLeases]
              \cup [at : {"delete"}, ks : SUBSET Keys]

SweepStates ==
  {StoreIdle} \cup [at : {"diff"}, cur : SUBSET Keys, failed : BOOLEAN, fresh : SUBSET Keys]

Owned(k) == \E c \in open : k \in byConn[c]

\* What will be recorded has an owner already: a registration runs while its
\* connection is open, and a heartbeat renews the lease of an owned key.  Only
\* the loop closes connections, so neither changes under way.
IoOwned ==
  io.at \in {"grant", "keepalive", "put", "record"} =>
    /\ io.op = "register" => io.own # {} /\ io.own \subseteq open
    /\ io.op = "heartbeat" => Owned(io.k)
    /\ io.op = "load" => io.at = "put"
    /\ io.at = "keepalive" => io.op = "heartbeat"

\* A sweep whose read succeeded has seen every key that is in etcd, or the key
\* was put behind its read.
SweepSees ==
  sw.at = "diff" /\ ~sw.failed =>
    \A k \in Keys : kv[k] # NoLease => k \in sw.cur \cup sw.fresh

\* The store's inductive invariant.
StoreInv ==
  /\ StoreSafe
  /\ io \in IoStates /\ sw \in SweepStates
  /\ IoOwned
  /\ SweepSees

LEMMA IoIs ==
  ASSUME StoreInv, io.at \in {"grant", "keepalive", "put", "record"}
  PROVE  io \in [at : {"grant", "keepalive", "put", "record"},
                 op : {"register", "heartbeat", "load"},
                 k : Keys, own : SUBSET Conns, lease : 0 .. MaxLeases]
  BY DEF StoreInv, IoStates, StoreIdle

\* What Doing builds.
LEMMA DoingIs ==
  ASSUME NEW at \in {"grant", "keepalive", "put", "record"},
         NEW op \in {"register", "heartbeat", "load"},
         NEW k \in Keys, NEW own \in SUBSET Conns, NEW l \in 0 .. MaxLeases
  PROVE  Doing(at, op, k, own, l) \in IoStates
  BY DEF Doing, IoStates

LEMMA SweepIs ==
  ASSUME StoreInv, sw # StoreIdle
  PROVE  sw \in [at : {"diff"}, cur : SUBSET Keys, failed : BOOLEAN, fresh : SUBSET Keys]
  BY DEF StoreInv, SweepStates

LEMMA Bounds ==
  /\ MaxLeases \in Nat /\ MaxRestarts \in Nat
  /\ 0 \in 0 .. MaxLeases /\ 0 \in 0 .. Absent /\ Absent \in 0 .. Absent
  /\ \A l \in Leases : l \in 0 .. MaxLeases /\ l # NoLease /\ l # Absent
  /\ \A l \in 0 .. MaxLeases : l \in 0 .. Absent /\ l # Absent
  BY EtcdStoreAssumption DEF Absent, Leases, NoLease

\* A step of the loop that changes neither etcd nor the maps.
LEMMA IoStep ==
  ASSUME StoreInv, UNCHANGED <<kvVars, mapVars, open, sw>>, io' \in IoStates, IoOwned'
  PROVE  StoreInv'
  <1>1. io'.at \in {"idle", "grant", "keepalive", "put", "record", "delete"}
    BY DEF IoStates, StoreIdle
  <1> QED
    BY <1>1
    DEF StoreInv, StoreSafe, StoreTypeOK, OwnedUntilClosed, SweepSees, kvVars, mapVars, Stored

\* Every step keeps the invariant.
LEMMA StoreStep == StoreInv /\ [StoreNext]_storeVars => StoreInv'
  <1> SUFFICES ASSUME StoreInv, [StoreNext]_storeVars PROVE StoreInv'
    OBVIOUS
  <1>0. StoreTypeOK /\ OwnedUntilClosed /\ io \in IoStates /\ sw \in SweepStates /\ IoOwned /\ SweepSees
    BY DEF StoreInv, StoreSafe
  <1>1. ASSUME NEW l \in Leases, LeaseExpires(l) PROVE StoreInv'
    BY <1>0, <1>1, Bounds
    DEF StoreInv, StoreSafe, StoreTypeOK, OwnedUntilClosed, IoOwned, Owned, SweepSees,
        LeaseExpires, mapVars, Stored, NoLease
  <1>2. ASSUME NEW c \in Conns, Accept(c) PROVE StoreInv'
    BY <1>0, <1>2
    DEF StoreInv, StoreSafe, StoreTypeOK, OwnedUntilClosed, IoOwned, Owned, SweepSees,
        Accept, kvVars, mapVars, Stored
  <1>3. ASSUME NEW c \in Conns, NEW k \in Keys, RegisterInstance(c, k) PROVE StoreInv'
    <2>1. io' \in IoStates
      BY <1>3, DoingIs, Bounds DEF RegisterInstance, NoLease
    <2>2. IoOwned'
      BY <1>3 DEF RegisterInstance, IoOwned, Doing
    <2> QED
      BY <1>3, <2>1, <2>2, IoStep DEF RegisterInstance
  <1>4. ASSUME NEW k \in Keys, Heartbeat(k) PROVE StoreInv'
    <2>1. io' \in IoStates
      BY <1>4, DoingIs, Bounds DEF Heartbeat
    <2>2. Owned(k)
      BY <1>0, <1>4, Bounds DEF Heartbeat, OwnedUntilClosed, Owned
    <2>3. IoOwned'
      BY <1>4, <2>2 DEF Heartbeat, IoOwned, Doing, Owned, mapVars
    <2> QED
      BY <1>4, <2>1, <2>3, IoStep DEF Heartbeat
  <1>5. ASSUME NEW k \in Keys, ReportLoad(k) PROVE StoreInv'
    <2>1. io' \in IoStates
      BY <1>5, DoingIs, Bounds DEF ReportLoad
    <2>2. IoOwned'
      BY <1>5 DEF ReportLoad, IoOwned, Doing
    <2> QED
      BY <1>5, <2>1, <2>2, IoStep DEF ReportLoad
  <1>6. ASSUME Keepalive PROVE StoreInv'
    <2>1. io.k \in Keys /\ UNCHANGED <<kvVars, mapVars, open, sw>>
      BY <1>6, IoIs DEF Keepalive
    <2>2. CASE io' = StoreIdle
      BY <2>1, <2>2, IoStep DEF IoStates, IoOwned, StoreIdle
    <2>3. CASE io' = Doing("grant", "heartbeat", io.k, {}, NoLease)
      <3>1. io' \in IoStates
        BY <2>1, <2>3, DoingIs, Bounds DEF NoLease
      <3>2. io.op = "heartbeat"
        BY <1>0, <1>6 DEF Keepalive, IoOwned
      <3>3. IoOwned'
        BY <1>0, <1>6, <2>1, <2>3, <3>2 DEF Keepalive, IoOwned, Owned, Doing, mapVars
      <3> QED
        BY <2>1, <3>1, <3>3, IoStep
    <2> QED
      BY <1>6, <2>2, <2>3 DEF Keepalive
  <1>7. ASSUME Grant PROVE StoreInv'
    <2>1. io \in [at : {"grant", "keepalive", "put", "record"},
                  op : {"register", "heartbeat", "load"},
                  k : Keys, own : SUBSET Conns, lease : 0 .. MaxLeases]
      BY <1>7, IoIs DEF Grant
    <2>2. CASE granted < MaxLeases /\ granted' = granted + 1 /\ live' = live \cup {granted + 1}
                 /\ io' = [io EXCEPT !.at = "put", !.lease = granted + 1]
      <3>1. granted \in Nat /\ granted + 1 \in 0 .. MaxLeases /\ live' \subseteq 1 .. granted'
        BY <1>0, <2>2, Bounds DEF StoreTypeOK
      <3>2. io' \in [at : {"grant", "keepalive", "put", "record"},
                     op : {"register", "heartbeat", "load"},
                     k : Keys, own : SUBSET Conns, lease : 0 .. MaxLeases]
        BY <2>1, <2>2, <3>1
      <3>3. io' \in IoStates /\ io'.at = "put"
        BY <2>1, <2>2, <3>2 DEF IoStates
      <3>4. io'.op = io.op /\ io'.k = io.k /\ io'.own = io.own
        BY <2>1, <2>2
      <3>5. UNCHANGED <<kv, toLease, byConn, known, open, sw>>
        BY <1>7 DEF Grant, mapVars
      <3>6. IoOwned'
        BY <1>0, <1>7, <3>3, <3>4, <3>5 DEF Grant, IoOwned, Owned
      <3>7. StoreTypeOK'
        BY <1>0, <2>2, <3>1, <3>3, <3>5 DEF StoreTypeOK, Stored
      <3> QED
        BY <1>0, <3>3, <3>5, <3>6, <3>7
        DEF StoreInv, StoreSafe, OwnedUntilClosed, SweepSees
    <2>3. CASE UNCHANGED <<granted, live>>
                 /\ io' = IF io.op = "heartbeat" THEN StoreIdle ELSE [io EXCEPT !.at = "put"]
      <3>1. UNCHANGED <<kvVars, mapVars, open, sw>>
        BY <1>7, <2>3 DEF Grant, kvVars
      <3>2. CASE io.op = "heartbeat"
        BY <2>3, <3>1, <3>2, IoStep DEF IoStates, IoOwned, StoreIdle
      <3>3. CASE io.op # "heartbeat"
        <4>1. io' \in [at : {"grant", "keepalive", "put", "record"},
                       op : {"register", "heartbeat", "load"},
                       k : Keys, own : SUBSET Conns, lease : 0 .. MaxLeases]
          BY <2>1, <2>3, <3>3
        <4>2. io' \in IoStates
          BY <4>1 DEF IoStates
        <4>3. io'.at = "put" /\ io'.op = io.op /\ io'.k = io.k /\ io'.own = io.own
          BY <2>1, <2>3, <3>3
        <4>4. IoOwned'
          BY <1>0, <1>7, <3>1, <3>3, <4>3 DEF Grant, IoOwned, Owned, mapVars
        <4> QED
          BY <3>1, <4>2, <4>4, IoStep
      <3> QED
        BY <3>2, <3>3
    <2> QED
      BY <1>7, <2>2, <2>3 DEF Grant
  <1>8. ASSUME PutWithLease PROVE StoreInv'
    <2>1. io \in [at : {"grant", "keepalive", "put", "record"},
                  op : {"register", "heartbeat", "load"},
                  k : Keys, own : SUBSET Conns, lease : 0 .. MaxLeases]
      BY <1>8, IoIs DEF PutWithLease
    <2>2. UNCHANGED <<granted, live, toLease, byConn, known, open>>
      BY <1>8 DEF PutWithLease, mapVars
    <2>3. /\ kv' \in [Keys -> 0 .. MaxLeases]
          /\ \A k \in Keys : kv'[k] # kv[k] => k = io.k /\ kv'[k] \in live
      BY <1>0, <1>8, <2>1 DEF PutWithLease, EtcdPut, StoreTypeOK
    <2>4. \E ok \in BOOLEAN : io' = AfterPut(ok)
      BY <1>8 DEF PutWithLease
    <2>5. io' = StoreIdle \/ (io' = [io EXCEPT !.at = "record"] /\ io.op # "load")
      BY <2>4 DEF AfterPut
    <2>6. io' \in IoStates
      <3>1. CASE io' = StoreIdle
        BY <3>1 DEF IoStates
      <3>2. CASE io' = [io EXCEPT !.at = "record"]
        BY <2>1, <3>2 DEF IoStates
      <3> QED
        BY <2>5, <3>1, <3>2
    <2>7. IoOwned'
      <3>1. CASE io' = StoreIdle
        BY <3>1 DEF IoOwned, StoreIdle
      <3>2. CASE io' = [io EXCEPT !.at = "record"] /\ io.op # "load"
        <4>1. io'.at = "record" /\ io'.op = io.op /\ io'.k = io.k /\ io'.own = io.own
          BY <2>1, <3>2
        <4> QED
          BY <1>0, <1>8, <2>2, <3>2, <4>1 DEF IoOwned, Owned, PutWithLease
      <3> QED
        BY <2>5, <3>1, <3>2
    <2>8. sw' \in SweepStates /\ SweepSees'
      <3>1. CASE sw = StoreIdle
        BY <1>8, <3>1 DEF PutWithLease, SweepStates, SweepSees, StoreIdle
      <3>2. CASE sw # StoreIdle
        <4>1. sw \in [at : {"diff"}, cur : SUBSET Keys, failed : BOOLEAN, fresh : SUBSET Keys]
          BY <3>2, SweepIs
        <4>2. sw' = [sw EXCEPT !.fresh = @ \cup {io.k}]
          BY <1>8, <3>2 DEF PutWithLease
        <4>3. sw' \in [at : {"diff"}, cur : SUBSET Keys, failed : BOOLEAN, fresh : SUBSET Keys]
          BY <2>1, <4>1, <4>2
        <4>4. sw'.cur = sw.cur /\ sw'.failed = sw.failed /\ sw'.fresh = sw.fresh \cup {io.k}
          BY <4>1, <4>2
        <4>5. sw.at = "diff"
          BY <4>1
        <4>6. SweepSees'
          BY <1>0, <2>3, <4>4, <4>5 DEF SweepSees
        <4> QED
          BY <4>3, <4>6 DEF SweepStates
      <3> QED
        BY <3>1, <3>2
    <2>9. io'.at \in {"idle", "grant", "keepalive", "put", "record", "delete"}
            /\ sw'.at \in {"idle", "diff"}
      BY <2>6, <2>8 DEF IoStates, SweepStates, StoreIdle
    <2>10. StoreTypeOK'
      BY <1>0, <2>2, <2>3, <2>9 DEF StoreTypeOK, Stored
    <2> QED
      BY <1>0, <2>2, <2>6, <2>7, <2>8, <2>10 DEF StoreInv, StoreSafe, OwnedUntilClosed
  <1>9. ASSUME Record PROVE StoreInv'
    <2>1. io \in [at : {"grant", "keepalive", "put", "record"},
                  op : {"register", "heartbeat", "load"},
                  k : Keys, own : SUBSET Conns, lease : 0 .. MaxLeases]
      BY <1>9, IoIs DEF Record
    <2>2. toLease' = [toLease EXCEPT ![io.k] = io.lease] /\ known' = known \cup {io.k}
            /\ io' = StoreIdle
            /\ byConn' = [c \in Conns |-> IF c \in io.own THEN byConn[c] \cup {io.k} ELSE byConn[c]]
      BY <1>9 DEF Record
    <2>3. UNCHANGED <<kv, granted, live, open, sw>>
      BY <1>9 DEF Record, kvVars
    <2>4. byConn' \in [Conns -> SUBSET Keys]
      BY <1>0, <2>1, <2>2 DEF StoreTypeOK
    <2>5. toLease' \in [Keys -> 0 .. Absent]
      <3>1. io.lease \in 0 .. Absent
        BY <2>1, Bounds
      <3> QED
        BY <1>0, <2>1, <2>2, <3>1 DEF StoreTypeOK
    <2>6. StoreTypeOK'
      BY <1>0, <2>1, <2>2, <2>3, <2>4, <2>5 DEF StoreTypeOK, Stored, StoreIdle
    <2>7. OwnedUntilClosed'
      <3> SUFFICES ASSUME NEW k \in Keys, toLease'[k] # Absent
                   PROVE  \E c \in open : k \in byConn'[c]
        BY <2>3 DEF OwnedUntilClosed
      <3>1. open \subseteq Conns
        BY <1>0 DEF StoreTypeOK
      <3>2. CASE k # io.k
        BY <1>0, <2>2, <3>1, <3>2 DEF OwnedUntilClosed, StoreTypeOK
      <3>3. CASE k = io.k
        <4>1. io.op = "register" \/ io.op = "heartbeat"
          BY <1>0, <1>9, <2>1 DEF IoOwned, Record
        <4>2. CASE io.op = "register"
          BY <1>0, <1>9, <2>2, <3>1, <3>3, <4>2 DEF IoOwned, Record
        <4>3. CASE io.op = "heartbeat"
          BY <1>0, <1>9, <2>2, <3>1, <3>3, <4>3 DEF IoOwned, Record, Owned
        <4> QED
          BY <4>1, <4>2, <4>3
      <3> QED
        BY <3>2, <3>3
    <2> QED
      BY <1>0, <2>2, <2>3, <2>6, <2>7
      DEF StoreInv, StoreSafe, IoStates, IoOwned, SweepSees, StoreIdle
  <1>10. ASSUME NEW c \in Conns, DisconnectProvider(c) PROVE StoreInv'
    <2>1. UNCHANGED <<kv, granted, live, sw>> /\ open' = open \ {c}
            /\ byConn' = [byConn EXCEPT ![c] = {}] /\ known' = known \ byConn[c]
            /\ toLease' = [k \in Keys |-> IF k \in byConn[c] THEN Absent ELSE toLease[k]]
      BY <1>10 DEF DisconnectProvider, Erase, kvVars
    <2>2. io' \in IoStates /\ IoOwned'
      BY <1>0, <1>10 DEF DisconnectProvider, IoStates, IoOwned, StoreTypeOK, StoreIdle
    <2>3. io'.at \in {"idle", "grant", "keepalive", "put", "record", "delete"}
      BY <2>2 DEF IoStates, StoreIdle
    <2>4. StoreTypeOK'
      BY <1>0, <2>1, <2>3, Bounds DEF StoreTypeOK, Stored
    <2>5. OwnedUntilClosed'
      BY <1>0, <2>1 DEF OwnedUntilClosed, StoreTypeOK
    <2> QED
      BY <1>0, <2>1, <2>2, <2>4, <2>5 DEF StoreInv, StoreSafe, SweepSees
  <1>11. ASSUME NEW k \in Keys, DeleteKey(k) PROVE StoreInv'
    <2>1. UNCHANGED <<granted, live, toLease, byConn, known, open, sw>>
      BY <1>11 DEF DeleteKey, mapVars
    <2>2. io \in [at : {"delete"}, ks : SUBSET Keys]
      BY <1>0, <1>11 DEF DeleteKey, IoStates, StoreIdle
    <2>3. io' \in IoStates /\ io'.at \in {"idle", "delete"}
      BY <1>11, <2>2 DEF DeleteKey, IoStates, StoreIdle
    <2>4. IoOwned'
      BY <2>3 DEF IoOwned
    <2>5. kv' \in [Keys -> 0 .. MaxLeases] /\ \A j \in Keys : kv'[j] \in {kv[j], NoLease}
      BY <1>0, <1>11, Bounds DEF DeleteKey, StoreTypeOK, NoLease
    <2>6. StoreTypeOK'
      BY <1>0, <2>1, <2>3, <2>5 DEF StoreTypeOK, Stored
    <2> QED
      BY <1>0, <2>1, <2>3, <2>4, <2>5, <2>6
      DEF StoreInv, StoreSafe, OwnedUntilClosed, SweepSees
  <1>12. ASSUME SweepRead PROVE StoreInv'
    <2>1. UNCHANGED <<kv, granted, live, toLease, byConn, known, open, io>>
      BY <1>12 DEF SweepRead, kvVars, mapVars
    <2>2. PICK cur \in SUBSET Keys, failed \in BOOLEAN :
            /\ sw' = [at |-> "diff", cur |-> cur, failed |-> failed, fresh |-> {}]
            /\ failed \/ cur = Stored
      <3>1. PICK r \in ReadPrefix :
              sw' = [at |-> "diff", cur |-> r.cur, failed |-> r.failed, fresh |-> {}]
        BY <1>12 DEF SweepRead
      <3>2. r.cur \in SUBSET Keys /\ r.failed \in BOOLEAN /\ (r.failed \/ r.cur = Stored)
        <4>1. Stored \in SUBSET Keys
          BY DEF Stored
        <4>2. CASE r = [cur |-> Stored, failed |-> FALSE]
          BY <4>1, <4>2
        <4>3. CASE r = [cur |-> {}, failed |-> TRUE]
          BY <4>3
        <4> QED
          BY <4>2, <4>3 DEF ReadPrefix
      <3> QED
        BY <3>1, <3>2
    <2>3. sw' \in SweepStates /\ sw'.at = "diff"
      BY <2>2 DEF SweepStates
    <2>4. SweepSees'
      BY <2>1, <2>2 DEF SweepSees, Stored
    <2> QED
      BY <1>0, <2>1, <2>3, <2>4
      DEF StoreInv, StoreSafe, StoreTypeOK, OwnedUntilClosed, IoOwned, Owned, Stored
  <1>13. ASSUME SweepDiff PROVE StoreInv'
    <2>1. UNCHANGED <<kv, granted, live, byConn, open, io>> /\ sw' = StoreIdle
            /\ known' = (known \ Vanished) \cup sw.cur
            /\ toLease' = [k \in Keys |-> IF k \in Vanished THEN Absent ELSE toLease[k]]
      BY <1>13 DEF SweepDiff, kvVars
    <2>2. sw.cur \subseteq Keys
      BY <1>13, SweepIs DEF SweepDiff, StoreIdle
    <2>3. StoreTypeOK'
      BY <1>0, <2>1, <2>2, Bounds DEF StoreTypeOK, Stored, StoreIdle
    <2> QED
      BY <1>0, <2>1, <2>3
      DEF StoreInv, StoreSafe, OwnedUntilClosed, IoOwned, Owned, SweepStates, SweepSees, StoreIdle
  <1>14. ASSUME RegistryRestarts PROVE StoreInv'
    BY <1>0, <1>14, Bounds
    DEF StoreInv, StoreSafe, StoreTypeOK, OwnedUntilClosed, IoOwned, SweepSees, IoStates,
        SweepStates, RegistryRestarts, kvVars, Stored, StoreIdle
  <1>15. CASE UNCHANGED storeVars
    BY <1>0, <1>15
    DEF StoreInv, StoreSafe, StoreTypeOK, OwnedUntilClosed, IoOwned, Owned, SweepSees, storeVars, Stored
  <1> QED
    BY <1>1, <1>2, <1>3, <1>4, <1>5, <1>6, <1>7, <1>8, <1>9, <1>10, <1>11, <1>12, <1>13,
       <1>14, <1>15
    DEF StoreNext

LEMMA StoreInitially == StoreInit => StoreInv
  BY Bounds
  DEF StoreInv, StoreSafe, StoreTypeOK, OwnedUntilClosed, IoOwned, SweepSees, IoStates,
      SweepStates, StoreInit, Stored, StoreIdle, NoLease

\* For any number of keys, connections, leases and restarts: every stored key
\* hangs on a live lease, and every lease the store remembers belongs to a key
\* of an open connection, however calls fail and the sweep runs in between.
THEOREM StoreSafety == StoreSpec => []StoreSafe
  <1>1. StoreInv => StoreSafe
    BY DEF StoreInv
  <1> QED
    BY <1>1, StoreInitially, StoreStep, PTL DEF StoreSpec

\* A sweep whose read succeeded announces no key that was in etcd all the time
\* since: an OFFLINE for a stored key has one of the two known causes.
THEOREM FalseOffline == StoreSpec => FalseOfflineCauses
  <1>1. StoreInv => [SweepDiff => \A k \in Vanished :
                       kv[k] = NoLease \/ sw.failed \/ k \in sw.fresh]_storeVars
    BY DEF StoreInv, StoreSafe, StoreTypeOK, SweepSees, SweepDiff, Vanished
  <1> QED
    BY <1>1, StoreInitially, StoreStep, PTL DEF StoreSpec, FalseOfflineCauses
=============================================================================
