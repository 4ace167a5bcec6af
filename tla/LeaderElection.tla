--------------------------- MODULE LeaderElection ---------------------------
(***************************************************************************)
(* server/etcd_leader_election.cpp: the registry instances elect a leader  *)
(* by creating one key in etcd, bound to a lease.  The leader keeps the    *)
(* lease alive; only the leader sweeps expired providers.                  *)
(*                                                                         *)
(* Election and sweep run on one event loop per instance, so an instance   *)
(* does one thing at a time.  Every curl_post is a call of its own: etcd   *)
(* may apply it or not, and the instance may see the response or an error  *)
(* (at the latest when CURLOPT_TIMEOUT_MS is over), in every combination.  *)
(*                                                                         *)
(* Time is counted in seconds.  Lease ids are unique and an instance only  *)
(* ever names the last lease it was granted, so a lease is identified by   *)
(* its instance; a key that outlives that is bound to "orphan".            *)
(***************************************************************************)
EXTENDS Integers, FiniteSets

CONSTANTS
  Nodes,       \* the registry instances
  TTL,         \* LEASE_TTL_SEC
  Period,      \* TICK_INTERVAL_SEC
  CurlMax,     \* CURLOPT_TIMEOUT_MS, in seconds
  Prompt,      \* seconds a call takes at most while etcd is well
  SweepMax,    \* how long one sweep keeps the loop busy: a call of the store,
               \* and the one it waits for on the store's mutex
  MaxFaults    \* bound: failed calls, slow seconds and crashes of a behaviour

ASSUME ElectionAssumption ==
  /\ TTL \in Nat \ {0} /\ Period \in Nat \ {0} /\ CurlMax \in Nat \ {0}
  /\ Prompt \in 1 .. CurlMax
  /\ SweepMax \in Nat /\ MaxFaults \in Nat
  /\ "none" \notin Nodes /\ "orphan" \notin Nodes

VARIABLES
  pc,         \* what the loop of an instance is doing
  step,       \* of the curl_post in progress: "sent", "yes" or "no" once applied
  busy,       \* seconds the current call or sweep has taken
  due,        \* seconds until the election timer fires
  leader,     \* _is_leader
  refreshed,  \* history: the leader's lease was kept alive at least once
  swept,      \* the sweep timer fired since the last election tick
  lease,      \* etcd: seconds left of the lease an instance was granted last
  key,        \* etcd: the lease the leader key is bound to
  orphan,     \* etcd: seconds left of a superseded lease that holds the key
  stale,      \* history: seconds since the key of a leader was lost
  faults      \* number of faults left

etcdVars == <<lease, key, orphan>>
vars == <<pc, step, busy, due, leader, refreshed, swept, lease, key, orphan,
          stale, faults>>

Calls == {"grant", "txn", "revoke", "keepalive", "resign"}

Init ==
  /\ pc = [n \in Nodes |-> "idle"]
  /\ step = [n \in Nodes |-> "sent"]
  /\ busy = [n \in Nodes |-> 0]
  /\ due = [n \in Nodes |-> Period]
  /\ leader = {}
  /\ refreshed = {}
  /\ swept = {}
  /\ lease = [n \in Nodes |-> 0]
  /\ key = "none"
  /\ orphan = 0
  /\ stale = [n \in Nodes |-> 0]
  /\ faults = MaxFaults

\* A fault is allowed, and counted.
Fault == faults > 0 /\ faults' = faults - 1

\* curl_post(path, body): the loop blocks until Finish or CurlFails.
Post(n, call) ==
  /\ pc' = [pc EXCEPT ![n] = call]
  /\ step' = [step EXCEPT ![n] = "sent"]
  /\ busy' = [busy EXCEPT ![n] = 0]

\* The handler ends and the loop waits for its next timer.
Idle(n) ==
  /\ pc' = [pc EXCEPT ![n] = "idle"]
  /\ step' = [step EXCEPT ![n] = "sent"]
  /\ busy' = [busy EXCEPT ![n] = 0]

---------------------------------------------------------------------------
\* electionTick: a leader keeps its lease alive, a follower campaigns.
ElectionTick(n) ==
  /\ pc[n] = "idle"
  /\ due[n] = 0
  /\ Post(n, IF n \in leader THEN "keepalive" ELSE "grant")
  /\ due' = [due EXCEPT ![n] = Period]
  /\ swept' = swept \ {n}
  /\ UNCHANGED <<leader, refreshed, etcdVars, stale, faults>>

\* The sweep timer fires on the same loop; only a leader sweeps.
SweepStart(n) ==
  /\ pc[n] = "idle"
  /\ n \in leader
  /\ n \notin swept
  /\ pc' = [pc EXCEPT ![n] = "sweep"]
  /\ swept' = swept \cup {n}
  /\ UNCHANGED <<step, busy, due, leader, refreshed, etcdVars, stale, faults>>

SweepEnd(n) ==
  /\ pc[n] = "sweep"
  /\ Idle(n)
  /\ UNCHANGED <<due, leader, refreshed, swept, etcdVars, stale, faults>>

\* What follows the response ok ("yes" / "no") or the error ("fail") of a call.
AfterGrant(n, res) ==
  /\ IF res = "fail" THEN Idle(n) ELSE Post(n, "txn")
  /\ UNCHANGED <<leader, refreshed>>

\* Deviation: "succeeded" is not looked at.
AfterTxnAny(n, res) ==
  /\ IF res # "fail"
     THEN leader' = leader \cup {n} /\ Idle(n)
     ELSE leader' = leader /\ Post(n, "revoke")
  /\ UNCHANGED refreshed

AfterTxn(n, res) ==
  /\ IF res = "yes"
     THEN leader' = leader \cup {n} /\ Idle(n)
     ELSE leader' = leader /\ Post(n, "revoke")
  /\ UNCHANGED refreshed

AfterRevoke(n) ==
  /\ Idle(n)
  /\ UNCHANGED <<leader, refreshed>>

\* Deviation: an answer without a TTL counts as a renewed lease.
AfterKeepaliveAny(n, res) ==
  /\ IF res # "fail"
     THEN refreshed' = refreshed \cup {n} /\ Idle(n)
     ELSE refreshed' = refreshed /\ Post(n, "resign")
  /\ UNCHANGED leader

\* Deviation: a failed keepalive is simply tried again.
AfterKeepaliveTolerant(n, res) ==
  /\ IF res # "no"
     THEN refreshed' = refreshed \cup {n} /\ Idle(n)
     ELSE refreshed' = refreshed /\ Post(n, "resign")
  /\ UNCHANGED leader

AfterKeepalive(n, res) ==
  /\ IF res = "yes"
     THEN refreshed' = refreshed \cup {n} /\ Idle(n)
     ELSE refreshed' = refreshed /\ Post(n, "resign")
  /\ UNCHANGED leader

\* becomeFollower gives the leadership up behind its revoke, whatever came of it.
AfterResign(n) ==
  /\ Idle(n)
  /\ leader' = leader \ {n}
  /\ refreshed' = refreshed \ {n}

After(n, res) ==
  \/ pc[n] = "grant" /\ AfterGrant(n, res)
  \/ pc[n] = "txn" /\ AfterTxn(n, res)
  \/ pc[n] = "revoke" /\ AfterRevoke(n)
  \/ pc[n] = "keepalive" /\ AfterKeepalive(n, res)
  \/ pc[n] = "resign" /\ AfterResign(n)

\* A leader that is not one any more has nothing to be stale about.
Settle == stale' = [m \in Nodes |-> IF m \in leader' THEN stale[m] ELSE 0]

Finish(n) ==
  /\ step[n] # "sent"
  /\ After(n, step[n])
  /\ Settle
  /\ UNCHANGED <<due, swept, etcdVars, faults>>

CurlFails(n) ==
  /\ Fault
  /\ After(n, "fail")
  /\ Settle
  /\ UNCHANGED <<due, swept, etcdVars>>

\* The process dies; etcd keeps its lease and, until that is over, its key.
Crash(n) ==
  /\ pc[n] # "down"
  /\ Fault
  /\ pc' = [pc EXCEPT ![n] = "down"]
  /\ step' = [step EXCEPT ![n] = "sent"]
  /\ busy' = [busy EXCEPT ![n] = 0]
  /\ due' = [due EXCEPT ![n] = Period]
  /\ leader' = leader \ {n}
  /\ refreshed' = refreshed \ {n}
  /\ swept' = swept \ {n}
  /\ Settle
  /\ UNCHANGED etcdVars

\* Constructor and start(): a follower that remembers no lease, with its first
\* tick an interval away.
Restart(n) ==
  /\ pc[n] = "down"
  /\ Idle(n)
  /\ UNCHANGED <<due, leader, refreshed, swept, etcdVars, stale, faults>>

---------------------------------------------------------------------------
(* etcd.                                                                   *)

\* A new lease; a key still bound to the instance's previous one is orphaned.
EtcdGrant(n) ==
  /\ pc[n] = "grant"
  /\ lease' = [lease EXCEPT ![n] = TTL]
  /\ IF key = n THEN key' = "orphan" /\ orphan' = lease[n]
                ELSE UNCHANGED <<key, orphan>>
  /\ step' = [step EXCEPT ![n] = "yes"]

\* Create the key if its version is 0; refused without a live lease.
EtcdTxn(n) ==
  /\ pc[n] = "txn"
  /\ LET ok == key = "none" /\ lease[n] > 0
     IN  /\ key' = IF ok THEN n ELSE key
         /\ step' = [step EXCEPT ![n] = IF ok THEN "yes" ELSE "no"]
  /\ UNCHANGED <<lease, orphan>>

EtcdKeepalive(n) ==
  /\ pc[n] = "keepalive"
  /\ lease' = [lease EXCEPT ![n] = IF lease[n] > 0 THEN TTL ELSE 0]
  /\ step' = [step EXCEPT ![n] = IF lease[n] > 0 THEN "yes" ELSE "no"]
  /\ UNCHANGED <<key, orphan>>

EtcdRevoke(n) ==
  /\ pc[n] \in {"revoke", "resign"}
  /\ lease' = [lease EXCEPT ![n] = 0]
  /\ key' = IF key = n THEN "none" ELSE key
  /\ step' = [step EXCEPT ![n] = "yes"]
  /\ UNCHANGED orphan

Apply(n) ==
  /\ step[n] = "sent"
  /\ EtcdGrant(n) \/ EtcdTxn(n) \/ EtcdKeepalive(n) \/ EtcdRevoke(n)
  /\ UNCHANGED <<pc, busy, due, leader, refreshed, swept, stale, faults>>

Less(x) == IF x > 0 THEN x - 1 ELSE 0

\* Deviation: the key is put without its lease.
KeyUnbound == FALSE

\* The lease the key is bound to is over.
KeyExpires ==
  \/ key = "orphan" /\ orphan <= 1
  \/ key \in Nodes /\ lease[key] <= 1

\* A call that etcd is slow to answer; every second of it counts as a fault.
Slow(n) == pc[n] \in Calls /\ busy[n] >= Prompt

\* An instance that cannot let a second pass: its call or sweep has reached its
\* limit, or its election timer is due.
Urgent(n) ==
  \/ pc[n] \in Calls /\ busy[n] >= CurlMax
  \/ Slow(n) /\ faults = 0
  \/ pc[n] = "sweep" /\ busy[n] >= SweepMax
  \/ pc[n] = "idle" /\ due[n] = 0

\* A second passes; leases run off and the key goes with its lease.
Second ==
  /\ \A n \in Nodes : ~Urgent(n)
  /\ lease' = [n \in Nodes |-> Less(lease[n])]
  /\ orphan' = Less(orphan)
  /\ key' = IF KeyExpires THEN "none" ELSE key
  /\ busy' = [n \in Nodes |-> IF pc[n] \in {"idle", "down"} THEN 0 ELSE busy[n] + 1]
  /\ due' = [n \in Nodes |-> IF pc[n] = "down" THEN due[n] ELSE Less(due[n])]
  /\ stale' = [n \in Nodes |->
                 IF n \in leader /\ key # n THEN stale[n] + 1 ELSE stale[n]]
  /\ IF \E n \in Nodes : Slow(n) THEN Fault ELSE UNCHANGED faults
  /\ UNCHANGED <<pc, step, leader, refreshed, swept>>

NodeStep(n) == ElectionTick(n) \/ SweepStart(n) \/ SweepEnd(n) \/ Finish(n)

Next ==
  \/ \E n \in Nodes : NodeStep(n) \/ Apply(n) \/ CurlFails(n)
                       \/ Crash(n) \/ Restart(n)
  \/ Second

Spec == Init /\ [][Next]_vars

\* The loops and the clock run, and etcd answers the calls that are not faults.
Fairness ==
  /\ WF_vars(Second)
  /\ \A n \in Nodes : WF_vars(ElectionTick(n)) /\ WF_vars(SweepEnd(n))
  /\ \A n \in Nodes : WF_vars(Apply(n)) /\ WF_vars(Finish(n))

FairSpec == Spec /\ Fairness

---------------------------------------------------------------------------
\* Type correctness of instances and etcd.
TypeOK ==
  /\ pc \in [Nodes -> Calls \cup {"idle", "sweep", "down"}]
  /\ step \in [Nodes -> {"sent", "yes", "no"}]
  /\ busy \in [Nodes -> Nat]
  /\ due \in [Nodes -> 0 .. Period]
  /\ leader \subseteq Nodes
  /\ refreshed \subseteq leader
  /\ swept \subseteq Nodes
  /\ lease \in [Nodes -> 0 .. TTL]
  /\ key \in Nodes \cup {"none", "orphan"}
  /\ orphan \in 0 .. TTL
  /\ stale \in [Nodes -> Nat]
  /\ faults \in Nat

\* How much of its lease can be gone when a leader that has kept it alive starts
\* to sweep: the time the keepalive took, or that to the next tick.
Margin == IF CurlMax > Period THEN CurlMax ELSE Period

\* An instance that was elected and kept its lease alive holds the key whenever
\* its loop is free to sweep, and through the first TTL - Margin seconds of the
\* sweep: until then no other instance sweeps beside it.  A longer sweep (a call
\* of three seconds behind another one of three) outlives the lease.
RefreshedHolds ==
  \A n \in refreshed :
    /\ pc[n] = "idle" /\ n \notin swept => key = n
    /\ pc[n] = "sweep" /\ busy[n] < TTL - Margin => key = n

\* An instance goes on believing that it is the leader, without holding the key,
\* for a sweep, a keepalive that fails and a revoke at most.
StaleBound == \A n \in Nodes : stale[n] <= SweepMax + 2 * CurlMax

\* What keeps two instances from sweeping against each other, as far as the code
\* does: a refreshed leader holds the key when it starts to sweep and for a while
\* after, and a deposed one stops believing within a bounded time.
ElectionSafe == TypeOK /\ RefreshedHolds /\ StaleBound

\* Once the faults are over there is always a leader again, unless every instance
\* is down: the key of a dead leader expires and the next campaign creates it.
Failover == leader = {} ~> leader # {} \/ \A n \in Nodes : pc[n] = "down"
=============================================================================
