------------------------- MODULE LeaderElectionInv -------------------------
(***************************************************************************)
(* The inductive invariant behind the safety properties of LeaderElection. *)
(* The properties speak of the moments at which an instance acts; the      *)
(* invariant says, for every point of a campaign or a refresh, how much of *)
(* the lease is left and how long the key can have been lost.              *)
(***************************************************************************)
EXTENDS LeaderElection

\* What the intervals of the code satisfy (3 s and 1 s against 5 s): a lease
\* outlasts a call and the time between two ticks.  Nothing is said of sweeps.
Timely == CurlMax < TTL /\ Period < TTL

\* The leader key never outlives its lease, so that a crashed or partitioned
\* leader blocks the election for at most TTL seconds.
KeyLeased ==
  /\ key \in Nodes => lease[key] > 0
  /\ key = "orphan" => orphan > 0

\* Where leaders and followers can be.
Places ==
  \A n \in Nodes :
    /\ n \in leader => pc[n] \in {"idle", "sweep", "keepalive", "resign"}
    /\ n \notin leader => pc[n] \in {"idle", "grant", "txn", "revoke", "down"}
    /\ pc[n] = "sweep" => n \in swept
    /\ pc[n] = "grant" => step[n] # "no"
    /\ pc[n] \in {"idle", "down"} => busy[n] = 0
    /\ pc[n] \in Calls => busy[n] <= CurlMax
    /\ pc[n] = "sweep" => busy[n] <= SweepMax

\* The lease in use was obtained since the last tick.
Obtained(n) ==
  \/ pc[n] = "grant" /\ step[n] = "yes"
  \/ pc[n] = "txn"
  \/ pc[n] = "keepalive" /\ step[n] = "yes"
  \/ n \in leader /\ pc[n] \in {"idle", "sweep"}

Fresh ==
  \A n \in Nodes :
    Obtained(n) /\ due[n] > 0 => lease[n] >= TTL - (Period - due[n])

\* A leader, or a campaign that won, holds the key as long as its lease lasts.
Holds ==
  \A n \in Nodes :
    /\ n \in leader \/ (pc[n] = "txn" /\ step[n] = "yes")
    /\ lease[n] > 0
    => key = n

\* How long the key of a leader can have been lost.
StaleParts ==
  \A n \in Nodes :
    /\ n \notin leader \/ key = n => stale[n] = 0
    /\ pc[n] = "idle" => stale[n] <= (IF n \in swept THEN SweepMax ELSE 0)
    /\ pc[n] = "sweep" => stale[n] <= busy[n]
    /\ pc[n] = "keepalive" => stale[n] <= SweepMax + busy[n]
    /\ pc[n] = "resign" => stale[n] <= SweepMax + CurlMax + busy[n]

\* A lease that was just kept alive.
Kept ==
  \A n \in Nodes :
    pc[n] = "keepalive" /\ step[n] = "yes" => lease[n] >= TTL - busy[n]

\* How much of its lease a refreshed leader has left.
RefreshedLeft ==
  \A n \in refreshed :
    /\ pc[n] = "idle" /\ n \notin swept => lease[n] >= TTL - Margin
    /\ pc[n] = "idle" /\ n \in swept => lease[n] >= TTL - Margin - SweepMax
    /\ pc[n] = "sweep" => lease[n] >= TTL - Margin - busy[n]

\* The inductive invariant of LeaderElection.
IInv ==
  /\ TypeOK
  /\ KeyLeased
  /\ Places
  /\ Fresh
  /\ Holds
  /\ Kept
  /\ StaleParts
  /\ RefreshedLeft
=============================================================================
