----------------------------- MODULE RpcClient -----------------------------
(***************************************************************************)
(* client/rpc_client.hpp with client/caller.hpp: calls of one method by    *)
(* several threads, over the candidates of MethodHost, the pool of         *)
(* connections and the breaker (NodeBreaker, CircuitBreaker).              *)
(*                                                                         *)
(* A job is a call on its way.  Its kinds are the overloads of call and    *)
(* call_proto: "sync" and "proto" wait for the response, "future" waits    *)
(* for a future that the event loop fills, "callback" only hands over the  *)
(* request; the event loop reports these two to the breaker.  Connections  *)
(* are TCP: a send fails only when the link is down.  Back-off delays take *)
(* no time here.                                                           *)
(* Of the breaker only its answers and what it is told are kept here: it   *)
(* may admit or reject any attempt.                                        *)
(***************************************************************************)
EXTENDS MethodHost

CONSTANTS
  Callers,
  Listed,        \* the hosts of the first DISCOVER answer
  CallKinds,     \* the overloads that a thread calls
  MaxRetries,    \* _retry_config.max_retries
  MaxCalls,      \* bound: calls of a behaviour
  MaxClients,    \* bound: connections made
  MaxFaults,     \* bound: links broken, hosts gone down
  MaxChanges     \* bound: ONLINE and OFFLINE notifications

ASSUME RpcClientAssumption ==
  /\ {MaxRetries, MaxCalls, MaxClients, MaxFaults, MaxChanges} \subseteq Nat
  /\ Listed \subseteq Hosts
  /\ CallKinds \in [Callers -> SUBSET {"sync", "future", "callback", "proto"}]
  /\ IsFiniteSet(Callers) /\ IsFiniteSet(Listed)

VARIABLES
  host,       \* the list of MethodHost
  pool,       \* _rpc_clients: the client of a host, 0 when there is none
  clients,    \* number of clients made
  up,         \* clients whose link is there
  erased,     \* history: clients taken out of the pool
  reach,      \* hosts that accept connections
  offlining,  \* hosts whose OFFLINE has reached the cache and not yet the pool
  job,        \* what a thread is doing
  out,        \* requests of a host whose response nobody waits for any more
  owed,       \* history: admitted requests not reported to the breaker yet
  calls, faults, changes

poolVars == <<pool, clients, up, erased>>
worldVars == <<reach, faults, changes>>
clientVars == <<host, poolVars, worldVars, offlining, job, out, owed, calls>>

NoJob == [pc |-> "none"]
Clients == 1 .. MaxClients

ClientInit ==
  /\ host = SetToSeq({[host |-> h, load |-> 0] : h \in Listed})
  /\ pool = [h \in Hosts |-> 0]
  /\ clients = 0 /\ up = {} /\ erased = {}
  /\ reach = Hosts /\ faults = 0 /\ changes = 0
  /\ offlining = {}
  /\ job = [t \in Callers |-> NoJob]
  /\ out = [h \in Hosts |-> 0]
  /\ owed = [h \in Hosts |-> 0]
  /\ calls = 0

---------------------------------------------------------------------------
(* Notifications and faults.                                               *)

Online(h, l) ==
  /\ h \notin offlining
  /\ changes < MaxChanges
  /\ changes' = changes + 1
  /\ host' = AppendHost(host, RebuildRing(host), h, l).host
  /\ UNCHANGED <<poolVars, reach, faults, offlining, job, out, owed, calls>>

\* OFFLINE: the list first ...
Offline(h) ==
  /\ changes < MaxChanges
  /\ changes' = changes + 1
  /\ h \in HostsOf(host)
  /\ host' = RemoveHost(host, RebuildRing(host), h).host
  /\ offlining' = offlining \cup {h}
  /\ UNCHANGED <<poolVars, reach, faults, job, out, owed, calls>>

\* ... then delClient: pool and breakers.
DelClient(h) ==
  /\ h \in offlining
  /\ offlining' = offlining \ {h}
  /\ pool' = [pool EXCEPT ![h] = 0]
  /\ erased' = erased \cup ({pool[h]} \ {0})
  /\ UNCHANGED <<host, clients, up, worldVars, job, out, owed, calls>>

LinkBreaks(c) ==
  /\ faults < MaxFaults
  /\ c \in up
  /\ up' = up \ {c}
  /\ faults' = faults + 1
  /\ UNCHANGED <<host, pool, clients, erased, reach, changes, offlining, job, out, owed, calls>>

\* A host dies and takes its links along.
HostDies(h) ==
  /\ faults < MaxFaults
  /\ h \in reach
  /\ reach' = reach \ {h}
  /\ up' = up \ ({pool[h]} \cup {job[t].client : t \in {u \in Callers : job[u] # NoJob /\ job[u].host = h}})
  /\ faults' = faults + 1
  /\ UNCHANGED <<host, pool, clients, erased, changes, offlining, job, out, owed, calls>>

---------------------------------------------------------------------------
(* A call until it has a connection.                                       *)

\* getCandidates: one list for the whole call.  The index is shared with calls
\* of other threads: the rotation may be anywhere.
StartCall(t, kind) ==
  /\ job[t] = NoJob
  /\ calls < MaxCalls
  /\ host # <<>>
  /\ \E i \in 0 .. Len(host) - 1 :
     \E c \in SelectHosts("ROUND_ROBIN", host, EmptyRing, i, NoKey) :
       job' = [job EXCEPT ![t] =
         [pc |-> "pick", kind |-> kind, cands |-> [n \in DOMAIN c |-> c[n].host],
          tried |-> {}, attempt |-> 0, host |-> c[1].host, client |-> 0]]
  /\ calls' = calls + 1
  /\ UNCHANGED <<host, poolVars, worldVars, offlining, out, owed>>

\* Deviation: the first candidate every time.
PickFront(j) == [j EXCEPT !.host = j.cands[1], !.tried = {j.cands[1]}]

\* pickUntriedCandidate: the first one not tried, or the first when all were.
PickUntriedCandidate(j) ==
  LET untried == {i \in DOMAIN j.cands : j.cands[i] \notin j.tried}
      h == j.cands[IF untried = {} THEN 1 ELSE Min(untried)]
  IN  [j EXCEPT !.host = h, !.tried = IF untried = {} THEN {h} ELSE j.tried \cup {h}]

\* A retrying call takes an untried candidate, a callback call the next one;
\* getClient looks the pool up.
Pick(t) ==
  /\ job[t].pc = "pick"
  /\ LET j == IF job[t].kind = "callback"
              THEN [job[t] EXCEPT !.host = job[t].cands[job[t].attempt + 1]]
              ELSE PickUntriedCandidate(job[t])
     IN  job' = [job EXCEPT ![t] = [j EXCEPT !.client = pool[j.host],
                                             !.pc = IF pool[j.host] = 0 THEN "connect" ELSE "conn"]]
  /\ UNCHANGED <<host, poolVars, worldVars, offlining, out, owed, calls>>

\* Deviation: the pool is not looked up again.
NewClientOverwrites(t) ==
  /\ job[t].pc = "connect"
  /\ job[t].host \in reach
  /\ clients < MaxClients
  /\ clients' = clients + 1
  /\ pool' = [pool EXCEPT ![job[t].host] = clients + 1]
  /\ up' = up \cup {clients + 1}
  /\ job' = [job EXCEPT ![t].pc = "conn", ![t].client = clients + 1]
  /\ UNCHANGED <<host, erased, worldVars, offlining, out, owed, calls>>

\* newClient: connect() returns when the host accepts, and not before; another
\* thread's client that is in the pool by then is used, the new one closed.
NewClient(t) ==
  /\ job[t].pc = "connect"
  /\ job[t].host \in reach
  /\ clients < MaxClients
  /\ clients' = clients + 1
  /\ LET h == job[t].host IN
       \/ /\ pool[h] = 0
          /\ pool' = [pool EXCEPT ![h] = clients + 1]
          /\ up' = up \cup {clients + 1}
          /\ job' = [job EXCEPT ![t].pc = "conn", ![t].client = clients + 1]
       \/ /\ pool[h] # 0
          /\ job' = [job EXCEPT ![t].pc = "conn", ![t].client = pool[h]]
          /\ UNCHANGED <<pool, up>>
  /\ UNCHANGED <<host, erased, worldVars, offlining, out, owed, calls>>

---------------------------------------------------------------------------
(* The end of an attempt.                                                  *)

IsRetryable(err) == err \in {"TIMEOUT", "CONN_CLOSED", "CIRCUIT_OPEN", "BACKOFF"}

\* A callback call has no retries and ends with its candidates.
GivesUp(j, err) ==
  IF j.kind = "callback" THEN j.attempt + 1 >= Len(j.cands)
  ELSE ~IsRetryable(err) \/ j.attempt >= MaxRetries

\* Deviation: an error that is not worth a retry is retried as well, for ever.
AfterAttemptAlways(j, err) ==
  IF err = "OK" THEN NoJob ELSE [j EXCEPT !.pc = "pick", !.attempt = j.attempt + 1, !.client = 0]

\* The call returns, or goes on with the next attempt.
AfterAttempt(j, err) ==
  IF err = "OK" \/ GivesUp(j, err) THEN NoJob
  ELSE [j EXCEPT !.pc = "pick", !.attempt = j.attempt + 1, !.client = 0]

---------------------------------------------------------------------------
(* An attempt.                                                             *)

Linked(t) == job[t].client \in up

\* client->connection() is null: onConnectionUnavailable tells the breaker of
\* a failure without having asked it.
ConnectionUnavailable(t) ==
  /\ job[t].pc = "conn"
  /\ ~Linked(t)
  /\ job' = [job EXCEPT ![t] = AfterAttempt(job[t], "CONN_CLOSED")]
  /\ UNCHANGED <<host, poolVars, worldVars, offlining, out, owed, calls>>

\* allowRequest admits the attempt ...
Admitted(t) ==
  /\ job[t].pc = "conn"
  /\ Linked(t)
  /\ job' = [job EXCEPT ![t].pc = "send"]
  /\ owed' = [owed EXCEPT ![job[t].host] = @ + 1]
  /\ UNCHANGED <<host, poolVars, worldVars, offlining, out, calls>>

\* ... or rejects it.
Rejected(t) ==
  /\ job[t].pc = "conn"
  /\ Linked(t)
  /\ job' = [job EXCEPT ![t] = AfterAttempt(job[t], "CIRCUIT_OPEN")]
  /\ UNCHANGED <<host, poolVars, worldVars, offlining, out, owed, calls>>

\* onSuccess or onFailure of the breaker for an attempt it admitted.
Reports(h) == owed' = [owed EXCEPT ![h] = @ - 1]

\* Deviation: a failure ends the attempt and is kept from the breaker.
EndsUncounted(t, err) ==
  /\ job' = [job EXCEPT ![t] = AfterAttempt(job[t], err)]
  /\ UNCHANGED owed

\* The attempt ends with err, and the breaker hears of it.
Ends(t, err) ==
  /\ Reports(job[t].host)
  /\ job' = [job EXCEPT ![t] = AfterAttempt(job[t], err)]

\* fromRespCode: what the code of a response means for the caller.
FromRespCode(code) ==
  CASE code = "TIMEOUT" -> "TIMEOUT" [] code = "BACKOFF" -> "BACKOFF" [] OTHER -> "SERVICE_ERROR"

\* The send fails at once, whatever the kind.
AttemptSendFails(t) ==
  /\ job[t].pc \in {"send", "resend"}
  /\ ~Linked(t)
  /\ Ends(t, "CONN_CLOSED")
  /\ UNCHANGED <<host, poolVars, worldVars, offlining, out, calls>>

\* call and call_proto wait: no response in time is a failure of the host.
SyncTimesOut(t) ==
  /\ job[t].pc \in {"send", "resend"}
  /\ job[t].kind \in {"sync", "proto"}
  /\ Linked(t)
  /\ Ends(t, "TIMEOUT")
  /\ UNCHANGED <<host, poolVars, worldVars, offlining, out, calls>>

\* A response, or one whose type or body cannot be read ("OTHER").  The first
\* BACKOFF of call_proto is not reported: the request is sent once more.
SyncResponse(t, code) ==
  /\ job[t].pc \in {"send", "resend"}
  /\ job[t].kind \in {"sync", "proto"}
  /\ Linked(t)
  /\ IF code = "SUCCESS" THEN Ends(t, "OK")
     ELSE IF code = "BACKOFF" /\ job[t].kind = "proto" /\ job[t].pc = "send"
     THEN job' = [job EXCEPT ![t].pc = "resend"] /\ UNCHANGED owed
     ELSE Ends(t, FromRespCode(code))
  /\ UNCHANGED <<host, poolVars, worldVars, offlining, out, calls>>

\* The request of a future: the thread waits.
SendFuture(t) ==
  /\ job[t].pc = "send" /\ job[t].kind = "future"
  /\ Linked(t)
  /\ job' = [job EXCEPT ![t].pc = "wait"]
  /\ UNCHANGED <<host, poolVars, worldVars, offlining, out, owed, calls>>

\* A callback call is over when its request was handed over.
SendCallback(t) ==
  /\ job[t].pc = "send" /\ job[t].kind = "callback"
  /\ Linked(t)
  /\ out' = [out EXCEPT ![job[t].host] = @ + 1]
  /\ job' = [job EXCEPT ![t] = NoJob]
  /\ UNCHANGED <<host, poolVars, worldVars, offlining, owed, calls>>

\* callBack: the loop fills the future, and whatever it holds ends the call.
FutureAnswered(t) ==
  /\ job[t].pc = "wait"
  /\ Reports(job[t].host)
  /\ job' = [job EXCEPT ![t] = NoJob]
  /\ UNCHANGED <<host, poolVars, worldVars, offlining, out, calls>>

\* Deviation: get() in place of wait_for, the thread waits on.
FutureWaitsOn(t) ==
  /\ job[t].pc = "wait"
  /\ UNCHANGED clientVars

\* wait_for gives up: nothing is reported, the response may still come.
FutureTimesOut(t) ==
  /\ job[t].pc = "wait"
  /\ job' = [job EXCEPT ![t] = AfterAttempt(job[t], "TIMEOUT")]
  /\ out' = [out EXCEPT ![job[t].host] = @ + 1]
  /\ UNCHANGED <<host, poolVars, worldVars, offlining, owed, calls>>

\* callBack and callBackself for a request nobody waits for.
LateAnswer(h) ==
  /\ out[h] > 0
  /\ Reports(h)
  /\ out' = [out EXCEPT ![h] = @ - 1]
  /\ UNCHANGED <<host, poolVars, worldVars, offlining, job, calls>>

CallStep(t) ==
  \/ Pick(t) \/ NewClient(t) \/ ConnectionUnavailable(t) \/ Admitted(t) \/ Rejected(t)
  \/ AttemptSendFails(t) \/ SyncTimesOut(t) \/ SendFuture(t) \/ SendCallback(t) \/ FutureTimesOut(t)

ClientNext ==
  \/ \E h \in Hosts :
       \/ \E l \in Loads : Online(h, l)
       \/ Offline(h) \/ DelClient(h) \/ HostDies(h)
       \/ LateAnswer(h)
  \/ \E c \in Clients : LinkBreaks(c)
  \/ \E t \in Callers :
       \/ \E k \in CallKinds[t] : StartCall(t, k)
       \/ CallStep(t)
       \/ \E code \in {"SUCCESS", "TIMEOUT", "BACKOFF", "OTHER"} : SyncResponse(t, code)
       \/ FutureAnswered(t)

\* Every thread goes on when it can.
ClientSpec ==
  /\ ClientInit /\ [][ClientNext]_clientVars
  /\ \A t \in Callers : WF_clientVars(CallStep(t))

---------------------------------------------------------------------------
\* Type correctness of the client.
ClientTypeOK ==
  /\ HostsOf(host) \subseteq Hosts
  /\ pool \in [Hosts -> 0 .. clients]
  /\ clients \in 0 .. MaxClients
  /\ up \subseteq 1 .. clients /\ erased \subseteq 1 .. clients
  /\ out \in [Hosts -> Nat] /\ owed \in [Hosts -> Nat]
  /\ \A t \in Callers : job[t] # NoJob =>
       /\ job[t].host \in Hosts
       /\ job[t].attempt \in 0 .. IF job[t].kind = "callback" THEN Len(job[t].cands) - 1
                                 ELSE MaxRetries
       /\ job[t].client \in 0 .. clients

\* Appending only the new host's points and rebuilding on removal never part,
\* also where points of two hosts coincide: for every list the client can have,
\* no point of the ring leads past the end of the list or to another host.
RingAgrees == host \in Lists /\ AllRingsAgree

\* Retries can walk through all hosts: whatever the list, the strategy, the
\* index and the key, selectHosts returns every host once and begins with the
\* one selectHost would return.
CandidatesCover == host \in Lists /\ AllCandidatesCover

\* For every list the rotation goes on where _idx is cut back at its limit: the
\* next call begins one host on, no host is skipped or served twice.
RotationAdvances == host \in Lists /\ AllRotationsAdvance

\* Load balancing does what its strategies are for, for every list of hosts: the
\* ring leads to the hosts, the candidates are all hosts with the chosen one in
\* front, and the rotation serves everybody.
HostChoice == RingAgrees /\ CandidatesCover /\ RotationAdvances

\* However many threads connect to a host at once, no call works on a client
\* that another one replaced: it is the client of the pool, or one that an
\* OFFLINE took out of it.
UsesPooled ==
  \A t \in Callers : job[t] # NoJob /\ job[t].client # 0 /\ job[t].pc # "pick"
    => job[t].client = pool[job[t].host] \/ job[t].client \in erased

\* A retrying call never comes back to a host before it tried all the others,
\* and begins again only then: so many attempts, so many hosts.
TriesAll ==
  \A t \in Callers :
    job[t] # NoJob /\ job[t].pc # "pick" /\ job[t].kind # "callback"
      => Cardinality(job[t].tried) = (job[t].attempt % Len(job[t].cands)) + 1

\* Calls of several threads through one pool: the client of an attempt is the
\* pool's, and an attempt never comes back to a host before its turn.
CallsSafe == ClientTypeOK /\ UsesPooled /\ TriesAll

\* The breaker hears of every request it admitted, once: what it has not heard
\* of is on its way, or waits for a response that may still come.
OnItsWay(h) ==
  {t \in Callers : job[t] # NoJob /\ job[t].host = h /\ job[t].pc \in {"send", "resend", "wait"}}
Ledger == \A h \in Hosts : owed[h] = Cardinality(OnItsWay(h)) + out[h]

\* A call returns, unless it waits for a connection: the attempts, the waits
\* and the breaker's locks all end.
ReturnsOrConnects ==
  \A t \in Callers : job[t] # NoJob ~> (job[t] = NoJob \/ job[t].pc = "connect")
=============================================================================
