------------------------------ MODULE Registry ------------------------------
(***************************************************************************)
(* Registration and discovery: the registry server with its memory store   *)
(* (server/rpc_registry.hpp, memory_registry_store.cpp, RegistryServer of  *)
(* rpc_server.hpp), the provider processes that register with it           *)
(* (RpcServer, ClientRegistry, client/rpc_registry.hpp Provider) and one   *)
(* client that discovers hosts and caches them (ClientDiscover, Discover). *)
(*                                                                         *)
(* The server handles requests and closed connections in one event loop,   *)
(* so a handler is one action; the sweep runs in a thread of its own and   *)
(* its notifications reach the loop's queue later.  A Provider object is   *)
(* named by its connection.  Loads are left out: a load report and a       *)
(* heartbeat do the same to everything modelled here.  Time is whether     *)
(* idle_timeout has passed since a provider was last heard (stale).        *)
(***************************************************************************)
EXTENDS Naturals, Sequences, SequencesExt

CONSTANTS
  Hosts, Methods,
  Attempts,    \* registration attempts of registerToRegistry (3)
  MaxConns,    \* bound: connections that each host opens in a behaviour
  MaxWire      \* bound: an answer waits while so many messages are on the
               \* way to the client (notifications never wait)

ASSUME RegistryAssumption ==
  Attempts \in Nat \ {0} /\ MaxConns \in [Hosts -> Nat] /\ MaxWire \in Nat \ {0}

Conns == UNION {{h} \X (1 .. MaxConns[h]) : h \in Hosts}
Host(c) == c[1]
Threads == {"user", "health"}   \* callers of Discover::serviceDiscover

VARIABLES
  alive,      \* provider processes that run
  cur,        \* number of the connection a provider opened last, 0: none
  reg,        \* a provider's registration of a method
  attempt,    \* attempts made for it
  conn,       \* a provider's connection as the server sees it
  reqs,       \* REGISTER requests on the way to the server
  mwp,        \* _methodwithproviders
  connwithp,  \* _connwithp: the connections that have a Provider
  methods,    \* Provider::methods
  stale,      \* providers not heard for idle_timeout
  sweepOut,   \* OFFLINE notifications of the sweep not yet sent
  dmeth,      \* Discoverer::methods of the client
  cst,        \* the client's connection
  wire,       \* messages from the server to the client
  call,       \* a serviceDiscover call of each thread
  cached,     \* keys of Discover::_method_host
  hosts,      \* the hosts cached for a method
  tracked,    \* _tracked_methods
  missed      \* history: hosts whose OFFLINE was ignored while an answer
              \* that holds them was received and not yet stored

provVars == <<alive, cur, reg, attempt>>
tableVars == <<mwp, connwithp, methods, stale>>
cliVars == <<call, cached, hosts, tracked, missed>>
vars == <<alive, cur, reg, attempt, conn, reqs, mwp, connwithp, methods,
          stale, sweepOut, dmeth, cst, wire, call, cached, hosts, tracked, missed>>

NoCall == [at |-> "idle"]
Notice(op, m, h) == [op |-> op, m |-> m, h |-> h]
Listed(m) == {Host(c) : c \in mwp[m]}

Init ==
  /\ alive = {}
  /\ cur = [h \in Hosts |-> 0]
  /\ reg = [h \in Hosts |-> [m \in Methods |-> "no"]]
  /\ attempt = [h \in Hosts |-> [m \in Methods |-> 0]]
  /\ conn = [c \in Conns |-> "none"]
  /\ reqs = {}
  /\ mwp = [m \in Methods |-> {}]
  /\ connwithp = {}
  /\ methods = [c \in Conns |-> {}]
  /\ stale = {}
  /\ sweepOut = {}
  /\ dmeth = {}
  /\ cst = "up"
  /\ wire = <<>>
  /\ call = [t \in Threads |-> NoCall]
  /\ cached = {}
  /\ hosts = [m \in Methods |-> {}]
  /\ tracked = {}
  /\ missed = {}

---------------------------------------------------------------------------
(* A provider process.                                                     *)

\* connect(): blocks until the new connection is there.
Connect(h) ==
  /\ cur[h] < MaxConns[h]
  /\ cur' = [cur EXCEPT ![h] = @ + 1]
  /\ conn' = [conn EXCEPT ![<<h, cur[h] + 1>>] = "up"]

Connected(h) == cur[h] # 0 /\ conn[<<h, cur[h]>>] = "up"

StartProvider(h) ==
  /\ h \notin alive
  /\ Connect(h)
  /\ alive' = alive \cup {h}
  /\ reg' = [reg EXCEPT ![h] = [m \in Methods |-> "no"]]
  /\ attempt' = [attempt EXCEPT ![h] = [m \in Methods |-> 0]]
  /\ UNCHANGED <<reqs, tableVars, sweepOut, dmeth, cst, wire, cliVars>>

\* ensureConnected opens a new connection and registers nothing on it.
EnsureConnected(h) ==
  /\ h \in alive
  /\ ~Connected(h)
  /\ Connect(h)
  /\ UNCHANGED <<alive, reg, attempt, reqs, tableVars, sweepOut, dmeth, cst, wire, cliVars>>

\* Provider::methodRegistry: the request of one attempt.
MethodRegistry(h, m, n) ==
  reqs' = reqs \cup {[c |-> <<h, cur[h]>>, m |-> m, n |-> n]}

\* One attempt of registerToRegistry.
RegisterToRegistry(h, m) ==
  /\ h \in alive
  /\ Connected(h)
  /\ reg[h][m] \in {"no", "retry"}
  /\ reg' = [reg EXCEPT ![h][m] = "sent"]
  /\ attempt' = [attempt EXCEPT ![h][m] = @ + 1]
  /\ MethodRegistry(h, m, attempt[h][m] + 1)
  /\ UNCHANGED <<alive, cur, conn, tableVars, sweepOut, dmeth, cst, wire, cliVars>>

\* Deviation: one attempt too many.
RegisterFailsLate(h, m) ==
  /\ h \in alive
  /\ reg[h][m] = "sent"
  /\ reg' = [reg EXCEPT ![h][m] = IF attempt[h][m] <= Attempts THEN "retry" ELSE "failed"]
  /\ UNCHANGED <<alive, cur, attempt, conn, reqs, tableVars, sweepOut, dmeth, cst, wire, cliVars>>

\* No answer in time: another attempt, or none ever again.
RegisterFails(h, m) ==
  /\ h \in alive
  /\ reg[h][m] = "sent"
  /\ reg' = [reg EXCEPT ![h][m] = IF attempt[h][m] < Attempts THEN "retry" ELSE "failed"]
  /\ UNCHANGED <<alive, cur, attempt, conn, reqs, tableVars, sweepOut, dmeth, cst, wire, cliVars>>

ConnBreaks(h) ==
  /\ Connected(h)
  /\ conn' = [conn EXCEPT ![<<h, cur[h]>>] = "broken"]
  /\ UNCHANGED <<provVars, reqs, tableVars, sweepOut, dmeth, cst, wire, cliVars>>

Crash(h) ==
  /\ h \in alive
  /\ alive' = alive \ {h}
  /\ conn' = IF Connected(h) THEN [conn EXCEPT ![<<h, cur[h]>>] = "broken"] ELSE conn
  /\ UNCHANGED <<cur, reg, attempt, reqs, tableVars, sweepOut, dmeth, cst, wire, cliVars>>

---------------------------------------------------------------------------
(* The server's event loop.                                                *)

\* DiscoverManager::notify for a set of (method, host) pairs.
Notify(op, pairs) ==
  LET due == {p \in pairs : p[1] \in dmeth /\ cst = "up"}
      seq == SetToSeq({Notice(op, p[1], p[2]) : p \in due})
  IN  wire' = wire \o seq

\* addProvider.
AddProvider(c, m) ==
  /\ mwp' = [mwp EXCEPT ![m] = @ \cup {c}]
  /\ connwithp' = connwithp \cup {c}
  /\ methods' = [methods EXCEPT ![c] = @ \cup {m}]
  /\ stale' = stale \ {c}

Received(r) == r \in reqs /\ conn[r.c] \in {"up", "broken"}

\* registryResponse: the answer to the current attempt may come in time.
RegistryResponse(r) ==
  LET h == Host(r.c) IN
    \/ reg' = reg
    \/ /\ h \in alive /\ r.c = <<h, cur[h]>> /\ Connected(h)
       /\ reg[h][r.m] = "sent" /\ r.n = attempt[h][r.m]
       /\ reg' = [reg EXCEPT ![h][r.m] = "yes"]

\* REGISTER: enter the provider, tell the discoverers, answer.
OnRegister(r) ==
  /\ Received(r)
  /\ AddProvider(r.c, r.m)
  /\ Notify("ONLINE", {<<r.m, Host(r.c)>>})
  /\ RegistryResponse(r)
  /\ reqs' = reqs \ {r}
  /\ UNCHANGED <<alive, cur, attempt, conn, sweepOut, dmeth, cst, cliVars>>

\* updateProviderLastHeartbeat and updateProviderLoad: the first provider of
\* the method that has the sender's address, whatever its connection.
UpdateProvider(h, m) ==
  \E c \in mwp[m] : Host(c) = h /\ stale' = stale \ {c}

\* heartbeatTick and reportLoadTick for a registered method, and the server's
\* handler.  Without a provider to update nothing changes: the negative answer
\* is only logged.
Heartbeat(h, m) ==
  /\ h \in alive
  /\ Connected(h)
  /\ reg[h][m] = "yes"
  /\ UpdateProvider(h, m)
  /\ UNCHANGED <<provVars, conn, reqs, mwp, connwithp, methods, sweepOut, dmeth, cst, wire, cliVars>>

\* Deviation: the methods of the provider are not visited.
DelProviderConnOnly(c) ==
  /\ connwithp' = connwithp \ {c}
  /\ methods' = [methods EXCEPT ![c] = {}]
  /\ mwp' = mwp
  /\ stale' = stale \ {c}

\* delProvider, as disconnectProvider calls it.
DelProvider(c) ==
  /\ mwp' = [m \in Methods |-> IF m \in methods[c] THEN mwp[m] \ {c} ELSE mwp[m]]
  /\ connwithp' = connwithp \ {c}
  /\ methods' = [methods EXCEPT ![c] = {}]
  /\ stale' = stale \ {c}

\* disconnectProvider: what the connection ever registered, swept or not.
DisconnectProvider(c) == {<<m, Host(c)>> : m \in methods[c]}

\* Deviation: a closed provider is removed without a notification.
OnConnShutdownQuiet(c) ==
  /\ conn[c] = "broken"
  /\ conn' = [conn EXCEPT ![c] = "closed"]
  /\ reqs' = {r \in reqs : r.c # c}
  /\ DelProvider(c)
  /\ UNCHANGED <<provVars, sweepOut, dmeth, cst, wire, cliVars>>

\* onconnShoutdown of a provider's connection: deleted, then announced.
OnConnShutdown(c) ==
  /\ conn[c] = "broken"
  /\ conn' = [conn EXCEPT ![c] = "closed"]
  /\ reqs' = {r \in reqs : r.c # c}
  /\ DelProvider(c)
  /\ Notify("OFFLINE", DisconnectProvider(c))
  /\ UNCHANGED <<provVars, sweepOut, dmeth, cst, cliVars>>

\* discoverResponse: the answer is sent and reaches the client before its timer
\* does, or the call has failed by then and nobody waits for the answer.
DiscoverResponse(t, m) ==
  \/ /\ wire' = Append(wire, [op |-> "RSP", t |-> t, m |-> m, hosts |-> Listed(m)])
     /\ call' = [call EXCEPT ![t] = [at |-> "wait", m |-> m]]
  \/ UNCHANGED <<wire, call>>

\* Deviation: only a client that gets no host is entered as a discoverer.
OnDiscoverMisses(t, m) ==
  /\ dmeth' = IF Listed(m) = {} THEN dmeth \cup {m} ELSE dmeth
  /\ DiscoverResponse(t, m)

\* DISCOVER: first addDiscoverer, then the answer.
OnDiscover(t, m) ==
  /\ dmeth' = dmeth \cup {m}
  /\ DiscoverResponse(t, m)

---------------------------------------------------------------------------
(* The sweep thread.                                                       *)

\* idle_timeout passes without a heartbeat of this provider.
GoStale(c) ==
  /\ c \in connwithp \ stale
  /\ stale' = stale \cup {c}
  /\ UNCHANGED <<provVars, conn, reqs, mwp, connwithp, methods, sweepOut, dmeth, cst, wire, cliVars>>

\* sweepExpired: out of the table per method, not out of _connwithp.
SweepExpired ==
  /\ \E m \in Methods : mwp[m] \cap stale # {}
  /\ mwp' = [m \in Methods |-> mwp[m] \ stale]
  /\ sweepOut' = sweepOut \cup
       {p \in Methods \X Hosts : \E c \in mwp[p[1]] \cap stale : Host(c) = p[2]}
  /\ UNCHANGED <<provVars, conn, reqs, connwithp, methods, stale, dmeth, cst, wire, cliVars>>

\* One notification of sweepAndNotify reaches the loop and is sent.
SweepNotify(p) ==
  /\ p \in sweepOut
  /\ sweepOut' = sweepOut \ {p}
  /\ Notify("OFFLINE", {p})
  /\ UNCHANGED <<provVars, conn, reqs, tableVars, dmeth, cst, cliVars>>

---------------------------------------------------------------------------
(* The discovering client.                                                 *)

\* Discover::serviceDiscover asks the registry; up to the server's handler.
AskRegistry(t, m) ==
  /\ call[t] = NoCall
  /\ cst = "up" /\ Len(wire) < MaxWire
  /\ OnDiscover(t, m)
  /\ UNCHANGED <<provVars, conn, reqs, tableVars, sweepOut, cst, cached, hosts, tracked, missed>>

\* A user's call asks only without an entry ...
ServiceDiscover(m) == m \notin cached /\ AskRegistry("user", m)

\* ... the health check (force_remote) always, for the methods found before.
HealthCheck(m) == m \in tracked /\ AskRegistry("health", m)

\* A user's call that finds an entry that is not empty.
ServiceDiscoverCached(m) ==
  /\ call["user"] = NoCall
  /\ cst = "up"
  /\ m \in cached \ tracked
  /\ hosts[m] # {}
  /\ tracked' = tracked \cup {m}
  /\ UNCHANGED <<provVars, conn, reqs, tableVars, sweepOut, dmeth, cst, wire, call, cached, hosts, missed>>

\* onserviceRequest with ONLINE: extend the entry or make one.
OnOnline(n) ==
  /\ cached' = cached \cup {n.m}
  /\ hosts' = [hosts EXCEPT ![n.m] = @ \cup {n.h}]
  /\ missed' = missed \ {<<n.m, n.h>>}
  /\ UNCHANGED call

\* Deviation: the host is dropped from the pool but stays in the entry.
OnOfflineKeeps(n) ==
  UNCHANGED <<call, cached, hosts, missed>>

\* ... with OFFLINE: shorten the entry, or ignore it without one.
OnOffline(n) ==
  /\ hosts' = [hosts EXCEPT ![n.m] = @ \ {n.h}]
  /\ missed' = IF n.m \in cached THEN missed \ {<<n.m, n.h>>}
               ELSE missed \cup {<<n.m, n.h>> : t \in
                      {u \in Threads : call[u].at = "got" /\ call[u].m = n.m /\ n.h \in call[u].hosts}}
  /\ UNCHANGED <<call, cached>>

\* The answer wakes its caller; without hosts the call fails.
OnAnswer(a) ==
  /\ call' = [call EXCEPT ![a.t] =
       IF a.hosts = {} THEN NoCall
       ELSE [at |-> "got", m |-> a.m, hosts |-> a.hosts]]
  /\ UNCHANGED <<cached, hosts, missed>>

\* The client's event loop takes the next message.
ClientReceive ==
  /\ wire # <<>>
  /\ wire' = Tail(wire)
  /\ LET msg == Head(wire) IN
       \/ msg.op = "ONLINE" /\ OnOnline(msg)
       \/ msg.op = "OFFLINE" /\ OnOffline(msg)
       \/ msg.op = "RSP" /\ OnAnswer(msg)
  /\ UNCHANGED <<provVars, conn, reqs, tableVars, sweepOut, dmeth, cst, tracked>>

\* The caller stores the answer, unless there is an entry by now.
StoreAnswer(t) ==
  /\ call[t].at = "got"
  /\ LET m == call[t].m
         list == IF m \in cached THEN hosts[m] ELSE call[t].hosts
     IN  /\ cached' = cached \cup {m}
         /\ hosts' = [hosts EXCEPT ![m] = list]
         /\ tracked' = IF t = "user" /\ list # {} THEN tracked \cup {m} ELSE tracked
  /\ call' = [call EXCEPT ![t] = NoCall]
  /\ UNCHANGED <<provVars, conn, reqs, tableVars, sweepOut, dmeth, cst, wire, missed>>

\* The connection to the registry is lost; nobody opens another one.  What is on
\* the way is lost, calls that wait for an answer fail, and the server's
\* onconnShoutdown deletes the discoverer.
ClientConnBreaks ==
  /\ cst = "up"
  /\ cst' = "closed"
  /\ wire' = <<>>
  /\ dmeth' = {}
  /\ call' = [t \in Threads |-> IF call[t].at = "got" THEN call[t] ELSE NoCall]
  /\ UNCHANGED <<provVars, conn, reqs, tableVars, sweepOut, cached, hosts, tracked, missed>>

---------------------------------------------------------------------------
ServerStep ==
  \/ \E r \in reqs : OnRegister(r)
  \/ \E c \in Conns : OnConnShutdown(c) \/ GoStale(c)
  \/ \E p \in sweepOut : SweepNotify(p)
  \/ SweepExpired

Next ==
  \/ \E h \in Hosts :
       \/ StartProvider(h) \/ EnsureConnected(h) \/ ConnBreaks(h) \/ Crash(h)
       \/ \E m \in Methods : RegisterToRegistry(h, m) \/ RegisterFails(h, m) \/ Heartbeat(h, m)
  \/ ServerStep
  \/ \E t \in Threads : StoreAnswer(t)
  \/ \E m \in Methods : ServiceDiscoverCached(m) \/ ServiceDiscover(m) \/ HealthCheck(m)
  \/ ClientReceive
  \/ ClientConnBreaks

\* The loops and the sweep go on; idle_timeout passes for a silent provider.
Fairness ==
  /\ \A c \in Conns : WF_vars(GoStale(c)) /\ WF_vars(\E r \in reqs : r.c = c /\ OnRegister(r))
  /\ WF_vars(SweepExpired)
  /\ \A p \in Methods \X Hosts : WF_vars(SweepNotify(p))
  /\ WF_vars(ClientReceive)
  /\ \A t \in Threads : WF_vars(StoreAnswer(t))

Spec == Init /\ [][Next]_vars /\ Fairness

---------------------------------------------------------------------------
\* Type correctness.
TypeOK ==
  /\ alive \subseteq Hosts
  /\ \A h \in Hosts : cur[h] \in 0 .. MaxConns[h]
  /\ reg \in [Hosts -> [Methods -> {"no", "sent", "retry", "yes", "failed"}]]
  /\ attempt \in [Hosts -> [Methods -> 0 .. Attempts]]
  /\ conn \in [Conns -> {"none", "up", "broken", "closed"}]
  /\ reqs \subseteq [c : Conns, m : Methods, n : 1 .. Attempts]
  /\ mwp \in [Methods -> SUBSET Conns]
  /\ connwithp \subseteq Conns /\ stale \subseteq connwithp
  /\ methods \in [Conns -> SUBSET Methods]
  /\ sweepOut \subseteq Methods \X Hosts
  /\ dmeth \subseteq Methods /\ cached \subseteq Methods /\ tracked \subseteq cached
  /\ cst \in {"up", "closed"}
  /\ hosts \in [Methods -> SUBSET Hosts]
  /\ missed \subseteq Methods \X Hosts

\* Once onconnShoutdown has run for a connection, nothing of its provider can
\* be discovered any more, in whatever order it registered, was swept and
\* registered again: a method's table only holds providers that the table per
\* connection knows with that method.
ClosedGone ==
  \A m \in Methods : \A c \in mwp[m] :
    c \in connwithp /\ m \in methods[c] /\ conn[c] \in {"up", "broken"}

\* Whoever uses a cached list is told of its changes: while the connection to
\* the registry is up, the registry has the client as a discoverer of every
\* method that the client has an entry for.
Tracked == cst = "up" => cached \subseteq dmeth

\* The registry's tables through all registrations, sweeps and closes: nothing
\* of a closed connection is listed, and every cache is known.
RegistrySafe == TypeOK /\ ClosedGone /\ Tracked

\* A cached host that the registry does not list is about to be removed: its
\* OFFLINE waits in the sweep or is on the way.  The exception is an OFFLINE
\* that the client ignored between receiving an answer and storing it.
NoGhost ==
  cst = "up" =>
    \A m \in cached : \A h \in hosts[m] \ Listed(m) :
      \/ <<m, h>> \in sweepOut \cup missed
      \/ Contains(wire, Notice("OFFLINE", m, h))

\* When a provider is gone for good, a client that stays connected forgets its
\* host, whether the registry noticed by a closed connection or by silence.
DeadForgotten ==
  \A h \in Hosts :
    <>[](h \notin alive /\ cst = "up")
      => <>[](\A m \in Methods : h \in hosts[m] => <<m, h>> \in missed)
=============================================================================
