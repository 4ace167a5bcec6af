--------------------------- MODULE RegistryProofs ---------------------------
(***************************************************************************)
(* Machine-checked proofs about registration and discovery, for any hosts, *)
(* methods, numbers of attempts, connections and messages on the way.      *)
(***************************************************************************)
EXTENDS Registry, FiniteSetTheorems, FunctionTheorems, SequenceTheorems, TLAPS

Notices == [op : {"ONLINE", "OFFLINE"}, m : Methods, h : Hosts]
Answers == [op : {"RSP"}, t : Threads, m : Methods, hosts : SUBSET Hosts]
ClientCalls ==
  {NoCall} \cup [at : {"wait"}, m : Methods] \cup [at : {"got"}, m : Methods, hosts : SUBSET Hosts]

\* The types that TypeOK leaves open, and what it rests on: another attempt is
\* only made while some are left, and a provider has finitely many methods.
Typed ==
  /\ TypeOK
  /\ cur \in [Hosts -> Nat]
  /\ wire \in Seq(Notices \cup Answers)
  /\ call \in [Threads -> ClientCalls]
  /\ \A h \in Hosts, m \in Methods :
       reg[h][m] \in {"no", "retry"} => attempt[h][m] < Attempts
  /\ \A c \in Conns : IsFiniteSet(methods[c])

\* What is on the way to the client or waits to be stored is of methods that
\* the client is a discoverer of; a closed connection carries nothing.
WireTracked ==
  /\ cst = "closed" => wire = <<>>
  /\ cst = "up" => /\ \A i \in 1 .. Len(wire) : wire[i].m \in dmeth
                   /\ \A t \in Threads : call[t].at = "got" => call[t].m \in dmeth

\* The client is still told, by a message behind the i-th, if the host is not
\* listed any more.
Told(i, m, h) ==
  \/ h \in Listed(m)
  \/ <<m, h>> \in sweepOut
  \/ \E j \in 1 .. Len(wire) : j > i /\ wire[j] = Notice("OFFLINE", m, h)

\* The host is in the cache, or in an answer that is about to get into it.
Near(m, h) ==
  \/ h \in hosts[m]
  \/ m \notin cached /\ \E t \in Threads : call[t].at = "got" /\ call[t].m = m /\ h \in call[t].hosts

\* The message brings the host to the client.
Carries(msg, m, h) ==
  /\ msg.m = m
  /\ \/ msg.op = "ONLINE" /\ msg.h = h
     \/ msg.op = "RSP" /\ h \in msg.hosts

\* A host in the cache, or on the way to it, is listed or its removal follows.
GhostOf(m, h) ==
  /\ h \in hosts[m] => m \in cached
  /\ cst = "up" /\ Near(m, h) => Told(0, m, h) \/ <<m, h>> \in missed
  /\ cst = "up" => \A i \in 1 .. Len(wire) : Carries(wire[i], m, h) => Told(i, m, h)

GhostInv == \A m \in Methods, h \in Hosts : GhostOf(m, h)

\* The registry's inductive invariant.
RegistryInv == Typed /\ ClosedGone /\ Tracked /\ WireTracked /\ GhostInv

---------------------------------------------------------------------------
(* Facts about the operators of the model.                                 *)

LEMMA Bounds ==
  /\ Attempts \in Nat /\ Attempts >= 1 /\ MaxConns \in [Hosts -> Nat]
  /\ \A h \in Hosts : MaxConns[h] \in Nat
  BY RegistryAssumption

LEMMA ConnOf ==
  ASSUME NEW h \in Hosts, NEW n \in 1 .. MaxConns[h]
  PROVE  <<h, n>> \in Conns /\ Host(<<h, n>>) = h
  BY DEF Conns, Host

LEMMA HostOf ==
  ASSUME NEW c \in Conns
  PROVE  Host(c) \in Hosts
  BY DEF Conns, Host

\* The sequence made of a finite set has exactly its elements.
LEMMA SetToSeqIs ==
  ASSUME NEW S, IsFiniteSet(S)
  PROVE  /\ SetToSeq(S) \in Seq(S)
         /\ \A e \in S : \E i \in 1 .. Len(SetToSeq(S)) : SetToSeq(S)[i] = e
         /\ \A i \in 1 .. Len(SetToSeq(S)) : SetToSeq(S)[i] \in S
  <1> DEFINE n == Cardinality(S)
             f == SetToSeq(S)
  <1>1. n \in Nat /\ ExistsBijection(1 .. n, S)
    BY FS_CardinalityType
  <1>2. \E g \in [1 .. n -> S] : IsInjective(g)
    BY <1>1 DEF ExistsBijection, Bijection, Injection
  <1>3. f \in [1 .. n -> S] /\ IsInjective(f)
    BY <1>2 DEF SetToSeq
  <1>4. f \in Injection(1 .. n, S)
    BY <1>3 DEF Injection
  <1>5. IsFiniteSet(1 .. n) /\ Cardinality(1 .. n) = n
    BY <1>1, FS_Interval
  <1>6. f \in Surjection(1 .. n, S)
    BY <1>4, <1>5, FS_Injection
  <1>7. f \in Seq(S) /\ Len(f) = n
    BY <1>1, <1>3
  <1>8. \A e \in S : \E i \in 1 .. n : f[i] = e
    BY <1>6 DEF Surjection
  <1> HIDE DEF f, n
  <1>9. \A i \in 1 .. Len(f) : f[i] \in S
    BY <1>3, <1>7
  <1> QED
    BY <1>7, <1>8, <1>9 DEF f

\* What DiscoverManager::notify sends: a notice to the client for every pair
\* whose method it is a discoverer of, and nothing else.
LEMMA NotifyIs ==
  ASSUME NEW op \in {"ONLINE", "OFFLINE"}, NEW pairs \in SUBSET (Methods \X Hosts),
         IsFiniteSet(pairs), Notify(op, pairs)
  PROVE  \E seq \in Seq(Notices) :
           /\ wire' = wire \o seq
           /\ \A i \in 1 .. Len(seq) :
                cst = "up" /\ seq[i].m \in dmeth /\ seq[i].op = op
                  /\ <<seq[i].m, seq[i].h>> \in pairs
           /\ \A m \in Methods, h \in Hosts :
                <<m, h>> \in pairs /\ m \in dmeth /\ cst = "up" =>
                  \E i \in 1 .. Len(seq) : seq[i] = Notice(op, m, h)
  <1> DEFINE due == {p \in pairs : p[1] \in dmeth /\ cst = "up"}
             ns == {Notice(op, p[1], p[2]) : p \in due}
             seq == SetToSeq(ns)
             f == [p \in due |-> Notice(op, p[1], p[2])]
  <1>1. IsFiniteSet(due)
    BY FS_Subset
  <1>2. f \in Surjection(due, ns)
    BY DEF Surjection
  <1>3. IsFiniteSet(ns)
    BY <1>1, <1>2, FS_Surjection
  <1>4. \A n \in ns : n \in Notices /\ cst = "up" /\ n.m \in dmeth /\ n.op = op
                        /\ <<n.m, n.h>> \in pairs
    BY DEF Notice, Notices
  <1>5. wire' = wire \o seq
    BY DEF Notify
  <1>6. \A m \in Methods, h \in Hosts :
          <<m, h>> \in pairs /\ m \in dmeth /\ cst = "up" => Notice(op, m, h) \in ns
    OBVIOUS
  <1> HIDE DEF ns, due, f
  <1>7. /\ seq \in Seq(ns)
        /\ \A e \in ns : \E i \in 1 .. Len(seq) : seq[i] = e
        /\ \A i \in 1 .. Len(seq) : seq[i] \in ns
    BY <1>3, SetToSeqIs
  <1> HIDE DEF seq
  <1>8. seq \in Seq(Notices)
    <2>1. Len(seq) \in Nat /\ seq \in [1 .. Len(seq) -> ns]
      BY <1>7
    <2>2. seq \in [1 .. Len(seq) -> Notices]
      BY <1>4, <2>1
    <2> QED
      BY <2>1, <2>2
  <1> QED
    BY <1>4, <1>5, <1>6, <1>7, <1>8

---------------------------------------------------------------------------
(* Types.                                                                  *)

\* The provider processes' part of the types.
ProvTyped ==
  /\ alive \subseteq Hosts
  /\ cur \in [Hosts -> Nat] /\ \A h \in Hosts : cur[h] \in 0 .. MaxConns[h]
  /\ reg \in [Hosts -> [Methods -> {"no", "sent", "retry", "yes", "failed"}]]
  /\ attempt \in [Hosts -> [Methods -> 0 .. Attempts]]
  /\ \A h \in Hosts, m \in Methods :
       reg[h][m] \in {"no", "retry"} => attempt[h][m] < Attempts
  /\ conn \in [Conns -> {"none", "up", "broken", "closed"}]
  /\ reqs \subseteq [c : Conns, m : Methods, n : 1 .. Attempts]

\* The server tables' part.
TablesTyped ==
  /\ mwp \in [Methods -> SUBSET Conns]
  /\ connwithp \subseteq Conns /\ stale \subseteq connwithp
  /\ methods \in [Conns -> SUBSET Methods]
  /\ \A c \in Conns : IsFiniteSet(methods[c])
  /\ sweepOut \subseteq Methods \X Hosts

\* The client's part, with what the server sends to it.
ClientTyped ==
  /\ dmeth \subseteq Methods /\ cached \subseteq Methods /\ tracked \subseteq cached
  /\ cst \in {"up", "closed"}
  /\ hosts \in [Methods -> SUBSET Hosts]
  /\ missed \subseteq Methods \X Hosts
  /\ wire \in Seq(Notices \cup Answers)
  /\ call \in [Threads -> ClientCalls]

LEMMA TypedParts == Typed <=> ProvTyped /\ TablesTyped /\ ClientTyped
  BY DEF Typed, TypeOK, ProvTyped, TablesTyped, ClientTyped

\* A provider opens a connection.
LEMMA ConnectTyped ==
  ASSUME ProvTyped, NEW h \in Hosts, Connect(h)
  PROVE  /\ cur' \in [Hosts -> Nat] /\ \A g \in Hosts : cur'[g] \in 0 .. MaxConns[g]
         /\ conn' \in [Conns -> {"none", "up", "broken", "closed"}]
  <1>1. cur[h] \in Nat /\ cur[h] < MaxConns[h] /\ MaxConns[h] \in Nat
    BY Bounds DEF ProvTyped, Connect
  <1>2. <<h, cur[h] + 1>> \in Conns
    BY <1>1, ConnOf
  <1>3. cur' = [cur EXCEPT ![h] = cur[h] + 1] /\ conn' = [conn EXCEPT ![<<h, cur[h] + 1>>] = "up"]
    BY DEF Connect
  <1>4. cur' \in [Hosts -> Nat] /\ cur[h] + 1 \in 0 .. MaxConns[h]
    BY <1>1, <1>3 DEF ProvTyped
  <1> QED
    BY <1>2, <1>3, <1>4 DEF ProvTyped

LEMMA ConnectedIs ==
  ASSUME ProvTyped, NEW h \in Hosts, Connected(h)
  PROVE  <<h, cur[h]>> \in Conns /\ conn[<<h, cur[h]>>] = "up"
  <1>1. cur[h] \in 1 .. MaxConns[h]
    BY Bounds DEF ProvTyped, Connected
  <1> QED
    BY <1>1, ConnOf DEF Connected

\* Steps of the providers, and the answers to them, keep their types.
LEMMA ProvStep == ProvTyped /\ TablesTyped /\ [Next]_vars => ProvTyped'
  <1> SUFFICES ASSUME ProvTyped, TablesTyped, [Next]_vars PROVE ProvTyped'
    OBVIOUS
  <1>1. ASSUME NEW h \in Hosts, StartProvider(h) PROVE ProvTyped'
    <2>1. /\ cur' \in [Hosts -> Nat] /\ \A g \in Hosts : cur'[g] \in 0 .. MaxConns[g]
          /\ conn' \in [Conns -> {"none", "up", "broken", "closed"}]
      BY <1>1, ConnectTyped DEF StartProvider
    <2>2. reg' = [reg EXCEPT ![h] = [m \in Methods |-> "no"]]
            /\ attempt' = [attempt EXCEPT ![h] = [m \in Methods |-> 0]]
            /\ alive' = alive \cup {h} /\ reqs' = reqs
      BY <1>1 DEF StartProvider
    <2>3. reg' \in [Hosts -> [Methods -> {"no", "sent", "retry", "yes", "failed"}]]
      BY <2>2 DEF ProvTyped
    <2>4. attempt' \in [Hosts -> [Methods -> 0 .. Attempts]]
      <3>1. [m \in Methods |-> 0] \in [Methods -> 0 .. Attempts]
        BY Bounds
      <3> QED
        BY <2>2, <3>1 DEF ProvTyped
    <2>5. \A g \in Hosts, m \in Methods :
            reg'[g][m] \in {"no", "retry"} => attempt'[g][m] < Attempts
      <3> SUFFICES ASSUME NEW g \in Hosts, NEW m \in Methods, reg'[g][m] \in {"no", "retry"}
                   PROVE  attempt'[g][m] < Attempts
        OBVIOUS
      <3>1. CASE g = h
        BY <2>2, <3>1, Bounds DEF ProvTyped
      <3>2. CASE g # h
        BY <2>2, <3>2 DEF ProvTyped
      <3> QED
        BY <3>1, <3>2
    <2> QED
      BY <2>1, <2>2, <2>3, <2>4, <2>5 DEF ProvTyped
  <1>2. ASSUME NEW h \in Hosts, EnsureConnected(h) PROVE ProvTyped'
    <2>1. UNCHANGED <<alive, reg, attempt, reqs>>
      BY <1>2 DEF EnsureConnected
    <2> QED
      BY <1>2, <2>1, ConnectTyped DEF EnsureConnected, ProvTyped
  <1>3. ASSUME NEW h \in Hosts, ConnBreaks(h) \/ Crash(h) PROVE ProvTyped'
    <2>1. UNCHANGED <<cur, reg, attempt, reqs>> /\ alive' \subseteq alive
      BY <1>3 DEF ConnBreaks, Crash, provVars
    <2>2. conn' \in [Conns -> {"none", "up", "broken", "closed"}]
      BY <1>3, ConnectedIs DEF ConnBreaks, Crash, ProvTyped
    <2> QED
      BY <2>1, <2>2 DEF ProvTyped
  <1>4. ASSUME NEW h \in Hosts, NEW m \in Methods, RegisterToRegistry(h, m) PROVE ProvTyped'
    <2>1. attempt[h][m] \in 0 .. Attempts /\ attempt[h][m] < Attempts
      BY <1>4 DEF RegisterToRegistry, ProvTyped
    <2>2. attempt[h][m] + 1 \in 1 .. Attempts /\ attempt[h][m] + 1 \in 0 .. Attempts
      BY <2>1, Bounds
    <2>3. reqs' \subseteq [c : Conns, m : Methods, n : 1 .. Attempts]
      BY <1>4, <2>2, ConnectedIs DEF RegisterToRegistry, MethodRegistry, ProvTyped
    <2>4. reg' = [reg EXCEPT ![h] = [reg[h] EXCEPT ![m] = "sent"]]
            /\ attempt' = [attempt EXCEPT ![h] = [attempt[h] EXCEPT ![m] = attempt[h][m] + 1]]
            /\ UNCHANGED <<alive, cur, conn>>
      BY <1>4 DEF RegisterToRegistry, ProvTyped
    <2>5. reg' \in [Hosts -> [Methods -> {"no", "sent", "retry", "yes", "failed"}]]
      BY <2>4 DEF ProvTyped
    <2>6. attempt' \in [Hosts -> [Methods -> 0 .. Attempts]]
      <3>1. [attempt[h] EXCEPT ![m] = attempt[h][m] + 1] \in [Methods -> 0 .. Attempts]
        BY <2>2 DEF ProvTyped
      <3> QED
        BY <2>4, <3>1 DEF ProvTyped
    <2>7. \A g \in Hosts, k \in Methods :
            reg'[g][k] \in {"no", "retry"} => attempt'[g][k] < Attempts
      <3> SUFFICES ASSUME NEW g \in Hosts, NEW k \in Methods, reg'[g][k] \in {"no", "retry"}
                   PROVE  attempt'[g][k] < Attempts
        OBVIOUS
      <3>1. ~(g = h /\ k = m)
        BY <2>4 DEF ProvTyped
      <3>2. reg'[g][k] = reg[g][k] /\ attempt'[g][k] = attempt[g][k]
        BY <2>4, <3>1 DEF ProvTyped
      <3> QED
        BY <3>2 DEF ProvTyped
    <2> QED
      BY <2>3, <2>4, <2>5, <2>6, <2>7 DEF ProvTyped
  <1>5. ASSUME NEW h \in Hosts, NEW m \in Methods, RegisterFails(h, m) PROVE ProvTyped'
    <2> DEFINE s == IF attempt[h][m] < Attempts THEN "retry" ELSE "failed"
    <2>1. reg' = [reg EXCEPT ![h] = [reg[h] EXCEPT ![m] = s]]
            /\ UNCHANGED <<alive, cur, attempt, conn, reqs>>
      BY <1>5 DEF RegisterFails, ProvTyped
    <2>2. s \in {"retry", "failed"} /\ (s = "retry" => attempt[h][m] < Attempts)
      OBVIOUS
    <2> HIDE DEF s
    <2>3. reg' \in [Hosts -> [Methods -> {"no", "sent", "retry", "yes", "failed"}]]
      BY <2>1, <2>2 DEF ProvTyped
    <2>4. \A g \in Hosts, k \in Methods :
            reg'[g][k] \in {"no", "retry"} => attempt[g][k] < Attempts
      BY <2>1, <2>2 DEF ProvTyped
    <2> QED
      BY <2>1, <2>3, <2>4 DEF ProvTyped
  <1>6. ASSUME NEW r \in reqs, OnRegister(r) PROVE ProvTyped'
    <2>1. r.c \in Conns /\ r.m \in Methods /\ Host(r.c) \in Hosts
      BY HostOf DEF ProvTyped
    <2>2. UNCHANGED <<alive, cur, attempt, conn>> /\ reqs' = reqs \ {r}
      BY <1>6 DEF OnRegister
    <2>3. reg' = reg \/ reg' = [reg EXCEPT ![Host(r.c)] = [reg[Host(r.c)] EXCEPT ![r.m] = "yes"]]
      BY <1>6, <2>1 DEF OnRegister, RegistryResponse, ProvTyped
    <2>4. reg' \in [Hosts -> [Methods -> {"no", "sent", "retry", "yes", "failed"}]]
      <3> DEFINE h == Host(r.c)
      <3>1. h \in Hosts
        BY <2>1
      <3> HIDE DEF h
      <3>2. [reg[h] EXCEPT ![r.m] = "yes"] \in [Methods -> {"no", "sent", "retry", "yes", "failed"}]
        BY <2>1, <3>1 DEF ProvTyped
      <3>3. reg' = reg \/ reg' = [reg EXCEPT ![h] = [reg[h] EXCEPT ![r.m] = "yes"]]
        BY <2>3 DEF h
      <3> QED
        BY <3>1, <3>2, <3>3 DEF ProvTyped
    <2>5. \A g \in Hosts, k \in Methods :
            reg'[g][k] \in {"no", "retry"} => attempt[g][k] < Attempts
      BY <2>1, <2>3 DEF ProvTyped
    <2> QED
      BY <2>2, <2>4, <2>5 DEF ProvTyped
  <1>7. ASSUME NEW c \in Conns, OnConnShutdown(c) PROVE ProvTyped'
    BY <1>7 DEF OnConnShutdown, provVars, ProvTyped
  <1>8. CASE UNCHANGED <<alive, cur, reg, attempt, conn, reqs>>
    BY <1>8 DEF ProvTyped
  <1> QED
    BY <1>1, <1>2, <1>3, <1>4, <1>5, <1>6, <1>7, <1>8
    DEF Next, ServerStep, Heartbeat, GoStale, SweepNotify, SweepExpired, StoreAnswer,
        ServiceDiscoverCached, ServiceDiscover, HealthCheck, AskRegistry, ClientReceive,
        ClientConnBreaks, provVars, vars

\* Adding and deleting a provider keep the tables' types.
LEMMA TablesStep == ProvTyped /\ TablesTyped /\ [Next]_vars => TablesTyped'
  <1> SUFFICES ASSUME ProvTyped, TablesTyped, [Next]_vars PROVE TablesTyped'
    OBVIOUS
  <1>1. ASSUME NEW r \in reqs, OnRegister(r) PROVE TablesTyped'
    <2>1. r.c \in Conns /\ r.m \in Methods
      BY DEF ProvTyped
    <2>2. mwp' = [mwp EXCEPT ![r.m] = mwp[r.m] \cup {r.c}] /\ connwithp' = connwithp \cup {r.c}
            /\ methods' = [methods EXCEPT ![r.c] = methods[r.c] \cup {r.m}]
            /\ stale' = stale \ {r.c} /\ sweepOut' = sweepOut
      BY <1>1 DEF OnRegister, AddProvider
    <2>3. IsFiniteSet(methods[r.c] \cup {r.m})
      BY <2>1, FS_AddElement DEF TablesTyped
    <2>4. \A c \in Conns : IsFiniteSet(methods'[c])
      BY <2>1, <2>2, <2>3 DEF TablesTyped
    <2>5. mwp' \in [Methods -> SUBSET Conns] /\ methods' \in [Conns -> SUBSET Methods]
      BY <2>1, <2>2 DEF TablesTyped
    <2> QED
      BY <2>1, <2>2, <2>4, <2>5 DEF TablesTyped
  <1>2. ASSUME NEW c \in Conns, OnConnShutdown(c) PROVE TablesTyped'
    <2>1. mwp' = [m \in Methods |-> IF m \in methods[c] THEN mwp[m] \ {c} ELSE mwp[m]]
            /\ connwithp' = connwithp \ {c} /\ methods' = [methods EXCEPT ![c] = {}]
            /\ stale' = stale \ {c} /\ sweepOut' = sweepOut
      BY <1>2 DEF OnConnShutdown, DelProvider
    <2>2. \A d \in Conns : IsFiniteSet(methods'[d])
      BY <2>1, FS_EmptySet DEF TablesTyped
    <2>3. mwp' \in [Methods -> SUBSET Conns] /\ methods' \in [Conns -> SUBSET Methods]
      BY <2>1 DEF TablesTyped
    <2> QED
      BY <2>1, <2>2, <2>3 DEF TablesTyped
  <1>3. ASSUME NEW h \in Hosts, NEW m \in Methods, Heartbeat(h, m) PROVE TablesTyped'
    BY <1>3 DEF Heartbeat, UpdateProvider, TablesTyped
  <1>4. ASSUME NEW c \in Conns, GoStale(c) PROVE TablesTyped'
    BY <1>4 DEF GoStale, TablesTyped
  <1>5. ASSUME SweepExpired PROVE TablesTyped'
    <2>1. mwp' = [m \in Methods |-> mwp[m] \ stale]
            /\ UNCHANGED <<connwithp, methods, stale>> /\ sweepOut' \subseteq Methods \X Hosts
      BY <1>5 DEF SweepExpired, TablesTyped
    <2> QED
      BY <2>1 DEF TablesTyped
  <1>6. ASSUME NEW p \in sweepOut, SweepNotify(p) PROVE TablesTyped'
    BY <1>6 DEF SweepNotify, tableVars, TablesTyped
  <1>7. CASE UNCHANGED <<mwp, connwithp, methods, stale, sweepOut>>
    BY <1>7 DEF TablesTyped
  <1> QED
    BY <1>1, <1>2, <1>3, <1>4, <1>5, <1>6, <1>7
    DEF Next, ServerStep, StartProvider, EnsureConnected, ConnBreaks, Crash,
        RegisterToRegistry, RegisterFails, StoreAnswer,
        ServiceDiscoverCached, ServiceDiscover, HealthCheck, AskRegistry, ClientReceive,
        ClientConnBreaks, tableVars, vars

\* What the server sends in a step, if anything: a sequence of notices that is
\* put behind what is on the way.
LEMMA RegisterSends ==
  ASSUME ProvTyped, NEW r \in reqs, OnRegister(r)
  PROVE  \E seq \in Seq(Notices) :
           /\ wire' = wire \o seq
           /\ \A i \in 1 .. Len(seq) :
                cst = "up" /\ seq[i].m \in dmeth /\ seq[i].op = "ONLINE"
                  /\ seq[i].m = r.m /\ seq[i].h = Host(r.c)
  <1> DEFINE pairs == {<<r.m, Host(r.c)>>}
  <1>1. r.c \in Conns /\ r.m \in Methods /\ Host(r.c) \in Hosts
    BY HostOf DEF ProvTyped
  <1>2. pairs \in SUBSET (Methods \X Hosts)
    BY <1>1
  <1>3. IsFiniteSet(pairs)
    BY FS_Singleton
  <1>4. Notify("ONLINE", pairs)
    BY DEF OnRegister
  <1>5. \A m, h : <<m, h>> \in pairs => m = r.m /\ h = Host(r.c)
    OBVIOUS
  <1> HIDE DEF pairs
  <1>6. PICK seq \in Seq(Notices) :
           /\ wire' = wire \o seq
           /\ \A i \in 1 .. Len(seq) :
                cst = "up" /\ seq[i].m \in dmeth /\ seq[i].op = "ONLINE"
                  /\ <<seq[i].m, seq[i].h>> \in pairs
           /\ \A m \in Methods, h \in Hosts :
                <<m, h>> \in pairs /\ m \in dmeth /\ cst = "up" =>
                  \E i \in 1 .. Len(seq) : seq[i] = Notice("ONLINE", m, h)
    BY <1>2, <1>3, <1>4, NotifyIs
  <1> QED
    BY <1>5, <1>6

LEMMA ShutdownSends ==
  ASSUME TablesTyped, NEW c \in Conns, OnConnShutdown(c)
  PROVE  \E seq \in Seq(Notices) :
           /\ wire' = wire \o seq
           /\ \A i \in 1 .. Len(seq) : cst = "up" /\ seq[i].m \in dmeth /\ seq[i].op = "OFFLINE"
           /\ \A m \in methods[c] : m \in dmeth /\ cst = "up" =>
                \E i \in 1 .. Len(seq) : seq[i] = Notice("OFFLINE", m, Host(c))
  <1> DEFINE pairs == DisconnectProvider(c)
             f == [m \in methods[c] |-> <<m, Host(c)>>]
  <1>1. Host(c) \in Hosts /\ methods[c] \subseteq Methods /\ IsFiniteSet(methods[c])
    BY HostOf DEF TablesTyped
  <1>2. pairs \in SUBSET (Methods \X Hosts)
    BY <1>1 DEF DisconnectProvider
  <1>3. f \in Surjection(methods[c], pairs)
    BY DEF Surjection, DisconnectProvider
  <1>4. IsFiniteSet(pairs)
    BY <1>1, <1>3, FS_Surjection
  <1>5. Notify("OFFLINE", pairs)
    BY DEF OnConnShutdown
  <1>6. \A m \in methods[c] : <<m, Host(c)>> \in pairs
    BY DEF DisconnectProvider
  <1> HIDE DEF pairs, f
  <1>7. PICK seq \in Seq(Notices) :
           /\ wire' = wire \o seq
           /\ \A i \in 1 .. Len(seq) :
                cst = "up" /\ seq[i].m \in dmeth /\ seq[i].op = "OFFLINE"
                  /\ <<seq[i].m, seq[i].h>> \in pairs
           /\ \A m \in Methods, h \in Hosts :
                <<m, h>> \in pairs /\ m \in dmeth /\ cst = "up" =>
                  \E i \in 1 .. Len(seq) : seq[i] = Notice("OFFLINE", m, h)
    BY <1>2, <1>4, <1>5, NotifyIs
  <1>8. \A m \in methods[c] : m \in dmeth /\ cst = "up" =>
          \E i \in 1 .. Len(seq) : seq[i] = Notice("OFFLINE", m, Host(c))
    BY <1>1, <1>6, <1>7
  <1> QED
    BY <1>7, <1>8

LEMMA SweepSends ==
  ASSUME TablesTyped, NEW p \in sweepOut, SweepNotify(p)
  PROVE  \E seq \in Seq(Notices) :
           /\ wire' = wire \o seq
           /\ \A i \in 1 .. Len(seq) : cst = "up" /\ seq[i].m \in dmeth /\ seq[i].op = "OFFLINE"
           /\ p[1] \in dmeth /\ cst = "up" =>
                \E i \in 1 .. Len(seq) : seq[i] = Notice("OFFLINE", p[1], p[2])
  <1> DEFINE pairs == {p}
  <1>1. p \in Methods \X Hosts
    BY DEF TablesTyped
  <1>2. pairs \in SUBSET (Methods \X Hosts) /\ <<p[1], p[2]>> \in pairs
          /\ p[1] \in Methods /\ p[2] \in Hosts
    BY <1>1
  <1>3. IsFiniteSet(pairs)
    BY FS_Singleton
  <1>4. Notify("OFFLINE", pairs)
    BY DEF SweepNotify
  <1> HIDE DEF pairs
  <1>6. PICK seq \in Seq(Notices) :
           /\ wire' = wire \o seq
           /\ \A i \in 1 .. Len(seq) :
                cst = "up" /\ seq[i].m \in dmeth /\ seq[i].op = "OFFLINE"
                  /\ <<seq[i].m, seq[i].h>> \in pairs
           /\ \A m \in Methods, h \in Hosts :
                <<m, h>> \in pairs /\ m \in dmeth /\ cst = "up" =>
                  \E i \in 1 .. Len(seq) : seq[i] = Notice("OFFLINE", m, h)
    BY <1>2, <1>3, <1>4, NotifyIs
  <1> QED
    BY <1>2, <1>6

\* The client's messages, calls and cache keep their types.
LEMMA ClientStep == ProvTyped /\ TablesTyped /\ ClientTyped /\ [Next]_vars => ClientTyped'
  <1> SUFFICES ASSUME ProvTyped, TablesTyped, ClientTyped, [Next]_vars PROVE ClientTyped'
    OBVIOUS
  <1>0. wire \in Seq(Notices \cup Answers)
    BY DEF ClientTyped
  <1>1. ASSUME NEW seq \in Seq(Notices), wire' = wire \o seq,
               UNCHANGED <<dmeth, cst, cliVars>>
        PROVE  ClientTyped'
    <2>1. seq \in Seq(Notices \cup Answers)
      <3>1. Len(seq) \in Nat /\ seq \in [1 .. Len(seq) -> Notices]
        OBVIOUS
      <3>2. seq \in [1 .. Len(seq) -> Notices \cup Answers]
        BY <3>1
      <3> QED
        BY <3>1, <3>2
    <2>2. wire' \in Seq(Notices \cup Answers)
      BY <1>0, <1>1, <2>1
    <2> QED
      BY <1>1, <2>2 DEF ClientTyped, cliVars
  <1>2. ASSUME NEW t \in Threads, NEW m \in Methods, AskRegistry(t, m) PROVE ClientTyped'
    <2>1. UNCHANGED <<cst, cached, hosts, tracked, missed>> /\ dmeth' = dmeth \cup {m}
      BY <1>2 DEF AskRegistry, OnDiscover
    <2>2. CASE UNCHANGED <<wire, call>>
      BY <2>1, <2>2 DEF ClientTyped
    <2>3. CASE /\ wire' = Append(wire, [op |-> "RSP", t |-> t, m |-> m, hosts |-> Listed(m)])
               /\ call' = [call EXCEPT ![t] = [at |-> "wait", m |-> m]]
      <3>1. Listed(m) \subseteq Hosts
        BY HostOf DEF Listed, TablesTyped
      <3>2. [op |-> "RSP", t |-> t, m |-> m, hosts |-> Listed(m)] \in Answers
        BY <3>1 DEF Answers
      <3>3. wire' \in Seq(Notices \cup Answers)
        BY <1>0, <2>3, <3>2
      <3>4. call' \in [Threads -> ClientCalls]
        BY <2>3 DEF ClientTyped, ClientCalls
      <3> QED
        BY <2>1, <3>3, <3>4 DEF ClientTyped
    <2> QED
      BY <1>2, <2>2, <2>3 DEF AskRegistry, OnDiscover, DiscoverResponse
  <1>3. ASSUME ClientReceive PROVE ClientTyped'
    <2> DEFINE msg == Head(wire)
    <2>1. wire' \in Seq(Notices \cup Answers) /\ msg \in Notices \cup Answers
      BY <1>0, <1>3 DEF ClientReceive
    <2>2. UNCHANGED <<dmeth, cst, tracked>>
      BY <1>3 DEF ClientReceive
    <2>3. \/ msg.op = "ONLINE" /\ OnOnline(msg)
          \/ msg.op = "OFFLINE" /\ OnOffline(msg)
          \/ msg.op = "RSP" /\ OnAnswer(msg)
      BY <1>3 DEF ClientReceive
    <2> HIDE DEF msg
    <2>4. CASE msg.op = "ONLINE" /\ OnOnline(msg)
      <3>1. msg.m \in Methods /\ msg.h \in Hosts
        BY <2>1, <2>4 DEF Notices, Answers
      <3> QED
        BY <2>1, <2>2, <2>4, <3>1 DEF OnOnline, ClientTyped
    <2>5. CASE msg.op = "OFFLINE" /\ OnOffline(msg)
      <3>1. msg.m \in Methods /\ msg.h \in Hosts
        BY <2>1, <2>5 DEF Notices, Answers
      <3>2. missed' \subseteq Methods \X Hosts /\ hosts' \in [Methods -> SUBSET Hosts]
        BY <2>5, <3>1 DEF OnOffline, ClientTyped
      <3> QED
        BY <2>1, <2>2, <2>5, <3>2 DEF OnOffline, ClientTyped
    <2>6. CASE msg.op = "RSP" /\ OnAnswer(msg)
      <3>1. msg.t \in Threads /\ msg.m \in Methods /\ msg.hosts \subseteq Hosts
        BY <2>1, <2>6 DEF Notices, Answers
      <3>2. call' \in [Threads -> ClientCalls]
        BY <2>6, <3>1 DEF OnAnswer, ClientTyped, ClientCalls
      <3> QED
        BY <2>1, <2>2, <2>6, <3>2 DEF OnAnswer, ClientTyped
    <2> QED
      BY <2>3, <2>4, <2>5, <2>6
  <1>4. ASSUME NEW t \in Threads, StoreAnswer(t) PROVE ClientTyped'
    <2> DEFINE m == call[t].m
               list == IF m \in cached THEN hosts[m] ELSE call[t].hosts
    <2>1. call[t] \in [at : {"got"}, m : Methods, hosts : SUBSET Hosts]
      BY <1>4 DEF StoreAnswer, ClientTyped, ClientCalls, NoCall
    <2>2. m \in Methods /\ list \subseteq Hosts
      BY <2>1 DEF ClientTyped
    <2>3. /\ cached' = cached \cup {m} /\ hosts' = [hosts EXCEPT ![m] = list]
          /\ tracked' \subseteq tracked \cup {m}
          /\ call' = [call EXCEPT ![t] = NoCall] /\ UNCHANGED <<dmeth, cst, wire, missed>>
      BY <1>4 DEF StoreAnswer
    <2> HIDE DEF m, list
    <2>4. call' \in [Threads -> ClientCalls]
      BY <2>3 DEF ClientTyped, ClientCalls
    <2>5. hosts' \in [Methods -> SUBSET Hosts]
      BY <2>2, <2>3 DEF ClientTyped
    <2> QED
      BY <2>2, <2>3, <2>4, <2>5 DEF ClientTyped
  <1>5. ASSUME ClientConnBreaks PROVE ClientTyped'
    <2>1. call' \in [Threads -> ClientCalls] /\ wire' \in Seq(Notices \cup Answers)
      BY <1>5 DEF ClientConnBreaks, ClientTyped, ClientCalls
    <2> QED
      BY <1>5, <2>1 DEF ClientConnBreaks, ClientTyped
  <1>6. ASSUME NEW m \in Methods, ServiceDiscoverCached(m) PROVE ClientTyped'
    BY <1>6 DEF ServiceDiscoverCached, ClientTyped
  <1>7. ASSUME NEW r \in reqs, OnRegister(r) PROVE ClientTyped'
    BY <1>1, <1>7, RegisterSends DEF OnRegister
  <1>8. ASSUME NEW c \in Conns, OnConnShutdown(c) PROVE ClientTyped'
    BY <1>1, <1>8, ShutdownSends DEF OnConnShutdown
  <1>9. ASSUME NEW p \in sweepOut, SweepNotify(p) PROVE ClientTyped'
    BY <1>1, <1>9, SweepSends DEF SweepNotify
  <1>10. CASE UNCHANGED <<dmeth, cst, wire, cliVars>>
    BY <1>10 DEF ClientTyped, cliVars
  <1>11. "user" \in Threads /\ "health" \in Threads
    BY DEF Threads
  <1> QED
    BY <1>2, <1>3, <1>4, <1>5, <1>6, <1>7, <1>8, <1>9, <1>10, <1>11
    DEF Next, ServerStep, StartProvider, EnsureConnected, ConnBreaks, Crash,
        RegisterToRegistry, RegisterFails, Heartbeat, GoStale, SweepExpired,
        ServiceDiscover, HealthCheck, cliVars, vars

\* Every step keeps all the types.
LEMMA TypedStep == Typed /\ [Next]_vars => Typed'
  <1>1. (Typed <=> ProvTyped /\ TablesTyped /\ ClientTyped)'
    BY TypedParts, PTL
  <1> QED
    BY <1>1, TypedParts, ProvStep, TablesStep, ClientStep

---------------------------------------------------------------------------
(* The tables of providers.                                                *)

\* Nothing of a closed connection stays in the tables.
LEMMA ClosedStep == Typed /\ ClosedGone /\ [Next]_vars => ClosedGone'
  <1> SUFFICES ASSUME ProvTyped, TablesTyped, ClosedGone, [Next]_vars PROVE ClosedGone'
    BY TypedParts
  <1>0. mwp \in [Methods -> SUBSET Conns] /\ methods \in [Conns -> SUBSET Methods]
          /\ conn \in [Conns -> {"none", "up", "broken", "closed"}]
    BY DEF ProvTyped, TablesTyped
  <1>1. ASSUME UNCHANGED <<connwithp, methods>>, \A m \in Methods : mwp'[m] \subseteq mwp[m],
               \A c \in Conns : conn'[c] \in {"up", "broken", conn[c]}
        PROVE  ClosedGone'
    BY <1>0, <1>1 DEF ClosedGone
  <1>2. ASSUME NEW h \in Hosts, Connect(h) PROVE \A c \in Conns : conn'[c] \in {"up", "broken", conn[c]}
    BY <1>0, <1>2 DEF Connect
  <1>3. ASSUME NEW h \in Hosts, StartProvider(h) \/ EnsureConnected(h) PROVE ClosedGone'
    BY <1>1, <1>2, <1>3 DEF StartProvider, EnsureConnected, tableVars
  <1>4. ASSUME NEW h \in Hosts, ConnBreaks(h) \/ Crash(h) PROVE ClosedGone'
    <2>1. \A c \in Conns : conn'[c] \in {"up", "broken", conn[c]}
      BY <1>0, <1>4 DEF ConnBreaks, Crash
    <2> QED
      BY <1>1, <1>4, <2>1 DEF ConnBreaks, Crash, tableVars
  <1>5. ASSUME NEW r \in reqs, OnRegister(r) PROVE ClosedGone'
    <2>1. r.c \in Conns /\ r.m \in Methods /\ conn[r.c] \in {"up", "broken"} /\ conn' = conn
      BY <1>5 DEF ProvTyped, OnRegister, Received
    <2>2. mwp' = [mwp EXCEPT ![r.m] = mwp[r.m] \cup {r.c}] /\ connwithp' = connwithp \cup {r.c}
            /\ methods' = [methods EXCEPT ![r.c] = methods[r.c] \cup {r.m}]
      BY <1>5 DEF OnRegister, AddProvider
    <2> SUFFICES ASSUME NEW m \in Methods, NEW c \in mwp'[m]
                 PROVE  c \in connwithp' /\ m \in methods'[c] /\ conn'[c] \in {"up", "broken"}
      BY DEF ClosedGone
    <2>3. CASE c \in mwp[m]
      <3>1. c \in Conns /\ c \in connwithp /\ m \in methods[c] /\ conn[c] \in {"up", "broken"}
        BY <1>0, <2>3 DEF ClosedGone
      <3> QED
        BY <1>0, <2>1, <2>2, <3>1
    <2>4. CASE c \notin mwp[m]
      <3>1. m = r.m /\ c = r.c
        BY <1>0, <2>1, <2>2, <2>4
      <3> QED
        BY <1>0, <2>1, <2>2, <3>1
    <2> QED
      BY <2>3, <2>4
  <1>6. ASSUME NEW c \in Conns, OnConnShutdown(c) PROVE ClosedGone'
    <2>1. /\ mwp' = [m \in Methods |-> IF m \in methods[c] THEN mwp[m] \ {c} ELSE mwp[m]]
          /\ connwithp' = connwithp \ {c} /\ methods' = [methods EXCEPT ![c] = {}]
          /\ conn' = [conn EXCEPT ![c] = "closed"]
      BY <1>6 DEF OnConnShutdown, DelProvider
    <2> SUFFICES ASSUME NEW m \in Methods, NEW d \in mwp'[m]
                 PROVE  d \in connwithp' /\ m \in methods'[d] /\ conn'[d] \in {"up", "broken"}
      BY DEF ClosedGone
    <2>2. d \in mwp[m] /\ d # c
      BY <1>0, <2>1 DEF ClosedGone
    <2>3. d \in Conns /\ d \in connwithp /\ m \in methods[d] /\ conn[d] \in {"up", "broken"}
      BY <1>0, <2>2 DEF ClosedGone
    <2> QED
      BY <1>0, <2>1, <2>2, <2>3
  <1>7. ASSUME SweepExpired PROVE ClosedGone'
    <2>1. mwp' = [m \in Methods |-> mwp[m] \ stale] /\ UNCHANGED <<connwithp, methods, conn>>
      BY <1>7 DEF SweepExpired
    <2> QED
      BY <1>1, <2>1
  <1>8. CASE UNCHANGED <<mwp, connwithp, methods, conn>>
    BY <1>8 DEF ClosedGone
  <1> QED
    BY <1>3, <1>4, <1>5, <1>6, <1>7, <1>8
    DEF Next, ServerStep, RegisterToRegistry, RegisterFails, Heartbeat, GoStale, SweepNotify,
        StoreAnswer, ServiceDiscoverCached, ServiceDiscover, HealthCheck, AskRegistry,
        ClientReceive, ClientConnBreaks, tableVars, vars

---------------------------------------------------------------------------
(* The client is told.                                                     *)

\* The elements of a concatenation.
LEMMA ConcatAt ==
  ASSUME NEW S, NEW s \in Seq(S), NEW t \in Seq(S)
  PROVE  /\ Len(s \o t) = Len(s) + Len(t) /\ Len(s) \in Nat /\ Len(t) \in Nat
         /\ \A i \in 1 .. Len(s) : i \in 1 .. Len(s \o t) /\ (s \o t)[i] = s[i]
         /\ \A k \in 1 .. Len(t) : Len(s) + k \in 1 .. Len(s \o t) /\ (s \o t)[Len(s) + k] = t[k]
         /\ \A i \in 1 .. Len(s \o t) :
              i \in 1 .. Len(s) \/ \E k \in 1 .. Len(t) : i = Len(s) + k
  <1>1. Len(s \o t) = Len(s) + Len(t) /\ Len(s) \in Nat /\ Len(t) \in Nat
    OBVIOUS
  <1>2. \A i \in 1 .. Len(s \o t) : i \in 1 .. Len(s) \/ i - Len(s) \in 1 .. Len(t)
    BY <1>1
  <1>3. \A i \in 1 .. Len(s \o t) : i = Len(s) + (i - Len(s))
    BY <1>1
  <1>4. \A i \in 1 .. Len(s) : i \in 1 .. Len(s \o t) /\ (s \o t)[i] = s[i]
    BY <1>1
  <1>5. \A k \in 1 .. Len(t) : Len(s) + k \in 1 .. Len(s \o t) /\ (s \o t)[Len(s) + k] = t[k]
    BY <1>1
  <1> QED
    BY <1>1, <1>2, <1>3, <1>4, <1>5

\* The elements of what is left when the first is taken.
LEMMA TailAt ==
  ASSUME NEW S, NEW s \in Seq(S), s # <<>>
  PROVE  /\ Len(s) \in Nat /\ Len(s) >= 1 /\ Len(Tail(s)) = Len(s) - 1
         /\ Head(s) = s[1] /\ Head(s) \in S
         /\ \A i \in 1 .. Len(Tail(s)) : i + 1 \in 1 .. Len(s) /\ Tail(s)[i] = s[i + 1]
         /\ \A j \in 1 .. Len(s) : j > 1 => j - 1 \in 1 .. Len(Tail(s)) /\ Tail(s)[j - 1] = s[j]
  OBVIOUS

\* A step that adds messages keeps everything tracked when it only adds messages
\* of methods the client is a discoverer of.
LEMMA TrackedStep == Typed /\ Tracked /\ WireTracked /\ [Next]_vars => Tracked' /\ WireTracked'
  <1> SUFFICES ASSUME ProvTyped, TablesTyped, ClientTyped, Tracked, WireTracked, [Next]_vars
               PROVE  Tracked' /\ WireTracked'
    BY TypedParts
  <1>0. wire \in Seq(Notices \cup Answers) /\ cst \in {"up", "closed"}
          /\ call \in [Threads -> ClientCalls]
    BY DEF ClientTyped
  <1>1. ASSUME NEW seq \in Seq(Notices \cup Answers), wire' = wire \o seq, cst' = cst,
               cached' = cached, dmeth \subseteq dmeth',
               \A t \in Threads : call'[t].at = "got" => call'[t] = call[t],
               \A i \in 1 .. Len(seq) : cst = "up" /\ seq[i].m \in dmeth'
        PROVE  Tracked' /\ WireTracked'
    <2>1. CASE cst = "up"
      <3>1. \A i \in 1 .. Len(wire') : wire'[i].m \in dmeth'
        <4> DEFINE w == wire \o seq
        <4> SUFFICES ASSUME NEW i \in 1 .. Len(w) PROVE w[i].m \in dmeth'
          BY <1>1
        <4>1. CASE i \in 1 .. Len(wire)
          <5>1. w[i] = wire[i]
            BY <1>0, <1>1, <4>1, ConcatAt
          <5> HIDE DEF w
          <5> QED
            BY <1>1, <2>1, <4>1, <5>1 DEF WireTracked
        <4>2. CASE \E k \in 1 .. Len(seq) : i = Len(wire) + k
          <5>1. PICK k \in 1 .. Len(seq) : i = Len(wire) + k
            BY <4>2
          <5>2. w[i] = seq[k]
            BY <1>0, <1>1, <5>1, ConcatAt
          <5> HIDE DEF w
          <5> QED
            BY <1>1, <5>2
        <4> QED
          BY <1>0, <1>1, <4>1, <4>2, ConcatAt
      <3>2. \A t \in Threads : call'[t].at = "got" => call'[t].m \in dmeth'
        BY <1>1, <2>1 DEF WireTracked
      <3> QED
        BY <1>1, <2>1, <3>1, <3>2 DEF Tracked, WireTracked
    <2>2. CASE cst = "closed"
      <3>1. Len(seq) \in Nat /\ ~(1 \in 1 .. Len(seq))
        BY <1>1, <2>2
      <3>2. seq = <<>>
        BY <3>1
      <3>3. wire' = <<>>
        BY <1>1, <2>2, <3>2 DEF WireTracked
      <3> QED
        BY <1>1, <2>2, <3>3 DEF Tracked, WireTracked
    <2> QED
      BY <1>0, <2>1, <2>2
  <1>2. ASSUME NEW seq \in Seq(Notices), wire' = wire \o seq,
               \A i \in 1 .. Len(seq) : cst = "up" /\ seq[i].m \in dmeth,
               UNCHANGED <<dmeth, cst, cliVars>>
        PROVE  Tracked' /\ WireTracked'
    <2>1. seq \in Seq(Notices \cup Answers)
      <3>1. Len(seq) \in Nat /\ seq \in [1 .. Len(seq) -> Notices]
        OBVIOUS
      <3>2. seq \in [1 .. Len(seq) -> Notices \cup Answers]
        BY <3>1
      <3> QED
        BY <3>1, <3>2
    <2> QED
      BY <1>1, <1>2, <2>1 DEF cliVars
  <1>3. ASSUME NEW t \in Threads, NEW m \in Methods, AskRegistry(t, m)
        PROVE  Tracked' /\ WireTracked'
    <2>1. cst = "up" /\ cst' = "up" /\ cached' = cached /\ dmeth' = dmeth \cup {m}
      BY <1>3 DEF AskRegistry, OnDiscover
    <2>2. CASE UNCHANGED <<wire, call>>
      BY <2>1, <2>2 DEF Tracked, WireTracked
    <2>3. CASE /\ wire' = Append(wire, [op |-> "RSP", t |-> t, m |-> m, hosts |-> Listed(m)])
               /\ call' = [call EXCEPT ![t] = [at |-> "wait", m |-> m]]
      <3> DEFINE a == [op |-> "RSP", t |-> t, m |-> m, hosts |-> Listed(m)]
      <3>1. Listed(m) \subseteq Hosts
        BY HostOf DEF Listed, TablesTyped
      <3>2. a \in Notices \cup Answers /\ a.m = m
        BY <3>1 DEF Answers
      <3>3. wire' = Append(wire, a)
        BY <2>3
      <3> HIDE DEF a
      <3>4. <<a>> \in Seq(Notices \cup Answers) /\ Len(<<a>>) = 1 /\ <<a>>[1] = a
        BY <3>2
      <3>5. wire' = wire \o <<a>>
        BY <1>0, <3>2, <3>3
      <3>6. \A u \in Threads : call'[u].at = "got" => call'[u] = call[u]
        BY <1>0, <2>3
      <3>7. \A i \in 1 .. Len(<<a>>) : cst = "up" /\ <<a>>[i].m \in dmeth'
        BY <2>1, <3>2, <3>4
      <3> QED
        BY <1>1, <2>1, <3>4, <3>5, <3>6, <3>7
    <2> QED
      BY <1>3, <2>2, <2>3 DEF AskRegistry, OnDiscover, DiscoverResponse
  <1>4. ASSUME ClientReceive PROVE Tracked' /\ WireTracked'
    <2> DEFINE msg == Head(wire)
    <2>1. wire # <<>> /\ wire' = Tail(wire) /\ UNCHANGED <<dmeth, cst>>
      BY <1>4 DEF ClientReceive
    <2>2. cst = "up"
      BY <1>0, <2>1 DEF WireTracked
    <2>3. msg = wire[1] /\ msg \in Notices \cup Answers /\ 1 \in 1 .. Len(wire)
      BY <1>0, <2>1, TailAt
    <2>4. msg.m \in dmeth
      BY <2>2, <2>3 DEF WireTracked
    <2>5. \A i \in 1 .. Len(wire') : wire'[i].m \in dmeth
      BY <1>0, <2>1, <2>2, TailAt DEF WireTracked
    <2>6. \/ msg.op = "ONLINE" /\ OnOnline(msg)
          \/ msg.op = "OFFLINE" /\ OnOffline(msg)
          \/ msg.op = "RSP" /\ OnAnswer(msg)
      BY <1>4 DEF ClientReceive
    <2> HIDE DEF msg
    <2>7. cached' \subseteq cached \cup {msg.m}
      BY <2>6 DEF OnOnline, OnOffline, OnAnswer
    <2>8. \A t \in Threads : call'[t].at = "got" => call'[t] = call[t] \/ call'[t].m = msg.m
      BY <1>0, <2>6 DEF OnOnline, OnOffline, OnAnswer, NoCall
    <2> QED
      BY <2>1, <2>2, <2>4, <2>5, <2>7, <2>8 DEF Tracked, WireTracked
  <1>5. ASSUME NEW t \in Threads, StoreAnswer(t) PROVE Tracked' /\ WireTracked'
    <2>1. /\ call[t].at = "got" /\ cached' = cached \cup {call[t].m}
          /\ call' = [call EXCEPT ![t] = NoCall] /\ UNCHANGED <<dmeth, cst, wire>>
      BY <1>5 DEF StoreAnswer
    <2>2. \A u \in Threads : call'[u].at = "got" => call'[u] = call[u]
      BY <1>0, <2>1 DEF NoCall
    <2> QED
      BY <2>1, <2>2 DEF Tracked, WireTracked
  <1>6. ASSUME ClientConnBreaks PROVE Tracked' /\ WireTracked'
    BY <1>6 DEF ClientConnBreaks, Tracked, WireTracked
  <1>7. ASSUME NEW r \in reqs, OnRegister(r) PROVE Tracked' /\ WireTracked'
    BY <1>2, <1>7, RegisterSends DEF OnRegister
  <1>8. ASSUME NEW c \in Conns, OnConnShutdown(c) PROVE Tracked' /\ WireTracked'
    BY <1>2, <1>8, ShutdownSends DEF OnConnShutdown
  <1>9. ASSUME NEW p \in sweepOut, SweepNotify(p) PROVE Tracked' /\ WireTracked'
    BY <1>2, <1>9, SweepSends DEF SweepNotify
  <1>10. CASE UNCHANGED <<dmeth, cst, wire, call, cached>>
    BY <1>10 DEF Tracked, WireTracked
  <1>11. "user" \in Threads /\ "health" \in Threads
    BY DEF Threads
  <1> QED
    BY <1>3, <1>4, <1>5, <1>6, <1>7, <1>8, <1>9, <1>10, <1>11
    DEF Next, ServerStep, StartProvider, EnsureConnected, ConnBreaks, Crash,
        RegisterToRegistry, RegisterFails, Heartbeat, GoStale, SweepExpired,
        ServiceDiscover, HealthCheck, ServiceDiscoverCached, cliVars, vars

---------------------------------------------------------------------------
(* No ghosts.                                                              *)

\* A step that puts messages behind what is on the way keeps a host told when,
\* taken off the list or out of the sweep's output, it is among these messages.
LEMMA ToldKept ==
  ASSUME wire \in Seq(Notices \cup Answers), NEW seq \in Seq(Notices \cup Answers),
         wire' = wire \o seq, NEW m, NEW h,
         h \in Listed(m) \/ <<m, h>> \in sweepOut =>
           \/ h \in Listed(m)' \/ <<m, h>> \in sweepOut'
           \/ \E k \in 1 .. Len(seq) : seq[k] = Notice("OFFLINE", m, h)
  PROVE  \A i \in 0 .. Len(wire) : Told(i, m, h) => Told(i, m, h)'
  <1> SUFFICES ASSUME NEW i \in 0 .. Len(wire), Told(i, m, h) PROVE Told(i, m, h)'
    OBVIOUS
  <1> DEFINE w == wire \o seq
  <1>0. /\ Len(wire) \in Nat
        /\ \A j \in 1 .. Len(wire) : j \in 1 .. Len(w) /\ w[j] = wire[j]
        /\ \A k \in 1 .. Len(seq) : Len(wire) + k \in 1 .. Len(w) /\ w[Len(wire) + k] = seq[k]
    <2> DEFINE S == Notices \cup Answers
    <2>1. wire \in Seq(S) /\ seq \in Seq(S)
      OBVIOUS
    <2> HIDE DEF S
    <2> QED
      BY <2>1, ConcatAt
  <1>1. CASE \E j \in 1 .. Len(wire) : j > i /\ wire[j] = Notice("OFFLINE", m, h)
    <2>1. \E j \in 1 .. Len(w) : j > i /\ w[j] = Notice("OFFLINE", m, h)
      BY <1>0, <1>1
    <2> QED
      BY <2>1 DEF Told, Notice
  <1>2. CASE \E k \in 1 .. Len(seq) : seq[k] = Notice("OFFLINE", m, h)
    <2>1. PICK k \in 1 .. Len(seq) : seq[k] = Notice("OFFLINE", m, h)
      BY <1>2
    <2>2. Len(wire) + k > i
      BY <1>0
    <2>3. \E j \in 1 .. Len(w) : j > i /\ w[j] = Notice("OFFLINE", m, h)
      BY <1>0, <2>1, <2>2
    <2> QED
      BY <2>3 DEF Told, Notice
  <1>3. CASE h \in Listed(m)' \/ <<m, h>> \in sweepOut'
    BY <1>3 DEF Told
  <1> QED
    BY <1>1, <1>2, <1>3 DEF Told

\* A step of the server that keeps what is told.
LEMMA GhostExtends ==
  ASSUME ClientTyped, Tracked, WireTracked, NEW m \in Methods, NEW h \in Hosts, GhostOf(m, h),
         NEW seq \in Seq(Notices \cup Answers), wire' = wire \o seq,
         UNCHANGED <<cached, hosts, missed, cst>>,
         \A t \in Threads : call'[t].at = "got" => call'[t] = call[t],
         m \in dmeth => \A i \in 0 .. Len(wire) : Told(i, m, h) => Told(i, m, h)',
         \A k \in 1 .. Len(seq) : Carries(seq[k], m, h) => h \in Listed(m)'
  PROVE  GhostOf(m, h)'
  <1>0. wire \in Seq(Notices \cup Answers) /\ Len(wire) \in Nat /\ 0 \in 0 .. Len(wire)
    BY DEF ClientTyped
  <1>1. (h \in hosts[m] => m \in cached)'
    BY DEF GhostOf
  <1>2. ASSUME cst = "up", Near(m, h)' PROVE Told(0, m, h)' \/ <<m, h>> \in missed'
    <2>1. Near(m, h)
      BY <1>2 DEF Near
    <2>2. m \in dmeth
      BY <1>2, <2>1 DEF Near, GhostOf, Tracked, WireTracked
    <2> QED
      BY <1>0, <1>2, <2>1, <2>2 DEF GhostOf
  <1>3. ASSUME cst = "up", NEW i \in 1 .. Len(wire'), Carries(wire'[i], m, h)
        PROVE  Told(i, m, h)'
    <2> DEFINE w == wire \o seq
    <2>1. /\ \A j \in 1 .. Len(wire) : j \in 1 .. Len(w) /\ w[j] = wire[j]
          /\ \A k \in 1 .. Len(seq) : Len(wire) + k \in 1 .. Len(w) /\ w[Len(wire) + k] = seq[k]
          /\ \A j \in 1 .. Len(w) :
               j \in 1 .. Len(wire) \/ \E k \in 1 .. Len(seq) : j = Len(wire) + k
      <3> DEFINE S == Notices \cup Answers
      <3>1. wire \in Seq(S) /\ seq \in Seq(S)
        BY <1>0
      <3> HIDE DEF S
      <3> QED
        BY <3>1, ConcatAt
    <2>2. i \in 1 .. Len(w) /\ Carries(w[i], m, h)
      BY <1>3
    <2> HIDE DEF w
    <2>3. CASE i \in 1 .. Len(wire)
      <3>1. Carries(wire[i], m, h)
        BY <2>1, <2>2, <2>3
      <3>2. m \in dmeth /\ Told(i, m, h) /\ i \in 0 .. Len(wire)
        BY <1>0, <1>3, <2>3, <3>1 DEF GhostOf, WireTracked, Carries
      <3> QED
        BY <3>2
    <2>4. CASE \E k \in 1 .. Len(seq) : i = Len(wire) + k
      <3>1. h \in Listed(m)'
        BY <2>1, <2>2, <2>4
      <3> QED
        BY <3>1 DEF Told
    <2> QED
      BY <2>1, <2>2, <2>3, <2>4
  <1> QED
    BY <1>1, <1>2, <1>3 DEF GhostOf

\* The same for a step that sends nothing.
LEMMA GhostQuiet ==
  ASSUME ClientTyped, Tracked, WireTracked, NEW m \in Methods, NEW h \in Hosts, GhostOf(m, h),
         UNCHANGED <<wire, cached, hosts, missed, cst>>,
         \A t \in Threads : call'[t].at = "got" => call'[t] = call[t],
         h \in Listed(m) \/ <<m, h>> \in sweepOut => h \in Listed(m)' \/ <<m, h>> \in sweepOut'
  PROVE  GhostOf(m, h)'
  <1> DEFINE seq == <<>>
  <1>1. wire \in Seq(Notices \cup Answers)
    BY DEF ClientTyped
  <1>2. seq \in Seq(Notices \cup Answers) /\ wire' = wire \o seq /\ Len(seq) = 0
    BY <1>1
  <1> HIDE DEF seq
  <1>3. \A i \in 0 .. Len(wire) : Told(i, m, h) => Told(i, m, h)'
    BY <1>1, <1>2, ToldKept
  <1>4. \A k \in 1 .. Len(seq) : Carries(seq[k], m, h) => h \in Listed(m)'
    BY <1>2
  <1> QED
    BY <1>2, <1>3, <1>4, GhostExtends

\* The client's event loop takes a message.
LEMMA GhostReceives ==
  ASSUME ClientTyped, WireTracked, NEW m \in Methods, NEW h \in Hosts, GhostOf(m, h), ClientReceive
  PROVE  GhostOf(m, h)'
  <1> DEFINE msg == wire[1]
  <1>1. wire \in Seq(Notices \cup Answers) /\ wire # <<>> /\ wire' = Tail(wire)
          /\ UNCHANGED <<dmeth, cst, mwp, sweepOut>>
    BY DEF ClientReceive, ClientTyped, tableVars
  <1>2. cst = "up"
    BY <1>1 DEF WireTracked, ClientTyped
  <1>3. /\ Len(wire) \in Nat /\ Len(wire) >= 1 /\ 1 \in 1 .. Len(wire)
        /\ Head(wire) = msg /\ msg \in Notices \cup Answers
        /\ \A i \in 1 .. Len(wire') : i + 1 \in 1 .. Len(wire) /\ wire'[i] = wire[i + 1]
        /\ \A j \in 1 .. Len(wire) : j > 1 => j - 1 \in 1 .. Len(wire') /\ wire'[j - 1] = wire[j]
    <2> DEFINE S == Notices \cup Answers
    <2>1. wire \in Seq(S)
      BY <1>1
    <2> HIDE DEF S
    <2>2. Head(wire) \in S
      BY <1>1, <2>1, TailAt
    <2> QED
      BY <1>1, <2>1, <2>2, TailAt DEF S
  <1>4. \/ msg.op = "ONLINE" /\ OnOnline(msg)
        \/ msg.op = "OFFLINE" /\ OnOffline(msg)
        \/ msg.op = "RSP" /\ OnAnswer(msg)
    BY <1>3 DEF ClientReceive
  <1>5. Listed(m)' = Listed(m)
    BY <1>1 DEF Listed
  <1>6. ASSUME NEW i \in 0 .. Len(wire), Told(i + 1, m, h) PROVE Told(i, m, h)'
    <2>1. CASE \E j \in 1 .. Len(wire) : j > i + 1 /\ wire[j] = Notice("OFFLINE", m, h)
      <3>1. PICK j \in 1 .. Len(wire) : j > i + 1 /\ wire[j] = Notice("OFFLINE", m, h)
        BY <2>1
      <3>2. j > 1 /\ j - 1 > i /\ j - 1 \in 1 .. Len(wire') /\ wire'[j - 1] = wire[j]
        BY <1>3, <3>1
      <3> QED
        BY <3>1, <3>2 DEF Told, Notice
    <2> QED
      BY <1>1, <1>5, <1>6, <2>1 DEF Told
  <1>7. ASSUME Told(0, m, h), msg # Notice("OFFLINE", m, h) PROVE Told(0, m, h)'
    <2>1. Told(1, m, h)
      BY <1>3, <1>7 DEF Told
    <2>2. 0 \in 0 .. Len(wire) /\ 0 + 1 = 1
      BY <1>3
    <2> QED
      BY <1>6, <2>1, <2>2
  <1>8. ASSUME Carries(msg, m, h) PROVE Told(0, m, h)'
    <2>1. Told(1, m, h)
      BY <1>2, <1>3, <1>8 DEF GhostOf
    <2>2. 0 \in 0 .. Len(wire) /\ 0 + 1 = 1
      BY <1>3
    <2> QED
      BY <1>6, <2>1, <2>2
  <1>9. ASSUME NEW i \in 1 .. Len(wire'), Carries(wire'[i], m, h) PROVE Told(i, m, h)'
    <2>1. i \in 0 .. Len(wire) /\ i + 1 \in 1 .. Len(wire) /\ wire'[i] = wire[i + 1]
      BY <1>3
    <2>2. Told(i + 1, m, h)
      BY <1>2, <1>9, <2>1 DEF GhostOf
    <2> QED
      BY <1>6, <2>1, <2>2
  <1>10. Near(m, h) => Told(0, m, h) \/ <<m, h>> \in missed
    BY <1>2 DEF GhostOf
  <1>11. (h \in hosts[m] => m \in cached)
    BY DEF GhostOf
  <1>12. hosts \in [Methods -> SUBSET Hosts] /\ call \in [Threads -> ClientCalls]
    BY DEF ClientTyped
  <1> HIDE DEF msg
  <1>13. CASE msg.op = "ONLINE" /\ OnOnline(msg)
    <2>1. msg.m \in Methods /\ msg.h \in Hosts
      BY <1>3, <1>13 DEF Notices, Answers
    <2>2. /\ cached' = cached \cup {msg.m}
          /\ hosts' = [hosts EXCEPT ![msg.m] = hosts[msg.m] \cup {msg.h}]
          /\ missed' = missed \ {<<msg.m, msg.h>>} /\ call' = call
      BY <1>13 DEF OnOnline
    <2>3. CASE m = msg.m /\ h = msg.h
      <3>1. Told(0, m, h)'
        BY <1>8, <1>13, <2>3 DEF Carries
      <3> QED
        BY <1>9, <2>2, <2>3, <3>1 DEF GhostOf
    <2>4. CASE ~(m = msg.m /\ h = msg.h)
      <3>1. h \in hosts'[m] => h \in hosts[m]
        BY <1>12, <2>1, <2>2, <2>4
      <3>2. Near(m, h)' => Near(m, h)
        BY <2>2, <3>1 DEF Near
      <3>3. <<m, h>> \in missed => <<m, h>> \in missed'
        BY <2>2, <2>4
      <3>4. msg # Notice("OFFLINE", m, h)
        BY <1>13 DEF Notice
      <3> QED
        BY <1>7, <1>9, <1>10, <1>11, <2>2, <3>1, <3>2, <3>3, <3>4 DEF GhostOf
    <2> QED
      BY <2>3, <2>4
  <1>14. CASE msg.op = "OFFLINE" /\ OnOffline(msg)
    <2>1. msg.m \in Methods /\ msg.h \in Hosts
      BY <1>3, <1>14 DEF Notices, Answers
    <2>2. /\ hosts' = [hosts EXCEPT ![msg.m] = hosts[msg.m] \ {msg.h}]
          /\ UNCHANGED <<call, cached>>
          /\ missed \ {<<msg.m, msg.h>>} \subseteq missed'
      BY <1>14 DEF OnOffline
    <2>3. CASE m = msg.m /\ h = msg.h
      <3>1. h \notin hosts'[m]
        BY <1>12, <2>1, <2>2, <2>3
      <3>2. ASSUME Near(m, h)' PROVE <<m, h>> \in missed'
        <4>1. m \notin cached
          BY <2>2, <3>1, <3>2 DEF Near
        <4>2. \E t \in Threads : call[t].at = "got" /\ call[t].m = m /\ h \in call[t].hosts
          BY <2>2, <3>1, <3>2 DEF Near
        <4> QED
          BY <1>14, <2>3, <4>1, <4>2 DEF OnOffline
      <3> QED
        BY <1>9, <3>1, <3>2 DEF GhostOf
    <2>4. CASE ~(m = msg.m /\ h = msg.h)
      <3>1. h \in hosts'[m] => h \in hosts[m]
        BY <1>12, <2>1, <2>2
      <3>2. Near(m, h)' => Near(m, h)
        BY <2>2, <3>1 DEF Near
      <3>3. <<m, h>> \in missed => <<m, h>> \in missed'
        BY <2>2, <2>4
      <3>4. msg # Notice("OFFLINE", m, h)
        BY <2>4 DEF Notice
      <3> QED
        BY <1>7, <1>9, <1>10, <1>11, <2>2, <3>1, <3>2, <3>3, <3>4 DEF GhostOf
    <2> QED
      BY <2>3, <2>4
  <1>15. CASE msg.op = "RSP" /\ OnAnswer(msg)
    <2>1. UNCHANGED <<cached, hosts, missed>>
      BY <1>15 DEF OnAnswer
    <2>2. Near(m, h)' => Near(m, h) \/ Carries(msg, m, h)
      <3>1. \A t \in Threads : call'[t].at = "got" =>
              call'[t] = call[t] \/ (call'[t].m = msg.m /\ call'[t].hosts = msg.hosts)
        BY <1>12, <1>15 DEF OnAnswer, NoCall
      <3> QED
        BY <1>15, <2>1, <3>1 DEF Near, Carries
    <2>3. msg # Notice("OFFLINE", m, h)
      BY <1>15 DEF Notice
    <2> QED
      BY <1>7, <1>8, <1>9, <1>10, <1>11, <2>1, <2>2, <2>3 DEF GhostOf
  <1> QED
    BY <1>4, <1>13, <1>14, <1>15

\* Every step keeps the ghosts away.
LEMMA GhostStep ==
  Typed /\ ClosedGone /\ Tracked /\ WireTracked /\ GhostInv /\ [Next]_vars => GhostInv'
  <1> SUFFICES ASSUME ProvTyped, TablesTyped, ClientTyped, ClosedGone, Tracked, WireTracked,
                      [Next]_vars, NEW m \in Methods, NEW h \in Hosts, GhostOf(m, h)
               PROVE  GhostOf(m, h)'
    BY TypedParts DEF GhostInv
  <1>0. wire \in Seq(Notices \cup Answers) /\ cst \in {"up", "closed"}
          /\ call \in [Threads -> ClientCalls] /\ hosts \in [Methods -> SUBSET Hosts]
          /\ mwp \in [Methods -> SUBSET Conns]
    BY DEF ClientTyped, TablesTyped
  <1>1. ASSUME NEW seq \in Seq(Notices), wire' = wire \o seq, UNCHANGED <<cst, cliVars>>,
               cst = "up" /\ m \in dmeth /\ (h \in Listed(m) \/ <<m, h>> \in sweepOut) =>
                 \/ h \in Listed(m)' \/ <<m, h>> \in sweepOut'
                 \/ \E k \in 1 .. Len(seq) : seq[k] = Notice("OFFLINE", m, h),
               \A k \in 1 .. Len(seq) : Carries(seq[k], m, h) => h \in Listed(m)'
        PROVE  GhostOf(m, h)'
    <2>1. seq \in Seq(Notices \cup Answers)
      <3>1. Len(seq) \in Nat /\ seq \in [1 .. Len(seq) -> Notices]
        OBVIOUS
      <3>2. seq \in [1 .. Len(seq) -> Notices \cup Answers]
        BY <3>1
      <3> QED
        BY <3>1, <3>2
    <2>2. CASE cst = "up"
      <3>1. m \in dmeth => \A i \in 0 .. Len(wire) : Told(i, m, h) => Told(i, m, h)'
        BY <1>0, <1>1, <2>1, <2>2, ToldKept
      <3> QED
        BY <1>1, <2>1, <3>1, GhostExtends DEF cliVars
    <2>3. CASE cst # "up"
      BY <1>1, <2>3 DEF GhostOf, cliVars
    <2> QED
      BY <2>2, <2>3
  <1>2. ASSUME NEW r \in reqs, OnRegister(r) PROVE GhostOf(m, h)'
    <2>1. PICK seq \in Seq(Notices) :
           /\ wire' = wire \o seq
           /\ \A i \in 1 .. Len(seq) :
                cst = "up" /\ seq[i].m \in dmeth /\ seq[i].op = "ONLINE"
                  /\ seq[i].m = r.m /\ seq[i].h = Host(r.c)
      BY <1>2, RegisterSends
    <2>2. mwp' = [mwp EXCEPT ![r.m] = mwp[r.m] \cup {r.c}]
            /\ UNCHANGED <<cst, sweepOut, cliVars>> /\ r.m \in Methods
      BY <1>2 DEF OnRegister, AddProvider, ProvTyped
    <2>3. Listed(m) \subseteq Listed(m)'
      BY <1>0, <2>2 DEF Listed
    <2>4. Host(r.c) \in Listed(r.m)'
      BY <1>0, <2>2 DEF Listed
    <2>5. \A k \in 1 .. Len(seq) : Carries(seq[k], m, h) => h \in Listed(m)'
      BY <2>1, <2>4 DEF Carries
    <2> QED
      BY <1>1, <2>1, <2>2, <2>3, <2>5
  <1>3. ASSUME NEW c \in Conns, OnConnShutdown(c) PROVE GhostOf(m, h)'
    <2>1. PICK seq \in Seq(Notices) :
           /\ wire' = wire \o seq
           /\ \A i \in 1 .. Len(seq) : cst = "up" /\ seq[i].m \in dmeth /\ seq[i].op = "OFFLINE"
           /\ \A k \in methods[c] : k \in dmeth /\ cst = "up" =>
                \E i \in 1 .. Len(seq) : seq[i] = Notice("OFFLINE", k, Host(c))
      BY <1>3, ShutdownSends
    <2>2. mwp' = [k \in Methods |-> IF k \in methods[c] THEN mwp[k] \ {c} ELSE mwp[k]]
            /\ UNCHANGED <<cst, sweepOut, cliVars>>
      BY <1>3 DEF OnConnShutdown, DelProvider
    <2>3. h \in Listed(m) => h \in Listed(m)' \/ (m \in methods[c] /\ h = Host(c))
      BY <1>0, <2>2 DEF Listed, ClosedGone
    <2>4. \A k \in 1 .. Len(seq) : Carries(seq[k], m, h) => h \in Listed(m)'
      BY <2>1 DEF Carries
    <2> QED
      BY <1>1, <2>1, <2>2, <2>3, <2>4
  <1>4. ASSUME NEW p \in sweepOut, SweepNotify(p) PROVE GhostOf(m, h)'
    <2>1. PICK seq \in Seq(Notices) :
           /\ wire' = wire \o seq
           /\ \A i \in 1 .. Len(seq) : cst = "up" /\ seq[i].m \in dmeth /\ seq[i].op = "OFFLINE"
           /\ p[1] \in dmeth /\ cst = "up" =>
                \E i \in 1 .. Len(seq) : seq[i] = Notice("OFFLINE", p[1], p[2])
      BY <1>4, SweepSends
    <2>2. sweepOut' = sweepOut \ {p} /\ UNCHANGED <<cst, mwp, cliVars>> /\ p \in Methods \X Hosts
      BY <1>4 DEF SweepNotify, tableVars, TablesTyped
    <2>3. Listed(m)' = Listed(m)
      BY <2>2 DEF Listed
    <2>4. \A k \in 1 .. Len(seq) : Carries(seq[k], m, h) => h \in Listed(m)'
      BY <2>1 DEF Carries
    <2>5. <<m, h>> \in sweepOut => <<m, h>> \in sweepOut' \/ (p[1] = m /\ p[2] = h)
      BY <2>2
    <2> QED
      BY <1>1, <2>1, <2>2, <2>3, <2>4, <2>5
  <1>5. ASSUME SweepExpired PROVE GhostOf(m, h)'
    <2>1. /\ mwp' = [k \in Methods |-> mwp[k] \ stale]
          /\ sweepOut' = sweepOut \cup
               {p \in Methods \X Hosts : \E c \in mwp[p[1]] \cap stale : Host(c) = p[2]}
          /\ UNCHANGED <<cst, wire, cliVars>>
      BY <1>5 DEF SweepExpired
    <2>2. h \in Listed(m) => h \in Listed(m)' \/ <<m, h>> \in sweepOut'
      <3> SUFFICES ASSUME NEW c \in mwp[m], Host(c) = h
                   PROVE  h \in Listed(m)' \/ <<m, h>> \in sweepOut'
        BY DEF Listed
      <3>1. CASE c \in stale
        BY <2>1, <3>1
      <3>2. CASE c \notin stale
        BY <1>0, <2>1, <3>2 DEF Listed
      <3> QED
        BY <3>1, <3>2
    <2> QED
      BY <2>1, <2>2, GhostQuiet DEF cliVars
  <1>6. ASSUME NEW t \in Threads, NEW k \in Methods, AskRegistry(t, k) PROVE GhostOf(m, h)'
    <2>1. cst = "up" /\ UNCHANGED <<cst, cached, hosts, missed, mwp, sweepOut>>
      BY <1>6 DEF AskRegistry, tableVars
    <2>2. Listed(m)' = Listed(m)
      BY <2>1 DEF Listed
    <2>3. CASE UNCHANGED <<wire, call>>
      BY <2>1, <2>2, <2>3, GhostQuiet
    <2>4. CASE /\ wire' = Append(wire, [op |-> "RSP", t |-> t, m |-> k, hosts |-> Listed(k)])
               /\ call' = [call EXCEPT ![t] = [at |-> "wait", m |-> k]]
      <3> DEFINE a == [op |-> "RSP", t |-> t, m |-> k, hosts |-> Listed(k)]
                 seq == <<a>>
      <3>1. Listed(k) \subseteq Hosts
        BY HostOf DEF Listed, TablesTyped
      <3>2. a \in Notices \cup Answers /\ (Carries(a, m, h) => h \in Listed(m)')
        BY <2>2, <3>1 DEF Answers, Carries
      <3>3. wire' = Append(wire, a)
        BY <2>4
      <3> HIDE DEF a
      <3>4. seq \in Seq(Notices \cup Answers) /\ Len(seq) = 1 /\ seq[1] = a
        BY <3>2
      <3>5. wire' = wire \o seq
        BY <1>0, <3>2, <3>3
      <3> HIDE DEF seq
      <3>6. \A u \in Threads : call'[u].at = "got" => call'[u] = call[u]
        BY <1>0, <2>4
      <3>7. \A i \in 1 .. Len(seq) : Carries(seq[i], m, h) => h \in Listed(m)'
        BY <3>2, <3>4
      <3>8. \A i \in 0 .. Len(wire) : Told(i, m, h) => Told(i, m, h)'
        BY <1>0, <2>1, <2>2, <3>4, <3>5, ToldKept
      <3> QED
        BY <2>1, <3>4, <3>5, <3>6, <3>7, <3>8, GhostExtends
    <2> QED
      BY <1>6, <2>3, <2>4 DEF AskRegistry, OnDiscover, DiscoverResponse
  <1>7. ASSUME ClientReceive PROVE GhostOf(m, h)'
    BY <1>7, GhostReceives
  <1>8. ASSUME NEW t \in Threads, StoreAnswer(t) PROVE GhostOf(m, h)'
    <2> DEFINE k == call[t].m
               list == IF k \in cached THEN hosts[k] ELSE call[t].hosts
    <2>1. /\ call[t].at = "got" /\ cached' = cached \cup {k}
          /\ hosts' = [hosts EXCEPT ![k] = list]
          /\ call' = [call EXCEPT ![t] = NoCall]
          /\ UNCHANGED <<cst, wire, mwp, sweepOut, missed>>
      BY <1>8 DEF StoreAnswer, tableVars
    <2>2. k \in Methods
      BY <1>0, <2>1 DEF ClientCalls, NoCall
    <2>3. \A i \in 0 .. Len(wire) : Told(i, m, h)' <=> Told(i, m, h)
      BY <2>1 DEF Told, Listed
    <2>4. h \in hosts'[m] => Near(m, h) /\ m \in cached'
      BY <1>0, <2>1, <2>2 DEF Near, GhostOf
    <2>5. \A u \in Threads : call'[u].at = "got" => call'[u] = call[u]
      BY <1>0, <2>1 DEF NoCall
    <2>6. Near(m, h)' => Near(m, h)
      <3>1. h \in hosts'[m] => Near(m, h)
        BY <2>4
      <3>2. m \notin cached' => m \notin cached
        BY <2>1
      <3> QED
        BY <2>5, <3>1, <3>2 DEF Near
    <2>7. Len(wire) \in Nat /\ 0 \in 0 .. Len(wire) /\ \A i \in 1 .. Len(wire) : i \in 0 .. Len(wire)
      BY <1>0
    <2>8. cst = "up" /\ Near(m, h)' => Told(0, m, h)' \/ <<m, h>> \in missed'
      BY <2>1, <2>3, <2>6, <2>7 DEF GhostOf
    <2>9. cst = "up" => \A i \in 1 .. Len(wire) : Carries(wire[i], m, h) => Told(i, m, h)'
      BY <2>3, <2>7 DEF GhostOf
    <2> QED
      BY <2>1, <2>4, <2>8, <2>9 DEF GhostOf
  <1>9. ASSUME ClientConnBreaks PROVE GhostOf(m, h)'
    BY <1>9 DEF ClientConnBreaks, GhostOf
  <1>10. CASE UNCHANGED <<cst, wire, call, cached, hosts, missed, mwp, sweepOut>>
    <2>1. Listed(m)' = Listed(m)
      BY <1>10 DEF Listed
    <2> QED
      BY <1>10, <2>1, GhostQuiet
  <1>11. "user" \in Threads /\ "health" \in Threads
    BY DEF Threads
  <1> QED
    BY <1>2, <1>3, <1>4, <1>5, <1>6, <1>7, <1>8, <1>9, <1>10, <1>11
    DEF Next, ServerStep, StartProvider, EnsureConnected, ConnBreaks, Crash,
        RegisterToRegistry, RegisterFails, Heartbeat, GoStale,
        ServiceDiscover, HealthCheck, ServiceDiscoverCached, tableVars, cliVars, vars

---------------------------------------------------------------------------
LEMMA RegistryInitially == Init => RegistryInv
  <1> SUFFICES ASSUME Init PROVE RegistryInv
    OBVIOUS
  <1>1. ProvTyped
    <2>1. \A h \in Hosts : cur[h] \in 0 .. MaxConns[h]
      BY Bounds DEF Init
    <2>2. attempt \in [Hosts -> [Methods -> 0 .. Attempts]]
      BY Bounds DEF Init
    <2> QED
      BY <2>1, <2>2, Bounds DEF Init, ProvTyped
  <1>2. TablesTyped
    BY FS_EmptySet DEF Init, TablesTyped
  <1>3. ClientTyped
    BY DEF Init, ClientTyped, ClientCalls
  <1>4. wire = <<>> /\ Len(wire) = 0
    BY DEF Init
  <1>5. ClosedGone /\ Tracked /\ WireTracked
    BY <1>4 DEF Init, ClosedGone, Tracked, WireTracked, NoCall
  <1>6. GhostInv
    BY <1>4 DEF Init, GhostInv, GhostOf, Near, NoCall
  <1> QED
    BY <1>1, <1>2, <1>3, <1>5, <1>6, TypedParts DEF RegistryInv

LEMMA RegistryStep == RegistryInv /\ [Next]_vars => RegistryInv'
  BY TypedStep, ClosedStep, TrackedStep, GhostStep DEF RegistryInv

\* The registry's tables through any registrations, retries, sweeps, closes and
\* restarts of any number of providers: nothing of a closed connection is
\* listed, and whoever caches a method is told of its changes.
THEOREM Safety == Spec => []RegistrySafe
  <1>1. RegistryInv => RegistrySafe
    BY DEF RegistryInv, Typed, RegistrySafe
  <1> QED
    BY <1>1, RegistryInitially, RegistryStep, PTL DEF Spec

\* A cached host that the registry does not list is about to be removed, or its
\* OFFLINE was ignored between receiving an answer and storing it: there is no
\* other way to a ghost.
THEOREM Ghosts == Spec => []NoGhost
  <1>1. RegistryInv => NoGhost
    <2> SUFFICES ASSUME RegistryInv, cst = "up", NEW m \in cached, NEW h \in hosts[m] \ Listed(m)
                 PROVE  \/ <<m, h>> \in sweepOut \cup missed
                        \/ Contains(wire, Notice("OFFLINE", m, h))
      BY DEF NoGhost
    <2>1. m \in Methods /\ h \in Hosts
      BY DEF RegistryInv, Typed, TypeOK
    <2>2. Told(0, m, h) \/ <<m, h>> \in missed
      BY <2>1 DEF RegistryInv, GhostInv, GhostOf, Near
    <2> QED
      BY <2>2 DEF Told, Contains
  <1> QED
    BY <1>1, RegistryInitially, RegistryStep, PTL DEF Spec
=============================================================================
