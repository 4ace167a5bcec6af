# TLA+ models of lyqtRpc

lyqtRpc is a C++20 RPC framework: request/response over TCP (muduo) or shared
memory, a registry with discovery and leader election, topics, client-side
circuit breaking, rate limiting and retries, an asynchronous logger and an HTTP
gateway. This directory holds TLA+ modules that model it, TLC configurations
that check them on small instances, and proofs that TLAPS checks for every value
of the constants. `PROJECT.json` lists components, runs, mutants, the map from
definitions to source lines, hazards and theorems.

## 1. Inventory

All paths are below `src/rpc/src/` unless they start with `src/`.

| Component | State | Operations | What is hard | Correct means |
|---|---|---|---|---|
| Shared-memory ring, `general/shm_channel.cc` | per direction: `write_idx`, `read_idx`, data area, one pinned view | `write_to`, `*_write_ptr`/`*_commit`, `read_frame_view`, `release_frame_view`, `read_from` | two processes without a lock; wrap-around with skip markers; views into the ring; wait budgets | a published frame is delivered once, in order, untorn; nothing pinned is overwritten; a call returns |
| Shared-memory sessions, `general/shm_channel.cc`, `client/shm_client*.hpp`, `server/shm_server*.hpp` | segments and their names, entries of the workers, eventfds, dead marks | create, reclaim, handshake, open, notify, drain, `peerAlive`, stop | crashes between any two steps; two servers on one prefix; lost notifications | a client maps its own segment; every frame is drained; a dead peer is noticed |
| Requestor, `client/requestor.hpp` | table rid -> descriptor (promise, callback, timer, mark) | three `send`s, `onResponse`, `onTimeout` | response, timer and caller end a request concurrently; cancelled timers still fire | one of them decides; nothing is forgotten; a late response is discarded |
| RpcCaller, RpcClient, `client/caller.hpp`, `client/rpc_client.hpp` | pool of connections, calls on their way | four kinds of call, retries, `newClient`, `delClient` | threads connect at once; OFFLINE under a running call; answers behind a time-out | a call uses the pool's client; the breaker hears of every attempt once; a call returns |
| Load balancing, `client/rpc_registry.hpp` (MethodHost) | host list, hash ring, index | `appendHost`, `removeHost`, `selectHost(s)` | positions in a list that changes; colliding ring points | every host is a candidate once; rotation skips nobody |
| Node breaker, `client/node_breaker.*` | state, sliding window, probe count, opening time | `allowRequest`, `onSuccess`, `onFailure` | outcomes arrive in other states than the one that admitted the call | window and counters agree; probes are bounded; HALF_OPEN ends |
| Breaker table, `client/circuit_breaker.*`, `server/memory_circuit_store.*` | nodes per (host, method), stored status | `getOrCreate`, save, `removeNode`, `removeHost` | creation racing creation and removal | one breaker per node |
| Registry server, `server/rpc_registry.hpp`, `server/memory_registry_store.cpp` | providers per method and per connection, discoverers, heartbeats | register, heartbeat, discover, sweep, disconnect | two tables; notifications in flight; a sweep in a thread of its own | nothing closed is listed; discoverers learn of every change |
| etcd store, `server/etcd_registry_store.cpp` | known keys, leases, keys per connection; etcd's keys and leases | `registerInstance`, `heartbeat`, `reportLoad`, `disconnectProvider`, `sweepExpired` | every call can fail; leases expire between two calls; a sweep reads and compares apart | what is kept alive is owned by a connection; vanished keys are announced, live ones not |
| Registry client, `client/rpc_registry.hpp`, `client/rpc_client.hpp` | registrations, cached hosts per method | register with retries, reconnect, discover, ONLINE/OFFLINE | an answer overtaken by a notification | the cache forgets what is gone |
| Leader election, `server/etcd_leader_election.cpp` | `_is_leader`, lease id; etcd's leases and key | `electionTick`, `tryBecomeLeader`, `refreshLease`, `becomeFollower` | blocking calls on the loop that also sweeps; lost answers; crashes | who sweeps holds the key; there is a leader again after faults |
| Topics, `server/rpc_topic.hpp`, `client/rpc_topic.hpp` | topics with subscribers, topics per subscriber; callbacks at the client | create, remove, subscribe, cancel, publish, disconnect | a call that timed out and was served; removal of a topic under its subscribers; six strategies | tables agree; who is subscribed hears; strategies reach whom they mean |
| RpcServer, routers, dispatcher, `server/rpc_server.hpp`, `server/rpc_router.hpp`, `general/dispacher.hpp` | methods, the dispatcher's lock | register, dispatch, look up, handle, answer | registration while loops run; a lock held while a handler runs | what is announced is found; everybody is served |
| Framing, `general/net.hpp` | bytes received | `canProcessed`, decode, the read loop | partial, merged and undecodable frames | no complete frame is left behind |
| Token bucket, `general/rate_limiter.hpp` | tokens, last refill | `allow` | time read outside the lock | at most burst + rate * t are admitted |
| HTTP gateway, `src/gateway/` | requests in pieces, calls on their way | parse, limit, route, forward, answer | split requests; several requests on one RPC connection | the status is true; a request is answered |
| Asynchronous logger, `general/log_system/` | two buffers, one mutex, two condition variables | `push`, worker, `stop` | lost wake-ups; a full buffer | nothing lost or reordered; nobody waits for ever |
| Messages and serialization, metrics | no protocol state | conversions, text output | | |

How they interact: RpcClient asks the registry client for hosts, orders them
(MethodHost), takes a connection from its pool, asks the breaker table, and
sends through Requestor. Responses come back on the connection's event loop
through the dispatcher to `Requestor::onResponse`; outcomes are reported to the
breaker. RpcServers register with and send heartbeats to the registry server;
the registry leader sweeps silent providers and notifies the discoverers, whose
registry clients update their caches and drop pooled connections. The gateway
turns an HTTP request into a call of its RpcClient. Every component logs through
the asynchronous logger.

The hazards, each at its line, are in `PROJECT.json`.

## 2. Plan

| # | Modules | State |
|---|---|---|
| 1 | ShmRing, ShmFifo: the ring and the queue it implements | checked, proved |
| 2 | Requestor: rid matching and timeouts | checked, proved |
| 3 | NodeBreaker, CircuitBreaker: breaker of one node, table and store | checked, proved |
| 4 | LeaderElection: election over etcd leases | checked, proved |
| 5 | AsyncLooper: logger worker | checked, proved |
| 6 | Registry, EtcdRegistryStore: registration, discovery, the store on etcd | checked, proved |
| 7 | MethodHost, RpcClient: host choice, pool, retries | checked, proved (HostChoice in part) |
| 8 | Topic, TopicForward: subscriptions and forwarding | checked, proved |
| 9 | ShmSession: life of a segment and its two processes | checked, proved |
| 10 | TokenBucket, RpcServer, Gateway: an HTTP request through limiter, client, server and router | checked, proved |
| 11 | the candidates of the strategies by load and by hash (the rest of HostChoice): sorted and filtered by recursion | checked |

Compositions: RpcClient is built on MethodHost, Topic on TopicForward, Gateway
on RpcServer and TokenBucket. ShmRing implements ShmFifo, and ShmSession counts
frames on the strength of that. RpcClient lets a breaker answer anything and
keeps account of what it is told, which is what NodeBreaker takes in.

## 3. Modules

Conventions: a module `X` models a component, `XProofs` holds the theorems about
it, `MCX` the instance for TLC. The inductive invariant stands in a module
`XInv` or near the head of `XProofs`. Some proof modules cover components that
belong together: ShmProofs covers ShmRing and ShmSession, ClientProofs
Requestor, RpcClient and MethodHost, BreakerProofs NodeBreaker and
CircuitBreaker, EtcdProofs LeaderElection and EtcdRegistryStore, GatewayProofs
TokenBucket, RpcServer and Gateway; LooperProofs is about AsyncLooper. The
second specification of such a pair has names of its own (`SessionSpec`,
`ClientSpec`, `TableSpec`, `StoreSpec`), so that one module can extend both. A
property named `...Safe` is the conjunction of the module's type invariant and
those of its invariants, each defined and explained on its own, that describe
its tables. Operators under a comment that starts with `Deviation:` are wrong
variants of the definition behind them; no specification uses them. They are
there so that every property can be shown to fail when the code is changed in
that way (`mutants` in `PROJECT.json`, for most conjuncts one each). Variables
marked `history` record what happened and influence nothing. Bounds on counters
are constants named `Max...`.

### ShmRing, ShmFifo: one direction of a shared-memory channel

State: `wIdx`, `rIdx` and `mem` are the shared `write_idx`, `read_idx` and data
area; the rest are the locals of the one producer (`ppc`, `plen`, `pw`, `pr`,
`budget`, `pret`) and the one consumer (`cpc`, `pin`). A byte of the ring is a
cell that says which byte of which frame it is, so a torn or overwritten frame
is visible. Each access to shared memory that the other side can observe is a
step: `Probe` loads the indices, `WriteSkip` writes the skip marker and decides
again with the old snapshot, `Fill` copies the frame, `Publish` stores the
index; `SendInPlace`, `SerializeBody`, `CommitHeader`, `Publish` are the
zero-copy path; `ReadLoad`, `ReadHeader`, `ReadSkip`, `UseView`, `ReleaseView`
are the consumer. The acquire/release pairs on the indices make a thread's
steps visible in order, so interleaving is the right semantics. Indices are
unbounded numbers (a 64-bit byte counter does not wrap in the life of a
channel). Single producer and single consumer per direction is the contract of
the callers.

`ShmFifo` is the promise: a queue whose `Accept` appends and whose `Deliver`
takes from the front. `ShmRing` implements it (`RefinesFifo`).

### ShmSession: segments, servers and clients

A server is a process with an accept loop (`Bind`, `Accept`, `Create`, ...,
`Register`) and a worker (`WakePipe`, `Wake`, `WorkerTimeout`); a client has a
caller and a response loop. `files` maps a name to a segment, `segs` are the
segments that ever existed, so that a segment whose name is gone can still be
mapped. `create` and `reclaim_stale_segment` are split where another process can
step in: between opening, judging (`kill(pid, 0)`), unlinking and creating
again, between storing the pid and `ready`, and before every clean-up. `create`
can fail for want of memory (`SizeFails`) and the handshake for want of a
descriptor or of a client (`HandshakeFails`, `DropEntry`), at any time and any
number of times. `ShmChannel::destroy` keeps the name and the creator flag, so
that `~ShmChannel`, which calls it again, unlinks the name a second time: when a
failed handshake drops its entry (`DropEntry`) and at the end of a server, whose
destructor goes through its entries once (`Destroy`, `DestroyEntry`) and whose
members do once more (`DestroyMembers`, `Destroyed`). `world` chooses between
the epoll servers (ShmServer, ShmServerZc) and the muduo server (ShmServerProto)
and what an earlier process left behind. Either process can die at any step, in
`recv_fd` also by itself: at the end of the stream it reads a control message
that is not there. The ring is reduced to the number of frames in it.
`TakenWithCause` says of a single step who may take a name from the segment of a
living server; `ReclaimCauses` asks it of every step and every name.

### Requestor

One record per request, spread over functions: where the caller's thread is
(`cpc`), where the loop's handler for it is (`lpc`), the entry in the table, the
timeout mark, the promise, the timer, the request and the response on the wire.
A step is what a thread does between two points at which another thread can
interfere: a critical section of `_mutex`, a `set_value` outside it, a call
into the loop. The loop runs one handler at a time (`LoopFree`); a synchronous
caller that gives up runs `onTimeout` in its own thread (`CallerExpire`,
`CallerMark`, `CallerSettle`, `CallerErase`). Cancelling a timer from another
thread is queued (`QueueCancel`, `CancelRuns`), and the timer can fire before
that. The server answers at any time or never. Left out: a connection without
an event loop, where no timer exists.

### MethodHost, RpcClient

`MethodHost` holds the class of that name as operators: the object's mutex makes
every operation atomic. The hash function is a parameter, and ring points of two
hosts may coincide. `RpcClient` adds the threads that call: `StartCall` takes
the candidates, `Pick` the next untried host and its pooled client, `NewClient`
the blocking connect with the second lookup behind it, then the breaker's answer
and the four kinds of call with what each reports to the breaker. `Offline` and
`DelClient` are two steps, as cache and pool have different locks. Hosts die,
links break. A TCP send fails only when the link is down; back-off delays take
no time.

### NodeBreaker

Each operation is one critical section and one action. The window is the
code's ring of slots with its two counters; `recent` records the true outcomes
for comparison. The constructor's clamping of the configuration is modelled, so
the theorems hold for every integer configuration. A call can succeed, fail, or
never be reported (`NoReport`). `cool` is what is left of the cooling period, in
seconds.

### CircuitBreaker

The table of breakers and the store behind it, as calls, reports and removals
use them. A breaker is the object's identity and the state that is saved, not
its window (that is NodeBreaker). A thread that makes a call goes through
`getOrCreate` (lookup, load, insert with the second lookup), the operation on
the object, the copy of its status and the save, each with the locks the code
holds and none in between. `RemoveHost` is one critical section; `removeNode` is
two steps.

### Registry

The registry server, provider processes and one discovering client with several
threads. Registrations, closes and DISCOVER requests run in the server's one IO
loop, so a handler is one action; the sweep runs on another thread and its
notifications (`sweepOut`) reach the connection later. `reqs` and `wire` are
what is in flight. A provider starts, connects, registers (three attempts in the
code, `Attempts` here), reports, loses its connection, reconnects without
registering again, or dies; a broken connection stays in the tables until the
server notices. At the client the answer of a DISCOVER is received and stored in
two steps (`OnAnswer`, `StoreAnswer`), with ONLINE and OFFLINE in between.

### EtcdRegistryStore

`kv`, `live` and `granted` are etcd's keys and leases; `toLease`, `byConn`,
`known` are the maps of the store. An operation of the loop goes from one etcd
call to the next (`io`, a record that `Doing` builds: where it is, for which
operation, key, connection and lease), the sweep beside it (`sw`); every call
can fail, before or after it was applied. `RegistryRestarts` is a restart of the
registry over the same etcd.

### LeaderElection

Per instance: what its event loop is doing, the progress of the `curl_post` it
is blocked in, when its election timer is due, `_is_leader`. etcd, which is
external, is its leases and the key. A call is sent, applied or not, and
answered or not, in every combination (`Apply`, `Finish`, `CurlFails`), and
takes up to `CurlMax` seconds (the 3 s of `CURLOPT_TIMEOUT_MS`), during which
the loop can neither refresh nor sweep; beyond `Prompt` seconds every second of
it counts as a fault of etcd. A sweep keeps the loop for up to `SweepMax`
seconds: its own call to etcd may take 3 s, and it waits for the mutex of the
store, which another call of the store may hold for 3 s more. `Second` is the
only action that lets time pass; it decrements leases and timers. An instance
may crash and restart at any moment. `stop()` is left out: it runs in another
thread while the process ends, and a process that ends without it is a crash.

### TopicForward, Topic

`TopicForward` holds the strategies as operators from a list of subscribers to
an outcome: who is sent the message, the cursors afterwards, and whether a read
goes past the end of the list. Where the code copies the subscribers that match
into a vector, the operators speak of positions in the list. What a strategy
promises is stated for one list (`ReachesMeant`, `TopPriority`,
`RoundRobinTurns`, which is about a run of publications that hand the cursor on)
and checked for all lists of up to three subscribers. `Topic` holds the server's
two tables, the messages on the connections, and the clients' calls, callbacks
and time-outs. The server runs in one loop, so that a request with its answers
is one step. `gaveUp`, `trusts`, `cancelled`, `removed` are histories: what a
client was told.

### TokenBucket, RpcServer, Gateway

`TokenBucket` splits `allow()` into the reading of the clock (`ReadClock`) and
the critical section (`Admit`, `Deny`). `RpcServer` reads frames from the
buffers of its connections on several IO loops (a negative length field stops
the parsing of a connection: `Processable` is false, and the frame stays with
everything behind it in the buffer of the open connection until `OverLimit`
finds too much there, `MaxWaiting` frames for the 10 MB of the code, and shuts
it down; a frame that cannot be decoded, `Undecodable`, is taken out and the
connection shut), passes them to the one dispatcher, whose lock is held until
the handler returned, and handles them in the JSON or the proto router, while
methods are being registered; looking up a proto handler during an insertion is
a data race, and finds, misses or crashes. A handler may throw, or call its own
server. `Gateway` adds the HTTP side: pieces of a request arrive in reads of any
size, a complete one goes through bucket and router and, for `/echo`, becomes
calls over one connection to the server, with the BACKOFF retry of `call_proto`
and the retries of RpcClient.

`Worlds` are the situations from which a behaviour starts: what is registered
already and what is still to be, what the peers send, what the HTTP clients want
and how their bytes are cut up. `WorldAssumption` says that the program is used as
it is meant to be: an HTTP client sends one whole request, ids are unique, as
`uuid()` makes them, a method is registered once, and a service of the JSON router
is not called with a protobuf request. Everything else, such as undecodable
frames, handlers that throw, unknown methods, wrong parameters, is left open.

### AsyncLooper

`push`, the worker and `stop()` with the mutex and both condition variables.
Waiting is two steps (predicate found false, then blocked), because that gap is
where notifications get lost when they are sent without the mutex, as `stop()`
does. Records are numbers, so loss and reordering show; buffers keep their used
and allocated bytes, so growth shows. `stop()` is public and the model lets it
run at any moment; in this repository only the destructor calls it. Spurious
wake-ups are left out, since liveness must not depend on them.

## 4. Runs

All runs pass: TLC checks every listed property on every reachable state of the
instance.

| Run | Instance | Shows |
|---|---|---|
| `ring` | ring of 26 bytes, header 8, length field 4, bodies whose frames end on, before and across the end, 4 frames | `RingSafe`: indices never wrap (`IndexOrder`), nothing live is overwritten (`WriteClear`), headers are whole (`HeaderWhole`), frames arrive once, in order, untorn (`FifoIntact`); the ring implements `ShmFifo`; every published frame is delivered (`AllDelivered`); every call returns (`WriteReturns`) |
| `shm_session` | two clients; two epoll servers on one prefix with a dead server's segment, one that finds a segment of an old release, one epoll and one muduo server with two requests per client; one death, any number of failed creates and handshakes | `SessionsSafe`: a client maps its own segment, except when the name was taken from it (`MapsOwn`); the name of a living server's segment goes only in a clean-up of that segment by the server itself or with an older segment of the name, in a reclaim or a clean-up by its creator (`ReclaimCauses`); requests and responses are read (`Drained`); a server's end is noticed (`GoneNoticed`); `connect` returns (`ConnectReturns`) |
| `requestor` | two requests of any kind | `RequestsSafe`: nothing is forgotten (`NoOrphan`), results are honest (`HonestReturn`), only the synchronous race throws (`OnlySyncThrows`); late responses are discarded (`LateDiscarded`); requests with a timeout are settled and leave the table whatever the server does (`TimedEnds`) |
| `client` | two threads, four kinds of call, three hosts of which two are listed, one fault, one notification | `CallsSafe`: a call uses the pooled client (`UsesPooled`) and tries all hosts before it repeats one (`TriesAll`); the breaker hears of each admitted request once (`Ledger`); `HostChoice`: ring, candidates and rotation for every list of three hosts with colliding points; a call returns or is connecting (`ReturnsOrConnects`) |
| `breaker` | window of 3, three concurrent calls | `BreakerSafe`: window and counters agree (`WindowAgrees`), probes are bounded (`ProbeBound`); the breaker opens only on a ratio of fresh outcomes; HALF_OPEN ends when the calls of the period are reported |
| `breaker_table` | two threads, two hosts, one removal | `TableSafe`: every thread works on the breaker in the table, unless it was removed since (`OneBreaker`) |
| `registry` | a host that connects twice, one method, two attempts, a client with two threads, one message in flight | `RegistrySafe`: nothing of a closed connection is listed (`ClosedGone`), the registry knows every cache (`Tracked`); a cached host that is not listed has an OFFLINE on the way, except one that came between an answer and its storing (`NoGhost`); a dead host is forgotten (`DeadForgotten`) |
| `etcd` | one key, two connections, three leases, two restarts | `StoreSafe`: a key is kept alive for an open connection only (`OwnedUntilClosed`); a live key is announced OFFLINE only after a failed read or a put behind it (`FalseOfflineCauses`); a vanished one is announced (`VanishedAnnounced`) |
| `election` | two instances, lease 5 s, tick 1 s, calls of up to 3 s, sweeps of up to 6 s, three faults | `ElectionSafe`: a leader that was refreshed once holds the key when it starts to sweep and for the first 2 s of the sweep, the 5 s of the lease less the 3 s of a call (`RefreshedHolds`), a deposed leader stops believing within a bound (`StaleBound`); there is a leader again (`Failover`) |
| `topic` | two clients, two topics, four calls, one time-out, one lost connection; strategies over up to three subscribers | `TopicsSafe`: the tables agree (`TablesAgree`), silence after a cancel (`SilentAfterCancel`); who is pushed to listens, except behind a time-out (`HeardUnlessGivenUp`); who was told that it is subscribed is, unless the topic was removed (`SubscribedUnlessRemoved`); `Strategies`: they reach whom they mean |
| `gateway` | three HTTP clients on two threads, a server with two loops, a second RPC client, registrations, a handler that calls its own server | `GatewaySafe`: the status is true (`StatusTrue`), a request that came in one read is recognised (`ServedUnlessSplit`), what was announced is found, with two exceptions (`DiscoveredFound`); at most burst + rate * time are admitted (`AdmitBound`); a self-call gets no answer (`SelfCallStarves`); requests are answered (`HttpAnswered`); no frame is left in the buffer of an open connection, except behind a negative length and then not more than the limit (`BufferWorkedOff`) |
| `looper` | two threads, four records, buffer of three bytes | `LooperSafe`: nothing lost or reordered (`InOrder`); records pushed before the worker ends are written (`PushedIsWritten`); a waiting thread does not sleep for ever, and while one waits records go on being pushed (`WaitersProceed`) |

Bounds. Ring: four frames are enough to go round the ring more than once and to
have the producer, a skipped tail and a pinned frame in it at once. Requestor:
requests interfere only through the loop's single thread, for which two suffice.
Client: two threads meet at one host in the pool, one fault and one notification
fall between any two of their steps, and one retry leads to the second host; the
list operators are checked for all lists at once, independently of the calls.
Breaker: a window of three with three calls wraps, clears and reopens; `MaxHalf`
caps the probe counter two above its limit. Table: three breakers allow two
threads to race for one and the breaker to be created anew behind its removal.
Registry and etcd: hosts and methods meet only in the tables of one (method,
host) pair; what matters is a second connection of the same host, which a
restart and a reconnect need. Topic: two subscribers of one topic and a second
topic for the tables per connection; time-out and lost connection at every
point. Session: one death and a capacity of one frame make every hand-over and
the full ring happen; failed system calls are not counted. Election: calls and
sweeps take what the timeouts of the code allow, and a fault is a lost call, a
slow second or a crash. Gateway: one world for each question instead of all
requests at once; `MaxTime` 2 with rate and burst 1 admits and denies; with
`MaxWaiting` 2 frames stay behind a negative length, and one more shuts the
connection. Looper: four records of one to three bytes against a buffer of three
fill it exactly, overfill it and wait. Symmetry is used for the table and for
topics, whose runs check no liveness. CHECK_DEADLOCK is off where a behaviour
may end: calls, records, connections or time used up, processes gone. The ring,
the breaker and the election run on for ever.

Fairness. Threads run (weak fairness of a thread's steps), clocks advance, and
event loops handle what is due; the sweep's timer fires. The looper has weak
fairness only: nothing is assumed of the order in which threads get the mutex,
since `std::mutex` and the condition variables promise none. A given producer
may be overtaken after every swap, so WaitersProceed says that its sleep ends
and that records are pushed while it waits, and not that its own is. No fairness
is given to a server that should answer, an application that should call, a peer
that should connect, a fault, or `stop()`. In `registry` a silent provider
becomes stale, as time passes. In `election` etcd applies calls and answers them
once the faults are over, then within `Prompt` = 2 s; if all its answers took up
to the 3 s of the code for ever, `Failover` would not hold, since the lease of
each campaign could run out before it is used. The safety of the election is
checked with calls of 3 s and proved for every call time below the lease.

## 5. Proofs

TLAPS proves, for every value of the constants that satisfies the named ASSUMEs:

* **ShmProofs**, the ring - `Spec => []IInv` and from it IndexOrder, WriteClear,
  HeaderWhole, FifoIntact, together `Safety` (RingSafe), and `Refinement`: every
  step of the ring maps to a step of ShmFifo or a stutter. None of the
  properties is inductive. `IInv` adds where the frames lie (`FramesTile`: each
  in one piece, one behind the other up to skipped tails), where the consumer
  stands among them (`ConsumerAt`), what is in memory (`Contents`), and what the
  producer has established at each of its steps (`ProducerAt`, in particular
  that the free space computed from its snapshot is still free). The arithmetic
  of positions modulo the ring size is in lemmas of its own, so that the action
  lemmas only compare intervals.
* **ShmProofs**, the sessions - `SessionsAreSafe` (SessionsSafe) and the action
  property `ReclaimsHaveCause` (ReclaimCauses), for any number of servers and
  clients. MapsOwn says nothing of a client before its open, so `SessionInv`
  follows the hand-over from the other side: `ServerOk` (from the creation of a
  segment to its registration the server has one client of its own in hand, and
  the segment that was made for it; what it is going to unlink was judged to be
  a dead creator's, `JudgedDead`; what its destructors still have to go through
  are entries of its own), `ClientOk` (a client that was offered a name was
  offered that of the segment made for it, and what it maps is this segment, or
  the name does not stand for it any more) and `SegmentOk` (a pid in a control
  block is the creator's, and is there before `ready` unless an old release
  wrote it). The last is what makes a reclaim's judgement right. For
  ReclaimCauses `NamesNewest` is needed besides: a name stands for the newest
  segment that was ever created under it, since O_EXCL creates none while the
  name is taken, so that a clean-up which takes the name from another segment is
  that of an older one. `SessionAssumption` asks for one client slot at least
  and for the leftovers that earlier processes can leave.
* **ClientProofs**, the requests - `Spec => []IInv`, NoOrphan, HonestReturn,
  OnlySyncThrows, together `Safety` (RequestsSafe), and LateDiscarded. `IInv`
  says, request by request, who is about to act: `LoopCares` (an armed timer or
  a running handler while the caller is not on the way to settling) and `Marked`
  (whoever marked the timeout is still going to set the promise and delete the
  entry). NoOrphan alone is not inductive, because it forgets who.
* **ClientProofs**, the calls - `CallsAreSafe` (CallsSafe) and `LedgerBalances`
  (Ledger), for any threads, hosts, retries and faults. `ClientInv` adds
  `HostList` (a host is in the list once, so that the candidates of a call are
  different hosts), `Tries` (how many hosts a call has tried follows from the
  number of its attempts, also between two attempts, where TriesAll is silent)
  and `Pooled` (its client was made, and is the pool's or was taken out of it).
  Of HostChoice two parts are proved for lists of any length: `RingFollows`, that
  after appendHost and removeHost the ring is the one a rebuild makes of the new
  list, for any hash function with any collisions, and `RotationServesAll`, that
  the candidates of a ROUND_ROBIN call are all hosts with the next in turn in
  front, and that cutting the index back at its limit skips nobody.
* **EtcdProofs**, the election - `Spec => []IInv` and TypeOK,
  `RefreshedLeaderHolds`, `StaleLeaderBound`, together `Safety` (ElectionSafe),
  all under one assumption, `Timely`: a call and the time between ticks are
  shorter than the lease (3 s and 1 s against 5 s in the code). Sweeps may take
  any time. The invariant accounts, at every point of a campaign or refresh, for
  the seconds left of the lease (`Fresh`, `Kept`, `RefreshedLeft`) and for the
  seconds since the key was lost (`StaleParts`). What follows for a refreshed
  leader is that it holds the key when it starts to sweep and for the first
  `TTL - max(CurlMax, Period)` seconds of the sweep; no more than that is true of
  the code, whose sweeps can outlast the lease.
* **BreakerProofs** - for every integer configuration: TypeCorrect, `Probing`
  (ProbeBound), `Windowing` (WindowAgrees), together `Safety` (BreakerSafe), and
  `OpensFresh` (OpensOnFreshRatio). The code keeps two counters and a ring of
  slots instead of counting; `WindowInv` says that the counters are the counts of
  the last outcomes and where in the ring each of these outcomes stands
  (`RingIs`). The second part is needed because the slot that is overwritten
  decides which counter goes down, so that it has to be the oldest outcome. The
  counting lemmas (`CountAll` and those about appending and dropping) go through
  the cardinality of sets of positions. For the table: `TableIsSafe` (TableSafe)
  for any threads and keys; `TableInv` adds to OneBreaker what a call carries at
  each of its places.
* **RegistryProofs** - `Safety` (RegistrySafe) and `Ghosts` (NoGhost) for any
  hosts, methods and attempts, and any number of connections and of messages on
  the way. NoGhost speaks of the cache only; `GhostInv` extends it to answers
  that were received and not yet stored and to every message on the wire: what
  brings a host to the client is followed, further back, by its OFFLINE if the
  host is not listed any more. `WireTracked` is why that OFFLINE was sent at all:
  nothing is under way for a method that the client does not discover.
* **EtcdProofs**, the store - `StoreSafety` (StoreSafe) and the action property
  `FalseOffline` (FalseOfflineCauses) for any keys, connections, leases and
  restarts. `StoreInv` adds `IoOwned` (an operation that is going to record a
  lease works for a key that is owned) and `SweepSees` (a read that succeeded
  covers what is in etcd, except puts behind it).
* **LooperProofs** - `Safety` (LooperSafe) for any threads, lengths, capacity and
  growth parameters. InOrder is not inductive; `LooperInv` adds that the consumer
  buffer is empty between two turns of the worker, so that swapping puts nothing
  in front of what is older.
* **GatewayProofs** - for the bucket alone `BucketSafe` and `AdmitBounded`
  (AdmitBound), inductive together with `NoTokenTwice`: what was given away and
  what is in the bucket is covered by the time of the last refill. A refill with
  an older time takes tokens out of the bucket, below zero if need be, which is
  why no time is credited twice. For the composition `Safety` (GatewaySafe),
  `Starves` (SelfCallStarves) and `Admits` (AdmitBound with several IO threads),
  for any number of threads, loops, connections, requests, retries and methods,
  under WorldAssumption. `GatewayInv` has a part for each side:
  `RegInv` (how far a registration has come in each router's table and in the
  announcements) and `FrameInv` (a protobuf request sent after an announcement
  finds its handler in the table) for DiscoveredFound; `AnswerInv` (SUCCESS only
  for what was executed) and `StatusOf` (no request of a client is on its way or
  was executed before it was admitted and routed) for StatusTrue; `WholeOf` (a
  request that is not split is on the wire, being served or answered) for
  ServedUnlessSplit; `SelfInv` (a request that calls its own server comes once,
  and nothing is known of its own call before it is handled) for
  SelfCallStarves; `Counted` bounds the requests sent by the attempts made, which
  is the bound that the type invariant states.
* **TopicProofs** - `TopicsAreSafe` (TopicsSafe), `PushesAreHeard`
  (HeardUnlessGivenUp) and `SubscriptionsLast` (SubscribedUnlessRemoved), for any
  finite set of clients, any topics and publications, calls, time-outs and lost
  connections. The properties speak of a client and of the server at one moment;
  between them are messages, and `TopicInv` says what these can be: `Flow` (a
  request or an answer that is waited for is the last of its connection, so that
  a late one is told from it), `Agreed` (what the server may yet make of a
  request on its way, or has made of one whose answer is on its way, agrees with
  what the client will believe) and `Quiet` (no push of a topic is behind the
  answer to its cancelTopic, which is why the silence begins when the call
  returns), besides the types of messages and tables (`MessagesOk`, `TablesOk`).
  A step either keeps what the invariant says of a connection (`Kept`), serves its
  first request (`Served`) or leaves it alone (`Untouched`); the steps of one
  client are reduced to these three. `OutcomeIs` is the one fact about the
  strategies that this needs: they send to subscribers and leave cursors in range.
* **TopicProofs**, the strategies - for lists of any length, any cursors,
  priorities and parameters: `PublicationsReachMeant` (as many different
  subscribers as the strategy means, nobody twice, no read past the end, except
  for FANOUT with a limit that is not below their number), `PriorityPrefers`,
  `RoundRobinServesAll`. `StrategiesAreMet` (Strategies) is the statement of the
  run, which follows. Where the code's loops call for an induction, a least
  counterexample is taken from the well-foundedness of the numbers (`LeastIs`).

The inductive invariants were checked with TLC on the instances of the runs
before they were proved. Only model-checked:

* liveness, since fairness and ENABLED are outside the prover: AllDelivered,
  WriteReturns, Drained, GoneNoticed, ConnectReturns, TimedEnds,
  ReturnsOrConnects, ReportedDecides, DeadForgotten, VanishedAnnounced, Failover,
  HttpAnswered, BufferWorkedOff, PushedIsWritten, WaitersProceed;
* HostChoice as a whole: the candidates of the strategies by load and by hash
  sort and filter the list with operators of the library that are defined by
  recursion, so that what they return for every list takes an induction. The run
  checks them for every list of three hosts.

## 6. Disagreements with the code's own words

Behaviours of the models that contradict a comment or a document of the
repository, or that its reader would not expect. Where a property has an
exception in its statement, this is the reason.

1. A ring that is empty can refuse a frame that fits its capacity: the capacity
   test (`general/shm_channel.cc:268`, "fails at once") ignores the tail that has
   to be skipped, and the call spends its whole budget (`:330`).
2. `Requestor::onResponse` fills the promise without a guard (`requestor.hpp:74`)
   and throws in the event loop when a synchronous caller's time-out came
   between, although late responses "are discarded"
   (`src/docs/en/architecture-en.md:101`). `OnlySyncThrows` proves that nothing
   else throws there.
3. A probe that is never reported keeps a breaker HALF_OPEN for ever
   (`node_breaker.cpp:39`); `ReportedDecides` is what holds. A late success
   closes an OPEN breaker inside its cooling period.
4. With slow answers an instance learns that it was elected when its lease is
   over (`etcd_leader_election.cpp:129`), so that two believe to lead, in spite
   of `leader_election.hpp:19`. A sweep that takes its 3 s
   (`etcd_registry_store.cpp:143`) behind another call that takes 3 s outlasts
   the lease of 5 s on the loop that should refresh it, so that a leader may be
   sweeping while another is elected. `RefreshedHolds` and `StaleBound` say how
   far this goes.
5. `stop()` of the logger can lose its notification (`looper.hpp:49`) and then
   waits for ever in `join`, in spite of the comment at `:50`. The bounded buffer
   grows when a record fits exactly (`buffer.hpp:86`). Waiting producers have no
   order (`looper.hpp:40`): one can be overtaken by others after every swap, for
   ever.
6. A closing connection of a provider announces its host OFFLINE although the
   host may have reconnected or restarted (`server/rpc_registry.hpp:332`);
   `ensureConnected` reconnects without registering again (`rpc_client.hpp:72`);
   a registration that failed three times is never tried again
   (`rpc_server.hpp:246`). The periodic health check of the discovery client asks
   for methods that are cached and so changes nothing.
7. A sweep of the etcd store takes a failed read for an empty answer
   (`etcd_registry_store.cpp:457`) and can miss a key put behind its read: hosts
   that are alive are announced OFFLINE (`FalseOfflineCauses`).
8. A call to an unreachable host never returns: the connect of the pool waits
   without a limit (`rpc_client.hpp:509`), for callback and future calls too.
9. FANOUT with a limit of at least the number of subscribers broadcasts and then
   sends again, past the end of the list if the limit is larger
   (`server/rpc_topic.hpp:134`, a missing return). `StrategiesReach` states what
   holds outside that case. The `check()` functions of `general/message.hpp`,
   which would refuse some parameters, are called nowhere.
10. A subscribe call that timed out can leave a subscriber that discards what it
    is sent; removing a topic tells nobody.
11. The HTTP parser consumes a request line before it knows that the headers are
    there, so that a split request is lost, although the comment at
    `src/gateway/src/http_server.hpp:90` says that parsing resumes.
12. A handler that makes a synchronous call to its own server blocks the
    dispatcher until the call times out. A JSON handler that throws ends the
    process (`rpc_router.hpp:60`).
13. `recv_fd` at the end of a stream reads a control message that is not there
    (`shm_channel.cc:645`): a refused client, or a server whose client died in
    the handshake, ends. Reclaiming a segment judges it and unlinks its name in
    two steps, so that two servers that start at once can take away each
    other's fresh segment, and two clients can map one. The branches of `create`
    that give up (`shm_channel.cc:107`, `:119`), `destroy` and, once more,
    `~ShmChannel` (`:528`) unlink by name too, so that an older server's
    clean-up can take the name of a live server's segment, although the comment
    at `:75` says that live segments stay protected by O_EXCL.
14. A frame whose length field is negative is neither processed nor refused,
    although the comment at `general/net.hpp:100` says that it is: it stays in
    the buffer, and every frame behind it waits unanswered on an open connection
    until more than 10 MB have come (`:305`).

## 7. Not modelled

Messages and serialization (conversions without protocol state), metrics and log
formatting (text output). `NodeBreaker::loadStatus`, `EtcdLeaderElector::stop`.
The byte arithmetic of the length fields: a frame is a model value that is
complete, partial or undecodable. Loads of hosts beyond their order, tags beyond
whether they match. Memory that is accessed without synchronisation is modelled
where it decides something (the proto handler table, the ring); other unlocked
members (`MuduoClient::_connection`, `NodeBreaker::status`) are read as if
atomic. muduo and etcd themselves are modelled where the code depends on them
and marked external.
