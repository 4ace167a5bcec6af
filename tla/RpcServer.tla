----------------------------- MODULE RpcServer -----------------------------
(***************************************************************************)
(* An RpcServer: frames read by the IO loops of general/net.hpp, passed to *)
(* the one dispatcher (general/dispacher.hpp) and handled by the routers   *)
(* of server/rpc_router.hpp, while methods are still being registered      *)
(* (server/rpc_server.hpp, startInThread).                                 *)
(*                                                                         *)
(* A frame is one message of the length-value protocol.  Its fault is what *)
(* becomes of it: "params" and "result" fail the checks of a service,      *)
(* "parse" the parsing of a protobuf body, "throws" makes the handler      *)
(* throw, "selfcall" makes it call its own server and wait, "huge" is a    *)
(* message longer than _maxdatalen.  The type "garbled" stands for a frame *)
(* that cannot be decoded, "negative" for one whose length field is        *)
(* negative, so that it never counts as complete, and "other" for a type   *)
(* that no handler was registered for.                                     *)
(***************************************************************************)
EXTENDS Integers, Sequences, FiniteSets

CONSTANTS
  Loops,       \* the IO threads (ServerFactory::create(port, 4))
  Conns,       \* connections
  LoopOf,      \* the loop of a connection
  SelfConn,    \* the connection that handlers of this server call it on
  MaxWaiting,  \* _maxdatalen, in complete frames
  Methods,     \* names of services and handlers
  NoMethod,
  NoLoop

ASSUME ServerAssumption ==
  /\ LoopOf \in [Conns -> Loops]
  /\ SelfConn \in Conns
  /\ MaxWaiting \in Nat
  /\ NoMethod \notin Methods
  /\ NoLoop \notin Loops

VARIABLES
  todo,       \* frames that a peer will send
  sent,       \* frames on their way
  part,       \* the buffer ends with a part of the next frame
  buf,        \* the frames before that in the buffer of a connection
  conn,       \* "open", "shut" (shutdown() was called) or "closed"
  leaving,    \* peers that close their connection when all is sent
  loop,       \* what a loop is doing
  lock,       \* holder of the dispatcher's _mutex
  replies,    \* responses sent
  services,   \* ServiceManager::_services
  handlers,   \* ProtoRpcRouter::_handlers
  inserting,  \* method on its way into _handlers, which has no lock
  announced,  \* methods the registry tells clients about
  reg, regpc, \* registrations the main thread still makes
  limited,    \* a rate limiter is set
  up,         \* the process
  executed    \* history: requests whose handler ran

netVars == <<todo, sent, part, buf, conn, leaving>>
regVars == <<services, handlers, inserting, announced, reg, regpc>>
serverVars == <<netVars, regVars, loop, lock, replies, limited, up, executed>>

Idle == [pc |-> "idle"]

ServerInit ==
  /\ sent = [c \in Conns |-> <<>>]
  /\ part = [c \in Conns |-> FALSE]
  /\ buf = [c \in Conns |-> <<>>]
  /\ conn = [c \in Conns |-> "open"]
  /\ loop = [l \in Loops |-> Idle]
  /\ lock = NoLoop
  /\ replies = [c \in Conns |-> {}]
  /\ inserting = NoMethod /\ regpc = "start"
  /\ up = TRUE
  /\ executed = {}

---------------------------------------------------------------------------
(* The peers.                                                              *)

\* A request on its way: the peer knows the method when it was announced.
Sent(s, c, f) == [s EXCEPT ![c] = Append(@, [f EXCEPT !.known = f.method \in announced])]

PeerSends(c) ==
  /\ todo[c] # <<>>
  /\ sent' = Sent(sent, c, Head(todo[c]))
  /\ todo' = [todo EXCEPT ![c] = Tail(@)]
  /\ UNCHANGED <<part, buf, conn, leaving, regVars, loop, lock, replies, limited, up, executed>>

\* MuduoServer::onConnection for a connection that has gone: what was sent
\* before was read before.
OnConnectionClosed(c) ==
  /\ up
  /\ loop[LoopOf[c]] = Idle
  /\ c \in leaving /\ todo[c] = <<>> /\ sent[c] = <<>>
  /\ conn[c] # "closed"
  /\ conn' = [conn EXCEPT ![c] = "closed"]
  /\ buf' = [buf EXCEPT ![c] = <<>>]
  /\ UNCHANGED <<todo, sent, part, leaving, regVars, loop, lock, replies, limited, up, executed>>

---------------------------------------------------------------------------
(* An IO loop.                                                             *)

\* Any number of frames and a part of the next one arrive, onMessage starts.
ReadEvent(l, c, k, p) ==
  /\ up
  /\ loop[l] = Idle /\ LoopOf[c] = l /\ conn[c] # "closed"
  /\ k \in 0 .. Len(sent[c])
  /\ k = 0 => p /\ ~part[c]
  /\ p => k < Len(sent[c])
  /\ buf' = [buf EXCEPT ![c] = @ \o SubSeq(sent[c], 1, k)]
  /\ sent' = [sent EXCEPT ![c] = SubSeq(@, k + 1, Len(@))]
  /\ part' = [part EXCEPT ![c] = p]
  /\ loop' = [loop EXCEPT ![l] = [pc |-> "parse", conn |-> c]]
  /\ UNCHANGED <<todo, conn, leaving, regVars, lock, replies, limited, up, executed>>

\* canProcessed: a complete frame whose length is not negative is next.
Processable(c) == buf[c] # <<>> /\ Head(buf[c]).type # "negative"

Parsing(l) == up /\ loop[l].pc = "parse"

\* Nothing to process, and no more than _maxdatalen waits for it: the loop goes
\* back to its poller and everything stays in the buffer.
Incomplete(l) ==
  /\ Parsing(l)
  /\ ~Processable(loop[l].conn) /\ Len(buf[loop[l].conn]) <= MaxWaiting
  /\ loop' = [loop EXCEPT ![l] = Idle]
  /\ UNCHANGED <<netVars, regVars, lock, replies, limited, up, executed>>

\* Deviation: the amount that waits is not looked at.
OverLimitIgnored(l) ==
  /\ Parsing(l)
  /\ ~Processable(loop[l].conn) /\ Len(buf[loop[l].conn]) > MaxWaiting
  /\ loop' = [loop EXCEPT ![l] = Idle]
  /\ UNCHANGED <<netVars, regVars, lock, replies, limited, up, executed>>

\* Nothing to process, and more than _maxdatalen waits: behind a negative length
\* or as the part of a huge message.  shutdown() and return.
OverLimit(l) ==
  /\ Parsing(l)
  /\ LET c == loop[l].conn IN
       /\ ~Processable(c)
       /\ Len(buf[c]) > MaxWaiting \/ (part[c] /\ Head(sent[c]).fault = "huge")
       /\ conn' = [conn EXCEPT ![c] = "shut"]
  /\ loop' = [loop EXCEPT ![l] = Idle]
  /\ UNCHANGED <<todo, sent, part, buf, leaving, regVars, lock, replies, limited, up, executed>>

\* A frame that cannot be decoded: shutdown() and return, frames behind it are
\* left in the buffer.
Undecodable(l) ==
  /\ Parsing(l) /\ Processable(loop[l].conn)
  /\ LET c == loop[l].conn IN
       /\ Head(buf[c]).type = "garbled"
       /\ buf' = [buf EXCEPT ![c] = Tail(@)]
       /\ conn' = [conn EXCEPT ![c] = "shut"]
  /\ loop' = [loop EXCEPT ![l] = Idle]
  /\ UNCHANGED <<todo, sent, part, leaving, regVars, lock, replies, limited, up, executed>>

\* LVProtocol::onMessage takes the next frame.
Decode(l) ==
  /\ Parsing(l) /\ Processable(loop[l].conn)
  /\ LET c == loop[l].conn IN
       /\ Head(buf[c]).type # "garbled"
       /\ buf' = [buf EXCEPT ![c] = Tail(@)]
       /\ loop' = [loop EXCEPT ![l] = [pc |-> "lock", conn |-> c, frame |-> Head(buf[c])]]
  /\ UNCHANGED <<todo, sent, part, conn, leaving, regVars, lock, replies, limited, up, executed>>

\* Deviation: the handler is looked up under the lock and run without it.
LockLookupOnly(l) ==
  /\ up
  /\ loop[l].pc = "lock" /\ lock = NoLoop
  /\ loop[l].frame.type # "other"
  /\ loop' = [loop EXCEPT ![l].pc = "run"]
  /\ UNCHANGED <<netVars, regVars, lock, replies, limited, up, executed>>

\* Dispacher::onMessage: the lock is held until the handler is done.
Lock(l) ==
  /\ up
  /\ loop[l].pc = "lock" /\ lock = NoLoop
  /\ loop[l].frame.type # "other"
  /\ lock' = l
  /\ loop' = [loop EXCEPT ![l].pc = "run"]
  /\ UNCHANGED <<netVars, regVars, replies, limited, up, executed>>

\* There is no handler of the type.
UnknownType(l) ==
  /\ up
  /\ loop[l].pc = "lock" /\ lock = NoLoop
  /\ loop[l].frame.type = "other"
  /\ conn' = [conn EXCEPT ![loop[l].conn] = "shut"]
  /\ loop' = [loop EXCEPT ![l] = [pc |-> "parse", conn |-> loop[l].conn]]
  /\ UNCHANGED <<todo, sent, part, buf, leaving, regVars, lock, replies, limited, up, executed>>

---------------------------------------------------------------------------
(* The routers, run under the dispatcher's lock.                           *)

Running(l, type) == up /\ loop[l].pc = "run" /\ loop[l].frame.type = type

\* Deviation: onMessage returns after one frame.
HandledReturns(l) == [loop EXCEPT ![l] = Idle]

\* The handler is done, onMessage goes on with the next frame.
Handled(l) == [loop EXCEPT ![l] = [pc |-> "parse", conn |-> loop[l].conn]]

\* MuduoConnection::send: nothing is sent once shutdown() was called.
Responded(c, f, code) ==
  IF conn[c] # "open" THEN replies
  ELSE [replies EXCEPT ![c] = @ \cup
         {[rid |-> f.rid, code |-> code, type |-> f.type, known |-> f.known, raced |-> inserting \notin {NoMethod, f.method}]}]

\* response() or sendProtoResponse(), and back in the loop.
Respond(l, code, ran) ==
  /\ replies' = Responded(loop[l].conn, loop[l].frame, code)
  /\ executed' = IF ran THEN executed \cup {loop[l].frame.rid} ELSE executed
  /\ lock' = NoLoop
  /\ loop' = Handled(l)
  /\ UNCHANGED <<netVars, regVars, limited, up>>

\* allow() says no, in either router.
Backoff(l) ==
  /\ Running(l, "json") \/ Running(l, "proto")
  /\ limited
  /\ Respond(l, "BACKOFF", FALSE)

\* onrpcRequst with checkParams and call.
OnRpcRequst(l) ==
  /\ Running(l, "json")
  /\ LET f == loop[l].frame IN
       \/ f.method \notin services /\ Respond(l, "SERVICE_NOT_FOUND", FALSE)
       \/ /\ f.method \in services
          /\ \/ f.fault = "params" /\ Respond(l, "INVALID_PARAMS", FALSE)
             \/ f.fault = "result" /\ Respond(l, "INTERNAL_ERROR", TRUE)
             \/ f.fault \notin {"params", "result", "throws", "selfcall"} /\ Respond(l, "SUCCESS", TRUE)

\* Nothing catches what a JSON service throws: it ends the process.
ServiceThrows(l) ==
  /\ Running(l, "json")
  /\ loop[l].frame.method \in services /\ loop[l].frame.fault = "throws"
  /\ up' = FALSE
  /\ UNCHANGED <<netVars, regVars, loop, lock, replies, limited, executed>>

\* _handlers.find: a method may be missed while another one is inserted.
Finds(f) == f.method \in handlers
Misses(f) == f.method \notin handlers \/ inserting # NoMethod

\* onProtoRequest and the wrapper of registerProtoHandler.
OnProtoRequest(l) ==
  /\ Running(l, "proto")
  /\ LET f == loop[l].frame IN
       \/ Misses(f) /\ Respond(l, "SERVICE_NOT_FOUND", FALSE)
       \/ /\ Finds(f)
          /\ \/ f.fault = "parse" /\ Respond(l, "PARSE_FAILED", FALSE)
             \/ f.fault = "throws" /\ Respond(l, "INTERNAL_ERROR", TRUE)
             \/ f.fault \notin {"parse", "throws", "selfcall"} /\ Respond(l, "SUCCESS", TRUE)

\* _handlers.find while the table is rehashed: the process may crash.
LookupCrashes(l) ==
  /\ Running(l, "proto")
  /\ inserting # NoMethod
  /\ up' = FALSE
  /\ UNCHANGED <<netVars, regVars, loop, lock, replies, limited, executed>>

SelfRid(f) == <<"self", f.rid[1], f.rid[2]>>

\* A handler that makes a synchronous call to its own server ...
HandlerCalls(l) ==
  /\ \/ Running(l, "json") /\ loop[l].frame.method \in services
     \/ Running(l, "proto") /\ Finds(loop[l].frame)
  /\ loop[l].frame.fault = "selfcall"
  /\ sent' = Sent(sent, SelfConn, [loop[l].frame EXCEPT !.rid = SelfRid(loop[l].frame), !.fault = "none"])
  /\ loop' = [loop EXCEPT ![l].pc = "await"]
  /\ UNCHANGED <<todo, part, buf, conn, leaving, regVars, lock, replies, limited, up, executed>>

\* ... goes on with the answer, or without it when the timeout is over.
AwaitEnds(l) ==
  /\ up
  /\ loop[l].pc = "await"
  /\ Respond(l, "SUCCESS", TRUE)

---------------------------------------------------------------------------
(* registerMethod and registerProtoHandler on the main thread.             *)

\* registerToRegistry: three attempts, which may all fail.
Announced(m) == announced' \in {announced, announced \cup {m}}

\* The registration is over.
Registered == reg' = Tail(reg) /\ regpc' = "start"

\* registerMethod announces the method ...
AnnounceMethod ==
  /\ up /\ reg # <<>> /\ regpc = "start" /\ Head(reg).type = "json"
  /\ Announced(Head(reg).method)
  /\ regpc' = "second"
  /\ UNCHANGED <<netVars, services, handlers, inserting, reg, loop, lock, replies, limited, up, executed>>

\* ... and then adds it to the router.
RegisterMethod ==
  /\ up /\ reg # <<>> /\ regpc = "second" /\ Head(reg).type = "json"
  /\ services' = services \cup {Head(reg).method}
  /\ Registered
  /\ UNCHANGED <<netVars, handlers, inserting, announced, loop, lock, replies, limited, up, executed>>

\* Deviation: registerProtoHandler announces the method first.
RegisterProtoHandlerLate ==
  /\ up /\ reg # <<>> /\ regpc = "start" /\ Head(reg).type = "proto"
  /\ inserting' = Head(reg).method
  /\ regpc' = "second"
  /\ announced' = announced \cup {Head(reg).method}
  /\ UNCHANGED <<netVars, services, handlers, reg, loop, lock, replies, limited, up, executed>>

\* registerProtoHandler puts the handler into the router without a lock ...
RegisterProtoHandler ==
  /\ up /\ reg # <<>> /\ regpc = "start" /\ Head(reg).type = "proto"
  /\ inserting' = Head(reg).method
  /\ regpc' = "second"
  /\ UNCHANGED <<netVars, services, handlers, announced, reg, loop, lock, replies, limited, up, executed>>

Inserted ==
  /\ up /\ regpc = "second" /\ inserting # NoMethod
  /\ handlers' = handlers \cup {inserting}
  /\ inserting' = NoMethod
  /\ regpc' = "third"
  /\ UNCHANGED <<netVars, services, announced, reg, loop, lock, replies, limited, up, executed>>

\* ... and announces the method.
AnnounceProto ==
  /\ up /\ regpc = "third"
  /\ Announced(Head(reg).method)
  /\ Registered
  /\ UNCHANGED <<netVars, services, handlers, inserting, loop, lock, replies, limited, up, executed>>

---------------------------------------------------------------------------
LoopStep(l) ==
  \/ Incomplete(l) \/ OverLimit(l) \/ Undecodable(l) \/ Decode(l) \/ Lock(l) \/ UnknownType(l)
  \/ Backoff(l) \/ OnRpcRequst(l) \/ ServiceThrows(l) \/ OnProtoRequest(l) \/ LookupCrashes(l)
  \/ HandlerCalls(l) \/ AwaitEnds(l)

ServerNext ==
  \/ \E c \in Conns : PeerSends(c) \/ OnConnectionClosed(c)
  \/ \E l \in Loops : LoopStep(l)
  \/ \E l \in Loops, c \in Conns, p \in BOOLEAN :
       \E k \in 0 .. Len(sent[c]) : ReadEvent(l, c, k, p)
  \/ AnnounceMethod \/ RegisterMethod
  \/ RegisterProtoHandler \/ Inserted \/ AnnounceProto

ServerTypeOK ==
  /\ \A c \in Conns : conn[c] \in {"open", "shut", "closed"} /\ (part[c] => sent[c] # <<>>)
  /\ \A l \in Loops : loop[l].pc \in {"idle", "parse", "lock", "run", "await"}
  /\ lock \in Loops \cup {NoLoop}
  /\ lock = NoLoop => \A l \in Loops : loop[l].pc \notin {"run", "await"}

---------------------------------------------------------------------------
\* A request for a method that was announced when it was sent is never refused
\* as unknown, for two exceptions: registerMethod announces a JSON method before
\* the router has it, and a look-up in _handlers races the insertion of another
\* method.
DiscoveredFound ==
  \A c \in Conns : \A r \in replies[c] :
    r.code = "SERVICE_NOT_FOUND" /\ r.known => r.type = "json" \/ r.raced

\* A handler that calls its own server never gets an answer while it waits: the
\* dispatcher serves nobody before it returns, and the call can only time out.
SelfCallStarves ==
  \A l \in Loops : loop[l].pc = "await" =>
    \A r \in replies[SelfConn] : r.rid # SelfRid(loop[l].frame)

\* onMessage works through the buffer: whatever the frames before it led to, no
\* complete frame of an open connection is left there until more data comes, but
\* for those behind a negative length, and if more than _maxdatalen waits there
\* the connection is shut down.
BufferWorkedOff ==
  \A c \in Conns :
    buf[c] # <<>> ~>
      \/ buf[c] = <<>>
      \/ Head(buf[c]).type = "negative" /\ Len(buf[c]) <= MaxWaiting
      \/ conn[c] # "open"
      \/ ~up
=============================================================================
