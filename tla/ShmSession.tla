----------------------------- MODULE ShmSession -----------------------------
(***************************************************************************)
(* The life of a shared-memory session: the server's accept loop, the      *)
(* creation and the reclaim of a segment, the handshake over the Unix      *)
(* socket, the client's open, the worker and the response loop with their  *)
(* eventfds, stop, destruction and the death of either process.            *)
(*                                                                         *)
(* The three pairs of classes repeat one control flow: ShmServer and       *)
(* ShmServerZc differ in the encoding of a frame only, ShmServerProto      *)
(* serves from a muduo loop, which has no timeout and does not end with    *)
(* stop().  world.kind ("epoll", "muduo") tells the two flows apart.  A    *)
(* definition that stands for repeated code is mapped to one of the files. *)
(*                                                                         *)
(* A ring is the number of frames in it, between 0 and Cap: that a         *)
(* ShmChannel is a queue is the subject of ShmRing and ShmFifo.  The       *)
(* eventfds are semaphores (EFD_SEMAPHORE), a read takes one unit.         *)
(***************************************************************************)
EXTENDS Integers, Sequences, FiniteSetsExt

CONSTANTS
  Servers,      \* processes that run a server on the same path and prefix
  Clients,      \* ShmClient objects; each connects once
  Worlds,       \* deployments: kind of server, what earlier ones left in
                \* /dev/shm, the servers that start, the requests of a client
  None,
  Old,          \* a process that died before the behaviour begins
  MaxClients,   \* _max_clients
  Cap,          \* frames a ring holds
  MaxEnds       \* bound: stops, shutdowns and deaths of a process

VARIABLES
  world,     \* the deployment: kind of server, processes, bound on the requests
  files,     \* /dev/shm: id of a name -> index of the segment, 0 when absent
  segs,      \* every segment ever created, unlinked ones included
  path,      \* who bound the Unix socket's path
  srv,       \* server process: accept loop, running flag, next_id, handshake
  cl,        \* client process and the entry the server keeps for it
  ends       \* processes and objects that came to an end

sessionVars == <<world, files, segs, path, srv, cl, ends>>

Ids == 0 .. MaxClients - 1

Segment(n, s, c) ==
  [name |-> n, by |-> s, for |-> c, pid |-> None, ready |-> FALSE,
   fmt |-> FALSE, req |-> 0, resp |-> 0]

\* A segment of a server that was killed, and one of a release whose control
\* block had no pid.
LeftOver == [Segment(0, Old, None) EXCEPT !.pid = Old, !.ready = TRUE, !.fmt = TRUE]
Legacy == [Segment(0, Old, None) EXCEPT !.ready = TRUE]

ASSUME SessionAssumption ==
  /\ MaxClients \in Nat \ {0} /\ Cap \in Nat /\ MaxEnds \in Nat
  /\ None \notin Servers /\ Old \notin Servers
  /\ \A w \in Worlds : w.left \in {<<>>, <<LeftOver>>, <<Legacy>>}

IdleServer ==
  [pc |-> "off", run |-> FALSE, next |-> 0, id |-> 0, look |-> 0, c |-> None, left |-> {}]

IdleClient ==
  [pc |-> "idle", srv |-> None, name |-> 0, own |-> 0, seg |-> 0, reg |-> "none",
   rfd |-> FALSE, req |-> 0, resp |-> 0, mid |-> FALSE, sent |-> 0]

SessionInit ==
  /\ world \in Worlds
  /\ segs = world.left
  /\ files = [n \in Ids |-> IF n = 0 THEN Len(segs) ELSE 0]
  /\ path = None
  /\ srv = [s \in Servers |-> IdleServer]
  /\ cl = [c \in Clients |-> IdleClient]
  /\ ends = 0

\* kill(pid, 0): the process exists.
Up(p) == p \in Servers /\ srv[p].pc \notin {"off", "dead"}

Listening(s) == srv[s].run /\ srv[s].pc \notin {"bind", "dead"}

BackToAccept(s) ==
  srv' = [srv EXCEPT ![s].pc = "accept", ![s].c = None, ![s].id = 0, ![s].look = 0]

SrvGoes(s, pc) == srv' = [srv EXCEPT ![s].pc = pc]

ClGoes(c, pc) == cl' = [cl EXCEPT ![c].pc = pc]

Ending == ends < MaxEnds /\ ends' = ends + 1

---------------------------------------------------------------------------
(* start() and the accept loop.                                            *)

\* socket, unlink of the path.
Start(s) ==
  /\ s \in world.servers
  /\ srv[s].pc = "off"
  /\ path' = None
  /\ srv' = [srv EXCEPT ![s].pc = "bind", ![s].run = TRUE]
  /\ UNCHANGED <<world, files, segs, cl, ends>>

\* bind and listen; start() returns when another server took the path.
Bind(s) ==
  /\ srv[s].pc = "bind"
  /\ IF path = None
       THEN path' = s /\ SrvGoes(s, "accept")
       ELSE path' = path /\ srv' = [srv EXCEPT ![s].pc = "ended", ![s].run = FALSE]
  /\ UNCHANGED <<world, files, segs, cl, ends>>

\* Deviation: a refused connection is not closed.
RefuseLeaks(s, c) ==
  BackToAccept(s) /\ UNCHANGED cl

\* close(conn_fd) before the handshake.  recv_fd of a client that waits for
\* the eventfd then finds no control message and dereferences a null pointer:
\* the client's process dies.
Refuse(s, c) ==
  /\ BackToAccept(s)
  /\ cl' = [cl EXCEPT ![c].pc = IF @ \in {"queued dead", "lost"} THEN "lost" ELSE "crashed"]

Queued(s) == {c \in Clients : cl[c].pc \in {"queued", "queued dead"} /\ cl[c].srv = s}

\* accept(): ids are handed out once, next_id never goes down.
Accept(s) ==
  /\ srv[s].pc = "accept"
  /\ srv[s].run
  /\ \E c \in Queued(s) :
       IF srv[s].next >= MaxClients
         THEN Refuse(s, c)
         ELSE /\ srv' = [srv EXCEPT ![s].pc = "create", ![s].c = c,
                                    ![s].id = srv[s].next, ![s].next = @ + 1]
              /\ cl' = [cl EXCEPT ![c].pc = IF @ = "queued" THEN "accepted" ELSE "lost"]
  /\ UNCHANGED <<world, files, segs, path, ends>>

\* The loop ends: the path is unlinked, whoever bound it since.
AcceptEnds(s) ==
  /\ srv[s].pc = "accept"
  /\ ~srv[s].run
  /\ path' = None
  /\ SrvGoes(s, "ended")
  /\ UNCHANGED <<world, files, segs, cl, ends>>

---------------------------------------------------------------------------
(* ShmChannel::create and reclaim_stale_segment.                           *)

\* shm_open with O_CREAT | O_EXCL succeeds: an empty file.
NewFile(s) ==
  /\ files[srv[s].id] = 0
  /\ segs' = Append(segs, Segment(srv[s].id, s, srv[s].c))
  /\ files' = [files EXCEPT ![srv[s].id] = Len(segs) + 1]
  /\ cl' = [cl EXCEPT ![srv[s].c].own = Len(segs) + 1]
  /\ SrvGoes(s, "pid")

CreateFails(s) == Refuse(s, srv[s].c) /\ UNCHANGED <<files, segs>>

Create(s) ==
  /\ srv[s].pc = "create"
  /\ \/ NewFile(s)
     \/ /\ files[srv[s].id] # 0
        /\ SrvGoes(s, "judge")
        /\ UNCHANGED <<files, segs, cl>>
  /\ UNCHANGED <<world, path, ends>>

\* Deviation: a segment that is not ready counts as left behind.
StaleUnready(g) ==
  \/ segs[g].pid # None /\ ~Up(segs[g].pid)
  \/ ~segs[g].ready
  \/ segs[g].pid = None /\ ~segs[g].fmt

\* The creator is provably dead, or the layout is older than the pid field.
\* A creator between shm_open and the store of its pid is left alone.
Stale(g) ==
  IF segs[g].pid # None THEN ~Up(segs[g].pid) ELSE segs[g].ready /\ ~segs[g].fmt

\* reclaim_stale_segment opens the file the name stands for now and judges it.
Judge(s) ==
  /\ srv[s].pc = "judge"
  /\ LET g == files[srv[s].id] IN
       IF g # 0 /\ Stale(g)
         THEN srv' = [srv EXCEPT ![s].pc = "unlink", ![s].look = g] /\ UNCHANGED <<files, segs, cl>>
         ELSE CreateFails(s)
  /\ UNCHANGED <<world, path, ends>>

\* shm_unlink goes by the name: it takes whatever file has it by now.
Unlink(s) ==
  /\ srv[s].pc = "unlink"
  /\ IF files[srv[s].id] # 0
       THEN /\ files' = [files EXCEPT ![srv[s].id] = 0]
            /\ SrvGoes(s, "again")
            /\ UNCHANGED <<segs, cl>>
       ELSE CreateFails(s)
  /\ UNCHANGED <<world, path, ends>>

\* The second shm_open, again with O_EXCL.
CreateAgain(s) ==
  /\ srv[s].pc = "again"
  /\ NewFile(s) \/ (files[srv[s].id] # 0 /\ CreateFails(s))
  /\ UNCHANGED <<world, path, ends>>

InHand(s) == cl[srv[s].c].own

\* ftruncate or mmap fails: the name is unlinked, whatever file it stands for by
\* now, and with it the client refused.
SizeFails(s) ==
  /\ srv[s].pc = "pid"
  /\ files' = [files EXCEPT ![srv[s].id] = 0]
  /\ Refuse(s, srv[s].c)
  /\ UNCHANGED <<world, segs, path, ends>>

\* ftruncate, mmap, placement new and the store of the pid; then the format
\* fields and, last, ready.
StorePid(s) ==
  /\ srv[s].pc = "pid"
  /\ segs' = [segs EXCEPT ![InHand(s)].pid = s]
  /\ SrvGoes(s, "ready")
  /\ UNCHANGED <<world, files, path, cl, ends>>

StoreReady(s) ==
  /\ srv[s].pc = "ready"
  /\ segs' = [segs EXCEPT ![InHand(s)].fmt = TRUE, ![InHand(s)].ready = TRUE]
  /\ SrvGoes(s, "offer")
  /\ UNCHANGED <<world, files, path, cl, ends>>

---------------------------------------------------------------------------
(* The handshake and the entry of a client.                                *)

\* destroy() of a creator's channel: ready is withdrawn and the name unlinked,
\* whatever file it stands for by now.  The channel forgets neither its name nor
\* that it is the creator, so that ~ShmChannel, which calls destroy() once more,
\* unlinks the name a second time.
DestroyChannel(g) ==
  /\ segs' = [segs EXCEPT ![g].ready = FALSE]
  /\ files' = [files EXCEPT ![segs[g].name] = 0]

\* Deviation: the name is built from next_id after it was incremented.
OfferedNameNext(s) == srv[s].next % MaxClients

\* The name the server sends: the one it created.
OfferedName(s) == srv[s].id

\* handshake_server sends the eventfd and the name ...
Offer(s) ==
  /\ srv[s].pc = "offer"
  /\ cl[srv[s].c].pc # "lost"
  /\ cl' = [cl EXCEPT ![srv[s].c].pc = "offered", ![srv[s].c].name = OfferedName(s)]
  /\ SrvGoes(s, "wait")
  /\ UNCHANGED <<world, files, segs, path, ends>>

\* ... or fails, because the client has closed its end or there is no eventfd to
\* be had: the channel is destroyed ...
HandshakeFails(s) ==
  /\ srv[s].pc = "offer"
  /\ DestroyChannel(InHand(s))
  /\ SrvGoes(s, "drop")
  /\ UNCHANGED <<world, path, cl, ends>>

\* ... the connection closed and the entry dropped, whose channel's destructor
\* destroys it again.
DropEntry(s) ==
  /\ srv[s].pc = "drop"
  /\ DestroyChannel(InHand(s))
  /\ Refuse(s, srv[s].c)
  /\ UNCHANGED <<world, path, ends>>

\* The entry goes into the worker's map and its fd through the wake pipe.
Enter(s, gotFd) ==
  /\ cl' = [cl EXCEPT ![srv[s].c].reg = "map", ![srv[s].c].rfd = gotFd]
  /\ BackToAccept(s)

\* recv_fd returns the client's eventfd; there is no timeout.
Register(s) ==
  /\ srv[s].pc = "wait"
  /\ cl[srv[s].c].pc \notin {"offered", "lost"}
  /\ Enter(s, TRUE)
  /\ UNCHANGED <<world, files, segs, path, ends>>

\* The process is gone: what it had queued is reset, a client whose
\* connection it had accepted reads the end of the stream.
ProcessDies(s) ==
  /\ srv' = [srv EXCEPT ![s] = [IdleServer EXCEPT !.pc = "dead"]]
  /\ cl' = [c \in Clients |->
              IF cl[c].srv # s THEN cl[c]
              ELSE [cl[c] EXCEPT !.pc = CASE @ = "queued" -> "failed"
                                          [] @ = "queued dead" -> "lost"
                                          [] @ = "accepted" -> "crashed"
                                          [] OTHER -> @]]

\* The client died before it answered.  recv_fd either reads a reset and
\* keeps whatever was on its stack as the fd, or reads the end of the stream
\* and dereferences a null pointer.
RegisterLost(s) ==
  /\ srv[s].pc = "wait"
  /\ cl[srv[s].c].pc = "lost"
  /\ \/ Enter(s, FALSE)
     \/ ProcessDies(s)
  /\ UNCHANGED <<world, files, segs, path, ends>>

---------------------------------------------------------------------------
(* The worker that serves a server's entries.                              *)

Entries(s) == {c \in Clients : cl[c].srv = s /\ cl[c].reg # "none"}

\* stop() ends the epoll workers, the muduo loops run until the destructor.
Working(s) ==
  /\ srv[s].pc \notin {"off", "bind", "destroy", "members", "gone", "dead"}
  /\ srv[s].run \/ world.kind = "muduo"

\* The wake pipe is readable: the new fd is added to the epoll set (muduo:
\* enableReading runs in the loop).
WakePipe(s) ==
  /\ Working(s)
  /\ \E c \in Entries(s) : cl[c].reg = "map" /\ cl' = [cl EXCEPT ![c].reg = "epoll"]
  /\ UNCHANGED <<world, files, segs, path, srv, ends>>

\* Notifications of one response: resp_commit notifies and the sender of
\* ShmServerProto once more; the copying path notifies once.
Notifications == IF world.kind = "muduo" THEN {1, 2} ELSE {1}

\* Deviation: a response is written whether or not it fits.
AnsweredUnchecked(g) == segs[g].req

\* Responses that still fit: the others are dropped without a notification
\* (SHM_RESPONSE_WAIT_MS is 0), their callers time out.
Answered(g) == Min({segs[g].req, Cap - segs[g].resp})

\* drain_requests of the entries in ds: frames are read, handled and answered
\* until the ring is empty.
Drain(ds, woken) ==
  /\ segs' = [g \in DOMAIN segs |->
                IF \E c \in ds : cl[c].own = g
                  THEN [segs[g] EXCEPT !.req = 0, !.resp = @ + Answered(g)] ELSE segs[g]]
  /\ \E k \in Notifications :
       cl' = [c \in Clients |->
                IF c \notin ds THEN cl[c]
                ELSE [cl[c] EXCEPT !.req = @ - woken,
                                   !.resp = @ + (IF cl[c].rfd THEN k * Answered(cl[c].own) ELSE 0)]]

\* A request eventfd is readable: one unit is taken and the ring is drained.
Wake(s) ==
  /\ Working(s)
  /\ \E c \in Entries(s) : cl[c].reg = "epoll" /\ cl[c].req > 0 /\ Drain({c}, 1)
  /\ UNCHANGED <<world, files, path, srv, ends>>

\* Deviation: the round that timed out drains nothing.
SnapshotEmpty(s) == {}

\* A round that timed out drains every entry of the map.
Snapshot(s) == Entries(s)

\* epoll_wait timed out: no fd of the set is readable.
WorkerTimeout(s) ==
  /\ world.kind = "epoll"
  /\ Working(s)
  /\ \A c \in Entries(s) : cl[c].reg = "epoll" /\ cl[c].req = 0
  /\ Drain(Snapshot(s), 0)
  /\ UNCHANGED <<world, files, path, srv, ends>>

\* stop(): the listening socket is closed, connections not yet accepted are
\* reset, the workers are asked to end.  ready stays set.
Stop(s) ==
  /\ srv[s].run /\ srv[s].pc # "bind"
  /\ Ending
  /\ srv' = [srv EXCEPT ![s].run = FALSE]
  /\ cl' = [c \in Clients |-> IF c \notin Queued(s) THEN cl[c]
              ELSE [cl[c] EXCEPT !.pc = IF @ = "queued" THEN "failed" ELSE "lost"]]
  /\ UNCHANGED <<world, files, segs, path>>

\* The destructor, once start() has returned: destroy() of every entry ...
Destroy(s) ==
  /\ srv[s].pc = "ended"
  /\ srv' = [srv EXCEPT ![s].pc = "destroy", ![s].left = Entries(s)]
  /\ UNCHANGED <<world, files, segs, path, cl, ends>>

\* ... one after the other ...
DestroyEntry(s) ==
  /\ srv[s].pc \in {"destroy", "members"}
  /\ \E c \in srv[s].left :
       /\ DestroyChannel(cl[c].own)
       /\ srv' = [srv EXCEPT ![s].left = @ \ {c}]
  /\ UNCHANGED <<world, path, cl, ends>>

\* ... and behind it the destructors of the members, where ~ShmChannel of every
\* entry calls destroy() again.
DestroyMembers(s) ==
  /\ srv[s].pc = "destroy" /\ srv[s].left = {}
  /\ srv' = [srv EXCEPT ![s].pc = "members", ![s].left = Entries(s)]
  /\ UNCHANGED <<world, files, segs, path, cl, ends>>

Destroyed(s) ==
  /\ srv[s].pc = "members" /\ srv[s].left = {}
  /\ srv' = [srv EXCEPT ![s] = [IdleServer EXCEPT !.pc = "gone"]]
  /\ UNCHANGED <<world, files, segs, path, cl, ends>>

Destructor(s) == DestroyEntry(s) \/ DestroyMembers(s) \/ Destroyed(s)

Crash(s) ==
  /\ Up(s)
  /\ Ending
  /\ ProcessDies(s)
  /\ UNCHANGED <<world, files, segs, path>>

---------------------------------------------------------------------------
(* The client.                                                             *)

Connect(c) ==
  /\ cl[c].pc = "idle"
  /\ IF path # None /\ Listening(path)
       THEN cl' = [cl EXCEPT ![c].pc = "queued", ![c].srv = path]
       ELSE ClGoes(c, "failed")
  /\ UNCHANGED <<world, files, segs, path, srv, ends>>

\* handshake_client: read the eventfd and the name, send the own eventfd.
HandshakeClient(c) ==
  /\ cl[c].pc = "offered"
  /\ ClGoes(c, "named")
  /\ UNCHANGED <<world, files, segs, path, srv, ends>>

\* shm_open, fstat and mmap; mmap fails while the file is still empty.
OpenFile(c) ==
  /\ cl[c].pc = "named"
  /\ LET g == files[cl[c].name] IN
       \/ (g # 0 => segs[g].pid = None) /\ ClGoes(c, "failed")
       \/ g # 0 /\ cl' = [cl EXCEPT ![c].pc = "mapped", ![c].seg = g]
  /\ UNCHANGED <<world, files, segs, path, srv, ends>>

\* The spin on ready, its deadline, the check of magic and version.
OpenReady(c) ==
  /\ cl[c].pc = "mapped"
  /\ ClGoes(c, IF segs[cl[c].seg].ready /\ segs[cl[c].seg].fmt THEN "open" ELSE "failed")
  /\ UNCHANGED <<world, files, segs, path, srv, ends>>

\* send(): the frame is published in the request ring.  A full ring fails
\* the call with BACKOFF and changes nothing here.  A connection marked dead
\* is not asked: send() looks at the mapping only.
SendWrite(c) ==
  /\ cl[c].pc \in {"open", "dead"}
  /\ ~cl[c].mid
  /\ cl[c].sent < world.reqs
  /\ segs[cl[c].seg].req < Cap
  /\ segs' = [segs EXCEPT ![cl[c].seg].req = @ + 1]
  /\ cl' = [cl EXCEPT ![c].mid = TRUE, ![c].sent = @ + 1]
  /\ UNCHANGED <<world, files, path, srv, ends>>

\* notify_req, the second half of send().
SendNotify(c) ==
  /\ cl[c].mid
  /\ cl' = [cl EXCEPT ![c].mid = FALSE, ![c].req = @ + 1]
  /\ UNCHANGED <<world, files, segs, path, srv, ends>>

\* Deviation: only ready is looked at.
PeerAliveReady(g) == segs[g].ready

\* The creator has not withdrawn ready and its process exists.
PeerAlive(g) == segs[g].ready /\ Up(segs[g].pid)

\* read_response until the ring is empty; each response goes to the requestor.
ReadResponses(c) == segs' = [segs EXCEPT ![cl[c].seg].resp = 0]

\* responseLoop: epoll_wait returned an event.
ResponseWake(c) ==
  /\ cl[c].pc = "open"
  /\ cl[c].resp > 0
  /\ cl' = [cl EXCEPT ![c].resp = @ - 1]
  /\ ReadResponses(c)
  /\ UNCHANGED <<world, files, path, srv, ends>>

\* responseLoop: epoll_wait timed out.  The loop ends when the server is gone.
ResponseTimeout(c) ==
  /\ cl[c].pc = "open"
  /\ cl[c].resp = 0
  /\ IF PeerAlive(cl[c].seg)
       THEN ReadResponses(c) /\ cl' = cl
       ELSE ClGoes(c, "dead") /\ segs' = segs
  /\ UNCHANGED <<world, files, path, srv, ends>>

\* shutdown(): the loop is joined and the mapping dropped; nobody tells the
\* server.
Shutdown(c) ==
  /\ cl[c].pc \in {"open", "dead"} /\ ~cl[c].mid
  /\ Ending
  /\ cl' = [cl EXCEPT ![c].pc = "shut", ![c].seg = 0]
  /\ UNCHANGED <<world, files, segs, path, srv>>

\* The client's process dies.
ClientDies(c) ==
  /\ cl[c].pc \in {"queued", "accepted", "offered", "named", "mapped", "open", "dead"}
  /\ Ending
  /\ cl' = [cl EXCEPT ![c].pc = CASE @ = "queued" -> "queued dead"
                                  [] @ \in {"accepted", "offered"} -> "lost"
                                  [] OTHER -> "shut",
                      ![c].seg = 0, ![c].mid = FALSE]
  /\ UNCHANGED <<world, files, segs, path, srv>>

---------------------------------------------------------------------------
ServerThread(s) ==
  \/ Bind(s) \/ Accept(s) \/ AcceptEnds(s) \/ Create(s) \/ Judge(s) \/ Unlink(s)
  \/ CreateAgain(s) \/ SizeFails(s) \/ StorePid(s) \/ StoreReady(s) \/ Offer(s)
  \/ HandshakeFails(s) \/ DropEntry(s) \/ Register(s) \/ RegisterLost(s)

WorkerThread(s) ==
  WakePipe(s) \/ Wake(s) \/ WorkerTimeout(s)

Caller(c) == HandshakeClient(c) \/ OpenFile(c) \/ OpenReady(c) \/ SendNotify(c)

ResponseLoop(c) == ResponseWake(c) \/ ResponseTimeout(c)

SessionNext ==
  \/ \E s \in Servers :
       \/ Start(s) \/ Stop(s) \/ Destroy(s) \/ Crash(s)
       \/ ServerThread(s) \/ WorkerThread(s) \/ Destructor(s)
  \/ \E c \in Clients :
       Connect(c) \/ SendWrite(c) \/ Shutdown(c) \/ ClientDies(c) \/ Caller(c) \/ ResponseLoop(c)

\* Threads that are inside a call keep running while their process lives.
SessionFairness ==
  /\ \A s \in Servers : WF_sessionVars(ServerThread(s)) /\ WF_sessionVars(WorkerThread(s))
  /\ \A c \in Clients : WF_sessionVars(Caller(c)) /\ WF_sessionVars(ResponseLoop(c))

SessionSpec == SessionInit /\ [][SessionNext]_sessionVars /\ SessionFairness

---------------------------------------------------------------------------
(* Properties.                                                             *)

\* Types; a ring never holds more than its capacity, next_id stays within the
\* lifetime limit.
SessionTypeOK ==
  /\ world \in Worlds
  /\ files \in [Ids -> 0 .. Len(segs)]
  /\ path \in Servers \cup {None}
  /\ ends \in 0 .. MaxEnds
  /\ \A g \in DOMAIN segs :
       segs[g].name \in Ids /\ segs[g].req \in 0 .. Cap /\ segs[g].resp \in 0 .. Cap
  /\ \A s \in Servers : srv[s].next \in 0 .. MaxClients
  /\ \A c \in Clients :
       /\ cl[c].own \in 0 .. Len(segs) /\ cl[c].seg \in 0 .. Len(segs)
       /\ cl[c].req \in Nat /\ cl[c].resp \in Nat

\* A client that finished connect() maps the segment its server created for
\* it, so that a request ring has one producer: it can only be another one if
\* the name was taken from its own segment between the handshake and the open:
\* the server died and was replaced, or another server unlinked the name for an
\* older segment.
MapsOwn ==
  \A c \in Clients : cl[c].pc = "open" /\ cl[c].seg # cl[c].own =>
    files[segs[cl[c].own].name] # cl[c].own

\* Segments, names and rings through all starts, crashes and handshakes.
SessionsSafe == SessionTypeOK /\ MapsOwn

\* The segments whose channels a server is about to clean up: that of a create()
\* that may still fail, that of a handshake, those the destructors go through.
CleansUp(s) ==
  CASE srv[s].pc \in {"pid", "offer", "drop"} -> {InHand(s)}
    [] srv[s].pc \in {"destroy", "members"} -> {cl[c].own : c \in srv[s].left}
    [] OTHER -> {}

\* If the name n is taken from the segment of a living process: who did it.
TakenWithCause(n) ==
  LET g == files[n] IN
  (g # 0 /\ files'[n] = 0 /\ Up(segs[g].by)) =>
    \E s \in Servers :
      /\ srv'[s] # srv[s]
      /\ \/ srv[s].pc = "unlink" /\ srv[s].id = n /\ srv[s].look < g
         \/ \E h \in CleansUp(s) : segs[h].name = n /\ h <= g

\* The protection of live segments by O_EXCL and kill(pid, 0): a server that finds
\* a name taken never takes it from a living creator it has looked at.  The name
\* of such a segment goes away only when the creator itself cleans it up, or
\* with an older segment of that name, since shm_unlink goes by the name: in a
\* reclaim that had judged the older one, or when the creator of the older one
\* cleans that up (a create() that fails, destroy(), ~ShmChannel behind it).
ReclaimCauses == [][\A n \in Ids : TakenWithCause(n)]_sessionVars

\* Whoever can still answer a client's requests.
Served(c) ==
  /\ cl[c].reg # "none" /\ Working(cl[c].srv)
  /\ world.kind = "muduo" => /\ cl[c].pc \in {"open", "dead"}
                       /\ \A d \in Clients \ {c} : cl[d].seg # cl[c].own

\* Requests and responses do not stay in a ring.  A request published while
\* the worker runs is taken, also when it came before the registration of the
\* eventfd or its sender died before notify_req (the muduo server needs the
\* notification); a response is read by the client's loop.
Drained ==
  \A c \in Clients :
    /\ []<>(Served(c) => segs[cl[c].own].req = 0)
    /\ []<>(cl[c].pc = "open" => segs[cl[c].seg].resp = 0)

\* A client learns that the creator of its segment is gone, by destroy() or
\* by the death of the process: responseLoop marks the connection dead.
GoneNoticed ==
  \A c \in Clients :
    (cl[c].pc = "open" /\ ~(segs[cl[c].seg].ready /\ Up(segs[cl[c].seg].by))) ~> cl[c].pc # "open"

\* connect() does not hang on a server that refuses, stops or dies: it
\* returns, or its process dies in recv_fd.
ConnectReturns ==
  \A c \in Clients :
    []<>(cl[c].pc \notin {"queued", "accepted", "offered", "named", "mapped"})
=============================================================================
