------------------------------ MODULE Gateway ------------------------------
(***************************************************************************)
(* The HTTP gateway in front of an RpcServer: gateway/src/http_server.hpp  *)
(* parses requests on its IO threads, the callback of the gateway passes   *)
(* them through the token bucket (TokenBucket, one caller of allow() per   *)
(* IO thread) and the router, and an echo request becomes a call_proto of  *)
(* the gateway's RpcClient on the connection GwConn of RpcServer.          *)
(*                                                                         *)
(* A request arrives in pieces: "line" is the request line, "len" the      *)
(* Content-Length header, "ua" a header whose value has a space in it,     *)
(* "end" the empty line, "body" the body.  A client may be cut off after   *)
(* any of them.  The breaker of the RpcClient may reject any attempt.      *)
(***************************************************************************)
EXTENDS RpcServer, TokenBucket

CONSTANTS
  HttpConns,     \* HTTP connections
  HttpLoopOf,    \* the IO thread (a member of Threads) of an HTTP connection
  GwConn,        \* the pooled connection of the gateway's RpcClient
  EchoMethod,
  MaxRetries,    \* _retry_config.max_retries
  Worlds         \* what clients, peers and the main thread of the server do

ASSUME GatewayAssumption ==
  /\ HttpLoopOf \in [HttpConns -> Threads]
  /\ GwConn \in Conns
  /\ EchoMethod \in Methods
  /\ MaxRetries \in Nat
  /\ HttpConns \cap Conns = {} /\ "self" \notin HttpConns \cup Conns

\* A whole HTTP request: the request line, headers, the empty line and, after a
\* Content-Length, the body.
IsRequest(q) ==
  /\ q # <<>> /\ q[1] = "line"
  /\ \E e \in 2 .. Len(q) :
       /\ q[e] = "end"
       /\ \A i \in 1 .. Len(q) : q[i] = "end" => i = e
       /\ (\E i \in 1 .. e : q[i] = "len") => e < Len(q)

\* An id has the connection it was made for in it; a call of a handler to its own
\* server is made for another request.
Ids == ((Conns \cup HttpConns) \X Nat) \cup ({"self"} \X Conns \X Nat)

Frames ==
  [rid : Ids, type : {"json", "proto", "garbled", "negative", "other"}, method : Methods,
   fault : {"none", "params", "result", "parse", "throws", "selfcall", "huge"}, known : BOOLEAN]

Pieces == {"line", "ua", "len", "end", "body"}

Wants == {"none", "echo", "badjson", "local", "nowhere"}

\* A method that is a JSON service or will be registered as one.
ServiceIn(m, srv, rs) == m \in srv \/ \E i \in 1 .. Len(rs) : rs[i].type = "json" /\ rs[i].method = m

\* Clients use the program as it is meant: an HTTP client sends one request, ids
\* are unique, a method is registered once, and a method that is registered as a
\* JSON service is not called with protobuf.
ASSUME WorldAssumption ==
  \A w \in Worlds :
    /\ w.limited \in BOOLEAN
    /\ w.services \subseteq Methods /\ w.handlers \subseteq Methods
    /\ w.reg \in Seq([type : {"json", "proto"}, method : Methods])
    /\ \A i, j \in 1 .. Len(w.reg) :
         w.reg[i].type = w.reg[j].type /\ w.reg[i].method = w.reg[j].method => i = j
    /\ \A i \in 1 .. Len(w.reg) : w.reg[i].type = "proto" => w.reg[i].method \notin w.handlers
    /\ w.todo \in [Conns -> Seq(Frames)]
    /\ \A c \in Conns : \A i, j \in 1 .. Len(w.todo[c]) :
         /\ w.todo[c][i].rid \in {c} \X Nat
         /\ w.todo[c][i].rid = w.todo[c][j].rid => i = j
         /\ w.todo[c][i].type = "proto" => ~ServiceIn(w.todo[c][i].method, w.services, w.reg)
    /\ ~ServiceIn(EchoMethod, w.services, w.reg)
    /\ w.http \in [HttpConns -> [what : Wants, wire : Seq(Pieces)]]
    /\ \A c \in HttpConns : IF w.http[c].what = "none" THEN w.http[c].wire = <<>>
                             ELSE IsRequest(w.http[c].wire)

VARIABLES
  http,       \* HTTP connections
  job         \* what an IO thread of the gateway is doing

vars == <<serverVars, bucketVars, http, job>>

NoJob == [pc |-> "idle"]

Init ==
  /\ ServerInit /\ BucketInit
  /\ \E w \in Worlds :
       /\ todo = w.todo /\ leaving = w.leaving /\ reg = w.reg /\ limited = w.limited
       /\ services = w.services /\ handlers = w.handlers
       /\ announced = w.services \cup w.handlers
       /\ http = [c \in HttpConns |->
           [what |-> w.http[c].what, wire |-> w.http[c].wire, buf |-> <<>>,
            st |-> "open", status |-> 0, split |-> FALSE]]
  /\ job = [g \in Threads |-> NoJob]

---------------------------------------------------------------------------
(* Parsing.                                                                *)

Waits(rest) == [res |-> "wait", buf |-> rest, routed |-> FALSE]
Shuts(rest) == [res |-> "shut", buf |-> rest, routed |-> FALSE]
Calls(rest, ok) == [res |-> "call", buf |-> rest, routed |-> ok]

\* A request line needs two spaces: a header with a space in its value has them.
IsRequestLine(p) == p \in {"line", "ua"}

\* Deviation: the body must be followed by something.
HasBodyAndMore(rest) == Len(rest) > 1

\* readableBytes() >= content_length
HasBody(rest) == Len(rest) >= 1

\* The headers up to the empty line, and the body.  What has been consumed is
\* gone when onMessage has to wait.
Headers(rest, ok) ==
  LET ends == {i \in DOMAIN rest : rest[i] = "end"}
      e == CHOOSE i \in ends : TRUE
      after == SubSeq(rest, e + 1, Len(rest))
  IN  IF ends = {} THEN Waits(<<>>)
      ELSE IF \A i \in 1 .. e : rest[i] # "len" THEN Calls(after, ok)
      ELSE IF HasBody(after) THEN Calls(Tail(after), ok)
      ELSE Waits(after)

\* onMessage on the buffer of a connection.
Parse(b) ==
  IF b = <<>> \/ Head(b) = "body" THEN Waits(b)
  ELSE IF ~IsRequestLine(Head(b)) THEN Shuts(Tail(b))
  ELSE Headers(Tail(b), Head(b) = "line")

\* k more pieces arrive.
HttpRead(g, c, k) ==
  /\ job[g] = NoJob /\ HttpLoopOf[c] = g
  /\ k \in 1 .. Len(http[c].wire)
  /\ LET h == http[c]
         p == Parse(h.buf \o SubSeq(h.wire, 1, k))
     IN  /\ http' = [http EXCEPT ![c] =
               [h EXCEPT !.wire = SubSeq(h.wire, k + 1, Len(h.wire)), !.buf = p.buf,
                         !.st = IF p.res = "shut" THEN "shut" ELSE h.st,
                         !.split = h.split \/ k < Len(h.wire)]]
         /\ job' = IF p.res # "call" THEN job
                   ELSE [job EXCEPT ![g] =
                     [pc |-> "clock", c |-> c, what |-> IF p.routed THEN h.what ELSE "nowhere",
                      n |-> 0, attempt |-> 0, resent |-> FALSE]]
  /\ UNCHANGED <<serverVars, bucketVars>>

\* sendResponse: the answer goes out unless shutdown() came before, and the
\* connection is shut down.
SendResponse(g, status) ==
  /\ LET h == http[job[g].c] IN
       http' = [http EXCEPT ![job[g].c] =
         [h EXCEPT !.status = IF h.status = 0 /\ h.st = "open" THEN status ELSE h.status, !.st = "shut"]]
  /\ job' = [job EXCEPT ![g] = NoJob]

---------------------------------------------------------------------------
(* The callback: rate limit, route, handler.                               *)

AllowBegins(g) ==
  /\ job[g].pc = "clock"
  /\ ReadClock(g)
  /\ job' = [job EXCEPT ![g].pc = "allow"]
  /\ UNCHANGED <<serverVars, http>>

Allowed(g) ==
  /\ job[g].pc = "allow"
  /\ Admit(g)
  /\ job' = [job EXCEPT ![g].pc = "route"]
  /\ UNCHANGED <<serverVars, http>>

RateLimited(g) ==
  /\ job[g].pc = "allow"
  /\ Deny(g)
  /\ SendResponse(g, 429)
  /\ UNCHANGED serverVars

\* HttpRouter::dispatch finds no handler.
NotFound(g) ==
  /\ job[g].pc = "route" /\ job[g].what = "nowhere"
  /\ SendResponse(g, 404)
  /\ UNCHANGED <<serverVars, bucketVars>>

\* /api/health and /diagnose are answered by the gateway itself.
HandleLocally(g) ==
  /\ job[g].pc = "route" /\ job[g].what = "local"
  /\ SendResponse(g, 200)
  /\ UNCHANGED <<serverVars, bucketVars>>

\* handleEcho and handleAdd: JsonStringToMessage fails ...
BadJson(g) ==
  /\ job[g].pc = "route" /\ job[g].what = "badjson"
  /\ SendResponse(g, 400)
  /\ UNCHANGED <<serverVars, bucketVars>>

\* ... or the call begins.
HandleEcho(g) ==
  /\ job[g].pc = "route" /\ job[g].what = "echo"
  /\ job' = [job EXCEPT ![g].pc = "attempt"]
  /\ UNCHANGED <<serverVars, bucketVars, http>>

---------------------------------------------------------------------------
(* call_proto of the gateway's RpcClient.                                  *)

Rid(g) == <<job[g].c, job[g].n>>

\* A request with a new id goes out on the shared connection.
SendRequest(g) ==
  /\ up
  /\ sent' = Sent(sent, GwConn, [rid |-> <<job[g].c, job[g].n + 1>>, type |-> "proto",
                                 method |-> EchoMethod, fault |-> "none", known |-> FALSE])
  /\ job' = [job EXCEPT ![g].pc = "wait", ![g].n = @ + 1]
  /\ UNCHANGED <<todo, part, buf, conn, leaving, regVars, loop, lock, replies, limited, up, executed,
                 bucketVars, http>>

Attempt(g) == job[g].pc = "attempt" /\ SendRequest(g)

\* The attempt has failed: another one, or 502.
Fails(g, err) ==
  \/ /\ err \in {"TIMEOUT", "CONN_CLOSED", "CIRCUIT_OPEN", "BACKOFF"}
     /\ job[g].attempt < MaxRetries
     /\ job' = [job EXCEPT ![g].pc = "attempt", ![g].attempt = @ + 1, ![g].resent = FALSE]
     /\ UNCHANGED http
  \/ /\ err \notin {"TIMEOUT", "CONN_CLOSED", "CIRCUIT_OPEN", "BACKOFF"} \/ job[g].attempt >= MaxRetries
     /\ SendResponse(g, 502)

NoConnection(g) ==
  /\ job[g].pc \in {"attempt", "resend"}
  /\ ~up
  /\ Fails(g, "CONN_CLOSED")
  /\ UNCHANGED <<serverVars, bucketVars>>

CircuitOpen(g) ==
  /\ job[g].pc = "attempt"
  /\ up
  /\ Fails(g, "CIRCUIT_OPEN")
  /\ UNCHANGED <<serverVars, bucketVars>>

\* Deviation: the next response of the connection is taken for the answer.
AnswersAny(g) == replies[GwConn]

\* Requestor::onResponse: the response with the id of the request.
Answers(g) == {r \in replies[GwConn] : r.rid = Rid(g)}

\* call_proto returns true.
EchoDone(g) ==
  /\ job[g].pc = "wait"
  /\ \E r \in Answers(g) : r.code = "SUCCESS"
  /\ SendResponse(g, 200)
  /\ UNCHANGED <<serverVars, bucketVars>>

\* The first BACKOFF of an attempt: the caller sleeps and sends once more.
EchoBackoff(g) ==
  /\ job[g].pc = "wait"
  /\ ~job[g].resent
  /\ \E r \in Answers(g) : r.code = "BACKOFF"
  /\ job' = [job EXCEPT ![g].pc = "resend", ![g].resent = TRUE]
  /\ UNCHANGED <<serverVars, bucketVars, http>>

Resend(g) == job[g].pc = "resend" /\ SendRequest(g)

\* Any other response.
EchoFails(g) ==
  /\ job[g].pc = "wait"
  /\ \E r \in Answers(g) :
       /\ r.code # "SUCCESS"
       /\ r.code = "BACKOFF" => job[g].resent
       /\ Fails(g, IF r.code = "BACKOFF" THEN "BACKOFF" ELSE "SERVICE_ERROR")
  /\ UNCHANGED <<serverVars, bucketVars>>

\* Deviation: the caller waits until it is answered.
EchoWaitsOn(g) == job[g].pc = "wait" /\ UNCHANGED vars

\* No answer in time.
EchoTimesOut(g) ==
  /\ job[g].pc = "wait"
  /\ Fails(g, "TIMEOUT")
  /\ UNCHANGED <<serverVars, bucketVars>>

GatewayStep(g) ==
  \/ AllowBegins(g) \/ Allowed(g) \/ RateLimited(g)
  \/ NotFound(g) \/ HandleLocally(g) \/ BadJson(g) \/ HandleEcho(g)
  \/ Attempt(g) \/ NoConnection(g) \/ CircuitOpen(g)
  \/ EchoDone(g) \/ EchoBackoff(g) \/ Resend(g) \/ EchoFails(g) \/ EchoTimesOut(g)

Next ==
  \/ ServerNext /\ UNCHANGED <<bucketVars, http, job>>
  \/ Tick /\ UNCHANGED <<serverVars, http, job>>
  \/ \E c \in HttpConns : \E k \in 1 .. Len(http[c].wire) : HttpRead(HttpLoopOf[c], c, k)
  \/ \E g \in Threads : GatewayStep(g)

\* The IO threads of both servers go on when they can; nobody has to send.
Spec ==
  /\ Init /\ [][Next]_vars
  /\ \A l \in Loops : WF_vars(LoopStep(l) /\ UNCHANGED <<bucketVars, http, job>>)
  /\ \A g \in Threads : WF_vars(GatewayStep(g))

---------------------------------------------------------------------------
\* Type correctness of the gateway and of the parts it uses.
TypeOK ==
  /\ ServerTypeOK /\ BucketTypeOK
  /\ \A c \in HttpConns : http[c].status \in {0, 200, 400, 404, 429, 502} /\ http[c].st \in {"open", "shut"}
  /\ \A g \in Threads :
       /\ job[g].pc \in {"idle", "clock", "allow", "route", "attempt", "resend", "wait"}
       /\ (seen[g] # Outside) = (job[g].pc = "allow")
       /\ job[g] # NoJob => job[g].attempt \in 0 .. MaxRetries /\ job[g].n \in 0 .. 2 * (MaxRetries + 1)

Sends(c) == {r \in executed : r[1] = c}

\* What the status tells the HTTP client about the backend is true: after 200
\* the echo handler ran for this very request, after 400, 404 and 429 no request
\* of this client reached it.  (502 says nothing: the handler may have run.)
StatusTrue ==
  \A c \in HttpConns :
    /\ http[c].status = 200 /\ http[c].what = "echo" => Sends(c) # {}
    /\ http[c].status \in {400, 404, 429} => Sends(c) = {}

\* A request that arrives in one read is recognised: it is being served or was
\* answered for what it asked.  onMessage keeps nothing of a request that is not
\* complete, so that one which is split between two reads may be answered 404,
\* shut down or left waiting.
ServedUnlessSplit ==
  \A c \in HttpConns :
    LET h == http[c] IN
      (h.wire = <<>> /\ h.what # "none" /\ ~h.split) =>
        \/ h.status # 0 /\ (h.status = 404 => h.what = "nowhere")
        \/ job[HttpLoopOf[c]] # NoJob /\ job[HttpLoopOf[c]].c = c

\* What an HTTP client is told, and what the server it calls is announced to
\* have, is true.
GatewaySafe == TypeOK /\ StatusTrue /\ ServedUnlessSplit /\ DiscoveredFound

\* A request that arrived in one read is answered at last, whatever happens to
\* the backend: every wait of the gateway ends.
HttpAnswered ==
  \A c \in HttpConns :
    (http[c].wire = <<>> /\ http[c].what # "none" /\ ~http[c].split) ~> http[c].status # 0
=============================================================================
