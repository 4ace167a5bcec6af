--------------------------- MODULE GatewayProofs ---------------------------
(***************************************************************************)
(* Machine-checked proofs about the token bucket, the RpcServer and the    *)
(* gateway in front of it, for any threads, connections, methods, retries  *)
(* and any requests that clients make.                                     *)
(***************************************************************************)
EXTENDS Gateway, TLAPS

(* The inductive invariant: the server ...                                 *)

\* What the requests, the loops, the jobs and the HTTP connections can be.
Codes == {"SUCCESS", "BACKOFF", "SERVICE_NOT_FOUND", "INVALID_PARAMS", "INTERNAL_ERROR", "PARSE_FAILED"}

Replies ==
  [rid : Ids, code : Codes,
   type : {"json", "proto", "garbled", "negative", "other"}, known : BOOLEAN, raced : BOOLEAN]

Busy == [pc : {"lock", "run", "await"}, conn : Conns, frame : Frames]
LoopStates == {Idle} \cup [pc : {"parse"}, conn : Conns] \cup Busy

Jobs ==
  [pc : {"clock", "allow", "route", "attempt", "resend", "wait"}, c : HttpConns, what : Wants,
   n : Nat, attempt : Nat, resent : BOOLEAN]
Https ==
  [what : Wants, wire : Seq(Pieces), buf : Seq(Pieces), st : {"open", "shut"},
   status : {0, 200, 400, 404, 429, 502}, split : BOOLEAN]

\* The types of the server, and the dispatcher's lock.
NetTyped ==
  /\ todo \in [Conns -> Seq(Frames)]
  /\ sent \in [Conns -> Seq(Frames)]
  /\ buf \in [Conns -> Seq(Frames)]
  /\ part \in [Conns -> BOOLEAN]
  /\ conn \in [Conns -> {"open", "shut", "closed"}]
  /\ \A c \in Conns : part[c] => sent[c] # <<>>

LoopTyped ==
  /\ loop \in [Loops -> LoopStates]
  /\ \A l \in Loops : loop[l].pc # "idle" => LoopOf[loop[l].conn] = l
  /\ lock \in Loops \cup {NoLoop}
  /\ \A l \in Loops : loop[l].pc \in {"run", "await"} => lock = l
  /\ replies \in [Conns -> SUBSET Replies]
  /\ executed \subseteq Ids

RegTyped ==
  /\ services \subseteq Methods /\ handlers \subseteq Methods /\ announced \subseteq Methods
  /\ reg \in Seq([type : {"json", "proto"}, method : Methods])
  /\ regpc \in {"start", "second", "third"}
  /\ inserting \in Methods \cup {NoMethod}

Elems(s) == {s[i] : i \in 1 .. Len(s)}

\* The frames between a peer and the answer to it.
Queued == UNION {Elems(sent[c]) \cup Elems(buf[c]) : c \in Conns}
Holding == {l \in Loops : loop[l].pc \in {"lock", "run", "await"}}
Flight == Queued \cup {loop[l].frame : l \in Holding}

IsService(m) == ServiceIn(m, services, reg)

\* Registration: where the main thread is, and what it announced is there.
RegInv ==
  /\ regpc = "start" => inserting = NoMethod
  /\ regpc = "second" =>
       /\ reg # <<>>
       /\ inserting = IF reg[1].type = "proto" THEN reg[1].method ELSE NoMethod
  /\ regpc = "third" =>
       reg # <<>> /\ reg[1].type = "proto" /\ reg[1].method \in handlers /\ inserting = NoMethod
  /\ \A i, j \in 1 .. Len(reg) : reg[i].type = reg[j].type /\ reg[i].method = reg[j].method => i = j
  /\ \A i \in 1 .. Len(reg) :
       reg[i].type = "proto" /\ reg[i].method \in handlers => i = 1 /\ regpc = "third"
  /\ \A m \in announced : IsService(m) \/ m \in handlers

\* A protobuf request is for a handler, and for one that is there if the peer
\* knows it.
FrameInv ==
  /\ ~IsService(EchoMethod)
  /\ \A c \in Conns : \A f \in Elems(todo[c]) : f.type = "proto" => ~IsService(f.method)
  /\ \A f \in Flight : f.type = "proto" => ~IsService(f.method) /\ (f.known => f.method \in handlers)

\* A successful answer is one to a request that was executed.
AnswerInv == \A c \in Conns : \A r \in replies[c] : r.code = "SUCCESS" => r.rid \in executed

SelfCalls(s) == {i \in 1 .. Len(s) : s[i].fault = "selfcall"}
SelfRids(s) == {s[i].rid : i \in SelfCalls(s)}
Once(s) == \A i, j \in SelfCalls(s) : s[i].rid = s[j].rid => i = j

SelfOf(r) == <<"self", r[1], r[2]>>

\* Requests of a peer whose handlers will call their own server.
Coming(c) == SelfRids(todo[c]) \cup SelfRids(sent[c]) \cup SelfRids(buf[c])
AtHand(l) == loop[l].pc \in {"lock", "run"} /\ loop[l].frame.fault = "selfcall"

Lined(c) ==
  /\ Once(todo[c]) /\ Once(sent[c]) /\ Once(buf[c])
  /\ SelfRids(todo[c]) \cap SelfRids(sent[c]) = {}
  /\ SelfRids(todo[c]) \cap SelfRids(buf[c]) = {}
  /\ SelfRids(sent[c]) \cap SelfRids(buf[c]) = {}
  /\ Coming(c) \subseteq {c} \X Nat

\* Each of them comes once ...
ComesOnce ==
  /\ \A c \in Conns : (\A f \in Elems(todo[c]) : f.rid \in {c} \X Nat) /\ Lined(c)
  /\ \A l \in Loops : AtHand(l) =>
       loop[l].frame.rid \in {loop[l].conn} \X Nat /\ loop[l].frame.rid \notin Coming(loop[l].conn)

\* ... and until it is handled, nothing is known of the call it will make.
NotYet(r) ==
  /\ \A f \in Flight : f.rid # SelfOf(r)
  /\ \A p \in replies[SelfConn] : p.rid # SelfOf(r)

SelfInv ==
  /\ ComesOnce
  /\ \A c \in Conns : \A r \in Coming(c) : NotYet(r)
  /\ \A l \in Loops : AtHand(l) => NotYet(loop[l].frame.rid)
  /\ SelfCallStarves

ServerInv == NetTyped /\ LoopTyped /\ RegTyped /\ RegInv /\ FrameInv /\ AnswerInv /\ DiscoveredFound /\ SelfInv

---------------------------------------------------------------------------
(* ... and the gateway.                                                    *)

\* How many requests a call has sent so far.
Counted(j) ==
  /\ j.pc = "resend" => j.resent
  /\ j.attempt <= MaxRetries
  /\ j.n <= 2 * j.attempt + (IF j.pc = "wait" THEN (IF j.resent THEN 2 ELSE 1)
                             ELSE IF j.pc = "resend" THEN 1 ELSE 0)

JobTyped ==
  /\ http \in [HttpConns -> Https]
  /\ job \in [Threads -> {NoJob} \cup Jobs]
  /\ \A g \in Threads : job[g] # NoJob => HttpLoopOf[job[g].c] = g /\ Counted(job[g])

\* A thread is in allow() when its job is.
Clocked == \A g \in Threads : (seen[g] # Outside) = (job[g].pc = "allow")

Serves(c) == job[HttpLoopOf[c]] # NoJob /\ job[HttpLoopOf[c]].c = c

\* No request of the HTTP client has gone to the server.
Untouched(c) ==
  /\ \A f \in Flight : f.rid[1] # c
  /\ \A r \in executed : r[1] # c

Has(q, p) == \E i \in 1 .. Len(q) : q[i] = p

OneEnd(q) == \A i, j \in 1 .. Len(q) : q[i] = "end" /\ q[j] = "end" => i = j

Early == {"clock", "allow", "route"}
Late == {"attempt", "resend", "wait"}

\* One request of an HTTP connection, from the wire to the status.
StatusOf(c) ==
  /\ OneEnd(http[c].buf) /\ OneEnd(http[c].wire)
  /\ ~(Has(http[c].buf, "end") /\ Has(http[c].wire, "end"))
  /\ Has(http[c].buf, "end") \/ Has(http[c].wire, "end") => ~Serves(c) /\ http[c].status = 0 /\ Untouched(c)
  /\ Serves(c) =>
       /\ http[c].status = 0
       /\ job[HttpLoopOf[c]].what \in {http[c].what, "nowhere"}
       /\ job[HttpLoopOf[c]].pc \in Early => Untouched(c)
       /\ job[HttpLoopOf[c]].pc \in Late => job[HttpLoopOf[c]].what = "echo"
  /\ http[c].status = 200 /\ http[c].what = "echo" => Sends(c) # {}
  /\ http[c].status \in {400, 404, 429} => Untouched(c)

\* A request that was not split is on the wire, being served or answered.
WholeOf(c) ==
  http[c].what # "none" /\ ~http[c].split =>
    \/ http[c].status = 0 /\ http[c].st = "open" /\ http[c].buf = <<>> /\ IsRequest(http[c].wire)
    \/ /\ http[c].wire = <<>> /\ Serves(c)
       /\ http[c].status = 0 /\ http[c].st = "open" /\ job[HttpLoopOf[c]].what = http[c].what
    \/ http[c].wire = <<>> /\ http[c].status # 0 /\ (http[c].status = 404 => http[c].what = "nowhere")

HttpInv == \A c \in HttpConns : StatusOf(c) /\ WholeOf(c)

GatewayInv == ServerInv /\ BucketInv /\ JobTyped /\ Clocked /\ HttpInv

---------------------------------------------------------------------------
(* The token bucket.                                                       *)

\* The tokens after a refill: at most the burst, and at most what the elapsed
\* time, which may be negative, adds.
LEMMA RefilledBounds ==
  ASSUME BucketTypeOK, NEW t \in Threads, seen[t] # Outside
  PROVE  /\ Refilled(t) \in Int
         /\ Refilled(t) <= Burst
         /\ Refilled(t) <= tokens + Rate * (seen[t] - last)
         /\ seen[t] \in 0 .. now
<1>1. tokens \in Int /\ last \in Int /\ seen[t] \in Nat /\ Burst \in Int /\ Rate \in Int /\ now \in Nat /\ seen[t] <= now
  BY BucketAssumption DEF BucketTypeOK, Outside
<1>2. Rate * (seen[t] - last) \in Int
  BY <1>1
<1>3. QED
  BY <1>1, <1>2 DEF Refilled

\* The arithmetic of one refill: the account of NoTokenTwice moves from the
\* old time to the new one.
LEMMA RefillKeepsAccount ==
  ASSUME BucketInv, NEW t \in Threads, seen[t] # Outside
  PROVE  admitted + Refilled(t) <= Burst + Rate * seen[t]
<1>1. tokens \in Int /\ last \in Int /\ seen[t] \in Int /\ Burst \in Int /\ Rate \in Int /\ admitted \in Int
  BY BucketAssumption DEF BucketInv, BucketTypeOK, Outside
<1>2. Refilled(t) \in Int /\ Refilled(t) <= tokens + Rate * (seen[t] - last)
  BY RefilledBounds DEF BucketInv
<1>3. Rate * (seen[t] - last) = Rate * seen[t] - Rate * last
  BY <1>1
<1>4. Rate * seen[t] \in Int /\ Rate * last \in Int
  BY <1>1
<1>5. admitted + tokens <= Burst + Rate * last
  BY DEF BucketInv, NoTokenTwice
<1>6. QED
  BY <1>1, <1>2, <1>3, <1>4, <1>5

\* More time allows more calls.
LEMMA RateMonotone ==
  ASSUME NEW a \in Nat, NEW b \in Nat, a <= b
  PROVE  Rate * a <= Rate * b
<1>1. Rate \in Nat
  BY BucketAssumption
<1>2. PICK d \in Nat : b = a + d
  BY b - a \in Nat, b = a + (b - a)
<1>3. Rate * b = Rate * a + Rate * d /\ Rate * d \in Nat /\ Rate * a \in Nat
  BY <1>1, <1>2
<1>4. QED
  BY <1>3

\* A call that gets a token keeps the invariant.
LEMMA AdmitKeeps ==
  ASSUME BucketInv, NEW t \in Threads, Admit(t)
  PROVE  BucketInv'
<1> USE DEF Outside
<1>1. /\ seen[t] # Outside
      /\ Refilled(t) \in Int
      /\ Refilled(t) <= Burst
      /\ Refilled(t) >= 1
      /\ seen[t] \in 0 .. now
  BY RefilledBounds DEF BucketInv, Admit
<1>2. admitted + Refilled(t) <= Burst + Rate * seen[t]
  BY RefillKeepsAccount, <1>1
<1>3. /\ now \in Nat /\ admitted \in Nat /\ Burst \in Nat /\ Rate \in Nat
      /\ seen \in [Threads -> Nat \cup {Outside}]
      /\ \A u \in Threads : seen[u] <= now
  BY BucketAssumption DEF BucketInv, BucketTypeOK
<1>4. /\ now' = now
      /\ last' = seen[t]
      /\ tokens' = Refilled(t) - 1
      /\ admitted' = admitted + 1
      /\ seen' = [seen EXCEPT ![t] = Outside]
  BY DEF Admit, Leave
<1>5. BucketTypeOK'
  BY <1>1, <1>3, <1>4 DEF BucketTypeOK
<1>6. Rate * seen[t] \in Int /\ Rate * now \in Int
  BY <1>1, <1>3
<1>7. NoTokenTwice'
  BY <1>1, <1>2, <1>3, <1>4, <1>6 DEF NoTokenTwice
<1>8. Rate * seen[t] <= Rate * now
  BY RateMonotone, <1>1, <1>3
<1>9. AdmitBound'
  BY <1>1, <1>2, <1>3, <1>4, <1>6, <1>8 DEF AdmitBound
<1>10. QED
  BY <1>5, <1>7, <1>9 DEF BucketInv

\* So does one that gets none.
LEMMA DenyKeeps ==
  ASSUME BucketInv, NEW t \in Threads, Deny(t)
  PROVE  BucketInv'
<1> USE DEF Outside
<1>1. /\ seen[t] # Outside
      /\ Refilled(t) \in Int
      /\ Refilled(t) <= Burst
      /\ seen[t] \in 0 .. now
  BY RefilledBounds DEF BucketInv, Deny
<1>2. admitted + Refilled(t) <= Burst + Rate * seen[t]
  BY RefillKeepsAccount, <1>1
<1>3. /\ now \in Nat /\ admitted \in Nat /\ Burst \in Nat /\ Rate \in Nat
      /\ seen \in [Threads -> Nat \cup {Outside}]
      /\ \A u \in Threads : seen[u] <= now
  BY BucketAssumption DEF BucketInv, BucketTypeOK
<1>4. /\ now' = now
      /\ last' = seen[t]
      /\ tokens' = Refilled(t)
      /\ admitted' = admitted
      /\ seen' = [seen EXCEPT ![t] = Outside]
  BY DEF Deny, Leave
<1>5. BucketTypeOK'
  BY <1>1, <1>3, <1>4 DEF BucketTypeOK
<1>6. NoTokenTwice'
  BY <1>2, <1>4 DEF NoTokenTwice
<1>7. AdmitBound'
  BY <1>4 DEF BucketInv, AdmitBound
<1>8. QED
  BY <1>5, <1>6, <1>7 DEF BucketInv

\* The clock and the reading of it leave the account alone.
LEMMA ClockKeeps ==
  ASSUME BucketInv, Tick \/ \E t \in Threads : ReadClock(t)
  PROVE  BucketInv'
<1>1. /\ now \in Nat /\ admitted \in Nat /\ Burst \in Nat /\ Rate \in Nat
      /\ seen \in [Threads -> Nat \cup {Outside}]
      /\ \A u \in Threads : seen[u] <= now
      /\ tokens \in Int /\ tokens <= Burst /\ last \in 0 .. now
  BY BucketAssumption DEF BucketInv, BucketTypeOK
<1>2. CASE Tick
  <2>1. BucketTypeOK'
    BY <1>1, <1>2 DEF Tick, BucketTypeOK, Outside
  <2>2. NoTokenTwice'
    BY <1>2 DEF Tick, BucketInv, NoTokenTwice
  <2>3. Rate * now <= Rate * (now + 1) /\ Rate * now \in Int /\ Rate * (now + 1) \in Int
    BY RateMonotone, <1>1
  <2>4. AdmitBound'
    BY <1>1, <1>2, <2>3 DEF Tick, BucketInv, AdmitBound
  <2>5. QED
    BY <2>1, <2>2, <2>4 DEF BucketInv
<1>3. ASSUME NEW t \in Threads, ReadClock(t)
      PROVE  BucketInv'
  <2>1. BucketTypeOK'
    BY <1>1, <1>3 DEF ReadClock, BucketTypeOK, Outside
  <2>2. NoTokenTwice' /\ AdmitBound'
    BY <1>3 DEF ReadClock, BucketInv, NoTokenTwice, AdmitBound
  <2>3. QED
    BY <2>1, <2>2 DEF BucketInv
<1>4. QED
  BY <1>2, <1>3

LEMMA BucketStart == BucketInit => BucketInv
  <1>1. Rate * 0 = 0
    BY BucketAssumption
  <1> QED
    BY BucketAssumption, <1>1
    DEF BucketInit, BucketInv, BucketTypeOK, AdmitBound, NoTokenTwice, Outside

LEMMA BucketStep == BucketInv /\ [BucketNext]_bucketVars => BucketInv'
  <1>1. ASSUME BucketInv, UNCHANGED bucketVars PROVE BucketInv'
    BY <1>1 DEF bucketVars, BucketInv, BucketTypeOK, AdmitBound, NoTokenTwice
  <1> QED
    BY <1>1, AdmitKeeps, DenyKeeps, ClockKeeps DEF BucketNext

\* TokenBucket::allow under any interleaving of its callers: types, and no
\* token given out twice.
THEOREM BucketSafe == BucketSpec => []BucketInv
  BY BucketStart, BucketStep, PTL DEF BucketSpec

\* The limiter's promise: at most Burst calls plus Rate per tick, for every
\* rate, burst and number of threads, with stale readings of the clock.
THEOREM AdmitBounded == BucketSpec => []AdmitBound
  <1>1. BucketInv => AdmitBound
    BY DEF BucketInv
  <1> QED
    BY <1>1, BucketSafe, PTL

---------------------------------------------------------------------------
(* Facts about sequences of frames.                                        *)

LEMMA ElemsOf ==
  ASSUME NEW S, NEW s \in Seq(S)
  PROVE  Elems(s) \subseteq S
  BY DEF Elems

LEMMA AppendElems ==
  ASSUME NEW S, NEW s \in Seq(S), NEW e \in S
  PROVE  Append(s, e) \in Seq(S) /\ Elems(Append(s, e)) = Elems(s) \cup {e}
  <1> DEFINE t == Append(s, e)
  <1>1. t \in Seq(S) /\ Len(t) = Len(s) + 1 /\ Len(s) \in Nat
    OBVIOUS
  <1>2. \A i \in 1 .. Len(s) : t[i] = s[i] /\ i \in 1 .. Len(t)
    OBVIOUS
  <1>3. t[Len(s) + 1] = e /\ Len(s) + 1 \in 1 .. Len(t)
    OBVIOUS
  <1>4. \A i \in 1 .. Len(t) : i \in 1 .. Len(s) \/ i = Len(s) + 1
    BY <1>1
  <1> HIDE DEF t
  <1> QED
    BY <1>1, <1>2, <1>3, <1>4 DEF Elems

LEMMA TailElems ==
  ASSUME NEW S, NEW s \in Seq(S), s # <<>>
  PROVE  /\ Tail(s) \in Seq(S) /\ Elems(Tail(s)) \subseteq Elems(s)
         /\ Head(s) \in Elems(s) /\ Head(s) \in S /\ Head(s) = s[1]
         /\ Len(s) \in Nat /\ Len(s) >= 1 /\ Len(Tail(s)) = Len(s) - 1
         /\ \A i \in 1 .. Len(Tail(s)) : i + 1 \in 1 .. Len(s) /\ Tail(s)[i] = s[i + 1]
         /\ \A j \in 1 .. Len(s) : j > 1 => j - 1 \in 1 .. Len(Tail(s)) /\ Tail(s)[j - 1] = s[j]
  <1> DEFINE t == Tail(s)
  <1>1. /\ t \in Seq(S) /\ Head(s) = s[1] /\ Len(s) \in Nat /\ Len(s) >= 1 /\ Len(t) = Len(s) - 1
        /\ \A i \in 1 .. Len(t) : i + 1 \in 1 .. Len(s) /\ t[i] = s[i + 1]
        /\ \A j \in 1 .. Len(s) : j > 1 => j - 1 \in 1 .. Len(t) /\ t[j - 1] = s[j]
    OBVIOUS
  <1>2. 1 \in 1 .. Len(s) /\ s[1] \in S
    BY <1>1
  <1> HIDE DEF t
  <1>3. Elems(t) \subseteq Elems(s) /\ s[1] \in Elems(s)
    BY <1>1, <1>2 DEF Elems
  <1> QED
    BY <1>1, <1>2, <1>3 DEF t

\* A sequence is cut in two.
LEMMA CutElems ==
  ASSUME NEW S, NEW s \in Seq(S), NEW k \in 0 .. Len(s)
  PROVE  /\ SubSeq(s, 1, k) \in Seq(S) /\ Len(SubSeq(s, 1, k)) = k
         /\ \A i \in 1 .. k : i \in 1 .. Len(s) /\ SubSeq(s, 1, k)[i] = s[i]
         /\ SubSeq(s, k + 1, Len(s)) \in Seq(S) /\ Len(SubSeq(s, k + 1, Len(s))) = Len(s) - k
         /\ \A i \in 1 .. Len(s) - k : i + k \in 1 .. Len(s) /\ SubSeq(s, k + 1, Len(s))[i] = s[i + k]
         /\ Elems(SubSeq(s, 1, k)) \subseteq Elems(s)
         /\ Elems(SubSeq(s, k + 1, Len(s))) \subseteq Elems(s)
         /\ k < Len(s) => SubSeq(s, k + 1, Len(s)) # <<>>
         /\ Len(s) \in Nat
  <1> DEFINE a == SubSeq(s, 1, k)
             b == SubSeq(s, k + 1, Len(s))
  <1>1. Len(s) \in Nat /\ k \in Nat /\ k <= Len(s)
    OBVIOUS
  <1>2. a \in Seq(S) /\ Len(a) = k /\ \A i \in 1 .. k : i \in 1 .. Len(s) /\ a[i] = s[i]
    BY <1>1
  <1>3. b \in Seq(S) /\ Len(b) = Len(s) - k /\ \A i \in 1 .. Len(s) - k : i + k \in 1 .. Len(s) /\ b[i] = s[i + k]
    BY <1>1
  <1> HIDE DEF a, b
  <1>4. k < Len(s) => b # <<>>
    <2>1. k < Len(s) => Len(b) # 0
      BY <1>1, <1>3
    <2> QED
      BY <2>1
  <1>5. Elems(a) \subseteq Elems(s) /\ Elems(b) \subseteq Elems(s)
    <2>1. \A i \in 1 .. Len(a) : \E j \in 1 .. Len(s) : a[i] = s[j]
      BY <1>2
    <2>2. \A i \in 1 .. Len(b) : \E j \in 1 .. Len(s) : b[i] = s[j]
      BY <1>3
    <2> QED
      BY <2>1, <2>2 DEF Elems
  <1> QED
    BY <1>1, <1>2, <1>3, <1>4, <1>5 DEF a, b

LEMMA ConcatElems ==
  ASSUME NEW S, NEW s \in Seq(S), NEW t \in Seq(S)
  PROVE  /\ s \o t \in Seq(S) /\ Len(s \o t) = Len(s) + Len(t) /\ Len(s) \in Nat /\ Len(t) \in Nat
         /\ \A i \in 1 .. Len(s) : i \in 1 .. Len(s \o t) /\ (s \o t)[i] = s[i]
         /\ \A k \in 1 .. Len(t) : Len(s) + k \in 1 .. Len(s \o t) /\ (s \o t)[Len(s) + k] = t[k]
         /\ \A i \in 1 .. Len(s \o t) :
              i \in 1 .. Len(s) \/ \E k \in 1 .. Len(t) : i = Len(s) + k
         /\ Elems(s \o t) = Elems(s) \cup Elems(t)
  <1> DEFINE u == s \o t
  <1>1. u \in Seq(S) /\ Len(u) = Len(s) + Len(t) /\ Len(s) \in Nat /\ Len(t) \in Nat
    OBVIOUS
  <1>2. \A i \in 1 .. Len(u) : i \in 1 .. Len(s) \/ i - Len(s) \in 1 .. Len(t)
    BY <1>1
  <1>3. \A i \in 1 .. Len(u) : i = Len(s) + (i - Len(s))
    BY <1>1
  <1>4. \A i \in 1 .. Len(s) : i \in 1 .. Len(u) /\ u[i] = s[i]
    BY <1>1
  <1>5. \A k \in 1 .. Len(t) : Len(s) + k \in 1 .. Len(u) /\ u[Len(s) + k] = t[k]
    BY <1>1
  <1> HIDE DEF u
  <1>6. \A i \in 1 .. Len(u) : i \in 1 .. Len(s) \/ \E k \in 1 .. Len(t) : i = Len(s) + k
    BY <1>2, <1>3
  <1>7. Elems(u) = Elems(s) \cup Elems(t)
    <2>1. Elems(s) \subseteq Elems(u)
      BY <1>4 DEF Elems
    <2>2. Elems(t) \subseteq Elems(u)
      BY <1>5 DEF Elems
    <2>3. ASSUME NEW x \in Elems(u) PROVE x \in Elems(s) \cup Elems(t)
      <3>1. PICK i \in 1 .. Len(u) : x = u[i]
        BY DEF Elems
      <3>2. CASE i \in 1 .. Len(s)
        BY <1>4, <3>1, <3>2 DEF Elems
      <3>3. CASE \E k \in 1 .. Len(t) : i = Len(s) + k
        BY <1>5, <3>1, <3>3 DEF Elems
      <3> QED
        BY <1>6, <3>2, <3>3
    <2> QED
      BY <2>1, <2>2, <2>3
  <1> QED
    BY <1>1, <1>4, <1>5, <1>6, <1>7 DEF u

---------------------------------------------------------------------------
(* Types of the server.                                                    *)

LEMMA Constants ==
  /\ LoopOf \in [Conns -> Loops] /\ SelfConn \in Conns /\ GwConn \in Conns
  /\ NoMethod \notin Methods /\ NoLoop \notin Loops /\ EchoMethod \in Methods
  /\ HttpLoopOf \in [HttpConns -> Threads] /\ MaxRetries \in Nat
  /\ HttpConns \cap Conns = {} /\ "self" \notin HttpConns /\ "self" \notin Conns
  BY ServerAssumption, GatewayAssumption

\* What a step does to the server: nothing, a request of the gateway, or a step
\* of its own.
LEMMA ServerView ==
  ASSUME [Next]_vars
  PROVE  \/ UNCHANGED serverVars
         \/ \E g \in Threads : job[g].pc \in {"attempt", "resend"} /\ SendRequest(g)
         \/ ServerNext
  <1>1. CASE UNCHANGED vars
    BY <1>1 DEF vars
  <1>2. CASE \E c \in HttpConns : \E k \in 1 .. Len(http[c].wire) : HttpRead(HttpLoopOf[c], c, k)
    BY <1>2 DEF HttpRead
  <1>3. ASSUME NEW g \in Threads, GatewayStep(g)
        PROVE  UNCHANGED serverVars \/ (job[g].pc \in {"attempt", "resend"} /\ SendRequest(g))
    BY <1>3 DEF GatewayStep, AllowBegins, Allowed, RateLimited, NotFound, HandleLocally, BadJson,
                HandleEcho, Attempt, NoConnection, CircuitOpen, EchoDone, EchoBackoff, Resend,
                EchoFails, EchoTimesOut
  <1> QED
    BY <1>1, <1>2, <1>3 DEF Next

\* A frame as it goes out.
Out(f) == [f EXCEPT !.known = f.method \in announced]

LEMMA OutIs ==
  ASSUME NEW f \in Frames
  PROVE  /\ Out(f) \in Frames /\ Out(f).rid = f.rid /\ Out(f).type = f.type /\ Out(f).method = f.method
         /\ Out(f).fault = f.fault /\ Out(f).known = (f.method \in announced)
  <1> DEFINE b == f.method \in announced
  <1>1. b \in BOOLEAN
    OBVIOUS
  <1> HIDE DEF b
  <1>2. Out(f) = [f EXCEPT !.known = b]
    BY DEF Out, b
  <1>3. /\ Out(f) \in Frames /\ Out(f).rid = f.rid /\ Out(f).type = f.type /\ Out(f).method = f.method
        /\ Out(f).fault = f.fault /\ Out(f).known = b
    BY <1>1, <1>2 DEF Frames
  <1> QED
    BY <1>3 DEF b

\* The request that the gateway sends.
Ask(g) ==
  [rid |-> <<job[g].c, job[g].n + 1>>, type |-> "proto", method |-> EchoMethod, fault |-> "none", known |-> FALSE]

LEMMA AskIs ==
  ASSUME JobTyped, NEW g \in Threads, job[g].pc \in {"attempt", "resend"}
  PROVE  /\ job[g] \in Jobs /\ job[g].c \in HttpConns
         /\ Ask(g) \in Frames /\ Ask(g).rid = <<job[g].c, job[g].n + 1>> /\ Ask(g).type = "proto"
         /\ Ask(g).method = EchoMethod /\ Ask(g).fault = "none"
  <1>1. job[g] \in {NoJob} \cup Jobs
    BY DEF JobTyped
  <1>2. job[g] \in Jobs
    BY <1>1 DEF NoJob
  <1>3. job[g].c \in HttpConns /\ job[g].n \in Nat
    BY <1>2 DEF Jobs
  <1>4. <<job[g].c, job[g].n + 1>> \in Ids
    BY <1>3 DEF Ids
  <1> QED
    BY <1>2, <1>3, <1>4, Constants DEF Ask, Frames

\* The request that a handler sends to its own server.
Own(l) == [loop[l].frame EXCEPT !.rid = SelfRid(loop[l].frame), !.fault = "none"]

\* A loop that has a frame.
LEMMA BusyIs ==
  ASSUME LoopTyped, NEW l \in Loops, loop[l].pc \in {"lock", "run", "await"}
  PROVE  /\ loop[l] \in Busy /\ loop[l].conn \in Conns /\ loop[l].frame \in Frames
         /\ loop[l].frame.rid \in Ids
  <1>1. loop[l] \in LoopStates
    BY DEF LoopTyped
  <1>2. loop[l] \in Busy
    BY <1>1 DEF LoopStates, Idle, Busy
  <1>3. loop[l].conn \in Conns /\ loop[l].frame \in Frames
    BY <1>2 DEF Busy
  <1> QED
    BY <1>2, <1>3 DEF Frames

LEMMA ParseIs ==
  ASSUME LoopTyped, NEW l \in Loops, loop[l].pc = "parse"
  PROVE  loop[l].conn \in Conns
  <1>1. loop[l] \in LoopStates
    BY DEF LoopTyped
  <1> QED
    BY <1>1 DEF LoopStates, Idle, Busy

\* A step puts one frame at the end of what is on its way.
LEMMA SentIs ==
  ASSUME NetTyped, NEW c \in Conns, NEW f \in Frames, sent' = Sent(sent, c, f)
  PROVE  /\ sent' \in [Conns -> Seq(Frames)]
         /\ sent'[c] = Append(sent[c], Out(f))
         /\ sent'[c] # <<>>
         /\ Elems(sent'[c]) = Elems(sent[c]) \cup {Out(f)}
         /\ \A d \in Conns : d # c => sent'[d] = sent[d]
  <1>1. sent \in [Conns -> Seq(Frames)] /\ Out(f) \in Frames
    BY OutIs DEF NetTyped
  <1>2. sent' = [sent EXCEPT ![c] = Append(sent[c], Out(f))]
    BY DEF Sent, Out
  <1>3. sent[c] \in Seq(Frames)
    BY <1>1
  <1>4. Append(sent[c], Out(f)) \in Seq(Frames) /\ Elems(Append(sent[c], Out(f))) = Elems(sent[c]) \cup {Out(f)}
    BY <1>1, <1>3, AppendElems
  <1>5. Append(sent[c], Out(f)) # <<>>
    BY <1>1, <1>3
  <1> QED
    BY <1>1, <1>2, <1>4, <1>5

LEMMA OwnIs ==
  ASSUME LoopTyped, SelfInv, NEW l \in Loops, loop[l].pc = "run", loop[l].frame.fault = "selfcall"
  PROVE  /\ Own(l) \in Frames /\ Own(l).rid = SelfOf(loop[l].frame.rid) /\ Own(l).fault = "none"
         /\ Own(l).type = loop[l].frame.type /\ Own(l).method = loop[l].frame.method
         /\ loop[l].frame.rid \in {loop[l].conn} \X Nat
  <1>1. loop[l].frame \in Frames /\ loop[l].conn \in Conns
    BY BusyIs
  <1>2. loop[l].frame.rid \in {loop[l].conn} \X Nat
    BY DEF SelfInv, ComesOnce, AtHand
  <1>3. SelfOf(loop[l].frame.rid) \in Ids
    BY <1>1, <1>2 DEF SelfOf, Ids
  <1> DEFINE f == loop[l].frame
  <1>4. SelfRid(f) = SelfOf(f.rid)
    BY DEF SelfRid, SelfOf
  <1>5. Own(l) = [f EXCEPT !.rid = SelfOf(f.rid), !.fault = "none"]
    BY <1>4 DEF Own
  <1> HIDE DEF f
  <1>6. f \in Frames /\ SelfOf(f.rid) \in Ids
    BY <1>1, <1>3 DEF f
  <1>7. /\ Own(l) \in Frames /\ Own(l).rid = SelfOf(f.rid) /\ Own(l).fault = "none"
        /\ Own(l).type = f.type /\ Own(l).method = f.method
    BY <1>5, <1>6 DEF Frames
  <1> QED
    BY <1>2, <1>7 DEF f

\* A frame is taken from the buffer.
LEMMA TakenIs ==
  ASSUME NetTyped, NEW c \in Conns, buf[c] # <<>>, buf' = [buf EXCEPT ![c] = Tail(@)]
  PROVE  /\ buf' \in [Conns -> Seq(Frames)]
         /\ buf'[c] = Tail(buf[c])
         /\ Elems(buf'[c]) \subseteq Elems(buf[c])
         /\ Head(buf[c]) \in Elems(buf[c]) /\ Head(buf[c]) \in Frames
         /\ \A d \in Conns : d # c => buf'[d] = buf[d]
  <1>1. buf \in [Conns -> Seq(Frames)] /\ buf[c] \in Seq(Frames)
    BY DEF NetTyped
  <1>2. Tail(buf[c]) \in Seq(Frames) /\ Elems(Tail(buf[c])) \subseteq Elems(buf[c])
          /\ Head(buf[c]) \in Elems(buf[c]) /\ Head(buf[c]) \in Frames
    BY <1>1, TailElems
  <1>3. buf' = [buf EXCEPT ![c] = Tail(buf[c])]
    OBVIOUS
  <1> QED
    BY <1>1, <1>2, <1>3

\* A read event.
LEMMA ReadIs ==
  ASSUME NetTyped, NEW l \in Loops, NEW c \in Conns, NEW p \in BOOLEAN, NEW k \in 0 .. Len(sent[c]),
         ReadEvent(l, c, k, p)
  PROVE  /\ buf' \in [Conns -> Seq(Frames)] /\ sent' \in [Conns -> Seq(Frames)]
         /\ buf'[c] = buf[c] \o SubSeq(sent[c], 1, k)
         /\ sent'[c] = SubSeq(sent[c], k + 1, Len(sent[c]))
         /\ Elems(buf'[c]) \subseteq Elems(buf[c]) \cup Elems(sent[c])
         /\ Elems(sent'[c]) \subseteq Elems(sent[c])
         /\ p => sent'[c] # <<>>
         /\ \A d \in Conns : d # c => buf'[d] = buf[d] /\ sent'[d] = sent[d]
  <1>1. buf \in [Conns -> Seq(Frames)] /\ sent \in [Conns -> Seq(Frames)]
    BY DEF NetTyped
  <1>2. buf[c] \in Seq(Frames) /\ sent[c] \in Seq(Frames)
    BY <1>1
  <1> DEFINE a == SubSeq(sent[c], 1, k)
             b == SubSeq(sent[c], k + 1, Len(sent[c]))
             u == buf[c] \o a
  <1>3. /\ a \in Seq(Frames) /\ b \in Seq(Frames) /\ Elems(a) \subseteq Elems(sent[c])
        /\ Elems(b) \subseteq Elems(sent[c]) /\ (k < Len(sent[c]) => b # <<>>)
    BY <1>2, CutElems
  <1>4. u \in Seq(Frames) /\ Elems(u) = Elems(buf[c]) \cup Elems(a)
    <2> HIDE DEF a
    <2> QED
      BY <1>2, <1>3, ConcatElems
  <1>5. buf' = [buf EXCEPT ![c] = u] /\ sent' = [sent EXCEPT ![c] = b] /\ (p => k < Len(sent[c]))
    BY DEF ReadEvent
  <1>6. buf'[c] = u /\ sent'[c] = b
    BY <1>1, <1>5
  <1> HIDE DEF a, b, u
  <1>7. /\ buf' \in [Conns -> Seq(Frames)] /\ sent' \in [Conns -> Seq(Frames)]
        /\ Elems(buf'[c]) \subseteq Elems(buf[c]) \cup Elems(sent[c])
        /\ Elems(sent'[c]) \subseteq Elems(sent[c])
        /\ p => sent'[c] # <<>>
        /\ \A d \in Conns : d # c => buf'[d] = buf[d] /\ sent'[d] = sent[d]
    BY <1>1, <1>3, <1>4, <1>5, <1>6
  <1> QED
    BY <1>6, <1>7 DEF a, b, u

\* A peer sends its next frame.
LEMMA PeerIs ==
  ASSUME NetTyped, NEW c \in Conns, PeerSends(c)
  PROVE  /\ todo[c] \in Seq(Frames) /\ todo[c] # <<>>
         /\ Head(todo[c]) \in Frames /\ Head(todo[c]) \in Elems(todo[c])
         /\ todo' \in [Conns -> Seq(Frames)] /\ todo'[c] = Tail(todo[c])
         /\ Elems(todo'[c]) \subseteq Elems(todo[c])
         /\ \A d \in Conns : d # c => todo'[d] = todo[d]
         /\ sent' = Sent(sent, c, Head(todo[c]))
  <1>1. todo \in [Conns -> Seq(Frames)] /\ todo[c] \in Seq(Frames) /\ todo[c] # <<>>
    BY DEF NetTyped, PeerSends
  <1>2. Tail(todo[c]) \in Seq(Frames) /\ Elems(Tail(todo[c])) \subseteq Elems(todo[c])
          /\ Head(todo[c]) \in Elems(todo[c]) /\ Head(todo[c]) \in Frames
    BY <1>1, TailElems
  <1>3. todo' = [todo EXCEPT ![c] = Tail(todo[c])] /\ sent' = Sent(sent, c, Head(todo[c]))
    BY DEF PeerSends
  <1> QED
    BY <1>1, <1>2, <1>3

LEMMA NetStep == NetTyped /\ LoopTyped /\ JobTyped /\ SelfInv /\ [Next]_vars => NetTyped'
  <1> SUFFICES ASSUME NetTyped, LoopTyped, JobTyped, SelfInv, [Next]_vars PROVE NetTyped'
    OBVIOUS
  <1>0. /\ todo \in [Conns -> Seq(Frames)] /\ sent \in [Conns -> Seq(Frames)] /\ buf \in [Conns -> Seq(Frames)]
        /\ part \in [Conns -> BOOLEAN] /\ conn \in [Conns -> {"open", "shut", "closed"}]
        /\ \A c \in Conns : part[c] => sent[c] # <<>>
    BY DEF NetTyped
  <1>1. ASSUME UNCHANGED netVars PROVE NetTyped'
    BY <1>0, <1>1 DEF netVars, NetTyped
  <1>2. ASSUME NEW c \in Conns, NEW f \in Frames, sent' = Sent(sent, c, f), UNCHANGED <<todo, part, buf, conn>>
        PROVE  NetTyped'
    <2>1. /\ sent' \in [Conns -> Seq(Frames)] /\ sent'[c] # <<>>
          /\ \A d \in Conns : d # c => sent'[d] = sent[d]
      BY <1>2, SentIs
    <2> QED
      BY <1>0, <1>2, <2>1 DEF NetTyped
  <1>3. ASSUME NEW g \in Threads, job[g].pc \in {"attempt", "resend"}, SendRequest(g) PROVE NetTyped'
    <2>1. Ask(g) \in Frames /\ GwConn \in Conns
      BY <1>3, AskIs, Constants
    <2>2. sent' = Sent(sent, GwConn, Ask(g)) /\ UNCHANGED <<todo, part, buf, conn>>
      BY <1>3 DEF SendRequest, Ask
    <2> QED
      BY <1>2, <2>1, <2>2
  <1>4. ASSUME NEW c \in Conns, PeerSends(c) PROVE NetTyped'
    <2>1. todo' \in [Conns -> Seq(Frames)] /\ Head(todo[c]) \in Frames /\ sent' = Sent(sent, c, Head(todo[c]))
      BY <1>4, PeerIs
    <2>2. /\ sent' \in [Conns -> Seq(Frames)] /\ sent'[c] # <<>>
          /\ \A d \in Conns : d # c => sent'[d] = sent[d]
      BY <2>1, SentIs
    <2>3. UNCHANGED <<part, buf, conn>>
      BY <1>4 DEF PeerSends
    <2> QED
      BY <1>0, <2>1, <2>2, <2>3 DEF NetTyped
  <1>5. ASSUME NEW c \in Conns, OnConnectionClosed(c) PROVE NetTyped'
    BY <1>0, <1>5 DEF NetTyped, OnConnectionClosed
  <1>6. ASSUME NEW l \in Loops, NEW c \in Conns, NEW p \in BOOLEAN, NEW k \in 0 .. Len(sent[c]), ReadEvent(l, c, k, p)
        PROVE  NetTyped'
    <2>1. /\ buf' \in [Conns -> Seq(Frames)] /\ sent' \in [Conns -> Seq(Frames)]
          /\ p => sent'[c] # <<>>
          /\ \A d \in Conns : d # c => sent'[d] = sent[d]
      BY <1>6, ReadIs
    <2>2. part' = [part EXCEPT ![c] = p] /\ UNCHANGED <<todo, conn>>
      BY <1>6 DEF ReadEvent
    <2> QED
      BY <1>0, <2>1, <2>2 DEF NetTyped
  <1>7. ASSUME NEW l \in Loops, Undecodable(l) \/ Decode(l) PROVE NetTyped'
    <2> DEFINE c == loop[l].conn
    <2>1. c \in Conns /\ buf[c] # <<>> /\ buf' = [buf EXCEPT ![c] = Tail(@)]
            /\ (conn' = conn \/ conn' = [conn EXCEPT ![c] = "shut"]) /\ UNCHANGED <<todo, sent, part>>
      BY <1>7, ParseIs DEF Undecodable, Decode, Parsing, Processable
    <2> HIDE DEF c
    <2>2. buf' \in [Conns -> Seq(Frames)]
      BY <2>1, TakenIs
    <2> QED
      BY <1>0, <2>1, <2>2 DEF NetTyped
  <1>8. ASSUME NEW l \in Loops, UnknownType(l) \/ OverLimit(l) PROVE NetTyped'
    <2> DEFINE c == loop[l].conn
    <2>1. c \in Conns
      BY <1>8, BusyIs, ParseIs DEF UnknownType, OverLimit, Parsing
    <2>2. conn' = [conn EXCEPT ![c] = "shut"] /\ UNCHANGED <<todo, sent, part, buf>>
      BY <1>8 DEF UnknownType, OverLimit
    <2> HIDE DEF c
    <2> QED
      BY <1>0, <2>1, <2>2 DEF NetTyped
  <1>9. ASSUME NEW l \in Loops, HandlerCalls(l) PROVE NetTyped'
    <2>1. loop[l].pc = "run" /\ loop[l].frame.fault = "selfcall"
      BY <1>9 DEF HandlerCalls, Running
    <2>2. Own(l) \in Frames /\ SelfConn \in Conns
      BY <2>1, OwnIs, Constants
    <2>3. sent' = Sent(sent, SelfConn, Own(l)) /\ UNCHANGED <<todo, part, buf, conn>>
      BY <1>9 DEF HandlerCalls, Own
    <2> QED
      BY <1>2, <2>2, <2>3
  <1>10. ASSUME NEW l \in Loops, LoopStep(l), ~OverLimit(l), ~Undecodable(l), ~Decode(l),
                ~UnknownType(l), ~HandlerCalls(l)
         PROVE  UNCHANGED netVars
    BY <1>10 DEF LoopStep, Incomplete, Lock, Backoff, OnRpcRequst, ServiceThrows, OnProtoRequest,
                 LookupCrashes, AwaitEnds, Respond
  <1>11. ASSUME AnnounceMethod \/ RegisterMethod \/ RegisterProtoHandler \/ Inserted \/ AnnounceProto
         PROVE  UNCHANGED netVars
    BY <1>11 DEF AnnounceMethod, RegisterMethod, RegisterProtoHandler, Inserted, AnnounceProto
  <1>12. UNCHANGED serverVars => UNCHANGED netVars
    BY DEF serverVars
  <1>13. CASE ServerNext
    BY <1>1, <1>4, <1>5, <1>6, <1>7, <1>8, <1>9, <1>10, <1>11, <1>13 DEF ServerNext
  <1> QED
    BY <1>1, <1>3, <1>12, <1>13, ServerView

\* A loop answers a request: what the code allows it to say.
Answered(l) ==
  \E code \in Codes, ran \in BOOLEAN :
    /\ loop[l].pc \in {"run", "await"}
    /\ Respond(l, code, ran)
    /\ code = "SUCCESS" => ran
    /\ code = "SERVICE_NOT_FOUND" =>
         \/ loop[l].frame.type = "json"
         \/ loop[l].frame.type = "proto" /\ Misses(loop[l].frame)

LEMMA AnsweredBy ==
  ASSUME NEW l \in Loops, Backoff(l) \/ OnRpcRequst(l) \/ OnProtoRequest(l) \/ AwaitEnds(l)
  PROVE  Answered(l)
  <1>1. CASE Backoff(l)
    BY <1>1 DEF Backoff, Answered, Running, Codes
  <1>2. CASE OnRpcRequst(l)
    BY <1>2 DEF OnRpcRequst, Answered, Running, Codes
  <1>3. CASE OnProtoRequest(l)
    BY <1>3 DEF OnProtoRequest, Answered, Running, Codes
  <1>4. CASE AwaitEnds(l)
    BY <1>4 DEF AwaitEnds, Answered, Codes
  <1> QED
    BY <1>1, <1>2, <1>3, <1>4

\* What the answer changes.
LEMMA RespondIs ==
  ASSUME LoopTyped, NEW l \in Loops, loop[l].pc \in {"run", "await"},
         NEW code \in Codes, NEW ran \in BOOLEAN, Respond(l, code, ran)
  PROVE  /\ replies' \in [Conns -> SUBSET Replies]
         /\ \A c \in Conns : \A r \in replies'[c] : r \notin replies[c] =>
              /\ r.rid = loop[l].frame.rid /\ r.code = code
              /\ r.type = loop[l].frame.type /\ r.known = loop[l].frame.known
              /\ r.raced = (inserting \notin {NoMethod, loop[l].frame.method})
         /\ executed \subseteq executed' /\ executed' \subseteq executed \cup {loop[l].frame.rid}
         /\ ran => loop[l].frame.rid \in executed'
         /\ executed' \subseteq Ids
         /\ lock' = NoLoop
         /\ loop' = [loop EXCEPT ![l] = [pc |-> "parse", conn |-> loop[l].conn]]
         /\ UNCHANGED <<netVars, regVars, up>>
  <1> DEFINE f == loop[l].frame
             c0 == loop[l].conn
             b == inserting \notin {NoMethod, f.method}
             new == [rid |-> f.rid, code |-> code, type |-> f.type, known |-> f.known, raced |-> b]
  <1>1. f \in Frames /\ c0 \in Conns /\ f.rid \in Ids
    BY BusyIs
  <1>2. b \in BOOLEAN
    OBVIOUS
  <1>3. replies' = IF conn[c0] # "open" THEN replies ELSE [replies EXCEPT ![c0] = replies[c0] \cup {new}]
    BY DEF Respond, Responded
  <1>4. executed' = IF ran THEN executed \cup {f.rid} ELSE executed
    BY DEF Respond
  <1>5. /\ lock' = NoLoop /\ UNCHANGED <<netVars, regVars, up>>
        /\ loop' = [loop EXCEPT ![l] = [pc |-> "parse", conn |-> loop[l].conn]]
    BY DEF Respond, Handled
  <1>6. replies \in [Conns -> SUBSET Replies] /\ executed \subseteq Ids
    BY DEF LoopTyped
  <1> HIDE DEF f, c0, b
  <1>7. new \in Replies
    BY <1>1, <1>2 DEF Replies, Frames
  <1>8. new.rid = f.rid /\ new.code = code /\ new.type = f.type /\ new.known = f.known /\ new.raced = b
    OBVIOUS
  <1> HIDE DEF new
  <1>9. replies' \in [Conns -> SUBSET Replies]
    BY <1>1, <1>3, <1>6, <1>7
  <1>10. \A c \in Conns : \A r \in replies'[c] : r \notin replies[c] => r = new
    BY <1>1, <1>3, <1>6
  <1>11. /\ executed \subseteq executed' /\ executed' \subseteq executed \cup {f.rid}
         /\ ran => f.rid \in executed'
         /\ executed' \subseteq Ids
    BY <1>1, <1>4, <1>6
  <1>12. \A c \in Conns : \A r \in replies'[c] : r \notin replies[c] =>
           r.rid = f.rid /\ r.code = code /\ r.type = f.type /\ r.known = f.known /\ r.raced = b
    BY <1>8, <1>10
  <1> QED
    BY <1>5, <1>9, <1>11, <1>12 DEF f, b

LEMMA LoopTypedStep == NetTyped /\ LoopTyped /\ [Next]_vars => LoopTyped'
  <1> SUFFICES ASSUME NetTyped, LoopTyped, [Next]_vars PROVE LoopTyped'
    OBVIOUS
  <1>0. /\ loop \in [Loops -> LoopStates]
        /\ \A l \in Loops : loop[l].pc # "idle" => LoopOf[loop[l].conn] = l
        /\ lock \in Loops \cup {NoLoop}
        /\ \A l \in Loops : loop[l].pc \in {"run", "await"} => lock = l
        /\ replies \in [Conns -> SUBSET Replies]
        /\ executed \subseteq Ids
    BY DEF LoopTyped
  <1>1. ASSUME UNCHANGED <<loop, lock, replies, executed>> PROVE LoopTyped'
    BY <1>0, <1>1 DEF LoopTyped
  \* A loop goes to another state and lets the lock go, or leaves it alone.
  <1>2. ASSUME NEW l \in Loops, NEW s \in LoopStates, loop' = [loop EXCEPT ![l] = s],
               s.pc # "idle" => LoopOf[s.conn] = l,
               lock' \in Loops \cup {NoLoop},
               lock' # lock => \A k \in Loops : k # l => loop[k].pc \notin {"run", "await"},
               s.pc \in {"run", "await"} => lock' = l,
               replies' \in [Conns -> SUBSET Replies], executed' \subseteq Ids
        PROVE  LoopTyped'
    <2>1. loop' \in [Loops -> LoopStates] /\ loop'[l] = s /\ \A k \in Loops : k # l => loop'[k] = loop[k]
      BY <1>0, <1>2
    <2>2. \A k \in Loops : loop'[k].pc # "idle" => LoopOf[loop'[k].conn] = k
      BY <1>0, <1>2, <2>1
    <2>3. \A k \in Loops : loop'[k].pc \in {"run", "await"} => lock' = k
      BY <1>0, <1>2, <2>1
    <2> QED
      BY <1>2, <2>1, <2>2, <2>3 DEF LoopTyped
  <1>3. Idle \in LoopStates /\ Idle.pc = "idle"
    BY DEF LoopStates, Idle
  <1>4. ASSUME NEW c \in Conns
        PROVE  [pc |-> "parse", conn |-> c] \in LoopStates
    BY DEF LoopStates
  <1>5. ASSUME NEW c \in Conns, NEW f \in Frames, NEW p \in {"lock", "run", "await"}
        PROVE  [pc |-> p, conn |-> c, frame |-> f] \in LoopStates
    BY DEF LoopStates, Busy
  <1>6. ASSUME NEW l \in Loops, loop[l].pc \in {"lock", "run", "await"}, NEW p \in {"lock", "run", "await"},
               loop' = [loop EXCEPT ![l].pc = p]
        PROVE  \E s \in LoopStates : loop' = [loop EXCEPT ![l] = s] /\ s.pc = p /\ LoopOf[s.conn] = l
    <2>1. loop[l] \in Busy /\ LoopOf[loop[l].conn] = l
      BY <1>0, <1>6, BusyIs
    <2> DEFINE s == [loop[l] EXCEPT !.pc = p]
    <2>2. s \in Busy /\ s.pc = p /\ s.conn = loop[l].conn
      BY <1>6, <2>1 DEF Busy
    <2>3. loop' = [loop EXCEPT ![l] = s]
      BY <1>0, <1>6
    <2> HIDE DEF s
    <2> QED
      BY <2>1, <2>2, <2>3 DEF LoopStates
  <1>7. ASSUME NEW l \in Loops, NEW c \in Conns, NEW p \in BOOLEAN, NEW k \in 0 .. Len(sent[c]), ReadEvent(l, c, k, p)
        PROVE  LoopTyped'
    <2>1. /\ loop' = [loop EXCEPT ![l] = [pc |-> "parse", conn |-> c]] /\ LoopOf[c] = l
          /\ UNCHANGED <<lock, replies, executed>>
      BY <1>7 DEF ReadEvent
    <2> QED
      BY <1>0, <1>2, <1>4, <2>1
  <1>8. ASSUME NEW l \in Loops, Incomplete(l) \/ OverLimit(l) \/ Undecodable(l) PROVE LoopTyped'
    <2>1. loop' = [loop EXCEPT ![l] = Idle] /\ UNCHANGED <<lock, replies, executed>>
      BY <1>8 DEF Incomplete, OverLimit, Undecodable
    <2> QED
      BY <1>0, <1>2, <1>3, <2>1
  <1>9. ASSUME NEW l \in Loops, Decode(l) PROVE LoopTyped'
    <2> DEFINE c == loop[l].conn
    <2>1. loop[l].pc = "parse" /\ c \in Conns /\ buf[c] # <<>> /\ LoopOf[c] = l
      BY <1>0, <1>9, ParseIs DEF Decode, Parsing, Processable
    <2>2. /\ loop' = [loop EXCEPT ![l] = [pc |-> "lock", conn |-> c, frame |-> Head(buf[c])]]
          /\ buf' = [buf EXCEPT ![c] = Tail(@)] /\ UNCHANGED <<lock, replies, executed>>
      BY <1>9 DEF Decode
    <2> HIDE DEF c
    <2>3. Head(buf[c]) \in Frames
      BY <2>1, <2>2, TakenIs
    <2> QED
      BY <1>0, <1>2, <1>5, <2>1, <2>2, <2>3
  <1>10. ASSUME NEW l \in Loops, Lock(l) PROVE LoopTyped'
    <2>1. loop[l].pc = "lock" /\ lock = NoLoop /\ lock' = l /\ loop' = [loop EXCEPT ![l].pc = "run"]
            /\ UNCHANGED <<replies, executed>>
      BY <1>10 DEF Lock
    <2>2. \A k \in Loops : loop[k].pc \notin {"run", "await"}
      BY <1>0, <2>1, Constants
    <2>3. PICK s \in LoopStates : loop' = [loop EXCEPT ![l] = s] /\ s.pc = "run" /\ LoopOf[s.conn] = l
      BY <1>6, <2>1
    <2> QED
      BY <1>0, <1>2, <2>1, <2>2, <2>3
  <1>11. ASSUME NEW l \in Loops, UnknownType(l) PROVE LoopTyped'
    <2>1. loop[l].pc = "lock" /\ loop' = [loop EXCEPT ![l] = [pc |-> "parse", conn |-> loop[l].conn]]
            /\ UNCHANGED <<lock, replies, executed>>
      BY <1>11 DEF UnknownType
    <2>2. loop[l].conn \in Conns /\ LoopOf[loop[l].conn] = l
      BY <1>0, <2>1, BusyIs
    <2> QED
      BY <1>0, <1>2, <1>4, <2>1, <2>2
  <1>12. ASSUME NEW l \in Loops, HandlerCalls(l) PROVE LoopTyped'
    <2>1. loop[l].pc = "run" /\ loop' = [loop EXCEPT ![l].pc = "await"] /\ UNCHANGED <<lock, replies, executed>>
      BY <1>12 DEF HandlerCalls, Running
    <2>2. lock = l
      BY <1>0, <2>1
    <2>3. PICK s \in LoopStates : loop' = [loop EXCEPT ![l] = s] /\ s.pc = "await" /\ LoopOf[s.conn] = l
      BY <1>6, <2>1
    <2> QED
      BY <1>0, <1>2, <2>1, <2>2, <2>3, ZenonT(30)
  <1>13. ASSUME NEW l \in Loops, Answered(l) PROVE LoopTyped'
    <2>1. PICK code \in Codes, ran \in BOOLEAN : loop[l].pc \in {"run", "await"} /\ Respond(l, code, ran)
      BY <1>13 DEF Answered
    <2>2. /\ replies' \in [Conns -> SUBSET Replies] /\ executed' \subseteq Ids /\ lock' = NoLoop
          /\ loop' = [loop EXCEPT ![l] = [pc |-> "parse", conn |-> loop[l].conn]]
      BY <2>1, RespondIs
    <2>3. loop[l].conn \in Conns /\ LoopOf[loop[l].conn] = l /\ lock = l
      BY <1>0, <2>1, BusyIs
    <2>4. \A k \in Loops : k # l => loop[k].pc \notin {"run", "await"}
      BY <1>0, <2>3
    <2> QED
      BY <1>0, <1>2, <1>4, <2>2, <2>3, <2>4
  <1>14. ASSUME NEW l \in Loops, ServiceThrows(l) \/ LookupCrashes(l) PROVE LoopTyped'
    BY <1>1, <1>14 DEF ServiceThrows, LookupCrashes
  <1>15. ASSUME NEW c \in Conns, PeerSends(c) \/ OnConnectionClosed(c) PROVE LoopTyped'
    BY <1>1, <1>15 DEF PeerSends, OnConnectionClosed
  <1>16. ASSUME AnnounceMethod \/ RegisterMethod \/ RegisterProtoHandler \/ Inserted \/ AnnounceProto
         PROVE  LoopTyped'
    BY <1>1, <1>16 DEF AnnounceMethod, RegisterMethod, RegisterProtoHandler, Inserted, AnnounceProto
  <1>17. ASSUME UNCHANGED serverVars \/ \E g \in Threads : SendRequest(g) PROVE LoopTyped'
    BY <1>1, <1>17 DEF serverVars, SendRequest
  <1>18. CASE ServerNext
    BY <1>7, <1>8, <1>9, <1>10, <1>11, <1>12, <1>13, <1>14, <1>15, <1>16, <1>18, AnsweredBy
    DEF ServerNext, LoopStep
  <1> QED
    BY <1>17, <1>18, ServerView

---------------------------------------------------------------------------
(* Registration of methods.                                                *)

LEMMA RegView ==
  ASSUME [Next]_vars
  PROVE  \/ UNCHANGED regVars
         \/ AnnounceMethod \/ RegisterMethod \/ RegisterProtoHandler \/ Inserted \/ AnnounceProto
  <1>1. UNCHANGED serverVars => UNCHANGED regVars
    BY DEF serverVars
  <1>2. ASSUME NEW g \in Threads, SendRequest(g) PROVE UNCHANGED regVars
    BY <1>2 DEF SendRequest
  <1>3. ASSUME NEW c \in Conns, PeerSends(c) \/ OnConnectionClosed(c) PROVE UNCHANGED regVars
    BY <1>3 DEF PeerSends, OnConnectionClosed
  <1>4. ASSUME NEW l \in Loops, LoopStep(l) PROVE UNCHANGED regVars
    BY <1>4 DEF LoopStep, Incomplete, OverLimit, Undecodable, Decode, Lock, UnknownType, Backoff, OnRpcRequst,
                ServiceThrows, OnProtoRequest, LookupCrashes, HandlerCalls, AwaitEnds, Respond
  <1>5. ASSUME NEW l \in Loops, NEW c \in Conns, NEW p, NEW k, ReadEvent(l, c, k, p) PROVE UNCHANGED regVars
    BY <1>5 DEF ReadEvent
  <1> QED
    BY <1>1, <1>2, <1>3, <1>4, <1>5, ServerView DEF ServerNext

Regs == [type : {"json", "proto"}, method : Methods]

\* A registration begins or goes on: the list of registrations stays.
LEMMA RegOn ==
  ASSUME RegTyped, RegInv, reg' = reg, services' = services,
         AnnounceMethod \/ RegisterProtoHandler \/ Inserted
  PROVE  RegTyped' /\ RegInv' /\ handlers \subseteq handlers' /\ \A m : IsService(m)' <=> IsService(m)
  <1>0. /\ services \subseteq Methods /\ handlers \subseteq Methods /\ announced \subseteq Methods
        /\ reg \in Seq(Regs) /\ regpc \in {"start", "second", "third"}
        /\ inserting \in Methods \cup {NoMethod}
    BY DEF RegTyped, Regs
  <1>1. \A m : IsService(m)' <=> IsService(m)
    BY DEF IsService, ServiceIn
  <1>2. reg # <<>> => reg[1] \in Regs /\ Head(reg) = reg[1] /\ 1 \in 1 .. Len(reg)
    BY <1>0, TailElems
  <1>3. reg # <<>> => reg[1].type \in {"json", "proto"} /\ reg[1].method \in Methods
    BY <1>2 DEF Regs
  <1>4. /\ regpc = "start" => inserting = NoMethod
        /\ regpc = "second" => reg # <<>> /\ inserting = IF reg[1].type = "proto" THEN reg[1].method ELSE NoMethod
        /\ \A i, j \in 1 .. Len(reg) : reg[i].type = reg[j].type /\ reg[i].method = reg[j].method => i = j
        /\ \A i \in 1 .. Len(reg) :
             reg[i].type = "proto" /\ reg[i].method \in handlers => i = 1 /\ regpc = "third"
        /\ \A m \in announced : IsService(m) \/ m \in handlers
    BY DEF RegInv
  <1>5. CASE AnnounceMethod
    <2>1. /\ reg # <<>> /\ regpc = "start" /\ reg[1].type = "json" /\ regpc' = "second"
          /\ announced' \in {announced, announced \cup {reg[1].method}}
          /\ UNCHANGED <<handlers, inserting>>
      BY <1>2, <1>5 DEF AnnounceMethod, Announced
    <2>2. IsService(reg[1].method)
      BY <1>2, <2>1 DEF IsService, ServiceIn
    <2>3. \A m \in announced' : IsService(m)' \/ m \in handlers'
      BY <1>1, <1>4, <2>1, <2>2
    <2>4. RegTyped'
      BY <1>0, <1>3, <2>1 DEF RegTyped, Regs
    <2>5. RegInv'
      BY <1>4, <2>1, <2>3 DEF RegInv
    <2> QED
      BY <1>1, <2>1, <2>4, <2>5
  <1>6. CASE RegisterProtoHandler
    <2>1. /\ reg # <<>> /\ regpc = "start" /\ reg[1].type = "proto" /\ regpc' = "second"
          /\ inserting' = reg[1].method
          /\ UNCHANGED <<handlers, announced>>
      BY <1>2, <1>6 DEF RegisterProtoHandler
    <2>3. \A m \in announced' : IsService(m)' \/ m \in handlers'
      BY <1>1, <1>4, <2>1
    <2>4. RegTyped'
      BY <1>0, <1>3, <2>1 DEF RegTyped, Regs
    <2>5. RegInv'
      BY <1>4, <2>1, <2>3 DEF RegInv
    <2> QED
      BY <1>1, <2>1, <2>4, <2>5
  <1>7. CASE Inserted
    <2>1. /\ regpc = "second" /\ inserting # NoMethod /\ handlers' = handlers \cup {inserting}
          /\ inserting' = NoMethod /\ regpc' = "third" /\ announced' = announced
      BY <1>7 DEF Inserted
    <2>2. reg # <<>> /\ reg[1].type = "proto" /\ inserting = reg[1].method
      BY <1>4, <2>1
    <2>3. \A m \in announced' : IsService(m)' \/ m \in handlers'
      BY <1>1, <1>4, <2>1
    <2>4. RegTyped'
      BY <1>0, <1>3, <2>1, <2>2 DEF RegTyped, Regs
    <2>5. \A i \in 1 .. Len(reg) : reg[i].type = "proto" /\ reg[i].method \in handlers' => i = 1
      BY <1>2, <1>4, <2>1, <2>2
    <2>6. RegInv'
      BY <1>4, <2>1, <2>2, <2>3, <2>5 DEF RegInv
    <2> QED
      BY <1>1, <2>1, <2>4, <2>6
  <1> QED
    BY <1>5, <1>6, <1>7

\* A registration is over: it leaves the list.
LEMMA RegDone ==
  ASSUME RegTyped, RegInv, RegisterMethod \/ AnnounceProto
  PROVE  RegTyped' /\ RegInv' /\ handlers \subseteq handlers' /\ \A m : IsService(m)' <=> IsService(m)
  <1>0. /\ services \subseteq Methods /\ handlers \subseteq Methods /\ announced \subseteq Methods
        /\ reg \in Seq(Regs) /\ regpc \in {"start", "second", "third"}
        /\ inserting \in Methods \cup {NoMethod}
    BY DEF RegTyped, Regs
  <1>1. /\ regpc = "second" => reg # <<>> /\ inserting = IF reg[1].type = "proto" THEN reg[1].method ELSE NoMethod
        /\ regpc = "third" =>
             reg # <<>> /\ reg[1].type = "proto" /\ reg[1].method \in handlers /\ inserting = NoMethod
        /\ \A i, j \in 1 .. Len(reg) : reg[i].type = reg[j].type /\ reg[i].method = reg[j].method => i = j
        /\ \A i \in 1 .. Len(reg) :
             reg[i].type = "proto" /\ reg[i].method \in handlers => i = 1 /\ regpc = "third"
        /\ \A m \in announced : IsService(m) \/ m \in handlers
    BY DEF RegInv
  <1>2. reg # <<>> /\ reg' = Tail(reg) /\ regpc' = "start"
    BY <1>1 DEF RegisterMethod, AnnounceProto, Registered
  <1>3. /\ Tail(reg) \in Seq(Regs) /\ Head(reg) \in Regs /\ Head(reg) = reg[1]
        /\ Len(reg) \in Nat /\ Len(reg) >= 1 /\ Len(Tail(reg)) = Len(reg) - 1
        /\ \A i \in 1 .. Len(Tail(reg)) : i + 1 \in 1 .. Len(reg) /\ Tail(reg)[i] = reg[i + 1]
        /\ \A j \in 1 .. Len(reg) : j > 1 => j - 1 \in 1 .. Len(Tail(reg)) /\ Tail(reg)[j - 1] = reg[j]
    BY <1>0, <1>2, TailElems
  <1> DEFINE t == Tail(reg)
  <1> HIDE DEF t
  <1>4. /\ t \in Seq(Regs) /\ reg' = t /\ Len(t) = Len(reg) - 1
        /\ \A i \in 1 .. Len(t) : i + 1 \in 1 .. Len(reg) /\ t[i] = reg[i + 1]
        /\ \A j \in 1 .. Len(reg) : j > 1 => j - 1 \in 1 .. Len(t) /\ t[j - 1] = reg[j]
    BY <1>2, <1>3 DEF t
  <1>5. reg[1].type \in {"json", "proto"} /\ reg[1].method \in Methods
    BY <1>3 DEF Regs
  <1>6. \A i, j \in 1 .. Len(t) : t[i].type = t[j].type /\ t[i].method = t[j].method => i = j
    <2> SUFFICES ASSUME NEW i \in 1 .. Len(t), NEW j \in 1 .. Len(t),
                        t[i].type = t[j].type, t[i].method = t[j].method
                 PROVE  i = j
      OBVIOUS
    <2>1. i + 1 = j + 1
      BY <1>1, <1>4
    <2> QED
      BY <2>1
  <1>7. \A i \in 1 .. Len(t) : t[i].type = "proto" => t[i].method \notin handlers
    <2> SUFFICES ASSUME NEW i \in 1 .. Len(t), t[i].type = "proto", t[i].method \in handlers PROVE FALSE
      OBVIOUS
    <2>1. i + 1 \in 1 .. Len(reg) /\ t[i] = reg[i + 1] /\ i + 1 # 1
      BY <1>4
    <2> QED
      BY <1>1, <2>1
  <1>8. CASE RegisterMethod
    <2>1. /\ regpc = "second" /\ reg[1].type = "json" /\ services' = services \cup {reg[1].method}
          /\ UNCHANGED <<handlers, inserting, announced>>
      BY <1>3, <1>8 DEF RegisterMethod
    <2>2. inserting = NoMethod
      BY <1>1, <2>1
    <2>3. ASSUME NEW m PROVE IsService(m)' <=> IsService(m)
      <3>1. ASSUME IsService(m) PROVE IsService(m)'
        <4>1. CASE m \in services
          BY <2>1, <4>1 DEF IsService, ServiceIn
        <4>2. ASSUME NEW i \in 1 .. Len(reg), reg[i].type = "json", reg[i].method = m PROVE IsService(m)'
          <5>1. CASE i = 1
            BY <2>1, <4>2, <5>1 DEF IsService, ServiceIn
          <5>2. CASE i > 1
            <6>1. i - 1 \in 1 .. Len(t) /\ t[i - 1] = reg[i]
              BY <1>4, <5>2
            <6>2. \E j \in 1 .. Len(t) : t[j].type = "json" /\ t[j].method = m
              BY <4>2, <6>1
            <6> QED
              BY <1>4, <6>2 DEF IsService, ServiceIn
          <5> QED
            BY <1>3, <5>1, <5>2
        <4> QED
          BY <3>1, <4>1, <4>2 DEF IsService, ServiceIn
      <3>2. ASSUME IsService(m)' PROVE IsService(m)
        <4>1. m \in services' \/ \E j \in 1 .. Len(t) : t[j].type = "json" /\ t[j].method = m
          BY <1>4, <3>2 DEF IsService, ServiceIn
        <4>2. m \in services \/ \E i \in 1 .. Len(reg) : reg[i].type = "json" /\ reg[i].method = m
          BY <1>3, <1>4, <2>1, <4>1
        <4> QED
          BY <4>2 DEF IsService, ServiceIn
      <3> QED
        BY <3>1, <3>2
    <2>4. \A m \in announced' : IsService(m)' \/ m \in handlers'
      BY <1>1, <2>1, <2>3
    <2>5. RegTyped'
      BY <1>0, <1>2, <1>4, <1>5, <2>1 DEF RegTyped, Regs
    <2>6. RegInv'
      BY <1>2, <1>4, <1>6, <1>7, <2>1, <2>2, <2>4 DEF RegInv
    <2> QED
      BY <2>1, <2>3, <2>5, <2>6
  <1>9. CASE AnnounceProto
    <2>1. /\ regpc = "third" /\ announced' \in {announced, announced \cup {reg[1].method}}
          /\ UNCHANGED <<handlers, inserting, services>>
      BY <1>3, <1>9 DEF AnnounceProto, Announced
    <2>2. inserting = NoMethod /\ reg[1].type = "proto" /\ reg[1].method \in handlers
      BY <1>1, <2>1
    <2>3. ASSUME NEW m PROVE IsService(m)' <=> IsService(m)
      <3>1. ASSUME IsService(m) PROVE IsService(m)'
        <4>1. CASE m \in services
          BY <2>1, <4>1 DEF IsService, ServiceIn
        <4>2. ASSUME NEW i \in 1 .. Len(reg), reg[i].type = "json", reg[i].method = m PROVE IsService(m)'
          <5>1. i > 1
            BY <1>3, <2>2, <4>2
          <5>2. i - 1 \in 1 .. Len(t) /\ t[i - 1] = reg[i]
            BY <1>4, <5>1
          <5>3. \E j \in 1 .. Len(t) : t[j].type = "json" /\ t[j].method = m
            BY <4>2, <5>2
          <5> QED
            BY <1>4, <5>3 DEF IsService, ServiceIn
        <4> QED
          BY <3>1, <4>1, <4>2 DEF IsService, ServiceIn
      <3>2. ASSUME IsService(m)' PROVE IsService(m)
        <4>1. m \in services' \/ \E j \in 1 .. Len(t) : t[j].type = "json" /\ t[j].method = m
          BY <1>4, <3>2 DEF IsService, ServiceIn
        <4>2. m \in services \/ \E i \in 1 .. Len(reg) : reg[i].type = "json" /\ reg[i].method = m
          BY <1>3, <1>4, <2>1, <4>1
        <4> QED
          BY <4>2 DEF IsService, ServiceIn
      <3> QED
        BY <3>1, <3>2
    <2>4. \A m \in announced' : IsService(m)' \/ m \in handlers'
      BY <1>1, <2>1, <2>2, <2>3
    <2>5. RegTyped'
      BY <1>0, <1>2, <1>4, <1>5, <2>1 DEF RegTyped, Regs
    <2>6. RegInv'
      BY <1>2, <1>4, <1>6, <1>7, <2>1, <2>2, <2>4 DEF RegInv
    <2> QED
      BY <2>1, <2>3, <2>5, <2>6
  <1> QED
    BY <1>8, <1>9

LEMMA RegStep ==
  ASSUME RegTyped, RegInv, [Next]_vars
  PROVE  RegTyped' /\ RegInv' /\ handlers \subseteq handlers' /\ \A m : IsService(m)' <=> IsService(m)
  <1>1. CASE UNCHANGED regVars
    <2>1. UNCHANGED <<services, handlers, inserting, announced, reg, regpc>>
      BY <1>1 DEF regVars
    <2>2. \A m : IsService(m)' <=> IsService(m)
      BY <2>1 DEF IsService, ServiceIn
    <2> QED
      BY <2>1, <2>2 DEF RegTyped, RegInv
  <1>2. CASE AnnounceMethod \/ RegisterProtoHandler \/ Inserted
    <2>1. reg' = reg /\ services' = services
      BY <1>2 DEF AnnounceMethod, RegisterProtoHandler, Inserted
    <2> QED
      BY <1>2, <2>1, RegOn
  <1> QED
    BY <1>1, <1>2, RegDone, RegView

---------------------------------------------------------------------------
(* The frames in flight, and the answers to them.                          *)

LEMMA FlightIs ==
  ASSUME NEW f
  PROVE  f \in Flight <=>
           \/ \E c \in Conns : f \in Elems(sent[c]) \/ f \in Elems(buf[c])
           \/ \E l \in Loops : loop[l].pc \in {"lock", "run", "await"} /\ f = loop[l].frame
  <1>1. f \in Flight <=> f \in Queued \/ \E l \in Holding : f = loop[l].frame
    BY DEF Flight
  <1>2. \A l : l \in Holding <=> l \in Loops /\ loop[l].pc \in {"lock", "run", "await"}
    BY DEF Holding
  <1>3. f \in Queued <=> \E c \in Conns : f \in Elems(sent[c]) \/ f \in Elems(buf[c])
    BY DEF Queued
  <1> QED
    BY <1>1, <1>2, <1>3

LEMMA FlightHas ==
  /\ \A c \in Conns : Elems(sent[c]) \subseteq Flight /\ Elems(buf[c]) \subseteq Flight
  /\ \A l \in Loops : loop[l].pc \in {"lock", "run", "await"} => loop[l].frame \in Flight
  BY FlightIs

LEMMA FlightTyped ==
  ASSUME NetTyped, LoopTyped
  PROVE  Flight \subseteq Frames
  <1>1. \A c \in Conns : sent[c] \in Seq(Frames) /\ buf[c] \in Seq(Frames)
    BY DEF NetTyped
  <1>2. \A c \in Conns : Elems(sent[c]) \subseteq Frames /\ Elems(buf[c]) \subseteq Frames
    BY <1>1, ElemsOf
  <1>3. \A l \in Loops : loop[l].pc \in {"lock", "run", "await"} => loop[l].frame \in Frames
    BY BusyIs
  <1> QED
    BY <1>2, <1>3, FlightIs

LEMMA FlightWithin ==
  ASSUME NEW X,
         \A c \in Conns : Elems(sent'[c]) \subseteq X /\ Elems(buf'[c]) \subseteq X,
         \A l \in Loops : loop'[l].pc \in {"lock", "run", "await"} => loop'[l].frame \in X
  PROVE  Flight' \subseteq X
  <1> SUFFICES ASSUME NEW f \in Flight' PROVE f \in X
    OBVIOUS
  <1>1. (f \in Flight <=>
           \/ \E c \in Conns : f \in Elems(sent[c]) \/ f \in Elems(buf[c])
           \/ \E l \in Loops : loop[l].pc \in {"lock", "run", "await"} /\ f = loop[l].frame)'
    BY FlightIs, PTL
  <1>2. \/ \E c \in Conns : f \in Elems(sent'[c]) \/ f \in Elems(buf'[c])
        \/ \E l \in Loops : loop'[l].pc \in {"lock", "run", "await"} /\ f = loop'[l].frame
    BY <1>1 DEF Elems
  <1> QED
    BY <1>2

\* The steps that bring a new frame, and which one.
LEMMA FlightStep ==
  ASSUME NetTyped, LoopTyped, JobTyped, SelfInv, [Next]_vars
  PROVE  \/ Flight' \subseteq Flight
         \/ \E g \in Threads : /\ job[g].pc \in {"attempt", "resend"} /\ SendRequest(g)
                               /\ Flight' \subseteq Flight \cup {Out(Ask(g))}
         \/ \E c \in Conns : PeerSends(c) /\ Flight' \subseteq Flight \cup {Out(Head(todo[c]))}
         \/ \E l \in Loops : HandlerCalls(l) /\ Flight' \subseteq Flight \cup {Out(Own(l))}
  <1>0. /\ \A c \in Conns : Elems(sent[c]) \subseteq Flight /\ Elems(buf[c]) \subseteq Flight
        /\ \A l \in Loops : loop[l].pc \in {"lock", "run", "await"} => loop[l].frame \in Flight
    BY FlightHas
  <1>a. loop \in [Loops -> LoopStates] /\ buf \in [Conns -> Seq(Frames)]
    BY DEF LoopTyped, NetTyped
  <1>1. ASSUME UNCHANGED <<sent, buf>>,
               \A l \in Loops : loop'[l].pc \in {"lock", "run", "await"} =>
                 loop[l].pc \in {"lock", "run", "await"} /\ loop'[l].frame = loop[l].frame
        PROVE  Flight' \subseteq Flight
    <2> DEFINE X == Flight
    <2>1. \A c \in Conns : Elems(sent'[c]) \subseteq X /\ Elems(buf'[c]) \subseteq X
      BY <1>0, <1>1
    <2>2. \A l \in Loops : loop'[l].pc \in {"lock", "run", "await"} => loop'[l].frame \in X
      BY <1>0, <1>1
    <2> HIDE DEF X
    <2>3. Flight' \subseteq X
      BY <2>1, <2>2, FlightWithin
    <2> QED
      BY <2>3 DEF X
  <1>2. ASSUME NEW c \in Conns, NEW f \in Frames, sent' = Sent(sent, c, f), buf' = buf,
               \A l \in Loops : loop'[l].pc \in {"lock", "run", "await"} =>
                 loop[l].pc \in {"lock", "run", "await"} /\ loop'[l].frame = loop[l].frame
        PROVE  Flight' \subseteq Flight \cup {Out(f)}
    <2> DEFINE X == Flight \cup {Out(f)}
    <2>1. Elems(sent'[c]) = Elems(sent[c]) \cup {Out(f)} /\ \A d \in Conns : d # c => sent'[d] = sent[d]
      BY <1>2, SentIs
    <2>2. \A d \in Conns : Elems(sent'[d]) \subseteq X /\ Elems(buf'[d]) \subseteq X
      BY <1>0, <1>2, <2>1
    <2>3. \A l \in Loops : loop'[l].pc \in {"lock", "run", "await"} => loop'[l].frame \in X
      BY <1>0, <1>2
    <2> HIDE DEF X
    <2>4. Flight' \subseteq X
      BY <2>2, <2>3, FlightWithin
    <2> QED
      BY <2>4 DEF X
  <1>3. ASSUME NEW g \in Threads, job[g].pc \in {"attempt", "resend"}, SendRequest(g)
        PROVE  Flight' \subseteq Flight \cup {Out(Ask(g))}
    <2>1. Ask(g) \in Frames /\ GwConn \in Conns
      BY <1>3, AskIs, Constants
    <2>2. sent' = Sent(sent, GwConn, Ask(g)) /\ UNCHANGED <<buf, loop>>
      BY <1>3 DEF SendRequest, Ask
    <2> QED
      BY <1>2, <2>1, <2>2
  <1>4. ASSUME NEW c \in Conns, PeerSends(c)
        PROVE  Flight' \subseteq Flight \cup {Out(Head(todo[c]))}
    <2>1. Head(todo[c]) \in Frames /\ sent' = Sent(sent, c, Head(todo[c]))
      BY <1>4, PeerIs
    <2>2. UNCHANGED <<buf, loop>>
      BY <1>4 DEF PeerSends
    <2> QED
      BY <1>2, <2>1, <2>2
  <1>5. ASSUME NEW l \in Loops, HandlerCalls(l)
        PROVE  Flight' \subseteq Flight \cup {Out(Own(l))}
    <2>1. loop[l].pc = "run" /\ loop[l].frame.fault = "selfcall" /\ loop' = [loop EXCEPT ![l].pc = "await"]
            /\ sent' = Sent(sent, SelfConn, Own(l)) /\ buf' = buf
      BY <1>5 DEF HandlerCalls, Running, Own
    <2>2. Own(l) \in Frames /\ SelfConn \in Conns
      BY <2>1, OwnIs, Constants
    <2>3. loop[l] \in Busy
      BY <2>1, BusyIs
    <2>4. loop'[l].frame = loop[l].frame /\ \A k \in Loops : k # l => loop'[k] = loop[k]
      BY <1>a, <2>1, <2>3 DEF Busy
    <2> QED
      BY <1>2, <2>1, <2>2, <2>4
  <1>6. ASSUME NEW c \in Conns, OnConnectionClosed(c) PROVE Flight' \subseteq Flight
    <2> DEFINE X == Flight
    <2>1. Elems(<<>>) = {}
      BY DEF Elems
    <2>2. UNCHANGED <<sent, loop>> /\ buf' = [buf EXCEPT ![c] = <<>>]
      BY <1>6 DEF OnConnectionClosed
    <2>3. \A d \in Conns : Elems(sent'[d]) \subseteq X /\ Elems(buf'[d]) \subseteq X
      BY <1>0, <1>a, <2>1, <2>2
    <2>4. \A l \in Loops : loop'[l].pc \in {"lock", "run", "await"} => loop'[l].frame \in X
      BY <1>0, <2>2
    <2> HIDE DEF X
    <2>5. Flight' \subseteq X
      BY <2>3, <2>4, FlightWithin
    <2> QED
      BY <2>5 DEF X
  <1>7. ASSUME NEW l \in Loops, NEW c \in Conns, NEW p \in BOOLEAN, NEW k \in 0 .. Len(sent[c]), ReadEvent(l, c, k, p)
        PROVE  Flight' \subseteq Flight
    <2> DEFINE X == Flight
    <2>1. /\ Elems(buf'[c]) \subseteq Elems(buf[c]) \cup Elems(sent[c])
          /\ Elems(sent'[c]) \subseteq Elems(sent[c])
          /\ \A d \in Conns : d # c => buf'[d] = buf[d] /\ sent'[d] = sent[d]
      BY <1>7, ReadIs
    <2>2. loop' = [loop EXCEPT ![l] = [pc |-> "parse", conn |-> c]]
      BY <1>7 DEF ReadEvent
    <2>3. \A d \in Conns : Elems(sent'[d]) \subseteq X /\ Elems(buf'[d]) \subseteq X
      BY <1>0, <2>1
    <2>4. \A m \in Loops : loop'[m].pc \in {"lock", "run", "await"} => loop'[m].frame \in X
      BY <1>0, <1>a, <2>2
    <2> HIDE DEF X
    <2>5. Flight' \subseteq X
      BY <2>3, <2>4, FlightWithin
    <2> QED
      BY <2>5 DEF X
  <1>8. ASSUME NEW l \in Loops, Undecodable(l) \/ Decode(l) PROVE Flight' \subseteq Flight
    <2> DEFINE X == Flight
               c == loop[l].conn
    <2>1. c \in Conns /\ buf[c] # <<>> /\ buf' = [buf EXCEPT ![c] = Tail(@)] /\ sent' = sent
      BY <1>8, ParseIs DEF Undecodable, Decode, Parsing, Processable
    <2>2. \/ loop' = [loop EXCEPT ![l] = Idle]
          \/ loop' = [loop EXCEPT ![l] = [pc |-> "lock", conn |-> c, frame |-> Head(buf[c])]]
      BY <1>8 DEF Undecodable, Decode
    <2> HIDE DEF c
    <2>3. /\ Elems(buf'[c]) \subseteq Elems(buf[c]) /\ Head(buf[c]) \in Elems(buf[c])
          /\ \A d \in Conns : d # c => buf'[d] = buf[d]
      BY <2>1, TakenIs
    <2>4. \A d \in Conns : Elems(sent'[d]) \subseteq X /\ Elems(buf'[d]) \subseteq X
      BY <1>0, <2>1, <2>3
    <2>5. Head(buf[c]) \in X
      BY <1>0, <2>1, <2>3
    <2>6. \A m \in Loops : loop'[m].pc \in {"lock", "run", "await"} => loop'[m].frame \in X
      <3> HIDE DEF X
      <3>1. \A m \in Loops : loop[m].pc \in {"lock", "run", "await"} => loop[m].frame \in X
        BY <1>0 DEF X
      <3> SUFFICES ASSUME NEW m \in Loops, loop'[m].pc \in {"lock", "run", "await"} PROVE loop'[m].frame \in X
        OBVIOUS
      <3>2. CASE m # l
        BY <1>a, <2>2, <3>1, <3>2
      <3>3. CASE m = l
        <4>1. loop'[l].pc # "idle"
          BY <3>3
        <4>2. loop'[l] = [pc |-> "lock", conn |-> c, frame |-> Head(buf[c])]
          BY <1>a, <2>2, <4>1 DEF Idle
        <4> QED
          BY <2>5, <3>3, <4>2
      <3> QED
        BY <3>2, <3>3
    <2> HIDE DEF X
    <2>7. Flight' \subseteq X
      BY <2>4, <2>6, FlightWithin
    <2> QED
      BY <2>7 DEF X
  <1>9. ASSUME NEW l \in Loops, UnknownType(l) \/ Incomplete(l) \/ OverLimit(l) \/ Answered(l) PROVE Flight' \subseteq Flight
    <2>1. /\ UNCHANGED <<sent, buf>>
          /\ \/ loop' = [loop EXCEPT ![l] = Idle]
             \/ loop' = [loop EXCEPT ![l] = [pc |-> "parse", conn |-> loop[l].conn]]
      BY <1>9 DEF UnknownType, Incomplete, OverLimit, Answered, Respond, Handled, netVars
    <2>2. \A m \in Loops : loop'[m].pc \in {"lock", "run", "await"} => loop'[m] = loop[m]
      BY <1>a, <2>1 DEF Idle
    <2> QED
      BY <1>1, <2>1, <2>2
  <1>10. ASSUME NEW l \in Loops, Lock(l) PROVE Flight' \subseteq Flight
    <2>1. UNCHANGED <<sent, buf>> /\ loop' = [loop EXCEPT ![l].pc = "run"] /\ loop[l].pc = "lock"
      BY <1>10 DEF Lock, netVars
    <2>2. loop[l] \in Busy
      BY <2>1, BusyIs
    <2>3. loop'[l].frame = loop[l].frame /\ \A k \in Loops : k # l => loop'[k] = loop[k]
      BY <1>a, <2>1, <2>2 DEF Busy
    <2> QED
      BY <1>1, <2>1, <2>3
  <1>11. ASSUME UNCHANGED <<sent, buf, loop>> PROVE Flight' \subseteq Flight
    BY <1>1, <1>11
  <1>12. ASSUME NEW l \in Loops, ServiceThrows(l) \/ LookupCrashes(l) PROVE UNCHANGED <<sent, buf, loop>>
    BY <1>12 DEF ServiceThrows, LookupCrashes, netVars
  <1>13. ASSUME AnnounceMethod \/ RegisterMethod \/ RegisterProtoHandler \/ Inserted \/ AnnounceProto
         PROVE  UNCHANGED <<sent, buf, loop>>
    BY <1>13 DEF AnnounceMethod, RegisterMethod, RegisterProtoHandler, Inserted, AnnounceProto, netVars
  <1>14. UNCHANGED serverVars => UNCHANGED <<sent, buf, loop>>
    BY DEF serverVars, netVars
  <1>15. CASE ServerNext
    <2>1. ASSUME NEW l \in Loops, LoopStep(l) PROVE Flight' \subseteq Flight \/ HandlerCalls(l)
      BY <1>8, <1>9, <1>10, <1>11, <1>12, <2>1, AnsweredBy DEF LoopStep
    <2> QED
      BY <1>4, <1>5, <1>6, <1>7, <1>11, <1>13, <1>15, <2>1 DEF ServerNext
  <1> QED
    BY <1>3, <1>11, <1>14, <1>15, ServerView

LEMMA ReplyView ==
  ASSUME [Next]_vars
  PROVE  UNCHANGED <<replies, executed>> \/ \E l \in Loops : Answered(l)
  <1>1. UNCHANGED serverVars => UNCHANGED <<replies, executed>>
    BY DEF serverVars
  <1>2. ASSUME NEW g \in Threads, SendRequest(g) PROVE UNCHANGED <<replies, executed>>
    BY <1>2 DEF SendRequest
  <1>3. ASSUME NEW c \in Conns, PeerSends(c) \/ OnConnectionClosed(c) PROVE UNCHANGED <<replies, executed>>
    BY <1>3 DEF PeerSends, OnConnectionClosed
  <1>4. ASSUME NEW l \in Loops, LoopStep(l) PROVE UNCHANGED <<replies, executed>> \/ Answered(l)
    BY <1>4, AnsweredBy DEF LoopStep, Incomplete, OverLimit, Undecodable, Decode, Lock, UnknownType,
                ServiceThrows, LookupCrashes, HandlerCalls
  <1>5. ASSUME NEW l \in Loops, NEW c \in Conns, NEW p, NEW k, ReadEvent(l, c, k, p)
        PROVE  UNCHANGED <<replies, executed>>
    BY <1>5 DEF ReadEvent
  <1>6. ASSUME AnnounceMethod \/ RegisterMethod \/ RegisterProtoHandler \/ Inserted \/ AnnounceProto
        PROVE  UNCHANGED <<replies, executed>>
    BY <1>6 DEF AnnounceMethod, RegisterMethod, RegisterProtoHandler, Inserted, AnnounceProto
  <1> QED
    BY <1>1, <1>2, <1>3, <1>4, <1>5, <1>6, ServerView DEF ServerNext

\* What a step does with the frames that peers have not sent.
LEMMA TodoStep ==
  ASSUME NetTyped, [Next]_vars
  PROVE  \A c \in Conns : Elems(todo'[c]) \subseteq Elems(todo[c])
  <1>1. ASSUME NEW c \in Conns, PeerSends(c) PROVE \A d \in Conns : Elems(todo'[d]) \subseteq Elems(todo[d])
    BY <1>1, PeerIs
  <1>2. ASSUME ServerNext PROVE todo' = todo \/ \E c \in Conns : PeerSends(c)
    <2>1. ASSUME NEW l \in Loops, LoopStep(l) PROVE todo' = todo
      BY <2>1 DEF LoopStep, Incomplete, OverLimit, Undecodable, Decode, Lock, UnknownType, Backoff, OnRpcRequst,
                ServiceThrows, OnProtoRequest, LookupCrashes, HandlerCalls, AwaitEnds, Respond, netVars
    <2>2. ASSUME NEW c \in Conns, OnConnectionClosed(c) PROVE todo' = todo
      BY <2>2 DEF OnConnectionClosed
    <2>3. ASSUME NEW l \in Loops, NEW c \in Conns, NEW p, NEW k, ReadEvent(l, c, k, p) PROVE todo' = todo
      BY <2>3 DEF ReadEvent
    <2>4. ASSUME AnnounceMethod \/ RegisterMethod \/ RegisterProtoHandler \/ Inserted \/ AnnounceProto
          PROVE  todo' = todo
      BY <2>4 DEF AnnounceMethod, RegisterMethod, RegisterProtoHandler, Inserted, AnnounceProto, netVars
    <2> QED
      BY <1>2, <2>1, <2>2, <2>3, <2>4 DEF ServerNext
  <1>3. ASSUME UNCHANGED serverVars \/ \E g \in Threads : SendRequest(g) PROVE todo' = todo
    BY <1>3 DEF serverVars, netVars, SendRequest
  <1> QED
    BY <1>1, <1>2, <1>3, ServerView

\* A protobuf request for something announced finds a handler.
LEMMA FrameStep ==
  ASSUME NetTyped, LoopTyped, JobTyped, SelfInv, RegTyped, RegInv, FrameInv, [Next]_vars
  PROVE  FrameInv'
  <1> DEFINE Found == \A f \in Flight' : f.type = "proto" => ~IsService(f.method)' /\ (f.known => f.method \in handlers')
  <1>1. handlers \subseteq handlers' /\ \A m : IsService(m)' <=> IsService(m)
    BY RegStep
  <1>2. \A c \in Conns : \A f \in Elems(todo'[c]) : f.type = "proto" => ~IsService(f.method)'
    BY <1>1, TodoStep DEF FrameInv
  <1>3. \A f \in Flight : f.type = "proto" => ~IsService(f.method)' /\ (f.known => f.method \in handlers')
    BY <1>1 DEF FrameInv
  <1>4. ~IsService(EchoMethod) /\ ~IsService(EchoMethod)'
    BY <1>1 DEF FrameInv
  <1>5. ASSUME NEW h \in Frames, h.type = "proto" => ~IsService(h.method), Flight' \subseteq Flight \cup {Out(h)}
        PROVE  Found
    <2>1. Out(h).type = h.type /\ Out(h).method = h.method /\ Out(h).known = (h.method \in announced)
      BY <1>5, OutIs
    <2>2. h.type = "proto" /\ h.method \in announced => h.method \in handlers
      BY <1>5 DEF RegInv
    <2> QED
      BY <1>1, <1>3, <1>5, <2>1, <2>2
  <1>6. Found
    <2>1. CASE Flight' \subseteq Flight
      BY <1>3, <2>1
    <2> HIDE DEF Found
    <2>2. ASSUME NEW g \in Threads, job[g].pc \in {"attempt", "resend"}, Flight' \subseteq Flight \cup {Out(Ask(g))}
          PROVE  Found
      <3>1. Ask(g) \in Frames /\ Ask(g).method = EchoMethod
        BY <2>2, AskIs
      <3> QED
        BY <1>4, <1>5, <2>2, <3>1
    <2>3. ASSUME NEW c \in Conns, PeerSends(c), Flight' \subseteq Flight \cup {Out(Head(todo[c]))}
          PROVE  Found
      <3>1. Head(todo[c]) \in Frames /\ Head(todo[c]) \in Elems(todo[c])
        BY <2>3, PeerIs
      <3> QED
        BY <1>5, <2>3, <3>1 DEF FrameInv
    <2>4. ASSUME NEW l \in Loops, HandlerCalls(l), Flight' \subseteq Flight \cup {Out(Own(l))}
          PROVE  Found
      <3>1. loop[l].pc = "run" /\ loop[l].frame.fault = "selfcall"
        BY <2>4 DEF HandlerCalls, Running
      <3>2. Own(l) \in Frames /\ Own(l).type = loop[l].frame.type /\ Own(l).method = loop[l].frame.method
        BY <3>1, OwnIs
      <3>3. loop[l].frame \in Flight
        BY <3>1, FlightHas
      <3> QED
        BY <1>5, <2>4, <3>2, <3>3 DEF FrameInv
    <2> QED
      BY <2>1, <2>2, <2>3, <2>4, FlightStep
  <1> QED
    BY <1>2, <1>4, <1>6 DEF FrameInv

\* What the answers say.
LEMMA AnswerStep ==
  ASSUME NetTyped, LoopTyped, RegTyped, RegInv, FrameInv, AnswerInv, DiscoveredFound, [Next]_vars
  PROVE  AnswerInv' /\ DiscoveredFound'
  <1>1. CASE UNCHANGED <<replies, executed>>
    BY <1>1 DEF AnswerInv, DiscoveredFound
  <1>2. ASSUME NEW l \in Loops, Answered(l) PROVE AnswerInv' /\ DiscoveredFound'
    <2>1. PICK code \in Codes, ran \in BOOLEAN :
            /\ loop[l].pc \in {"run", "await"} /\ Respond(l, code, ran)
            /\ code = "SUCCESS" => ran
            /\ code = "SERVICE_NOT_FOUND" => \/ loop[l].frame.type = "json"
                                             \/ loop[l].frame.type = "proto" /\ Misses(loop[l].frame)
      BY <1>2 DEF Answered
    <2> DEFINE f == loop[l].frame
    <2>2. f \in Flight /\ f \in Frames
      BY <2>1, FlightHas, BusyIs
    <2>3. /\ \A c \in Conns : \A r \in replies'[c] : r \notin replies[c] =>
               /\ r.rid = f.rid /\ r.code = code /\ r.type = f.type /\ r.known = f.known
               /\ r.raced = (inserting \notin {NoMethod, f.method})
          /\ executed \subseteq executed' /\ (ran => f.rid \in executed')
      BY <2>1, RespondIs
    <2>4. code = "SERVICE_NOT_FOUND" => f.type = "json" \/ (f.type = "proto" /\ Misses(f))
      BY <2>1
    <2> HIDE DEF f
    <2>5. AnswerInv'
      BY <2>1, <2>3 DEF AnswerInv
    <2>6. ASSUME code = "SERVICE_NOT_FOUND", f.known, f.type # "json" PROVE inserting \notin {NoMethod, f.method}
      <3>1. f.type = "proto" /\ Misses(f) /\ f.method \in handlers
        BY <2>2, <2>4, <2>6 DEF FrameInv
      <3>2. inserting # NoMethod
        BY <3>1 DEF Misses
      <3>3. regpc = "second" /\ reg # <<>> /\ reg[1].type = "proto" /\ inserting = reg[1].method
        BY <3>2 DEF RegInv, RegTyped
      <3>4. reg \in Seq(Regs) /\ reg # <<>>
        BY <3>3 DEF RegTyped, Regs
      <3>5. 1 \in 1 .. Len(reg)
        BY <3>4, TailElems
      <3>6. reg[1].method \notin handlers
        BY <3>3, <3>5 DEF RegInv
      <3> QED
        BY <3>1, <3>2, <3>3, <3>6
    <2>7. DiscoveredFound'
      BY <2>3, <2>6, ZenonT(30) DEF DiscoveredFound
    <2> QED
      BY <2>5, <2>7
  <1> QED
    BY <1>1, <1>2, ReplyView

---------------------------------------------------------------------------
(* Calls of a handler to its own server.                                   *)

LEMMA SelfIs ==
  ASSUME NEW s
  PROVE  /\ \A i : i \in SelfCalls(s) <=> i \in 1 .. Len(s) /\ s[i].fault = "selfcall"
         /\ \A r : r \in SelfRids(s) <=> \E i \in SelfCalls(s) : r = s[i].rid
  <1>1. \A i : i \in SelfCalls(s) <=> i \in 1 .. Len(s) /\ s[i].fault = "selfcall"
    BY DEF SelfCalls
  <1>2. \A r : r \in SelfRids(s) <=> \E i \in SelfCalls(s) : r = s[i].rid
    BY DEF SelfRids
  <1> QED
    BY <1>1, <1>2

LEMMA OnceEmpty == Once(<<>>) /\ SelfRids(<<>>) = {}
  <1>1. \A i : i \notin SelfCalls(<<>>)
    BY SelfIs
  <1> QED
    BY <1>1, SelfIs DEF Once

LEMMA OnceTail ==
  ASSUME NEW s \in Seq(Frames), s # <<>>, Once(s)
  PROVE  /\ Once(Tail(s)) /\ SelfRids(Tail(s)) \subseteq SelfRids(s)
         /\ Head(s).fault = "selfcall" => Head(s).rid \in SelfRids(s) /\ Head(s).rid \notin SelfRids(Tail(s))
  <1> DEFINE t == Tail(s)
  <1>1. /\ Head(s) = s[1] /\ Len(s) \in Nat /\ Len(s) >= 1 /\ Len(t) = Len(s) - 1
        /\ \A i \in 1 .. Len(t) : i + 1 \in 1 .. Len(s) /\ t[i] = s[i + 1]
    BY TailElems
  <1> HIDE DEF t
  <1>2. \A i \in SelfCalls(t) : i \in 1 .. Len(t) /\ i + 1 \in SelfCalls(s) /\ t[i] = s[i + 1]
    <2> SUFFICES ASSUME NEW i \in SelfCalls(t)
                 PROVE  i \in 1 .. Len(t) /\ i + 1 \in SelfCalls(s) /\ t[i] = s[i + 1]
      OBVIOUS
    <2>1. i \in 1 .. Len(t) /\ t[i].fault = "selfcall"
      BY SelfIs
    <2>2. PICK j : j = i + 1
      OBVIOUS
    <2>3. j \in 1 .. Len(s) /\ t[i] = s[j]
      BY <1>1, <2>1, <2>2
    <2>4. j \in SelfCalls(s)
      BY <2>1, <2>3, SelfIs
    <2> QED
      BY <2>1, <2>2, <2>3, <2>4
  <1>3. Once(t)
    <2> SUFFICES ASSUME NEW i \in SelfCalls(t), NEW j \in SelfCalls(t), t[i].rid = t[j].rid PROVE i = j
      BY DEF Once
    <2>1. i + 1 = j + 1
      BY <1>2 DEF Once
    <2> QED
      BY <1>2, <2>1
  <1>4. SelfRids(t) \subseteq SelfRids(s)
    BY <1>2, SelfIs
  <1>5. ASSUME s[1].fault = "selfcall" PROVE s[1].rid \in SelfRids(s) /\ s[1].rid \notin SelfRids(t)
    <2>1. 1 \in SelfCalls(s)
      BY <1>1, <1>5, SelfIs
    <2>2. \A i \in SelfCalls(t) : t[i].rid # s[1].rid
      <3> SUFFICES ASSUME NEW i \in SelfCalls(t), t[i].rid = s[1].rid PROVE FALSE
        OBVIOUS
      <3>1. i + 1 = 1
        BY <1>2, <2>1 DEF Once
      <3>2. i \in 1 .. Len(t)
        BY <1>2
      <3> QED
        BY <3>1, <3>2
    <2> QED
      BY <2>1, <2>2, SelfIs
  <1> QED
    BY <1>1, <1>3, <1>4, <1>5 DEF t

LEMMA OnceAppend ==
  ASSUME NEW s \in Seq(Frames), NEW e \in Frames, Once(s), e.fault = "selfcall" => e.rid \notin SelfRids(s)
  PROVE  /\ Once(Append(s, e)) /\ SelfRids(Append(s, e)) \subseteq SelfRids(s) \cup {e.rid}
         /\ e.fault # "selfcall" => SelfRids(Append(s, e)) \subseteq SelfRids(s)
  <1> DEFINE t == Append(s, e)
             n == Len(s) + 1
  <1>1. Len(t) = n /\ Len(s) \in Nat /\ t[n] = e /\ \A i \in 1 .. Len(s) : t[i] = s[i]
    OBVIOUS
  <1>2. \A i \in 1 .. Len(t) : i \in 1 .. Len(s) \/ i = n
    BY <1>1
  <1>3. n \notin 1 .. Len(s)
    BY <1>1
  <1> HIDE DEF t, n
  <1>4. \A i \in SelfCalls(t) : \/ i \in SelfCalls(s) /\ t[i] = s[i]
                                \/ i = n /\ e.fault = "selfcall" /\ t[i] = e
    BY <1>1, <1>2, SelfIs
  <1>5. Once(t)
    BY <1>4, SelfIs DEF Once
  <1>6. SelfRids(t) \subseteq SelfRids(s) \cup {e.rid} /\ (e.fault # "selfcall" => SelfRids(t) \subseteq SelfRids(s))
    BY <1>4, SelfIs
  <1> QED
    BY <1>5, <1>6 DEF t

LEMMA OnceCut ==
  ASSUME NEW s \in Seq(Frames), NEW k \in 0 .. Len(s), Once(s)
  PROVE  /\ Once(SubSeq(s, 1, k)) /\ SelfRids(SubSeq(s, 1, k)) \subseteq SelfRids(s)
         /\ Once(SubSeq(s, k + 1, Len(s))) /\ SelfRids(SubSeq(s, k + 1, Len(s))) \subseteq SelfRids(s)
         /\ SelfRids(SubSeq(s, 1, k)) \cap SelfRids(SubSeq(s, k + 1, Len(s))) = {}
  <1> DEFINE a == SubSeq(s, 1, k)
             b == SubSeq(s, k + 1, Len(s))
  <1>1. /\ Len(a) = k /\ \A i \in 1 .. k : i \in 1 .. Len(s) /\ a[i] = s[i]
        /\ Len(b) = Len(s) - k /\ \A i \in 1 .. Len(s) - k : i + k \in 1 .. Len(s) /\ b[i] = s[i + k]
        /\ Len(s) \in Nat /\ k \in Nat
    BY CutElems
  <1> HIDE DEF a, b
  <1>2. \A i \in SelfCalls(a) : i \in 1 .. k /\ i \in SelfCalls(s) /\ a[i] = s[i]
    BY <1>1, SelfIs
  <1>3. \A i \in SelfCalls(b) : i \in 1 .. Len(s) - k /\ i + k \in SelfCalls(s) /\ b[i] = s[i + k]
    BY <1>1, SelfIs
  <1>4. Once(a) /\ SelfRids(a) \subseteq SelfRids(s)
    BY <1>2, SelfIs DEF Once
  <1>5. Once(b)
    <2> SUFFICES ASSUME NEW i \in SelfCalls(b), NEW j \in SelfCalls(b), b[i].rid = b[j].rid PROVE i = j
      BY DEF Once
    <2>1. i + k = j + k
      BY <1>3 DEF Once
    <2> QED
      BY <1>1, <1>3, <2>1
  <1>6. SelfRids(b) \subseteq SelfRids(s)
    BY <1>3, SelfIs
  <1>7. SelfRids(a) \cap SelfRids(b) = {}
    <2> SUFFICES ASSUME NEW i \in SelfCalls(a), NEW j \in SelfCalls(b), a[i].rid = b[j].rid PROVE FALSE
      BY SelfIs
    <2>1. i = j + k
      BY <1>2, <1>3 DEF Once
    <2>2. i \in 1 .. k /\ j \in 1 .. Len(s) - k
      BY <1>2, <1>3
    <2> QED
      BY <1>1, <2>1, <2>2
  <1> QED
    BY <1>4, <1>5, <1>6, <1>7 DEF a, b

LEMMA OnceConcat ==
  ASSUME NEW s \in Seq(Frames), NEW t \in Seq(Frames), Once(s), Once(t), SelfRids(s) \cap SelfRids(t) = {}
  PROVE  Once(s \o t) /\ SelfRids(s \o t) \subseteq SelfRids(s) \cup SelfRids(t)
  <1> DEFINE u == s \o t
  <1>1. /\ Len(s) \in Nat
        /\ \A i \in 1 .. Len(s) : i \in 1 .. Len(u) /\ u[i] = s[i]
        /\ \A k \in 1 .. Len(t) : Len(s) + k \in 1 .. Len(u) /\ u[Len(s) + k] = t[k]
        /\ \A i \in 1 .. Len(u) : i \in 1 .. Len(s) \/ \E k \in 1 .. Len(t) : i = Len(s) + k
    <2>1. Len(s) \in Nat /\ \A i \in 1 .. Len(s) : i \in 1 .. Len(u) /\ u[i] = s[i]
      BY ConcatElems
    <2>2. \A k \in 1 .. Len(t) : Len(s) + k \in 1 .. Len(u) /\ u[Len(s) + k] = t[k]
      BY ConcatElems
    <2>3. \A i \in 1 .. Len(u) : i \in 1 .. Len(s) \/ \E k \in 1 .. Len(t) : i = Len(s) + k
      BY ConcatElems
    <2> QED
      BY <2>1, <2>2, <2>3
  <1> HIDE DEF u
  <1>2. \A i \in SelfCalls(u) : \/ i \in SelfCalls(s) /\ u[i] = s[i]
                                \/ \E k \in SelfCalls(t) : i = Len(s) + k /\ u[i] = t[k]
    <2> SUFFICES ASSUME NEW i \in SelfCalls(u)
                 PROVE  \/ i \in SelfCalls(s) /\ u[i] = s[i]
                        \/ \E k \in SelfCalls(t) : i = Len(s) + k /\ u[i] = t[k]
      OBVIOUS
    <2>1. i \in 1 .. Len(u) /\ u[i].fault = "selfcall"
      BY SelfIs
    <2>2. CASE i \in 1 .. Len(s)
      BY <1>1, <2>1, <2>2, SelfIs
    <2>3. ASSUME NEW k \in 1 .. Len(t), i = Len(s) + k PROVE k \in SelfCalls(t) /\ u[i] = t[k]
      <3>1. u[i] = t[k]
        BY <1>1, <2>3
      <3> QED
        BY <2>1, <3>1, SelfIs
    <2> QED
      BY <1>1, <2>1, <2>2, <2>3
  <1>3. SelfRids(u) \subseteq SelfRids(s) \cup SelfRids(t)
    BY <1>2, SelfIs
  <1>4. Once(u)
    <2> SUFFICES ASSUME NEW i \in SelfCalls(u), NEW j \in SelfCalls(u), u[i].rid = u[j].rid PROVE i = j
      BY DEF Once
    <2>1. CASE i \in SelfCalls(s) /\ u[i] = s[i] /\ j \in SelfCalls(s) /\ u[j] = s[j]
      BY <2>1 DEF Once
    <2>2. ASSUME NEW k \in SelfCalls(t), i = Len(s) + k, u[i] = t[k],
                 NEW m \in SelfCalls(t), j = Len(s) + m, u[j] = t[m]
          PROVE  i = j
      BY <2>2 DEF Once
    <2>3. ASSUME NEW m \in SelfCalls(t), i \in SelfCalls(s), u[i] = s[i], u[j] = t[m]
          PROVE  FALSE
      BY <2>3, SelfIs
    <2>4. ASSUME NEW m \in SelfCalls(t), j \in SelfCalls(s), u[j] = s[j], u[i] = t[m]
          PROVE  FALSE
      BY <2>4, SelfIs
    <2> QED
      BY <1>2, <2>1, <2>2, <2>3, <2>4
  <1> QED
    BY <1>3, <1>4 DEF u

\* What a step does with one loop.
Moves(l) ==
  \/ loop'[l] = loop[l]
  \/ loop'[l].pc \in {"idle", "parse"}
  \/ /\ Decode(l) /\ loop'[l].pc = "lock" /\ loop'[l].conn = loop[l].conn
     /\ loop'[l].frame = Head(buf[loop[l].conn])
  \/ /\ Lock(l) /\ loop'[l].pc = "run" /\ loop'[l].conn = loop[l].conn
     /\ loop'[l].frame = loop[l].frame
  \/ /\ HandlerCalls(l) /\ loop'[l].pc = "await" /\ loop'[l].conn = loop[l].conn
     /\ loop'[l].frame = loop[l].frame

LEMMA LoopView ==
  ASSUME LoopTyped, [Next]_vars, NEW l \in Loops
  PROVE  Moves(l)
  <1>0. loop \in [Loops -> LoopStates]
    BY DEF LoopTyped
  <1>1. ASSUME NEW k \in Loops, \/ loop' = [loop EXCEPT ![k] = Idle]
                                \/ \E c : loop' = [loop EXCEPT ![k] = [pc |-> "parse", conn |-> c]]
        PROVE  Moves(l)
    BY <1>0, <1>1 DEF Idle, Moves
  <1>2. ASSUME NEW k \in Loops, Incomplete(k) \/ OverLimit(k) \/ Undecodable(k) \/ UnknownType(k) \/ Answered(k)
        PROVE  Moves(l)
    <2>1. \/ loop' = [loop EXCEPT ![k] = Idle]
          \/ loop' = [loop EXCEPT ![k] = [pc |-> "parse", conn |-> loop[k].conn]]
      BY <1>2 DEF Incomplete, OverLimit, Undecodable, UnknownType, Answered, Respond, Handled
    <2> QED
      BY <1>1, <2>1
  <1>3. ASSUME NEW k \in Loops, NEW c \in Conns, NEW p, NEW n, ReadEvent(k, c, n, p) PROVE Moves(l)
    BY <1>1, <1>3 DEF ReadEvent
  <1>4. ASSUME NEW k \in Loops, Decode(k) PROVE Moves(l)
    <2>1. loop' = [loop EXCEPT ![k] = [pc |-> "lock", conn |-> loop[k].conn, frame |-> Head(buf[loop[k].conn])]]
      BY <1>4 DEF Decode
    <2> DEFINE s == [pc |-> "lock", conn |-> loop[k].conn, frame |-> Head(buf[loop[k].conn])]
    <2>2. s.pc = "lock" /\ s.conn = loop[k].conn /\ s.frame = Head(buf[loop[k].conn])
      OBVIOUS
    <2>3. (k = l /\ loop'[l] = s) \/ loop'[l] = loop[l]
      BY <1>0, <2>1
    <2> HIDE DEF s
    <2> QED
      BY <1>4, <2>2, <2>3 DEF Moves
  <1>5. ASSUME NEW k \in Loops, Lock(k) PROVE Moves(l)
    <2>1. loop' = [loop EXCEPT ![k].pc = "run"] /\ loop[k] \in Busy
      BY <1>5, BusyIs DEF Lock
    <2>2. k = l => loop'[l].pc = "run" /\ loop'[l].conn = loop[l].conn /\ loop'[l].frame = loop[l].frame
      BY <1>0, <2>1 DEF Busy
    <2> QED
      BY <1>0, <1>5, <2>1, <2>2 DEF Moves
  <1>6. ASSUME NEW k \in Loops, HandlerCalls(k) PROVE Moves(l)
    <2>1. loop' = [loop EXCEPT ![k].pc = "await"] /\ loop[k] \in Busy
      BY <1>6, BusyIs DEF HandlerCalls, Running
    <2>2. k = l => loop'[l].pc = "await" /\ loop'[l].conn = loop[l].conn /\ loop'[l].frame = loop[l].frame
      BY <1>0, <2>1 DEF Busy
    <2> QED
      BY <1>0, <1>6, <2>1, <2>2 DEF Moves
  <1>7. loop' = loop => Moves(l)
    BY DEF Moves
  <1>8. ASSUME NEW k \in Loops, ServiceThrows(k) \/ LookupCrashes(k) PROVE Moves(l)
    BY <1>7, <1>8 DEF ServiceThrows, LookupCrashes
  <1>9. ASSUME NEW c \in Conns, PeerSends(c) \/ OnConnectionClosed(c) PROVE Moves(l)
    BY <1>7, <1>9 DEF PeerSends, OnConnectionClosed
  <1>10. ASSUME AnnounceMethod \/ RegisterMethod \/ RegisterProtoHandler \/ Inserted \/ AnnounceProto
         PROVE  Moves(l)
    BY <1>7, <1>10 DEF AnnounceMethod, RegisterMethod, RegisterProtoHandler, Inserted, AnnounceProto
  <1>11. ASSUME UNCHANGED serverVars \/ \E g \in Threads : SendRequest(g) PROVE Moves(l)
    BY <1>7, <1>11 DEF serverVars, SendRequest
  <1>12. CASE ServerNext
    BY <1>2, <1>3, <1>4, <1>5, <1>6, <1>8, <1>9, <1>10, <1>12, AnsweredBy DEF ServerNext, LoopStep
  <1> QED
    BY <1>11, <1>12, ServerView

\* The requests of a connection that are to come stay in line.
LEMMA LineStep ==
  ASSUME NetTyped, LoopTyped, JobTyped, SelfInv, [Next]_vars, NEW c \in Conns
  PROVE  Lined(c)' /\ Coming(c)' \subseteq Coming(c)
  <1>0. /\ todo \in [Conns -> Seq(Frames)] /\ sent \in [Conns -> Seq(Frames)] /\ buf \in [Conns -> Seq(Frames)]
    BY DEF NetTyped
  <1>a. todo[c] \in Seq(Frames) /\ sent[c] \in Seq(Frames) /\ buf[c] \in Seq(Frames)
    BY <1>0
  <1>b. /\ Once(todo[c]) /\ Once(sent[c]) /\ Once(buf[c])
        /\ SelfRids(todo[c]) \cap SelfRids(sent[c]) = {}
        /\ SelfRids(todo[c]) \cap SelfRids(buf[c]) = {}
        /\ SelfRids(sent[c]) \cap SelfRids(buf[c]) = {}
        /\ Coming(c) \subseteq {c} \X Nat
    BY DEF SelfInv, ComesOnce, Lined
  <1>1. ASSUME todo'[c] = todo[c], sent'[c] = sent[c], buf'[c] = buf[c]
        PROVE  Lined(c)' /\ Coming(c)' \subseteq Coming(c)
    BY <1>1, <1>b DEF Lined, Coming
  <1>2. ASSUME NEW d \in Conns, NEW f \in Frames, sent' = Sent(sent, d, f), f.fault # "selfcall",
               UNCHANGED <<todo, buf>>
        PROVE  Lined(c)' /\ Coming(c)' \subseteq Coming(c)
    <2>1. sent'[d] = Append(sent[d], Out(f)) /\ \A e \in Conns : e # d => sent'[e] = sent[e]
      BY <1>2, SentIs
    <2>2. Out(f) \in Frames /\ Out(f).fault # "selfcall"
      BY <1>2, OutIs
    <2>3. CASE d = c
      <3> DEFINE s == sent[c]
                 e == Out(f)
      <3>0. sent'[c] = Append(s, e) /\ s \in Seq(Frames) /\ Once(s) /\ e \in Frames /\ e.fault # "selfcall"
        BY <1>a, <1>b, <2>1, <2>2, <2>3
      <3>1. Once(sent'[c]) /\ SelfRids(sent'[c]) \subseteq SelfRids(sent[c])
        <4> HIDE DEF s, e
        <4>1. Once(Append(s, e)) /\ SelfRids(Append(s, e)) \subseteq SelfRids(s)
          BY <3>0, OnceAppend
        <4> QED
          BY <3>0, <4>1 DEF s
      <3> QED
        BY <1>2, <1>b, <3>1 DEF Lined, Coming
    <2> QED
      BY <1>1, <1>2, <2>1, <2>3
  <1>3. ASSUME NEW g \in Threads, job[g].pc \in {"attempt", "resend"}, SendRequest(g)
        PROVE  Lined(c)' /\ Coming(c)' \subseteq Coming(c)
    <2>1. Ask(g) \in Frames /\ Ask(g).fault # "selfcall" /\ GwConn \in Conns
      BY <1>3, AskIs, Constants
    <2>2. sent' = Sent(sent, GwConn, Ask(g)) /\ UNCHANGED <<todo, buf>>
      BY <1>3 DEF SendRequest, Ask
    <2> QED
      BY <1>2, <2>1, <2>2
  <1>4. ASSUME NEW l \in Loops, HandlerCalls(l)
        PROVE  Lined(c)' /\ Coming(c)' \subseteq Coming(c)
    <2>1. loop[l].pc = "run" /\ loop[l].frame.fault = "selfcall"
            /\ sent' = Sent(sent, SelfConn, Own(l)) /\ UNCHANGED <<todo, buf>>
      BY <1>4 DEF HandlerCalls, Running, Own
    <2>2. Own(l) \in Frames /\ Own(l).fault # "selfcall" /\ SelfConn \in Conns
      BY <2>1, OwnIs, Constants
    <2> QED
      BY <1>2, <2>1, <2>2
  <1>5. ASSUME NEW d \in Conns, PeerSends(d)
        PROVE  Lined(c)' /\ Coming(c)' \subseteq Coming(c)
    <2> DEFINE h == Head(todo[d])
    <2>1. /\ todo[d] # <<>> /\ h \in Frames /\ todo'[d] = Tail(todo[d]) /\ sent' = Sent(sent, d, h)
          /\ \A e \in Conns : e # d => todo'[e] = todo[e]
      BY <1>5, PeerIs
    <2>2. buf' = buf
      BY <1>5 DEF PeerSends
    <2>3. sent'[d] = Append(sent[d], Out(h)) /\ \A e \in Conns : e # d => sent'[e] = sent[e]
      BY <2>1, SentIs
    <2>4. Out(h) \in Frames /\ Out(h).fault = h.fault /\ Out(h).rid = h.rid
      BY <2>1, OutIs
    <2>5. CASE d = c
      <3>1. /\ Once(todo'[c]) /\ SelfRids(todo'[c]) \subseteq SelfRids(todo[c])
            /\ h.fault = "selfcall" => h.rid \in SelfRids(todo[c]) /\ h.rid \notin SelfRids(todo'[c])
        BY <1>a, <1>b, <2>1, <2>5, OnceTail, SMTT(30)
      <3> HIDE DEF h
      <3>2. h.fault = "selfcall" => h.rid \notin SelfRids(sent[c])
        BY <1>b, <3>1
      <3>3. /\ Once(sent'[c]) /\ SelfRids(sent'[c]) \subseteq SelfRids(sent[c]) \cup {h.rid}
            /\ h.fault # "selfcall" => SelfRids(sent'[c]) \subseteq SelfRids(sent[c])
        <4> DEFINE s == sent[c]
                   e == Out(h)
        <4>1. sent'[c] = Append(s, e) /\ s \in Seq(Frames) /\ Once(s) /\ e \in Frames
                /\ e.fault = h.fault /\ e.rid = h.rid /\ (e.fault = "selfcall" => e.rid \notin SelfRids(s))
          BY <1>a, <1>b, <2>3, <2>4, <2>5, <3>2
        <4> HIDE DEF s, e
        <4>2. /\ Once(Append(s, e)) /\ SelfRids(Append(s, e)) \subseteq SelfRids(s) \cup {e.rid}
              /\ e.fault # "selfcall" => SelfRids(Append(s, e)) \subseteq SelfRids(s)
          BY <4>1, OnceAppend
        <4> QED
          BY <4>1, <4>2 DEF s
      <3>4. /\ SelfRids(todo'[c]) \cap SelfRids(sent'[c]) = {}
            /\ SelfRids(sent'[c]) \cap SelfRids(buf[c]) = {}
            /\ SelfRids(todo'[c]) \cap SelfRids(buf[c]) = {}
            /\ SelfRids(sent'[c]) \subseteq SelfRids(sent[c]) \cup SelfRids(todo[c])
        BY <1>b, <3>1, <3>3
      <3> QED
        BY <1>b, <2>2, <3>1, <3>3, <3>4 DEF Lined, Coming
    <2> QED
      BY <1>1, <2>1, <2>2, <2>3, <2>5
  <1>6. ASSUME NEW d \in Conns, OnConnectionClosed(d)
        PROVE  Lined(c)' /\ Coming(c)' \subseteq Coming(c)
    <2>1. UNCHANGED <<todo, sent>> /\ buf' = [buf EXCEPT ![d] = <<>>]
      BY <1>6 DEF OnConnectionClosed
    <2>2. CASE d = c
      <3>1. buf'[c] = <<>>
        BY <1>0, <2>1, <2>2
      <3> QED
        BY <1>b, <2>1, <3>1, OnceEmpty DEF Lined, Coming
    <2> QED
      BY <1>0, <1>1, <2>1, <2>2
  <1>7. ASSUME NEW l \in Loops, NEW d \in Conns, NEW p \in BOOLEAN, NEW k \in 0 .. Len(sent[d]), ReadEvent(l, d, k, p)
        PROVE  Lined(c)' /\ Coming(c)' \subseteq Coming(c)
    <2>1. /\ buf'[d] = buf[d] \o SubSeq(sent[d], 1, k)
          /\ sent'[d] = SubSeq(sent[d], k + 1, Len(sent[d]))
          /\ \A e \in Conns : e # d => buf'[e] = buf[e] /\ sent'[e] = sent[e]
      BY <1>7, ReadIs
    <2>2. todo' = todo
      BY <1>7 DEF ReadEvent
    <2>3. CASE d = c
      <3> DEFINE a == SubSeq(sent[c], 1, k)
      <3>1. /\ Once(a) /\ SelfRids(a) \subseteq SelfRids(sent[c])
            /\ Once(sent'[c]) /\ SelfRids(sent'[c]) \subseteq SelfRids(sent[c])
            /\ SelfRids(a) \cap SelfRids(sent'[c]) = {}
        <4> DEFINE s == sent[c]
        <4>1. s \in Seq(Frames) /\ k \in 0 .. Len(s) /\ Once(s) /\ sent'[c] = SubSeq(s, k + 1, Len(s)) /\ a = SubSeq(s, 1, k)
          BY <1>a, <1>b, <2>1, <2>3
        <4> HIDE DEF s, a
        <4>2. /\ Once(SubSeq(s, 1, k)) /\ SelfRids(SubSeq(s, 1, k)) \subseteq SelfRids(s)
              /\ Once(SubSeq(s, k + 1, Len(s))) /\ SelfRids(SubSeq(s, k + 1, Len(s))) \subseteq SelfRids(s)
              /\ SelfRids(SubSeq(s, 1, k)) \cap SelfRids(SubSeq(s, k + 1, Len(s))) = {}
          BY <4>1, OnceCut
        <4> QED
          BY <4>1, <4>2 DEF s
      <3>2. a \in Seq(Frames)
        BY <1>a, <2>3, CutElems
      <3>3. buf'[c] = buf[c] \o a
        BY <2>1, <2>3
      <3> HIDE DEF a
      <3>4. Once(buf'[c]) /\ SelfRids(buf'[c]) \subseteq SelfRids(buf[c]) \cup SelfRids(a)
        BY <1>a, <1>b, <3>1, <3>2, <3>3, OnceConcat
      <3>5. /\ SelfRids(todo[c]) \cap SelfRids(sent'[c]) = {}
            /\ SelfRids(todo[c]) \cap SelfRids(buf'[c]) = {}
            /\ SelfRids(sent'[c]) \cap SelfRids(buf'[c]) = {}
            /\ SelfRids(buf'[c]) \subseteq SelfRids(buf[c]) \cup SelfRids(sent[c])
        BY <1>b, <3>1, <3>4
      <3> QED
        BY <1>b, <2>2, <3>1, <3>4, <3>5 DEF Lined, Coming
    <2> QED
      BY <1>1, <2>1, <2>2, <2>3
  <1>8. ASSUME NEW l \in Loops, Undecodable(l) \/ Decode(l)
        PROVE  Lined(c)' /\ Coming(c)' \subseteq Coming(c)
    <2> DEFINE d == loop[l].conn
    <2>1. d \in Conns /\ buf[d] # <<>> /\ buf' = [buf EXCEPT ![d] = Tail(@)] /\ UNCHANGED <<todo, sent>>
      BY <1>8, ParseIs DEF Undecodable, Decode, Parsing, Processable
    <2> HIDE DEF d
    <2>2. buf'[d] = Tail(buf[d]) /\ \A e \in Conns : e # d => buf'[e] = buf[e]
      BY <2>1, TakenIs
    <2>3. CASE d = c
      <3>1. Once(buf'[c]) /\ SelfRids(buf'[c]) \subseteq SelfRids(buf[c])
        BY <1>a, <1>b, <2>1, <2>2, <2>3, OnceTail
      <3> QED
        BY <1>b, <2>1, <3>1 DEF Lined, Coming
    <2> QED
      BY <1>1, <2>1, <2>2, <2>3
  <1>9. ASSUME UNCHANGED netVars PROVE Lined(c)' /\ Coming(c)' \subseteq Coming(c)
    BY <1>1, <1>9 DEF netVars
  <1>10. ASSUME NEW l \in Loops, UnknownType(l) \/ OverLimit(l)
         PROVE  Lined(c)' /\ Coming(c)' \subseteq Coming(c)
    BY <1>1, <1>10 DEF UnknownType, OverLimit
  <1>11. ASSUME NEW l \in Loops, LoopStep(l), ~OverLimit(l), ~Undecodable(l), ~Decode(l),
                ~UnknownType(l), ~HandlerCalls(l)
         PROVE  UNCHANGED netVars
    BY <1>11 DEF LoopStep, Incomplete, Lock, Backoff, OnRpcRequst, ServiceThrows, OnProtoRequest,
                 LookupCrashes, AwaitEnds, Respond
  <1>12. ASSUME AnnounceMethod \/ RegisterMethod \/ RegisterProtoHandler \/ Inserted \/ AnnounceProto
         PROVE  UNCHANGED netVars
    BY <1>12 DEF AnnounceMethod, RegisterMethod, RegisterProtoHandler, Inserted, AnnounceProto
  <1>13. UNCHANGED serverVars => UNCHANGED netVars
    BY DEF serverVars
  <1>14. CASE ServerNext
    BY <1>4, <1>5, <1>6, <1>7, <1>8, <1>9, <1>10, <1>11, <1>12, <1>14 DEF ServerNext
  <1> QED
    BY <1>3, <1>9, <1>13, <1>14, ServerView

\* The request that a loop has at hand was in line before, or it had it already.
LEMMA HandStep ==
  ASSUME NetTyped, LoopTyped, JobTyped, SelfInv, [Next]_vars, NEW l \in Loops, AtHand(l)'
  PROVE  \E c \in Conns :
           /\ loop'[l].conn = c /\ loop[l].conn = c
           /\ loop'[l].frame.rid \in {c} \X Nat
           /\ loop'[l].frame.rid \notin Coming(c)'
           /\ \/ AtHand(l) /\ loop'[l].frame = loop[l].frame /\ ~HandlerCalls(l)
              \/ Decode(l) /\ loop'[l].frame.rid \in Coming(c)
  <1>0. loop'[l].pc \in {"lock", "run"} /\ loop'[l].frame.fault = "selfcall"
    BY DEF AtHand
  <1>1. CASE AtHand(l) /\ loop'[l].frame = loop[l].frame /\ loop'[l].conn = loop[l].conn /\ ~HandlerCalls(l)
    <2> DEFINE c == loop[l].conn
    <2>1. loop[l].pc \in {"lock", "run"}
      BY <1>1 DEF AtHand
    <2>2. c \in Conns /\ loop[l].frame.rid \in {c} \X Nat /\ loop[l].frame.rid \notin Coming(c)
      BY <1>1, <2>1, BusyIs DEF SelfInv, ComesOnce
    <2>3. \A d \in Conns : Coming(d)' \subseteq Coming(d)
      BY LineStep
    <2>4. loop'[l].conn = c /\ loop[l].conn = c
      BY <1>1
    <2> HIDE DEF c
    <2> QED
      BY <1>1, <2>2, <2>3, <2>4
  <1>2. CASE Decode(l) /\ loop'[l].conn = loop[l].conn /\ loop'[l].frame = Head(buf[loop[l].conn])
    <2>a. PICK c : c = loop[l].conn
      OBVIOUS
    <2>b. PICK h : h = Head(buf[c])
      OBVIOUS
    <2>1. c \in Conns /\ buf[c] # <<>> /\ buf' = [buf EXCEPT ![c] = Tail(@)] /\ UNCHANGED <<todo, sent>>
      BY <1>2, <2>a, ParseIs DEF Decode, Parsing, Processable
    <2>2. buf'[c] = Tail(buf[c]) /\ buf[c] \in Seq(Frames)
      BY <2>1, TakenIs DEF NetTyped
    <2>3. Lined(c)
      BY <2>1 DEF SelfInv, ComesOnce
    <2>4. h.fault = "selfcall" /\ loop'[l].frame = h /\ loop'[l].conn = c /\ loop[l].conn = c
      BY <1>0, <1>2, <2>a, <2>b
    <2>5. h.rid \in SelfRids(buf[c]) /\ h.rid \notin SelfRids(buf'[c])
      BY <2>b, <2>1, <2>2, <2>3, <2>4, OnceTail DEF Lined
    <2>6. h.rid \in Coming(c) /\ h.rid \in {c} \X Nat
      BY <2>3, <2>5 DEF Lined, Coming
    <2>7. h.rid \notin Coming(c)'
      BY <2>1, <2>3, <2>5 DEF Lined, Coming
    <2> QED
      BY <1>2, <2>1, <2>4, <2>6, <2>7
  <1>3. Moves(l)
    BY LoopView
  <1>4. loop'[l] = loop[l] => AtHand(l) /\ ~HandlerCalls(l)
    <2>1. HandlerCalls(l) => loop[l].pc = "run" /\ loop' = [loop EXCEPT ![l].pc = "await"]
      BY DEF HandlerCalls, Running
    <2>2. loop[l].pc = "run" => loop[l] \in Busy
      BY BusyIs
    <2>3. HandlerCalls(l) => loop'[l].pc = "await"
      BY <2>1, <2>2 DEF LoopTyped, Busy
    <2> QED
      BY <1>0, <2>3 DEF AtHand
  <1>5. Lock(l) => loop[l].pc = "lock" /\ ~HandlerCalls(l)
    BY DEF Lock, HandlerCalls, Running
  <1> QED
    BY <1>0, <1>1, <1>2, <1>3, <1>4, <1>5 DEF Moves, AtHand

\* Nothing was heard of the call of a handler before, unless the handler made it.
LEMMA NotYetStep ==
  ASSUME NetTyped, LoopTyped, JobTyped, SelfInv, [Next]_vars, NEW c \in Conns, NEW r \in {c} \X Nat, NotYet(r),
         \A l \in Loops : HandlerCalls(l) => loop[l].frame.rid # r
  PROVE  NotYet(r)'
  <1>1. SelfOf(r)[1] = "self" /\ SelfOf(r) = <<"self", r[1], r[2]>>
    BY DEF SelfOf
  <1>2. ASSUME NEW h \in Frames, h.rid # SelfOf(r), Flight' \subseteq Flight \cup {Out(h)}
        PROVE  \A f \in Flight' : f.rid # SelfOf(r)
    BY <1>2, OutIs DEF NotYet
  <1>3. \A f \in Flight' : f.rid # SelfOf(r)
    <2>1. CASE Flight' \subseteq Flight
      BY <2>1 DEF NotYet
    <2>2. ASSUME NEW g \in Threads, job[g].pc \in {"attempt", "resend"}, Flight' \subseteq Flight \cup {Out(Ask(g))}
          PROVE  \A f \in Flight' : f.rid # SelfOf(r)
      <3>1. Ask(g) \in Frames /\ Ask(g).rid = <<job[g].c, job[g].n + 1>> /\ job[g].c \in HttpConns
        BY <2>2, AskIs
      <3>2. Ask(g).rid[1] # "self"
        BY <3>1, Constants
      <3> QED
        BY <1>1, <1>2, <2>2, <3>1, <3>2
    <2>3. ASSUME NEW d \in Conns, PeerSends(d), Flight' \subseteq Flight \cup {Out(Head(todo[d]))}
          PROVE  \A f \in Flight' : f.rid # SelfOf(r)
      <3>1. Head(todo[d]) \in Frames /\ Head(todo[d]) \in Elems(todo[d])
        BY <2>3, PeerIs
      <3>2. Head(todo[d]).rid \in {d} \X Nat
        BY <3>1 DEF SelfInv, ComesOnce
      <3>3. Head(todo[d]).rid[1] # "self"
        BY <3>2, Constants
      <3> QED
        BY <1>1, <1>2, <2>3, <3>1, <3>3
    <2>4. ASSUME NEW l \in Loops, HandlerCalls(l), Flight' \subseteq Flight \cup {Out(Own(l))}
          PROVE  \A f \in Flight' : f.rid # SelfOf(r)
      <3>1. loop[l].pc = "run" /\ loop[l].frame.fault = "selfcall"
        BY <2>4 DEF HandlerCalls, Running
      <3>2. Own(l) \in Frames /\ Own(l).rid = SelfOf(loop[l].frame.rid) /\ loop[l].frame.rid \in {loop[l].conn} \X Nat
        BY <3>1, OwnIs
      <3>3. loop[l].frame.rid # r
        BY <2>4
      <3>4. SelfOf(loop[l].frame.rid) # SelfOf(r)
        BY <3>2, <3>3 DEF SelfOf
      <3> QED
        BY <1>2, <2>4, <3>2, <3>4
    <2> QED
      BY <2>1, <2>2, <2>3, <2>4, FlightStep
  <1>4. \A p \in replies'[SelfConn] : p.rid # SelfOf(r)
    <2>1. CASE UNCHANGED <<replies, executed>>
      BY <2>1 DEF NotYet
    <2>2. ASSUME NEW l \in Loops, Answered(l) PROVE \A p \in replies'[SelfConn] : p.rid # SelfOf(r)
      <3>1. PICK code \in Codes, ran \in BOOLEAN : loop[l].pc \in {"run", "await"} /\ Respond(l, code, ran)
        BY <2>2 DEF Answered
      <3>2. \A p \in replies'[SelfConn] : p \notin replies[SelfConn] => p.rid = loop[l].frame.rid
        BY <3>1, RespondIs, Constants
      <3>3. loop[l].frame \in Flight
        BY <3>1, FlightHas
      <3> QED
        BY <3>2, <3>3 DEF NotYet
    <2> QED
      BY <2>1, <2>2, ReplyView
  <1> QED
    BY <1>3, <1>4 DEF NotYet

LEMMA SelfStep ==
  ASSUME NetTyped, LoopTyped, JobTyped, SelfInv, [Next]_vars
  PROVE  SelfInv'
  <1>1. \A c \in Conns : (\A f \in Elems(todo'[c]) : f.rid \in {c} \X Nat) /\ Lined(c)' /\ Coming(c)' \subseteq Coming(c)
    BY TodoStep, LineStep DEF SelfInv, ComesOnce
  <1>2. \A l \in Loops : AtHand(l)' =>
          /\ loop'[l].frame.rid \in {loop'[l].conn} \X Nat
          /\ loop'[l].frame.rid \notin Coming(loop[l].conn)'
    <2> SUFFICES ASSUME NEW l \in Loops, AtHand(l)'
                 PROVE  /\ loop'[l].frame.rid \in {loop'[l].conn} \X Nat
                        /\ loop'[l].frame.rid \notin Coming(loop[l].conn)'
      OBVIOUS
    <2>1. PICK c \in Conns : /\ loop'[l].conn = c /\ loop'[l].frame.rid \in {c} \X Nat
                             /\ loop'[l].frame.rid \notin Coming(c)'
      BY HandStep
    <2> QED
      BY <2>1 DEF Coming
  <1>3. ComesOnce'
    BY <1>1, <1>2 DEF ComesOnce
  \* A handler that calls its own server now has the only request of this id.
  <1>4. ASSUME NEW l \in Loops, HandlerCalls(l)
        PROVE  /\ \A c \in Conns : loop[l].frame.rid \notin Coming(c)
               /\ \A k \in Loops : AtHand(k) /\ loop[k].frame.rid = loop[l].frame.rid => k = l
               /\ AtHand(l)
    <2>1. AtHand(l)
      BY <1>4 DEF HandlerCalls, Running, AtHand
    <2>2. \A k \in Loops : AtHand(k) =>
            /\ loop[k].conn \in Conns /\ loop[k].frame.rid \in {loop[k].conn} \X Nat
            /\ loop[k].frame.rid \notin Coming(loop[k].conn) /\ LoopOf[loop[k].conn] = k
      BY BusyIs DEF SelfInv, ComesOnce, AtHand, LoopTyped
    <2>3. \A c \in Conns : Coming(c) \subseteq {c} \X Nat
      BY DEF SelfInv, ComesOnce, Lined
    <2>4. ASSUME NEW c \in Conns, loop[l].frame.rid \in Coming(c) PROVE FALSE
      <3>1. loop[l].frame.rid[1] = c /\ loop[l].frame.rid[1] = loop[l].conn
        BY <2>1, <2>2, <2>3, <2>4
      <3> QED
        BY <2>1, <2>2, <2>4, <3>1
    <2>5. ASSUME NEW k \in Loops, AtHand(k), loop[k].frame.rid = loop[l].frame.rid PROVE k = l
      <3>1. loop[l].frame.rid[1] = loop[k].conn /\ loop[l].frame.rid[1] = loop[l].conn
        BY <2>1, <2>2, <2>5
      <3> QED
        BY <2>1, <2>2, <2>5, <3>1
    <2> QED
      BY <2>1, <2>4, <2>5
  <1>5. ASSUME NEW c \in Conns, NEW r \in Coming(c)' PROVE NotYet(r)'
    <2>1. r \in Coming(c) /\ r \in {c} \X Nat /\ NotYet(r)
      BY <1>1 DEF SelfInv, ComesOnce, Lined
    <2>2. \A l \in Loops : HandlerCalls(l) => loop[l].frame.rid # r
      BY <1>4, <2>1
    <2> QED
      BY <2>1, <2>2, NotYetStep
  <1>6. ASSUME NEW l \in Loops, AtHand(l)' PROVE NotYet(loop[l].frame.rid)'
    <2>1. PICK c \in Conns :
           /\ loop'[l].frame.rid \in {c} \X Nat
           /\ \/ AtHand(l) /\ loop'[l].frame = loop[l].frame /\ ~HandlerCalls(l)
              \/ Decode(l) /\ loop'[l].frame.rid \in Coming(c)
      BY <1>6, HandStep
    <2>2. PICK r : r = loop'[l].frame.rid
      OBVIOUS
    <2>3. r \in {c} \X Nat
      BY <2>1, <2>2
    <2>4. NotYet(r) /\ \A k \in Loops : HandlerCalls(k) => loop[k].frame.rid # r
      BY <1>4, <2>1, <2>2 DEF SelfInv
    <2>5. NotYet(r)'
      BY <2>3, <2>4, NotYetStep
    <2> QED
      BY <2>2, <2>5 DEF NotYet
  <1>7. SelfCallStarves'
    <2> SUFFICES ASSUME NEW l \in Loops, loop'[l].pc = "await", NEW p \in replies'[SelfConn],
                        p.rid = SelfRid(loop'[l].frame)
                 PROVE  FALSE
      BY DEF SelfCallStarves, SelfRid
    <2>1. loop'[l] = loop[l] \/ (HandlerCalls(l) /\ loop'[l].frame = loop[l].frame)
      <3>1. Moves(l)
        BY LoopView
      <3> QED
        BY <3>1 DEF Moves
    <2>2. CASE HandlerCalls(l) /\ loop'[l].frame = loop[l].frame
      <3>1. replies' = replies
        BY <2>2 DEF HandlerCalls
      <3>2. NotYet(loop[l].frame.rid)
        BY <1>4, <2>2 DEF SelfInv
      <3>3. SelfRid(loop'[l].frame) = SelfOf(loop[l].frame.rid)
        BY <2>2 DEF SelfRid, SelfOf
      <3> QED
        BY <3>1, <3>2, <3>3 DEF NotYet
    <2>3. CASE loop'[l] = loop[l]
      <3>1. CASE UNCHANGED <<replies, executed>>
        BY <2>3, <3>1 DEF SelfInv, SelfCallStarves
      <3>2. ASSUME NEW k \in Loops, Answered(k) PROVE FALSE
        <4>1. PICK code \in Codes, ran \in BOOLEAN : loop[k].pc \in {"run", "await"} /\ Respond(k, code, ran)
          BY <3>2 DEF Answered
        <4>2. k = l
          BY <2>3, <4>1 DEF LoopTyped
        <4>3. loop' = [loop EXCEPT ![k] = [pc |-> "parse", conn |-> loop[k].conn]]
          BY <4>1, RespondIs
        <4>4. loop'[l].pc = "parse"
          BY <4>2, <4>3 DEF LoopTyped
        <4> QED
          BY <4>4
      <3> QED
        BY <3>1, <3>2, ReplyView
    <2> QED
      BY <2>1, <2>2, <2>3
  <1> QED
    BY <1>3, <1>5, <1>6, <1>7 DEF SelfInv

---------------------------------------------------------------------------
(* The jobs of the gateway.                                                *)

\* The bucket sees nothing but calls of allow() and the clock.
LEMMA BucketView == [Next]_vars => [BucketNext]_bucketVars
  <1> SUFFICES ASSUME [Next]_vars PROVE [BucketNext]_bucketVars
    OBVIOUS
  <1>1. CASE UNCHANGED vars
    BY <1>1 DEF vars
  <1>2. CASE \E c \in HttpConns : \E k \in 1 .. Len(http[c].wire) : HttpRead(HttpLoopOf[c], c, k)
    BY <1>2 DEF HttpRead
  <1>3. ASSUME NEW g \in Threads, GatewayStep(g) PROVE [BucketNext]_bucketVars
    <2>1. CASE AllowBegins(g) \/ Allowed(g) \/ RateLimited(g)
      BY <2>1 DEF AllowBegins, Allowed, RateLimited, BucketNext
    <2>2. CASE Attempt(g) \/ Resend(g)
      BY <2>2 DEF Attempt, Resend, SendRequest
    <2> QED
      BY <1>3, <2>1, <2>2 DEF GatewayStep, NotFound, HandleLocally, BadJson, HandleEcho, NoConnection,
                CircuitOpen, EchoDone, EchoBackoff, EchoFails, EchoTimesOut
  <1>4. CASE ServerNext /\ UNCHANGED <<bucketVars, http, job>>
    BY <1>4
  <1>5. CASE Tick
    BY <1>5 DEF BucketNext
  <1> QED
    BY <1>1, <1>2, <1>3, <1>4, <1>5 DEF Next

LEMMA JobIs ==
  ASSUME JobTyped, NEW g \in Threads, job[g].pc # "idle"
  PROVE  /\ job[g] \in Jobs /\ job[g] # NoJob /\ Counted(job[g]) /\ HttpLoopOf[job[g].c] = g
         /\ job[g].c \in HttpConns /\ job[g].what \in Wants /\ job[g].n \in Nat /\ job[g].attempt \in Nat
         /\ job[g].resent \in BOOLEAN /\ job[g].pc \in Early \cup Late
  <1>1. job[g] \in {NoJob} \cup Jobs
    BY DEF JobTyped
  <1>2. job[g] \in Jobs /\ job[g] # NoJob
    BY <1>1 DEF NoJob
  <1> QED
    BY <1>2 DEF JobTyped, Jobs, Early, Late

LEMMA SomeJob ==
  ASSUME JobTyped, NEW g \in Threads, job[g] # NoJob
  PROVE  job[g].pc # "idle"
  <1>1. job[g] \in Jobs
    BY DEF JobTyped
  <1> QED
    BY <1>1 DEF Jobs

\* A job goes on ...
Goes(g, j) ==
  /\ job[g].pc # "idle"
  /\ http' = http /\ job' = [job EXCEPT ![g] = j]
  /\ j.c = job[g].c /\ j.what = job[g].what
  /\ \/ job[g].pc \in Early /\ j.pc \in Early
     \/ job[g].pc = "route" /\ job[g].what = "echo" /\ j.pc \in Late
     \/ job[g].pc \in Late /\ j.pc \in Late
  /\ Counted(j)

\* ... or ends with a status.
Says(g, s) ==
  /\ job[g].pc # "idle"
  /\ SendResponse(g, s)
  /\ s = 200 => \/ job[g].pc = "route" /\ job[g].what = "local"
                \/ \E r \in replies[GwConn] : r.code = "SUCCESS" /\ r.rid = Rid(g)
  /\ s \in {400, 404, 429} => job[g].pc \in Early
  /\ s = 404 => job[g].what = "nowhere"

LEMMA FailsView ==
  ASSUME JobTyped, NEW g \in Threads, job[g].pc \in Late, NEW err, Fails(g, err)
  PROVE  (\E j \in Jobs : Goes(g, j)) \/ Says(g, 502)
  <1>0. /\ job[g] \in Jobs /\ Counted(job[g]) /\ job[g].attempt \in Nat /\ job[g].n \in Nat /\ job[g].resent \in BOOLEAN
        /\ job[g].pc # "idle" /\ job \in [Threads -> {NoJob} \cup Jobs]
    BY JobIs DEF Late, JobTyped
  <1>1. CASE job[g].attempt < MaxRetries /\ http' = http
               /\ job' = [job EXCEPT ![g].pc = "attempt", ![g].attempt = @ + 1, ![g].resent = FALSE]
    <2>0. PICK m : m = job[g].attempt + 1
      OBVIOUS
    <2> DEFINE j == [job[g] EXCEPT !.pc = "attempt", !.attempt = m, !.resent = FALSE]
    <2>1. job' = [job EXCEPT ![g] = j]
      BY <1>0, <1>1, <2>0 DEF Jobs
    <2>a. m \in Nat
      BY <1>0, <2>0
    <2>2. /\ j \in Jobs /\ j.c = job[g].c /\ j.what = job[g].what /\ j.pc = "attempt" /\ j.n = job[g].n
          /\ j.attempt = m
      BY <1>0, <2>a DEF Jobs
    <2> HIDE DEF j
    <2>3. Counted(j)
      <3>1. job[g].n <= 2 * job[g].attempt + 2
        BY <1>0 DEF Counted
      <3>2. MaxRetries \in Nat
        BY Constants
      <3> QED
        BY <1>0, <1>1, <2>0, <2>a, <2>2, <3>1, <3>2 DEF Counted
    <2>4. Goes(g, j)
      BY <1>0, <1>1, <2>1, <2>2, <2>3 DEF Goes, Late
    <2> QED
      BY <2>2, <2>4
  <1>2. CASE SendResponse(g, 502)
    BY <1>0, <1>2 DEF Says
  <1> QED
    BY <1>1, <1>2 DEF Fails

LEMMA SendView ==
  ASSUME JobTyped, NEW g \in Threads, job[g].pc \in {"attempt", "resend"}, SendRequest(g)
  PROVE  \E j \in Jobs : Goes(g, j)
  <1>0. /\ job[g] \in Jobs /\ Counted(job[g]) /\ job[g].attempt \in Nat /\ job[g].n \in Nat /\ job[g].resent \in BOOLEAN
        /\ job[g].pc # "idle" /\ job \in [Threads -> {NoJob} \cup Jobs]
    BY JobIs DEF Late, JobTyped
  <1>a. PICK m : m = job[g].n + 1
    OBVIOUS
  <1> DEFINE j == [job[g] EXCEPT !.pc = "wait", !.n = m]
  <1>1. job' = [job EXCEPT ![g] = j] /\ http' = http
    BY <1>0, <1>a DEF SendRequest, Jobs
  <1>b. m \in Nat
    BY <1>0, <1>a
  <1>2. /\ j \in Jobs /\ j.c = job[g].c /\ j.what = job[g].what /\ j.pc = "wait" /\ j.n = m
        /\ j.attempt = job[g].attempt /\ j.resent = job[g].resent
    BY <1>0, <1>b DEF Jobs
  <1> HIDE DEF j
  <1>3. Counted(j)
    BY <1>0, <1>a, <1>b, <1>2, Constants DEF Counted
  <1>4. Goes(g, j)
    BY <1>0, <1>1, <1>2, <1>3 DEF Goes, Late
  <1> QED
    BY <1>2, <1>4

\* What a step does with the jobs and the HTTP connections.
LEMMA JobView ==
  ASSUME JobTyped, [Next]_vars
  PROVE  \/ UNCHANGED <<http, job>>
         \/ \E c \in HttpConns : \E k \in 1 .. Len(http[c].wire) : HttpRead(HttpLoopOf[c], c, k)
         \/ \E g \in Threads : \E j \in Jobs : Goes(g, j)
         \/ \E g \in Threads : \E s \in {200, 400, 404, 429, 502} : Says(g, s)
  <1>1. ASSUME NEW g \in Threads, NEW p \in {"allow", "route", "attempt", "resend"},
               job[g].pc # "idle", http' = http, job' = [job EXCEPT ![g].pc = p],
               job[g].pc \in Early, p # "resend", p = "attempt" => job[g].pc = "route" /\ job[g].what = "echo"
        PROVE  \E j \in Jobs : Goes(g, j)
    <2>0. /\ job[g] \in Jobs /\ Counted(job[g]) /\ job[g].attempt \in Nat /\ job[g].n \in Nat
          /\ job \in [Threads -> {NoJob} \cup Jobs]
      BY <1>1, JobIs DEF JobTyped
    <2> DEFINE j == [job[g] EXCEPT !.pc = p]
    <2>1. job' = [job EXCEPT ![g] = j]
      BY <1>1, <2>0 DEF Jobs
    <2>2. /\ j \in Jobs /\ j.c = job[g].c /\ j.what = job[g].what /\ j.pc = p /\ j.n = job[g].n
          /\ j.attempt = job[g].attempt /\ j.resent = job[g].resent
      BY <1>1, <2>0 DEF Jobs
    <2> HIDE DEF j
    <2>3. Counted(j)
      BY <1>1, <2>0, <2>2 DEF Counted, Early
    <2>4. Goes(g, j)
      BY <1>1, <2>1, <2>2, <2>3 DEF Goes, Early, Late
    <2> QED
      BY <2>2, <2>4
  <1>2. ASSUME NEW g \in Threads, AllowBegins(g) \/ Allowed(g) \/ HandleEcho(g)
        PROVE  \E j \in Jobs : Goes(g, j)
    BY <1>1, <1>2 DEF AllowBegins, Allowed, HandleEcho, Early
  <1>3. ASSUME NEW g \in Threads, EchoBackoff(g) PROVE \E j \in Jobs : Goes(g, j)
    <2>1. /\ job[g].pc = "wait" /\ ~job[g].resent /\ http' = http
          /\ job' = [job EXCEPT ![g].pc = "resend", ![g].resent = TRUE]
      BY <1>3 DEF EchoBackoff
    <2>0. /\ job[g] \in Jobs /\ Counted(job[g]) /\ job[g].attempt \in Nat /\ job[g].n \in Nat
          /\ job \in [Threads -> {NoJob} \cup Jobs]
      BY <2>1, JobIs DEF JobTyped
    <2> DEFINE j == [job[g] EXCEPT !.pc = "resend", !.resent = TRUE]
    <2>2. job' = [job EXCEPT ![g] = j]
      BY <2>0, <2>1 DEF Jobs
    <2>3. /\ j \in Jobs /\ j.c = job[g].c /\ j.what = job[g].what /\ j.pc = "resend" /\ j.n = job[g].n
          /\ j.attempt = job[g].attempt /\ j.resent = TRUE
      BY <2>0 DEF Jobs
    <2> HIDE DEF j
    <2>4. Counted(j)
      BY <2>0, <2>1, <2>3 DEF Counted
    <2>5. Goes(g, j)
      BY <2>1, <2>2, <2>3, <2>4 DEF Goes, Late
    <2> QED
      BY <2>3, <2>5
  <1>4. ASSUME NEW g \in Threads, Attempt(g) \/ Resend(g) PROVE \E j \in Jobs : Goes(g, j)
    BY <1>4, SendView DEF Attempt, Resend
  <1>5. ASSUME NEW g \in Threads, NoConnection(g) \/ CircuitOpen(g) \/ EchoFails(g) \/ EchoTimesOut(g)
        PROVE  (\E j \in Jobs : Goes(g, j)) \/ Says(g, 502)
    <2>1. job[g].pc \in Late /\ \E err : Fails(g, err)
      BY <1>5 DEF NoConnection, CircuitOpen, EchoFails, EchoTimesOut, Late
    <2> QED
      BY <2>1, FailsView
  <1>6. ASSUME NEW g \in Threads, RateLimited(g) \/ NotFound(g) \/ HandleLocally(g) \/ BadJson(g) \/ EchoDone(g)
        PROVE  \E s \in {200, 400, 404, 429, 502} : Says(g, s)
    <2>1. CASE RateLimited(g)
      BY <2>1 DEF RateLimited, Says, Early
    <2>2. CASE NotFound(g)
      BY <2>2 DEF NotFound, Says, Early
    <2>3. CASE HandleLocally(g)
      BY <2>3 DEF HandleLocally, Says, Early
    <2>4. CASE BadJson(g)
      BY <2>4 DEF BadJson, Says, Early
    <2>5. CASE EchoDone(g)
      BY <2>5 DEF EchoDone, Says, Answers
    <2> QED
      BY <1>6, <2>1, <2>2, <2>3, <2>4, <2>5
  <1>7. ASSUME NEW g \in Threads, GatewayStep(g)
        PROVE  \/ \E j \in Jobs : Goes(g, j)
               \/ \E s \in {200, 400, 404, 429, 502} : Says(g, s)
    BY <1>2, <1>3, <1>4, <1>5, <1>6, <1>7 DEF GatewayStep
  <1>8. CASE UNCHANGED vars
    BY <1>8 DEF vars
  <1> QED
    BY <1>7, <1>8 DEF Next

---------------------------------------------------------------------------
(* Parsing.                                                                *)

\* What the headers of a request lead to.
HeadersDone(rest, ok, p) ==
  /\ p.buf \in Seq(Pieces) /\ ~Has(p.buf, "end")
  /\ p.res \in {"wait", "call"} /\ p.routed \in {FALSE, ok}
  /\ p.res = "call" => Has(rest, "end") /\ p.routed = ok
  /\ \A e \in 1 .. Len(rest) :
       rest[e] = "end" /\ ((\E i \in 1 .. e : rest[i] = "len") => e < Len(rest)) => p.res = "call"

LEMMA HeadersIs ==
  ASSUME NEW rest \in Seq(Pieces), NEW ok, OneEnd(rest)
  PROVE  HeadersDone(rest, ok, Headers(rest, ok))
  <1> DEFINE ends == {i \in DOMAIN rest : rest[i] = "end"}
             e == CHOOSE i \in ends : TRUE
             after == SubSeq(rest, e + 1, Len(rest))
             p == Headers(rest, ok)
  <1>0. DOMAIN rest = 1 .. Len(rest) /\ Len(rest) \in Nat
    OBVIOUS
  <1>1. \A i : i \in ends <=> i \in 1 .. Len(rest) /\ rest[i] = "end"
    BY <1>0
  <1>2. p = IF ends = {} THEN Waits(<<>>)
            ELSE IF \A i \in 1 .. e : rest[i] # "len" THEN Calls(after, ok)
            ELSE IF HasBody(after) THEN Calls(Tail(after), ok)
            ELSE Waits(after)
    BY DEF Headers
  <1>3. ends # {} => e \in ends
    <2> HIDE DEF ends
    <2> QED
      OBVIOUS
  <1> HIDE DEF ends, e
  <1>4. CASE ends = {}
    <2>1. p = Waits(<<>>)
      BY <1>2, <1>4
    <2>2. p.buf = <<>> /\ p.res = "wait" /\ p.routed = FALSE
      BY <2>1 DEF Waits
    <2>3. ~\E i \in 1 .. Len(rest) : rest[i] = "end"
      BY <1>1, <1>4
    <2> HIDE DEF p
    <2>4. ~Has(p.buf, "end")
      BY <2>2 DEF Has
    <2>a. <<>> \in Seq(Pieces)
      OBVIOUS
    <2>5. p.buf \in Seq(Pieces) /\ p.res \in {"wait", "call"} /\ p.routed \in {FALSE, ok} /\ p.res # "call"
      BY <2>2, <2>a
    <2> QED
      BY <2>3, <2>4, <2>5 DEF p, HeadersDone
  <1>5. CASE ends # {}
    <2>1. e \in 1 .. Len(rest) /\ rest[e] = "end"
      BY <1>1, <1>3, <1>5
    <2>2. /\ after \in Seq(Pieces) /\ Len(after) = Len(rest) - e
          /\ \A i \in 1 .. Len(rest) - e : i + e \in 1 .. Len(rest) /\ after[i] = rest[i + e]
      <3>1. e \in 0 .. Len(rest)
        BY <1>0, <2>1
      <3>2. \A k \in 0 .. Len(rest) :
              /\ SubSeq(rest, k + 1, Len(rest)) \in Seq(Pieces) /\ Len(SubSeq(rest, k + 1, Len(rest))) = Len(rest) - k
              /\ \A i \in 1 .. Len(rest) - k :
                   i + k \in 1 .. Len(rest) /\ SubSeq(rest, k + 1, Len(rest))[i] = rest[i + k]
        BY CutElems, ZenonT(30)
      <3> QED
        BY <3>1, <3>2
    <2> HIDE DEF after
    <2>3. ~Has(after, "end")
      <3> SUFFICES ASSUME NEW i \in 1 .. Len(after), after[i] = "end" PROVE FALSE
        BY DEF Has
      <3>1. i + e \in 1 .. Len(rest) /\ rest[i + e] = "end"
        BY <2>2
      <3>2. i + e = e
        BY <2>1, <3>1 DEF OneEnd
      <3> QED
        BY <1>0, <2>1, <2>2, <3>2
    <2>4. after # <<>> => Tail(after) \in Seq(Pieces) /\ ~Has(Tail(after), "end")
      <3> SUFFICES ASSUME after # <<>> PROVE Tail(after) \in Seq(Pieces) /\ ~Has(Tail(after), "end")
        OBVIOUS
      <3>1. /\ Tail(after) \in Seq(Pieces)
            /\ \A i \in 1 .. Len(Tail(after)) : i + 1 \in 1 .. Len(after) /\ Tail(after)[i] = after[i + 1]
        BY <2>2, TailElems
      <3> QED
        BY <2>3, <3>1 DEF Has
    <2>5. HasBody(after) => after # <<>>
      BY <2>2 DEF HasBody
    <2>6. Has(rest, "end")
      BY <2>1 DEF Has
    <2>7. CASE \A i \in 1 .. e : rest[i] # "len"
      <3>1. p = Calls(after, ok)
        BY <1>2, <1>5, <2>7
      <3>2. p.buf = after /\ p.res = "call" /\ p.routed = ok
        BY <3>1 DEF Calls
      <3> HIDE DEF p
      <3>3. /\ p.buf \in Seq(Pieces) /\ ~Has(p.buf, "end") /\ p.res = "call" /\ p.routed = ok
        BY <2>2, <2>3, <3>2
      <3> QED
        BY <2>6, <3>3 DEF p, HeadersDone
    <2>8. CASE ~(\A i \in 1 .. e : rest[i] # "len") /\ HasBody(after)
      <3>1. p = Calls(Tail(after), ok)
        BY <1>2, <1>5, <2>8
      <3>2. p.buf = Tail(after) /\ p.res = "call" /\ p.routed = ok
        BY <3>1 DEF Calls
      <3> HIDE DEF p
      <3>3. /\ p.buf \in Seq(Pieces) /\ ~Has(p.buf, "end") /\ p.res = "call" /\ p.routed = ok
        BY <2>4, <2>5, <2>8, <3>2
      <3> QED
        BY <2>6, <3>3 DEF p, HeadersDone
    <2>9. CASE ~(\A i \in 1 .. e : rest[i] # "len") /\ ~HasBody(after)
      <3>1. p = Waits(after)
        BY <1>2, <1>5, <2>9
      <3>2. p.buf = after /\ p.res = "wait" /\ p.routed = FALSE
        BY <3>1 DEF Waits
      <3>3. \A k \in 1 .. Len(rest) : rest[k] = "end" => ~((\E i \in 1 .. k : rest[i] = "len") => k < Len(rest))
        <4> SUFFICES ASSUME NEW k \in 1 .. Len(rest), rest[k] = "end"
                     PROVE  (\E i \in 1 .. k : rest[i] = "len") /\ ~(k < Len(rest))
          OBVIOUS
        <4>1. k = e
          BY <2>1 DEF OneEnd
        <4>2. ~(Len(after) >= 1)
          BY <2>9 DEF HasBody
        <4> QED
          BY <1>0, <2>1, <2>2, <2>9, <4>1, <4>2
      <3> HIDE DEF p
      <3>4. /\ p.buf \in Seq(Pieces) /\ ~Has(p.buf, "end") /\ p.res = "wait" /\ p.routed \in {FALSE, ok}
        BY <2>2, <2>3, <3>2
      <3> QED
        BY <3>3, <3>4 DEF p, HeadersDone
    <2> QED
      BY <2>7, <2>8, <2>9
  <1> QED
    BY <1>4, <1>5

\* What onMessage makes of the buffer.
Parsed(b, p) ==
  /\ p.buf \in Seq(Pieces) /\ OneEnd(p.buf)
  /\ p.res \in {"wait", "shut", "call"} /\ p.routed \in BOOLEAN
  /\ Has(p.buf, "end") => Has(b, "end")
  /\ p.res = "call" => Has(b, "end") /\ ~Has(p.buf, "end")
  /\ IsRequest(b) => p.res = "call" /\ p.routed

LEMMA ParseDone ==
  ASSUME NEW b \in Seq(Pieces), OneEnd(b)
  PROVE  Parsed(b, Parse(b))
  <1> DEFINE p == Parse(b)
  <1>1. CASE b = <<>> \/ Head(b) = "body"
    <2>1. p = Waits(b)
      BY <1>1 DEF Parse
    <2>2. p.buf = b /\ p.res = "wait" /\ p.routed = FALSE
      BY <2>1 DEF Waits
    <2>3. ~IsRequest(b)
      BY <1>1 DEF IsRequest
    <2> HIDE DEF p
    <2>4. p.buf \in Seq(Pieces) /\ p.res \in {"wait", "shut", "call"} /\ p.res # "call" /\ p.routed \in BOOLEAN
            /\ OneEnd(p.buf) /\ (Has(p.buf, "end") => Has(b, "end"))
      BY <2>2
    <2> QED
      BY <2>3, <2>4 DEF p, Parsed
  <1>2. CASE b # <<>> /\ Head(b) # "body"
    <2> DEFINE t == Tail(b)
    <2>1. /\ t \in Seq(Pieces) /\ Head(b) = b[1] /\ Head(b) \in Pieces
          /\ Len(b) \in Nat /\ Len(b) >= 1 /\ Len(t) = Len(b) - 1
          /\ \A i \in 1 .. Len(t) : i + 1 \in 1 .. Len(b) /\ t[i] = b[i + 1]
          /\ \A j \in 1 .. Len(b) : j > 1 => j - 1 \in 1 .. Len(t) /\ t[j - 1] = b[j]
      BY <1>2, TailElems
    <2>2. p = IF ~IsRequestLine(Head(b)) THEN Shuts(t) ELSE Headers(t, Head(b) = "line")
      BY <1>2 DEF Parse
    <2> HIDE DEF t
    <2>3. OneEnd(t)
      <3> SUFFICES ASSUME NEW i \in 1 .. Len(t), NEW j \in 1 .. Len(t), t[i] = "end", t[j] = "end" PROVE i = j
        BY DEF OneEnd
      <3>1. i + 1 = j + 1
        BY <2>1 DEF OneEnd
      <3> QED
        BY <3>1
    <2>4. Has(t, "end") => Has(b, "end")
      BY <2>1 DEF Has
    <2>5. CASE ~IsRequestLine(Head(b))
      <3>1. p = Shuts(t)
        BY <2>2, <2>5
      <3>2. p.buf = t /\ p.res = "shut" /\ p.routed = FALSE
        BY <3>1 DEF Shuts
      <3>3. ~IsRequest(b)
        BY <2>1, <2>5 DEF IsRequest, IsRequestLine
      <3> HIDE DEF p
      <3>4. p.buf \in Seq(Pieces) /\ p.res \in {"wait", "shut", "call"} /\ p.res # "call" /\ p.routed \in BOOLEAN
              /\ OneEnd(p.buf) /\ (Has(p.buf, "end") => Has(b, "end"))
        BY <2>1, <2>3, <2>4, <3>2
      <3> QED
        BY <3>3, <3>4 DEF p, Parsed
    <2>6. CASE IsRequestLine(Head(b))
      <3> DEFINE ok == Head(b) = "line"
      <3>0. ok \in BOOLEAN
        OBVIOUS
      <3>1. p = Headers(t, ok)
        BY <2>2, <2>6
      <3>2. IsRequest(b) => ok
        BY <2>1 DEF IsRequest
      <3> HIDE DEF ok
      <3> HIDE DEF p
      <3>a. HeadersDone(t, ok, Headers(t, ok))
        BY <2>1, <2>3, HeadersIs
      <3>3. /\ p.buf \in Seq(Pieces) /\ ~Has(p.buf, "end")
            /\ p.res \in {"wait", "call"} /\ p.routed \in BOOLEAN
            /\ p.res = "call" => Has(t, "end") /\ p.routed = ok
            /\ \A e \in 1 .. Len(t) : t[e] = "end" /\ ((\E i \in 1 .. e : t[i] = "len") => e < Len(t)) =>
                 p.res = "call"
        BY <3>0, <3>1, <3>a DEF HeadersDone
      <3>4. OneEnd(p.buf)
        BY <3>3 DEF OneEnd, Has
      <3>5. ASSUME IsRequest(b) PROVE p.res = "call"
        <4>1. PICK e \in 2 .. Len(b) : b[e] = "end" /\ ((\E i \in 1 .. e : b[i] = "len") => e < Len(b))
          BY <3>5 DEF IsRequest
        <4>2. PICK k : k = e - 1
          OBVIOUS
        <4>3. k \in 1 .. Len(t) /\ t[k] = "end" /\ k \in Nat /\ e = k + 1
          BY <2>1, <4>1, <4>2
        <4>4. ASSUME NEW i \in 1 .. k, t[i] = "len" PROVE k < Len(t)
          <5>1. i \in 1 .. Len(t) /\ i + 1 \in 1 .. e
            BY <4>3, <2>1
          <5>2. b[i + 1] = "len"
            BY <2>1, <4>4, <5>1
          <5>3. e < Len(b)
            BY <4>1, <5>1, <5>2
          <5> QED
            BY <2>1, <4>3, <5>3
        <4> QED
          BY <3>3, <4>3, <4>4
      <3>6. /\ p.buf \in Seq(Pieces) /\ OneEnd(p.buf)
            /\ p.res \in {"wait", "shut", "call"} /\ p.routed \in BOOLEAN
            /\ Has(p.buf, "end") => Has(b, "end")
            /\ p.res = "call" => Has(b, "end") /\ ~Has(p.buf, "end")
            /\ IsRequest(b) => p.res = "call" /\ p.routed
        BY <2>4, <3>2, <3>3, <3>4, <3>5
      <3> QED
        BY <3>6 DEF p, Parsed
    <2> QED
      BY <2>5, <2>6
  <1> QED
    BY <1>1, <1>2

---------------------------------------------------------------------------
(* A read event of the HTTP server.                                        *)

\* What has arrived, and what is still on the wire.
LEMMA Arrived ==
  ASSUME NEW q \in Seq(Pieces), NEW w \in Seq(Pieces), NEW k \in 1 .. Len(w),
         OneEnd(q), OneEnd(w), ~(Has(q, "end") /\ Has(w, "end"))
  PROVE  /\ q \o SubSeq(w, 1, k) \in Seq(Pieces) /\ OneEnd(q \o SubSeq(w, 1, k))
         /\ Has(q \o SubSeq(w, 1, k), "end") => Has(q, "end") \/ Has(w, "end")
         /\ SubSeq(w, k + 1, Len(w)) \in Seq(Pieces) /\ OneEnd(SubSeq(w, k + 1, Len(w)))
         /\ Has(SubSeq(w, k + 1, Len(w)), "end") => Has(w, "end") /\ ~Has(q \o SubSeq(w, 1, k), "end")
         /\ k = Len(w) => SubSeq(w, k + 1, Len(w)) = <<>>
         /\ k = Len(w) /\ q = <<>> => q \o SubSeq(w, 1, k) = w
  <1> DEFINE a == SubSeq(w, 1, k)
             r == SubSeq(w, k + 1, Len(w))
             b == q \o a
  <1>0. k \in 0 .. Len(w) /\ Len(w) \in Nat /\ k \in Nat
    OBVIOUS
  <1>1. /\ a \in Seq(Pieces) /\ Len(a) = k /\ \A i \in 1 .. k : i \in 1 .. Len(w) /\ a[i] = w[i]
        /\ r \in Seq(Pieces) /\ Len(r) = Len(w) - k
        /\ \A i \in 1 .. Len(w) - k : i + k \in 1 .. Len(w) /\ r[i] = w[i + k]
    BY <1>0, CutElems
  <1> HIDE DEF a, r
  <1>2. /\ b \in Seq(Pieces) /\ Len(b) = Len(q) + Len(a) /\ Len(q) \in Nat
        /\ \A i \in 1 .. Len(q) : i \in 1 .. Len(b) /\ b[i] = q[i]
        /\ \A i \in 1 .. Len(a) : Len(q) + i \in 1 .. Len(b) /\ b[Len(q) + i] = a[i]
        /\ \A i \in 1 .. Len(b) : i \in 1 .. Len(q) \/ \E j \in 1 .. Len(a) : i = Len(q) + j
    <2>1. a \in Seq(Pieces)
      BY <1>1
    <2>2. b \in Seq(Pieces) /\ Len(b) = Len(q) + Len(a) /\ Len(q) \in Nat
      BY <2>1, ConcatElems
    <2>3. \A i \in 1 .. Len(q) : i \in 1 .. Len(b) /\ b[i] = q[i]
      BY <2>1, ConcatElems
    <2>4. \A i \in 1 .. Len(a) : Len(q) + i \in 1 .. Len(b) /\ b[Len(q) + i] = a[i]
      BY <2>1, ConcatElems
    <2>5. \A i \in 1 .. Len(b) : i \in 1 .. Len(q) \/ \E j \in 1 .. Len(a) : i = Len(q) + j
      BY <2>1, ConcatElems
    <2> QED
      BY <2>2, <2>3, <2>4, <2>5, Zenon
  <1>3. k = Len(w) => r = <<>>
    <2>1. k = Len(w) => Len(r) = 0
      BY <1>0, <1>1
    <2> QED
      BY <1>1, <2>1
  <1>4. ASSUME k = Len(w), q = <<>> PROVE b = w
    <2>1. Len(q) = 0
      BY <1>4
    <2>2. Len(b) = Len(w)
      BY <1>0, <1>1, <1>2, <1>4, <2>1
    <2>3. \A i \in 1 .. Len(w) : b[i] = w[i]
      <3> SUFFICES ASSUME NEW i \in 1 .. Len(w) PROVE b[i] = w[i]
        OBVIOUS
      <3>1. i \in 1 .. Len(a) /\ Len(q) + i = i
        BY <1>1, <1>4, <2>1
      <3>2. b[i] = a[i]
        BY <1>2, <3>1
      <3> QED
        BY <1>1, <1>4, <3>2
    <2> HIDE DEF b
    <2> QED
      BY <1>2, <2>2, <2>3
  <1> HIDE DEF b
  <1>5. \A i \in 1 .. Len(b) : b[i] = "end" =>
          \/ i \in 1 .. Len(q) /\ q[i] = "end"
          \/ \E j \in 1 .. k : i = Len(q) + j /\ j \in 1 .. Len(w) /\ w[j] = "end"
    <2> SUFFICES ASSUME NEW i \in 1 .. Len(b), b[i] = "end", i \notin 1 .. Len(q)
                 PROVE  \E j \in 1 .. k : i = Len(q) + j /\ j \in 1 .. Len(w) /\ w[j] = "end"
      BY <1>2
    <2>1. PICK j \in 1 .. Len(a) : i = Len(q) + j
      BY <1>2
    <2>2. b[i] = a[j] /\ j \in 1 .. k
      BY <1>1, <1>2, <2>1
    <2> QED
      BY <1>1, <2>1, <2>2
  <1>6. \A i \in 1 .. Len(r) : r[i] = "end" => i + k \in 1 .. Len(w) /\ w[i + k] = "end" /\ i + k > k
    BY <1>0, <1>1
  <1>7. Has(b, "end") => Has(q, "end") \/ Has(w, "end")
    BY <1>5 DEF Has
  <1>8. OneEnd(r)
    <2> SUFFICES ASSUME NEW i \in 1 .. Len(r), NEW j \in 1 .. Len(r), r[i] = "end", r[j] = "end" PROVE i = j
      BY DEF OneEnd
    <2>1. i + k = j + k
      BY <1>6 DEF OneEnd
    <2> QED
      BY <1>0, <2>1
  <1>9. OneEnd(b)
    <2> SUFFICES ASSUME NEW i \in 1 .. Len(b), NEW j \in 1 .. Len(b), b[i] = "end", b[j] = "end" PROVE i = j
      BY DEF OneEnd
    <2>1. CASE Has(q, "end")
      <3>1. \A m \in 1 .. Len(w) : w[m] # "end"
        BY <2>1 DEF Has
      <3>2. i \in 1 .. Len(q) /\ q[i] = "end" /\ j \in 1 .. Len(q) /\ q[j] = "end"
        BY <1>5, <3>1
      <3> QED
        BY <3>2 DEF OneEnd
    <2>2. CASE ~Has(q, "end")
      <3>1. \A m \in 1 .. Len(q) : q[m] # "end"
        BY <2>2 DEF Has
      <3>2. PICK m \in 1 .. k : i = Len(q) + m /\ m \in 1 .. Len(w) /\ w[m] = "end"
        BY <1>5, <3>1
      <3>3. PICK n \in 1 .. k : j = Len(q) + n /\ n \in 1 .. Len(w) /\ w[n] = "end"
        BY <1>5, <3>1
      <3>4. m = n
        BY <3>2, <3>3 DEF OneEnd
      <3> QED
        BY <3>2, <3>3, <3>4
    <2> QED
      BY <2>1, <2>2
  <1>10. ASSUME Has(r, "end") PROVE Has(w, "end") /\ ~Has(b, "end")
    <2>1. PICK i \in 1 .. Len(r) : r[i] = "end"
      BY <1>10 DEF Has
    <2>2. i + k \in 1 .. Len(w) /\ w[i + k] = "end" /\ i + k > k
      BY <1>6, <2>1
    <2>3. Has(w, "end")
      BY <2>2 DEF Has
    <2>4. \A m \in 1 .. Len(q) : q[m] # "end"
      BY <2>3 DEF Has
    <2>5. ASSUME NEW m \in 1 .. k, m \in 1 .. Len(w), w[m] = "end" PROVE FALSE
      <3>1. m = i + k
        BY <2>2, <2>5 DEF OneEnd
      <3> QED
        BY <1>0, <2>2, <2>5, <3>1
    <2> QED
      BY <1>5, <2>3, <2>4, <2>5 DEF Has
  <1> QED
    BY <1>1, <1>2, <1>3, <1>4, <1>7, <1>8, <1>9, <1>10 DEF a, r, b

\* The record of an HTTP connection, after a read and after an answer.
ReadInto(h, r, b, st, sp) == [h EXCEPT !.wire = r, !.buf = b, !.st = st, !.split = sp]
AnswerIn(h, x) == [h EXCEPT !.status = x, !.st = "shut"]

LEMMA ReadRecord ==
  ASSUME NEW h \in Https, NEW r \in Seq(Pieces), NEW b \in Seq(Pieces), NEW st \in {"open", "shut"},
         NEW sp \in BOOLEAN, NEW k, k = ReadInto(h, r, b, st, sp)
  PROVE  /\ k \in Https /\ k.what = h.what /\ k.status = h.status /\ k.wire = r /\ k.buf = b
         /\ k.st = st /\ k.split = sp
  <1> DEFINE W == Wants
             Q == Seq(Pieces)
             P == {"open", "shut"}
             N == {0, 200, 400, 404, 429, 502}
             B == BOOLEAN
  <1>1. /\ Https = [what : W, wire : Q, buf : Q, st : P, status : N, split : B]
        /\ r \in Q /\ b \in Q /\ st \in P /\ sp \in B
    BY DEF Https
  <1> HIDE DEF W, Q, P, N, B
  <1>2. h \in [what : W, wire : Q, buf : Q, st : P, status : N, split : B]
    BY <1>1
  <1>3. /\ k \in [what : W, wire : Q, buf : Q, st : P, status : N, split : B]
        /\ k.what = h.what /\ k.status = h.status /\ k.wire = r /\ k.buf = b /\ k.st = st /\ k.split = sp
    BY <1>1, <1>2 DEF ReadInto
  <1> QED
    BY <1>1, <1>3

LEMMA AnswerRecord ==
  ASSUME NEW h \in Https, NEW x \in {0, 200, 400, 404, 429, 502}, NEW k, k = AnswerIn(h, x)
  PROVE  /\ k \in Https /\ k.what = h.what /\ k.status = x /\ k.wire = h.wire /\ k.buf = h.buf
         /\ k.st = "shut" /\ k.split = h.split
  <1> DEFINE W == Wants
             Q == Seq(Pieces)
             P == {"open", "shut"}
             N == {0, 200, 400, 404, 429, 502}
             B == BOOLEAN
  <1>1. /\ Https = [what : W, wire : Q, buf : Q, st : P, status : N, split : B]
        /\ x \in N /\ "shut" \in P
    BY DEF Https
  <1> HIDE DEF W, Q, P, N, B
  <1>2. h \in [what : W, wire : Q, buf : Q, st : P, status : N, split : B]
    BY <1>1
  <1>3. /\ k \in [what : W, wire : Q, buf : Q, st : P, status : N, split : B]
        /\ k.what = h.what /\ k.status = x /\ k.wire = h.wire /\ k.buf = h.buf /\ k.st = "shut" /\ k.split = h.split
    BY <1>1, <1>2 DEF AnswerIn
  <1> QED
    BY <1>1, <1>3

\* A request begins to be served.
Begins(c, w) ==
  \E j \in Jobs : /\ job' = [job EXCEPT ![HttpLoopOf[c]] = j]
                  /\ j.pc = "clock" /\ j.c = c /\ j.what = w /\ Counted(j)

Reads(c) ==
  /\ job[HttpLoopOf[c]] = NoJob
  /\ http' \in [HttpConns -> Https] /\ \A d \in HttpConns : d # c => http'[d] = http[d]
  /\ http'[c].what = http[c].what /\ http'[c].status = http[c].status
  /\ OneEnd(http'[c].buf) /\ OneEnd(http'[c].wire)
  /\ ~(Has(http'[c].buf, "end") /\ Has(http'[c].wire, "end"))
  /\ Has(http'[c].buf, "end") \/ Has(http'[c].wire, "end") => Has(http[c].buf, "end") \/ Has(http[c].wire, "end")
  /\ \/ job' = job
     \/ /\ Begins(c, http[c].what) \/ Begins(c, "nowhere")
        /\ ~Has(http'[c].buf, "end") /\ ~Has(http'[c].wire, "end")
        /\ Has(http[c].buf, "end") \/ Has(http[c].wire, "end")
  /\ ~http'[c].split =>
       /\ ~http[c].split /\ http[c].wire # <<>> /\ http'[c].wire = <<>>
       /\ http[c].buf = <<>> /\ IsRequest(http[c].wire) =>
            http'[c].st = http[c].st /\ Begins(c, http[c].what)

LEMMA ReadsHttp ==
  ASSUME JobTyped, NEW c \in HttpConns, NEW k \in 1 .. Len(http[c].wire), HttpRead(HttpLoopOf[c], c, k),
         StatusOf(c)
  PROVE  Reads(c)
  <1> DEFINE g == HttpLoopOf[c]
             b == http[c].buf \o SubSeq(http[c].wire, 1, k)
             r == SubSeq(http[c].wire, k + 1, Len(http[c].wire))
             p == Parse(b)
  <1>0. /\ http \in [HttpConns -> Https] /\ job \in [Threads -> {NoJob} \cup Jobs] /\ g \in Threads
        /\ http[c] \in Https
    BY Constants DEF JobTyped
  <1>1. http[c].buf \in Seq(Pieces) /\ http[c].wire \in Seq(Pieces) /\ http[c].what \in Wants
          /\ http[c].status \in {0, 200, 400, 404, 429, 502} /\ http[c].split \in BOOLEAN /\ http[c].st \in {"open", "shut"}
    BY <1>0 DEF Https
  <1>2. /\ OneEnd(http[c].buf) /\ OneEnd(http[c].wire) /\ ~(Has(http[c].buf, "end") /\ Has(http[c].wire, "end"))
    BY DEF StatusOf
  <1>3. /\ b \in Seq(Pieces) /\ OneEnd(b) /\ (Has(b, "end") => Has(http[c].buf, "end") \/ Has(http[c].wire, "end"))
        /\ r \in Seq(Pieces) /\ OneEnd(r) /\ (Has(r, "end") => Has(http[c].wire, "end") /\ ~Has(b, "end"))
        /\ k = Len(http[c].wire) => r = <<>>
        /\ k = Len(http[c].wire) /\ http[c].buf = <<>> => b = http[c].wire
    <2> DEFINE q == http[c].buf
               w == http[c].wire
    <2>1. q \in Seq(Pieces) /\ w \in Seq(Pieces) /\ OneEnd(q) /\ OneEnd(w) /\ ~(Has(q, "end") /\ Has(w, "end"))
            /\ k \in 1 .. Len(w)
      BY <1>1, <1>2
    <2> HIDE DEF q, w
    <2>2. /\ q \o SubSeq(w, 1, k) \in Seq(Pieces) /\ OneEnd(q \o SubSeq(w, 1, k))
          /\ Has(q \o SubSeq(w, 1, k), "end") => Has(q, "end") \/ Has(w, "end")
          /\ SubSeq(w, k + 1, Len(w)) \in Seq(Pieces) /\ OneEnd(SubSeq(w, k + 1, Len(w)))
          /\ Has(SubSeq(w, k + 1, Len(w)), "end") => Has(w, "end") /\ ~Has(q \o SubSeq(w, 1, k), "end")
          /\ k = Len(w) => SubSeq(w, k + 1, Len(w)) = <<>>
          /\ k = Len(w) /\ q = <<>> => q \o SubSeq(w, 1, k) = w
      BY <2>1, Arrived
    <2> QED
      BY <2>2 DEF q, w
  <1>4. /\ job[g] = NoJob
        /\ http' = [http EXCEPT ![c] =
             [http[c] EXCEPT !.wire = r, !.buf = p.buf, !.st = IF p.res = "shut" THEN "shut" ELSE http[c].st,
                             !.split = http[c].split \/ k < Len(http[c].wire)]]
        /\ job' = IF p.res # "call" THEN job
                  ELSE [job EXCEPT ![g] = [pc |-> "clock", c |-> c,
                         what |-> IF p.routed THEN http[c].what ELSE "nowhere", n |-> 0, attempt |-> 0, resent |-> FALSE]]
    BY <1>0, <1>1 DEF HttpRead, Https
  <1>5. Parsed(b, p)
    <2> HIDE DEF b
    <2> QED
      BY <1>3, ParseDone
  <1> HIDE DEF b, r, p
  <1>6. /\ p.buf \in Seq(Pieces) /\ OneEnd(p.buf) /\ p.res \in {"wait", "shut", "call"} /\ p.routed \in BOOLEAN
        /\ Has(p.buf, "end") => Has(b, "end")
        /\ p.res = "call" => Has(b, "end") /\ ~Has(p.buf, "end")
        /\ IsRequest(b) => p.res = "call" /\ p.routed
    BY <1>5 DEF Parsed
  <1>7. PICK st \in {"open", "shut"}, sp \in BOOLEAN :
          /\ st = IF p.res = "shut" THEN "shut" ELSE http[c].st
          /\ sp <=> http[c].split \/ k < Len(http[c].wire)
          /\ http' = [http EXCEPT ![c] = [http[c] EXCEPT !.wire = r, !.buf = p.buf, !.st = st, !.split = sp]]
    BY <1>1, <1>4
  <1>8. /\ http' \in [HttpConns -> Https] /\ \A d \in HttpConns : d # c => http'[d] = http[d]
        /\ http'[c].what = http[c].what /\ http'[c].status = http[c].status /\ http'[c].wire = r
        /\ http'[c].buf = p.buf /\ http'[c].st = st /\ http'[c].split = sp
    <2>0. PICK h : h = ReadInto(http[c], r, p.buf, st, sp)
      OBVIOUS
    <2>1. r \in Seq(Pieces) /\ p.buf \in Seq(Pieces) /\ http[c] \in Https
      BY <1>0, <1>3, <1>6
    <2>a. h \in Https /\ h.what = http[c].what /\ h.status = http[c].status /\ h.wire = r /\ h.buf = p.buf
            /\ h.st = st /\ h.split = sp
      BY <2>0, <2>1, ReadRecord
    <2>2. http' = [http EXCEPT ![c] = h]
      BY <1>7, <2>0 DEF ReadInto
    <2> QED
      BY <1>0, <2>2, <2>a
  <1>9. ASSUME p.res = "call" PROVE Begins(c, IF p.routed THEN http[c].what ELSE "nowhere")
    <2> DEFINE w == IF p.routed THEN http[c].what ELSE "nowhere"
               j == [pc |-> "clock", c |-> c, what |-> w, n |-> 0, attempt |-> 0, resent |-> FALSE]
    <2>1. w \in Wants
      BY <1>1 DEF Wants
    <2>2. job' = [job EXCEPT ![g] = j]
      BY <1>4, <1>9
    <2> HIDE DEF w
    <2>3. j \in Jobs /\ j.pc = "clock" /\ j.c = c /\ j.what = w /\ j.n = 0 /\ j.attempt = 0 /\ j.resent = FALSE
      BY <2>1 DEF Jobs
    <2> HIDE DEF j
    <2>4. Counted(j)
      BY <2>3, Constants DEF Counted
    <2>5. Begins(c, w)
      BY <2>2, <2>3, <2>4 DEF Begins
    <2> QED
      BY <2>5 DEF w
  <1>10. \/ job' = job
         \/ /\ Begins(c, http[c].what) \/ Begins(c, "nowhere")
            /\ ~Has(http'[c].buf, "end") /\ ~Has(http'[c].wire, "end")
            /\ Has(http[c].buf, "end") \/ Has(http[c].wire, "end")
    <2>1. CASE p.res # "call"
      BY <1>4, <2>1
    <2>2. CASE p.res = "call"
      <3>1. Begins(c, http[c].what) \/ Begins(c, "nowhere")
        BY <1>9, <2>2
      <3>2. Has(b, "end") /\ ~Has(p.buf, "end")
        BY <1>6, <2>2
      <3> QED
        BY <1>3, <1>8, <3>1, <3>2
    <2> QED
      BY <2>1, <2>2
  <1>11. ASSUME ~http'[c].split
         PROVE  /\ ~http[c].split /\ http[c].wire # <<>> /\ http'[c].wire = <<>>
                /\ http[c].buf = <<>> /\ IsRequest(http[c].wire) =>
                     http'[c].st = http[c].st /\ Begins(c, http[c].what)
    <2>1. ~http[c].split /\ k = Len(http[c].wire) /\ http[c].wire # <<>>
      <3>1. ~http[c].split /\ ~(k < Len(http[c].wire))
        BY <1>7, <1>8, <1>11
      <3>2. Len(http[c].wire) \in Nat
        BY <1>1
      <3> QED
        BY <1>1, <3>1, <3>2
    <2>2. ASSUME http[c].buf = <<>>, IsRequest(http[c].wire) PROVE http'[c].st = http[c].st /\ Begins(c, http[c].what)
      <3>1. b = http[c].wire
        BY <1>3, <2>1, <2>2
      <3>2. p.res = "call" /\ p.routed
        BY <1>6, <2>2, <3>1
      <3> QED
        BY <1>7, <1>8, <1>9, <3>2
    <2> QED
      BY <1>3, <1>8, <2>1, <2>2
  <1>12. /\ OneEnd(http'[c].buf) /\ OneEnd(http'[c].wire)
         /\ ~(Has(http'[c].buf, "end") /\ Has(http'[c].wire, "end"))
         /\ Has(http'[c].buf, "end") \/ Has(http'[c].wire, "end") => Has(http[c].buf, "end") \/ Has(http[c].wire, "end")
    BY <1>3, <1>6, <1>8
  <1> QED
    BY <1>4, <1>8, <1>10, <1>11, <1>12 DEF Reads

---------------------------------------------------------------------------
(* The types of the jobs, and where allow() is.                            *)

\* The connection that is answered.
Tells(c, s) ==
  /\ http'[c].what = http[c].what /\ http'[c].wire = http[c].wire /\ http'[c].buf = http[c].buf
  /\ http'[c].split = http[c].split
  /\ http'[c].status = IF http[c].status = 0 /\ http[c].st = "open" THEN s ELSE http[c].status

LEMMA SaysHttp ==
  ASSUME JobTyped, NEW g \in Threads, NEW s \in {200, 400, 404, 429, 502}, Says(g, s)
  PROVE  /\ http' \in [HttpConns -> Https]
         /\ \E c \in HttpConns : c = job[g].c /\ Tells(c, s) /\ \A d \in HttpConns : d # c => http'[d] = http[d]
  <1>1. PICK c \in HttpConns : c = job[g].c
    BY JobIs DEF Says
  <1>2. http \in [HttpConns -> Https] /\ http[c] \in Https
    BY DEF JobTyped
  <1>3. PICK x : x = IF http[c].status = 0 /\ http[c].st = "open" THEN s ELSE http[c].status
    OBVIOUS
  <1>4. x \in {0, 200, 400, 404, 429, 502}
    BY <1>2, <1>3 DEF Https
  <1>5. PICK k : k = AnswerIn(http[c], x)
    OBVIOUS
  <1>6. http' = [http EXCEPT ![c] = k]
    <2>1. http' = [http EXCEPT ![job[g].c] = AnswerIn(http[job[g].c],
            IF http[job[g].c].status = 0 /\ http[job[g].c].st = "open" THEN s ELSE http[job[g].c].status)]
      BY DEF Says, SendResponse, AnswerIn
    <2> QED
      BY <1>1, <1>3, <1>5, <2>1
  <1>7. k \in Https /\ k.what = http[c].what /\ k.status = x /\ k.wire = http[c].wire /\ k.buf = http[c].buf
          /\ k.split = http[c].split
    BY <1>2, <1>4, <1>5, AnswerRecord
  <1>8. http' \in [HttpConns -> Https] /\ http'[c] = k /\ \A d \in HttpConns : d # c => http'[d] = http[d]
    BY <1>2, <1>6, <1>7
  <1> QED
    BY <1>1, <1>3, <1>7, <1>8 DEF Tells

LEMMA JobTypedStep ==
  ASSUME JobTyped, HttpInv, [Next]_vars
  PROVE  JobTyped'
  <1>0. /\ http \in [HttpConns -> Https] /\ job \in [Threads -> {NoJob} \cup Jobs]
        /\ \A g \in Threads : job[g] # NoJob => HttpLoopOf[job[g].c] = g /\ Counted(job[g])
    BY DEF JobTyped
  <1>1. CASE UNCHANGED <<http, job>>
    BY <1>0, <1>1 DEF JobTyped
  <1>2. ASSUME NEW g \in Threads, NEW j \in Jobs, job' = [job EXCEPT ![g] = j], HttpLoopOf[j.c] = g, Counted(j),
               http' \in [HttpConns -> Https]
        PROVE  JobTyped'
    <2>1. job' \in [Threads -> {NoJob} \cup Jobs] /\ job'[g] = j /\ \A h \in Threads : h # g => job'[h] = job[h]
      BY <1>0, <1>2
    <2>2. \A h \in Threads : job'[h] # NoJob => HttpLoopOf[job'[h].c] = h /\ Counted(job'[h])
      BY <1>0, <1>2, <2>1
    <2>3. (\A h \in Threads : job[h] # NoJob => HttpLoopOf[job[h].c] = h /\ Counted(job[h]))'
      BY <2>2 DEF NoJob, Counted
    <2> QED
      BY <1>2, <2>1, <2>3 DEF JobTyped
  <1>3. ASSUME NEW c \in HttpConns, Reads(c) PROVE JobTyped'
    <2>1. http' \in [HttpConns -> Https] /\ HttpLoopOf[c] \in Threads
      BY <1>3, Constants DEF Reads
    <2>2. CASE job' = job
      BY <1>0, <2>1, <2>2 DEF JobTyped, Counted
    <2>3. ASSUME NEW w, Begins(c, w) PROVE JobTyped'
      BY <1>2, <2>1, <2>3 DEF Begins
    <2> QED
      BY <1>3, <2>2, <2>3 DEF Reads
  <1>4. ASSUME NEW g \in Threads, NEW j \in Jobs, Goes(g, j) PROVE JobTyped'
    <2>1. HttpLoopOf[job[g].c] = g
      BY <1>4, JobIs DEF Goes
    <2> QED
      BY <1>0, <1>2, <1>4, <2>1 DEF Goes
  <1>5. ASSUME NEW g \in Threads, NEW s \in {200, 400, 404, 429, 502}, Says(g, s) PROVE JobTyped'
    <2>1. job' = [job EXCEPT ![g] = NoJob]
      BY <1>5 DEF Says, SendResponse
    <2>2. job' \in [Threads -> {NoJob} \cup Jobs] /\ \A h \in Threads : job'[h] # NoJob => job'[h] = job[h]
      BY <1>0, <2>1
    <2>3. (\A h \in Threads : job[h] # NoJob => HttpLoopOf[job[h].c] = h /\ Counted(job[h]))'
      BY <1>0, <2>2 DEF NoJob, Counted
    <2>4. http' \in [HttpConns -> Https]
      BY <1>5, SaysHttp
    <2> QED
      BY <2>2, <2>3, <2>4 DEF JobTyped
  <1> QED
    BY <1>1, <1>3, <1>4, <1>5, JobView, ReadsHttp DEF HttpInv

LEMMA ClockedStep ==
  ASSUME JobTyped, BucketTypeOK, Clocked, [Next]_vars
  PROVE  Clocked'
  <1>0. /\ job \in [Threads -> {NoJob} \cup Jobs] /\ seen \in [Threads -> Nat \cup {Outside}] /\ now \in Nat
        /\ \A g \in Threads : (seen[g] # Outside) = (job[g].pc = "allow")
    BY DEF JobTyped, BucketTypeOK, Clocked
  <1>1. ASSUME UNCHANGED <<seen, job>> PROVE Clocked'
    BY <1>0, <1>1 DEF Clocked
  <1>2. ASSUME NEW g \in Threads, seen' = seen, \A h \in Threads : h # g => job'[h] = job[h],
               job[g].pc # "allow", job'[g].pc # "allow"
        PROVE  Clocked'
    BY <1>0, <1>2 DEF Clocked
  <1>3. ASSUME NEW g \in Threads, job[g].pc # "idle", NEW p, job' = [job EXCEPT ![g].pc = p]
        PROVE  job'[g].pc = p /\ \A h \in Threads : h # g => job'[h] = job[h]
    <2>1. job[g] \in Jobs
      BY <1>3, JobIs
    <2> QED
      BY <1>0, <1>3, <2>1 DEF Jobs
  <1>4. ASSUME NEW g \in Threads, NEW s, SendResponse(g, s)
        PROVE  job'[g].pc = "idle" /\ \A h \in Threads : h # g => job'[h] = job[h]
    BY <1>0, <1>4 DEF SendResponse, NoJob
  <1>5. ASSUME NEW g \in Threads, AllowBegins(g) PROVE Clocked'
    <2>1. job'[g].pc = "allow" /\ \A h \in Threads : h # g => job'[h] = job[h]
      BY <1>3, <1>5 DEF AllowBegins
    <2>2. seen'[g] = now /\ \A h \in Threads : h # g => seen'[h] = seen[h]
      BY <1>0, <1>5 DEF AllowBegins, ReadClock
    <2>3. now # Outside
      BY <1>0 DEF Outside
    <2> QED
      BY <1>0, <2>1, <2>2, <2>3 DEF Clocked
  <1>6. ASSUME NEW g \in Threads, Allowed(g) \/ RateLimited(g) PROVE Clocked'
    <2>1. job'[g].pc # "allow" /\ \A h \in Threads : h # g => job'[h] = job[h]
      BY <1>3, <1>4, <1>6 DEF Allowed, RateLimited
    <2>2. seen'[g] = Outside /\ \A h \in Threads : h # g => seen'[h] = seen[h]
      BY <1>0, <1>6 DEF Allowed, RateLimited, Admit, Deny, Leave
    <2> QED
      BY <1>0, <2>1, <2>2 DEF Clocked
  <1>7. ASSUME NEW g \in Threads, NotFound(g) \/ HandleLocally(g) \/ BadJson(g) \/ EchoDone(g) PROVE Clocked'
    <2>1. job[g].pc # "allow" /\ seen' = seen /\ \E s : SendResponse(g, s)
      BY <1>7 DEF NotFound, HandleLocally, BadJson, EchoDone, bucketVars
    <2> QED
      BY <1>2, <1>4, <2>1
  <1>8. ASSUME NEW g \in Threads, HandleEcho(g) PROVE Clocked'
    <2>1. job[g].pc = "route" /\ seen' = seen /\ job' = [job EXCEPT ![g].pc = "attempt"]
      BY <1>8 DEF HandleEcho, bucketVars
    <2> QED
      BY <1>2, <1>3, <2>1
  <1>9. ASSUME NEW g \in Threads, EchoBackoff(g) PROVE Clocked'
    <2>1. job[g].pc = "wait" /\ seen' = seen /\ job' = [job EXCEPT ![g].pc = "resend", ![g].resent = TRUE]
      BY <1>9 DEF EchoBackoff, bucketVars
    <2>2. job[g] \in Jobs
      BY <2>1, JobIs
    <2>3. job'[g].pc = "resend" /\ \A h \in Threads : h # g => job'[h] = job[h]
      BY <1>0, <2>1, <2>2 DEF Jobs
    <2> QED
      BY <1>2, <2>1, <2>3
  <1>10. ASSUME NEW g \in Threads, Attempt(g) \/ Resend(g) PROVE Clocked'
    <2>1. job[g].pc \in {"attempt", "resend"} /\ seen' = seen /\ job' = [job EXCEPT ![g].pc = "wait", ![g].n = @ + 1]
      BY <1>10 DEF Attempt, Resend, SendRequest, bucketVars
    <2>2. job[g] \in Jobs
      BY <2>1, JobIs
    <2>3. job'[g].pc = "wait" /\ \A h \in Threads : h # g => job'[h] = job[h]
      BY <1>0, <2>1, <2>2 DEF Jobs
    <2> QED
      BY <1>2, <2>1, <2>3
  <1>11. ASSUME NEW g \in Threads, NoConnection(g) \/ CircuitOpen(g) \/ EchoFails(g) \/ EchoTimesOut(g) PROVE Clocked'
    <2>1. job[g].pc \in Late /\ seen' = seen /\ \E err : Fails(g, err)
      BY <1>11 DEF NoConnection, CircuitOpen, EchoFails, EchoTimesOut, Late, bucketVars
    <2>2. job[g] \in Jobs /\ job[g].pc # "allow"
      BY <2>1, JobIs DEF Late
    <2>3. CASE \E s : SendResponse(g, s)
      BY <1>2, <1>4, <2>1, <2>2, <2>3
    <2>4. CASE job' = [job EXCEPT ![g].pc = "attempt", ![g].attempt = @ + 1, ![g].resent = FALSE]
      <3>1. job'[g].pc = "attempt" /\ \A h \in Threads : h # g => job'[h] = job[h]
        BY <1>0, <2>2, <2>4 DEF Jobs
      <3> QED
        BY <1>2, <2>1, <2>2, <3>1
    <2> QED
      BY <2>1, <2>3, <2>4 DEF Fails
  <1>12. ASSUME NEW c \in HttpConns, NEW k, HttpRead(HttpLoopOf[c], c, k) PROVE Clocked'
    <2> DEFINE g == HttpLoopOf[c]
    <2>1. g \in Threads /\ job[g] = NoJob /\ seen' = seen
      BY <1>12, Constants DEF HttpRead, bucketVars
    <2>2. job' = job \/ \E w : job' = [job EXCEPT ![g] =
            [pc |-> "clock", c |-> c, what |-> w, n |-> 0, attempt |-> 0, resent |-> FALSE]]
      BY <1>12 DEF HttpRead
    <2> HIDE DEF g
    <2>3. job[g].pc # "allow" /\ (\A h \in Threads : h # g => job'[h] = job[h]) /\ job'[g].pc # "allow"
      BY <1>0, <2>1, <2>2 DEF NoJob
    <2> QED
      BY <1>2, <2>1, <2>3
  <1>13. CASE UNCHANGED vars
    BY <1>1, <1>13 DEF vars, bucketVars
  <1>14. CASE ServerNext /\ UNCHANGED <<bucketVars, http, job>>
    BY <1>1, <1>14 DEF bucketVars
  <1>15. CASE Tick /\ UNCHANGED <<serverVars, http, job>>
    BY <1>1, <1>15 DEF Tick
  <1>16. ASSUME NEW g \in Threads, GatewayStep(g) PROVE Clocked'
    BY <1>5, <1>6, <1>7, <1>8, <1>9, <1>10, <1>11, <1>16 DEF GatewayStep
  <1> QED
    BY <1>12, <1>13, <1>14, <1>15, <1>16 DEF Next

---------------------------------------------------------------------------
(* One request of an HTTP client.                                          *)

LEMMA ExecutedGrows ==
  ASSUME LoopTyped, [Next]_vars
  PROVE  executed \subseteq executed'
  <1>1. ASSUME NEW l \in Loops, Answered(l) PROVE executed \subseteq executed'
    BY <1>1, RespondIs DEF Answered
  <1> QED
    BY <1>1, ReplyView

\* What no request of the client has reached stays so, unless its call sends one.
LEMMA UntouchedStep ==
  ASSUME NetTyped, LoopTyped, JobTyped, SelfInv, [Next]_vars, NEW c \in HttpConns, Untouched(c),
         Serves(c) => job[HttpLoopOf[c]].pc \in Early
  PROVE  Untouched(c)'
  <1>0. c \notin Conns /\ c # "self"
    BY Constants
  <1>1. ASSUME NEW h \in Frames, h.rid[1] # c, Flight' \subseteq Flight \cup {Out(h)}
        PROVE  \A f \in Flight' : f.rid[1] # c
    BY <1>1, OutIs DEF Untouched
  <1>2. \A f \in Flight' : f.rid[1] # c
    <2>1. CASE Flight' \subseteq Flight
      BY <2>1 DEF Untouched
    <2>2. ASSUME NEW g \in Threads, job[g].pc \in {"attempt", "resend"}, Flight' \subseteq Flight \cup {Out(Ask(g))}
          PROVE  \A f \in Flight' : f.rid[1] # c
      <3>1. Ask(g) \in Frames /\ Ask(g).rid = <<job[g].c, job[g].n + 1>>
        BY <2>2, AskIs
      <3>2. job[g] # NoJob /\ HttpLoopOf[job[g].c] = g
        BY <2>2, JobIs
      <3>3. job[g].c # c
        BY <2>2, <3>2 DEF Serves, Early
      <3>4. Ask(g).rid[1] # c
        BY <3>1, <3>3
      <3> QED
        BY <1>1, <2>2, <3>1, <3>4
    <2>3. ASSUME NEW d \in Conns, PeerSends(d), Flight' \subseteq Flight \cup {Out(Head(todo[d]))}
          PROVE  \A f \in Flight' : f.rid[1] # c
      <3>1. Head(todo[d]) \in Frames /\ Head(todo[d]) \in Elems(todo[d])
        BY <2>3, PeerIs
      <3>2. Head(todo[d]).rid \in {d} \X Nat
        BY <3>1 DEF SelfInv, ComesOnce
      <3>3. Head(todo[d]).rid[1] # c
        BY <1>0, <3>2
      <3> QED
        BY <1>1, <2>3, <3>1, <3>3
    <2>4. ASSUME NEW l \in Loops, HandlerCalls(l), Flight' \subseteq Flight \cup {Out(Own(l))}
          PROVE  \A f \in Flight' : f.rid[1] # c
      <3>1. loop[l].pc = "run" /\ loop[l].frame.fault = "selfcall"
        BY <2>4 DEF HandlerCalls, Running
      <3>2. Own(l) \in Frames /\ Own(l).rid = SelfOf(loop[l].frame.rid)
        BY <3>1, OwnIs
      <3>3. Own(l).rid[1] # c
        BY <1>0, <3>2 DEF SelfOf
      <3> QED
        BY <1>1, <2>4, <3>2, <3>3
    <2> QED
      BY <2>1, <2>2, <2>3, <2>4, FlightStep
  <1>3. \A r \in executed' : r[1] # c
    <2>1. ASSUME NEW l \in Loops, Answered(l) PROVE \A r \in executed' : r[1] # c
      <3>1. PICK code \in Codes, ran \in BOOLEAN : loop[l].pc \in {"run", "await"} /\ Respond(l, code, ran)
        BY <2>1 DEF Answered
      <3>2. executed' \subseteq executed \cup {loop[l].frame.rid}
        BY <3>1, RespondIs
      <3>3. loop[l].frame \in Flight
        BY <3>1, FlightHas
      <3> QED
        BY <3>2, <3>3 DEF Untouched
    <2> QED
      BY <2>1, ReplyView DEF Untouched
  <1> QED
    BY <1>2, <1>3 DEF Untouched

\* What a client was told before stays true.
LEMMA ToldStep ==
  ASSUME NetTyped, LoopTyped, JobTyped, SelfInv, [Next]_vars, NEW c \in HttpConns, StatusOf(c)
  PROVE  /\ Sends(c) # {} => Sends(c)' # {}
         /\ http[c].status \in {400, 404, 429} => Untouched(c)'
         /\ Has(http[c].buf, "end") \/ Has(http[c].wire, "end") => Untouched(c)'
         /\ Serves(c) /\ job[HttpLoopOf[c]].pc \in Early => Untouched(c)'
  <1>1. Sends(c) # {} => Sends(c)' # {}
    BY ExecutedGrows DEF Sends
  <1>2. ASSUME http[c].status \in {400, 404, 429} PROVE Untouched(c) /\ ~Serves(c)
    BY <1>2 DEF StatusOf
  <1>3. ASSUME Has(http[c].buf, "end") \/ Has(http[c].wire, "end") PROVE Untouched(c) /\ ~Serves(c)
    BY <1>3 DEF StatusOf
  <1>4. ASSUME Serves(c), job[HttpLoopOf[c]].pc \in Early PROVE Untouched(c)
    BY <1>4 DEF StatusOf
  <1> QED
    BY <1>1, <1>2, <1>3, <1>4, UntouchedStep

LEMMA StatusNext ==
  ASSUME NEW c \in HttpConns,
         OneEnd(http'[c].buf), OneEnd(http'[c].wire), ~(Has(http'[c].buf, "end") /\ Has(http'[c].wire, "end")),
         Has(http'[c].buf, "end") \/ Has(http'[c].wire, "end") => ~Serves(c)' /\ http'[c].status = 0 /\ Untouched(c)',
         Serves(c)' =>
           /\ http'[c].status = 0
           /\ job'[HttpLoopOf[c]].what \in {http'[c].what, "nowhere"}
           /\ job'[HttpLoopOf[c]].pc \in Early => Untouched(c)'
           /\ job'[HttpLoopOf[c]].pc \in Late => job'[HttpLoopOf[c]].what = "echo",
         http'[c].status = 200 /\ http'[c].what = "echo" => Sends(c)' # {},
         http'[c].status \in {400, 404, 429} => Untouched(c)'
  PROVE  StatusOf(c)'
  <1>1. OneEnd(http[c].buf)' /\ OneEnd(http[c].wire)'
    BY DEF OneEnd
  <1>2. /\ Has(http[c].buf, "end")' <=> Has(http'[c].buf, "end")
        /\ Has(http[c].wire, "end")' <=> Has(http'[c].wire, "end")
    BY DEF Has
  <1> QED
    BY <1>1, <1>2 DEF StatusOf, Early, Late

\* A connection that a step has nothing to do with.
LEMMA OtherStep ==
  ASSUME NetTyped, LoopTyped, JobTyped, SelfInv, [Next]_vars, NEW c \in HttpConns, StatusOf(c), WholeOf(c),
         http'[c] = http[c], Serves(c)' <=> Serves(c), Serves(c) => job'[HttpLoopOf[c]] = job[HttpLoopOf[c]]
  PROVE  StatusOf(c)' /\ WholeOf(c)'
  <1>1. StatusOf(c)'
    BY ToldStep, StatusNext DEF StatusOf
  <1>2. WholeOf(c)'
    BY DEF WholeOf, IsRequest
  <1> QED
    BY <1>1, <1>2

\* A thread that has a job, or begins one, does nothing for other connections.
LEMMA OthersStep ==
  ASSUME NetTyped, LoopTyped, JobTyped, SelfInv, [Next]_vars, HttpInv, NEW g \in Threads, NEW c \in HttpConns,
         NEW j \in Jobs, job' = [job EXCEPT ![g] = j], job[g] = NoJob \/ job[g].c = c, j.c = c,
         NEW d \in HttpConns, d # c, http'[d] = http[d]
  PROVE  StatusOf(d)' /\ WholeOf(d)'
  <1>1. job \in [Threads -> {NoJob} \cup Jobs] /\ HttpLoopOf[d] \in Threads
    BY Constants DEF JobTyped
  <1>2. job'[g] = j /\ \A h \in Threads : h # g => job'[h] = job[h]
    BY <1>1
  <1>3. HttpLoopOf[d] = g => ~Serves(d) /\ ~Serves(d)'
    BY <1>2 DEF Serves, NoJob
  <1>4. HttpLoopOf[d] # g => job'[HttpLoopOf[d]] = job[HttpLoopOf[d]]
    BY <1>1, <1>2
  <1>5. Serves(d)' <=> Serves(d)
    BY <1>3, <1>4 DEF Serves, NoJob
  <1>6. StatusOf(d) /\ WholeOf(d)
    BY DEF HttpInv
  <1> QED
    BY <1>3, <1>4, <1>5, <1>6, OtherStep

LEMMA OthersEnd ==
  ASSUME NetTyped, LoopTyped, JobTyped, SelfInv, [Next]_vars, HttpInv, NEW g \in Threads, NEW c \in HttpConns,
         job'[g] = NoJob, \A h \in Threads : h # g => job'[h] = job[h], job[g].c = c,
         NEW d \in HttpConns, d # c, http'[d] = http[d]
  PROVE  StatusOf(d)' /\ WholeOf(d)'
  <1>1. job \in [Threads -> {NoJob} \cup Jobs] /\ HttpLoopOf[d] \in Threads
    BY Constants DEF JobTyped
  <1>2. job'[g] = NoJob /\ \A h \in Threads : h # g => job'[h] = job[h]
    OBVIOUS
  <1>3. HttpLoopOf[d] = g => ~Serves(d) /\ ~Serves(d)'
    BY <1>2 DEF Serves, NoJob
  <1>4. HttpLoopOf[d] # g => job'[HttpLoopOf[d]] = job[HttpLoopOf[d]]
    BY <1>1, <1>2
  <1>5. Serves(d)' <=> Serves(d)
    BY <1>3, <1>4 DEF Serves, NoJob
  <1>6. StatusOf(d) /\ WholeOf(d)
    BY DEF HttpInv
  <1> QED
    BY <1>3, <1>4, <1>5, <1>6, OtherStep

\* A job goes on.
LEMMA GoesStep ==
  ASSUME NetTyped, LoopTyped, JobTyped, SelfInv, [Next]_vars, HttpInv,
         NEW g \in Threads, NEW j \in Jobs, Goes(g, j), NEW c \in HttpConns, c = job[g].c
  PROVE  StatusOf(c)' /\ WholeOf(c)'
  <1>0. /\ job \in [Threads -> {NoJob} \cup Jobs] /\ HttpLoopOf[c] = g /\ job[g] # NoJob /\ job[g].pc \in Early \cup Late
        /\ http' = http
    BY JobIs DEF JobTyped, Goes
  <1>1. /\ job'[g] = j /\ j.c = c /\ j.what = job[g].what
        /\ \/ job[g].pc \in Early /\ j.pc \in Early
           \/ job[g].pc = "route" /\ job[g].what = "echo" /\ j.pc \in Late
           \/ job[g].pc \in Late /\ j.pc \in Late
    BY <1>0 DEF Goes
  <1>2. j # NoJob
    BY DEF Jobs, NoJob
  <1>3. Serves(c) /\ Serves(c)'
    BY <1>0, <1>1, <1>2 DEF Serves, NoJob
  <1>4. StatusOf(c) /\ WholeOf(c)
    BY DEF HttpInv
  <1>5. /\ j.pc \in Early => Untouched(c)'
        /\ j.pc \in Late => j.what = "echo"
    BY <1>0, <1>1, <1>3, <1>4, ToldStep DEF StatusOf, Early, Late
  <1>6. /\ http[c].status = 0 /\ ~Has(http[c].buf, "end") /\ ~Has(http[c].wire, "end")
        /\ OneEnd(http[c].buf) /\ OneEnd(http[c].wire) /\ j.what \in {http[c].what, "nowhere"}
    BY <1>0, <1>1, <1>3, <1>4 DEF StatusOf
  <1>7. StatusOf(c)'
    BY <1>0, <1>1, <1>3, <1>5, <1>6, StatusNext
  <1>8. WholeOf(c)'
    BY <1>0, <1>1, <1>3, <1>4 DEF WholeOf, IsRequest
  <1> QED
    BY <1>7, <1>8

\* A whole request has an end.
LEMMA WholeHasEnd ==
  ASSUME NEW q, IsRequest(q)
  PROVE  Has(q, "end")
  <1>1. PICK e \in 2 .. Len(q) : q[e] = "end"
    BY DEF IsRequest
  <1>2. e \in 1 .. Len(q)
    OBVIOUS
  <1> QED
    BY <1>1, <1>2 DEF Has

\* A job ends with a status.
LEMMA SaysStep ==
  ASSUME NetTyped, LoopTyped, JobTyped, SelfInv, AnswerInv, [Next]_vars, HttpInv,
         NEW g \in Threads, NEW s \in {200, 400, 404, 429, 502}, Says(g, s), NEW c \in HttpConns, c = job[g].c,
         Tells(c, s)
  PROVE  StatusOf(c)' /\ WholeOf(c)'
  <1>0. /\ job \in [Threads -> {NoJob} \cup Jobs] /\ HttpLoopOf[c] = g /\ job[g] # NoJob /\ job[g].pc \in Early \cup Late
        /\ job' = [job EXCEPT ![g] = NoJob]
    BY JobIs DEF JobTyped, Says, SendResponse
  <1>1. job'[g] = NoJob
    BY <1>0
  <1>2. Serves(c) /\ ~Serves(c)'
    BY <1>0, <1>1 DEF Serves, NoJob
  <1>3. StatusOf(c) /\ WholeOf(c)
    BY DEF HttpInv
  <1>4. /\ http[c].status = 0 /\ ~Has(http[c].buf, "end") /\ ~Has(http[c].wire, "end")
        /\ OneEnd(http[c].buf) /\ OneEnd(http[c].wire) /\ job[g].what \in {http[c].what, "nowhere"}
    BY <1>0, <1>2, <1>3 DEF StatusOf
  <1>5. /\ http'[c].what = http[c].what /\ http'[c].wire = http[c].wire /\ http'[c].buf = http[c].buf
        /\ http'[c].split = http[c].split
        /\ http'[c].status = IF http[c].st = "open" THEN s ELSE 0
    BY <1>4 DEF Tells
  <1>6. ASSUME http'[c].status = 200, http[c].what = "echo" PROVE Sends(c)' # {}
    <2>1. s = 200
      BY <1>5, <1>6
    <2>2. \E r \in replies[GwConn] : r.code = "SUCCESS" /\ r.rid = Rid(g)
      BY <1>4, <1>6, <2>1 DEF Says
    <2>3. Rid(g) \in executed
      BY <2>2, Constants DEF AnswerInv
    <2>4. Rid(g)[1] = c
      BY DEF Rid
    <2>5. Sends(c) # {}
      BY <2>3, <2>4 DEF Sends
    <2> QED
      BY <1>3, <2>5, ToldStep
  <1>7. ASSUME http'[c].status \in {400, 404, 429} PROVE Untouched(c)'
    <2>1. job[g].pc \in Early
      BY <1>5, <1>7 DEF Says
    <2> QED
      BY <1>0, <1>2, <1>3, <2>1, ToldStep
  <1>8. StatusOf(c)'
    BY <1>2, <1>4, <1>5, <1>6, <1>7, StatusNext
  <1>9. ASSUME http[c].what # "none", ~http[c].split
        PROVE  http[c].wire = <<>> /\ http[c].st = "open" /\ job[g].what = http[c].what
    <2>1. ~IsRequest(http[c].wire)
      BY <1>4, WholeHasEnd
    <2> QED
      BY <1>0, <1>3, <1>4, <1>9, <2>1 DEF WholeOf
  <1>10. s = 404 => job[g].what = "nowhere"
    BY DEF Says
  <1>11. WholeOf(c)'
    BY <1>5, <1>9, <1>10 DEF WholeOf
  <1> QED
    BY <1>8, <1>11

\* A request arrives.
LEMMA ReadsStep ==
  ASSUME NetTyped, LoopTyped, JobTyped, SelfInv, [Next]_vars, HttpInv, NEW c \in HttpConns, Reads(c)
  PROVE  StatusOf(c)' /\ WholeOf(c)'
  <1> DEFINE g == HttpLoopOf[c]
  <1>0. g \in Threads /\ job \in [Threads -> {NoJob} \cup Jobs] /\ job[g] = NoJob /\ ~Serves(c)
    BY Constants DEF JobTyped, Reads, Serves
  <1>1. StatusOf(c) /\ WholeOf(c)
    BY DEF HttpInv
  <1>2. /\ http'[c].what = http[c].what /\ http'[c].status = http[c].status
        /\ OneEnd(http'[c].buf) /\ OneEnd(http'[c].wire)
        /\ ~(Has(http'[c].buf, "end") /\ Has(http'[c].wire, "end"))
        /\ Has(http'[c].buf, "end") \/ Has(http'[c].wire, "end") => Has(http[c].buf, "end") \/ Has(http[c].wire, "end")
    BY DEF Reads
  <1>3. ASSUME NEW w, Begins(c, w)
        PROVE  Serves(c)' /\ job'[g].pc = "clock" /\ job'[g].what = w
    <2>1. PICK j \in Jobs : job' = [job EXCEPT ![g] = j] /\ j.pc = "clock" /\ j.c = c /\ j.what = w
      BY <1>3 DEF Begins
    <2>2. job'[g] = j /\ j # NoJob
      BY <1>0, <2>1 DEF NoJob
    <2> QED
      BY <2>1, <2>2 DEF Serves, NoJob
  <1>4. StatusOf(c)'
    <2>1. CASE job' = job
      <3>1. ~Serves(c)'
        BY <1>0, <2>1 DEF Serves, NoJob
      <3> QED
        BY <1>1, <1>2, <3>1, ToldStep, StatusNext DEF StatusOf
    <2>2. ASSUME NEW w \in {http[c].what, "nowhere"}, Begins(c, w),
                 ~Has(http'[c].buf, "end"), ~Has(http'[c].wire, "end"),
                 Has(http[c].buf, "end") \/ Has(http[c].wire, "end")
          PROVE  StatusOf(c)'
      <3>1. Untouched(c)' /\ http[c].status = 0
        BY <1>1, <2>2, ToldStep DEF StatusOf
      <3>2. Serves(c)' /\ job'[g].pc = "clock" /\ job'[g].what = w
        BY <1>3, <2>2
      <3>3. job'[g].pc \notin Late
        BY <3>2 DEF Late
      <3> QED
        BY <1>2, <2>2, <3>1, <3>2, <3>3, StatusNext
    <2> QED
      BY <2>1, <2>2 DEF Reads
  <1>5. WholeOf(c)'
    <2> SUFFICES ASSUME http[c].what # "none", ~http'[c].split
                 PROVE  /\ http'[c].wire = <<>> /\ Serves(c)'
                        /\ http'[c].status = 0 /\ http'[c].st = "open" /\ job'[g].what = http'[c].what
      BY <1>2 DEF WholeOf
    <2>1. ~http[c].split /\ http[c].wire # <<>> /\ http'[c].wire = <<>>
      BY DEF Reads
    <2>2. http[c].status = 0 /\ http[c].st = "open" /\ http[c].buf = <<>> /\ IsRequest(http[c].wire)
      BY <1>1, <2>1 DEF WholeOf
    <2>3. http'[c].st = http[c].st /\ Begins(c, http[c].what)
      BY <2>2 DEF Reads
    <2> QED
      BY <1>2, <1>3, <2>1, <2>2, <2>3
  <1> QED
    BY <1>4, <1>5

LEMMA HttpStep ==
  ASSUME NetTyped, LoopTyped, JobTyped, SelfInv, AnswerInv, HttpInv, [Next]_vars
  PROVE  HttpInv'
  <1> SUFFICES ASSUME NEW d \in HttpConns PROVE StatusOf(d)' /\ WholeOf(d)'
    BY DEF HttpInv
  <1>0. StatusOf(d) /\ WholeOf(d) /\ \A c \in HttpConns : StatusOf(c)
    BY DEF HttpInv
  <1>1. CASE UNCHANGED <<http, job>>
    <2>1. Serves(d)' <=> Serves(d)
      BY <1>1 DEF Serves, NoJob
    <2> QED
      BY <1>0, <1>1, <2>1, OtherStep
  <1>2. ASSUME NEW c \in HttpConns, Reads(c) PROVE StatusOf(d)' /\ WholeOf(d)'
    <2>1. CASE d = c
      BY <1>2, <2>1, ReadsStep
    <2>2. CASE d # c
      <3>1. http'[d] = http[d] /\ HttpLoopOf[c] \in Threads /\ job[HttpLoopOf[c]] = NoJob
        BY <1>2, <2>2, Constants DEF Reads
      <3>2. CASE job' = job
        <4>1. Serves(d)' <=> Serves(d)
          BY <3>2 DEF Serves, NoJob
        <4> QED
          BY <1>0, <3>1, <3>2, <4>1, OtherStep
      <3>3. ASSUME NEW w, Begins(c, w) PROVE StatusOf(d)' /\ WholeOf(d)'
        <4>1. PICK j \in Jobs : job' = [job EXCEPT ![HttpLoopOf[c]] = j] /\ j.c = c
          BY <3>3 DEF Begins
        <4> QED
          BY <2>2, <3>1, <4>1, OthersStep
      <3> QED
        BY <1>2, <3>2, <3>3 DEF Reads
    <2> QED
      BY <2>1, <2>2
  <1>3. ASSUME NEW g \in Threads, NEW j \in Jobs, Goes(g, j) PROVE StatusOf(d)' /\ WholeOf(d)'
    <2>1. PICK c \in HttpConns : c = job[g].c
      BY <1>3, JobIs DEF Goes
    <2>2. CASE d = c
      BY <1>3, <2>1, <2>2, GoesStep
    <2>3. CASE d # c
      <3>1. job' = [job EXCEPT ![g] = j] /\ j.c = c /\ http'[d] = http[d]
        BY <1>3, <2>1 DEF Goes
      <3> QED
        BY <2>1, <2>3, <3>1, OthersStep
    <2> QED
      BY <2>2, <2>3
  <1>4. ASSUME NEW g \in Threads, NEW s \in {200, 400, 404, 429, 502}, Says(g, s) PROVE StatusOf(d)' /\ WholeOf(d)'
    <2>1. PICK c \in HttpConns : c = job[g].c /\ Tells(c, s) /\ \A e \in HttpConns : e # c => http'[e] = http[e]
      BY <1>4, SaysHttp
    <2>2. CASE d = c
      BY <1>4, <2>1, <2>2, SaysStep
    <2>3. CASE d # c
      <3>1. job' = [job EXCEPT ![g] = NoJob] /\ http'[d] = http[d]
        BY <1>4, <2>1, <2>3 DEF Says, SendResponse
      <3>2. job'[g] = NoJob /\ (\A h \in Threads : h # g => job'[h] = job[h]) /\ job[g].c = c
        BY <2>1, <3>1 DEF JobTyped
      <3> QED
        BY <2>3, <3>1, <3>2, OthersEnd
    <2> QED
      BY <2>2, <2>3
  <1> QED
    BY <1>0, <1>1, <1>2, <1>3, <1>4, JobView, ReadsHttp

---------------------------------------------------------------------------
(* The invariant.                                                          *)

LEMMA ElemsEmpty == Elems(<<>>) = {}
  BY DEF Elems

LEMMA InitServer == Init => NetTyped /\ LoopTyped /\ RegTyped /\ RegInv /\ FrameInv /\ AnswerInv /\ DiscoveredFound
  <1> SUFFICES ASSUME Init
               PROVE  NetTyped /\ LoopTyped /\ RegTyped /\ RegInv /\ FrameInv /\ AnswerInv /\ DiscoveredFound
    OBVIOUS
  <1>1. PICK w \in Worlds :
          /\ todo = w.todo /\ reg = w.reg /\ services = w.services /\ handlers = w.handlers
          /\ announced = w.services \cup w.handlers
    BY DEF Init
  <1>2. /\ sent = [c \in Conns |-> <<>>] /\ part = [c \in Conns |-> FALSE] /\ buf = [c \in Conns |-> <<>>]
        /\ conn = [c \in Conns |-> "open"] /\ loop = [l \in Loops |-> Idle] /\ lock = NoLoop
        /\ replies = [c \in Conns |-> {}] /\ inserting = NoMethod /\ regpc = "start" /\ executed = {}
    BY DEF Init, ServerInit
  <1>3. /\ w.services \subseteq Methods /\ w.handlers \subseteq Methods
        /\ w.reg \in Seq([type : {"json", "proto"}, method : Methods])
        /\ \A i, j \in 1 .. Len(w.reg) :
             w.reg[i].type = w.reg[j].type /\ w.reg[i].method = w.reg[j].method => i = j
        /\ \A i \in 1 .. Len(w.reg) : w.reg[i].type = "proto" => w.reg[i].method \notin w.handlers
        /\ w.todo \in [Conns -> Seq(Frames)]
        /\ \A c \in Conns : \A i \in 1 .. Len(w.todo[c]) :
             w.todo[c][i].type = "proto" => ~ServiceIn(w.todo[c][i].method, w.services, w.reg)
        /\ ~ServiceIn(EchoMethod, w.services, w.reg)
    BY WorldAssumption
  <1>4. NetTyped
    <2>1. <<>> \in Seq(Frames)
      OBVIOUS
    <2> QED
      BY <1>1, <1>2, <1>3, <2>1 DEF NetTyped
  <1>5. LoopTyped
    <2>1. /\ Idle \in LoopStates /\ Idle.pc = "idle"
      BY DEF LoopStates, Idle
    <2>2. \A l \in Loops : loop[l] = Idle
      BY <1>2
    <2>3. loop \in [Loops -> LoopStates]
      BY <1>2, <2>1
    <2> QED
      BY <1>2, <2>1, <2>2, <2>3 DEF LoopTyped
  <1>6. RegTyped
    BY <1>1, <1>2, <1>3 DEF RegTyped
  <1>7. RegInv
    BY <1>1, <1>2, <1>3 DEF RegInv, IsService, ServiceIn
  <1>8. Flight = {}
    <2>1. \A c \in Conns : Elems(sent[c]) = {} /\ Elems(buf[c]) = {}
      BY <1>2, ElemsEmpty
    <2>2. \A l \in Loops : loop[l].pc = "idle"
      BY <1>2 DEF Idle
    <2>3. \A f : f \notin Flight
      BY <2>1, <2>2, FlightIs
    <2> QED
      BY <2>3
  <1>9. FrameInv
    <2>1. \A c \in Conns : \A f \in Elems(todo[c]) : f.type = "proto" => ~IsService(f.method)
      BY <1>1, <1>3 DEF Elems, IsService
    <2>2. ~IsService(EchoMethod)
      BY <1>1, <1>3 DEF IsService
    <2> QED
      BY <1>8, <2>1, <2>2 DEF FrameInv
  <1>10. AnswerInv /\ DiscoveredFound
    BY <1>2 DEF AnswerInv, DiscoveredFound
  <1> QED
    BY <1>4, <1>5, <1>6, <1>7, <1>9, <1>10

LEMMA InitSelf == Init => SelfInv /\ Flight = {}
  <1> SUFFICES ASSUME Init PROVE SelfInv /\ Flight = {}
    OBVIOUS
  <1>1. PICK w \in Worlds : todo = w.todo
    BY DEF Init
  <1>2. /\ \A c \in Conns : sent[c] = <<>> /\ buf[c] = <<>> /\ replies[c] = {}
        /\ \A l \in Loops : loop[l].pc = "idle"
    BY DEF Init, ServerInit, Idle
  <1>3. /\ w.todo \in [Conns -> Seq(Frames)]
        /\ \A c \in Conns : \A i, j \in 1 .. Len(w.todo[c]) :
             w.todo[c][i].rid \in {c} \X Nat /\ (w.todo[c][i].rid = w.todo[c][j].rid => i = j)
    BY WorldAssumption
  <1>4. Flight = {}
    <2>1. \A c \in Conns : Elems(sent[c]) = {} /\ Elems(buf[c]) = {}
      BY <1>2, ElemsEmpty
    <2>2. \A f : f \notin Flight
      BY <1>2, <2>1, FlightIs
    <2> QED
      BY <2>2
  <1>5. ASSUME NEW c \in Conns PROVE (\A f \in Elems(todo[c]) : f.rid \in {c} \X Nat) /\ Lined(c)
    <2> DEFINE s == todo[c]
    <2>0. \A i, j \in 1 .. Len(s) : s[i].rid \in {c} \X Nat /\ (s[i].rid = s[j].rid => i = j)
      BY <1>1, <1>3
    <2>1. \A f \in Elems(todo[c]) : f.rid \in {c} \X Nat
      BY <2>0 DEF Elems
    <2> HIDE DEF s
    <2>2. Once(s)
      BY <2>0, SelfIs DEF Once
    <2>3. SelfRids(s) \subseteq {c} \X Nat
      BY <2>0, SelfIs
    <2>4. Once(todo[c]) /\ SelfRids(todo[c]) \subseteq {c} \X Nat
      BY <2>2, <2>3 DEF s
    <2>5. sent[c] = <<>> /\ buf[c] = <<>>
      BY <1>2
    <2>6. Lined(c)
      BY <2>4, <2>5, OnceEmpty DEF Lined, Coming
    <2> QED
      BY <2>1, <2>6
  <1>6. \A r : NotYet(r)
    BY <1>2, <1>4, Constants DEF NotYet
  <1>7. \A l \in Loops : ~AtHand(l)
    BY <1>2 DEF AtHand
  <1>8. SelfCallStarves
    BY <1>2 DEF SelfCallStarves
  <1> QED
    BY <1>4, <1>5, <1>6, <1>7, <1>8 DEF SelfInv, ComesOnce

LEMMA InitHttp == Init => JobTyped /\ Clocked /\ HttpInv
  <1> SUFFICES ASSUME Init PROVE JobTyped /\ Clocked /\ HttpInv
    OBVIOUS
  <1>1. PICK w \in Worlds :
          http = [c \in HttpConns |->
                   [what |-> w.http[c].what, wire |-> w.http[c].wire, buf |-> <<>>,
                    st |-> "open", status |-> 0, split |-> FALSE]]
    BY DEF Init
  <1>2. /\ w.http \in [HttpConns -> [what : Wants, wire : Seq(Pieces)]]
        /\ \A c \in HttpConns : IF w.http[c].what = "none" THEN w.http[c].wire = <<>>
                                 ELSE IsRequest(w.http[c].wire)
    BY WorldAssumption
  <1>3. \A g \in Threads : job[g] = NoJob /\ seen[g] = Outside
    BY DEF Init, BucketInit
  <1>4. JobTyped
    <2>1. <<>> \in Seq(Pieces) /\ FALSE \in BOOLEAN
      OBVIOUS
    <2>2. ASSUME NEW c \in HttpConns
          PROVE  [what |-> w.http[c].what, wire |-> w.http[c].wire, buf |-> <<>>,
                  st |-> "open", status |-> 0, split |-> FALSE] \in Https
      <3>1. w.http[c].what \in Wants /\ w.http[c].wire \in Seq(Pieces)
        BY <1>2
      <3> QED
        BY <2>1, <3>1 DEF Https
    <2>3. http \in [HttpConns -> Https]
      BY <1>1, <2>2
    <2>4. job \in [Threads -> {NoJob} \cup Jobs]
      BY DEF Init
    <2> QED
      BY <1>3, <2>3, <2>4 DEF JobTyped
  <1>5. Clocked
    BY <1>3 DEF Clocked, NoJob
  <1>6. ASSUME NEW c \in HttpConns PROVE StatusOf(c) /\ WholeOf(c)
    <2>1. /\ http[c].buf = <<>> /\ http[c].st = "open" /\ http[c].status = 0 /\ http[c].split = FALSE
          /\ http[c].wire = w.http[c].wire /\ http[c].what = w.http[c].what
      BY <1>1
    <2>2. ~Serves(c)
      BY <1>3, Constants DEF Serves
    <2>3. Untouched(c)
      <3>1. executed = {}
        BY DEF Init, ServerInit
      <3> QED
        BY <3>1, InitSelf DEF Untouched
    <2>4. http[c].what = "none" \/ IsRequest(http[c].wire)
      BY <1>2, <2>1
    <2>5. OneEnd(http[c].wire)
      <3>1. CASE http[c].wire = <<>>
        BY <3>1 DEF OneEnd
      <3>2. CASE IsRequest(http[c].wire)
        BY <3>2 DEF OneEnd, IsRequest
      <3> QED
        BY <1>2, <2>1, <3>1, <3>2
    <2>6. OneEnd(http[c].buf) /\ ~Has(http[c].buf, "end")
      BY <2>1 DEF OneEnd, Has
    <2>7. StatusOf(c)
      BY <2>1, <2>2, <2>3, <2>5, <2>6 DEF StatusOf
    <2>8. WholeOf(c)
      BY <2>1, <2>4 DEF WholeOf
    <2> QED
      BY <2>7, <2>8
  <1> QED
    BY <1>4, <1>5, <1>6 DEF HttpInv

LEMMA InvInit == Init => GatewayInv
  BY InitServer, InitSelf, InitHttp, BucketStart DEF Init, GatewayInv, ServerInv

LEMMA InvStep == GatewayInv /\ [Next]_vars => GatewayInv'
  <1> SUFFICES ASSUME GatewayInv, [Next]_vars PROVE GatewayInv'
    OBVIOUS
  <1>0. /\ NetTyped /\ LoopTyped /\ RegTyped /\ RegInv /\ FrameInv /\ AnswerInv /\ DiscoveredFound /\ SelfInv
        /\ BucketInv /\ JobTyped /\ Clocked /\ HttpInv /\ BucketTypeOK
    BY DEF GatewayInv, ServerInv, BucketInv
  <1>1. NetTyped' /\ LoopTyped'
    BY <1>0, NetStep, LoopTypedStep
  <1>2. RegTyped' /\ RegInv'
    BY <1>0, RegStep
  <1>3. FrameInv'
    BY <1>0, FrameStep
  <1>4. AnswerInv' /\ DiscoveredFound'
    BY <1>0, AnswerStep
  <1>5. SelfInv'
    BY <1>0, SelfStep
  <1>6. BucketInv'
    BY <1>0, BucketView, BucketStep
  <1>7. JobTyped' /\ Clocked' /\ HttpInv'
    BY <1>0, JobTypedStep, ClockedStep, HttpStep
  <1> QED
    BY <1>1, <1>2, <1>3, <1>4, <1>5, <1>6, <1>7 DEF GatewayInv, ServerInv

LEMMA InvSafe == GatewayInv => GatewaySafe /\ SelfCallStarves /\ AdmitBound
  <1> SUFFICES ASSUME GatewayInv PROVE GatewaySafe /\ SelfCallStarves /\ AdmitBound
    OBVIOUS
  <1>0. /\ NetTyped /\ LoopTyped /\ DiscoveredFound /\ SelfInv
        /\ BucketInv /\ JobTyped /\ Clocked /\ HttpInv
    BY DEF GatewayInv, ServerInv
  <1>1. ServerTypeOK
    <2>1. \A l \in Loops : loop[l].pc \in {"idle", "parse", "lock", "run", "await"}
      <3> SUFFICES ASSUME NEW l \in Loops PROVE loop[l].pc \in {"idle", "parse", "lock", "run", "await"}
        OBVIOUS
      <3>1. loop[l] \in LoopStates
        BY <1>0 DEF LoopTyped
      <3> QED
        BY <3>1 DEF LoopStates, Idle, Busy
    <2> QED
      BY <1>0, <2>1, Constants DEF ServerTypeOK, NetTyped, LoopTyped
  <1>2. \A g \in Threads :
          /\ job[g].pc \in {"idle", "clock", "allow", "route", "attempt", "resend", "wait"}
          /\ (seen[g] # Outside) = (job[g].pc = "allow")
          /\ job[g] # NoJob => job[g].attempt \in 0 .. MaxRetries /\ job[g].n \in 0 .. 2 * (MaxRetries + 1)
    <2> SUFFICES ASSUME NEW g \in Threads
                 PROVE  /\ job[g].pc \in {"idle", "clock", "allow", "route", "attempt", "resend", "wait"}
                        /\ job[g] # NoJob => job[g].attempt \in 0 .. MaxRetries /\ job[g].n \in 0 .. 2 * (MaxRetries + 1)
      BY <1>0 DEF Clocked
    <2>1. CASE job[g] = NoJob
      BY <2>1 DEF NoJob
    <2>2. CASE job[g] # NoJob
      <3>1. job[g].pc # "idle"
        BY <1>0, <2>2, SomeJob
      <3>2. /\ job[g].pc \in Early \cup Late /\ job[g].attempt \in Nat /\ job[g].n \in Nat /\ Counted(job[g])
            /\ MaxRetries \in Nat
        BY <1>0, <3>1, JobIs, Constants
      <3>3. job[g].attempt <= MaxRetries /\ job[g].n <= 2 * job[g].attempt + 2
        BY <3>2 DEF Counted
      <3>4. job[g].n <= 2 * (MaxRetries + 1)
        BY <3>2, <3>3
      <3> QED
        BY <3>2, <3>3, <3>4 DEF Early, Late
    <2> QED
      BY <2>1, <2>2
  <1>3. \A c \in HttpConns : http[c].status \in {0, 200, 400, 404, 429, 502} /\ http[c].st \in {"open", "shut"}
    BY <1>0 DEF JobTyped, Https
  <1>4. TypeOK
    BY <1>0, <1>1, <1>2, <1>3 DEF TypeOK, BucketInv
  <1>5. StatusTrue
    <2>1. \A c \in HttpConns : StatusOf(c)
      BY <1>0 DEF HttpInv
    <2>2. \A c \in HttpConns : Untouched(c) => Sends(c) = {}
      BY DEF Untouched, Sends
    <2> QED
      BY <2>1, <2>2 DEF StatusTrue, StatusOf
  <1>6. ServedUnlessSplit
    <2>1. ASSUME NEW c \in HttpConns, http[c].wire = <<>>, http[c].what # "none", ~http[c].split
          PROVE  \/ http[c].status # 0 /\ (http[c].status = 404 => http[c].what = "nowhere")
                 \/ Serves(c)
      <3>1. ~IsRequest(http[c].wire)
        BY <2>1 DEF IsRequest
      <3>2. WholeOf(c)
        BY <1>0 DEF HttpInv
      <3> QED
        BY <2>1, <3>1, <3>2 DEF WholeOf
    <2> QED
      BY <2>1 DEF ServedUnlessSplit, Serves
  <1> QED
    BY <1>0, <1>4, <1>5, <1>6 DEF GatewaySafe, SelfInv, BucketInv

LEMMA Invariant == Spec => []GatewayInv
  BY InvInit, InvStep, PTL DEF Spec

\* What an HTTP client is told is true, whatever threads, retries and requests
\* there are: after 200 the handler of the server ran for this very request,
\* after 400, 404 and 429 nothing of it got there, a request that arrives in one
\* read is recognised, and a method that was announced is found.
THEOREM Safety == Spec => []GatewaySafe
  BY Invariant, InvSafe, PTL

\* A handler that calls its own server (rpc_router.hpp, under the dispatcher's
\* lock) never has its answer while it waits, however many loops there are.
THEOREM Starves == Spec => []SelfCallStarves
  BY Invariant, InvSafe, PTL

\* The same in the gateway: it lets no more requests through than that,
\* although its IO threads call allow() concurrently.
THEOREM Admits == Spec => []AdmitBound
  BY Invariant, InvSafe, PTL

=============================================================================
