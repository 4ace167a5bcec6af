----------------------------- MODULE TopicProofs -----------------------------
(***************************************************************************)
(* Machine-checked proofs about Topic and TopicForward for every number of *)
(* clients and topics, all publications and any interleaving of calls,     *)
(* timeouts, answers, pushes and lost connections.                         *)
(***************************************************************************)
EXTENDS Topic, FiniteSetTheorems, FunctionTheorems, SequenceTheorems, WellFoundedInduction, TLAPS

---------------------------------------------------------------------------
(* The inductive invariant.                                                *)

Limit == Max({1} \cup {Cardinality(Clients)})

Requests ==
  [op : {"SUBSCRIBE"}, t : Names, arg : Attrs, live : BOOLEAN]
    \cup [op : {"PUBLISH"}, t : Names, arg : Pubs, live : BOOLEAN]
    \cup [op : {"CREATE", "REMOVE", "UNSUBSCRIBE"}, t : Names, arg : {{}}, live : BOOLEAN]

Answers == [type : {"RSP"}, t : Names, ok : BOOLEAN, live : BOOLEAN]

Pushes == [type : {"PUSH"}, t : Names, live : {FALSE}]

CallsOf ==
  {Idle} \cup [at : {"sent"}, op : Ops, t : Names]
         \cup [at : {"answered"}, op : Ops, t : Names, ok : BOOLEAN]

\* The queues and the calls hold what they are made for.
MessagesOk ==
  /\ toSrv \in [Clients -> Seq(Requests)]
  /\ toCli \in [Clients -> Seq(Answers \cup Pushes)]
  /\ call \in [Clients -> CallsOf]
  /\ state \in [Clients -> {"connected", "lost", "dead"}]
  /\ cbs \subseteq Pairs
  /\ gaveUp \subseteq Pairs /\ removed \subseteq Pairs /\ trusts \subseteq Pairs /\ cancelled \subseteq Pairs

\* A topic's subscribers, each once, and a cursor that has a subscriber's place.
TopicRecords ==
  {r \in [subs : Seq(Clients), rr : Nat] : IsInjective(r.subs) /\ r.rr < Limit}

TablesOk ==
  /\ DOMAIN topics \subseteq Names /\ topics \in [DOMAIN topics -> TopicRecords]
  /\ DOMAIN subscribers \subseteq open
  /\ subscribers \in [DOMAIN subscribers -> [topics : SUBSET Names, attr : Attrs]]
  /\ pri \in 0 .. Cardinality(Clients) /\ up \in BOOLEAN /\ open \subseteq Clients
  /\ TablesAgree

\* The subscribers of topic t, none when there is no such topic.
Subs(t) == IF t \in DOMAIN topics THEN Range(topics[t].subs) ELSE {}

\* Only one message of a connection is waited for: the last request, or the
\* answer to it, behind which no request is left.
Flow(c) ==
  /\ \A i \in DOMAIN toSrv[c] : toSrv[c][i].live =>
       /\ i = Len(toSrv[c]) /\ call[c].at = "sent"
       /\ toSrv[c][i].op = call[c].op /\ toSrv[c][i].t = call[c].t
  /\ \A i \in DOMAIN toCli[c] : toCli[c][i].live =>
       /\ call[c].at = "sent" /\ toSrv[c] = <<>>
       /\ \A k \in DOMAIN toCli[c] : toCli[c][k].live => k = i
  /\ call[c].at = "answered" => toSrv[c] = <<>>

\* The call of c for op on t has an answer, on its way or arrived, that says ok.
AnswerIs(c, op, t, ok) ==
  /\ call[c].at \in {"sent", "answered"} /\ call[c].op = op /\ call[c].t = t
  /\ \/ call[c].at = "answered" /\ call[c].ok = ok
     \/ call[c].at = "sent" /\ \E i \in DOMAIN toCli[c] : toCli[c][i].live /\ toCli[c][i].ok = ok

Asks(c, op, t) == \E i \in DOMAIN toSrv[c] : toSrv[c][i].op = op /\ toSrv[c][i].t = t

\* What the server may make or has made of c's calls about t agrees with what c
\* believes.
Agreed(c, t) ==
  /\ Asks(c, "SUBSCRIBE", t) \/ c \in Subs(t) => <<c, t>> \in cbs \cup gaveUp /\ <<c, t>> \notin cancelled
  /\ AnswerIs(c, "SUBSCRIBE", t, FALSE) => c \notin Subs(t) \/ <<c, t>> \in gaveUp
  /\ AnswerIs(c, "SUBSCRIBE", t, TRUE) \/ <<c, t>> \in trusts =>
       (state[c] = "connected" => <<c, t>> \in removed \/ c \in Subs(t))
  /\ Asks(c, "UNSUBSCRIBE", t) => <<c, t>> \notin trusts
  /\ \A ok \in BOOLEAN : AnswerIs(c, "UNSUBSCRIBE", t, ok) => c \notin Subs(t)

\* No push of t is behind the answer to c's cancelTopic, nor anywhere when the
\* answer has arrived.
Quiet(c, t) ==
  /\ <<c, t>> \in cancelled \/ (call[c].at = "answered" /\ call[c].op = "UNSUBSCRIBE" /\ call[c].t = t) =>
       \A i \in DOMAIN toCli[c] : ~(toCli[c][i].type = "PUSH" /\ toCli[c][i].t = t)
  /\ call[c].at = "sent" /\ call[c].op = "UNSUBSCRIBE" /\ call[c].t = t =>
       \A i, k \in DOMAIN toCli[c] :
         toCli[c][i].live /\ i < k => ~(toCli[c][k].type = "PUSH" /\ toCli[c][k].t = t)

TopicInv ==
  /\ MessagesOk /\ TablesOk
  /\ \A c \in Clients : Flow(c)
  /\ \A c \in Clients, t \in Names : Agreed(c, t) /\ Quiet(c, t)

---------------------------------------------------------------------------
(* Numbers and sequences.                                                  *)

LEMMA MinOfTwo ==
  ASSUME NEW a \in Int, NEW b \in Int
  PROVE  Min({a, b}) \in {a, b} /\ Min({a, b}) <= a /\ Min({a, b}) <= b
  <1>1. \E x \in {a, b} : \A y \in {a, b} : x <= y
    <2>1. CASE a <= b
      BY <2>1
    <2>2. CASE b <= a
      BY <2>2
    <2> QED
      BY <2>1, <2>2
  <1>2. Min({a, b}) \in {a, b} /\ \A y \in {a, b} : Min({a, b}) <= y
    BY <1>1 DEF Min
  <1> QED
    BY <1>2

LEMMA MaxOfTwo ==
  ASSUME NEW a \in Int, NEW b \in Int
  PROVE  Max({a, b}) \in {a, b} /\ Max({a, b}) >= a /\ Max({a, b}) >= b
  <1>1. \E x \in {a, b} : \A y \in {a, b} : x >= y
    <2>1. CASE a >= b
      BY <2>1
    <2>2. CASE b >= a
      BY <2>2
    <2> QED
      BY <2>1, <2>2
  <1>2. Max({a, b}) \in {a, b} /\ \A y \in {a, b} : Max({a, b}) >= y
    BY <1>1 DEF Max
  <1> QED
    BY <1>2

LEMMA LimitIs ==
  /\ IsFiniteSet(Clients) /\ Cardinality(Clients) \in Nat
  /\ Limit \in Nat /\ Limit >= 1 /\ Limit >= Cardinality(Clients)
  <1>1. IsFiniteSet(Clients) /\ Cardinality(Clients) \in Nat
    BY TopicAssumption, FS_CardinalityType
  <1>2. {1} \cup {Cardinality(Clients)} = {1, Cardinality(Clients)}
    OBVIOUS
  <1>3. /\ Limit \in {1, Cardinality(Clients)}
        /\ Limit >= 1 /\ Limit >= Cardinality(Clients)
    <2>1. PICK x \in Int : x = Cardinality(Clients)
      BY <1>1
    <2>2. Limit = Max({1, x})
      BY <1>2, <2>1 DEF Limit
    <2>3. 1 \in Int
      OBVIOUS
    <2>4. Max({1, x}) \in {1, x} /\ Max({1, x}) >= 1 /\ Max({1, x}) >= x
      BY <2>3, MaxOfTwo
    <2> QED
      BY <2>1, <2>2, <2>4
  <1> QED
    BY <1>1, <1>3

LEMMA RangeIn ==
  ASSUME NEW S, NEW s \in Seq(S)
  PROVE  Range(s) \subseteq S /\ s \in Seq(Range(s)) /\ Range(s) = {s[i] : i \in 1 .. Len(s)}
  <1>1. DOMAIN s = 1 .. Len(s) /\ Len(s) \in Nat /\ \A i \in 1 .. Len(s) : s[i] \in S
    OBVIOUS
  <1>2. Range(s) = {s[i] : i \in 1 .. Len(s)}
    BY <1>1 DEF Range
  <1>3. s \in [1 .. Len(s) -> Range(s)]
    BY <1>1, <1>2
  <1>4. s \in Seq(Range(s))
    BY <1>1, <1>3
  <1> QED
    BY <1>1, <1>2, <1>4

\* A list without repetitions has as many members as positions.
LEMMA RangeCard ==
  ASSUME NEW S, NEW s \in Seq(S), IsInjective(s)
  PROVE  IsFiniteSet(Range(s)) /\ Cardinality(Range(s)) = Len(s)
  <1>1. s \in [1 .. Len(s) -> Range(s)]
    BY DEF Range
  <1>2. s \in Bijection(1 .. Len(s), Range(s))
    BY <1>1 DEF IsInjective, Range, Bijection, Injection, Surjection
  <1>3. IsFiniteSet(1 .. Len(s)) /\ Cardinality(1 .. Len(s)) = Len(s)
    <2>1. Len(s) \in Int /\ 1 \in Int /\ (IF 1 > Len(s) THEN 0 ELSE Len(s) - 1 + 1) = Len(s)
      OBVIOUS
    <2> QED
      BY <2>1, FS_Interval
  <1> QED
    BY <1>2, <1>3, FS_Bijection DEF ExistsBijection

\* The orders of a finite set have all its elements.
LEMMA OrderIs ==
  ASSUME NEW S, IsFiniteSet(S), NEW s \in SetToSeqs(S)
  PROVE  s \in Seq(S) /\ IsInjective(s) /\ Range(s) = S /\ Len(s) = Cardinality(S)
  <1> DEFINE n == Cardinality(S)
  <1>1. n \in Nat
    BY FS_CardinalityType
  <1>2. s \in [1 .. n -> S] /\ \A i, k \in 1 .. n : i # k => s[i] # s[k]
    BY DEF SetToSeqs
  <1> HIDE DEF n
  <1>3. s \in Seq(S) /\ Len(s) = n /\ DOMAIN s = 1 .. n
    BY <1>1, <1>2
  <1>4. IsInjective(s)
    BY <1>2, <1>3 DEF IsInjective
  <1>5. s \in Injection(1 .. n, S)
    BY <1>2, <1>4 DEF Injection
  <1>6. Cardinality(1 .. n) = n
    <2>1. n \in Int /\ 1 \in Int /\ (IF 1 > n THEN 0 ELSE n - 1 + 1) = n
      BY <1>1
    <2> QED
      BY <2>1, FS_Interval
  <1>7. s \in Surjection(1 .. n, S)
    <2>1. Cardinality(1 .. n) = Cardinality(S)
      BY <1>6 DEF n
    <2> QED
      BY <1>5, <2>1, FS_Injection
  <1>8. Range(s) = S
    BY <1>3, <1>7 DEF Surjection, Range
  <1> QED
    BY <1>3, <1>4, <1>8 DEF n

LEMMA PrefixIs ==
  ASSUME NEW S, NEW s \in Seq(S), NEW n \in Int, n <= Len(s)
  PROVE  SubSeq(s, 1, n) \in Seq(S)
  OBVIOUS

\* A sequence without its i-th element: the later ones move up.
LEMMA RemovedIs ==
  ASSUME NEW S, NEW s \in Seq(S), NEW i \in 1 .. Len(s)
  PROVE  /\ RemoveAt(s, i) \in Seq(S) /\ Len(RemoveAt(s, i)) = Len(s) - 1
         /\ \A k \in 1 .. Len(s) - 1 : RemoveAt(s, i)[k] = s[IF k < i THEN k ELSE k + 1]
  <1> DEFINE a == SubSeq(s, 1, i - 1)
             b == SubSeq(s, i + 1, Len(s))
  <1>0. Len(s) \in Nat /\ i \in Nat /\ i >= 1 /\ i <= Len(s)
    OBVIOUS
  <1>1. a \in Seq(S) /\ Len(a) = i - 1 /\ \A k \in 1 .. i - 1 : a[k] = s[k]
    BY <1>0
  <1>2. b \in Seq(S) /\ Len(b) = Len(s) - i /\ \A k \in 1 .. Len(s) - i : b[k] = s[i + k]
    BY <1>0
  <1>3. RemoveAt(s, i) = a \o b
    BY DEF RemoveAt
  <1> HIDE DEF a, b
  <1>4. /\ a \o b \in Seq(S) /\ Len(a \o b) = Len(s) - 1
        /\ \A k \in 1 .. Len(s) - 1 : (a \o b)[k] = IF k <= i - 1 THEN a[k] ELSE b[k - (i - 1)]
    <2>1. /\ a \o b \in Seq(S) /\ Len(a \o b) = Len(a) + Len(b)
          /\ \A k \in 1 .. Len(a) + Len(b) : (a \o b)[k] = IF k <= Len(a) THEN a[k] ELSE b[k - Len(a)]
      BY <1>1, <1>2, ConcatProperties
    <2> QED
      BY <1>0, <1>1, <1>2, <2>1
  <1>5. ASSUME NEW k \in 1 .. Len(s) - 1
        PROVE  (a \o b)[k] = s[IF k < i THEN k ELSE k + 1]
    <2>1. CASE k <= i - 1
      BY <1>0, <1>1, <1>4, <2>1
    <2>2. CASE ~(k <= i - 1)
      <3>1. k - (i - 1) \in 1 .. Len(s) - i /\ i + (k - (i - 1)) = k + 1 /\ ~(k < i)
        BY <1>0, <2>2
      <3>2. (a \o b)[k] = b[k - (i - 1)]
        BY <1>4, <2>2
      <3> QED
        BY <1>2, <3>1, <3>2
    <2> QED
      BY <2>1, <2>2
  <1> QED
    BY <1>3, <1>4, <1>5

\* The subscribers without c.
LEMMA DelIs ==
  ASSUME NEW S, NEW s \in Seq(S), IsInjective(s), NEW c
  PROVE  /\ delSubscribe(s, c) \in Seq(S) /\ IsInjective(delSubscribe(s, c))
         /\ Range(delSubscribe(s, c)) = Range(s) \ {c}
  <1> DEFINE p == CHOOSE i \in DOMAIN s : s[i] = c
             d == RemoveAt(s, p)
  <1>1. CASE c \notin Range(s)
    BY <1>1 DEF delSubscribe
  <1>2. CASE c \in Range(s)
    <2>1. p \in 1 .. Len(s) /\ s[p] = c
      BY <1>2 DEF Range
    <2>2. delSubscribe(s, c) = d
      BY <1>2 DEF delSubscribe
    <2> HIDE DEF p
    <2>3. /\ d \in Seq(S) /\ Len(d) = Len(s) - 1
          /\ \A k \in 1 .. Len(s) - 1 : d[k] = s[IF k < p THEN k ELSE k + 1]
      BY <2>1, RemovedIs
    <2> HIDE DEF d
    <2>4. \A i, k \in 1 .. Len(s) : s[i] = s[k] => i = k
      BY DEF IsInjective
    <2>5. DOMAIN d = 1 .. Len(s) - 1 /\ Len(s) \in Nat
      BY <2>3
    <2>6. ASSUME NEW i \in 1 .. Len(s) - 1, NEW k \in 1 .. Len(s) - 1, d[i] = d[k]
          PROVE  i = k
      <3> DEFINE x == IF i < p THEN i ELSE i + 1
                 y == IF k < p THEN k ELSE k + 1
      <3>1. x \in 1 .. Len(s) /\ y \in 1 .. Len(s) /\ (x = y => i = k)
        BY <2>1, <2>5
      <3>2. d[i] = s[x] /\ d[k] = s[y]
        BY <2>3
      <3> HIDE DEF x, y
      <3> QED
        BY <2>4, <2>6, <3>1, <3>2
    <2>7. Range(d) \subseteq Range(s) \ {c}
      <3> SUFFICES ASSUME NEW i \in 1 .. Len(s) - 1 PROVE d[i] \in Range(s) /\ d[i] # c
        BY <2>5 DEF Range
      <3> DEFINE x == IF i < p THEN i ELSE i + 1
      <3>1. x \in 1 .. Len(s) /\ x # p
        BY <2>1, <2>5
      <3>2. d[i] = s[x]
        BY <2>3
      <3> HIDE DEF x
      <3> QED
        BY <2>1, <2>4, <3>1, <3>2 DEF Range
    <2>8. Range(s) \ {c} \subseteq Range(d)
      <3> SUFFICES ASSUME NEW j \in 1 .. Len(s), s[j] # c PROVE s[j] \in Range(d)
        BY DEF Range
      <3> DEFINE i == IF j < p THEN j ELSE j - 1
      <3>1. i \in 1 .. Len(s) - 1 /\ (IF i < p THEN i ELSE i + 1) = j
        BY <2>1, <2>5
      <3>2. d[i] = s[j]
        BY <2>3, <3>1
      <3> HIDE DEF i
      <3> QED
        BY <2>5, <3>1, <3>2 DEF Range
    <2> QED
      BY <2>2, <2>3, <2>5, <2>6, <2>7, <2>8 DEF IsInjective
  <1> QED
    BY <1>1, <1>2

---------------------------------------------------------------------------
(* Forwarding.                                                             *)

\* What every strategy may do: send to subscribers and leave the cursors where
\* they may be.
Proper(o, subs) ==
  /\ o.to \in Seq(Range(subs)) /\ o.rr \in Nat /\ o.rr < Limit
  /\ o.pri \in 0 .. Cardinality(Clients) /\ o.dies \in BOOLEAN

LEMMA OutcomeIs ==
  ASSUME NEW subs \in Seq(Clients), IsInjective(subs), NEW rr \in Nat, rr < Limit,
         NEW pr \in 0 .. Cardinality(Clients), NEW attr, NEW p \in Pubs,
         NEW o \in dispatchMessage(subs, rr, pr, attr, p)
  PROVE  Proper(o, subs)
  <1> DEFINE R == Range(subs)
             n == Len(subs)
  <1>0. /\ p.limit \in Int /\ p.count \in Int /\ p.key \in Nat \cup {NoKey}
        /\ Cardinality(Clients) \in Nat /\ Limit \in Nat /\ Limit >= 1 /\ Limit >= Cardinality(Clients)
    BY TopicAssumption, LimitIs
  <1>1. subs \in Seq(R) /\ R \subseteq Clients /\ IsFiniteSet(R) /\ Cardinality(R) = n /\ n \in Nat
    BY RangeIn, RangeCard
  <1>2. n <= Cardinality(Clients)
    BY <1>1, LimitIs, FS_Subset
  <1>3. \A i \in 1 .. n : subs[i] \in R
    BY <1>1
  <1>4. ASSUME NEW to \in Seq(R), o = Outcome(to, rr, pr)
        PROVE  Proper(o, subs)
    BY <1>4 DEF Outcome, Proper
  <1>5. <<>> \in Seq(R) /\ \A c \in R : <<c>> \in Seq(R)
    OBVIOUS
  <1>6. \A s \in Shuffled(subs), m \in Int : SubSeq(s, 1, Min({m, n})) \in Seq(R)
    <2> SUFFICES ASSUME NEW s \in Shuffled(subs), NEW m \in Int
                 PROVE  SubSeq(s, 1, Min({m, n})) \in Seq(R)
      OBVIOUS
    <2>1. s \in Seq(R) /\ Len(s) = n
      BY <1>1, OrderIs DEF Shuffled
    <2>2. n \in Int
      BY <1>1
    <2> HIDE DEF n
    <2>3. Min({m, n}) \in {m, n} /\ Min({m, n}) <= n
      BY <2>2, MinOfTwo
    <2>4. Min({m, n}) \in Int
      BY <2>2, <2>3
    <2> QED
      BY <2>1, <2>3, <2>4, PrefixIs
  <1>7. CASE subs = <<>>
    BY <1>4, <1>5, <1>7 DEF dispatchMessage
  <1>8. CASE subs # <<>> /\ p.strategy = "ROUND_ROBIN"
    <2>1. o = Outcome(<<subs[(rr % n) + 1]>>, ((rr % n) + 1) % n, pr)
      BY <1>8 DEF dispatchMessage, roundRobinSend
    <2>2. n >= 1
      BY <1>8
    <2>3. (rr % n) + 1 \in 1 .. n /\ ((rr % n) + 1) % n \in 0 .. n - 1
      BY <1>1, <2>2
    <2>4. <<subs[(rr % n) + 1]>> \in Seq(R)
      BY <1>3, <1>5, <2>3
    <2>5. ((rr % n) + 1) % n \in Nat /\ ((rr % n) + 1) % n < Limit
      BY <1>0, <1>1, <1>2, <2>3
    <2> QED
      BY <2>1, <2>4, <2>5 DEF Outcome, Proper
  <1>9. CASE subs # <<>> /\ p.strategy = "FANOUT"
    <2> DEFINE first == IF p.limit <= 0 \/ p.limit >= n THEN subs ELSE <<>>
    <2>1. PICK s \in Shuffled(subs), b \in BehindEnd(subs, Max({0, p.limit - n})) :
            o = [to |-> first \o SubSeq(s, 1, Min({p.limit, n})) \o b.to, rr |-> rr, pri |-> pr, dies |-> b.dies]
      <3>1. o \in fanoutSend(subs, rr, pr, p)
        BY <1>9 DEF dispatchMessage
      <3> QED
        BY <3>1, Zenon DEF fanoutSend
    <2>2. first \in Seq(R)
      BY <1>1, <1>5
    <2>3. SubSeq(s, 1, Min({p.limit, n})) \in Seq(R)
      BY <1>0, <1>6
    <2>4. Max({0, p.limit - n}) \in Int
      <3> DEFINE d == p.limit - n
      <3>1. d \in Int /\ 0 \in Int
        BY <1>0, <1>1
      <3> HIDE DEF d
      <3>2. Max({0, d}) \in {0, d}
        BY <3>1, MaxOfTwo
      <3>3. Max({0, d}) \in Int
        BY <3>1, <3>2
      <3> QED
        BY <3>3 DEF d
    <2>5. b.to \in Seq(R) /\ b.dies \in BOOLEAN
      <3>1. PICK k \in 0 .. Max({0, p.limit - n}) : \E q \in [1 .. k -> Range(subs)] :
              b = [to |-> q, dies |-> k < Max({0, p.limit - n})]
        BY DEF BehindEnd
      <3>2. k \in Nat
        BY <2>4
      <3> QED
        BY <3>1, <3>2
    <2> HIDE DEF first
    <2>6. first \o SubSeq(s, 1, Min({p.limit, n})) \o b.to \in Seq(R)
      <3> DEFINE mid == SubSeq(s, 1, Min({p.limit, n}))
      <3> HIDE DEF mid, R
      <3>1. mid \in Seq(R)
        BY <2>3 DEF mid
      <3>2. first \o mid \in Seq(R)
        BY <2>2, <3>1, ConcatProperties
      <3>3. (first \o mid) \o b.to \in Seq(R)
        BY <2>5, <3>2, ConcatProperties
      <3> QED
        BY <3>3 DEF mid
    <2> QED
      BY <2>1, <2>5, <2>6 DEF Proper
  <1>10. CASE subs # <<>> /\ p.strategy = "SOURCE_HASH"
    <2>1. o = Outcome(IF p.key = NoKey THEN <<>> ELSE <<subs[(p.key % n) + 1]>>, rr, pr)
      BY <1>10 DEF dispatchMessage, sourceHashSend
    <2>2. p.key # NoKey => (p.key % n) + 1 \in 1 .. n
      BY <1>0, <1>1, <1>10
    <2>3. (IF p.key = NoKey THEN <<>> ELSE <<subs[(p.key % n) + 1]>>) \in Seq(R)
      BY <1>3, <1>5, <2>2
    <2> QED
      BY <1>4, <2>1, <2>3
  <1>11. CASE subs # <<>> /\ p.strategy = "PRIORITY"
    <2> DEFINE cand == Candidates(subs, attr, p)
    <2>1. cand \subseteq 1 .. n
      BY <1>1 DEF Candidates, matchtags
    <2>2. CASE cand = {}
      <3>1. o = Outcome(subs, rr, pr)
        BY <1>11, <2>2 DEF dispatchMessage, prioritySend, broadcastSend
      <3> QED
        BY <1>1, <1>4, <3>1
    <2>3. CASE cand # {}
      <3>1. PICK i \in cand : o = Outcome(<<subs[i]>>, rr, (pr + 1) % Cardinality(cand))
        BY <1>11, <2>3 DEF dispatchMessage, prioritySend
      <3>2. IsFiniteSet(cand) /\ Cardinality(cand) <= n /\ Cardinality(cand) \in Nat
        <4>1. IsFiniteSet(1 .. n) /\ Cardinality(1 .. n) = n
          <5>1. n \in Int /\ 1 \in Int /\ (IF 1 > n THEN 0 ELSE n - 1 + 1) = n
            BY <1>1
          <5> QED
            BY <5>1, FS_Interval
        <4> HIDE DEF cand
        <4>2. PICK I : I = 1 .. n
          OBVIOUS
        <4>3. cand \in SUBSET I /\ IsFiniteSet(I) /\ Cardinality(I) = n
          BY <2>1, <4>1, <4>2
        <4>4. IsFiniteSet(cand) /\ Cardinality(cand) <= n
          BY <4>3, FS_Subset
        <4> QED
          BY <4>4, FS_CardinalityType
      <3>3. Cardinality(cand) # 0
        BY <2>3, <3>2, FS_EmptySet
      <3> DEFINE m == Cardinality(cand)
      <3>4. m \in Nat /\ m >= 1 /\ m <= Cardinality(Clients)
        BY <1>0, <1>1, <1>2, <3>2, <3>3
      <3> HIDE DEF m
      <3>5. (pr + 1) % m \in 0 .. Cardinality(Clients)
        BY <1>0, <3>4
      <3>6. <<subs[i]>> \in Seq(R)
        BY <1>3, <1>5, <2>1
      <3>7. o = Outcome(<<subs[i]>>, rr, (pr + 1) % m)
        BY <3>1 DEF m
      <3> QED
        BY <3>5, <3>6, <3>7 DEF Outcome, Proper
    <2> QED
      BY <2>2, <2>3
  <1>12. CASE subs # <<>> /\ p.strategy = "REDUNDANT"
    <2>1. CASE p.count <= 1
      <3>1. o = Outcome(subs, rr, pr)
        BY <1>12, <2>1 DEF dispatchMessage, redundantSend, broadcastSend
      <3> QED
        BY <1>1, <1>4, <3>1
    <2>2. CASE ~(p.count <= 1)
      <3>1. PICK s \in Shuffled(subs) : o = Outcome(SubSeq(s, 1, Min({p.count, n})), rr, pr)
        BY <1>12, <2>2 DEF dispatchMessage, redundantSend
      <3> QED
        BY <1>0, <1>4, <1>6, <3>1
    <2> QED
      BY <2>1, <2>2
  <1>13. CASE /\ subs # <<>>
              /\ p.strategy \notin {"ROUND_ROBIN", "FANOUT", "SOURCE_HASH", "PRIORITY", "REDUNDANT"}
    <2>1. o = Outcome(subs, rr, pr)
      BY <1>13 DEF dispatchMessage, broadcastSend
    <2> QED
      BY <1>1, <1>4, <2>1
  <1> QED
    BY <1>7, <1>8, <1>9, <1>10, <1>11, <1>12, <1>13

---------------------------------------------------------------------------
(* Sending.                                                                *)

LEMMA CopiesIs ==
  ASSUME NEW to \in Seq(Clients), NEW c
  PROVE  /\ Cardinality({k \in DOMAIN to : to[k] = c}) \in Nat
         /\ c \notin Range(to) => Cardinality({k \in DOMAIN to : to[k] = c}) = 0
  <1> DEFINE K == {k \in DOMAIN to : to[k] = c}
  <1>1. DOMAIN to = 1 .. Len(to) /\ Len(to) \in Nat
    OBVIOUS
  <1>2. IsFiniteSet(1 .. Len(to))
    BY <1>1, FS_Interval
  <1>3. K \subseteq 1 .. Len(to)
    BY <1>1
  <1>4. c \notin Range(to) => K = {}
    BY DEF Range
  <1> HIDE DEF K
  <1>5. Cardinality(K) \in Nat
    BY <1>2, <1>3, FS_Subset, FS_CardinalityType
  <1>6. c \notin Range(to) => Cardinality(K) = 0
    BY <1>4, FS_EmptySet
  <1> QED
    BY <1>5, <1>6 DEF K

\* The queue r of connection c, made from q[c] by sends to the connections in a
\* list.
Sent(S, q, to, msg, c, r) ==
  /\ r \in Seq(S) /\ Len(q[c]) <= Len(r)
  /\ \A i \in 1 .. Len(q[c]) : r[i] = q[c][i]
  /\ \A i \in 1 .. Len(r) : i > Len(q[c]) => r[i] = msg
  /\ c \notin Range(to) \/ state[c] # "connected" => r = q[c]

LEMMA SendIs ==
  ASSUME NEW S, NEW q \in [Clients -> Seq(S)], NEW to \in Seq(Clients), NEW msg \in S, NEW c \in Clients
  PROVE  Sent(S, q, to, msg, c, Send(q, to, msg)[c])
  <1> DEFINE n == Cardinality({k \in DOMAIN to : to[k] = c})
             m == [i \in 1 .. n |-> msg]
             r == Send(q, to, msg)[c]
  <1>1. n \in Nat /\ (c \notin Range(to) => n = 0)
    BY CopiesIs
  <1>2. r = IF state[c] = "connected" THEN q[c] \o m ELSE q[c]
    BY DEF Send
  <1> HIDE DEF n, r
  <1>3. m \in Seq(S) /\ Len(m) = n /\ \A i \in 1 .. n : m[i] = msg
    BY <1>1
  <1>4. q[c] \in Seq(S) /\ Len(q[c]) \in Nat
    OBVIOUS
  <1> HIDE DEF m
  <1>5. /\ q[c] \o m \in Seq(S) /\ Len(q[c] \o m) = Len(q[c]) + n
        /\ \A i \in 1 .. Len(q[c]) + n : (q[c] \o m)[i] = IF i <= Len(q[c]) THEN q[c][i] ELSE m[i - Len(q[c])]
    BY <1>3, <1>4, ConcatProperties
  <1>6. n = 0 => q[c] \o m = q[c]
    BY <1>1, <1>3, <1>4, <1>5
  <1>7. \A i \in 1 .. Len(q[c]) + n : i > Len(q[c]) => i - Len(q[c]) \in 1 .. n
    BY <1>1, <1>4
  <1>8. CASE state[c] = "connected"
    <2>1. r = q[c] \o m
      BY <1>2, <1>8
    <2>2. Len(q[c]) <= Len(q[c]) + n /\ 1 .. Len(q[c]) \subseteq 1 .. Len(q[c]) + n
      BY <1>1, <1>4
    <2>3. \A i \in 1 .. Len(q[c]) : r[i] = q[c][i]
      BY <1>4, <1>5, <2>1, <2>2
    <2>4. \A i \in 1 .. Len(r) : i > Len(q[c]) => r[i] = msg
      <3> SUFFICES ASSUME NEW i \in 1 .. Len(q[c]) + n, i > Len(q[c]) PROVE (q[c] \o m)[i] = msg
        BY <1>5, <2>1
      <3>1. (q[c] \o m)[i] = m[i - Len(q[c])]
        BY <1>4, <1>5
      <3> QED
        BY <1>3, <1>7, <3>1
    <2> QED
      BY <1>1, <1>5, <1>6, <1>8, <2>1, <2>2, <2>3, <2>4 DEF r, Sent
  <1>9. CASE state[c] # "connected"
    BY <1>2, <1>4, <1>9 DEF r, Sent
  <1> QED
    BY <1>8, <1>9

\* An answer goes to one connection, once.
LEMMA SendOneIs ==
  ASSUME NEW S, NEW q \in [Clients -> Seq(S)], NEW d \in Clients, NEW msg \in S, NEW c \in Clients
  PROVE  Send(q, <<d>>, msg)[c] =
           IF c = d /\ state[c] = "connected" THEN Append(q[c], msg) ELSE q[c]
  <1> DEFINE K == {k \in DOMAIN <<d>> : <<d>>[k] = c}
             m == [i \in 1 .. Cardinality(K) |-> msg]
  <1>1. <<d>> \in Seq(Clients) /\ Range(<<d>>) = {d}
    BY DEF Range
  <1>2. c # d \/ state[c] # "connected" => Send(q, <<d>>, msg)[c] = q[c]
    <2>1. PICK u : u = <<d>>
      OBVIOUS
    <2>2. u \in Seq(Clients)
      BY <1>1, <2>1
    <2>3. c \notin Range(u) \/ state[c] # "connected" => Send(q, u, msg)[c] = q[c]
      <3>1. Sent(S, q, u, msg, c, Send(q, u, msg)[c])
        BY <2>2, SendIs
      <3> QED
        BY <3>1 DEF Sent
    <2> QED
      BY <1>1, <2>1, <2>3
  <1>3. ASSUME c = d, state[c] = "connected" PROVE Send(q, <<d>>, msg)[c] = Append(q[c], msg)
    <2>1. K = {1}
      BY <1>3
    <2>2. Cardinality(K) = 1
      BY <2>1, FS_Singleton
    <2>3. Send(q, <<d>>, msg)[c] = q[c] \o m
      BY <1>3 DEF Send
    <2> HIDE DEF K
    <2>4. m \in Seq(S) /\ Len(m) = 1 /\ m[1] = msg
      BY <2>2
    <2> HIDE DEF m
    <2>5. PICK a \in Seq(S) : a = q[c]
      OBVIOUS
    <2>6. /\ a \o m \in Seq(S) /\ Len(a \o m) = Len(a) + 1
          /\ \A i \in 1 .. Len(a) + 1 : (a \o m)[i] = IF i <= Len(a) THEN a[i] ELSE m[i - Len(a)]
      <3>1. /\ a \o m \in Seq(S) /\ Len(a \o m) = Len(a) + Len(m)
            /\ \A i \in 1 .. Len(a) + Len(m) : (a \o m)[i] = IF i <= Len(a) THEN a[i] ELSE m[i - Len(a)]
        BY <2>4, ConcatProperties
      <3> QED
        BY <2>4, <3>1
    <2>7. /\ Append(a, msg) \in Seq(S) /\ Len(Append(a, msg)) = Len(a) + 1
          /\ \A i \in 1 .. Len(a) : Append(a, msg)[i] = a[i]
          /\ Append(a, msg)[Len(a) + 1] = msg
      BY AppendProperties
    <2>8. \A i \in 1 .. Len(a) + 1 : (a \o m)[i] = Append(a, msg)[i]
      BY <2>4, <2>6, <2>7
    <2>9. a \o m = Append(a, msg)
      BY <2>6, <2>7, <2>8, SeqEqual
    <2> QED
      BY <2>3, <2>5, <2>9
  <1> QED
    BY <1>1, <1>2, <1>3

---------------------------------------------------------------------------
(* What a step leaves true of one connection.                              *)

\* What the two queues of a connection hold.
LEMMA QueuesAre ==
  ASSUME TopicInv, NEW c \in Clients
  PROVE  /\ toSrv[c] \in Seq(Requests) /\ toCli[c] \in Seq(Answers \cup Pushes)
         /\ DOMAIN toSrv[c] = 1 .. Len(toSrv[c]) /\ DOMAIN toCli[c] = 1 .. Len(toCli[c])
         /\ Len(toSrv[c]) \in Nat /\ Len(toCli[c]) \in Nat
         /\ \A i \in 1 .. Len(toCli[c]) :
              /\ toCli[c][i].live => toCli[c][i] \in Answers /\ toCli[c][i].type = "RSP" /\ toCli[c][i].ok \in BOOLEAN
              /\ toCli[c][i].type = "PUSH" => ~toCli[c][i].live
  <1>1. toSrv[c] \in Seq(Requests) /\ toCli[c] \in Seq(Answers \cup Pushes)
    BY DEF TopicInv, MessagesOk
  <1>2. DOMAIN toSrv[c] = 1 .. Len(toSrv[c]) /\ DOMAIN toCli[c] = 1 .. Len(toCli[c])
         /\ Len(toSrv[c]) \in Nat /\ Len(toCli[c]) \in Nat
    BY <1>1
  <1>3. \A m \in Answers \cup Pushes :
          /\ m.live => m \in Answers /\ m.type = "RSP" /\ m.ok \in BOOLEAN
          /\ m.type = "PUSH" => ~m.live
    BY DEF Answers, Pushes
  <1>4. \A i \in 1 .. Len(toCli[c]) : toCli[c][i] \in Answers \cup Pushes
    BY <1>1
  <1> QED
    BY <1>1, <1>2, <1>3, <1>4

Push(u) == [type |-> "PUSH", t |-> u, live |-> FALSE]

\* The queue to d keeps what it held.
Grown(d) ==
  /\ toCli'[d] \in Seq(Answers \cup Pushes) /\ Len(toCli[d]) <= Len(toCli'[d])
  /\ \A i \in 1 .. Len(toCli[d]) : toCli'[d][i] = toCli[d][i]

\* What is new in it is pushes of topics that d is subscribed to.
PushedOnly(d) ==
  \A i \in 1 .. Len(toCli'[d]) : i > Len(toCli[d]) =>
    \E u \in Names : d \in Subs(u) /\ toCli'[d][i] = Push(u)

\* The client itself does nothing.
Passive == UNCHANGED <<call, cbs, state, gaveUp, trusts, cancelled>>

LEMMA Kept ==
  ASSUME TopicInv, NEW d \in Clients, Passive, Grown(d), PushedOnly(d),
         toSrv'[d] = toSrv[d] \/ toSrv'[d] = <<>>,
         \A t \in Names : d \in Subs(t)' => d \in Subs(t),
         \A t \in Names : state[d] = "connected" /\ (d \in Subs(t) \/ <<d, t>> \in removed) =>
                            d \in Subs(t)' \/ <<d, t>> \in removed'
  PROVE  Flow(d)' /\ \A t \in Names : Agreed(d, t)' /\ Quiet(d, t)'
  <1>1. /\ DOMAIN toSrv[d] = 1 .. Len(toSrv[d]) /\ DOMAIN toCli[d] = 1 .. Len(toCli[d])
        /\ Len(toSrv[d]) \in Nat /\ Len(toCli[d]) \in Nat
        /\ \A i \in 1 .. Len(toCli[d]) : toCli[d][i].live => toCli[d][i].ok \in BOOLEAN
    BY QueuesAre
  <1>2. DOMAIN toCli'[d] = 1 .. Len(toCli'[d]) /\ Len(toCli'[d]) \in Nat
    BY DEF Grown
  <1>3. \A i \in DOMAIN toCli'[d] : toCli'[d][i].live => i \in DOMAIN toCli[d] /\ toCli'[d][i] = toCli[d][i]
    <2> SUFFICES ASSUME NEW i \in 1 .. Len(toCli'[d]), toCli'[d][i].live
                 PROVE  i \in 1 .. Len(toCli[d]) /\ toCli'[d][i] = toCli[d][i]
      BY <1>1, <1>2
    <2>1. ASSUME i > Len(toCli[d]) PROVE FALSE
      <3>1. PICK u : toCli'[d][i] = Push(u)
        BY <2>1 DEF PushedOnly
      <3> QED
        BY <3>1 DEF Push
    <2> QED
      BY <1>1, <1>2, <2>1 DEF Grown
  <1>4. /\ call' = call /\ cbs' = cbs /\ state' = state
        /\ gaveUp' = gaveUp /\ trusts' = trusts /\ cancelled' = cancelled
    BY DEF Passive
  <1>5. Flow(d)'
    <2>1. Flow(d)
      BY DEF TopicInv
    <2> QED
      BY <1>1, <1>3, <1>4, <2>1 DEF Flow
  <1>6. ASSUME NEW t \in Names PROVE Agreed(d, t)' /\ Quiet(d, t)'
    <2>1. Agreed(d, t) /\ Quiet(d, t)
      BY DEF TopicInv
    <2>2. \A op \in {"SUBSCRIBE", "UNSUBSCRIBE"} : Asks(d, op, t)' => Asks(d, op, t)
      BY DEF Asks
    <2>3. \A op \in {"SUBSCRIBE", "UNSUBSCRIBE"}, ok \in BOOLEAN : AnswerIs(d, op, t, ok)' => AnswerIs(d, op, t, ok)
      BY <1>3, <1>4 DEF AnswerIs
    <2>4. Agreed(d, t)'
      BY <1>4, <2>1, <2>2, <2>3 DEF Agreed
    <2>5. \A i \in 1 .. Len(toCli'[d]) : toCli'[d][i].type = "PUSH" /\ toCli'[d][i].t = t =>
            \/ d \in Subs(t)
            \/ i \in DOMAIN toCli[d] /\ toCli'[d][i] = toCli[d][i]
      <3> SUFFICES ASSUME NEW i \in 1 .. Len(toCli'[d]), toCli'[d][i].t = t, d \notin Subs(t)
                   PROVE  i \in 1 .. Len(toCli[d]) /\ toCli'[d][i] = toCli[d][i]
        BY <1>1
      <3>1. ASSUME i > Len(toCli[d]) PROVE FALSE
        <4>1. PICK u : d \in Subs(u) /\ toCli'[d][i] = Push(u)
          BY <3>1 DEF PushedOnly
        <4>2. u = t
          BY <4>1 DEF Push
        <4> QED
          BY <4>1, <4>2
      <3> QED
        BY <1>1, <1>2, <3>1 DEF Grown
    <2>6. ASSUME <<d, t>> \in cancelled \/ (call[d].at = "answered" /\ call[d].op = "UNSUBSCRIBE" /\ call[d].t = t)
          PROVE  \A i \in DOMAIN toCli'[d] : ~(toCli'[d][i].type = "PUSH" /\ toCli'[d][i].t = t)
      <3>1. d \notin Subs(t)
        <4>1. CASE <<d, t>> \in cancelled
          BY <2>1, <4>1 DEF Agreed
        <4>2. CASE call[d].at = "answered" /\ call[d].op = "UNSUBSCRIBE" /\ call[d].t = t
          <5>1. call[d].ok \in BOOLEAN
            <6>1. call[d] \in CallsOf
              BY DEF TopicInv, MessagesOk
            <6> QED
              BY <4>2, <6>1 DEF CallsOf, Idle
          <5>2. AnswerIs(d, "UNSUBSCRIBE", t, call[d].ok)
            BY <4>2 DEF AnswerIs
          <5> QED
            BY <2>1, <5>1, <5>2 DEF Agreed
        <4> QED
          BY <2>6, <4>1, <4>2
      <3> QED
        BY <1>2, <2>1, <2>5, <2>6, <3>1 DEF Quiet
    <2>7. ASSUME call[d].at = "sent", call[d].op = "UNSUBSCRIBE", call[d].t = t,
                 NEW i \in DOMAIN toCli'[d], NEW k \in DOMAIN toCli'[d], toCli'[d][i].live, i < k
          PROVE  ~(toCli'[d][k].type = "PUSH" /\ toCli'[d][k].t = t)
      <3>1. i \in DOMAIN toCli[d] /\ toCli[d][i].live /\ toCli[d][i].ok \in BOOLEAN
        BY <1>1, <1>3, <2>7
      <3>2. AnswerIs(d, "UNSUBSCRIBE", t, toCli[d][i].ok)
        BY <2>7, <3>1 DEF AnswerIs
      <3>3. d \notin Subs(t)
        BY <2>1, <3>1, <3>2 DEF Agreed
      <3> QED
        BY <1>2, <2>1, <2>5, <2>7, <3>1, <3>3 DEF Quiet
    <2>8. Quiet(d, t)'
      BY <1>4, <2>6, <2>7 DEF Quiet
    <2> QED
      BY <2>4, <2>8
  <1> QED
    BY <1>5, <1>6

\* The answer to request r.
AnswerTo(r, ok) == [type |-> "RSP", t |-> r.t, ok |-> ok, live |-> r.live]

\* What is new in the queue to c is pushes and, at its end, the answer to r.
PushedAndAnswered(c, r, ok) ==
  \A i \in 1 .. Len(toCli'[c]) : i > Len(toCli[c]) =>
    \/ \E u \in Names : c \in Subs(u) /\ toCli'[c][i] = Push(u)
    \/ i = Len(toCli'[c]) /\ toCli'[c][i] = AnswerTo(r, ok)

LEMMA Served ==
  ASSUME TopicInv, NEW c \in Clients, NEW r, NEW ok \in BOOLEAN, toSrv[c] # <<>>, r = Head(toSrv[c]),
         Passive, Grown(c), PushedAndAnswered(c, r, ok), toSrv'[c] = Tail(toSrv[c]),
         \A t \in Names : c \in Subs(t)' => c \in Subs(t) \/ (r.op = "SUBSCRIBE" /\ r.t = t),
         \A t \in Names : state[c] = "connected" /\ (c \in Subs(t) \/ <<c, t>> \in removed) =>
                            c \in Subs(t)' \/ <<c, t>> \in removed' \/ (r.op = "UNSUBSCRIBE" /\ r.t = t),
         r.op = "SUBSCRIBE" => (c \in Subs(r.t)' <=> ok),
         r.op = "UNSUBSCRIBE" => c \notin Subs(r.t)'
  PROVE  Flow(c)' /\ \A t \in Names : Agreed(c, t)' /\ Quiet(c, t)'
  <1>1. /\ DOMAIN toSrv[c] = 1 .. Len(toSrv[c]) /\ DOMAIN toCli[c] = 1 .. Len(toCli[c])
        /\ Len(toSrv[c]) \in Nat /\ Len(toCli[c]) \in Nat /\ toSrv[c] \in Seq(Requests)
    BY QueuesAre
  <1>2. DOMAIN toCli'[c] = 1 .. Len(toCli'[c]) /\ Len(toCli'[c]) \in Nat
    BY DEF Grown
  <1>3. /\ r = toSrv[c][1] /\ 1 \in DOMAIN toSrv[c] /\ r \in Requests /\ r.t \in Names
        /\ Tail(toSrv[c]) \in Seq(Requests)
        /\ DOMAIN Tail(toSrv[c]) = 1 .. Len(toSrv[c]) - 1 /\ Len(Tail(toSrv[c])) = Len(toSrv[c]) - 1
        /\ \A i \in 1 .. Len(toSrv[c]) - 1 : Tail(toSrv[c])[i] = toSrv[c][i + 1]
    <2>1. r = toSrv[c][1] /\ 1 \in DOMAIN toSrv[c]
      BY <1>1
    <2>2. r \in Requests /\ r.t \in Names
      BY <1>1, <2>1 DEF Requests
    <2>3. /\ Tail(toSrv[c]) \in Seq(Requests) /\ Len(Tail(toSrv[c])) = Len(toSrv[c]) - 1
          /\ \A i \in 1 .. Len(Tail(toSrv[c])) : Tail(toSrv[c])[i] = toSrv[c][i + 1]
      BY <1>1, HeadTailProperties
    <2>4. DOMAIN Tail(toSrv[c]) = 1 .. Len(toSrv[c]) - 1
      BY <2>3
    <2> QED
      BY <2>1, <2>2, <2>3, <2>4
  <1>4. Flow(c)
    BY DEF TopicInv
  <1>5. /\ call[c].at # "answered" /\ \A i \in DOMAIN toCli[c] : ~toCli[c][i].live
        /\ r.live => Len(toSrv[c]) = 1 /\ call[c].at = "sent" /\ call[c].op = r.op /\ call[c].t = r.t
    BY <1>3, <1>4 DEF Flow
  <1>6. /\ call' = call /\ cbs' = cbs /\ state' = state
        /\ gaveUp' = gaveUp /\ trusts' = trusts /\ cancelled' = cancelled
    BY DEF Passive
  <1>7. ASSUME NEW i \in DOMAIN toCli'[c], toCli'[c][i].live
        PROVE  r.live /\ i = Len(toCli'[c]) /\ toCli'[c][i].ok = ok
    <2>1. i > Len(toCli[c])
      BY <1>1, <1>2, <1>5, <1>7 DEF Grown
    <2>2. \A u : Push(u).live = FALSE
      BY DEF Push
    <2>3. i = Len(toCli'[c]) /\ toCli'[c][i] = AnswerTo(r, ok)
      BY <1>2, <1>7, <2>1, <2>2 DEF PushedAndAnswered
    <2> QED
      BY <1>7, <2>3 DEF AnswerTo
  <1>8. \A i \in DOMAIN toSrv'[c] : i + 1 \in DOMAIN toSrv[c] /\ toSrv'[c][i] = toSrv[c][i + 1]
    BY <1>1, <1>3
  <1>9. Flow(c)'
    <2>1. \A i \in DOMAIN toSrv'[c] : toSrv'[c][i].live =>
            /\ i = Len(toSrv'[c]) /\ call[c].at = "sent"
            /\ toSrv'[c][i].op = call[c].op /\ toSrv'[c][i].t = call[c].t
      <3> SUFFICES ASSUME NEW i \in DOMAIN toSrv'[c], toSrv'[c][i].live
                   PROVE  /\ i = Len(toSrv'[c]) /\ call[c].at = "sent"
                          /\ toSrv'[c][i].op = call[c].op /\ toSrv'[c][i].t = call[c].t
        OBVIOUS
      <3>1. i + 1 \in DOMAIN toSrv[c] /\ toSrv[c][i + 1].live /\ toSrv'[c][i] = toSrv[c][i + 1]
        BY <1>8
      <3>2. i + 1 = Len(toSrv[c]) /\ call[c].at = "sent" /\ toSrv[c][i + 1].op = call[c].op /\ toSrv[c][i + 1].t = call[c].t
        BY <1>4, <3>1 DEF Flow
      <3>3. i = Len(toSrv'[c])
        <4>1. Len(toSrv'[c]) = Len(toSrv[c]) - 1 /\ i \in 1 .. Len(toSrv[c]) - 1
          BY <1>3
        <4> QED
          BY <1>1, <3>2, <4>1
      <3> QED
        BY <3>1, <3>2, <3>3
    <2>2. r.live => toSrv'[c] = <<>>
      <3>1. r.live => Len(Tail(toSrv[c])) = 0
        BY <1>3, <1>5
      <3> QED
        BY <1>3, <3>1, EmptySeq
    <2>3. \A i \in DOMAIN toCli'[c] : toCli'[c][i].live =>
            /\ call[c].at = "sent" /\ toSrv'[c] = <<>>
            /\ \A k \in DOMAIN toCli'[c] : toCli'[c][k].live => k = i
      BY <1>5, <1>7, <2>2
    <2> QED
      BY <1>5, <1>6, <2>1, <2>3 DEF Flow
  <1>10. ASSUME NEW t \in Names PROVE Agreed(c, t)' /\ Quiet(c, t)'
    <2>1. Agreed(c, t) /\ Quiet(c, t)
      BY DEF TopicInv
    <2>2. \A op \in {"SUBSCRIBE", "UNSUBSCRIBE"} : Asks(c, op, t)' => Asks(c, op, t)
      BY <1>8 DEF Asks
    <2>3. r.op \in {"SUBSCRIBE", "UNSUBSCRIBE"} /\ r.t = t => Asks(c, r.op, t)
      BY <1>3 DEF Asks
    <2>4. \A op \in {"SUBSCRIBE", "UNSUBSCRIBE"}, k \in BOOLEAN :
            AnswerIs(c, op, t, k)' => r.op = op /\ r.t = t /\ k = ok
      BY <1>5, <1>6, <1>7 DEF AnswerIs
    <2>5. Asks(c, "SUBSCRIBE", t)' \/ c \in Subs(t)' => <<c, t>> \in cbs \cup gaveUp /\ <<c, t>> \notin cancelled
      BY <2>1, <2>2, <2>3 DEF Agreed
    <2>6. AnswerIs(c, "SUBSCRIBE", t, FALSE)' => c \notin Subs(t)'
      BY <2>4
    <2>7. AnswerIs(c, "SUBSCRIBE", t, TRUE)' => c \in Subs(t)'
      BY <2>4
    <2>8. <<c, t>> \in trusts => (state[c] = "connected" => <<c, t>> \in removed' \/ c \in Subs(t)')
      BY <2>1, <2>3 DEF Agreed
    <2>9. Asks(c, "UNSUBSCRIBE", t)' => <<c, t>> \notin trusts
      BY <2>1, <2>2 DEF Agreed
    <2>10. \A k \in BOOLEAN : AnswerIs(c, "UNSUBSCRIBE", t, k)' => c \notin Subs(t)'
      BY <2>4
    <2>11. Agreed(c, t)'
      BY <1>6, <2>5, <2>6, <2>7, <2>8, <2>9, <2>10 DEF Agreed
    <2>12. \A i \in 1 .. Len(toCli'[c]) : toCli'[c][i].type = "PUSH" /\ toCli'[c][i].t = t =>
             \/ c \in Subs(t)
             \/ i \in DOMAIN toCli[c] /\ toCli'[c][i] = toCli[c][i]
      <3> SUFFICES ASSUME NEW i \in 1 .. Len(toCli'[c]), toCli'[c][i].type = "PUSH", toCli'[c][i].t = t, c \notin Subs(t)
                   PROVE  i \in 1 .. Len(toCli[c]) /\ toCli'[c][i] = toCli[c][i]
        BY <1>1
      <3>1. ASSUME i > Len(toCli[c]) PROVE FALSE
        <4>1. AnswerTo(r, ok).type # "PUSH" /\ \A u : Push(u).t = u
          BY DEF AnswerTo, Push
        <4> QED
          BY <3>1, <4>1 DEF PushedAndAnswered
      <3> QED
        BY <1>1, <1>2, <3>1 DEF Grown
    <2>13. ASSUME <<c, t>> \in cancelled
           PROVE  \A i \in DOMAIN toCli'[c] : ~(toCli'[c][i].type = "PUSH" /\ toCli'[c][i].t = t)
      <3>1. c \notin Subs(t)
        BY <2>1, <2>13 DEF Agreed
      <3> QED
        BY <1>2, <2>1, <2>12, <2>13, <3>1 DEF Quiet
    <2>14. ASSUME NEW i \in DOMAIN toCli'[c], NEW k \in DOMAIN toCli'[c], toCli'[c][i].live
           PROVE  ~(i < k)
      BY <1>2, <1>7, <2>14
    <2>15. Quiet(c, t)'
      BY <1>5, <1>6, <2>13, <2>14 DEF Quiet
    <2> QED
      BY <2>11, <2>15
  <1> QED
    BY <1>9, <1>10

\* A connection that a step does not touch.
LEMMA Untouched ==
  ASSUME TopicInv, NEW d \in Clients,
         toSrv'[d] = toSrv[d], toCli'[d] = toCli[d], call'[d] = call[d], state'[d] = state[d], topics' = topics,
         \A t \in Names :
           /\ <<d, t>> \in cbs' <=> <<d, t>> \in cbs
           /\ <<d, t>> \in gaveUp' <=> <<d, t>> \in gaveUp
           /\ <<d, t>> \in trusts' <=> <<d, t>> \in trusts
           /\ <<d, t>> \in cancelled' <=> <<d, t>> \in cancelled
           /\ <<d, t>> \in removed' <=> <<d, t>> \in removed
  PROVE  Flow(d)' /\ \A t \in Names : Agreed(d, t)' /\ Quiet(d, t)'
  <1>1. Flow(d) /\ \A t \in Names : Agreed(d, t) /\ Quiet(d, t)
    BY DEF TopicInv
  <1>2. Flow(d)'
    BY <1>1 DEF Flow
  <1>3. ASSUME NEW t \in Names PROVE Agreed(d, t)'
    <2>1. Agreed(d, t)
      BY <1>1
    <2>2. \A op : Asks(d, op, t)' = Asks(d, op, t)
      BY DEF Asks
    <2>3. \A op, ok : AnswerIs(d, op, t, ok)' = AnswerIs(d, op, t, ok)
      BY DEF AnswerIs
    <2>4. Subs(t)' = Subs(t)
      BY DEF Subs
    <2> QED
      BY <2>1, <2>2, <2>3, <2>4 DEF Agreed
  <1>4. ASSUME NEW t \in Names PROVE Quiet(d, t)'
    BY <1>1 DEF Quiet
  <1> QED
    BY <1>2, <1>3, <1>4

---------------------------------------------------------------------------
(* The steps of the server.                                                *)

\* Queues to the clients, made from the present ones by pushes to subscribers.
PushedTo(q) ==
  /\ q \in [Clients -> Seq(Answers \cup Pushes)]
  /\ \A d \in Clients :
       /\ Len(toCli[d]) <= Len(q[d])
       /\ \A i \in 1 .. Len(toCli[d]) : q[d][i] = toCli[d][i]
       /\ \A i \in 1 .. Len(q[d]) : i > Len(toCli[d]) =>
            \E u \in Names : d \in Subs(u) /\ q[d][i] = Push(u)

LEMMA RequestIs ==
  ASSUME TopicInv, NEW c \in Clients, toSrv[c] # <<>>
  PROVE  /\ Head(toSrv[c]) \in Requests /\ Head(toSrv[c]).t \in Names /\ Head(toSrv[c]).live \in BOOLEAN
         /\ Head(toSrv[c]).op = "SUBSCRIBE" => Head(toSrv[c]).arg \in Attrs
         /\ Head(toSrv[c]).op = "PUBLISH" => Head(toSrv[c]).arg \in Pubs
         /\ Tail(toSrv[c]) \in Seq(Requests)
  <1>1. toSrv[c] \in Seq(Requests)
    BY DEF TopicInv, MessagesOk
  <1>2. Head(toSrv[c]) \in Requests /\ Tail(toSrv[c]) \in Seq(Requests)
    BY <1>1, HeadTailProperties
  <1> QED
    BY <1>2 DEF Requests

LEMMA Responded ==
  ASSUME TopicInv, NEW c \in Clients, NEW r, NEW ok \in BOOLEAN, NEW q,
         toSrv[c] # <<>>, r = Head(toSrv[c]), PushedTo(q), Respond(c, q, ok), removed' \subseteq Pairs
  PROVE  /\ MessagesOk' /\ Passive /\ open' = open
         /\ PushedAndAnswered(c, r, ok) /\ toSrv'[c] = Tail(toSrv[c])
         /\ \A d \in Clients : Grown(d) /\ (d # c => PushedOnly(d) /\ toSrv'[d] = toSrv[d])
  <1>1. /\ toCli' = Send(q, <<c>>, AnswerTo(r, ok))
        /\ toSrv' = [toSrv EXCEPT ![c] = Tail(toSrv[c])]
        /\ open' = open /\ Passive
    BY DEF Respond, Answer, AnswerTo, Passive, histVars
  <1>2. /\ toSrv \in [Clients -> Seq(Requests)] /\ Tail(toSrv[c]) \in Seq(Requests)
        /\ AnswerTo(r, ok) \in Answers \cup Pushes
    BY RequestIs DEF TopicInv, MessagesOk, AnswerTo, Answers
  <1>3. /\ toSrv' \in [Clients -> Seq(Requests)] /\ toSrv'[c] = Tail(toSrv[c])
        /\ \A d \in Clients \ {c} : toSrv'[d] = toSrv[d]
    BY <1>1, <1>2
  <1>4. q \in [Clients -> Seq(Answers \cup Pushes)]
    BY DEF PushedTo
  <1>5. \A d \in Clients :
          toCli'[d] = IF d = c /\ state[d] = "connected" THEN Append(q[d], AnswerTo(r, ok)) ELSE q[d]
    <2>1. PICK S, m : S = Answers \cup Pushes /\ m = AnswerTo(r, ok)
      OBVIOUS
    <2>2. q \in [Clients -> Seq(S)] /\ m \in S
      BY <1>2, <1>4, <2>1
    <2>3. \A d \in Clients :
            Send(q, <<c>>, m)[d] = IF d = c /\ state[d] = "connected" THEN Append(q[d], m) ELSE q[d]
      BY <2>2, SendOneIs
    <2> QED
      BY <1>1, <2>1, <2>3
  <1>6. /\ Append(q[c], AnswerTo(r, ok)) \in Seq(Answers \cup Pushes)
        /\ Len(Append(q[c], AnswerTo(r, ok))) = Len(q[c]) + 1
        /\ \A i \in 1 .. Len(q[c]) : Append(q[c], AnswerTo(r, ok))[i] = q[c][i]
        /\ Append(q[c], AnswerTo(r, ok))[Len(q[c]) + 1] = AnswerTo(r, ok)
    <2>1. q[c] \in Seq(Answers \cup Pushes)
      BY <1>4
    <2> QED
      BY <1>2, <2>1, AppendProperties
  <1>7. toCli' \in [Clients -> Seq(Answers \cup Pushes)]
    <2>1. toCli' = [d \in Clients |-> toCli'[d]]
      BY <1>1 DEF Send
    <2>2. \A d \in Clients : toCli'[d] \in Seq(Answers \cup Pushes)
      BY <1>4, <1>5, <1>6
    <2> QED
      BY <2>1, <2>2
  <1>8. MessagesOk'
    BY <1>1, <1>3, <1>7 DEF TopicInv, MessagesOk, Passive
  <1>9. ASSUME NEW d \in Clients, d # c PROVE Grown(d) /\ PushedOnly(d)
    <2>1. toCli'[d] = q[d]
      BY <1>5, <1>9
    <2>2. PICK a : a = q[d]
      OBVIOUS
    <2>3. /\ a \in Seq(Answers \cup Pushes) /\ Len(toCli[d]) <= Len(a)
          /\ \A i \in 1 .. Len(toCli[d]) : a[i] = toCli[d][i]
      BY <2>2 DEF PushedTo
    <2>4. \A i \in 1 .. Len(a) : i > Len(toCli[d]) => \E u \in Names : d \in Subs(u) /\ a[i] = Push(u)
      BY <2>2 DEF PushedTo
    <2>5. Grown(d)
      BY <2>1, <2>2, <2>3 DEF Grown
    <2>6. PushedOnly(d)
      BY <2>1, <2>2, <2>4 DEF PushedOnly
    <2> QED
      BY <2>5, <2>6
  <1>10. Grown(c) /\ PushedAndAnswered(c, r, ok)
    <2>1. CASE state[c] = "connected"
      <3>1. PICK a : a = Append(q[c], AnswerTo(r, ok))
        OBVIOUS
      <3>2. /\ a \in Seq(Answers \cup Pushes) /\ Len(a) = Len(q[c]) + 1
            /\ \A i \in 1 .. Len(q[c]) : a[i] = q[c][i]
            /\ a[Len(q[c]) + 1] = AnswerTo(r, ok)
            /\ toCli'[c] = a
        BY <1>5, <1>6, <2>1, <3>1
      <3>3. Len(q[c]) \in Nat /\ Len(toCli[c]) \in Nat /\ Len(toCli[c]) <= Len(q[c])
        BY <1>4, QueuesAre DEF PushedTo
      <3>4. Grown(c)
        BY <3>2, <3>3 DEF Grown, PushedTo
      <3>5. ASSUME NEW i \in 1 .. Len(a), i > Len(toCli[c])
            PROVE  \/ \E u \in Names : c \in Subs(u) /\ a[i] = Push(u)
                   \/ i = Len(a) /\ a[i] = AnswerTo(r, ok)
        <4>1. CASE i = Len(q[c]) + 1
          BY <3>2, <4>1
        <4>2. CASE i # Len(q[c]) + 1
          <5>1. i \in 1 .. Len(q[c])
            BY <3>2, <3>3, <4>2
          <5> QED
            BY <3>2, <3>5, <5>1 DEF PushedTo
        <4> QED
          BY <4>1, <4>2
      <3> QED
        BY <3>2, <3>4, <3>5 DEF PushedAndAnswered
    <2>2. CASE state[c] # "connected"
      <3>1. toCli'[c] = q[c]
        BY <1>5, <2>2
      <3> QED
        BY <1>4, <3>1 DEF PushedTo, Grown, PushedAndAnswered
    <2> QED
      BY <2>1, <2>2
  <1> QED
    BY <1>1, <1>3, <1>8, <1>9, <1>10

\* A request that is served, with what it does to the subscriptions.
LEMMA RequestServed ==
  ASSUME TopicInv, NEW c \in Clients, NEW r, NEW ok \in BOOLEAN, NEW q,
         toSrv[c] # <<>>, r = Head(toSrv[c]), PushedTo(q), Respond(c, q, ok), removed' \subseteq Pairs, TablesOk',
         \A d \in Clients, t \in Names :
           d \in Subs(t)' => d \in Subs(t) \/ (d = c /\ r.op = "SUBSCRIBE" /\ r.t = t),
         \A d \in Clients, t \in Names :
           d \in Subs(t) \/ <<d, t>> \in removed =>
             d \in Subs(t)' \/ <<d, t>> \in removed' \/ (d = c /\ r.op = "UNSUBSCRIBE" /\ r.t = t),
         r.op = "SUBSCRIBE" => (c \in Subs(r.t)' <=> ok),
         r.op = "UNSUBSCRIBE" => c \notin Subs(r.t)'
  PROVE  TopicInv'
  <1>1. /\ MessagesOk' /\ Passive
        /\ PushedAndAnswered(c, r, ok) /\ toSrv'[c] = Tail(toSrv[c])
        /\ \A d \in Clients : Grown(d) /\ (d # c => PushedOnly(d) /\ toSrv'[d] = toSrv[d])
    BY Responded
  <1>2. Flow(c)' /\ \A t \in Names : Agreed(c, t)' /\ Quiet(c, t)'
    <2>1. \A t \in Names : c \in Subs(t)' => c \in Subs(t) \/ (r.op = "SUBSCRIBE" /\ r.t = t)
      OBVIOUS
    <2>2. \A t \in Names : state[c] = "connected" /\ (c \in Subs(t) \/ <<c, t>> \in removed) =>
                             c \in Subs(t)' \/ <<c, t>> \in removed' \/ (r.op = "UNSUBSCRIBE" /\ r.t = t)
      OBVIOUS
    <2> QED
      BY <1>1, <2>1, <2>2, Served
  <1>3. ASSUME NEW d \in Clients, d # c
        PROVE  Flow(d)' /\ \A t \in Names : Agreed(d, t)' /\ Quiet(d, t)'
    <2>1. \A t \in Names : d \in Subs(t)' => d \in Subs(t)
      BY <1>3
    <2>2. \A t \in Names : state[d] = "connected" /\ (d \in Subs(t) \/ <<d, t>> \in removed) =>
                             d \in Subs(t)' \/ <<d, t>> \in removed'
      BY <1>3
    <2>3. Grown(d) /\ PushedOnly(d) /\ toSrv'[d] = toSrv[d]
      BY <1>1, <1>3
    <2> QED
      BY <1>1, <2>1, <2>2, <2>3, Kept
  <1> QED
    BY <1>1, <1>2, <1>3 DEF TopicInv

LEMMA NothingPushed == TopicInv => PushedTo(toCli)
  <1> SUFFICES ASSUME TopicInv PROVE PushedTo(toCli)
    OBVIOUS
  <1>1. toCli \in [Clients -> Seq(Answers \cup Pushes)]
    BY DEF TopicInv, MessagesOk
  <1>2. \A d \in Clients : Len(toCli[d]) \in Nat
    BY QueuesAre
  <1> QED
    BY <1>1, <1>2 DEF PushedTo

\* The tables of the server, in the terms of Subs.
LEMMA TablesAre ==
  ASSUME TopicInv
  PROVE  /\ DOMAIN topics \subseteq Names
         /\ \A t \in DOMAIN topics :
              /\ topics[t] \in TopicRecords /\ topics[t].subs \in Seq(Clients) /\ IsInjective(topics[t].subs)
              /\ topics[t].rr \in Nat /\ topics[t].rr < Limit
              /\ Subs(t) = Range(topics[t].subs) /\ Subs(t) \subseteq Clients
         /\ \A t : t \notin DOMAIN topics => Subs(t) = {}
         /\ \A t \in Names, d \in Clients : d \in Subs(t) <=> d \in DOMAIN subscribers /\ t \in subscribers[d].topics
         /\ DOMAIN subscribers \subseteq open /\ open \subseteq Clients
         /\ \A d \in DOMAIN subscribers : subscribers[d] \in [topics : SUBSET Names, attr : Attrs]
         /\ pri \in 0 .. Cardinality(Clients) /\ up \in BOOLEAN /\ removed \subseteq Pairs
  <1>1. TablesOk /\ removed \subseteq Pairs
    BY DEF TopicInv, MessagesOk
  <1>2. \A t \in DOMAIN topics : topics[t] \in TopicRecords
    BY <1>1 DEF TablesOk
  <1>3. \A x \in TopicRecords : x.subs \in Seq(Clients) /\ IsInjective(x.subs) /\ x.rr \in Nat /\ x.rr < Limit
    BY DEF TopicRecords
  <1>4. \A t \in DOMAIN topics : Subs(t) = Range(topics[t].subs)
    BY DEF Subs
  <1>5. ASSUME NEW t \in DOMAIN topics PROVE Subs(t) \subseteq Clients
    BY <1>2, <1>3, <1>4, RangeIn
  <1>6. \A t : t \notin DOMAIN topics => Subs(t) = {}
    BY DEF Subs
  <1>7. \A t \in Names, d \in Clients : d \in Subs(t) <=> d \in DOMAIN subscribers /\ t \in subscribers[d].topics
    BY <1>1 DEF TablesOk, TablesAgree, Subs
  <1> QED
    BY <1>1, <1>2, <1>3, <1>4, <1>5, <1>6, <1>7 DEF TablesOk

\* The tables after a step, from the same facts.
LEMMA TablesNext ==
  ASSUME DOMAIN topics' \subseteq Names, topics' = [t \in DOMAIN topics' |-> topics'[t]],
         \A t \in DOMAIN topics' : topics'[t] \in TopicRecords,
         subscribers' = [d \in DOMAIN subscribers' |-> subscribers'[d]],
         \A d \in DOMAIN subscribers' : subscribers'[d] \in [topics : SUBSET Names, attr : Attrs],
         DOMAIN subscribers' \subseteq open', open' \subseteq Clients,
         pri' \in 0 .. Cardinality(Clients), up' \in BOOLEAN,
         \A t \in Names, d \in Clients : d \in Subs(t)' <=> d \in DOMAIN subscribers' /\ t \in subscribers'[d].topics
  PROVE  TablesOk'
  <1>1. topics' \in [DOMAIN topics' -> TopicRecords]
    BY Zenon
  <1>2. subscribers' \in [DOMAIN subscribers' -> [topics : SUBSET Names, attr : Attrs]]
    BY Zenon
  <1>3. TablesAgree'
    BY DEF TablesAgree, Subs
  <1>4. TopicRecords' = TopicRecords
    BY DEF TopicRecords, Limit
  <1> QED
    BY <1>1, <1>2, <1>3, <1>4 DEF TablesOk

LEMMA SubsChanged ==
  ASSUME NEW x \in TopicRecords, NEW s \in Seq(Clients), IsInjective(s)
  PROVE  [x EXCEPT !.subs = s] \in TopicRecords /\ [x EXCEPT !.subs = s].subs = s
  BY DEF TopicRecords

LEMMA CursorChanged ==
  ASSUME NEW x \in TopicRecords, NEW n \in Nat, n < Limit
  PROVE  [x EXCEPT !.rr = n] \in TopicRecords /\ [x EXCEPT !.rr = n].subs = x.subs
  BY DEF TopicRecords

\* A new topic has no subscriber.
LEMMA CreateStep ==
  ASSUME TopicInv, NEW c \in Clients, topicCreate(c)
  PROVE  TopicInv'
  <1>1. PICK r, q : r = Head(toSrv[c]) /\ q = toCli
    OBVIOUS
  <1>2. /\ r.op = "CREATE" /\ toSrv[c] # <<>> /\ Respond(c, q, TRUE)
        /\ topics' = [u \in DOMAIN topics \cup {r.t} |->
                        IF u \in DOMAIN topics THEN topics[u] ELSE [subs |-> <<>>, rr |-> 0]]
        /\ subscribers' = subscribers /\ pri' = pri /\ up' = up /\ removed' = removed
    BY <1>1 DEF topicCreate, Request
  <1>3. open' = open
    BY <1>2 DEF Respond
  <1>4. r.t \in Names
    BY <1>1, <1>2, RequestIs
  <1>5. [subs |-> <<>>, rr |-> 0] \in TopicRecords
    BY LimitIs DEF TopicRecords, IsInjective
  <1>6. DOMAIN topics' = DOMAIN topics \cup {r.t} /\ topics' = [u \in DOMAIN topics' |-> topics'[u]]
    BY <1>2
  <1>7. \A u \in DOMAIN topics' : topics'[u] \in TopicRecords
    BY <1>2, <1>5, <1>6, TablesAre
  <1>8. \A u : Subs(u)' = Subs(u)
    <2>1. Range(<<>>) = {}
      BY DEF Range
    <2> QED
      BY <1>2, <2>1 DEF Subs
  <1>9. TablesOk'
    <2>1. subscribers' = [d \in DOMAIN subscribers' |-> subscribers'[d]]
      BY <1>2 DEF TopicInv, TablesOk
    <2> QED
      BY <1>2, <1>3, <1>4, <1>6, <1>7, <1>8, <2>1, TablesAre, TablesNext
  <1> QED
    BY <1>1, <1>2, <1>8, <1>9, NothingPushed, RequestServed, TablesAre

LEMMA NotFoundStep ==
  ASSUME TopicInv, NEW c \in Clients, TopicNotFound(c)
  PROVE  TopicInv'
  <1>1. PICK r, q : r = Head(toSrv[c]) /\ q = toCli
    OBVIOUS
  <1>2. /\ r.op \in {"SUBSCRIBE", "PUBLISH"} /\ toSrv[c] # <<>> /\ Respond(c, q, FALSE)
        /\ r.t \notin DOMAIN topics /\ topics' = topics
        /\ subscribers' = subscribers /\ pri' = pri /\ up' = up /\ removed' = removed
    BY <1>1 DEF TopicNotFound, Request
  <1>3. open' = open
    BY <1>2 DEF Respond
  <1>4. \A u : Subs(u)' = Subs(u)
    BY <1>2 DEF Subs
  <1>5. TablesOk'
    BY <1>2, <1>3 DEF TopicInv, TablesOk, TablesAgree, TopicRecords, Limit
  <1>6. c \notin Subs(r.t)'
    BY <1>2, <1>4, TablesAre
  <1> QED
    BY <1>1, <1>2, <1>4, <1>5, <1>6, NothingPushed, RequestServed, TablesAre

\* The subscribers of t lose it: what their records are afterwards.
LEMMA TopicTaken ==
  ASSUME TopicInv, NEW S \in SUBSET Clients, NEW t, subscribers' = Subscribe_removeTopic(S, t)
  PROVE  /\ subscribers' = [d \in DOMAIN subscribers |-> subscribers'[d]] /\ DOMAIN subscribers' = DOMAIN subscribers
         /\ \A d \in DOMAIN subscribers :
              /\ subscribers'[d] \in [topics : SUBSET Names, attr : Attrs]
              /\ subscribers'[d].topics = IF d \in S THEN subscribers[d].topics \ {t} ELSE subscribers[d].topics
  <1>1. subscribers' = [d \in DOMAIN subscribers |->
           IF d \in S THEN [subscribers[d] EXCEPT !.topics = subscribers[d].topics \ {t}] ELSE subscribers[d]]
    BY DEF Subscribe_removeTopic
  <1>2. \A x \in [topics : SUBSET Names, attr : Attrs] :
          /\ [x EXCEPT !.topics = x.topics \ {t}] \in [topics : SUBSET Names, attr : Attrs]
          /\ [x EXCEPT !.topics = x.topics \ {t}].topics = x.topics \ {t}
    OBVIOUS
  <1>3. \A d \in DOMAIN subscribers : subscribers[d] \in [topics : SUBSET Names, attr : Attrs]
    BY TablesAre
  <1>4. DOMAIN subscribers' = DOMAIN subscribers /\ subscribers' = [d \in DOMAIN subscribers |-> subscribers'[d]]
    BY <1>1
  <1>5. ASSUME NEW d \in DOMAIN subscribers
        PROVE  /\ subscribers'[d] \in [topics : SUBSET Names, attr : Attrs]
               /\ subscribers'[d].topics = IF d \in S THEN subscribers[d].topics \ {t} ELSE subscribers[d].topics
    BY <1>1, <1>2, <1>3
  <1> QED
    BY <1>4, <1>5

LEMMA RemoveStep ==
  ASSUME TopicInv, NEW c \in Clients, topicRemove(c)
  PROVE  TopicInv'
  <1>1. PICK r, q : r = Head(toSrv[c]) /\ q = toCli
    OBVIOUS
  <1>2. /\ r.op = "REMOVE" /\ toSrv[c] # <<>> /\ Respond(c, q, TRUE)
        /\ topics' = Restrict(topics, DOMAIN topics \ {r.t})
        /\ subscribers' = Subscribe_removeTopic(Subs(r.t), r.t)
        /\ removed' = removed \cup {<<d, r.t>> : d \in Subs(r.t)} /\ pri' = pri /\ up' = up
    BY <1>1 DEF topicRemove, Request, Subs
  <1>3. open' = open
    BY <1>2 DEF Respond
  <1>4. r.t \in Names
    BY <1>1, <1>2, RequestIs
  <1>5. /\ DOMAIN topics' = DOMAIN topics \ {r.t} /\ topics' = [u \in DOMAIN topics' |-> topics'[u]]
        /\ \A u \in DOMAIN topics' : topics'[u] = topics[u]
    BY <1>2 DEF Restrict
  <1>6. \A u : Subs(u)' = IF u = r.t THEN {} ELSE Subs(u)
    BY <1>5 DEF Subs
  <1>7. Subs(r.t) \subseteq Clients
    BY TablesAre
  <1>8. PICK S \in SUBSET Clients : S = Subs(r.t)
    BY <1>7
  <1>9. /\ subscribers' = [d \in DOMAIN subscribers |-> subscribers'[d]] /\ DOMAIN subscribers' = DOMAIN subscribers
        /\ \A d \in DOMAIN subscribers :
             /\ subscribers'[d] \in [topics : SUBSET Names, attr : Attrs]
             /\ subscribers'[d].topics = IF d \in S THEN subscribers[d].topics \ {r.t} ELSE subscribers[d].topics
    <2>1. subscribers' = Subscribe_removeTopic(S, r.t)
      BY <1>2, <1>8
    <2> QED
      BY <2>1, TopicTaken, Zenon
  <1>10. \A t \in Names, d \in Clients : d \in Subs(t)' <=> d \in DOMAIN subscribers' /\ t \in subscribers'[d].topics
    <2>1. \A t \in Names, d \in Clients : d \in Subs(t) <=> d \in DOMAIN subscribers /\ t \in subscribers[d].topics
      BY TablesAre
    <2> SUFFICES ASSUME NEW t \in Names, NEW d \in Clients
                 PROVE  d \in Subs(t)' <=> d \in DOMAIN subscribers' /\ t \in subscribers'[d].topics
      OBVIOUS
    <2>2. CASE d \notin DOMAIN subscribers
      <3>1. d \notin Subs(t)
        BY <2>1, <2>2
      <3> QED
        BY <1>6, <1>9, <2>2, <3>1
    <2>3. CASE d \in DOMAIN subscribers /\ t = r.t
      <3>1. d \notin Subs(t)'
        BY <1>6, <2>3
      <3>2. t \in subscribers'[d].topics => d \notin S /\ t \in subscribers[d].topics
        BY <1>9, <2>3
      <3>3. d \notin S => t \notin subscribers[d].topics
        BY <1>8, <2>1, <2>3
      <3> QED
        BY <3>1, <3>2, <3>3
    <2>4. CASE d \in DOMAIN subscribers /\ t # r.t
      <3>1. d \in Subs(t)' <=> t \in subscribers[d].topics
        BY <1>6, <2>1, <2>4
      <3>2. t \in subscribers'[d].topics <=> t \in subscribers[d].topics
        BY <1>9, <2>4
      <3>3. d \in DOMAIN subscribers'
        BY <1>9, <2>4
      <3> QED
        BY <3>1, <3>2, <3>3
    <2> QED
      BY <2>2, <2>3, <2>4
  <1>11. TablesOk'
    BY <1>2, <1>3, <1>5, <1>9, <1>10, TablesAre, TablesNext
  <1>12. removed' \subseteq Pairs
    BY <1>2, <1>4, <1>7, TablesAre DEF Pairs
  <1> QED
    BY <1>1, <1>2, <1>6, <1>11, <1>12, NothingPushed, RequestServed

LEMMA CancelStep ==
  ASSUME TopicInv, NEW c \in Clients, topicancelSubscribe(c)
  PROVE  TopicInv'
  <1>1. PICK r, q : r = Head(toSrv[c]) /\ q = toCli
    OBVIOUS
  <1>2. /\ r.op = "UNSUBSCRIBE" /\ toSrv[c] # <<>> /\ Respond(c, q, TRUE)
        /\ topics' = IF r.t \in DOMAIN topics /\ c \in DOMAIN subscribers
                     THEN [topics EXCEPT ![r.t].subs = delSubscribe(topics[r.t].subs, c)] ELSE topics
        /\ subscribers' = Subscribe_removeTopic({c}, r.t)
        /\ removed' = removed /\ pri' = pri /\ up' = up
    BY <1>1 DEF topicancelSubscribe, Request
  <1>3. open' = open
    BY <1>2 DEF Respond
  <1>4. r.t \in Names
    BY <1>1, <1>2, RequestIs
  <1>5. \A t \in Names, d \in Clients : d \in Subs(t) <=> d \in DOMAIN subscribers /\ t \in subscribers[d].topics
    BY TablesAre
  <1>6. /\ DOMAIN topics' = DOMAIN topics /\ topics' = [u \in DOMAIN topics' |-> topics'[u]]
        /\ \A u \in DOMAIN topics : topics'[u] \in TopicRecords
        /\ \A u \in Names : Subs(u)' = IF u = r.t THEN Subs(u) \ {c} ELSE Subs(u)
    <2>1. topics = [u \in DOMAIN topics |-> topics[u]]
      BY DEF TopicInv, TablesOk
    <2>2. CASE ~(r.t \in DOMAIN topics /\ c \in DOMAIN subscribers)
      <3>1. topics' = topics
        BY <1>2, <2>2
      <3>2. c \notin Subs(r.t)
        BY <1>4, <1>5, <2>2, TablesAre
      <3>3. \A u : Subs(u)' = Subs(u)
        BY <3>1 DEF Subs
      <3>4. \A u \in DOMAIN topics : topics'[u] \in TopicRecords
        BY <3>1, TablesAre
      <3> QED
        BY <2>1, <3>1, <3>2, <3>3, <3>4
    <2>3. CASE r.t \in DOMAIN topics /\ c \in DOMAIN subscribers
      <3>1. PICK x, s : x = topics[r.t] /\ s = delSubscribe(x.subs, c)
        OBVIOUS
      <3>2. x \in TopicRecords /\ x.subs \in Seq(Clients) /\ IsInjective(x.subs) /\ Subs(r.t) = Range(x.subs)
        BY <2>3, <3>1, TablesAre
      <3>3. s \in Seq(Clients) /\ IsInjective(s) /\ Range(s) = Range(x.subs) \ {c}
        BY <3>1, <3>2, DelIs
      <3>4. topics' = [topics EXCEPT ![r.t] = [x EXCEPT !.subs = s]]
        BY <1>2, <2>3, <3>1
      <3>5. PICK y : y = [x EXCEPT !.subs = s]
        OBVIOUS
      <3>6. y \in TopicRecords /\ y.subs = s
        BY <3>2, <3>3, <3>5, SubsChanged
      <3>7. /\ DOMAIN topics' = DOMAIN topics /\ topics' = [u \in DOMAIN topics' |-> topics'[u]]
            /\ \A u \in DOMAIN topics : topics'[u] = IF u = r.t THEN y ELSE topics[u]
        BY <2>1, <3>4, <3>5
      <3>8. \A u \in Names : Subs(u)' = IF u = r.t THEN Subs(u) \ {c} ELSE Subs(u)
        BY <2>3, <3>2, <3>3, <3>6, <3>7 DEF Subs
      <3>9. \A u \in DOMAIN topics : topics'[u] \in TopicRecords
        BY <3>6, <3>7, TablesAre
      <3> QED
        BY <3>7, <3>8, <3>9
    <2> QED
      BY <2>2, <2>3
  <1>7. PICK S \in SUBSET Clients : S = {c}
    OBVIOUS
  <1>8. /\ subscribers' = [d \in DOMAIN subscribers |-> subscribers'[d]] /\ DOMAIN subscribers' = DOMAIN subscribers
        /\ \A d \in DOMAIN subscribers :
             /\ subscribers'[d] \in [topics : SUBSET Names, attr : Attrs]
             /\ subscribers'[d].topics = IF d \in S THEN subscribers[d].topics \ {r.t} ELSE subscribers[d].topics
    <2>1. subscribers' = Subscribe_removeTopic(S, r.t)
      BY <1>2, <1>7
    <2> QED
      BY <2>1, TopicTaken, Zenon
  <1>9. \A t \in Names, d \in Clients : d \in Subs(t)' <=> d \in DOMAIN subscribers' /\ t \in subscribers'[d].topics
    <2> SUFFICES ASSUME NEW t \in Names, NEW d \in Clients
                 PROVE  d \in Subs(t)' <=> d \in DOMAIN subscribers /\ t \in subscribers'[d].topics
      BY <1>8
    <2>1. d \in Subs(t) <=> d \in DOMAIN subscribers /\ t \in subscribers[d].topics
      BY <1>5
    <2>2. d \in Subs(t)' <=> d \in Subs(t) /\ ~(t = r.t /\ d = c)
      BY <1>6
    <2>3. d \in DOMAIN subscribers => (t \in subscribers'[d].topics <=> t \in subscribers[d].topics /\ ~(t = r.t /\ d = c))
      BY <1>7, <1>8
    <2> QED
      BY <2>1, <2>2, <2>3
  <1>10. TablesOk'
    BY <1>2, <1>3, <1>6, <1>8, <1>9, TablesAre, TablesNext
  <1> QED
    <2>1. /\ \A d \in Clients, t \in Names : d \in Subs(t)' => d \in Subs(t)
          /\ \A d \in Clients, t \in Names : d \in Subs(t) => d \in Subs(t)' \/ (d = c /\ r.t = t)
          /\ c \notin Subs(r.t)' /\ removed' \subseteq Pairs
      BY <1>2, <1>4, <1>6, TablesAre
    <2> QED
      BY <1>1, <1>2, <1>10, <2>1, NothingPushed, RequestServed

\* The subscribers with c, in any order.
LEMMA AddIs ==
  ASSUME NEW subs \in Seq(Clients), IsInjective(subs), NEW c \in Clients, NEW s \in addSubscribe(subs, c)
  PROVE  s \in Seq(Clients) /\ IsInjective(s) /\ Range(s) = Range(subs) \cup {c}
  <1>1. CASE c \in Range(subs)
    BY <1>1 DEF addSubscribe
  <1>2. CASE c \notin Range(subs)
    <2>1. PICK S : S = Range(subs) \cup {c}
      OBVIOUS
    <2>2. S \subseteq Clients
      BY <2>1, RangeIn
    <2>3. IsFiniteSet(S)
      BY <2>2, LimitIs, FS_Subset
    <2>4. s \in SetToSeqs(S)
      BY <1>2, <2>1 DEF addSubscribe
    <2>5. s \in Seq(S) /\ IsInjective(s) /\ Range(s) = S
      BY <2>3, <2>4, OrderIs
    <2>6. s \in Seq(Clients)
      <3>1. DOMAIN s = 1 .. Len(s) /\ Len(s) \in Nat /\ \A i \in 1 .. Len(s) : s[i] \in Clients
        BY <2>2, <2>5
      <3>2. s = [i \in 1 .. Len(s) |-> s[i]]
        BY <2>5
      <3> QED
        BY <3>1, <3>2
    <2> QED
      BY <2>1, <2>5, <2>6
  <1> QED
    BY <1>1, <1>2

LEMMA SubscribeStep ==
  ASSUME TopicInv, NEW c \in Clients, topicSubscribe(c)
  PROVE  TopicInv'
  <1>1. PICK r, q, mine : /\ r = Head(toSrv[c]) /\ q = toCli
                          /\ mine = IF c \in DOMAIN subscribers THEN subscribers[c].topics ELSE {}
    OBVIOUS
  <1>2. /\ r.op = "SUBSCRIBE" /\ toSrv[c] # <<>> /\ c \in open /\ Respond(c, q, TRUE) /\ r.t \in DOMAIN topics
        /\ subscribers' = Subscribe_addTopic(c, mine \cup {r.t}, r.arg)
        /\ removed' = removed \ {<<c, r.t>>} /\ pri' = pri /\ up' = up
    BY <1>1 DEF topicSubscribe, Request
  <1>3. PICK s \in addSubscribe(topics[r.t].subs, c) : topics' = [topics EXCEPT ![r.t].subs = s]
    BY <1>1 DEF topicSubscribe
  <1>4. open' = open
    BY <1>2 DEF Respond
  <1>5. r.t \in Names /\ r.arg \in Attrs
    BY <1>1, <1>2, RequestIs
  <1>6. PICK x : x = topics[r.t]
    OBVIOUS
  <1>7. x \in TopicRecords /\ x.subs \in Seq(Clients) /\ IsInjective(x.subs) /\ Subs(r.t) = Range(x.subs)
    BY <1>2, <1>6, TablesAre
  <1>8. s \in Seq(Clients) /\ IsInjective(s) /\ Range(s) = Range(x.subs) \cup {c}
    BY <1>3, <1>6, <1>7, AddIs
  <1>9. PICK y : y = [x EXCEPT !.subs = s]
    OBVIOUS
  <1>10. y \in TopicRecords /\ y.subs = s
    BY <1>7, <1>8, <1>9, SubsChanged
  <1>11. /\ DOMAIN topics' = DOMAIN topics /\ topics' = [u \in DOMAIN topics' |-> topics'[u]]
         /\ \A u \in DOMAIN topics : topics'[u] = IF u = r.t THEN y ELSE topics[u]
    <2>1. topics = [u \in DOMAIN topics |-> topics[u]]
      BY DEF TopicInv, TablesOk
    <2>2. topics' = [topics EXCEPT ![r.t] = [x EXCEPT !.subs = s]]
      BY <1>3, <1>6
    <2> QED
      BY <1>9, <2>1, <2>2
  <1>12. \A u \in Names : Subs(u)' = IF u = r.t THEN Subs(u) \cup {c} ELSE Subs(u)
    BY <1>2, <1>7, <1>8, <1>10, <1>11 DEF Subs
  <1>13. \A u \in DOMAIN topics : topics'[u] \in TopicRecords
    BY <1>10, <1>11, TablesAre
  <1>14. subscribers' = [d \in DOMAIN subscribers \cup {c} |->
                           IF d = c THEN [topics |-> mine \cup {r.t}, attr |-> r.arg] ELSE subscribers[d]]
    BY <1>2 DEF Subscribe_addTopic
  <1>15. /\ DOMAIN subscribers' = DOMAIN subscribers \cup {c}
         /\ subscribers' = [d \in DOMAIN subscribers' |-> subscribers'[d]]
         /\ subscribers'[c] = [topics |-> mine \cup {r.t}, attr |-> r.arg]
         /\ \A d \in DOMAIN subscribers \ {c} : subscribers'[d] = subscribers[d]
    BY <1>14
  <1>16. \A d \in DOMAIN subscribers' : subscribers'[d] \in [topics : SUBSET Names, attr : Attrs]
    <2>1. mine \in SUBSET Names
      BY <1>1, TablesAre
    <2>2. subscribers'[c] \in [topics : SUBSET Names, attr : Attrs]
      BY <1>5, <1>15, <2>1
    <2> QED
      BY <1>15, <2>2, TablesAre
  <1>17. \A t \in Names, d \in Clients : d \in Subs(t)' <=> d \in DOMAIN subscribers' /\ t \in subscribers'[d].topics
    <2> SUFFICES ASSUME NEW t \in Names, NEW d \in Clients
                 PROVE  d \in Subs(t)' <=> d \in DOMAIN subscribers' /\ t \in subscribers'[d].topics
      OBVIOUS
    <2>1. d \in Subs(t) <=> d \in DOMAIN subscribers /\ t \in subscribers[d].topics
      BY TablesAre
    <2>2. CASE d # c
      <3>1. d \in Subs(t)' <=> d \in Subs(t)
        BY <1>12, <2>2
      <3> QED
        BY <1>15, <2>1, <2>2, <3>1
    <2>3. CASE d = c
      <3>1. d \in Subs(t)' <=> d \in Subs(t) \/ t = r.t
        BY <1>12, <2>3
      <3>2. t \in subscribers'[c].topics <=> t \in mine \/ t = r.t
        BY <1>15
      <3>3. t \in mine <=> d \in DOMAIN subscribers /\ t \in subscribers[d].topics
        BY <1>1, <2>3
      <3> QED
        BY <1>15, <2>1, <2>3, <3>1, <3>2, <3>3
    <2> QED
      BY <2>2, <2>3
  <1>18. TablesOk'
    <2>1. DOMAIN subscribers' \subseteq open'
      BY <1>2, <1>4, <1>15, TablesAre
    <2> QED
      BY <1>2, <1>4, <1>11, <1>13, <1>15, <1>16, <1>17, <2>1, TablesAre, TablesNext
  <1>19. /\ \A d \in Clients, t \in Names : d \in Subs(t)' => d \in Subs(t) \/ (d = c /\ r.t = t)
         /\ c \in Subs(r.t)' /\ removed' \subseteq Pairs
    BY <1>2, <1>5, <1>12, TablesAre
  <1>20. \A d \in Clients, t \in Names : d \in Subs(t) \/ <<d, t>> \in removed => d \in Subs(t)' \/ <<d, t>> \in removed'
    <2> SUFFICES ASSUME NEW d \in Clients, NEW t \in Names, d \in Subs(t) \/ <<d, t>> \in removed, <<d, t>> \notin removed'
                 PROVE  d \in Subs(t)'
      OBVIOUS
    <2>1. d \in Subs(t) \/ (d = c /\ t = r.t)
      BY <1>2
    <2> QED
      BY <1>12, <2>1
  <1> QED
    BY <1>1, <1>2, <1>18, <1>19, <1>20, NothingPushed, RequestServed

LEMMA PublishStep ==
  ASSUME TopicInv, NEW c \in Clients, topicPublish(c)
  PROVE  TopicInv'
  <1>1. PICK r, x, attr, push : /\ r = Head(toSrv[c]) /\ x = topics[r.t] /\ push = Push(r.t)
                                /\ attr = [d \in DOMAIN subscribers |-> subscribers[d].attr]
    OBVIOUS
  <1>2. /\ r.op = "PUBLISH" /\ toSrv[c] # <<>> /\ r.t \in DOMAIN topics
        /\ subscribers' = subscribers /\ removed' = removed
    BY <1>1 DEF topicPublish, Request
  <1>3. PICK o \in dispatchMessage(x.subs, x.rr, pri, attr, r.arg) :
          /\ topics' = [topics EXCEPT ![r.t].rr = o.rr] /\ pri' = o.pri /\ up' = ~o.dies
          /\ IF o.dies
             THEN /\ toCli' = Send(toCli, o.to, push)
                  /\ UNCHANGED <<toSrv, open, call, cbs, state, countVars, histVars>>
             ELSE Respond(c, Send(toCli, o.to, push), TRUE)
    BY <1>1 DEF topicPublish, Push
  <1>4. r.t \in Names /\ r.arg \in Pubs
    BY <1>1, <1>2, RequestIs
  <1>5. /\ x \in TopicRecords /\ x.subs \in Seq(Clients) /\ IsInjective(x.subs) /\ x.rr \in Nat /\ x.rr < Limit
        /\ Subs(r.t) = Range(x.subs) /\ Range(x.subs) \subseteq Clients
    BY <1>1, <1>2, TablesAre
  <1>6. Proper(o, x.subs)
    <2>1. PICK subs, rr, pr, p : subs = x.subs /\ rr = x.rr /\ pr = pri /\ p = r.arg
      OBVIOUS
    <2>2. pr \in 0 .. Cardinality(Clients)
      BY <2>1, TablesAre
    <2>3. o \in dispatchMessage(subs, rr, pr, attr, p)
      BY <2>1
    <2> QED
      BY <1>4, <1>5, <2>1, <2>2, <2>3, OutcomeIs
  <1>7. PICK to : to = o.to /\ to \in Seq(Clients) /\ Range(to) \subseteq Subs(r.t)
    <2>1. o.to \in Seq(Range(x.subs))
      BY <1>6 DEF Proper
    <2>2. Range(o.to) \subseteq Range(x.subs)
      BY <2>1, RangeIn
    <2>3. o.to \in Seq(Clients)
      <3>1. DOMAIN o.to = 1 .. Len(o.to) /\ Len(o.to) \in Nat /\ \A i \in 1 .. Len(o.to) : o.to[i] \in Clients
        BY <1>5, <2>1
      <3>2. o.to = [i \in 1 .. Len(o.to) |-> o.to[i]]
        BY <2>1
      <3> QED
        BY <3>1, <3>2
    <2> QED
      BY <1>5, <2>2, <2>3
  <1>8. push \in Answers \cup Pushes
    BY <1>1, <1>4 DEF Push, Pushes
  <1>9. PICK q : q = Send(toCli, to, push)
    OBVIOUS
  <1>10. PushedTo(q)
    <2>1. PICK S : S = Answers \cup Pushes
      OBVIOUS
    <2>2. toCli \in [Clients -> Seq(S)] /\ push \in S
      BY <1>8, <2>1 DEF TopicInv, MessagesOk
    <2>3. PICK z : z = toCli
      OBVIOUS
    <2>4. z \in [Clients -> Seq(S)] /\ q = Send(z, to, push)
      BY <1>9, <2>2, <2>3
    <2>5. ASSUME NEW d \in Clients
          PROVE  /\ q[d] \in Seq(S) /\ Len(z[d]) <= Len(q[d])
                 /\ \A i \in 1 .. Len(z[d]) : q[d][i] = z[d][i]
                 /\ \A i \in 1 .. Len(q[d]) : i > Len(z[d]) => q[d][i] = push
                 /\ d \notin Range(to) => q[d] = z[d]
      <3>1. z \in [Clients -> Seq(S)] /\ to \in Seq(Clients) /\ push \in S
        BY <1>7, <2>2, <2>4
      <3>2. Sent(S, z, to, push, d, Send(z, to, push)[d])
        BY <3>1, SendIs
      <3> QED
        BY <2>4, <3>2 DEF Sent
    <2>6. q \in [Clients -> Seq(S)]
      <3>1. q = [d \in Clients |-> q[d]]
        BY <2>4 DEF Send
      <3> QED
        BY <2>5, <3>1
    <2>7. ASSUME NEW d \in Clients, NEW i \in 1 .. Len(q[d]), i > Len(z[d])
          PROVE  d \in Subs(r.t) /\ q[d][i] = Push(r.t)
      <3>1. d \in Range(to)
        <4>1. Len(z[d]) \in Nat
          BY <2>4
        <4> QED
          BY <2>5, <2>7, <4>1
      <3> QED
        BY <1>1, <1>7, <2>5, <2>7, <3>1
    <2> QED
      BY <1>4, <2>1, <2>3, <2>5, <2>6, <2>7 DEF PushedTo
  <1>11. PICK y : y = [x EXCEPT !.rr = o.rr]
    OBVIOUS
  <1>12. y \in TopicRecords /\ y.subs = x.subs
    BY <1>5, <1>6, <1>11, CursorChanged DEF Proper
  <1>13. /\ DOMAIN topics' = DOMAIN topics /\ topics' = [u \in DOMAIN topics' |-> topics'[u]]
         /\ \A u \in DOMAIN topics : topics'[u] = IF u = r.t THEN y ELSE topics[u]
    <2>1. topics = [u \in DOMAIN topics |-> topics[u]]
      BY DEF TopicInv, TablesOk
    <2>2. topics' = [topics EXCEPT ![r.t] = [x EXCEPT !.rr = o.rr]]
      BY <1>1, <1>3
    <2> QED
      BY <1>11, <2>1, <2>2
  <1>14. \A u : Subs(u)' = Subs(u)
    BY <1>1, <1>12, <1>13 DEF Subs
  <1>15. \A u \in DOMAIN topics : topics'[u] \in TopicRecords
    BY <1>12, <1>13, TablesAre
  <1>16. open' = open
    BY <1>3 DEF Respond
  <1>17. TablesOk'
    <2>1. subscribers' = [d \in DOMAIN subscribers' |-> subscribers'[d]]
      BY <1>2 DEF TopicInv, TablesOk
    <2>2. pri' \in 0 .. Cardinality(Clients) /\ up' \in BOOLEAN
      BY <1>3, <1>6 DEF Proper
    <2> QED
      BY <1>2, <1>13, <1>14, <1>15, <1>16, <2>1, <2>2, TablesAre, TablesNext
  <1>18. CASE ~o.dies
    <2>1. Respond(c, q, TRUE)
      BY <1>3, <1>7, <1>9, <1>18
    <2> QED
      BY <1>1, <1>2, <1>10, <1>14, <1>17, <2>1, RequestServed, TablesAre
  <1>19. CASE o.dies
    <2>1. toCli' = q /\ toSrv' = toSrv /\ Passive
      BY <1>3, <1>7, <1>9, <1>19 DEF Passive, histVars
    <2>2. MessagesOk'
      BY <1>2, <1>10, <2>1 DEF TopicInv, MessagesOk, Passive, PushedTo
    <2>3. ASSUME NEW d \in Clients
          PROVE  Flow(d)' /\ \A t \in Names : Agreed(d, t)' /\ Quiet(d, t)'
      <3>1. Grown(d) /\ PushedOnly(d)
        BY <1>10, <2>1 DEF PushedTo, Grown, PushedOnly
      <3> QED
        BY <1>2, <1>14, <2>1, <3>1, Kept
    <2> QED
      BY <1>17, <2>2, <2>3 DEF TopicInv
  <1> QED
    BY <1>18, <1>19

LEMMA ClosedStep ==
  ASSUME TopicInv, NEW c \in Clients, onconnShoutdown(c)
  PROVE  TopicInv'
  <1>1. /\ state[c] # "connected" /\ open' = open \ {c} /\ toSrv' = [toSrv EXCEPT ![c] = <<>>]
        /\ toCli' = toCli /\ pri' = pri /\ up' = up /\ removed' = removed /\ Passive
        /\ subscribers' = Restrict(subscribers, DOMAIN subscribers \ {c})
        /\ topics' = IF c \notin DOMAIN subscribers THEN topics
                     ELSE [t \in DOMAIN topics |->
                             IF t \in subscribers[c].topics
                             THEN [topics[t] EXCEPT !.subs = delSubscribe(topics[t].subs, c)] ELSE topics[t]]
    BY DEF onconnShoutdown, Passive, histVars
  <1>2. /\ DOMAIN topics \subseteq Names /\ topics = [u \in DOMAIN topics |-> topics[u]]
        /\ \A t \in Names, d \in Clients : d \in Subs(t) <=> d \in DOMAIN subscribers /\ t \in subscribers[d].topics
    BY TablesAre DEF TopicInv, TablesOk
  <1>3. /\ DOMAIN topics' = DOMAIN topics /\ topics' = [u \in DOMAIN topics' |-> topics'[u]]
    BY <1>1, <1>2
  <1>4. ASSUME NEW u \in DOMAIN topics
        PROVE  topics'[u] \in TopicRecords /\ Range(topics'[u].subs) = Subs(u) \ {c}
    <2>1. /\ topics[u] \in TopicRecords /\ topics[u].subs \in Seq(Clients) /\ IsInjective(topics[u].subs)
          /\ Subs(u) = Range(topics[u].subs)
      BY TablesAre
    <2>2. CASE c \in DOMAIN subscribers /\ u \in subscribers[c].topics
      <3>1. PICK x, s : x = topics[u] /\ s = delSubscribe(x.subs, c)
        OBVIOUS
      <3>2. s \in Seq(Clients) /\ IsInjective(s) /\ Range(s) = Range(x.subs) \ {c}
        BY <2>1, <3>1, DelIs
      <3>3. topics'[u] = [x EXCEPT !.subs = s]
        BY <1>1, <2>2, <3>1
      <3>4. topics'[u] \in TopicRecords /\ topics'[u].subs = s
        BY <2>1, <3>1, <3>2, <3>3, SubsChanged
      <3> QED
        BY <2>1, <3>1, <3>2, <3>4
    <2>3. CASE ~(c \in DOMAIN subscribers /\ u \in subscribers[c].topics)
      <3>1. topics'[u] = topics[u]
        BY <1>1, <2>3
      <3>2. c \notin Subs(u)
        BY <1>2, <2>3
      <3> QED
        BY <2>1, <3>1, <3>2
    <2> QED
      BY <2>2, <2>3
  <1>5. \A u : Subs(u)' = Subs(u) \ {c}
    <2>1. ASSUME NEW u, u \in DOMAIN topics PROVE Subs(u)' = Subs(u) \ {c}
      BY <1>3, <1>4, <2>1 DEF Subs
    <2>2. ASSUME NEW u, u \notin DOMAIN topics PROVE Subs(u)' = Subs(u) \ {c}
      BY <1>3, <2>2 DEF Subs
    <2> QED
      BY <2>1, <2>2
  <1>6. /\ DOMAIN subscribers' = DOMAIN subscribers \ {c} /\ subscribers' = [d \in DOMAIN subscribers' |-> subscribers'[d]]
        /\ \A d \in DOMAIN subscribers' : subscribers'[d] = subscribers[d]
    BY <1>1 DEF Restrict
  <1>7. TablesOk'
    <2>1. \A d \in DOMAIN subscribers' : subscribers'[d] \in [topics : SUBSET Names, attr : Attrs]
      BY <1>6, TablesAre
    <2>2. DOMAIN subscribers' \subseteq open' /\ open' \subseteq Clients
      BY <1>1, <1>6, TablesAre
    <2>3. \A t \in Names, d \in Clients : d \in Subs(t)' <=> d \in DOMAIN subscribers' /\ t \in subscribers'[d].topics
      BY <1>2, <1>5, <1>6
    <2>4. pri' \in 0 .. Cardinality(Clients) /\ up' \in BOOLEAN
      BY <1>1, TablesAre
    <2> QED
      BY <1>2, <1>3, <1>4, <1>6, <2>1, <2>2, <2>3, <2>4, TablesNext
  <1>8. /\ toSrv' \in [Clients -> Seq(Requests)] /\ toSrv'[c] = <<>>
        /\ \A d \in Clients : d # c => toSrv'[d] = toSrv[d]
    BY <1>1 DEF TopicInv, MessagesOk
  <1>9. MessagesOk'
    BY <1>1, <1>8 DEF TopicInv, MessagesOk, Passive
  <1>10. ASSUME NEW d \in Clients
         PROVE  Flow(d)' /\ \A t \in Names : Agreed(d, t)' /\ Quiet(d, t)'
    <2>1. Grown(d) /\ PushedOnly(d)
      BY <1>1, QueuesAre DEF Grown, PushedOnly
    <2>2. toSrv'[d] = toSrv[d] \/ toSrv'[d] = <<>>
      BY <1>8
    <2>3. \A t \in Names : d \in Subs(t)' => d \in Subs(t)
      BY <1>5
    <2>4. \A t \in Names : state[d] = "connected" /\ (d \in Subs(t) \/ <<d, t>> \in removed) =>
                             d \in Subs(t)' \/ <<d, t>> \in removed'
      BY <1>1, <1>5
    <2> QED
      BY <1>1, <2>1, <2>2, <2>3, <2>4, Kept
  <1> QED
    BY <1>7, <1>9, <1>10 DEF TopicInv

---------------------------------------------------------------------------
(* The steps of the clients.                                               *)

\* A step of client c leaves the server and the other clients alone.
LEMMA ClientActs ==
  ASSUME TopicInv, NEW c \in Clients, UNCHANGED srvVars,
         \A d \in Clients : d # c =>
           toSrv'[d] = toSrv[d] /\ toCli'[d] = toCli[d] /\ call'[d] = call[d] /\ state'[d] = state[d],
         \A d \in Clients, t \in Names : d # c =>
           /\ <<d, t>> \in cbs' <=> <<d, t>> \in cbs
           /\ <<d, t>> \in gaveUp' <=> <<d, t>> \in gaveUp
           /\ <<d, t>> \in trusts' <=> <<d, t>> \in trusts
           /\ <<d, t>> \in cancelled' <=> <<d, t>> \in cancelled,
         MessagesOk', Flow(c)', \A t \in Names : Agreed(c, t)' /\ Quiet(c, t)'
  PROVE  TopicInv'
  <1>1. TablesOk'
    BY DEF TopicInv, TablesOk, TablesAgree, TopicRecords, Limit, srvVars
  <1>2. topics' = topics /\ removed' = removed
    BY DEF srvVars
  <1>3. ASSUME NEW d \in Clients, d # c
        PROVE  Flow(d)' /\ \A t \in Names : Agreed(d, t)' /\ Quiet(d, t)'
    BY <1>2, <1>3, Untouched
  <1> QED
    BY <1>1, <1>3 DEF TopicInv

\* What a call changes in the history and the callbacks.
CallNotes(c, op, t) ==
  /\ gaveUp' = gaveUp
  /\ cbs' = IF op = "SUBSCRIBE" THEN cbs \cup {<<c, t>>} ELSE cbs
  /\ cancelled' = IF op = "SUBSCRIBE" THEN cancelled \ {<<c, t>>} ELSE cancelled
  /\ trusts' = IF op = "UNSUBSCRIBE" THEN trusts \ {<<c, t>>} ELSE trusts

LEMMA CallMade ==
  ASSUME TopicInv, NEW c \in Clients, NEW op \in Ops, NEW t \in Names, NEW arg,
         [op |-> op, t |-> t, arg |-> arg, live |-> TRUE] \in Requests,
         Call(c, op, t, arg), CallNotes(c, op, t)
  PROVE  TopicInv'
  <1>1. PICK req : req = [op |-> op, t |-> t, arg |-> arg, live |-> TRUE]
    OBVIOUS
  <1>2. /\ call[c] = Idle /\ state' = state /\ toCli' = toCli /\ UNCHANGED srvVars
        /\ call' = [call EXCEPT ![c] = [at |-> "sent", op |-> req.op, t |-> req.t]]
        /\ toSrv' = [toSrv EXCEPT ![c] = Append(toSrv[c], req)]
    BY <1>1 DEF Call, commonRequest
  <1>3. req \in Requests /\ req.op = op /\ req.t = t /\ req.live = TRUE
    BY <1>1
  <1>4. /\ toSrv[c] \in Seq(Requests) /\ Len(toSrv[c]) \in Nat
        /\ DOMAIN toSrv[c] = 1 .. Len(toSrv[c]) /\ DOMAIN toCli[c] = 1 .. Len(toCli[c])
    BY QueuesAre
  <1>5. /\ Append(toSrv[c], req) \in Seq(Requests) /\ Len(Append(toSrv[c], req)) = Len(toSrv[c]) + 1
        /\ \A i \in 1 .. Len(toSrv[c]) : Append(toSrv[c], req)[i] = toSrv[c][i]
        /\ Append(toSrv[c], req)[Len(toSrv[c]) + 1] = req
    BY <1>3, <1>4, AppendProperties
  <1>6. /\ toSrv' \in [Clients -> Seq(Requests)] /\ toSrv'[c] = Append(toSrv[c], req)
        /\ \A d \in Clients : d # c => toSrv'[d] = toSrv[d]
    BY <1>2, <1>5 DEF TopicInv, MessagesOk
  <1>7. /\ call' \in [Clients -> CallsOf] /\ call'[c] = [at |-> "sent", op |-> op, t |-> t]
        /\ \A d \in Clients : d # c => call'[d] = call[d]
    <2>1. [at |-> "sent", op |-> op, t |-> t] \in CallsOf
      BY DEF CallsOf
    <2> QED
      BY <1>2, <1>3, <2>1 DEF TopicInv, MessagesOk
  <1>8. MessagesOk'
    <2>1. <<c, t>> \in Pairs
      BY DEF Pairs
    <2>2. cbs' \subseteq Pairs /\ gaveUp' \subseteq Pairs /\ cancelled' \subseteq Pairs /\ trusts' \subseteq Pairs
      BY <2>1 DEF TopicInv, MessagesOk, CallNotes
    <2> QED
      BY <1>2, <1>6, <1>7, <2>2 DEF TopicInv, MessagesOk, srvVars
  <1>9. /\ call[c].at = "idle"
        /\ \A i \in DOMAIN toSrv[c] : ~toSrv[c][i].live
        /\ \A i \in DOMAIN toCli[c] : ~toCli[c][i].live
    <2>1. call[c].at = "idle"
      BY <1>2 DEF Idle
    <2>2. Flow(c)
      BY DEF TopicInv
    <2> QED
      BY <2>1, <2>2 DEF Flow
  <1>10. call'[c].at = "sent" /\ call'[c].op = op /\ call'[c].t = t
    BY <1>7
  <1>11. DOMAIN toSrv'[c] = 1 .. Len(toSrv[c]) + 1 /\ Len(toSrv'[c]) = Len(toSrv[c]) + 1
    BY <1>4, <1>5, <1>6
  <1>12. \A i \in DOMAIN toSrv'[c] :
           \/ i \in DOMAIN toSrv[c] /\ toSrv'[c][i] = toSrv[c][i]
           \/ i = Len(toSrv'[c]) /\ toSrv'[c][i] = req
    BY <1>4, <1>5, <1>6, <1>11
  <1>13. Flow(c)'
    BY <1>2, <1>3, <1>9, <1>10, <1>12 DEF Flow
  <1>14. ASSUME NEW u \in Names PROVE Agreed(c, u)' /\ Quiet(c, u)'
    <2>1. Agreed(c, u) /\ Quiet(c, u)
      BY DEF TopicInv
    <2>2. \A x \in {"SUBSCRIBE", "UNSUBSCRIBE"} : Asks(c, x, u)' => Asks(c, x, u) \/ (x = op /\ u = t)
      BY <1>3, <1>12 DEF Asks
    <2>3. \A x \in {"SUBSCRIBE", "UNSUBSCRIBE"}, ok \in BOOLEAN : ~AnswerIs(c, x, u, ok)'
      BY <1>2, <1>9, <1>10 DEF AnswerIs
    <2>4. Subs(u)' = Subs(u) /\ removed' = removed
      BY <1>2 DEF Subs, srvVars
    <2>5. /\ <<c, u>> \in cbs' \cup gaveUp' <=> <<c, u>> \in cbs \cup gaveUp \/ (op = "SUBSCRIBE" /\ u = t)
          /\ <<c, u>> \in cancelled' <=> <<c, u>> \in cancelled /\ ~(op = "SUBSCRIBE" /\ u = t)
          /\ <<c, u>> \in trusts' <=> <<c, u>> \in trusts /\ ~(op = "UNSUBSCRIBE" /\ u = t)
      BY DEF CallNotes
    <2>6. Agreed(c, u)'
      BY <1>2, <2>1, <2>2, <2>3, <2>4, <2>5 DEF Agreed
    <2>7. Quiet(c, u)'
      BY <1>2, <1>9, <1>10, <2>1, <2>5 DEF Quiet
    <2> QED
      BY <2>6, <2>7
  <1>15. \A d \in Clients, u \in Names : d # c =>
           /\ <<d, u>> \in cbs' <=> <<d, u>> \in cbs
           /\ <<d, u>> \in gaveUp' <=> <<d, u>> \in gaveUp
           /\ <<d, u>> \in trusts' <=> <<d, u>> \in trusts
           /\ <<d, u>> \in cancelled' <=> <<d, u>> \in cancelled
    BY DEF CallNotes
  <1>16. \A d \in Clients : d # c =>
           toSrv'[d] = toSrv[d] /\ toCli'[d] = toCli[d] /\ call'[d] = call[d] /\ state'[d] = state[d]
    BY <1>2, <1>6, <1>7
  <1> QED
    BY <1>2, <1>8, <1>13, <1>14, <1>15, <1>16, ClientActs

LEMMA CallSteps ==
  ASSUME TopicInv, NEW c \in Clients, ClientCalls(c)
  PROVE  TopicInv'
  <1>1. PICK t \in Names :
          \/ createTopic(c, t) \/ removeTopic(c, t) \/ cancelTopic(c, t)
          \/ \E a \in Attrs : subscribeTopic(c, t, a)
          \/ \E p \in Pubs : publishTopic(c, t, p)
    BY DEF ClientCalls
  <1>2. Ops = {"CREATE", "REMOVE", "SUBSCRIBE", "UNSUBSCRIBE", "PUBLISH"}
    BY DEF Ops
  <1>3. \A op \in {"CREATE", "REMOVE", "UNSUBSCRIBE"} :
          [op |-> op, t |-> t, arg |-> {}, live |-> TRUE] \in Requests
    BY DEF Requests
  <1>4. CASE createTopic(c, t)
    <2>1. Call(c, "CREATE", t, {}) /\ CallNotes(c, "CREATE", t)
      BY <1>4 DEF createTopic, CallNotes, histVars
    <2> QED
      BY <1>2, <1>3, <2>1, CallMade
  <1>5. CASE removeTopic(c, t)
    <2>1. Call(c, "REMOVE", t, {}) /\ CallNotes(c, "REMOVE", t)
      BY <1>5 DEF removeTopic, CallNotes, histVars
    <2> QED
      BY <1>2, <1>3, <2>1, CallMade
  <1>6. CASE cancelTopic(c, t)
    <2>1. Call(c, "UNSUBSCRIBE", t, {}) /\ CallNotes(c, "UNSUBSCRIBE", t)
      BY <1>6 DEF cancelTopic, CallNotes
    <2> QED
      BY <1>2, <1>3, <2>1, CallMade
  <1>7. ASSUME NEW a \in Attrs, subscribeTopic(c, t, a) PROVE TopicInv'
    <2>1. Call(c, "SUBSCRIBE", t, a) /\ CallNotes(c, "SUBSCRIBE", t)
      BY <1>7 DEF subscribeTopic, CallNotes
    <2>2. [op |-> "SUBSCRIBE", t |-> t, arg |-> a, live |-> TRUE] \in Requests
      BY DEF Requests
    <2> QED
      BY <1>2, <2>1, <2>2, CallMade
  <1>8. ASSUME NEW p \in Pubs, publishTopic(c, t, p) PROVE TopicInv'
    <2>1. Call(c, "PUBLISH", t, p) /\ CallNotes(c, "PUBLISH", t)
      BY <1>8 DEF publishTopic, CallNotes, histVars
    <2>2. [op |-> "PUBLISH", t |-> t, arg |-> p, live |-> TRUE] \in Requests
      BY DEF Requests
    <2> QED
      BY <1>2, <2>1, <2>2, CallMade
  <1> QED
    BY <1>1, <1>4, <1>5, <1>6, <1>7, <1>8

\* What a call that returns changes: the same for an answer and for a timeout.
LEMMA ReturnIs ==
  ASSUME TopicInv, NEW c \in Clients, NEW ok \in BOOLEAN, call[c].at \in {"sent", "answered"}, Returns(c, ok)
  PROVE  /\ call' \in [Clients -> CallsOf] /\ call'[c] = Idle /\ call'[c].at = "idle"
         /\ \A d \in Clients : d # c => call'[d] = call[d]
         /\ call[c].op \in Ops /\ call[c].t \in Names /\ <<c, call[c].t>> \in Pairs
         /\ cbs' = IF call[c].op = "SUBSCRIBE" /\ ~ok THEN cbs \ {<<c, call[c].t>>} ELSE cbs
         /\ trusts' = IF call[c].op = "SUBSCRIBE"
                      THEN IF ok THEN trusts \cup {<<c, call[c].t>>} ELSE trusts \ {<<c, call[c].t>>}
                      ELSE trusts
         /\ cbs' \subseteq Pairs /\ trusts' \subseteq Pairs
  <1>1. call \in [Clients -> CallsOf] /\ Idle \in CallsOf /\ cbs \subseteq Pairs /\ trusts \subseteq Pairs
    BY DEF TopicInv, MessagesOk, CallsOf
  <1>2. call' = [call EXCEPT ![c] = Idle]
    BY DEF Returns
  <1>3. /\ call' \in [Clients -> CallsOf] /\ call'[c] = Idle
        /\ \A d \in Clients : d # c => call'[d] = call[d]
    BY <1>1, <1>2
  <1>4. call'[c].at = "idle"
    BY <1>3 DEF Idle
  <1>5. call[c].op \in Ops /\ call[c].t \in Names
    <2>1. call[c] \in CallsOf /\ call[c] # Idle
      BY <1>1 DEF Idle
    <2> QED
      BY <2>1 DEF CallsOf
  <1>6. <<c, call[c].t>> \in Pairs
    BY <1>5 DEF Pairs
  <1>7. /\ cbs' = IF call[c].op = "SUBSCRIBE" /\ ~ok THEN cbs \ {<<c, call[c].t>>} ELSE cbs
        /\ trusts' = IF call[c].op = "SUBSCRIBE"
                     THEN IF ok THEN trusts \cup {<<c, call[c].t>>} ELSE trusts \ {<<c, call[c].t>>}
                     ELSE trusts
    BY DEF Returns
  <1> QED
    BY <1>1, <1>3, <1>4, <1>5, <1>6, <1>7

LEMMA AnsweredStep ==
  ASSUME TopicInv, NEW c \in Clients, Answered(c)
  PROVE  TopicInv'
  <1>1. PICK op, t, ok : op = call[c].op /\ t = call[c].t /\ ok = call[c].ok
    OBVIOUS
  <1>2. /\ call[c].at = "answered" /\ Returns(c, ok) /\ UNCHANGED <<srvVars, toSrv, toCli, state, gaveUp>>
        /\ cancelled' = IF op = "UNSUBSCRIBE" /\ ok THEN cancelled \cup {<<c, t>>} ELSE cancelled
    BY <1>1 DEF Answered
  <1>3. ok \in BOOLEAN
    <2>1. call[c] \in CallsOf
      BY DEF TopicInv, MessagesOk
    <2> QED
      BY <1>1, <1>2, <2>1 DEF CallsOf, Idle
  <1>4. /\ call' \in [Clients -> CallsOf] /\ call'[c].at = "idle"
        /\ \A d \in Clients : d # c => call'[d] = call[d]
        /\ t \in Names /\ <<c, t>> \in Pairs
        /\ cbs' = IF op = "SUBSCRIBE" /\ ~ok THEN cbs \ {<<c, t>>} ELSE cbs
        /\ trusts' = IF op = "SUBSCRIBE" THEN IF ok THEN trusts \cup {<<c, t>>} ELSE trusts \ {<<c, t>>} ELSE trusts
        /\ cbs' \subseteq Pairs /\ trusts' \subseteq Pairs
    BY <1>1, <1>2, <1>3, ReturnIs
  <1>5. MessagesOk'
    <2>1. cancelled' \subseteq Pairs
      BY <1>2, <1>4 DEF TopicInv, MessagesOk
    <2> QED
      BY <1>2, <1>4, <2>1 DEF TopicInv, MessagesOk, srvVars
  <1>6. toSrv[c] = <<>> /\ \A i \in DOMAIN toCli[c] : ~toCli[c][i].live
    <2>1. Flow(c)
      BY DEF TopicInv
    <2> QED
      BY <1>2, <2>1 DEF Flow
  <1>7. Flow(c)'
    BY <1>2, <1>4, <1>6 DEF Flow
  <1>8. AnswerIs(c, op, t, ok)
    BY <1>1, <1>2 DEF AnswerIs
  <1>9. ASSUME NEW u \in Names PROVE Agreed(c, u)' /\ Quiet(c, u)'
    <2>1. Agreed(c, u) /\ Quiet(c, u)
      BY DEF TopicInv
    <2>2. \A x : ~Asks(c, x, u)'
      BY <1>2, <1>6 DEF Asks
    <2>3. \A x, k : ~AnswerIs(c, x, u, k)'
      BY <1>4 DEF AnswerIs
    <2>4. Subs(u)' = Subs(u) /\ removed' = removed /\ gaveUp' = gaveUp /\ state' = state
      BY <1>2 DEF Subs, srvVars
    <2>5. /\ <<c, u>> \in cbs' <=> <<c, u>> \in cbs /\ ~(u = t /\ op = "SUBSCRIBE" /\ ~ok)
          /\ <<c, u>> \in cancelled' <=> <<c, u>> \in cancelled \/ (u = t /\ op = "UNSUBSCRIBE" /\ ok)
          /\ <<c, u>> \in trusts' => <<c, u>> \in trusts \/ (u = t /\ op = "SUBSCRIBE" /\ ok)
      BY <1>2, <1>4
    <2>6. /\ u = t /\ op = "SUBSCRIBE" /\ ~ok => c \notin Subs(u) \/ <<c, u>> \in gaveUp
          /\ u = t /\ op = "SUBSCRIBE" /\ ok => (state[c] = "connected" => <<c, u>> \in removed \/ c \in Subs(u))
          /\ u = t /\ op = "UNSUBSCRIBE" => c \notin Subs(u)
      BY <1>3, <1>8, <2>1 DEF Agreed
    <2>7. Agreed(c, u)'
      BY <2>1, <2>2, <2>3, <2>4, <2>5, <2>6 DEF Agreed
    <2>8. Quiet(c, u)'
      BY <1>1, <1>2, <1>4, <2>1, <2>5 DEF Quiet
    <2> QED
      BY <2>7, <2>8
  <1>10. \A d \in Clients, u \in Names : d # c =>
           /\ <<d, u>> \in cbs' <=> <<d, u>> \in cbs
           /\ <<d, u>> \in gaveUp' <=> <<d, u>> \in gaveUp
           /\ <<d, u>> \in trusts' <=> <<d, u>> \in trusts
           /\ <<d, u>> \in cancelled' <=> <<d, u>> \in cancelled
    BY <1>2, <1>4
  <1>11. \A d \in Clients : d # c =>
           toSrv'[d] = toSrv[d] /\ toCli'[d] = toCli[d] /\ call'[d] = call[d] /\ state'[d] = state[d]
    BY <1>2, <1>4
  <1> QED
    BY <1>2, <1>5, <1>7, <1>9, <1>10, <1>11, ClientActs

\* Nobody waits for the messages of a call that was given up.
LEMMA ForsakenRequests ==
  ASSUME NEW s \in Seq(Requests)
  PROVE  /\ Forsaken(s) \in Seq(Requests) /\ DOMAIN Forsaken(s) = DOMAIN s
         /\ \A i \in DOMAIN s : ~Forsaken(s)[i].live /\ Forsaken(s)[i].op = s[i].op /\ Forsaken(s)[i].t = s[i].t
  <1>1. \A m \in Requests :
          /\ [m EXCEPT !.live = FALSE] \in Requests /\ ~[m EXCEPT !.live = FALSE].live
          /\ [m EXCEPT !.live = FALSE].op = m.op /\ [m EXCEPT !.live = FALSE].t = m.t
    BY DEF Requests
  <1>2. DOMAIN s = 1 .. Len(s) /\ Len(s) \in Nat /\ \A i \in DOMAIN s : s[i] \in Requests
    OBVIOUS
  <1>3. DOMAIN Forsaken(s) = DOMAIN s /\ \A i \in DOMAIN s : Forsaken(s)[i] = [s[i] EXCEPT !.live = FALSE]
    BY DEF Forsaken
  <1>4. Forsaken(s) \in [1 .. Len(s) -> Requests]
    BY <1>1, <1>2 DEF Forsaken
  <1>5. Forsaken(s) \in Seq(Requests)
    BY <1>2, <1>4
  <1> QED
    BY <1>1, <1>2, <1>3, <1>5

LEMMA ForsakenAnswers ==
  ASSUME NEW s \in Seq(Answers \cup Pushes)
  PROVE  /\ Forsaken(s) \in Seq(Answers \cup Pushes) /\ DOMAIN Forsaken(s) = DOMAIN s
         /\ \A i \in DOMAIN s : ~Forsaken(s)[i].live /\ Forsaken(s)[i].type = s[i].type /\ Forsaken(s)[i].t = s[i].t
  <1>1. \A m \in Answers \cup Pushes :
          /\ [m EXCEPT !.live = FALSE] \in Answers \cup Pushes /\ ~[m EXCEPT !.live = FALSE].live
          /\ [m EXCEPT !.live = FALSE].type = m.type /\ [m EXCEPT !.live = FALSE].t = m.t
    BY DEF Answers, Pushes
  <1>2. DOMAIN s = 1 .. Len(s) /\ Len(s) \in Nat /\ \A i \in DOMAIN s : s[i] \in Answers \cup Pushes
    OBVIOUS
  <1>3. DOMAIN Forsaken(s) = DOMAIN s /\ \A i \in DOMAIN s : Forsaken(s)[i] = [s[i] EXCEPT !.live = FALSE]
    BY DEF Forsaken
  <1>4. Forsaken(s) \in [1 .. Len(s) -> Answers \cup Pushes]
    BY <1>1, <1>2 DEF Forsaken
  <1>5. Forsaken(s) \in Seq(Answers \cup Pushes)
    BY <1>2, <1>4
  <1> QED
    BY <1>1, <1>2, <1>3, <1>5

LEMMA TimesOutStep ==
  ASSUME TopicInv, NEW c \in Clients, TimesOut(c)
  PROVE  TopicInv'
  <1>1. PICK op, t, fs, fc : op = call[c].op /\ t = call[c].t /\ fs = Forsaken(toSrv[c]) /\ fc = Forsaken(toCli[c])
    OBVIOUS
  <1>2. /\ call[c].at = "sent" /\ Returns(c, FALSE) /\ UNCHANGED <<srvVars, state, cancelled>>
        /\ gaveUp' = IF op = "SUBSCRIBE" THEN gaveUp \cup {<<c, t>>} ELSE gaveUp
        /\ toSrv' = [toSrv EXCEPT ![c] = fs] /\ toCli' = [toCli EXCEPT ![c] = fc]
    BY <1>1 DEF TimesOut
  <1>3. /\ call' \in [Clients -> CallsOf] /\ call'[c].at = "idle"
        /\ \A d \in Clients : d # c => call'[d] = call[d]
        /\ t \in Names /\ <<c, t>> \in Pairs
        /\ cbs' = IF op = "SUBSCRIBE" THEN cbs \ {<<c, t>>} ELSE cbs
        /\ trusts' = IF op = "SUBSCRIBE" THEN trusts \ {<<c, t>>} ELSE trusts
        /\ cbs' \subseteq Pairs /\ trusts' \subseteq Pairs
    BY <1>1, <1>2, ReturnIs
  <1>4. /\ fs \in Seq(Requests) /\ DOMAIN fs = DOMAIN toSrv[c]
        /\ \A i \in DOMAIN fs : ~fs[i].live /\ fs[i].op = toSrv[c][i].op /\ fs[i].t = toSrv[c][i].t
    BY <1>1, QueuesAre, ForsakenRequests
  <1>5. /\ fc \in Seq(Answers \cup Pushes) /\ DOMAIN fc = DOMAIN toCli[c]
        /\ \A i \in DOMAIN fc : ~fc[i].live /\ fc[i].type = toCli[c][i].type /\ fc[i].t = toCli[c][i].t
    BY <1>1, QueuesAre, ForsakenAnswers
  <1>6. /\ toSrv' \in [Clients -> Seq(Requests)] /\ toSrv'[c] = fs
        /\ \A d \in Clients : d # c => toSrv'[d] = toSrv[d]
    BY <1>2, <1>4 DEF TopicInv, MessagesOk
  <1>7. /\ toCli' \in [Clients -> Seq(Answers \cup Pushes)] /\ toCli'[c] = fc
        /\ \A d \in Clients : d # c => toCli'[d] = toCli[d]
    BY <1>2, <1>5 DEF TopicInv, MessagesOk
  <1>8. MessagesOk'
    <2>1. gaveUp' \subseteq Pairs
      BY <1>2, <1>3 DEF TopicInv, MessagesOk
    <2> QED
      BY <1>2, <1>3, <1>6, <1>7, <2>1 DEF TopicInv, MessagesOk, srvVars
  <1>9. Flow(c)'
    BY <1>3, <1>4, <1>5, <1>6, <1>7 DEF Flow
  <1>10. ASSUME NEW u \in Names PROVE Agreed(c, u)' /\ Quiet(c, u)'
    <2>1. Agreed(c, u) /\ Quiet(c, u)
      BY DEF TopicInv
    <2>2. \A x : Asks(c, x, u)' => Asks(c, x, u)
      BY <1>4, <1>6 DEF Asks
    <2>3. \A x, k : ~AnswerIs(c, x, u, k)'
      BY <1>3 DEF AnswerIs
    <2>4. Subs(u)' = Subs(u) /\ removed' = removed /\ cancelled' = cancelled /\ state' = state
      BY <1>2 DEF Subs, srvVars
    <2>5. /\ <<c, u>> \in cbs \cup gaveUp => <<c, u>> \in cbs' \cup gaveUp'
          /\ <<c, u>> \in trusts' => <<c, u>> \in trusts
      BY <1>2, <1>3
    <2>6. Agreed(c, u)'
      BY <2>1, <2>2, <2>3, <2>4, <2>5 DEF Agreed
    <2>7. Quiet(c, u)'
      BY <1>3, <1>5, <1>7, <2>1, <2>4 DEF Quiet
    <2> QED
      BY <2>6, <2>7
  <1>11. \A d \in Clients, u \in Names : d # c =>
           /\ <<d, u>> \in cbs' <=> <<d, u>> \in cbs
           /\ <<d, u>> \in gaveUp' <=> <<d, u>> \in gaveUp
           /\ <<d, u>> \in trusts' <=> <<d, u>> \in trusts
           /\ <<d, u>> \in cancelled' <=> <<d, u>> \in cancelled
    BY <1>2, <1>3
  <1>12. \A d \in Clients : d # c =>
           toSrv'[d] = toSrv[d] /\ toCli'[d] = toCli[d] /\ call'[d] = call[d] /\ state'[d] = state[d]
    BY <1>2, <1>3, <1>6, <1>7
  <1> QED
    BY <1>2, <1>8, <1>9, <1>10, <1>11, <1>12, ClientActs

\* The first message to c, and the ones behind it.
LEMMA ReceivedIs ==
  ASSUME TopicInv, NEW c \in Clients, toCli[c] # <<>>, toCli' = [toCli EXCEPT ![c] = Tail(toCli[c])]
  PROVE  /\ Head(toCli[c]) = toCli[c][1] /\ 1 \in DOMAIN toCli[c] /\ toCli[c][1] \in Answers \cup Pushes
         /\ toCli' \in [Clients -> Seq(Answers \cup Pushes)]
         /\ \A d \in Clients : d # c => toCli'[d] = toCli[d]
         /\ \A i \in DOMAIN toCli'[c] : i >= 1 /\ i \in Nat /\ i + 1 \in DOMAIN toCli[c] /\ toCli'[c][i] = toCli[c][i + 1]
  <1>1. toCli[c] \in Seq(Answers \cup Pushes) /\ toCli \in [Clients -> Seq(Answers \cup Pushes)]
    BY DEF TopicInv, MessagesOk
  <1>2. Len(toCli[c]) \in Nat /\ Len(toCli[c]) >= 1 /\ DOMAIN toCli[c] = 1 .. Len(toCli[c])
    BY <1>1, EmptySeq
  <1>3. Head(toCli[c]) = toCli[c][1] /\ 1 \in DOMAIN toCli[c] /\ toCli[c][1] \in Answers \cup Pushes
    BY <1>1, <1>2
  <1>4. /\ Tail(toCli[c]) \in Seq(Answers \cup Pushes) /\ Len(Tail(toCli[c])) = Len(toCli[c]) - 1
        /\ \A i \in 1 .. Len(Tail(toCli[c])) : Tail(toCli[c])[i] = toCli[c][i + 1]
    BY <1>1, HeadTailProperties
  <1>5. /\ toCli' \in [Clients -> Seq(Answers \cup Pushes)] /\ toCli'[c] = Tail(toCli[c])
        /\ \A d \in Clients : d # c => toCli'[d] = toCli[d]
    BY <1>1, <1>4
  <1>6. DOMAIN toCli'[c] = 1 .. Len(toCli[c]) - 1 /\ \A i \in 1 .. Len(toCli[c]) - 1 : toCli'[c][i] = toCli[c][i + 1]
    BY <1>4, <1>5
  <1>7. \A i \in 1 .. Len(toCli[c]) - 1 : i >= 1 /\ i \in Nat /\ i + 1 \in 1 .. Len(toCli[c])
    BY <1>2
  <1> QED
    BY <1>2, <1>3, <1>5, <1>6, <1>7

\* A push, or an answer that nobody waits for, is taken from the queue.
LEMMA DiscardStep ==
  ASSUME TopicInv, NEW c \in Clients, toCli[c] # <<>>, ~toCli[c][1].live,
         toCli' = [toCli EXCEPT ![c] = Tail(toCli[c])],
         UNCHANGED <<srvVars, toSrv, call, cbs, state, histVars>>
  PROVE  TopicInv'
  <1>1. /\ toCli' \in [Clients -> Seq(Answers \cup Pushes)]
        /\ \A d \in Clients : d # c => toCli'[d] = toCli[d]
        /\ \A i \in DOMAIN toCli'[c] : i \in Nat /\ i + 1 \in DOMAIN toCli[c] /\ toCli'[c][i] = toCli[c][i + 1]
    BY ReceivedIs
  <1>2. /\ toSrv' = toSrv /\ call' = call /\ cbs' = cbs /\ state' = state /\ topics' = topics /\ removed' = removed
        /\ gaveUp' = gaveUp /\ trusts' = trusts /\ cancelled' = cancelled
    BY DEF srvVars, histVars
  <1>3. MessagesOk'
    BY <1>1, <1>2 DEF TopicInv, MessagesOk
  <1>4. Flow(c)'
    <2>1. Flow(c)
      BY DEF TopicInv
    <2>2. \A i \in DOMAIN toCli'[c] : toCli'[c][i].live =>
            /\ call[c].at = "sent" /\ toSrv[c] = <<>>
            /\ \A k \in DOMAIN toCli'[c] : toCli'[c][k].live => k = i
      <3> SUFFICES ASSUME NEW i \in DOMAIN toCli'[c], toCli'[c][i].live
                   PROVE  /\ call[c].at = "sent" /\ toSrv[c] = <<>>
                          /\ \A k \in DOMAIN toCli'[c] : toCli'[c][k].live => k = i
        OBVIOUS
      <3>1. i + 1 \in DOMAIN toCli[c] /\ toCli[c][i + 1].live /\ i \in Nat
        BY <1>1
      <3>2. /\ call[c].at = "sent" /\ toSrv[c] = <<>>
            /\ \A k \in DOMAIN toCli[c] : toCli[c][k].live => k = i + 1
        BY <2>1, <3>1 DEF Flow
      <3>3. ASSUME NEW k \in DOMAIN toCli'[c], toCli'[c][k].live PROVE k = i
        <4>1. k + 1 = i + 1 /\ k \in Nat
          BY <1>1, <3>2, <3>3
        <4> QED
          BY <3>1, <4>1
      <3> QED
        BY <3>2, <3>3
    <2> QED
      BY <1>2, <2>1, <2>2 DEF Flow
  <1>5. ASSUME NEW u \in Names PROVE Agreed(c, u)' /\ Quiet(c, u)'
    <2>1. Agreed(c, u) /\ Quiet(c, u)
      BY DEF TopicInv
    <2>2. \A x : Asks(c, x, u)' = Asks(c, x, u)
      BY <1>2 DEF Asks
    <2>3. \A x, k : AnswerIs(c, x, u, k)' => AnswerIs(c, x, u, k)
      BY <1>1, <1>2 DEF AnswerIs
    <2>4. Subs(u)' = Subs(u)
      BY <1>2 DEF Subs
    <2>5. Agreed(c, u)'
      BY <1>2, <2>1, <2>2, <2>3, <2>4 DEF Agreed
    <2>6. ASSUME NEW i \in DOMAIN toCli'[c], NEW k \in DOMAIN toCli'[c], i < k PROVE i + 1 < k + 1
      BY <1>1, <2>6
    <2>7. Quiet(c, u)'
      BY <1>1, <1>2, <2>1, <2>6 DEF Quiet
    <2> QED
      BY <2>5, <2>7
  <1> QED
    BY <1>1, <1>2, <1>3, <1>4, <1>5, ClientActs

LEMMA PushReceivedStep ==
  ASSUME TopicInv, NEW c \in Clients, onTopicPublish(c)
  PROVE  TopicInv'
  <1>1. /\ toCli[c] # <<>> /\ Head(toCli[c]).type = "PUSH" /\ toCli' = [toCli EXCEPT ![c] = Tail(toCli[c])]
        /\ UNCHANGED <<srvVars, toSrv, call, cbs, state, histVars>>
    BY DEF onTopicPublish
  <1>2. Head(toCli[c]) = toCli[c][1] /\ toCli[c][1] \in Answers \cup Pushes
    BY <1>1, ReceivedIs
  <1>3. ~toCli[c][1].live
    BY <1>1, <1>2 DEF Answers, Pushes
  <1> QED
    BY <1>1, <1>3, DiscardStep

LEMMA ResponseStep ==
  ASSUME TopicInv, NEW c \in Clients, onResponse(c)
  PROVE  TopicInv'
  <1>1. PICK m, op, t : m = toCli[c][1] /\ op = call[c].op /\ t = call[c].t
    OBVIOUS
  <1>2. toCli[c] # <<>> /\ toCli' = [toCli EXCEPT ![c] = Tail(toCli[c])]
    BY DEF onResponse
  <1>3. /\ Head(toCli[c]) = m /\ 1 \in DOMAIN toCli[c] /\ m \in Answers \cup Pushes
        /\ toCli' \in [Clients -> Seq(Answers \cup Pushes)]
        /\ \A d \in Clients : d # c => toCli'[d] = toCli[d]
        /\ \A i \in DOMAIN toCli'[c] : i >= 1 /\ i \in Nat /\ i + 1 \in DOMAIN toCli[c] /\ toCli'[c][i] = toCli[c][i + 1]
    BY <1>1, <1>2, ReceivedIs
  <1>4. /\ m.type = "RSP" /\ UNCHANGED <<srvVars, toSrv, cbs, state, histVars>>
        /\ call' = IF call[c].at = "sent" /\ m.live
                   THEN [call EXCEPT ![c] = [at |-> "answered", op |-> op, t |-> t, ok |-> m.ok]]
                   ELSE call
    BY <1>1, <1>3 DEF onResponse
  <1>5. Flow(c)
    BY DEF TopicInv
  <1>6. CASE ~m.live
    BY <1>1, <1>2, <1>4, <1>6, DiscardStep
  <1>7. CASE m.live
    <2>1. call[c].at = "sent" /\ toSrv[c] = <<>> /\ \A k \in DOMAIN toCli[c] : toCli[c][k].live => k = 1
      BY <1>1, <1>3, <1>5, <1>7 DEF Flow
    <2>2. m.ok \in BOOLEAN
      BY <1>3, <1>4 DEF Answers, Pushes
    <2>3. op \in Ops /\ t \in Names
      <3>1. call[c] \in CallsOf /\ call[c] # Idle
        BY <2>1 DEF TopicInv, MessagesOk, Idle
      <3> QED
        BY <1>1, <3>1 DEF CallsOf
    <2>4. PICK j : j = [at |-> "answered", op |-> op, t |-> t, ok |-> m.ok]
      OBVIOUS
    <2>5. j \in CallsOf /\ j.at = "answered" /\ j.op = op /\ j.t = t /\ j.ok = m.ok
      BY <2>2, <2>3, <2>4 DEF CallsOf
    <2>6. call' = [call EXCEPT ![c] = j]
      BY <1>4, <1>7, <2>1, <2>4
    <2>7. /\ call' \in [Clients -> CallsOf] /\ call'[c] = j
          /\ \A d \in Clients : d # c => call'[d] = call[d]
      BY <2>5, <2>6 DEF TopicInv, MessagesOk
    <2>8. /\ toSrv' = toSrv /\ cbs' = cbs /\ state' = state /\ topics' = topics /\ removed' = removed
          /\ gaveUp' = gaveUp /\ trusts' = trusts /\ cancelled' = cancelled
      BY <1>4 DEF srvVars, histVars
    <2>9. MessagesOk'
      BY <1>3, <2>7, <2>8 DEF TopicInv, MessagesOk
    <2>10. \A i \in DOMAIN toCli'[c] : ~toCli'[c][i].live
      <3> SUFFICES ASSUME NEW i \in DOMAIN toCli'[c], toCli'[c][i].live PROVE FALSE
        OBVIOUS
      <3>1. i + 1 = 1 /\ i >= 1 /\ i \in Nat
        BY <1>3, <2>1
      <3> QED
        BY <3>1
    <2>11. Flow(c)'
      BY <2>1, <2>5, <2>7, <2>8, <2>10 DEF Flow
    <2>12. ASSUME NEW u \in Names PROVE Agreed(c, u)' /\ Quiet(c, u)'
      <3>1. Agreed(c, u) /\ Quiet(c, u)
        BY DEF TopicInv
      <3>2. \A x : Asks(c, x, u)' = Asks(c, x, u)
        BY <2>8 DEF Asks
      <3>3. \A x, k : AnswerIs(c, x, u, k)' => AnswerIs(c, x, u, k)
        BY <1>1, <1>3, <1>7, <2>1, <2>5, <2>7 DEF AnswerIs
      <3>4. Subs(u)' = Subs(u)
        BY <2>8 DEF Subs
      <3>5. Agreed(c, u)'
        BY <2>8, <3>1, <3>2, <3>3, <3>4 DEF Agreed
      <3>6. \A i \in DOMAIN toCli'[c] : 1 < i + 1
        BY <1>3
      <3>7. Quiet(c, u)'
        BY <1>1, <1>3, <1>7, <2>1, <2>5, <2>7, <2>8, <3>1, <3>6 DEF Quiet
      <3> QED
        BY <3>5, <3>7
    <2> QED
      BY <1>3, <1>4, <2>7, <2>8, <2>9, <2>11, <2>12, ClientActs
  <1> QED
    BY <1>6, <1>7

\* A client that is not connected expects nothing.
LEMMA DisconnectedStep ==
  ASSUME TopicInv, NEW c \in Clients, NEW s \in {"lost", "dead"}, state' = [state EXCEPT ![c] = s],
         toCli' = toCli \/ toCli' = [toCli EXCEPT ![c] = <<>>],
         UNCHANGED <<srvVars, toSrv, call, cbs, histVars>>
  PROVE  TopicInv'
  <1>1. /\ state' \in [Clients -> {"connected", "lost", "dead"}] /\ state'[c] # "connected"
        /\ \A d \in Clients : d # c => state'[d] = state[d]
    BY DEF TopicInv, MessagesOk
  <1>2. /\ toCli' \in [Clients -> Seq(Answers \cup Pushes)]
        /\ toCli'[c] = toCli[c] \/ toCli'[c] = <<>>
        /\ \A d \in Clients : d # c => toCli'[d] = toCli[d]
    <2>1. toCli \in [Clients -> Seq(Answers \cup Pushes)] /\ <<>> \in Seq(Answers \cup Pushes)
      BY DEF TopicInv, MessagesOk
    <2>2. CASE toCli' = toCli
      BY <2>1, <2>2
    <2>3. CASE toCli' = [toCli EXCEPT ![c] = <<>>]
      BY <2>1, <2>3
    <2> QED
      BY <2>2, <2>3
  <1>3. /\ toSrv' = toSrv /\ call' = call /\ cbs' = cbs /\ topics' = topics /\ removed' = removed
        /\ gaveUp' = gaveUp /\ trusts' = trusts /\ cancelled' = cancelled
    BY DEF srvVars, histVars
  <1>4. MessagesOk'
    BY <1>1, <1>2, <1>3 DEF TopicInv, MessagesOk
  <1>5. Flow(c) /\ \A u \in Names : Agreed(c, u) /\ Quiet(c, u)
    BY DEF TopicInv
  <1>6. Flow(c)'
    BY <1>2, <1>3, <1>5 DEF Flow
  <1>7. ASSUME NEW u \in Names PROVE Agreed(c, u)' /\ Quiet(c, u)'
    <2>1. \A x : Asks(c, x, u)' = Asks(c, x, u)
      BY <1>3 DEF Asks
    <2>2. \A x, k : AnswerIs(c, x, u, k)' => AnswerIs(c, x, u, k)
      BY <1>2, <1>3 DEF AnswerIs
    <2>3. Subs(u)' = Subs(u)
      BY <1>3 DEF Subs
    <2>4. Agreed(c, u)'
      BY <1>1, <1>3, <1>5, <2>1, <2>2, <2>3 DEF Agreed
    <2>5. Quiet(c, u)'
      BY <1>2, <1>3, <1>5 DEF Quiet
    <2> QED
      BY <2>4, <2>5
  <1> QED
    BY <1>1, <1>2, <1>3, <1>4, <1>6, <1>7, ClientActs

---------------------------------------------------------------------------
(* The theorems.                                                           *)

LEMMA InitTopicInv == Init => TopicInv
  <1> SUFFICES ASSUME Init PROVE TopicInv
    OBVIOUS
  <1>1. /\ topics = <<>> /\ subscribers = <<>> /\ pri = 0 /\ up = TRUE /\ open = Clients
        /\ toSrv = [c \in Clients |-> <<>>] /\ toCli = [c \in Clients |-> <<>>]
        /\ call = [c \in Clients |-> Idle] /\ cbs = {} /\ state = [c \in Clients |-> "connected"]
        /\ gaveUp = {} /\ removed = {} /\ trusts = {} /\ cancelled = {}
    BY DEF Init
  <1>2. MessagesOk
    BY <1>1 DEF MessagesOk, CallsOf
  <1>3. DOMAIN topics = {} /\ DOMAIN subscribers = {}
    BY <1>1
  <1>4. TablesOk
    BY <1>1, <1>3, LimitIs DEF TablesOk, TablesAgree
  <1>5. \A c \in Clients : toSrv[c] = <<>> /\ toCli[c] = <<>> /\ call[c].at = "idle"
    BY <1>1 DEF Idle
  <1>6. ASSUME NEW c \in Clients PROVE Flow(c)
    BY <1>5 DEF Flow
  <1>7. ASSUME NEW c \in Clients, NEW t \in Names PROVE Agreed(c, t) /\ Quiet(c, t)
    BY <1>1, <1>3, <1>5 DEF Agreed, Quiet, Asks, AnswerIs, Subs
  <1> QED
    BY <1>2, <1>4, <1>6, <1>7 DEF TopicInv

LEMMA NextTopicInv == TopicInv /\ [Next]_vars => TopicInv'
  <1> SUFFICES ASSUME TopicInv, [Next]_vars PROVE TopicInv'
    OBVIOUS
  <1>1. CASE UNCHANGED vars
    <2>1. UNCHANGED <<topics, subscribers, pri, up, open, removed, toSrv, toCli, call, cbs, state, gaveUp, trusts, cancelled>>
      BY <1>1 DEF vars
    <2>2. MessagesOk' /\ TablesOk'
      BY <2>1 DEF TopicInv, MessagesOk, TablesOk, TablesAgree, TopicRecords, Limit
    <2>3. ASSUME NEW d \in Clients PROVE Flow(d)' /\ \A t \in Names : Agreed(d, t)' /\ Quiet(d, t)'
      BY <2>1, Untouched
    <2> QED
      BY <2>2, <2>3 DEF TopicInv
  <1>2. CASE Next
    <2>1. PICK c \in Clients :
            \/ ClientCalls(c) \/ CallUnconnected(c) \/ Answered(c) \/ TimesOut(c)
            \/ onResponse(c) \/ onTopicPublish(c) \/ ConnectionLost(c)
            \/ ontopicRequest(c) \/ onconnShoutdown(c)
      BY <1>2 DEF Next
    <2>2. CASE ClientCalls(c)
      BY <2>2, CallSteps
    <2>3. CASE CallUnconnected(c)
      <3>1. state' = [state EXCEPT ![c] = "dead"] /\ toCli' = toCli /\ UNCHANGED <<srvVars, toSrv, call, cbs, histVars>>
        BY <2>3 DEF CallUnconnected
      <3> QED
        BY <3>1, DisconnectedStep
    <2>4. CASE Answered(c)
      BY <2>4, AnsweredStep
    <2>5. CASE TimesOut(c)
      BY <2>5, TimesOutStep
    <2>6. CASE onResponse(c)
      BY <2>6, ResponseStep
    <2>7. CASE onTopicPublish(c)
      BY <2>7, PushReceivedStep
    <2>8. CASE ConnectionLost(c)
      <3>1. /\ state' = [state EXCEPT ![c] = "lost"] /\ toCli' = [toCli EXCEPT ![c] = <<>>]
            /\ UNCHANGED <<srvVars, toSrv, call, cbs, histVars>>
        BY <2>8 DEF ConnectionLost
      <3> QED
        BY <3>1, DisconnectedStep
    <2>9. CASE ontopicRequest(c)
      BY <2>9, CreateStep, RemoveStep, SubscribeStep, NotFoundStep, CancelStep, PublishStep DEF ontopicRequest
    <2>10. CASE onconnShoutdown(c)
      BY <2>10, ClosedStep
    <2> QED
      BY <2>1, <2>2, <2>3, <2>4, <2>5, <2>6, <2>7, <2>8, <2>9, <2>10
  <1> QED
    BY <1>1, <1>2

\* The server's two tables agree, the cursors stay in their range, and behind a
\* cancelTopic that returned true no push of the topic is on its way, whatever
\* else is called, times out or breaks (topicSubscribe, topicancelSubscribe,
\* topicRemove, onconnShoutdown).
THEOREM TopicsAreSafe == Spec => []TopicsSafe
  <1>1. ASSUME TopicInv PROVE TopicsSafe
    <2>1. MessagesOk /\ TablesOk
      BY <1>1 DEF TopicInv
    <2>2. TypeOK
      <3>1. /\ DOMAIN topics \subseteq Names
            /\ \A t \in DOMAIN topics :
                 /\ IsInjective(topics[t].subs) /\ Range(topics[t].subs) \subseteq Clients
                 /\ topics[t].rr < Limit
        BY <1>1, TablesAre
      <3>2. \A c \in DOMAIN subscribers : subscribers[c].topics \subseteq Names /\ subscribers[c].attr \in Attrs
        <4>1. \A x \in [topics : SUBSET Names, attr : Attrs] : x.topics \subseteq Names /\ x.attr \in Attrs
          OBVIOUS
        <4> QED
          BY <1>1, <4>1, TablesAre
      <3>3. \A c \in Clients : call[c].at \in {"idle", "sent", "answered"}
        BY <2>1 DEF MessagesOk, CallsOf, Idle
      <3>4. UNION {gaveUp, removed, trusts, cancelled} \subseteq Pairs
        BY <2>1 DEF MessagesOk
      <3> QED
        BY <2>1, <3>1, <3>2, <3>3, <3>4 DEF TypeOK, MessagesOk, TablesOk, Limit
    <2>3. SilentAfterCancel
      <3> SUFFICES ASSUME NEW s \in cancelled, NEW i \in DOMAIN toCli[s[1]], toCli[s[1]][i].type = "PUSH"
                   PROVE  toCli[s[1]][i].t # s[2]
        BY DEF SilentAfterCancel
      <3>1. s \in Clients \X Names
        BY <2>1 DEF MessagesOk, Pairs
      <3>2. PICK c \in Clients, t \in Names : s = <<c, t>>
        BY <3>1
      <3>3. Quiet(c, t)
        BY <1>1 DEF TopicInv
      <3> QED
        BY <3>2, <3>3 DEF Quiet
    <2> QED
      BY <2>1, <2>2, <2>3 DEF TopicsSafe, TablesOk
  <1> QED
    BY <1>1, InitTopicInv, NextTopicInv, PTL DEF Spec

\* Whoever the server pushes a topic to has a callback for it, except behind a
\* subscribeTopic that timed out (subscribeTopic stores the callback before it
\* sends, and takes it back when the call fails).
THEOREM PushesAreHeard == Spec => []HeardUnlessGivenUp
  <1>1. ASSUME TopicInv PROVE HeardUnlessGivenUp
    <2> SUFFICES ASSUME NEW t \in DOMAIN topics, NEW c \in Range(topics[t].subs)
                 PROVE  <<c, t>> \in cbs \cup gaveUp
      BY DEF HeardUnlessGivenUp
    <2>1. t \in Names /\ c \in Subs(t) /\ c \in Clients
      BY <1>1, TablesAre
    <2>2. Agreed(c, t)
      BY <1>1, <2>1 DEF TopicInv
    <2> QED
      BY <2>1, <2>2 DEF Agreed
  <1> QED
    BY <1>1, InitTopicInv, NextTopicInv, PTL DEF Spec

\* A subscription that returned true and was not cancelled is in the server's
\* table while the client is connected, unless the topic was removed: a late
\* answer, a repeated call or a call of another client never ends it.
THEOREM SubscriptionsLast == Spec => []SubscribedUnlessRemoved
  <1>1. ASSUME TopicInv PROVE SubscribedUnlessRemoved
    <2> SUFFICES ASSUME NEW s \in trusts, state[s[1]] = "connected"
                 PROVE  s \in removed \/ (s[2] \in DOMAIN topics /\ s[1] \in Range(topics[s[2]].subs))
      BY DEF SubscribedUnlessRemoved
    <2>1. s \in Clients \X Names
      BY <1>1 DEF TopicInv, MessagesOk, Pairs
    <2>2. PICK c \in Clients, t \in Names : s = <<c, t>>
      BY <2>1
    <2>3. Agreed(c, t)
      BY <1>1 DEF TopicInv
    <2>4. s \in removed \/ c \in Subs(t)
      BY <2>2, <2>3 DEF Agreed
    <2> QED
      BY <2>2, <2>4 DEF Subs
  <1> QED
    BY <1>1, InitTopicInv, NextTopicInv, PTL DEF Spec

---------------------------------------------------------------------------
(* The strategies, for a list of any length.                               *)

LEMMA LeastIs ==
  ASSUME NEW S \in SUBSET Nat, S # {}
  PROVE  \E x \in S : \A y \in S : x <= y
  <1>1. PICK x \in S : \A y \in S : ~(<<y, x>> \in OpToRel(<, Nat))
    BY WFMin, NatLessThanWellFounded
  <1>2. ASSUME NEW y \in S PROVE x <= y
    <2>1. x \in Nat /\ y \in Nat
      OBVIOUS
    <2>2. y < x => <<y, x>> \in OpToRel(<, Nat)
      BY <2>1 DEF OpToRel
    <2>3. ~(y < x)
      BY <1>1, <2>2
    <2> QED
      BY <2>1, <2>3
  <1> QED
    BY <1>2

\* A number below n is its own remainder, and n leaves none.
LEMMA RemainderIs ==
  ASSUME NEW n \in Nat \ {0}
  PROVE  n % n = 0 /\ \A r \in 0 .. n - 1 : r % n = r
  <1>1. ASSUME NEW x \in 0 .. n PROVE x % n = IF x = n THEN 0 ELSE x
    <2> DEFINE p == x \div n
               m == x % n
    <2>1. p \in Int /\ m \in 0 .. n - 1 /\ x = n * p + m
      OBVIOUS
    <2> HIDE DEF p, m
    <2>2. ~(p >= 2)
      <3> SUFFICES ASSUME p >= 2 PROVE FALSE
        OBVIOUS
      <3>1. n * p >= n * 2
        BY <2>1
      <3> QED
        BY <2>1, <3>1
    <2>3. ~(p <= -1)
      <3> SUFFICES ASSUME p <= -1 PROVE FALSE
        OBVIOUS
      <3>1. n * p <= -n
        BY <2>1
      <3> QED
        BY <2>1, <3>1
    <2>4. p = 0 \/ p = 1
      BY <2>1, <2>2, <2>3
    <2>5. m = IF x = n THEN 0 ELSE x
      BY <2>1, <2>4
    <2> QED
      BY <2>5 DEF m
  <1>2. n \in 0 .. n
    OBVIOUS
  <1>3. ASSUME NEW r \in 0 .. n - 1 PROVE r % n = r
    <2>1. r \in 0 .. n /\ r # n
      OBVIOUS
    <2> QED
      BY <1>1, <2>1
  <1> QED
    BY <1>1, <1>2, <1>3

\* Among finitely many positions one has the highest value.
LEMMA HighestIs ==
  ASSUME NEW m, IsFiniteSet(m), m # {}, NEW v, \A i \in m : v[i] \in Int
  PROVE  \E i \in m : \A k \in m : v[k] <= v[i]
  <1> DEFINE Below(i) == {k \in m : v[k] <= v[i]}
             R(i) == Cardinality(m) - Cardinality(Below(i))
             S == {R(i) : i \in m}
  <1>1. \A i \in m : Below(i) \subseteq m
    OBVIOUS
  <1>2. ASSUME NEW i \in m, NEW k \in m, ~(v[k] <= v[i])
        PROVE  Below(i) \subseteq Below(k) /\ k \in Below(k) /\ k \notin Below(i)
    BY <1>2
  <1> HIDE DEF Below
  <1>3. \A i \in m : IsFiniteSet(Below(i)) /\ Cardinality(Below(i)) \in Nat /\ Cardinality(Below(i)) <= Cardinality(m)
    BY <1>1, FS_Subset, FS_CardinalityType
  <1>4. Cardinality(m) \in Nat
    BY FS_CardinalityType
  <1>5. S \in SUBSET Nat /\ S # {}
    BY <1>3, <1>4
  <1>6. PICK x \in S : \A y \in S : x <= y
    <2> HIDE DEF S
    <2> QED
      BY <1>5, LeastIs
  <1>7. PICK i \in m : x = R(i)
    OBVIOUS
  <1>8. ASSUME NEW k \in m PROVE v[k] <= v[i]
    <2> SUFFICES ASSUME ~(v[k] <= v[i]) PROVE FALSE
      OBVIOUS
    <2>1. Below(i) \subseteq Below(k) /\ k \in Below(k) /\ k \notin Below(i)
      BY <1>2
    <2>2. R(i) <= R(k)
      BY <1>6, <1>7
    <2>3. /\ Cardinality(Below(i)) <= Cardinality(Below(k))
          /\ Cardinality(Below(k)) = Cardinality(Below(i)) => Below(k) = Below(i)
      BY <1>3, <2>1, FS_Subset
    <2>4. Cardinality(Below(k)) # Cardinality(Below(i))
      BY <2>1, <2>3
    <2> QED
      BY <1>3, <1>4, <2>2, <2>3, <2>4
  <1> QED
    BY <1>8

LEMMA PositionsFinite ==
  ASSUME NEW n \in Nat, NEW m \in SUBSET (1 .. n)
  PROVE  IsFiniteSet(m) /\ Cardinality(m) \in Nat /\ (m # {} => Cardinality(m) > 0) /\ (m = {} => Cardinality(m) = 0)
  <1>1. IsFiniteSet(1 .. n)
    BY FS_Interval
  <1>2. IsFiniteSet(m) /\ Cardinality(m) \in Nat
    BY <1>1, FS_Subset, FS_CardinalityType
  <1>3. Cardinality(m) = 0 <=> m = {}
    BY <1>2, FS_EmptySet
  <1>4. PICK x \in Nat : x = Cardinality(m)
    BY <1>2
  <1>5. x # 0 => x > 0
    OBVIOUS
  <1> QED
    BY <1>2, <1>3, <1>4, <1>5

\* An outcome that sends to k different subscribers, to nobody twice.
Reached(o, subs, k) ==
  /\ Range(o.to) \subseteq Range(subs) /\ Cardinality(Range(o.to)) = k
  /\ IsInjective(o.to) /\ o.dies = FALSE

LEMMA OneReached ==
  ASSUME NEW subs, NEW c \in Range(subs), NEW o, o.to = <<c>>, o.dies = FALSE
  PROVE  Reached(o, subs, 1)
  <1>1. Range(<<c>>) = {c} /\ IsInjective(<<c>>)
    BY DEF Range, IsInjective
  <1>2. Cardinality({c}) = 1
    BY FS_Singleton
  <1> QED
    BY <1>1, <1>2 DEF Reached

LEMMA NoneReached ==
  ASSUME NEW subs, NEW o, o.to = <<>>, o.dies = FALSE
  PROVE  Reached(o, subs, 0)
  <1>1. Range(<<>>) = {} /\ IsInjective(<<>>)
    BY DEF Range, IsInjective
  <1>2. Cardinality({}) = 0
    BY FS_EmptySet
  <1> QED
    BY <1>1, <1>2 DEF Reached

LEMMA AllReached ==
  ASSUME NEW S, NEW subs \in Seq(S), IsInjective(subs), NEW o, o.to = subs, o.dies = FALSE
  PROVE  Reached(o, subs, Len(subs))
  BY RangeCard DEF Reached

LEMMA PartReached ==
  ASSUME NEW S, NEW subs \in Seq(S), IsInjective(subs), NEW s \in Shuffled(subs), NEW k \in 1 .. Len(subs),
         NEW o, o.to = SubSeq(s, 1, k), o.dies = FALSE
  PROVE  Reached(o, subs, k)
  <1> DEFINE R == Range(subs)
  <1>1. IsFiniteSet(R) /\ Cardinality(R) = Len(subs)
    BY RangeCard
  <1>2. s \in SetToSeqs(R)
    BY DEF Shuffled
  <1> HIDE DEF R
  <1>3. s \in Seq(R) /\ IsInjective(s) /\ Len(s) = Len(subs)
    BY <1>1, <1>2, OrderIs
  <1>4. PICK t : t = SubSeq(s, 1, k)
    OBVIOUS
  <1>5. t \in Seq(R) /\ Len(t) = k /\ \A i \in 1 .. k : t[i] = s[i]
    BY <1>3, <1>4
  <1>6. IsInjective(t)
    <2>1. DOMAIN t = 1 .. k /\ \A i \in 1 .. k : i \in DOMAIN s
      BY <1>3, <1>5
    <2> QED
      BY <1>3, <1>5, <2>1 DEF IsInjective
  <1>7. Range(t) \subseteq R /\ Cardinality(Range(t)) = k
    BY <1>5, <1>6, RangeCard, RangeIn
  <1> QED
    BY <1>4, <1>6, <1>7 DEF Reached, R

\* A publication reaches as many different subscribers as its strategy means it
\* to, and nobody twice, but for a FANOUT whose limit is not below the number of
\* subscribers: for every list of subscribers, both cursors and every parameter
\* (dispatchMessage).
THEOREM PublicationsReachMeant ==
  ASSUME NEW S, NEW subs \in Seq(S), IsInjective(subs), NEW rr \in Nat, NEW pr \in Nat, NEW attr, NEW p,
         p.limit \in Int, p.count \in Int, p.key \in Nat \cup {NoKey}
  PROVE  ReachesMeant(subs, rr, pr, attr, p)
  <1> DEFINE n == Len(subs)
             cand == Candidates(subs, attr, p)
             much == Meant(n, Cardinality(cand), p)
  <1> SUFFICES ASSUME NEW o \in dispatchMessage(subs, rr, pr, attr, p)
               PROVE  /\ Range(o.to) \subseteq Range(subs) /\ Cardinality(Range(o.to)) = much
                      /\ ~IsInjective(o.to) \/ o.dies => p.strategy = "FANOUT" /\ p.limit >= n
    BY DEF ReachesMeant
  <1>1. n \in Nat /\ DOMAIN subs = 1 .. n
    OBVIOUS
  <1>2. ASSUME Reached(o, subs, much)
        PROVE  /\ Range(o.to) \subseteq Range(subs) /\ Cardinality(Range(o.to)) = much
               /\ ~IsInjective(o.to) \/ o.dies => p.strategy = "FANOUT" /\ p.limit >= n
    BY <1>2 DEF Reached
  <1>3. CASE subs = <<>>
    <2>1. o.to = <<>> /\ o.dies = FALSE
      BY <1>3 DEF dispatchMessage, Outcome
    <2>2. much = 0
      BY <1>3 DEF Meant
    <2> QED
      BY <1>2, <2>1, <2>2, NoneReached
  <1>4. subs # <<>> => n # 0
    OBVIOUS
  <1>5. ASSUME subs # <<>>, NEW i \in 1 .. n, o.to = <<subs[i]>>, o.dies = FALSE, much = 1
        PROVE  Reached(o, subs, much)
    <2>1. PICK c \in Range(subs) : c = subs[i]
      BY <1>1 DEF Range
    <2> QED
      BY <1>5, <2>1, OneReached
  <1>6. ASSUME o.to = subs, o.dies = FALSE, much = n
        PROVE  Reached(o, subs, much)
    BY <1>6, AllReached
  <1>7. CASE subs # <<>> /\ p.strategy = "ROUND_ROBIN"
    <2>1. o.to = <<subs[(rr % n) + 1]>> /\ o.dies = FALSE
      BY <1>7 DEF dispatchMessage, roundRobinSend, Outcome
    <2>2. much = 1
      BY <1>4, <1>7 DEF Meant
    <2>3. (rr % n) + 1 \in 1 .. n
      BY <1>1, <1>4, <1>7
    <2> QED
      BY <1>2, <1>5, <1>7, <2>1, <2>2, <2>3
  <1>8. CASE subs # <<>> /\ p.strategy = "SOURCE_HASH"
    <2>1. o.to = (IF p.key = NoKey THEN <<>> ELSE <<subs[(p.key % n) + 1]>>) /\ o.dies = FALSE
      BY <1>8 DEF dispatchMessage, sourceHashSend, Outcome
    <2>2. much = IF p.key = NoKey THEN 0 ELSE 1
      BY <1>4, <1>8 DEF Meant
    <2>3. CASE p.key = NoKey
      BY <1>2, <2>1, <2>2, <2>3, NoneReached
    <2>4. CASE p.key # NoKey
      <3>1. (p.key % n) + 1 \in 1 .. n
        BY <1>1, <1>4, <1>8, <2>4
      <3> QED
        BY <1>2, <1>5, <1>8, <2>1, <2>2, <2>4, <3>1
    <2> QED
      BY <2>3, <2>4
  <1>9. CASE subs # <<>> /\ p.strategy = "PRIORITY"
    <2>1. cand \in SUBSET (1 .. n)
      BY <1>1 DEF Candidates, matchtags
    <2>2. (cand # {} => Cardinality(cand) > 0) /\ (cand = {} => ~(Cardinality(cand) > 0))
      <3> HIDE DEF cand
      <3>1. PICK x : x = Cardinality(cand)
        OBVIOUS
      <3>2. (cand # {} => x > 0) /\ (cand = {} => x = 0)
        BY <1>1, <2>1, <3>1, PositionsFinite
      <3> QED
        BY <3>1, <3>2
    <2>3. CASE cand = {}
      <3>1. o.to = subs /\ o.dies = FALSE
        BY <1>9, <2>3 DEF dispatchMessage, prioritySend, broadcastSend, Outcome
      <3>2. much = n
        BY <1>4, <1>9, <2>2, <2>3 DEF Meant
      <3> QED
        BY <1>2, <1>6, <3>1, <3>2
    <2>4. CASE cand # {}
      <3>1. PICK i \in cand : o = Outcome(<<subs[i]>>, rr, (pr + 1) % Cardinality(cand))
        BY <1>9, <2>4 DEF dispatchMessage, prioritySend
      <3>2. o.to = <<subs[i]>> /\ o.dies = FALSE
        BY <3>1 DEF Outcome
      <3>3. much = 1
        BY <1>4, <1>9, <2>2, <2>4 DEF Meant
      <3> QED
        BY <1>2, <1>5, <1>9, <2>1, <3>2, <3>3
    <2> QED
      BY <2>3, <2>4
  <1>10. CASE subs # <<>> /\ p.strategy = "REDUNDANT"
    <2>1. CASE p.count <= 1
      <3>1. o.to = subs /\ o.dies = FALSE
        BY <1>10, <2>1 DEF dispatchMessage, redundantSend, broadcastSend, Outcome
      <3>2. much = n
        BY <1>4, <1>10, <2>1 DEF Meant
      <3> QED
        BY <1>2, <1>6, <3>1, <3>2
    <2>2. CASE ~(p.count <= 1)
      <3>1. PICK s \in Shuffled(subs) : o = Outcome(SubSeq(s, 1, Min({p.count, n})), rr, pr)
        BY <1>10, <2>2 DEF dispatchMessage, redundantSend
      <3>2. PICK k : k = Min({p.count, n})
        OBVIOUS
      <3>3. k \in 1 .. n
        <4>1. n \in Int /\ p.count > 1 /\ n > 0
          BY <1>1, <1>4, <1>10, <2>2
        <4> HIDE DEF n
        <4>2. k \in {p.count, n} /\ k <= n
          BY <3>2, <4>1, MinOfTwo
        <4> QED
          BY <4>1, <4>2
      <3>4. o.to = SubSeq(s, 1, k) /\ o.dies = FALSE
        BY <3>1, <3>2 DEF Outcome
      <3>5. much = k
        BY <1>4, <1>10, <2>2, <3>2 DEF Meant
      <3> QED
        BY <1>2, <3>3, <3>4, <3>5, PartReached
    <2> QED
      BY <2>1, <2>2
  <1>11. CASE subs # <<>> /\ p.strategy = "FANOUT"
    <2> DEFINE first == IF p.limit <= 0 \/ p.limit >= n THEN subs ELSE <<>>
    <2>1. PICK s \in Shuffled(subs), b \in BehindEnd(subs, Max({0, p.limit - n})) :
            o = [to |-> first \o SubSeq(s, 1, Min({p.limit, n})) \o b.to, rr |-> rr, pri |-> pr, dies |-> b.dies]
      <3>1. o \in fanoutSend(subs, rr, pr, p)
        BY <1>11 DEF dispatchMessage
      <3> QED
        BY <3>1, Zenon DEF fanoutSend
    <2>2. PICK k, e : k = Min({p.limit, n}) /\ e = Max({0, p.limit - n})
      OBVIOUS
    <2>3. PICK d \in Int : d = p.limit - n
      BY <1>1
    <2>4. k \in {p.limit, n} /\ k <= n /\ k <= p.limit /\ e \in {0, d} /\ e >= 0 /\ e >= d
      <3>1. n \in Int /\ 0 \in Int
        BY <1>1
      <3> HIDE DEF n
      <3>2. e = Max({0, d})
        BY <2>2, <2>3
      <3>3. k \in {p.limit, n} /\ k <= n /\ k <= p.limit
        BY <2>2, <3>1, MinOfTwo
      <3> QED
        BY <2>3, <3>1, <3>2, <3>3, MaxOfTwo
    <2>5. PICK x \in 0 .. e : \E q \in [1 .. x -> Range(subs)] : b = [to |-> q, dies |-> x < e]
      BY <2>2 DEF BehindEnd
    <2>6. e \in Nat /\ x \in Nat
      BY <2>3, <2>4, <2>5
    <2>7. b.to \in [1 .. x -> Range(subs)] /\ b.dies = (x < e)
      BY <2>5
    <2>8. PICK mid : mid = SubSeq(s, 1, k)
      OBVIOUS
    <2>9. o.to = first \o mid \o b.to /\ o.dies = b.dies
      BY <2>1, <2>2, <2>8
    <2>10. ASSUME p.limit < n
           PROVE  b.to = <<>> /\ b.dies = FALSE
      <3>1. e = 0
        BY <1>1, <2>3, <2>4, <2>10
      <3>2. x = 0
        BY <2>5, <3>1
      <3>3. b.to \in [1 .. 0 -> Range(subs)] /\ b.dies = (0 < 0)
        BY <2>7, <3>1, <3>2, Zenon
      <3>4. PICK z : z = b.to
        OBVIOUS
      <3>5. z \in Seq(Range(subs)) /\ Len(z) = 0
        BY <3>3, <3>4
      <3>6. z = <<>>
        BY <3>5
      <3>7. (0 < 0) = FALSE
        OBVIOUS
      <3> QED
        BY <3>3, <3>4, <3>6, <3>7, Zenon
    <2>11. s \in Seq(Range(subs)) /\ Len(s) = n
      <3>1. IsFiniteSet(Range(subs)) /\ Cardinality(Range(subs)) = n
        BY RangeCard
      <3> QED
        BY <3>1, OrderIs DEF Shuffled
    <2>12. mid \in Seq(Range(subs)) /\ b.to \in Seq(Range(subs)) /\ subs \in Seq(Range(subs))
      <3>1. k \in Int /\ k <= Len(s)
        BY <1>1, <2>4, <2>11
      <3>2. mid \in Seq(Range(subs))
        BY <2>8, <2>11, <3>1, PrefixIs
      <3> QED
        BY <2>6, <2>7, <3>2, RangeIn
    <2>13. CASE p.limit >= n
      <3>1. o.to = subs \o mid \o b.to
        BY <2>9, <2>13
      <3>2. Range(o.to) = Range(subs)
        <4>1. PICK R : R = Range(subs)
          OBVIOUS
        <4>2. subs \o mid \in Seq(R) /\ Len(subs \o mid) = n + Len(mid) /\ \A i \in 1 .. n : (subs \o mid)[i] = subs[i]
          BY <2>12, <4>1
        <4>3. PICK a : a = subs \o mid
          OBVIOUS
        <4>4. a \o b.to \in Seq(R) /\ Len(a \o b.to) = Len(a) + Len(b.to) /\ \A i \in 1 .. Len(a) : (a \o b.to)[i] = a[i]
          BY <2>12, <4>1, <4>2, <4>3
        <4>5. Len(mid) \in Nat /\ Len(b.to) \in Nat
          BY <2>12
        <4>6. o.to \in Seq(R) /\ Len(o.to) >= n /\ \A i \in 1 .. n : o.to[i] = subs[i]
          <5>1. PICK z : z = a \o b.to
            OBVIOUS
          <5>2. z \in Seq(R) /\ Len(z) = n + Len(mid) + Len(b.to) /\ Len(a) = n + Len(mid)
            BY <4>2, <4>3, <4>4, <5>1
          <5>3. \A i \in 1 .. n : i \in 1 .. Len(a)
            BY <1>1, <4>5, <5>2
          <5>4. \A i \in 1 .. n : z[i] = subs[i]
            BY <4>2, <4>3, <4>4, <5>1, <5>3, Zenon
          <5>5. Len(z) >= n
            <6>1. PICK u \in Nat, v \in Nat, w \in Nat : u = Len(mid) /\ v = Len(b.to) /\ w = n
              BY <1>1, <4>5
            <6>2. w + u + v >= w
              OBVIOUS
            <6> QED
              BY <5>2, <6>1, <6>2
          <5>6. o.to = z
            BY <3>1, <4>3, <5>1
          <5> QED
            BY <5>2, <5>4, <5>5, <5>6, Zenon
        <4>7. Range(o.to) \subseteq R
          BY <4>6, RangeIn
        <4>8. \A i \in 1 .. n : i \in DOMAIN o.to
          BY <1>1, <4>6
        <4>9. R \subseteq Range(o.to)
          BY <1>1, <4>1, <4>6, <4>8 DEF Range
        <4> QED
          BY <4>1, <4>7, <4>9
      <3>3. Cardinality(Range(subs)) = n
        BY RangeCard
      <3>4. much = n
        BY <1>1, <1>4, <1>11, <2>13 DEF Meant
      <3> QED
        BY <1>11, <2>13, <3>2, <3>3, <3>4
    <2>14. CASE p.limit <= 0 /\ p.limit < n
      <3>1. mid = <<>>
        BY <1>1, <2>4, <2>8, <2>11, <2>14
      <3>2. o.to = subs /\ o.dies = FALSE
        <4>1. b.to = <<>> /\ b.dies = FALSE /\ first = subs
          BY <2>10, <2>14
        <4>2. (subs \o <<>>) \o <<>> = subs
          OBVIOUS
        <4> QED
          BY <2>9, <3>1, <4>1, <4>2
      <3>3. much = n
        BY <1>1, <1>4, <1>11, <2>14 DEF Meant
      <3> QED
        BY <1>2, <1>6, <3>2, <3>3
    <2>15. CASE p.limit > 0 /\ p.limit < n
      <3>1. o.to = mid /\ o.dies = FALSE
        <4>0. ~(p.limit <= 0 \/ p.limit >= n)
          BY <1>1, <2>15
        <4>1. b.to = <<>> /\ b.dies = FALSE /\ first = <<>>
          BY <2>10, <2>15, <4>0
        <4>2. (<<>> \o mid) \o <<>> = mid
          BY <2>12
        <4> QED
          BY <2>9, <4>1, <4>2
      <3>2. k = p.limit /\ k \in 1 .. n
        BY <1>1, <2>4, <2>15
      <3>3. much = k
        BY <1>1, <1>4, <1>11, <2>15, <3>2 DEF Meant
      <3> QED
        BY <1>2, <2>8, <3>1, <3>2, <3>3, PartReached
    <2> QED
      BY <1>1, <2>13, <2>14, <2>15
  <1>12. CASE subs # <<>> /\ p.strategy \notin {"ROUND_ROBIN", "FANOUT", "SOURCE_HASH", "PRIORITY", "REDUNDANT"}
    <2>1. o.to = subs /\ o.dies = FALSE
      BY <1>12 DEF dispatchMessage, broadcastSend, Outcome
    <2>2. much = n
      BY <1>4, <1>12 DEF Meant
    <2> QED
      BY <1>2, <1>6, <2>1, <2>2
  <1> QED
    BY <1>3, <1>7, <1>8, <1>9, <1>10, <1>11, <1>12

\* A PRIORITY publication goes to a subscriber that carries its tags and that no
\* other one with these tags exceeds in priority, if there is any: for every list
\* of subscribers and every cursor (prioritySend).
THEOREM PriorityPrefers ==
  ASSUME NEW S, NEW subs \in Seq(S), NEW rr, NEW pr, NEW attr, \A c \in S : attr[c].prio \in Int, NEW p
  PROVE  TopPriority(subs, rr, pr, attr, p)
  <1> SUFFICES ASSUME p.strategy = "PRIORITY", NEW o \in dispatchMessage(subs, rr, pr, attr, p), NEW c \in Range(subs),
                      p.tags \subseteq attr[c].tags, NEW d \in Range(o.to)
               PROVE  p.tags \subseteq attr[d].tags /\ attr[c].prio <= attr[d].prio
    BY DEF TopPriority
  <1> DEFINE m == matchtags(subs, attr, p)
             cand == Candidates(subs, attr, p)
  <1>1. DOMAIN subs = 1 .. Len(subs) /\ Len(subs) \in Nat /\ \A i \in DOMAIN subs : subs[i] \in S
    OBVIOUS
  <1>2. m = {i \in DOMAIN subs : p.tags \subseteq attr[subs[i]].tags}
    BY DEF matchtags
  <1>3. cand = {i \in m : \A k \in m : attr[subs[k]].prio <= attr[subs[i]].prio}
    BY DEF Candidates
  <1>4. PICK j \in DOMAIN subs : subs[j] = c
    BY DEF Range
  <1> HIDE DEF m, cand
  <1>5. j \in m
    BY <1>2, <1>4
  <1>6. IsFiniteSet(m)
    BY <1>1, <1>2, PositionsFinite
  <1>7. cand # {}
    <2> DEFINE v == [i \in m |-> attr[subs[i]].prio]
    <2>1. \A i \in m : v[i] \in Int
      BY <1>1, <1>2
    <2>2. \A i \in m : v[i] = attr[subs[i]].prio
      OBVIOUS
    <2> HIDE DEF v
    <2>3. \E i \in m : \A k \in m : v[k] <= v[i]
      BY <1>5, <1>6, <2>1, HighestIs
    <2> QED
      BY <1>3, <2>2, <2>3
  <1>8. PICK i \in cand : o = Outcome(<<subs[i]>>, rr, (pr + 1) % Cardinality(cand))
    <2>1. subs # <<>>
      BY <1>1, <1>4
    <2> QED
      BY <1>7, <2>1 DEF dispatchMessage, prioritySend, cand
  <1>9. d = subs[i]
    <2>1. o.to = <<subs[i]>>
      BY <1>8 DEF Outcome
    <2> QED
      BY <2>1 DEF Range
  <1> QED
    BY <1>2, <1>3, <1>4, <1>5, <1>9

\* As many ROUND_ROBIN publications in a row as a topic has subscribers reach
\* every one of them, for every list and whatever cursor subscribers who left
\* have left behind (roundRobinSend).
THEOREM RoundRobinServesAll ==
  ASSUME NEW S, NEW subs \in Seq(S), subs # <<>>, NEW rr \in Nat, NEW pr
  PROVE  RoundRobinTurns(subs, rr, pr)
  <1> DEFINE n == Len(subs)
  <1>1. n \in Nat \ {0} /\ DOMAIN subs = 1 .. n
    OBVIOUS
  <1> SUFFICES ASSUME NEW run \in [0 .. n -> 0 .. Max({rr, n})], run[0] = rr,
                      \A k \in 0 .. n - 1 : \A o \in roundRobinSend(subs, run[k], pr) : run[k + 1] = o.rr
               PROVE  Range(subs) =
                        UNION {UNION {Range(o.to) : o \in roundRobinSend(subs, run[k], pr)} : k \in 0 .. n - 1}
    BY DEF RoundRobinTurns
  <1>2. \A x : roundRobinSend(subs, x, pr) = {Outcome(<<subs[(x % n) + 1]>>, ((x % n) + 1) % n, pr)}
    BY DEF roundRobinSend
  <1> HIDE DEF n
  <1>3. Max({rr, n}) \in Nat
    <2>0. rr \in Int /\ n \in Int
      BY <1>1
    <2>1. Max({rr, n}) \in {rr, n}
      BY <2>0, MaxOfTwo
    <2> QED
      BY <1>1, <2>1
  <1>4. \A k \in 0 .. n : run[k] \in Nat
    BY <1>3
  <1> DEFINE pos(k) == run[k] % n
             from == rr % n
  <1>5. \A k \in 0 .. n : pos(k) \in 0 .. n - 1
    BY <1>1, <1>4
  <1>6. ASSUME NEW k \in 0 .. n - 1 PROVE pos(k + 1) = IF pos(k) + 1 = n THEN 0 ELSE pos(k) + 1
    <2>1. run[k + 1] = (pos(k) + 1) % n
      <3>1. PICK w : w = Outcome(<<subs[(run[k] % n) + 1]>>, ((run[k] % n) + 1) % n, pr)
        OBVIOUS
      <3>2. w.rr = (pos(k) + 1) % n
        BY <3>1 DEF Outcome
      <3>3. w \in roundRobinSend(subs, run[k], pr)
        BY <1>2, <3>1
      <3>4. run[k + 1] = w.rr
        BY <3>3
      <3> QED
        BY <3>2, <3>4
    <2>2. PICK x : x = pos(k)
      OBVIOUS
    <2>3. x \in 0 .. n - 1
      BY <1>1, <1>5, <2>2
    <2>4. (x + 1) % n = IF x + 1 = n THEN 0 ELSE x + 1
      <3>1. CASE x + 1 = n
        BY <1>1, <3>1, RemainderIs
      <3>2. CASE x + 1 # n
        <4>1. x + 1 \in 0 .. n - 1
          BY <1>1, <2>3, <3>2
        <4> QED
          BY <1>1, <3>2, <4>1, RemainderIs
      <3> QED
        BY <3>1, <3>2
    <2>5. (IF x + 1 = n THEN 0 ELSE x + 1) \in 0 .. n - 1
      BY <1>1, <2>3
    <2>6. run[k + 1] = (IF x + 1 = n THEN 0 ELSE x + 1)
      BY <2>1, <2>2, <2>4
    <2>7. run[k + 1] % n = run[k + 1]
      BY <1>1, <2>5, <2>6, RemainderIs
    <2> QED
      BY <2>2, <2>6, <2>7
  <1>7. from \in 0 .. n - 1 /\ pos(0) = from
    BY <1>1
  <1> HIDE DEF from
  <1>71. \A k \in 0 .. n - 1 : pos(k) \in 0 .. n - 1
    <2>1. \A k \in 0 .. n - 1 : k \in 0 .. n
      BY <1>1
    <2> HIDE DEF pos
    <2> QED
      BY <1>5, <2>1
  <1> HIDE DEF pos
  <1>8. \A k \in 0 .. n - 1 : pos(k) = IF from + k < n THEN from + k ELSE from + k - n
    <2> DEFINE Bad == {k \in 0 .. n - 1 : pos(k) # IF from + k < n THEN from + k ELSE from + k - n}
    <2> SUFFICES ASSUME Bad # {} PROVE FALSE
      OBVIOUS
    <2>1. Bad \in SUBSET Nat
      BY <1>1
    <2>2. PICK x \in Bad : \A y \in Bad : x <= y
      <3> HIDE DEF Bad
      <3> QED
        BY <2>1, LeastIs
    <2>3. x \in 0 .. n - 1 /\ x # 0
      BY <1>1, <1>7
    <2>4. x - 1 \in 0 .. n - 1 /\ x - 1 + 1 = x /\ ~(x <= x - 1)
      BY <1>1, <2>3
    <2>5. pos(x - 1) = IF from + (x - 1) < n THEN from + (x - 1) ELSE from + (x - 1) - n
      BY <2>2, <2>4
    <2>6. pos(x) = IF pos(x - 1) + 1 = n THEN 0 ELSE pos(x - 1) + 1
      BY <1>6, <2>4
    <2>7. pos(x) = IF from + x < n THEN from + x ELSE from + x - n
      <3>1. PICK a, b : a = pos(x - 1) /\ b = pos(x)
        OBVIOUS
      <3>2. a = (IF from + (x - 1) < n THEN from + (x - 1) ELSE from + (x - 1) - n) /\ b = (IF a + 1 = n THEN 0 ELSE a + 1)
        BY <2>5, <2>6, <3>1
      <3>3. b = IF from + x < n THEN from + x ELSE from + x - n
        BY <1>1, <1>7, <2>3, <3>2
      <3> QED
        BY <3>1, <3>3
    <2> QED
      BY <2>7
  <1>9. \A k \in 0 .. n - 1 : UNION {Range(o.to) : o \in roundRobinSend(subs, run[k], pr)} = {subs[pos(k) + 1]}
    <2> SUFFICES ASSUME NEW k \in 0 .. n - 1
                 PROVE  UNION {Range(o.to) : o \in roundRobinSend(subs, run[k], pr)} = {subs[pos(k) + 1]}
      OBVIOUS
    <2>1. PICK c, w : c = subs[pos(k) + 1] /\ w = Outcome(<<c>>, (pos(k) + 1) % n, pr)
      OBVIOUS
    <2>2. roundRobinSend(subs, run[k], pr) = {w}
      BY <1>2, <2>1 DEF pos
    <2>3. w.to = <<c>>
      BY <2>1 DEF Outcome
    <2>4. Range(w.to) = {c}
      BY <2>3 DEF Range
    <2> QED
      BY <2>1, <2>2, <2>4
  <1>10. ASSUME NEW c \in Range(subs)
         PROVE  \E k \in 0 .. n - 1 : c = subs[pos(k) + 1]
    <2>1. PICK i \in 1 .. n : c = subs[i]
      BY <1>1 DEF Range
    <2>2. PICK k \in Int : k = IF i - 1 >= from THEN i - 1 - from ELSE i - 1 - from + n
      BY <1>1, <1>7
    <2>3. k \in 0 .. n - 1 /\ (IF from + k < n THEN from + k ELSE from + k - n) = i - 1
      BY <1>1, <1>7, <2>2
    <2>4. pos(k) + 1 = i
      BY <1>8, <2>3
    <2> QED
      BY <2>1, <2>3, <2>4
  <1>11. ASSUME NEW k \in 0 .. n - 1 PROVE subs[pos(k) + 1] \in Range(subs)
    <2>1. pos(k) \in 0 .. n - 1
      BY <1>71
    <2>2. pos(k) + 1 \in 1 .. n
      BY <1>1, <2>1
    <2> QED
      BY <1>1, <2>2 DEF Range
  <1> DEFINE U(k) == UNION {Range(o.to) : o \in roundRobinSend(subs, run[k], pr)}
  <1>12. \A k \in 0 .. n - 1 : U(k) = {subs[pos(k) + 1]}
    BY <1>9
  <1> HIDE DEF U
  <1>13. Range(subs) = UNION {U(k) : k \in 0 .. n - 1}
    BY <1>10, <1>11, <1>12
  <1> QED
    BY <1>13 DEF U

\* The three promises for the lists, cursors, attributes and parameters that TLC
\* enumerates, in every reachable state.
THEOREM StrategiesAreMet == Spec => []Strategies
  <1>1. ASSUME NEW subs \in Orders
        PROVE  subs \in Seq(Some) /\ IsInjective(subs)
    <2>1. PICK T \in SUBSET Some : subs \in SetToSeqs(T)
      BY DEF Orders
    <2>2. IsFiniteSet(Some)
      <3>1. 1 \in Int /\ 3 \in Int
        OBVIOUS
      <3> QED
        BY <3>1, FS_Interval DEF Some
    <2>3. IsFiniteSet(T)
      BY <2>2, FS_Subset
    <2>4. subs \in Seq(T) /\ IsInjective(subs)
      BY <2>1, <2>3, OrderIs
    <2> QED
      BY <2>4
  <1>2. ASSUME NEW p \in AllPubs
        PROVE  p.limit \in Int /\ p.count \in Int /\ p.key \in Nat \cup {NoKey}
    BY DEF AllPubs
  <1>3. ASSUME NEW attr \in AllAttrs, NEW c \in Some
        PROVE  attr[c].prio \in Int
    BY DEF AllAttrs
  <1>4. AllReach
    <2> SUFFICES ASSUME NEW subs \in Orders, NEW cur \in 0 .. 3, NEW attr \in AllAttrs, NEW p \in AllPubs
                 PROVE  ReachesMeant(subs, cur, cur, attr, p)
      BY DEF AllReach
    <2>1. cur \in Nat
      OBVIOUS
    <2> QED
      BY <1>1, <1>2, <2>1, PublicationsReachMeant
  <1>5. AllPrefer
    <2> SUFFICES ASSUME NEW subs \in Orders, NEW cur \in 0 .. 3, NEW attr \in AllAttrs, NEW p \in AllPubs
                 PROVE  TopPriority(subs, cur, cur, attr, p)
      BY DEF AllPrefer
    <2> QED
      BY <1>1, <1>3, PriorityPrefers
  <1>6. AllRotate
    <2> SUFFICES ASSUME NEW subs \in Orders, subs # <<>>, NEW cur \in 0 .. 3
                 PROVE  RoundRobinTurns(subs, cur, 0)
      BY DEF AllRotate
    <2>1. cur \in Nat
      OBVIOUS
    <2> QED
      BY <1>1, <2>1, RoundRobinServesAll
  <1>7. Strategies
    BY <1>4, <1>5, <1>6 DEF Strategies, StrategiesReach, StrategiesPrefer, StrategiesRotate
  <1> QED
    BY <1>7, PTL

=============================================================================
