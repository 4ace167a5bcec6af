---------------------------- MODULE TopicForward ----------------------------
(***************************************************************************)
(* The forwarding strategies of a topic (server/rpc_topic.hpp, struct      *)
(* Topic): who receives a publication, as operators on the vector copy_sub *)
(* of the subscribers.                                                     *)
(*                                                                         *)
(* A publication is a record: strategy, limit (fanoutLimit), key (the hash *)
(* of shardKey, NoKey for an empty one), tags, count (redundantCount).     *)
(* attr[c] holds the priority and the tags of the Subscribe of connection  *)
(* c.  TopicRequest::check(), which would refuse some publications, is     *)
(* called nowhere.                                                         *)
(*                                                                         *)
(* An outcome is a record: to, the connections in the order of the sends;  *)
(* rr and pri, the cursors afterwards; dies, whether the process ends in a *)
(* read behind the end of a vector.                                        *)
(***************************************************************************)
EXTENDS Integers, Sequences, SequencesExt, FiniteSetsExt

NoKey == -1

Outcome(to, rr, pri) == [to |-> to, rr |-> rr, pri |-> pri, dies |-> FALSE]

broadcastSend(subs, rr, pri) == {Outcome(subs, rr, pri)}

\* Deviation: the cursor is advanced without being taken modulo the size.
roundRobinSendUnreduced(subs, rr, pri) ==
  LET cur == rr % Len(subs)
  IN {Outcome(<<subs[cur + 1]>>, rr + 1, pri)}

\* Deviation: the cursor turns back one subscriber too early.
roundRobinSendShort(subs, rr, pri) ==
  LET cur == rr % Len(subs)
  IN {Outcome(<<subs[cur + 1]>>, (cur + 1) % Max({1, Len(subs) - 1}), pri)}

roundRobinSend(subs, rr, pri) ==
  LET cur == rr % Len(subs)
  IN {Outcome(<<subs[cur + 1]>>, (cur + 1) % Len(subs), pri)}

Shuffled(subs) == SetToSeqs(Range(subs))   \* no subscriber is in it twice

\* What reading n elements behind the end of the vector does: each element
\* is whatever the heap holds there, a pointer to a subscriber of an earlier
\* copy or garbage that ends the process.
BehindEnd(subs, n) ==
  UNION {{[to |-> s, dies |-> k < n] : s \in [1 .. k -> Range(subs)]} : k \in 0 .. n}

\* Deviation: a limit below the number of subscribers sends to one too many.
fanoutSendOneMore(subs, rr, pri, p) ==
  {Outcome(SubSeq(s, 1, Min({p.limit + 1, Len(subs)})), rr, pri) : s \in Shuffled(subs)}

\* A limit that is not below the number of subscribers broadcasts and then
\* goes on, as the code has no return there.
fanoutSend(subs, rr, pri, p) ==
  LET n == Len(subs)
      first == IF p.limit <= 0 \/ p.limit >= n THEN subs ELSE <<>>
  IN UNION {{[to |-> first \o SubSeq(s, 1, Min({p.limit, n})) \o b.to,
              rr |-> rr, pri |-> pri, dies |-> b.dies] : s \in Shuffled(subs)} :
               b \in BehindEnd(subs, Max({0, p.limit - n}))}

sourceHashSend(subs, rr, pri, p) ==
  {Outcome(IF p.key = NoKey THEN <<>> ELSE <<subs[(p.key % Len(subs)) + 1]>>, rr, pri)}

\* The positions of the subscribers that carry every tag of the publication.
matchtags(subs, attr, p) == {i \in DOMAIN subs : p.tags \subseteq attr[subs[i]].tags}

\* Deviation: the subscribers with the lowest priority are the candidates.
CandidatesLowest(subs, attr, p) ==
  LET m == matchtags(subs, attr, p)
  IN {i \in m : \A k \in m : attr[subs[i]].prio <= attr[subs[k]].prio}

\* Those of the highest priority among them.
Candidates(subs, attr, p) ==
  LET m == matchtags(subs, attr, p)
  IN {i \in m : \A k \in m : attr[subs[k]].prio <= attr[subs[i]].prio}

\* The candidate with as many before it as pri_cursor says, which is one
\* static variable for all topics.
prioritySend(subs, rr, pri, attr, p) ==
  LET cand == Candidates(subs, attr, p)
      n == Cardinality(cand)
  IN IF cand = {}
     THEN broadcastSend(subs, rr, pri)
     ELSE {Outcome(<<subs[i]>>, rr, (pri + 1) % n) :
             i \in {i \in cand : Cardinality({k \in cand : k < i}) = pri % n}}

redundantSend(subs, rr, pri, p) ==
  IF p.count <= 1
  THEN broadcastSend(subs, rr, pri)
  ELSE {Outcome(SubSeq(s, 1, Min({p.count, Len(subs)})), rr, pri) : s \in Shuffled(subs)}

\* Every strategy returns at once when there is no subscriber.
dispatchMessage(subs, rr, pri, attr, p) ==
  IF subs = <<>> THEN {Outcome(<<>>, rr, pri)}
  ELSE CASE p.strategy = "ROUND_ROBIN" -> roundRobinSend(subs, rr, pri)
         [] p.strategy = "FANOUT"      -> fanoutSend(subs, rr, pri, p)
         [] p.strategy = "SOURCE_HASH" -> sourceHashSend(subs, rr, pri, p)
         [] p.strategy = "PRIORITY"    -> prioritySend(subs, rr, pri, attr, p)
         [] p.strategy = "REDUNDANT"   -> redundantSend(subs, rr, pri, p)
         [] OTHER                      -> broadcastSend(subs, rr, pri)
-----------------------------------------------------------------------------
\* What the strategies promise, for a vector of subscribers without doubles.

\* How many subscribers a publication is meant to reach.
Meant(n, m, p) ==
  IF n = 0 THEN 0
  ELSE CASE p.strategy = "ROUND_ROBIN"                  -> 1
         [] p.strategy = "FANOUT" /\ p.limit \in 1 .. n -> p.limit
         [] p.strategy = "SOURCE_HASH"                  -> IF p.key = NoKey THEN 0 ELSE 1
         [] p.strategy = "PRIORITY" /\ m > 0            -> 1
         [] p.strategy = "REDUNDANT" /\ p.count > 1     -> Min({p.count, n})
         [] OTHER                                       -> n

\* A publication reaches as many different subscribers as its strategy
\* means it to, nobody twice; only FANOUT with a limit that is not below the
\* number of subscribers sends twice or reads behind the vector.
ReachesMeant(subs, rr, pri, attr, p) ==
  \A o \in dispatchMessage(subs, rr, pri, attr, p) :
    /\ Range(o.to) \subseteq Range(subs)
    /\ Cardinality(Range(o.to)) = Meant(Len(subs), Cardinality(Candidates(subs, attr, p)), p)
    /\ ~IsInjective(o.to) \/ o.dies => p.strategy = "FANOUT" /\ p.limit >= Len(subs)

\* A PRIORITY publication goes to a subscriber that carries its tags and
\* that no other one with these tags exceeds in priority, if there is any.
TopPriority(subs, rr, pri, attr, p) ==
  p.strategy = "PRIORITY" =>
    \A o \in dispatchMessage(subs, rr, pri, attr, p), c \in Range(subs) :
      p.tags \subseteq attr[c].tags =>
        \A d \in Range(o.to) : p.tags \subseteq attr[d].tags /\ attr[c].prio <= attr[d].prio

\* As many ROUND_ROBIN publications in a row as there are subscribers reach
\* every one of them, whatever the cursor was; run[k] is the cursor after k.
RoundRobinTurns(subs, rr, pri) ==
  LET n == Len(subs)
  IN \A run \in [0 .. n -> 0 .. Max({rr, n})] :
       /\ run[0] = rr
       /\ \A k \in 0 .. n - 1 : \A o \in roundRobinSend(subs, run[k], pri) : run[k + 1] = o.rr
       => Range(subs) =
            UNION {UNION {Range(o.to) : o \in roundRobinSend(subs, run[k], pri)} : k \in 0 .. n - 1}

\* The instances that are checked: up to three subscribers.
Some == 1 .. 3
Orders == UNION {SetToSeqs(S) : S \in SUBSET Some}
AllAttrs == [Some -> {[prio |-> 0, tags |-> {}], [prio |-> 1, tags |-> {}], [prio |-> 1, tags |-> {"g"}]}]
AllPubs == [strategy : {"ROUND_ROBIN", "SOURCE_HASH", "PRIORITY", "REDUNDANT", "BROADCAST"},
            limit : {0}, key : {NoKey, 2, 5}, tags : {{}, {"g"}}, count : 0 .. 4]
           \cup [strategy : {"FANOUT"}, limit : 0 .. 4, key : {NoKey}, tags : {{}}, count : {0}]

AllReach == \A subs \in Orders, cur \in 0 .. 3, attr \in AllAttrs, p \in AllPubs :
              ReachesMeant(subs, cur, cur, attr, p)

AllPrefer == \A subs \in Orders, cur \in 0 .. 3, attr \in AllAttrs, p \in AllPubs :
               TopPriority(subs, cur, cur, attr, p)

AllRotate == \A subs \in Orders \ {<<>>}, cur \in 0 .. 3 : RoundRobinTurns(subs, cur, 0)
=============================================================================
