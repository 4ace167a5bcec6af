----------------------------- MODULE MethodHost -----------------------------
(***************************************************************************)
(* client/rpc_registry.hpp, class MethodHost: the hosts of a method on the *)
(* client, and how the strategies choose among them.  Every operation runs *)
(* under the object's mutex, so that it is an operator here, of the list   *)
(* (_host, records of host and load), the ring (_ring, a function from     *)
(* points to positions in the list) and the index (_idx).  The hash of the *)
(* library is a parameter: VirtualNodes gives the points of a host on the  *)
(* ring and a key is its point, and points of two hosts may coincide.      *)
(***************************************************************************)
EXTENDS Integers, Sequences, SequencesExt, FiniteSetsExt, Functions

CONSTANTS
  Hosts, Loads,
  MAX_IDX,        \* where the index of the rotation is cut back
  VirtualNodes,   \* the points of a host on the ring
  KeyPoints       \* the points of keys that calls may have

ASSUME MethodHostAssumption ==
  MAX_IDX \in Nat \ {0} /\ VirtualNodes \in [Hosts -> SUBSET Nat] /\ KeyPoints \subseteq Nat

NoKey == -1
EmptyRing == << >>
Details == [host : Hosts, load : Loads]
HostsOf(hs) == {hs[i].host : i \in DOMAIN hs}
PositionOf(hs, h) == CHOOSE i \in DOMAIN hs : hs[i].host = h

---------------------------------------------------------------------------
(* The list and the ring.                                                  *)

\* insertNodes: the points of the i-th host, over those that are there.
InsertNodes(ring, hs, i) ==
  [p \in DOMAIN ring \cup VirtualNodes[hs[i].host] |->
     IF p \in VirtualNodes[hs[i].host] THEN i ELSE ring[p]]

\* rebuildRing: host by host, in the order of the list, so that a point of
\* several hosts leads to the last of them.
RebuildRing(hs) ==
  [p \in UNION {VirtualNodes[h] : h \in HostsOf(hs)} |->
     Max({i \in DOMAIN hs : p \in VirtualNodes[hs[i].host]})]

\* appendHost: a host that is there gets the new load, another one is
\* appended, with its points alone.
AppendHost(hs, ring, h, l) ==
  IF h \in HostsOf(hs)
  THEN [host |-> [hs EXCEPT ![PositionOf(hs, h)].load = l], ring |-> ring]
  ELSE LET new == Append(hs, [host |-> h, load |-> l])
       IN  [host |-> new, ring |-> InsertNodes(ring, new, Len(new))]

\* Deviation: the host's points leave the ring, the others keep their positions.
RemoveHostStale(hs, ring, h) ==
  [host |-> SelectSeq(hs, LAMBDA d : d.host # h),
   ring |-> [p \in DOMAIN ring \ VirtualNodes[h] |-> ring[p]]]

\* removeHost: later hosts move up, so that the ring is built anew.
RemoveHost(hs, ring, h) ==
  IF h \in HostsOf(hs)
  THEN LET new == RemoveAt(hs, PositionOf(hs, h)) IN [host |-> new, ring |-> RebuildRing(new)]
  ELSE [host |-> hs, ring |-> ring]

---------------------------------------------------------------------------
(* One host.  Positions of the code start at 0, those of a sequence at 1.  *)

\* Deviation: the index starts again at 0 when it reaches its limit.
NextIdxZero(hs, idx) == IF idx + 1 >= MAX_IDX THEN 0 ELSE idx + 1

\* _idx++, cut back to what it means for the rotation.
NextIdx(hs, idx) == IF idx + 1 >= MAX_IDX THEN (idx + 1) % Len(hs) ELSE idx + 1

PickRandom(hs) == {hs[i] : i \in DOMAIN hs}

PickRoundRobin(hs, idx) == {hs[(idx % Len(hs)) + 1]}

PickSourceHash(hs, key) == IF key = NoKey THEN PickRandom(hs) ELSE {hs[(key % Len(hs)) + 1]}

LeastLoad(hs) == CHOOSE l \in {hs[i].load : i \in DOMAIN hs} : \A i \in DOMAIN hs : l <= hs[i].load

PickLowestLoad(hs, idx) ==
  LET least == SelectSeq(hs, LAMBDA d : d.load = LeastLoad(hs))
  IN  {least[(idx % Len(least)) + 1]}

\* lower_bound, with the wrap to the first point of the ring.
LowerBound(ring, p) ==
  LET above == {q \in DOMAIN ring : q >= p}
      from == IF above = {} THEN DOMAIN ring ELSE above
  IN  CHOOSE q \in from : \A r \in from : q <= r

PickConsistentHash(hs, ring, key) ==
  IF key = NoKey \/ ring = EmptyRing THEN PickRandom(hs) ELSE {hs[ring[LowerBound(ring, key)]]}

\* selectHost, as the set of what it may return.
SelectHost(strategy, hs, ring, idx, key) ==
  CASE strategy = "ROUND_ROBIN" -> PickRoundRobin(hs, idx)
    [] strategy = "RANDOM" -> PickRandom(hs)
    [] strategy = "SOURCE_HASH" -> PickSourceHash(hs, key)
    [] strategy = "LOWEST_LOAD" -> PickLowestLoad(hs, idx)
    [] strategy = "CONSISTENT_HASH" -> PickConsistentHash(hs, ring, key)

---------------------------------------------------------------------------
(* All hosts in the order in which a call tries them.                      *)

Strategies == {"ROUND_ROBIN", "RANDOM", "SOURCE_HASH", "LOWEST_LOAD", "CONSISTENT_HASH"}

\* The sequence from position start (0 is the first) on, round to it.
Rotated(s, start) == [i \in DOMAIN s |-> s[((start + i - 1) % Len(s)) + 1]]

RandomOrder(hs) ==
  {[i \in DOMAIN hs |-> hs[f[i]]] : f \in Bijection(DOMAIN hs, DOMAIN hs)}

\* Deviation: the group of the least load alone.
LowestLoadOrderLeast(hs, idx) ==
  Rotated(SelectSeq(hs, LAMBDA d : d.load = LeastLoad(hs)), idx)

\* stable_sort by load, and the group of the least load rotated.
LowestLoadOrder(hs, idx) ==
  LET by(l) == SelectSeq(hs, LAMBDA d : d.load = l)
      loads == SetToSortSeq({hs[i].load : i \in DOMAIN hs}, LAMBDA a, b : a < b)
  IN  Rotated(by(loads[1]), idx)
        \o FlattenSeq([i \in 1 .. Len(loads) - 1 |-> by(loads[i + 1])])

\* The ring walked once from the key on; a host counts where it is met first.
RingOrder(hs, ring, key) ==
  LET points == SetToSortSeq(DOMAIN ring, LAMBDA a, b : a < b)
      start == CHOOSE i \in DOMAIN points : points[i] = LowerBound(ring, key)
      from == Rotated(points, start - 1)
      walk == [i \in DOMAIN points |-> ring[from[i]]]
      first == SelectSeq([i \in DOMAIN walk |-> i],
                         LAMBDA i : \A j \in 1 .. i - 1 : walk[j] # walk[i])
  IN  [i \in DOMAIN first |-> hs[walk[first[i]]]]

\* selectHosts, as the set of lists it may return.
SelectHosts(strategy, hs, ring, idx, key) ==
  IF hs = <<>> THEN {<<>>}
  ELSE CASE strategy = "ROUND_ROBIN" -> {Rotated(hs, idx % Len(hs))}
         [] strategy = "RANDOM" -> RandomOrder(hs)
         [] strategy = "SOURCE_HASH" ->
              IF key = NoKey THEN RandomOrder(hs) ELSE {Rotated(hs, key % Len(hs))}
         [] strategy = "LOWEST_LOAD" -> {LowestLoadOrder(hs, idx)}
         [] strategy = "CONSISTENT_HASH" ->
              IF key = NoKey \/ ring = EmptyRing THEN RandomOrder(hs) ELSE {RingOrder(hs, ring, key)}

---------------------------------------------------------------------------
(* Checked over every list of hosts with every load.                       *)

Lists == {hs \in UNION {[1 .. n -> Details] : n \in 0 .. 3} :
            \A i, j \in DOMAIN hs : i # j => hs[i].host # hs[j].host}

\* Whichever host comes, changes its load or goes, the ring is the one a
\* rebuild would make of the new list.
AllRingsAgree ==
  \A hs \in Lists, h \in Hosts :
    LET ring == RebuildRing(hs) IN
    \A new \in {RemoveHost(hs, ring, h)} \cup {AppendHost(hs, ring, h, l) : l \in Loads} :
      new.ring = RebuildRing(new.host)

\* A candidate list holds every host once, and its head is what the selection
\* of one host may return.
AllCandidatesCover ==
  \A hs \in Lists \ {<<>>}, s \in Strategies, i \in 0 .. MAX_IDX - 1, k \in KeyPoints \cup {NoKey} :
    LET ring == RebuildRing(hs) IN
    \A c \in SelectHosts(s, hs, ring, i, k) :
      /\ Len(c) = Len(hs) /\ ToSet(c) = ToSet(hs)
      /\ Head(c) \in SelectHost(s, hs, ring, i, k)

\* The rotation goes on where the index is cut back.
AllRotationsAdvance ==
  \A hs \in Lists \ {<<>>}, i \in 0 .. MAX_IDX - 1 :
    PickRoundRobin(hs, NextIdx(hs, i)) = PickRoundRobin(hs, (i + 1) % Len(hs))
=============================================================================
