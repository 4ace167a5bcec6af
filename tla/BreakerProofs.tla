--------------------------- MODULE BreakerProofs ---------------------------
(***************************************************************************)
(* Machine-checked proofs about the breaker of one node for every          *)
(* configuration, and about the table of breakers for any number of keys   *)
(* and threads.                                                            *)
(***************************************************************************)
EXTENDS NodeBreaker, CircuitBreaker, FiniteSetTheorems, FunctionTheorems, SequenceTheorems, TLAPS

\* The clamped window has at least one slot.
LEMMA WindowRange == Window \in Nat /\ Window >= 1 /\ 0 \in Slots
  BY BreakerAssumption DEF Window, Slots

\* The ring's position stays within its slots.
LEMMA PosRange ==
  ASSUME NEW p \in Slots
  PROVE  (p + 1) % Window \in Slots
  <1>1. Window \in Nat /\ Window >= 1
    BY WindowRange
  <1> QED
    BY <1>1 DEF Slots

\* Newest keeps a sequence of outcomes one.
LEMMA NewestType ==
  ASSUME NEW S, NEW s \in Seq(S)
  PROVE  Newest(s) \in Seq(S)
  <1>1. Window \in Nat /\ Window >= 1
    BY WindowRange
  <1> QED
    BY <1>1 DEF Newest

\* Recording an outcome keeps the types of the window.
LEMMA RecordType ==
  ASSUME TypeOK, NEW res \in {"failed", "succeeded"}, Record(res)
  PROVE  /\ win' \in [Slots -> {"empty", "failed", "succeeded"}]
         /\ pos' \in Slots
         /\ nfail' \in Int
         /\ nsucc' \in Int
         /\ recent' \in Seq({"failed", "succeeded"})
  <1>1. win' \in [Slots -> {"empty", "failed", "succeeded"}]
    BY DEF TypeOK, Record
  <1>2. pos' \in Slots
    BY PosRange DEF TypeOK, Record
  <1>3. nfail' \in Int /\ nsucc' \in Int
    BY DEF TypeOK, Record, NewFail, NewSucc
  <1>4. Append(recent, res) \in Seq({"failed", "succeeded"})
    BY DEF TypeOK
  <1>5. recent' \in Seq({"failed", "succeeded"})
    BY <1>4, NewestType DEF Record
  <1> QED
    BY <1>1, <1>2, <1>3, <1>5

\* Every step keeps the types.
LEMMA TypeStep == TypeOK /\ [Next]_vars => TypeOK'
  <1> SUFFICES ASSUME TypeOK, [Next]_vars PROVE TypeOK'
    OBVIOUS
  <1>0. OpenDuration \in Nat
    BY BreakerAssumption
  <1>1. ASSUME NEW c \in Calls, Allow(c) PROVE TypeOK'
    BY <1>1, <1>0 DEF TypeOK, Allow, AllowClosed, AllowFirstProbe, AllowProbe, winVars
  <1>2. ASSUME NEW c \in Calls, OnSuccess(c) PROVE TypeOK'
    <2>1. CASE ClearWindow /\ half' = 0 /\ state' = "CLOSED"
      BY <1>2, <2>1, WindowRange
      DEF TypeOK, OnSuccess, ClearWindow, EmptyWindow
    <2>2. CASE Record("succeeded") /\ UNCHANGED <<state, half>>
      BY <1>2, <2>2, RecordType DEF TypeOK, OnSuccess
    <2> QED
      BY <1>2, <2>1, <2>2 DEF OnSuccess, SuccessBody
  <1>3. ASSUME FailureBody, half' = half, probes' = probes, lost' = lost,
               inflight' \subseteq Calls
        PROVE  TypeOK'
    BY <1>3, <1>0, RecordType DEF TypeOK, FailureBody
  <1>4. ASSUME NEW c \in Calls, NoReport(c) PROVE TypeOK'
    BY <1>4 DEF TypeOK, NoReport, winVars
  <1>5. CASE Tick
    BY <1>5, <1>0 DEF TypeOK, Tick, winVars
  <1>6. CASE UNCHANGED vars
    BY <1>6 DEF TypeOK, vars
  <1>7. ASSUME NEW c \in Calls, OnFailure(c) PROVE TypeOK'
    BY <1>3, <1>7 DEF OnFailure, TypeOK
  <1>8. CASE OnConnectionUnavailable
    BY <1>3, <1>8 DEF OnConnectionUnavailable, TypeOK
  <1> QED
    BY <1>1, <1>2, <1>4, <1>5, <1>6, <1>7, <1>8 DEF Next, Report

\* Initially the breaker has the right types.
LEMMA TypeInit == Init => TypeOK
  BY WindowRange, BreakerAssumption DEF Init, TypeOK, EmptyWindow

\* The state of the breaker always has its type.
THEOREM TypeCorrect == Spec => []TypeOK
  BY TypeInit, TypeStep, PTL DEF Spec

\* The strengthening of ProbeBound: the stale half_open counter is never less
\* than the probes of the current period.
ProbeInv ==
  state = "HALF_OPEN" =>
    /\ 1 <= probes
    /\ probes <= half
    /\ probes = 1 \/ half <= HalfOpenMax

\* Every step keeps the strengthening.
LEMMA ProbeStep == TypeOK /\ ProbeInv /\ [Next]_vars => ProbeInv'
  <1> SUFFICES ASSUME TypeOK, ProbeInv, [Next]_vars PROVE ProbeInv'
    OBVIOUS
  <1>0. half \in Nat /\ probes \in Nat /\ HalfOpenMax \in Int
    BY BreakerAssumption DEF TypeOK
  <1>1. ASSUME NEW c \in Calls, AllowClosed(c) \/ AllowFirstProbe(c)
        PROVE  ProbeInv'
    BY <1>0, <1>1 DEF ProbeInv, AllowClosed, AllowFirstProbe
  <1>2. ASSUME NEW c \in Calls, AllowProbe(c) PROVE ProbeInv'
    <2>1. /\ half' = half + 1 /\ probes' = probes + 1 /\ half < HalfOpenMax
          /\ 1 <= probes /\ probes <= half
      BY <1>2 DEF AllowProbe, ProbeInv
    <2> QED
      BY <1>0, <2>1 DEF ProbeInv
  <1>3. ASSUME NEW c \in Calls, OnSuccess(c) PROVE ProbeInv'
    BY <1>3 DEF ProbeInv, OnSuccess, SuccessBody
  <1>4. ASSUME FailureBody, half' = half, probes' = probes PROVE ProbeInv'
    <2>1. state' = "OPEN" \/ state' = state
      BY <1>4 DEF FailureBody
    <2> QED
      BY <1>4, <2>1 DEF ProbeInv
  <1>5. ASSUME NEW c \in Calls, OnFailure(c) PROVE ProbeInv'
    BY <1>4, <1>5 DEF OnFailure
  <1>6. CASE OnConnectionUnavailable
    BY <1>4, <1>6 DEF OnConnectionUnavailable
  <1>7. ASSUME NEW c \in Calls, NoReport(c) PROVE ProbeInv'
    BY <1>7 DEF ProbeInv, NoReport
  <1>8. CASE Tick
    BY <1>8 DEF ProbeInv, Tick
  <1>9. CASE UNCHANGED vars
    BY <1>9 DEF ProbeInv, vars
  <1> QED
    BY <1>1, <1>2, <1>3, <1>5, <1>6, <1>7, <1>8, <1>9 DEF Next, Allow, Report

\* A HALF_OPEN period admits no more calls than the configuration allows.
THEOREM Probing == Spec => []ProbeBound
  <1>1. Init => ProbeInv
    BY DEF Init, ProbeInv
  <1>2. TypeOK /\ ProbeInv => ProbeBound
    <2> SUFFICES ASSUME TypeOK, ProbeInv, state = "HALF_OPEN"
                 PROVE  1 <= probes /\ (probes = 1 \/ probes <= HalfOpenMax)
      BY DEF ProbeBound
    <2>1. half \in Nat /\ probes \in Nat /\ HalfOpenMax \in Int
      BY BreakerAssumption DEF TypeOK
    <2> QED
      BY <2>1 DEF ProbeInv
  <1> QED
    BY <1>1, <1>2, ProbeStep, TypeCorrect, PTL DEF Spec

---------------------------------------------------------------------------
(* The sliding window.                                                     *)

\* A number below twice the window, taken modulo the window.
LEMMA ModTwice ==
  ASSUME NEW x \in Nat, x < 2 * Window
  PROVE  x % Window = IF x < Window THEN x ELSE x - Window
  <1>1. Window \in Nat /\ Window >= 1
    BY WindowRange
  <1> QED
    BY <1>1

\* What CountIn counts is finite, and the count is a number.
LEMMA CountFinite ==
  ASSUME NEW S, NEW s \in Seq(S), NEW r
  PROVE  /\ IsFiniteSet({i \in 1 .. Len(s) : s[i] = r})
         /\ CountIn(s, r) \in Nat
  <1>1. Len(s) \in Nat
    OBVIOUS
  <1>2. IsFiniteSet(1 .. Len(s))
    BY <1>1, FS_Interval
  <1>3. IsFiniteSet({i \in 1 .. Len(s) : s[i] = r})
    BY <1>2, FS_Subset
  <1> QED
    BY <1>3, FS_CardinalityType DEF CountIn

\* One more outcome counts once, for its own result.
LEMMA CountAppend ==
  ASSUME NEW S, NEW s \in Seq(S), NEW e \in S, NEW r
  PROVE  CountIn(Append(s, e), r) = CountIn(s, r) + (IF e = r THEN 1 ELSE 0)
  <1> DEFINE A == {i \in 1 .. Len(s) : s[i] = r}
             B == {i \in 1 .. Len(Append(s, e)) : Append(s, e)[i] = r}
  <1>1. IsFiniteSet(A) /\ Cardinality(A) \in Nat
    BY CountFinite DEF CountIn
  <1>2. B = IF e = r THEN A \cup {Len(s) + 1} ELSE A
    OBVIOUS
  <1>3. Len(s) + 1 \notin A
    OBVIOUS
  <1>4. Cardinality(B) = Cardinality(A) + (IF e = r THEN 1 ELSE 0)
    <2>1. Cardinality(A \cup {Len(s) + 1}) = Cardinality(A) + 1
      BY <1>1, <1>3, FS_AddElement
    <2>2. CASE e = r
      BY <1>1, <1>2, <2>1, <2>2
    <2>3. CASE e # r
      <3>1. B = A
        BY <1>2, <2>3
      <3> HIDE DEF A, B
      <3> QED
        BY <1>1, <2>3, <3>1
    <2> QED
      BY <2>2, <2>3
  <1> QED
    BY <1>4 DEF CountIn

\* Without its first outcome a sequence counts one less of that result.
LEMMA CountTail ==
  ASSUME NEW S, NEW s \in Seq(S), s # <<>>, NEW r
  PROVE  CountIn(Tail(s), r) = CountIn(s, r) - (IF s[1] = r THEN 1 ELSE 0)
  <1> DEFINE A == {i \in 1 .. Len(s) : s[i] = r}
             B == {i \in 1 .. Len(Tail(s)) : Tail(s)[i] = r}
             f == [i \in B |-> i + 1]
  <1>0. Tail(s) \in Seq(S) /\ Len(s) \in Nat /\ Len(s) >= 1 /\ Len(Tail(s)) = Len(s) - 1
    BY HeadTailProperties
  <1>1. IsFiniteSet(A) /\ Cardinality(A) \in Nat /\ IsFiniteSet(B)
    BY <1>0, CountFinite DEF CountIn
  <1>2. \A i \in 1 .. Len(s) - 1 : Tail(s)[i] = s[i + 1]
    BY <1>0, HeadTailProperties
  <1>3. f \in [B -> A \ {1}]
    BY <1>0, <1>2
  <1>4. \A a, b \in B : f[a] = f[b] => a = b
    BY <1>0
  <1>5. \A y \in A \ {1} : \E x \in B : f[x] = y
    <2> SUFFICES ASSUME NEW y \in A \ {1} PROVE y - 1 \in B /\ f[y - 1] = y
      OBVIOUS
    <2> QED
      BY <1>0, <1>2
  <1>6. f \in Bijection(B, A \ {1})
    BY <1>3, <1>4, <1>5, Fun_IsBij
  <1>7. Cardinality(A \ {1}) = Cardinality(B)
    BY <1>1, <1>6, FS_Bijection DEF ExistsBijection
  <1>8. 1 \in A <=> s[1] = r
    BY <1>0
  <1>9. Cardinality(A \ {1}) = IF s[1] = r THEN Cardinality(A) - 1 ELSE Cardinality(A)
    <2>1. Cardinality(A \ {1}) = IF 1 \in A THEN Cardinality(A) - 1 ELSE Cardinality(A)
      BY <1>1, FS_RemoveElement
    <2> QED
      BY <2>1, <1>8
  <1>10. CountIn(s, r) = Cardinality(A) /\ CountIn(Tail(s), r) = Cardinality(B)
    BY DEF CountIn
  <1> HIDE DEF A, B
  <1> QED
    BY <1>1, <1>7, <1>9, <1>10

\* Every outcome is a failure or a success.
LEMMA CountAll ==
  ASSUME NEW s \in Seq({"failed", "succeeded"})
  PROVE  CountIn(s, "failed") + CountIn(s, "succeeded") = Len(s)
  <1> DEFINE A == {i \in 1 .. Len(s) : s[i] = "failed"}
             B == {i \in 1 .. Len(s) : s[i] = "succeeded"}
  <1>1. IsFiniteSet(A) /\ IsFiniteSet(B) /\ Cardinality(A) \in Nat /\ Cardinality(B) \in Nat
    BY CountFinite DEF CountIn
  <1>2. A \cup B = 1 .. Len(s) /\ A \cap B = {}
    OBVIOUS
  <1>3. Cardinality(1 .. Len(s)) = Len(s)
    <2>1. Len(s) \in Nat
      OBVIOUS
    <2>2. Cardinality(1 .. Len(s)) = IF 1 > Len(s) THEN 0 ELSE Len(s) - 1 + 1
      BY <2>1, FS_Interval
    <2> QED
      BY <2>1, <2>2
  <1>4. Cardinality(1 .. Len(s)) = Cardinality(A) + Cardinality(B) - Cardinality({})
    BY <1>1, <1>2, FS_Union, Zenon
  <1> QED
    BY <1>1, <1>3, <1>4, FS_EmptySet DEF CountIn

\* The window as ring and sequence: while it is not full the ring was never
\* wrapped and its other slots are empty, and outcome i is where WindowAgrees
\* looks for it.
RingIs ==
  /\ Len(recent) <= Window
  /\ Len(recent) < Window =>
       pos = Len(recent) /\ \A s \in Slots : s >= pos => win[s] = "empty"
  /\ \A i \in 1 .. Len(recent) :
       win[(pos + Window - 1 - (Len(recent) - i)) % Window] = recent[i]

\* The slot of outcome i of n, with the ring at p.
LEMMA SlotOf ==
  ASSUME NEW p \in Slots, NEW n \in 0 .. Window, NEW i \in 1 .. n
  PROVE  LET x == p + Window - 1 - (n - i)
         IN  x % Window = IF x < Window THEN x ELSE x - Window
  <1>1. Window \in Nat /\ Window >= 1
    BY WindowRange
  <1> DEFINE x == p + Window - 1 - (n - i)
  <1>2. x \in Nat /\ x < 2 * Window
    BY <1>1 DEF Slots
  <1> QED
    BY <1>2, ModTwice

\* The next position of the ring.
LEMMA NextPos ==
  ASSUME NEW p \in Slots
  PROVE  (p + 1) % Window = IF p + 1 < Window THEN p + 1 ELSE 0
  <1>1. Window \in Nat /\ Window >= 1
    BY WindowRange
  <1>2. p + 1 \in Nat /\ p + 1 < 2 * Window
    BY <1>1 DEF Slots
  <1> QED
    BY <1>1, <1>2, ModTwice DEF Slots

\* Recording in a window that is not full.
LEMMA RecordShort ==
  ASSUME TypeOK, RingIs, NEW res \in {"failed", "succeeded"}, Record(res),
         Len(recent) < Window
  PROVE  /\ RingIs'
         /\ recent' = Append(recent, res)
         /\ win[pos] = "empty"
  <1>0. /\ Window \in Nat /\ Window >= 1 /\ pos \in Slots
        /\ recent \in Seq({"failed", "succeeded"}) /\ Len(recent) \in Nat
        /\ win \in [Slots -> {"empty", "failed", "succeeded"}]
    BY WindowRange DEF TypeOK
  <1>1. /\ pos = Len(recent)
        /\ \A s \in Slots : s >= pos => win[s] = "empty"
    BY DEF RingIs
  <1>2. recent' = Append(recent, res) /\ Len(recent') = Len(recent) + 1
    BY <1>0 DEF Record, Newest
  <1>3. win' = [win EXCEPT ![pos] = res]
    BY DEF Record
  <1>4. pos' = IF pos + 1 < Window THEN pos + 1 ELSE 0
    BY <1>0, NextPos DEF Record
  <1>5. pos' \in Slots
    BY <1>0, <1>4 DEF Slots
  <1>6. ASSUME NEW i \in 1 .. Len(recent)
        PROVE  win[i - 1] = recent[i]
    <2> DEFINE x == pos + Window - 1 - (Len(recent) - i)
    <2>1. x % Window = IF x < Window THEN x ELSE x - Window
      <3>1. Len(recent) \in 0 .. Window
        BY <1>0
      <3> QED
        BY <1>0, <3>1, SlotOf
    <2>2. x = Window + (i - 1)
      BY <1>0, <1>1
    <2>3. x % Window = i - 1
      BY <1>0, <2>1, <2>2
    <2> QED
      BY <2>3 DEF RingIs
  <1>7. ASSUME NEW i \in 1 .. Len(recent')
        PROVE  win'[(pos' + Window - 1 - (Len(recent') - i)) % Window] = recent'[i]
    <2> DEFINE x == pos' + Window - 1 - (Len(recent') - i)
    <2>1. i \in 1 .. Len(recent) + 1 /\ Len(recent') \in 0 .. Window
      BY <1>0, <1>2
    <2>2. x % Window = IF x < Window THEN x ELSE x - Window
      BY <2>1, <1>5, SlotOf
    <2>3. x % Window = i - 1
      <3>1. x = Window + (i - 1) \/ x = i - 1
        <4>1. CASE pos + 1 < Window
          BY <1>0, <1>1, <1>2, <1>4, <2>1, <4>1
        <4>2. CASE ~(pos + 1 < Window)
          <5>1. pos' = 0 /\ Len(recent') = Window
            BY <1>0, <1>1, <1>2, <1>4, <4>2
          <5> QED
            BY <1>0, <2>1, <5>1
        <4> QED
          BY <4>1, <4>2
      <3>2. i - 1 \in Nat /\ i - 1 < Window
        BY <1>0, <2>1, <1>2
      <3> HIDE DEF x
      <3> QED
        BY <1>0, <2>2, <3>1, <3>2
    <2>4. win'[i - 1] = recent'[i]
      <3>1. CASE i = Len(recent) + 1
        BY <1>0, <1>1, <1>2, <1>3, <3>1
      <3>2. CASE i # Len(recent) + 1
        <4>1. i \in 1 .. Len(recent) /\ i - 1 \in Slots /\ i - 1 # pos
          BY <1>0, <1>1, <2>1, <3>2 DEF Slots
        <4>2. recent'[i] = recent[i] /\ win'[i - 1] = win[i - 1]
          BY <1>0, <1>2, <1>3, <4>1
        <4> QED
          BY <1>6, <4>1, <4>2
      <3> QED
        BY <3>1, <3>2
    <2> QED
      BY <2>3, <2>4
  <1>8. Len(recent') < Window =>
          pos' = Len(recent') /\ \A s \in Slots : s >= pos' => win'[s] = "empty"
    BY <1>0, <1>1, <1>2, <1>3, <1>4 DEF Slots
  <1>9. win[pos] = "empty"
    BY <1>0, <1>1 DEF Slots
  <1> QED
    BY <1>0, <1>2, <1>7, <1>8, <1>9 DEF RingIs

\* Recording in a full window: the oldest outcome is where the ring stands.
LEMMA RecordFull ==
  ASSUME TypeOK, RingIs, NEW res \in {"failed", "succeeded"}, Record(res),
         Len(recent) = Window
  PROVE  /\ RingIs'
         /\ recent # <<>>
         /\ recent' = Append(Tail(recent), res)
         /\ win[pos] = recent[1]
  <1>0. /\ Window \in Nat /\ Window >= 1 /\ pos \in Slots /\ pos \in Nat /\ pos < Window
        /\ recent \in Seq({"failed", "succeeded"}) /\ Len(recent) \in Nat
        /\ win \in [Slots -> {"empty", "failed", "succeeded"}]
    BY WindowRange DEF TypeOK, Slots
  <1>1. recent # <<>> /\ Tail(recent) \in Seq({"failed", "succeeded"})
        /\ Len(Tail(recent)) = Window - 1
    BY <1>0
  <1>2. recent' = Append(Tail(recent), res) /\ Len(recent') = Window
    <2> DEFINE a == Append(recent, res)
    <2>1. a \in Seq({"failed", "succeeded"}) /\ Len(a) = Window + 1
      BY <1>0
    <2>2. recent' = SubSeq(a, 2, Window + 1)
      BY <1>0, <2>1 DEF Record, Newest
    <2>3. SubSeq(a, 2, Window + 1) = Tail(a)
      BY <2>1, <1>0, TailIsSubSeq
    <2>4. Tail(a) = Append(Tail(recent), res)
      BY <1>0, <1>1, HeadTailAppend
    <2> QED
      BY <1>0, <1>1, <2>2, <2>3, <2>4
  <1>3. win' = [win EXCEPT ![pos] = res]
    BY DEF Record
  <1>4. pos' = IF pos + 1 < Window THEN pos + 1 ELSE 0
    BY <1>0, NextPos DEF Record
  <1>5. pos' \in Slots
    BY <1>0, <1>4 DEF Slots
  <1>6. ASSUME NEW i \in 1 .. Window, NEW k \in Slots,
               k = pos + i - 1 \/ k = pos + i - 1 - Window
        PROVE  win[k] = recent[i]
    <2> DEFINE x == pos + Window - 1 - (Len(recent) - i)
    <2>1. x % Window = IF x < Window THEN x ELSE x - Window
      <3>1. Len(recent) \in 0 .. Window /\ i \in 1 .. Len(recent)
        BY <1>0
      <3> QED
        BY <1>0, <3>1, SlotOf
    <2>2. x = pos + i - 1
      BY <1>0
    <2>3. win[x % Window] = recent[i]
      BY <1>0 DEF RingIs
    <2>4. x % Window = k
      <3>1. k \in Nat /\ k < Window
        BY <1>0 DEF Slots
      <3> HIDE DEF x
      <3> QED
        BY <1>0, <1>6, <2>1, <2>2, <3>1
    <2> QED
      BY <2>3, <2>4
  <1>7. ASSUME NEW i \in 1 .. Window
        PROVE  win'[(pos' + Window - 1 - (Len(recent') - i)) % Window] = recent'[i]
    <2> DEFINE x == pos' + Window - 1 - (Len(recent') - i)
               y == x % Window
    <2>0. pos' \in Nat /\ Len(recent') = Window /\ Len(recent') \in 0 .. Window
      BY <1>0, <1>2, <1>5 DEF Slots
    <2>1. y = IF x < Window THEN x ELSE x - Window
      BY <1>0, <2>0, <1>5, SlotOf
    <2>2. x = pos' + i - 1
      BY <1>0, <2>0
    <2> HIDE DEF x, y
    <2>3. win'[y] = recent'[i]
      <3>1. CASE i = Window
        <4>1. y = pos
          BY <1>0, <1>4, <2>1, <2>2, <3>1
        <4>2. recent'[i] = res
          BY <1>0, <1>1, <1>2, <3>1
        <4> QED
          BY <1>0, <1>3, <4>1, <4>2
      <3>2. CASE i # Window
        <4>1. i + 1 \in 1 .. Window /\ i \in 1 .. Len(Tail(recent))
          BY <1>0, <1>1, <3>2
        <4>2. y = pos + (i + 1) - 1 \/ y = pos + (i + 1) - 1 - Window
          BY <1>0, <1>4, <2>1, <2>2, <3>2
        <4>3. y # pos /\ y \in Slots
          BY <1>0, <1>4, <2>1, <2>2, <3>2 DEF Slots
        <4>4. recent'[i] = recent[i + 1]
          BY <1>0, <1>1, <1>2, <4>1
        <4>5. win[y] = recent[i + 1]
          BY <1>6, <4>1, <4>2, <4>3
        <4> QED
          BY <1>0, <1>3, <4>3, <4>4, <4>5
      <3> QED
        BY <3>1, <3>2
    <2> QED
      BY <2>3 DEF x, y
  <1>8. win[pos] = recent[1]
    BY <1>0, <1>6
  <1>9. \A i \in 1 .. Len(recent') :
          win'[(pos' + Window - 1 - (Len(recent') - i)) % Window] = recent'[i]
    BY <1>2, <1>7
  <1>10. RingIs'
    <2>1. Len(recent') <= Window /\ ~(Len(recent') < Window)
      BY <1>0, <1>2
    <2> QED
      BY <2>1, <1>9, Zenon DEF RingIs
  <1> QED
    BY <1>1, <1>2, <1>8, <1>10

\* The strengthening of WindowAgrees: the counters, and where the outcomes are.
WindowInv ==
  /\ nfail = CountIn(recent, "failed")
  /\ nsucc = CountIn(recent, "succeeded")
  /\ RingIs

\* Recording an outcome keeps counters and slots in step.
LEMMA RecordWindow ==
  ASSUME TypeOK, WindowInv, NEW res \in {"failed", "succeeded"}, Record(res)
  PROVE  WindowInv'
  <1>0. recent \in Seq({"failed", "succeeded"}) /\ Len(recent) \in Nat /\ Window \in Nat
    BY WindowRange DEF TypeOK
  <1>1. /\ nfail' = NewFail(res) /\ nsucc' = NewSucc(res)
        /\ nfail = CountIn(recent, "failed") /\ nsucc = CountIn(recent, "succeeded")
        /\ RingIs
    BY DEF Record, WindowInv
  <1>2. CountIn(recent, "failed") \in Nat /\ CountIn(recent, "succeeded") \in Nat
    BY <1>0, CountFinite
  <1>3. CASE Len(recent) < Window
    <2>1. RingIs' /\ recent' = Append(recent, res) /\ win[pos] = "empty"
      BY <1>1, <1>3, RecordShort
    <2>2. /\ CountIn(recent', "failed") = CountIn(recent, "failed") + (IF res = "failed" THEN 1 ELSE 0)
          /\ CountIn(recent', "succeeded") = CountIn(recent, "succeeded") + (IF res = "succeeded" THEN 1 ELSE 0)
      BY <1>0, <2>1, CountAppend
    <2>3. nfail' = CountIn(recent', "failed") /\ nsucc' = CountIn(recent', "succeeded")
      BY <1>1, <1>2, <2>1, <2>2 DEF NewFail, NewSucc
    <2> QED
      BY <2>1, <2>3 DEF WindowInv, CountIn
  <1>4. CASE Len(recent) = Window
    <2>1. RingIs' /\ recent # <<>> /\ recent' = Append(Tail(recent), res) /\ win[pos] = recent[1]
      BY <1>1, <1>4, RecordFull
    <2>2. Tail(recent) \in Seq({"failed", "succeeded"})
      BY <1>0, <2>1, HeadTailProperties
    <2>3. /\ CountIn(recent', "failed") = CountIn(Tail(recent), "failed") + (IF res = "failed" THEN 1 ELSE 0)
          /\ CountIn(recent', "succeeded") = CountIn(Tail(recent), "succeeded") + (IF res = "succeeded" THEN 1 ELSE 0)
      <3> DEFINE rest == Tail(recent)
      <3>1. rest \in Seq({"failed", "succeeded"}) /\ recent' = Append(rest, res)
        BY <2>1, <2>2
      <3> HIDE DEF rest
      <3>2. /\ CountIn(recent', "failed") = CountIn(rest, "failed") + (IF res = "failed" THEN 1 ELSE 0)
            /\ CountIn(recent', "succeeded") = CountIn(rest, "succeeded") + (IF res = "succeeded" THEN 1 ELSE 0)
        BY <3>1, CountAppend
      <3> QED
        BY <3>2 DEF rest
    <2>4. /\ CountIn(Tail(recent), "failed") = CountIn(recent, "failed") - (IF recent[1] = "failed" THEN 1 ELSE 0)
          /\ CountIn(Tail(recent), "succeeded") = CountIn(recent, "succeeded") - (IF recent[1] = "succeeded" THEN 1 ELSE 0)
      BY <1>0, <2>1, CountTail
    <2>5. nfail' = CountIn(recent', "failed") /\ nsucc' = CountIn(recent', "succeeded")
      BY <1>1, <1>2, <2>1, <2>3, <2>4 DEF NewFail, NewSucc
    <2> QED
      BY <2>1, <2>5 DEF WindowInv, CountIn
  <1> QED
    BY <1>0, <1>1, <1>3, <1>4 DEF RingIs

\* Nothing is counted in no outcomes.
LEMMA CountNone ==
  ASSUME NEW r
  PROVE  CountIn(<<>>, r) = 0
  <1>1. {i \in 1 .. Len(<<>>) : <<>>[i] = r} = {}
    OBVIOUS
  <1> QED
    BY <1>1, FS_EmptySet DEF CountIn

\* Every step keeps the window.
LEMMA WindowStep == TypeOK /\ WindowInv /\ [Next]_vars => WindowInv'
  <1> SUFFICES ASSUME TypeOK, WindowInv, [Next]_vars PROVE WindowInv'
    OBVIOUS
  <1>1. ASSUME UNCHANGED winVars PROVE WindowInv'
    BY <1>1 DEF winVars, WindowInv, RingIs, CountIn
  <1>2. ASSUME ClearWindow PROVE WindowInv'
    <2>1. /\ win' = EmptyWindow /\ pos' = 0 /\ nfail' = 0 /\ nsucc' = 0 /\ recent' = <<>>
      BY <1>2 DEF ClearWindow
    <2>2. CountIn(<<>>, "failed") = 0 /\ CountIn(<<>>, "succeeded") = 0
      BY CountNone
    <2>3. RingIs'
      BY <2>1, WindowRange DEF RingIs, EmptyWindow, Slots
    <2> QED
      BY <2>1, <2>2, <2>3 DEF WindowInv, CountIn
  <1>3. ASSUME NEW c \in Calls, Allow(c) \/ NoReport(c) PROVE WindowInv'
    BY <1>1, <1>3 DEF Allow, AllowClosed, AllowFirstProbe, AllowProbe, NoReport
  <1>4. ASSUME NEW c \in Calls, OnSuccess(c) PROVE WindowInv'
    BY <1>2, <1>4, RecordWindow DEF OnSuccess, SuccessBody
  <1>5. ASSUME FailureBody PROVE WindowInv'
    BY <1>5, RecordWindow DEF FailureBody
  <1>6. CASE Tick \/ UNCHANGED vars
    BY <1>1, <1>6 DEF Tick, vars, winVars
  <1> QED
    BY <1>3, <1>4, <1>5, <1>6 DEF Next, Report, OnFailure, OnConnectionUnavailable

\* Initially the window is empty.
LEMMA WindowInit == Init => WindowInv
  <1> SUFFICES ASSUME Init PROVE WindowInv
    OBVIOUS
  <1>1. CountIn(recent, "failed") = 0 /\ CountIn(recent, "succeeded") = 0
    BY CountNone DEF Init
  <1>2. RingIs
    BY WindowRange DEF Init, RingIs, EmptyWindow, Slots
  <1> QED
    BY <1>1, <1>2 DEF Init, WindowInv

\* The counters and the slots are the sliding window of the last outcomes.
THEOREM Windowing == Spec => []WindowAgrees
  <1>1. WindowInv => WindowAgrees
    BY DEF WindowInv, RingIs, WindowAgrees
  <1> QED
    BY <1>1, WindowInit, WindowStep, TypeCorrect, PTL DEF Spec

\* The breaker's bookkeeping is right for every configuration: types, window
\* and probes.
THEOREM Safety == Spec => []BreakerSafe
  BY TypeCorrect, Windowing, Probing, PTL DEF BreakerSafe

\* A CLOSED breaker opens only on min_calls fresh outcomes with the failure
\* ratio reached: the counters that shouldOpen() reads are those outcomes.
THEOREM OpensFresh == Spec => OpensOnFreshRatio
  <1> DEFINE Fresh == state = "CLOSED" /\ state' = "OPEN" =>
                        /\ Len(recent') >= Least
                        /\ CountIn(recent', "failed") * 100 >= Len(recent') * Percent
  <1>1. TypeOK /\ TypeOK' /\ WindowInv /\ WindowInv' /\ [Next]_vars => [Fresh]_vars
    <2> SUFFICES ASSUME TypeOK, TypeOK', WindowInv', [Next]_vars,
                        state = "CLOSED", state' = "OPEN"
                 PROVE  /\ Len(recent') >= Least
                        /\ CountIn(recent', "failed") * 100 >= Len(recent') * Percent
      OBVIOUS
    <2>1. FailureBody
      BY DEF Next, Report, Allow, AllowClosed, AllowFirstProbe, AllowProbe, OnSuccess,
             SuccessBody, OnFailure, OnConnectionUnavailable, NoReport, Tick, vars
    <2>2. ShouldOpen(nfail', nsucc')
      BY <2>1 DEF FailureBody, Trips, Record
    <2>3. nfail' = CountIn(recent', "failed") /\ nsucc' = CountIn(recent', "succeeded")
      BY DEF WindowInv, CountIn
    <2>4. nfail' + nsucc' = Len(recent')
      <3>1. recent' \in Seq({"failed", "succeeded"})
        BY DEF TypeOK
      <3> QED
        BY <2>3, <3>1, CountAll
    <2> QED
      BY <2>2, <2>3, <2>4 DEF ShouldOpen
  <1> QED
    BY <1>1, WindowInit, WindowStep, TypeCorrect, PTL DEF Spec, OpensOnFreshRatio

---------------------------------------------------------------------------
(* The table of breakers, the module CircuitBreaker.                       *)

\* The calls of a thread by where they are: a call that has found no breaker
\* has no object yet, and only one that is about to save has a status.
TableCalls ==
  LET Of(places, objs) == [pc : places, op : Ops, key : Keys, obj : objs]
  IN  {NoCall} \cup Of({"load"}, {0}) \cup Of({"insert", "act", "copy"}, Objs)
        \cup [pc : {"save"}, op : Ops, key : Keys, obj : Objs,
              status : States]

\* The table's inductive invariant.
TableInv == TableTypeOK /\ OneBreaker /\ call \in [Threads -> TableCalls]

\* What a call in progress is, by its place.
LEMMA TableCallIs ==
  ASSUME TableInv, NEW t \in Threads
  PROVE  /\ call[t] \in TableCalls
         /\ ~At(t, "idle") => call[t].op \in Ops /\ call[t].key \in Keys
         /\ At(t, "load") => call[t] \in [pc : {"load"}, op : Ops, key : Keys, obj : {0}]
         /\ call[t].pc \in {"insert", "act", "copy"} =>
              call[t] \in [pc : {"insert", "act", "copy"}, op : Ops, key : Keys, obj : Objs]
         /\ At(t, "save") => call[t].status \in States
  BY DEF TableInv, TableCalls, NoCall, At

\* A thread's new call keeps the invariant when the rest of the table stays and
\* the call has the breaker of its key.
LEMMA TableCallStep ==
  ASSUME TableInv, NEW t \in Threads, NEW c \in TableCalls,
         call' = [call EXCEPT ![t] = c],
         c.pc \in {"act", "copy", "save"}
           => c.obj = nodes[c.key] \/ c.obj \in removed,
         UNCHANGED <<nodes, removed>>
  PROVE  /\ call' \in [Threads -> TableCalls]
         /\ OneBreaker'
         /\ \A u \in Threads :
              \/ call'[u] = NoCall
              \/ /\ call'[u].pc \in {"load", "insert", "act", "copy", "save"}
                 /\ call'[u].op \in Ops /\ call'[u].key \in Keys
                 /\ call'[u].obj \in IF call'[u].pc = "load" THEN {0} ELSE Objs
  <1>1. call' \in [Threads -> TableCalls]
    BY DEF TableInv
  <1>2. OneBreaker'
    BY DEF TableInv, OneBreaker
  <1>3. ASSUME NEW d \in TableCalls
        PROVE  \/ d = NoCall
               \/ /\ d.pc \in {"load", "insert", "act", "copy", "save"}
                  /\ d.op \in Ops /\ d.key \in Keys
                  /\ d.obj \in IF d.pc = "load" THEN {0} ELSE Objs
    BY <1>3 DEF TableCalls
  <1> QED
    BY <1>1, <1>2, <1>3

\* Every step of a thread or of a removal keeps the invariant.
LEMMA TableStep ==
  ASSUME TableInv, [TableNext]_allVars
  PROVE  TableInv'
  <1> USE DEF At
  <1>0. MaxObjs \in Nat /\ MaxRemovals \in Nat
    BY TableAssumption
  <1> USE <1>0
  <1>1. ASSUME NEW t \in Threads, NEW o \in Ops, NEW k \in Keys,
               Lookup(t, o, k)
        PROVE  TableInv'
    <2> DEFINE c == [pc |-> IF nodes[k] = 0 THEN "load" ELSE "act",
                     op |-> o, key |-> k, obj |-> nodes[k]]
    <2>1. nodes[k] \in 0 .. MaxObjs
      BY DEF TableInv, TableTypeOK
    <2>2. c \in TableCalls
      BY <2>1 DEF TableCalls, Objs
    <2>3. call' = [call EXCEPT ![t] = c]
      BY <1>1 DEF Lookup
    <2>4. UNCHANGED <<nodes, removed>>
      BY <1>1 DEF Lookup, tableVars
    <2>5. c.pc \in {"act", "copy", "save"} => c.obj = nodes[c.key] \/ c.obj \in removed
      OBVIOUS
    <2> HIDE DEF c
    <2> QED
      BY <1>1, <2>2, <2>3, <2>4, <2>5, TableCallStep
      DEF TableInv, TableTypeOK, Lookup, tableVars
  <1>2. ASSUME NEW t \in Threads, Load(t) PROVE TableInv'
    <2> DEFINE c == [call[t] EXCEPT !.pc = "insert", !.obj = made + 1]
    <2>1. made \in 0 .. MaxObjs /\ made < MaxObjs
      BY <1>2 DEF TableInv, TableTypeOK, Load
    <2>2. call[t] \in [pc : {"load"}, op : Ops, key : Keys, obj : {0}]
      BY <1>2, TableCallIs DEF Load
    <2>0. made + 1 \in Objs
      BY <2>1 DEF Objs
    <2>3. c \in [pc : {"insert", "act", "copy"}, op : Ops, key : Keys, obj : Objs]
      BY <2>0, <2>2
    <2>4. c \in TableCalls /\ c.pc = "insert"
      BY <2>2, <2>3 DEF TableCalls
    <2>5. call' = [call EXCEPT ![t] = c]
      BY <1>2 DEF Load, TableInv
    <2>6. UNCHANGED <<nodes, removed>>
      BY <1>2 DEF Load, tableVars
    <2>7. Loaded(call[t].key) \subseteq States
      BY <2>2 DEF TableInv, TableTypeOK, Loaded, States
    <2>8. mode' \in [Objs -> States] /\ made' \in 0 .. MaxObjs
      BY <1>2, <2>1, <2>7 DEF TableInv, TableTypeOK, Load, Objs
    <2> HIDE DEF c
    <2>9. c.pc \notin {"act", "copy", "save"}
      BY <2>4
    <2>10. UNCHANGED <<store, removing, removals>>
      BY <1>2 DEF Load, tableVars
    <2> QED
      BY <2>4, <2>5, <2>6, <2>8, <2>9, <2>10, TableCallStep DEF TableInv, TableTypeOK
  <1>3. ASSUME NEW t \in Threads, Insert(t) PROVE TableInv'
    <2> DEFINE k == call[t].key
    <2>1. call[t] \in [pc : {"insert", "act", "copy"}, op : Ops, key : Keys, obj : Objs]
      BY <1>3, TableCallIs DEF Insert
    <2>2. k \in Keys /\ nodes[k] \in 0 .. MaxObjs /\ nodes \in [Keys -> 0 .. MaxObjs]
      BY <2>1 DEF TableInv, TableTypeOK
    <2>3. CASE nodes[k] = 0
      <3> DEFINE c == [call[t] EXCEPT !.pc = "act"]
      <3>1. c \in [pc : {"insert", "act", "copy"}, op : Ops, key : Keys, obj : Objs]
        BY <2>1
      <3>2. c \in TableCalls /\ c.pc = "act" /\ c.key = k /\ c.obj = call[t].obj
        BY <2>1, <3>1 DEF TableCalls
      <3>3. call' = [call EXCEPT ![t] = c] /\ nodes' = [nodes EXCEPT ![k] = call[t].obj]
        BY <1>3, <2>3 DEF Insert, TableInv
      <3> HIDE DEF c
      <3>4. call' \in [Threads -> TableCalls]
        BY <3>2, <3>3 DEF TableInv
      <3>5. nodes' \in [Keys -> 0 .. MaxObjs]
        BY <2>1, <2>2, <3>3 DEF Objs
      <3>6. OneBreaker'
        <4> SUFFICES ASSUME NEW u \in Threads, call'[u].pc \in {"act", "copy", "save"}
                     PROVE  call'[u].obj = nodes'[call'[u].key] \/ call'[u].obj \in removed'
          BY DEF OneBreaker
        <4>1. CASE u = t
          BY <4>1, <2>2, <3>2, <3>3 DEF TableInv
        <4>2. CASE u # t
          <5>1. call'[u] = call[u] /\ call[u] \in TableCalls
            BY <4>2, <3>3 DEF TableInv
          <5>2. call[u].key \in Keys /\ call[u].obj \in Objs
            BY <5>1 DEF TableCalls, NoCall
          <5>3. call[u].obj = nodes[call[u].key] \/ call[u].obj \in removed
            BY <5>1 DEF TableInv, OneBreaker
          <5>4. call[u].key = k => call[u].obj \in removed
            BY <5>2, <5>3, <2>3 DEF Objs
          <5>5. removed' = removed
            BY <1>3 DEF Insert
          <5> QED
            BY <5>1, <5>2, <5>3, <5>4, <5>5, <2>2, <3>3
        <4> QED
          BY <4>1, <4>2
      <3>7. \A u \in Threads : call'[u] \in TableCalls
        BY <3>4
      <3> QED
        BY <1>3, <3>4, <3>5, <3>6, <3>7
        DEF TableInv, TableTypeOK, Insert, TableCalls
    <2>4. CASE nodes[k] # 0
      <3> DEFINE c == [call[t] EXCEPT !.pc = "act", !.obj = nodes[k]]
      <3>0. nodes[k] \in Objs
        BY <2>2, <2>4 DEF Objs
      <3>1. c \in [pc : {"insert", "act", "copy"}, op : Ops, key : Keys, obj : Objs]
        BY <2>1, <3>0
      <3>2. c \in TableCalls /\ c.key = k /\ c.obj = nodes[k]
        BY <2>1, <3>1 DEF TableCalls
      <3>3. call' = [call EXCEPT ![t] = c] /\ UNCHANGED <<nodes, removed>>
        BY <1>3, <2>4 DEF Insert, TableInv
      <3> HIDE DEF c
      <3> QED
        BY <1>3, <3>2, <3>3, TableCallStep DEF TableInv, TableTypeOK, Insert
    <2> QED
      BY <2>3, <2>4
  <1>4. ASSUME NEW t \in Threads, Act(t) PROVE TableInv'
    <2>1. call[t] \in [pc : {"insert", "act", "copy"}, op : Ops, key : Keys, obj : Objs]
      BY <1>4, TableCallIs DEF Act
    <2>2. PICK s \in States, b \in BOOLEAN : Moves(t, s, b)
      <3>1. mode[call[t].obj] \in States
        BY <2>1 DEF TableInv, TableTypeOK
      <3> QED
        BY <1>4, <3>1 DEF Act, States
    <2> DEFINE c == IF b THEN [call[t] EXCEPT !.pc = "copy"] ELSE NoCall
    <2>3. c \in TableCalls
      <3>1. [call[t] EXCEPT !.pc = "copy"] \in
              [pc : {"insert", "act", "copy"}, op : Ops, key : Keys, obj : Objs]
        BY <2>1
      <3> QED
        BY <3>1 DEF TableCalls
    <2>4. call' = [call EXCEPT ![t] = c] /\ UNCHANGED <<nodes, removed>>
      BY <1>4, <2>2 DEF Act, Moves, tableVars, TableInv
    <2>5. c.pc \in {"act", "copy", "save"} => c.obj = nodes[c.key] \/ c.obj \in removed
      BY <1>4, <2>1 DEF Act, TableInv, OneBreaker, NoCall
    <2>6. mode' \in [Objs -> States]
      BY <2>1, <2>2 DEF Moves, TableInv, TableTypeOK
    <2> HIDE DEF c
    <2> QED
      BY <1>4, <2>3, <2>4, <2>5, <2>6, TableCallStep
      DEF TableInv, TableTypeOK, Act, tableVars
  <1>5. ASSUME NEW t \in Threads, Copy(t) PROVE TableInv'
    <2>1. call[t] \in [pc : {"insert", "act", "copy"}, op : Ops, key : Keys, obj : Objs]
      BY <1>5, TableCallIs DEF Copy
    <2> DEFINE c == [pc |-> "save", op |-> call[t].op, key |-> call[t].key,
                     obj |-> call[t].obj, status |-> mode[call[t].obj]]
    <2>2. mode[call[t].obj] \in States
      BY <2>1 DEF TableInv, TableTypeOK
    <2>3. c \in TableCalls
      BY <2>1, <2>2 DEF TableCalls
    <2>4. call' = [call EXCEPT ![t] = c] /\ UNCHANGED <<nodes, removed>>
      BY <1>5 DEF Copy, tableVars, TableInv
    <2>5. c.pc \in {"act", "copy", "save"} => c.obj = nodes[c.key] \/ c.obj \in removed
      BY <1>5 DEF Copy, TableInv, OneBreaker
    <2> HIDE DEF c
    <2> QED
      BY <1>5, <2>3, <2>4, <2>5, TableCallStep
      DEF TableInv, TableTypeOK, Copy, tableVars
  <1>6. ASSUME NEW t \in Threads, Save(t) PROVE TableInv'
    <2> DEFINE c == NoCall
    <2>1. c \in TableCalls /\ c.pc \notin {"act", "copy", "save"}
      BY DEF TableCalls, NoCall
    <2>2. call' = [call EXCEPT ![t] = c] /\ UNCHANGED <<nodes, removed>>
      BY <1>6 DEF Save, tableVars
    <2>3. store' \in [Keys -> States \cup {"none"}]
      BY <1>6, TableCallIs DEF Save, TableInv, TableTypeOK
    <2> HIDE DEF c
    <2> QED
      BY <1>6, <2>1, <2>2, <2>3, TableCallStep
      DEF TableInv, TableTypeOK, Save, tableVars
  <1>7. ASSUME NEW h \in Hosts, RemoveHost(h) PROVE TableInv'
    <2>1. nodes \in [Keys -> 0 .. MaxObjs] /\ removed \subseteq Objs
      BY DEF TableInv, TableTypeOK
    <2>2. Methods \X {h} \subseteq Keys
      BY DEF Keys
    <2>3. nodes' \in [Keys -> 0 .. MaxObjs]
      BY <1>7, <2>1 DEF RemoveHost
    <2>4. removed' \subseteq Objs
      <3>1. \A k \in Methods \X {h} : nodes[k] \in Objs \cup {0}
        BY <2>1, <2>2 DEF Objs
      <3> QED
        BY <1>7, <2>1, <3>1 DEF RemoveHost
    <2>5. store' \in [Keys -> States \cup {"none"}]
      BY <1>7 DEF RemoveHost, TableInv, TableTypeOK
    <2>6. OneBreaker'
      <3> SUFFICES ASSUME NEW u \in Threads, call[u].pc \in {"act", "copy", "save"}
                   PROVE  call[u].obj = nodes'[call[u].key] \/ call[u].obj \in removed'
        BY <1>7 DEF RemoveHost, OneBreaker
      <3> DEFINE k == call[u].key
      <3>1. k \in Keys /\ call[u].obj \in Objs
        BY DEF TableInv, TableCalls, NoCall
      <3>2. call[u].obj = nodes[k] \/ call[u].obj \in removed
        BY DEF TableInv, OneBreaker
      <3>3. CASE k[2] = h
        <4>1. k \in Methods \X {h}
          BY <3>1, <3>3 DEF Keys
        <4>2. call[u].obj # 0
          BY <3>1 DEF Objs
        <4> HIDE DEF k
        <4> QED
          BY <3>2, <4>1, <4>2, <1>7 DEF RemoveHost
      <3>4. CASE k[2] # h
        BY <3>1, <3>2, <3>4, <1>7 DEF RemoveHost
      <3> QED
        BY <3>3, <3>4
    <2> QED
      BY <1>7, <2>3, <2>4, <2>5, <2>6 DEF TableInv, TableTypeOK, RemoveHost
  <1>8. ASSUME NEW k \in Keys, RemoveStored(k) PROVE TableInv'
    BY <1>8 DEF TableInv, TableTypeOK, RemoveStored, OneBreaker
  <1>9. ASSUME NEW k \in Keys, RemoveNode(k) PROVE TableInv'
    <2>1. nodes \in [Keys -> 0 .. MaxObjs] /\ removed \subseteq Objs
      BY DEF TableInv, TableTypeOK
    <2>0. nodes[k] \in Objs \cup {0} /\ 0 \in 0 .. MaxObjs
      BY <2>1 DEF Objs
    <2>2. nodes' \in [Keys -> 0 .. MaxObjs] /\ removed' \subseteq Objs
      BY <1>9, <2>0, <2>1 DEF RemoveNode
    <2>3. \A u \in Threads : call[u].pc \in {"act", "copy", "save"} =>
            call[u].key \in Keys /\ call[u].obj # 0
      BY DEF TableInv, TableCalls, NoCall, Objs
    <2>4. OneBreaker'
      BY <1>9, <2>1, <2>3 DEF RemoveNode, TableInv, OneBreaker
    <2> QED
      BY <1>9, <2>2, <2>4 DEF TableInv, TableTypeOK, RemoveNode
  <1>10. CASE UNCHANGED allVars
    BY <1>10 DEF TableInv, TableTypeOK, OneBreaker, allVars
  <1> QED
    BY <1>1, <1>2, <1>3, <1>4, <1>5, <1>6, <1>7, <1>8, <1>9, <1>10 DEF TableNext

\* The table is safe for any number of methods, hosts and threads: types, and
\* every outcome is counted by the breaker in the table or by one that was
\* removed from it.
THEOREM TableIsSafe == TableSpec => []TableSafe
  <1>1. TableInit => TableInv
    BY TableAssumption DEF TableInv, TableCalls, TableInit, TableTypeOK, OneBreaker, NoCall,
           States, Objs, At
  <1>2. TableInv /\ [TableNext]_allVars => TableInv'
    BY TableStep
  <1>3. TableInv => TableSafe
    BY DEF TableInv, TableSafe
  <1> QED
    BY <1>1, <1>2, <1>3, PTL DEF TableSpec
=============================================================================
