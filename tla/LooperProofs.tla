---------------------------- MODULE LooperProofs ----------------------------
(***************************************************************************)
(* Machine-checked proofs about the asynchronous logger's two buffers, for *)
(* any threads, record lengths, capacity, threshold and increment.         *)
(***************************************************************************)
EXTENDS AsyncLooper, SequenceTheorems, TLAPS

Buffers == [recs : Seq(Nat), used : Nat, size : Nat]

Ids(n) == [i \in 1 .. n |-> i]

\* The inductive invariant: between two steps the buffer that the worker
\* writes out is empty, so what was pushed is what was written and then what
\* the production buffer holds.
LooperInv ==
  /\ TypeOK
  /\ pro \in Buffers /\ con \in Buffers
  /\ con.recs = <<>> /\ con.used = 0
  /\ written \o pro.recs = Ids(pushed)

LEMMA Config ==
  /\ Capacity \in Nat /\ Threshold \in Nat /\ Increment \in Nat /\ MaxRecs \in Nat
  /\ \A n \in Lens \cup {0} : n \in Nat
  BY LooperAssumption

\* Pushing a record behind a concatenation.
LEMMA AppendBehind ==
  ASSUME NEW s \in Seq(Nat), NEW r \in Seq(Nat), NEW e \in Nat
  PROVE  s \o Append(r, e) = Append(s \o r, e)
  OBVIOUS

\* The numbers of the records in the order in which they were pushed.
LEMMA IdsStep ==
  ASSUME NEW n \in Nat
  PROVE  Append(Ids(n), n + 1) = Ids(n + 1)
  <1>1. Ids(n) \in Seq(Nat) /\ Len(Ids(n)) = n
    BY DEF Ids
  <1> QED
    BY <1>1 DEF Ids

\* getenoughsize makes room: what is used still fits the allocation after n
\* more bytes, which allocation step it may take.
LEMMA GrownFits ==
  ASSUME NEW b \in Buffers, b.used <= b.size, NEW n \in Nat
  PROVE  Grown(b, n) \in Nat /\ b.used + n <= Grown(b, n)
  <1>1. b.used \in Nat /\ b.size \in Nat
    BY DEF Buffers
  <1> QED
    BY <1>1, Config DEF Grown, Room

\* A buffer's part of the type invariant.
LEMMA BufferIs ==
  ASSUME NEW b \in Buffers, b.used <= b.size
  PROVE  b.recs \in Seq(Nat) /\ b.used \in 0 .. b.size /\ b.size \in Nat
  BY DEF Buffers

\* A push keeps the buffers.
LEMMA PushKeeps ==
  ASSUME LooperInv, NEW t \in Threads, NEW n \in Lens \cup {0}, PushBody(t, n),
         UNCHANGED <<con, written>>
  PROVE  /\ pro' \in Buffers /\ pro'.used <= pro'.size
         /\ pushed' \in 0 .. MaxRecs
         /\ written' \o pro'.recs = Ids(pushed')
  <1>1. n \in Nat /\ pushed \in Nat /\ pushed < MaxRecs /\ pushed' = pushed + 1
    BY Config DEF PushBody, LooperInv, TypeOK
  <1>2. pro \in Buffers /\ pro.used <= pro.size
    BY DEF LooperInv, TypeOK, Buffers
  <1>3. Grown(pro, n) \in Nat /\ pro.used + n <= Grown(pro, n)
    BY <1>1, <1>2, GrownFits
  <1>4. pro' = [recs |-> Append(pro.recs, pushed + 1), used |-> pro.used + n, size |-> Grown(pro, n)]
    BY DEF PushBody, BufferPush
  <1>5. pro' \in Buffers
    BY <1>1, <1>2, <1>3, <1>4 DEF Buffers
  <1>6. written' \o pro'.recs = Append(written \o pro.recs, pushed + 1)
    <2>1. pro.recs \in Seq(Nat)
      BY <1>2 DEF Buffers
    <2>2. written \in Seq(Nat) /\ written' = written
      BY DEF LooperInv, TypeOK
    <2>3. pro'.recs = Append(pro.recs, pushed + 1)
      BY <1>4
    <2>4. pushed + 1 \in Nat
      BY <1>1
    <2>5. written \o Append(pro.recs, pushed + 1) = Append(written \o pro.recs, pushed + 1)
      <3> DEFINE r == pro.recs
                 e == pushed + 1
      <3>1. r \in Seq(Nat) /\ e \in Nat
        BY <2>1, <2>4
      <3> HIDE DEF r, e
      <3>2. written \o Append(r, e) = Append(written \o r, e)
        BY <2>2, <3>1, AppendBehind
      <3> QED
        BY <3>2 DEF r, e
    <2> QED
      BY <2>2, <2>3, <2>5
  <1>7. written' \o pro'.recs = Ids(pushed')
    BY <1>1, <1>6, IdsStep DEF LooperInv
  <1>8. pro'.used <= pro'.size
    BY <1>3, <1>4
  <1>9. pushed' \in 0 .. MaxRecs
    BY <1>1, Config
  <1> QED
    BY <1>5, <1>7, <1>8, <1>9

\* Every step keeps the invariant.
LEMMA LooperStep == LooperInv /\ [Next]_vars => LooperInv'
  <1> SUFFICES ASSUME LooperInv, [Next]_vars PROVE LooperInv'
    OBVIOUS
  <1>0. /\ pro \in Buffers /\ con \in Buffers /\ con.recs = <<>> /\ con.used = 0
        /\ pro.recs \in Seq(Nat) /\ pro.size \in Nat /\ pro.used \in Nat /\ pro.used <= pro.size
        /\ con.size \in Nat
    BY DEF LooperInv, TypeOK, Buffers
  <1>1. ASSUME NEW t \in Threads, NEW n \in Lens \cup {0}, PushBody(t, n),
               plen' \in [Threads -> Lens \cup {0}], UNCHANGED <<stop, con, spc, written>>
        PROVE  LooperInv'
    <2>1. /\ pro' \in Buffers /\ pro'.used <= pro'.size
          /\ pushed' \in 0 .. MaxRecs
          /\ written' \o pro'.recs = Ids(pushed')
      BY <1>1, PushKeeps
    <2>2. pro'.recs \in Seq(Nat) /\ pro'.used \in Nat /\ pro'.size \in Nat
      BY <2>1 DEF Buffers
    <2>3. lock' = "free" /\ wpc' = (IF wpc = "blocked" THEN "woken" ELSE wpc)
            /\ ppc' = [ppc EXCEPT ![t] = "idle"]
      BY <1>1 DEF PushBody
    <2>4. lock' \in Threads \cup {"free", "worker"}
            /\ wpc' \in {"top", "pred", "blocked", "woken", "exit"}
            /\ ppc' \in [Threads -> {"idle", "pred", "blocked", "woken"}]
      BY <2>3 DEF LooperInv, TypeOK
    <2>5. \A b \in {pro', con'} : b.recs \in Seq(Nat) /\ b.used \in 0 .. b.size /\ b.size \in Nat
      <3>1. con' = con /\ con.used <= con.size
        BY <1>0, <1>1
      <3> QED
        BY <1>0, <2>1, <3>1, BufferIs
    <2>6. TypeOK'
      BY <1>1, <2>1, <2>4, <2>5 DEF LooperInv, TypeOK
    <2> QED
      BY <1>0, <1>1, <2>1, <2>6 DEF LooperInv
  <1>2. ASSUME NEW t \in Threads, PushWait(t), plen' \in [Threads -> Lens \cup {0}],
               UNCHANGED <<stop, con, spc, written>>
        PROVE  LooperInv'
    BY <1>2 DEF PushWait, LooperInv, TypeOK
  <1>3. ASSUME NEW t \in Threads, NEW n \in Lens, Push(t, n) PROVE LooperInv'
    <2>1. plen' \in [Threads -> Lens \cup {0}]
      BY <1>3 DEF Push, LooperInv, TypeOK
    <2> QED
      BY <1>1, <1>2, <1>3, <2>1 DEF Push
  <1>4. ASSUME NEW t \in Threads, PushResumes(t) PROVE LooperInv'
    <2>1. plen[t] \in Lens \cup {0} /\ plen' \in [Threads -> Lens \cup {0}]
      BY <1>4 DEF PushResumes, LooperInv, TypeOK
    <2> QED
      BY <1>1, <1>2, <1>4, <2>1 DEF PushResumes
  <1>5. ASSUME NEW t \in Threads, PushBlocks(t) PROVE LooperInv'
    BY <1>5 DEF PushBlocks, LooperInv, TypeOK
  <1>6. ASSUME Drain, UNCHANGED <<stop, plen, spc, pushed>> PROVE LooperInv'
    <2>1. written' = written \o pro.recs /\ con' = EmptyBuffer(pro.size) /\ pro' = con
            /\ wpc' = "top" /\ lock' = "free"
      BY <1>6 DEF Drain
    <2>2. written' \in Seq(Nat)
      <3>1. written \in Seq(Nat)
        BY DEF LooperInv, TypeOK
      <3> QED
        BY <1>0, <2>1, <3>1
    <2>3. con' \in Buffers /\ con'.recs = <<>> /\ con'.used = 0 /\ con'.size = pro.size
      BY <1>0, <2>1 DEF EmptyBuffer, Buffers
    <2>4. written' \o pro'.recs = Ids(pushed')
      <3>1. pro'.recs = <<>> /\ written' = Ids(pushed)
        BY <1>0, <2>1 DEF LooperInv
      <3>2. written' \o <<>> = written'
        BY <2>2
      <3> QED
        BY <1>6, <3>1, <3>2
    <2>5. ppc' \in [Threads -> {"idle", "pred", "blocked", "woken"}]
      BY <1>6 DEF Drain, WakeThreads, LooperInv, TypeOK
    <2>6. \A b \in {pro', con'} : b.recs \in Seq(Nat) /\ b.used \in 0 .. b.size /\ b.size \in Nat
      <3>1. con.used <= con.size /\ con'.used <= con'.size
        BY <1>0, <2>3
      <3> QED
        BY <1>0, <2>1, <2>3, <3>1, BufferIs
    <2>7. TypeOK'
      BY <1>6, <2>1, <2>2, <2>5, <2>6 DEF LooperInv, TypeOK
    <2> QED
      BY <1>0, <2>1, <2>3, <2>4, <2>7 DEF LooperInv
  <1>7. ASSUME WorkerStep PROVE LooperInv'
    <2>1. CASE WorkerExits \/ WorkerBlocks
      BY <2>1 DEF WorkerExits, WorkerBlocks, LooperInv, TypeOK
    <2>2. CASE WorkerLoop /\ WorkerWait
      BY <2>2 DEF WorkerLoop, WorkerWait, LooperInv, TypeOK
    <2>3. CASE WorkerLoop /\ Drain
      BY <1>6, <2>3 DEF WorkerLoop
    <2> QED
      BY <1>7, <2>1, <2>2, <2>3 DEF WorkerStep, WorkerLoop
  <1>8. CASE RequestStop \/ StopStep
    BY <1>8 DEF RequestStop, StopStep, NotifyWorker, NotifyThreads, WakeThreads, Join, LooperInv, TypeOK
  <1>9. CASE UNCHANGED vars
    BY <1>9 DEF vars, LooperInv, TypeOK
  <1> QED
    BY <1>3, <1>4, <1>5, <1>7, <1>8, <1>9 DEF Next, ThreadStep

LEMMA LooperInitially == Init => LooperInv
  <1> SUFFICES ASSUME Init PROVE LooperInv
    OBVIOUS
  <1>1. pro \in Buffers /\ con \in Buffers /\ pro.recs = <<>> /\ con.recs = <<>>
          /\ pro.used = 0 /\ con.used = 0 /\ pro.size = Capacity /\ con.size = Capacity
    BY Config DEF Init, EmptyBuffer, Buffers
  <1>2. written \o pro.recs = Ids(pushed)
    BY <1>1 DEF Init, Ids
  <1>3. TypeOK
    <2>1. \A b \in {pro, con} : b.recs \in Seq(Nat) /\ b.used \in 0 .. b.size /\ b.size \in Nat
      <3>1. pro.used <= pro.size /\ con.used <= con.size
        BY <1>1, Config
      <3> QED
        BY <1>1, <3>1, BufferIs
    <2>2. pushed \in 0 .. MaxRecs /\ written \in Seq(Nat)
      BY Config DEF Init
    <2> QED
      BY <2>1, <2>2 DEF Init, TypeOK
  <1> QED
    BY <1>1, <1>2, <1>3 DEF LooperInv

\* Nothing that is logged is lost, duplicated or reordered on its way through
\* the two buffers, for every capacity, growth and set of threads, and a buffer
\* never holds more than it has allocated.
THEOREM Safety == Spec => []LooperSafe
  <1>1. LooperInv => LooperSafe
    <2> SUFFICES ASSUME LooperInv PROVE InOrder
      BY DEF LooperInv, LooperSafe
    <2>1. written \o con.recs = written
      BY DEF LooperInv, TypeOK
    <2> QED
      BY <2>1 DEF LooperInv, InOrder, Ids
  <1> QED
    BY <1>1, LooperInitially, LooperStep, PTL DEF Spec
=============================================================================
