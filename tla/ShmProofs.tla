----------------------------- MODULE ShmProofs -----------------------------
(***************************************************************************)
(* Machine-checked proofs about ShmRing for every ring size, header size,  *)
(* set of body lengths and number of frames, and about ShmSession for any  *)
(* servers, clients, left-over segments, number of ids and ring capacity.  *)
(***************************************************************************)
EXTENDS ShmRingInv, ShmSession, SequenceTheorems, TLAPS

---------------------------------------------------------------------------
(* Arithmetic of ring offsets.                                             *)

\* Quotient and remainder of a byte index.
LEMMA DivMod ==
  ASSUME NEW a \in Nat, NEW d \in Nat \ {0}
  PROVE  /\ a % d \in 0 .. d - 1
         /\ a \div d \in Nat
         /\ a = d * (a \div d) + (a % d)
  BY SMT

\* Two bytes less than one ring apart never share an offset.
LEMMA OffsetsDiffer ==
  ASSUME NEW d \in Nat \ {0}, NEW a \in Nat, NEW i \in Nat,
         NEW b \in Nat, NEW j \in Nat,
         a + i < b + j, b + j < a + i + d
  PROVE  (a % d) + i # (b % d) + j
  <1> DEFINE p == a \div d
             q == b \div d
  <1>1. /\ a = d * p + (a % d) /\ b = d * q + (b % d)
        /\ p \in Nat /\ q \in Nat /\ a % d \in Nat /\ b % d \in Nat
    BY DivMod
  <1> SUFFICES ASSUME (a % d) + i = (b % d) + j PROVE FALSE
    OBVIOUS
  <1>2. (b + j) - (a + i) = d * (q - p)
    BY <1>1
  <1>3. CASE q - p <= 0
    <2>1. d * (q - p) <= 0
      BY <1>3, <1>1
    <2> QED
      BY <2>1, <1>2
  <1>4. CASE q - p >= 1
    <2>1. d * (q - p) >= d
      BY <1>4, <1>1
    <2> QED
      BY <2>1, <1>2
  <1> QED
    BY <1>3, <1>4, <1>1

\* Skipping the tail leads to offset 0.
LEMMA WrapZero ==
  ASSUME NEW a \in Nat, NEW d \in Nat \ {0}
  PROVE  (a + (d - (a % d))) % d = 0
  <1> DEFINE p == a \div d
             b == a + (d - (a % d))
             q == b \div d
  <1>1. a = d * p + (a % d) /\ p \in Nat /\ a % d \in 0 .. d - 1
    BY DivMod
  <1>2. b = d * (p + 1) /\ b \in Nat
    BY <1>1
  <1>3. b = d * q + (b % d) /\ q \in Nat /\ b % d \in 0 .. d - 1
    BY <1>2, DivMod
  <1>4. b % d = d * ((p + 1) - q)
    BY <1>1, <1>2, <1>3
  <1>5. CASE (p + 1) - q <= 0
    <2>1. d * ((p + 1) - q) <= 0
      BY <1>5, <1>1, <1>3
    <2> QED
      BY <2>1, <1>4, <1>3
  <1>6. CASE (p + 1) - q >= 1
    <2>1. d * ((p + 1) - q) >= d
      BY <1>6, <1>1, <1>3
    <2> QED
      BY <2>1, <1>4, <1>3
  <1> QED
    BY <1>5, <1>6, <1>1, <1>3

\* The bytes left to the end of the data area: between 1 and DataSize.
LEMMA ContigRange ==
  ASSUME NEW p \in Nat
  PROVE  /\ Contig(p) \in Nat
         /\ Contig(p) \in 1 .. DataSize
         /\ p % DataSize \in 0 .. DataSize - 1
         /\ (p % DataSize) + Contig(p) = DataSize
  BY DivMod, RingAssumption DEF Contig

\* A write of m bytes at index q leaves byte k behind index p alone when that
\* byte lies before q and less than a ring before the end of the write.
LEMMA Untouched ==
  ASSUME NEW p \in Nat, NEW k \in Nat, NEW q \in Nat, NEW m \in Nat,
         p + k < q, q + m <= p + k + DataSize
  PROVE  LET o == (p % DataSize) + k
         IN  ~((q % DataSize) <= o /\ o < (q % DataSize) + m)
  <1> DEFINE o == (p % DataSize) + k
             l == o - (q % DataSize)
  <1> SUFFICES ASSUME (q % DataSize) <= o, o < (q % DataSize) + m
               PROVE  FALSE
    OBVIOUS
  <1>1. p % DataSize \in Nat /\ q % DataSize \in Nat
    BY ContigRange
  <1>2. l \in Nat /\ l < m
    BY <1>1
  <1>3. p + k < q + l /\ q + l < p + k + DataSize
    BY <1>1, <1>2, RingAssumption
  <1>4. (p % DataSize) + k # (q % DataSize) + l
    BY <1>2, <1>3, OffsetsDiffer, RingAssumption
  <1> QED
    BY <1>1, <1>4

---------------------------------------------------------------------------
(* Type correctness.                                                       *)

\* Initially the ring has the right types.
LEMMA TypeInit == Init => TypeOK
  BY RingAssumption DEF Init, TypeOK, Cell, ZeroByte

\* Every step keeps the types.
LEMMA TypeStep == TypeOK /\ [Next]_vars => TypeOK'
  <1> SUFFICES ASSUME TypeOK, [Next]_vars PROVE TypeOK'
    OBVIOUS
  <1> USE RingAssumption DEF TypeOK, prodVars, consVars
  <1>1. ASSUME NEW b \in BodyLens, WriteToTooLarge(b) PROVE TypeOK'
    BY <1>1 DEF WriteToTooLarge
  <1>2. ASSUME NEW b \in BodyLens, NEW wait \in {"none", "left"}, WriteTo(b, wait)
        PROVE  TypeOK'
    BY <1>2 DEF WriteTo
  <1>3. ASSUME NEW b \in BodyLens, NEW wait \in {"none", "left"}, SendInPlace(b, wait)
        PROVE  TypeOK'
    BY <1>3 DEF SendInPlace
  <1>4. CASE Probe
    BY <1>4 DEF Probe
  <1>5. CASE WriteSkip
    <2>1. Contig(pw) \in Nat
      BY ContigRange
    <2>2. mem' \in [Offsets -> Cell]
      BY <1>5 DEF WriteSkip, Cell, ZeroByte
    <2> QED
      BY <1>5, <2>1, <2>2 DEF WriteSkip
  <1>6. CASE Fill
    <2>1. \A o \in Offsets : pw % DataSize <= o => o - (pw % DataSize) \in Nat
      BY ContigRange DEF Offsets
    <2>2. mem' \in [Offsets -> Cell]
      BY <1>6, <2>1 DEF Fill, Cell, FrameByte, NextFrame
    <2> QED
      BY <1>6, <2>2 DEF Fill
  <1>7. CASE Publish
    BY <1>7 DEF Publish
  <1>8. CASE Retry
    BY <1>8 DEF Retry
  <1>9. CASE GiveUp
    BY <1>9 DEF GiveUp
  <1>10. CASE SerializeBody
    <2>1. \A o \in Offsets :
            (pw % DataSize) + HdrLen <= o => o - (pw % DataSize) \in Nat
      BY ContigRange DEF Offsets
    <2>2. mem' \in [Offsets -> Cell]
      BY <1>10, <2>1 DEF SerializeBody, Cell, FrameByte, NextFrame
    <2> QED
      BY <1>10, <2>2 DEF SerializeBody
  <1>11. CASE CommitHeader
    <2>1. \A o \in Offsets : wIdx % DataSize <= o => o - (wIdx % DataSize) \in Nat
      BY ContigRange DEF Offsets
    <2>2. mem' \in [Offsets -> Cell]
      BY <1>11, <2>1 DEF CommitHeader, Cell, FrameByte, NextFrame
    <2> QED
      BY <1>11, <2>2 DEF CommitHeader
  <1>12. CASE DeadlinePasses
    BY <1>12 DEF DeadlinePasses
  <1>13. CASE ReadLoad
    BY <1>13 DEF ReadLoad
  <1>14. CASE ReadHeader
    <2>1. rIdx % DataSize \in Offsets
      BY ContigRange DEF Offsets
    <2>2. ASSUME NEW n \in HeaderLens(rIdx % DataSize) PROVE n \in Nat
      <3>1. mem[rIdx % DataSize].n \in Nat
        BY <2>1 DEF Cell
      <3> QED
        BY <2>2, <3>1 DEF HeaderLens
    <2>3. pin' \in Nat /\ cpc' \in {"idle", "header", "skip", "view", "used"}
      BY <1>14, <2>2 DEF ReadHeader
    <2>4. UNCHANGED <<wIdx, rIdx, mem, prodVars, sent, got>>
      BY <1>14 DEF ReadHeader
    <2> QED
      BY <2>3, <2>4
  <1>15. CASE ReadSkip
    <2>1. Contig(rIdx) \in Nat
      BY ContigRange
    <2> QED
      BY <1>15, <2>1 DEF ReadSkip
  <1>16. CASE UseView
    <2>1. rIdx % DataSize \in Offsets
      BY ContigRange DEF Offsets
    <2>2. ViewFrame(rIdx % DataSize, pin - rIdx) \in Nat
      BY <2>1 DEF ViewFrame, Cell
    <2> QED
      BY <1>16, <2>2 DEF UseView
  <1>17. CASE ReleaseView
    BY <1>17 DEF ReleaseView
  <1>18. CASE UNCHANGED vars
    BY <1>18 DEF vars
  <1> QED
    BY <1>1, <1>2, <1>3, <1>4, <1>5, <1>6, <1>7, <1>8, <1>9, <1>10, <1>11,
       <1>12, <1>13, <1>14, <1>15, <1>16, <1>17, <1>18
    DEF Next, Call, ProducerStep, ConsumerStep

\* The state of the ring always has its type.
THEOREM TypeCorrect == Spec => []TypeOK
  BY TypeInit, TypeStep, PTL DEF Spec

---------------------------------------------------------------------------
(* Consequences of the invariant: where everything lies.                   *)

\* The arithmetic side of the types.
LEMMA Numbers ==
  ASSUME TypeOK
  PROVE  /\ wIdx \in Nat /\ rIdx \in Nat /\ plen \in Nat /\ pw \in Nat /\ pr \in Nat
         /\ pin \in Nat /\ Len(sent) \in Nat /\ Len(got) \in Nat
         /\ DataSize \in Nat /\ HdrLen \in Nat /\ LenField \in Nat
         /\ 0 < DataSize /\ 0 < LenField /\ LenField < HdrLen
  BY RingAssumption DEF TypeOK

\* Starts and lengths of published frames.
LEMMA FrameNumbers ==
  ASSUME TypeOK, NEW j \in 1 .. Len(sent)
  PROVE  /\ sent[j].s \in Nat /\ sent[j].n \in Nat
         /\ End(j) = sent[j].s + sent[j].n
  <1>1. sent \in Seq([s : Nat, n : Nat])
    BY DEF TypeOK
  <1>2. sent[j] \in [s : Nat, n : Nat]
    BY <1>1, ElementOfSeq
  <1>3. j # 0
    BY <1>1
  <1> QED
    BY <1>2, <1>3 DEF End

\* Ends of frames are indices not beyond write_idx, and the frames still held
\* lie between read_idx and write_idx.
LEMMA Geometry ==
  ASSUME TypeOK, FramesTile, ConsumerAt
  PROVE  /\ rIdx <= wIdx
         /\ \A j \in 0 .. Len(sent) : End(j) \in Nat /\ End(j) <= wIdx
         /\ \A j \in 1 .. Len(sent) :
              sent[j].s \in Nat /\ sent[j].n \in Nat /\ sent[j].s <= End(j)
         /\ \A j \in Released + 1 .. Len(sent) : rIdx <= sent[j].s
  <1>1. \A j \in 1 .. Len(sent) :
          /\ sent[j].s \in Nat /\ sent[j].n \in Nat
          /\ End(j) = sent[j].s + sent[j].n
    BY FrameNumbers
  <1>2. \A j \in 0 .. Len(sent) : End(j) \in Nat
    BY <1>1 DEF End
  <1>3. \A j \in 0 .. Len(sent) : End(j) <= wIdx
    <2> TAKE j \in 0 .. Len(sent)
    <2>1. CASE j = Len(sent)
      BY <2>1, <1>2 DEF FramesTile
    <2>2. CASE j < Len(sent)
      <3>1. End(j) <= sent[Len(sent)].s
        BY <2>2, SMTT(30) DEF FramesTile, TypeOK
      <3>2. wIdx = sent[Len(sent)].s + sent[Len(sent)].n
        BY <2>2, <1>1 DEF FramesTile, TypeOK
      <3>3. Len(sent) \in 1 .. Len(sent)
        BY <2>2 DEF TypeOK
      <3>4. /\ sent[Len(sent)].s \in Nat /\ sent[Len(sent)].n \in Nat
            /\ End(j) \in Nat /\ wIdx \in Nat
        BY <3>3, <1>1, <1>2 DEF TypeOK
      <3> QED
        BY <3>1, <3>2, <3>4
    <2> QED
      BY <2>1, <2>2 DEF TypeOK
  <1>4. Released \in 0 .. Len(sent)
    BY DEF ConsumerAt
  <1>5. \A j \in Released + 1 .. Len(sent) : rIdx <= sent[j].s
    <2> TAKE j \in Released + 1 .. Len(sent)
    <2>1. j \in 1 .. Len(sent) /\ Released \in 0 .. j - 1
      BY <1>4 DEF TypeOK
    <2>2. CASE rIdx = End(Released)
      BY <2>1, <2>2 DEF FramesTile
    <2>3. CASE Released < Len(sent) /\ rIdx = sent[Released + 1].s
      <3>1. CASE j = Released + 1
        BY <2>3, <3>1, <1>1, <2>1
      <3>2. CASE j > Released + 1
        <4>1. Released + 1 \in 0 .. j - 1 /\ Released + 1 \in 1 .. Len(sent)
          BY <3>2, <2>1, <1>4
        <4>2. End(Released + 1) <= sent[j].s
          BY <4>1, <2>1 DEF FramesTile
        <4>3. sent[Released + 1].s <= End(Released + 1)
          BY <4>1, <1>1
        <4> QED
          BY <4>1, <4>2, <4>3, <2>3, <2>1, <1>1, <1>2
      <3> QED
        BY <3>1, <3>2, <2>1
    <2> QED
      BY <2>2, <2>3 DEF ConsumerAt
  <1>6. rIdx <= wIdx
    <2>1. CASE rIdx = End(Released)
      BY <2>1, <1>3, <1>4
    <2>2. CASE Released < Len(sent) /\ rIdx = sent[Released + 1].s
      <3>1. Released + 1 \in 1 .. Len(sent)
        BY <2>2, <1>4
      <3>2. rIdx <= End(Released + 1) /\ End(Released + 1) <= wIdx
        BY <3>1, <2>2, <1>1, <1>3
      <3> QED
        BY <3>1, <3>2, <1>2 DEF TypeOK
    <2> QED
      BY <2>1, <2>2 DEF ConsumerAt
  <1> QED
    BY <1>1, <1>2, <1>3, <1>5, <1>6

\* A write of m bytes at q >= write_idx, within a ring of read_idx, keeps a byte
\* that lies between the two indices.
LEMMA ByteKept ==
  ASSUME TypeOK,
         NEW q \in Nat, NEW m \in Nat,
         wIdx <= q, q + m <= rIdx + DataSize,
         \A o \in Offsets :
           ~((q % DataSize) <= o /\ o < (q % DataSize) + m) => mem'[o] = mem[o],
         NEW p \in Nat, NEW k \in Nat,
         rIdx <= p + k, p + k < wIdx, k < Contig(p)
  PROVE  mem'[(p % DataSize) + k] = mem[(p % DataSize) + k]
  <1>1. p + k < q /\ q + m <= p + k + DataSize
    BY RingAssumption DEF TypeOK
  <1>2. (p % DataSize) + k \in Offsets
    <2>1. /\ p % DataSize \in Nat /\ Contig(p) \in Nat
          /\ (p % DataSize) + Contig(p) = DataSize /\ DataSize \in Nat
      BY ContigRange, RingAssumption
    <2> QED
      BY <2>1 DEF Offsets
  <1>3. ~((q % DataSize) <= (p % DataSize) + k
           /\ (p % DataSize) + k < (q % DataSize) + m)
    BY <1>1, Untouched
  <1> QED
    BY <1>2, <1>3

\* Such a write keeps every frame and marker the consumer has yet to read.
LEMMA ContentsKept ==
  ASSUME TypeOK, FramesTile, ConsumerAt, Contents,
         NEW q \in Nat, NEW m \in Nat,
         wIdx <= q, q + m <= rIdx + DataSize,
         \A o \in Offsets :
           ~((q % DataSize) <= o /\ o < (q % DataSize) + m) => mem'[o] = mem[o],
         UNCHANGED <<rIdx, cpc, sent, got>>
  PROVE  Contents'
  <1>0. /\ wIdx \in Nat /\ rIdx \in Nat /\ Len(sent) \in Nat /\ DataSize \in Nat
        /\ LenField \in Nat /\ HdrLen \in Nat
    BY Numbers
  <1>1. /\ Released' = Released /\ Released \in 0 .. Len(sent)
        /\ \A j \in 0 .. Len(sent) : End(j)' = End(j)
    BY DEF Released, End, ConsumerAt
  <1>2. ASSUME NEW j \in Released + 1 .. Len(sent), NEW k \in 0 .. sent[j].n - 1
        PROVE  mem'[(sent[j].s % DataSize) + k] = FrameByte(j, sent[j].n, k)
    <2>1. j \in 1 .. Len(sent)
      BY <1>1 DEF TypeOK
    <2>2. /\ sent[j].s \in Nat /\ sent[j].n \in Nat /\ rIdx <= sent[j].s
          /\ sent[j].s + sent[j].n <= wIdx
      BY <2>1, Geometry, FrameNumbers
    <2>3. sent[j].n <= Contig(sent[j].s)
      BY <2>1 DEF FramesTile
    <2>4. /\ k \in Nat /\ k < sent[j].n
          /\ rIdx <= sent[j].s + k /\ sent[j].s + k < wIdx
      BY <1>2, <2>2, <1>0, SMTT(30)
    <2>5. k < Contig(sent[j].s)
      <3>1. Contig(sent[j].s) \in Nat
        BY <2>2, ContigRange
      <3> QED
        BY <3>1, <2>2, <2>3, <2>4
    <2>6. mem'[(sent[j].s % DataSize) + k] = mem[(sent[j].s % DataSize) + k]
      BY <2>2, <2>4, <2>5, ByteKept
    <2> QED
      BY <2>6 DEF Contents, FrameAt
  <1>3. ASSUME NEW j \in Released + 1 .. Len(sent),
               sent[j].s # End(j - 1), rIdx <= End(j - 1),
               Contig(End(j - 1)) >= LenField,
               NEW k \in 0 .. LenField - 1
        PROVE  mem'[(End(j - 1) % DataSize) + k] = ZeroByte
    <2>1. j \in 1 .. Len(sent) /\ j - 1 \in 0 .. Len(sent)
      BY <1>1 DEF TypeOK
    <2>2. End(j - 1) \in Nat /\ sent[j].s \in Nat /\ sent[j].s <= wIdx
      <3>1. sent[j].s <= End(j) /\ End(j) <= wIdx /\ End(j) \in Nat
        BY <2>1, Geometry
      <3>2. End(j - 1) \in Nat /\ sent[j].s \in Nat
        BY <2>1, Geometry
      <3>3. wIdx \in Nat
        BY <1>0
      <3>4. sent[j].s <= wIdx
        BY ONLY <3>1, <3>2, <3>3
      <3> QED
        BY <3>2, <3>4
    <2>3. sent[j].s = End(j - 1) + Contig(End(j - 1))
      BY <2>1, <1>3 DEF FramesTile
    <2>4. k \in Nat /\ k < Contig(End(j - 1)) /\ Contig(End(j - 1)) \in Nat
      <3>1. Contig(End(j - 1)) \in Nat
        BY <2>2, ContigRange
      <3> QED
        BY <3>1, <1>3, <1>0
    <2>5. rIdx <= End(j - 1) + k /\ End(j - 1) + k < wIdx
      BY <1>3, <2>2, <2>3, <2>4, <1>0
    <2>6. mem'[(End(j - 1) % DataSize) + k] = mem[(End(j - 1) % DataSize) + k]
      BY <2>2, <2>4, <2>5, ByteKept
    <2> QED
      BY <1>3, <2>6 DEF Contents, MarkerAt
  <1> SUFFICES ASSUME NEW j \in Released + 1 .. Len(sent)
               PROVE  /\ FrameAt(sent[j].s, sent[j].n, j)'
                      /\ (sent[j].s # End(j - 1) /\ rIdx <= End(j - 1)
                            => MarkerAt(End(j - 1)))'
    BY <1>1 DEF Contents
  <1>4. FrameAt(sent[j].s, sent[j].n, j)'
    BY <1>2 DEF FrameAt
  <1>5. End(j - 1)' = End(j - 1)
    <2>1. sent' = sent
      OBVIOUS
    <2> QED
      BY <2>1 DEF End
  <1>6. ASSUME sent[j].s # End(j - 1), rIdx <= End(j - 1)
        PROVE  MarkerAt(End(j - 1))'
    BY <1>3, <1>5, <1>6 DEF MarkerAt, Contig
  <1> QED
    BY <1>4, <1>5, <1>6

---------------------------------------------------------------------------
(* Steps that leave a part of the state alone keep its invariant.          *)

\* The layout of the frames depends on write_idx and the history only.
LEMMA FramesKept ==
  ASSUME FramesTile, UNCHANGED <<wIdx, sent>>
  PROVE  FramesTile'
  BY DEF FramesTile, End

\* The consumer's position depends on its own variables and the history only.
LEMMA ConsumerKept ==
  ASSUME ConsumerAt, UNCHANGED <<rIdx, cpc, pin, sent, got>>
  PROVE  ConsumerAt'
  BY DEF ConsumerAt, Released, End

\* Without a write into the ring the bytes the consumer has to read stay.
LEMMA ContentsSame ==
  ASSUME Contents, UNCHANGED <<mem, rIdx, cpc, sent, got>>
  PROVE  Contents'
  BY DEF Contents, Released, End, FrameAt, MarkerAt

\* The delivered prefix depends on the histories only.
LEMMA FifoKept ==
  ASSUME FifoIntact, UNCHANGED <<sent, got>>
  PROVE  FifoIntact'
  BY DEF FifoIntact

\* The consumer only moves read_idx forward, which never hurts the producer.
LEMMA ProducerKept ==
  ASSUME TypeOK, ProducerAt,
         UNCHANGED <<wIdx, mem, ppc, plen, pw, pr, sent>>,
         rIdx' \in Nat, rIdx <= rIdx'
  PROVE  ProducerAt'
  <1>0. /\ wIdx \in Nat /\ rIdx \in Nat /\ pr \in Nat /\ DataSize \in Nat
        /\ pw \in Nat /\ plen \in Nat
    BY Numbers
  <1>a. pr <= rIdx /\ wIdx <= rIdx + DataSize
    BY DEF ProducerAt
  <1>b. \A a, b, c, d, x \in Nat :
          a <= b /\ c <= b + d /\ b <= x => a <= x /\ c <= x + d
    OBVIOUS
  <1>c. pr <= rIdx' /\ wIdx <= rIdx' + DataSize
    BY <1>0, <1>a, <1>b, ZenonT(30)
  <1>1. pr' <= rIdx' /\ wIdx' <= rIdx' + DataSize
    BY <1>c
  <1> QED
    BY <1>1 DEF ProducerAt, MarkerAt, FrameAt, NextFrame

---------------------------------------------------------------------------
(* The invariant: initial state, calls and index-only producer steps.      *)

\* The freshly created ring satisfies the invariant.
LEMMA InvInit == Init => IInv
  <1> SUFFICES ASSUME Init PROVE IInv
    OBVIOUS
  <1>1. TypeOK
    BY TypeInit
  <1>2. Len(sent) = 0 /\ Len(got) = 0 /\ Released = 0
    BY DEF Init, Released
  <1>3. FramesTile /\ ConsumerAt /\ Contents /\ FifoIntact
    BY <1>2 DEF Init, FramesTile, ConsumerAt, Contents, FifoIntact, End
  <1>4. ProducerAt
    BY RingAssumption DEF Init, ProducerAt
  <1> QED
    BY <1>1, <1>3, <1>4 DEF IInv

\* A step that changes nothing but the producer's own variables has to
\* re-establish ProducerAt only.
LEMMA OwnStep ==
  ASSUME IInv, TypeOK', ProducerAt',
         UNCHANGED <<wIdx, rIdx, mem, cpc, pin, sent, got>>
  PROVE  IInv'
  <1>1. FramesTile' /\ ConsumerAt' /\ Contents' /\ FifoIntact'
    BY FramesKept, ConsumerKept, ContentsSame, FifoKept DEF IInv
  <1> QED
    BY <1>1 DEF IInv

\* Entering write_to or the zero-copy send.
LEMMA CallStep ==
  ASSUME IInv, TypeOK', Call
  PROVE  IInv'
  <1>0. /\ wIdx \in Nat /\ rIdx \in Nat /\ pr \in Nat /\ DataSize \in Nat
        /\ HdrLen \in Nat /\ BodyLens \subseteq Nat
        /\ pr <= rIdx /\ wIdx <= rIdx + DataSize
    BY Numbers, RingAssumption DEF IInv, ProducerAt
  <1>1. ASSUME NEW b \in BodyLens, WriteToTooLarge(b)
        PROVE  IInv'
    <2>1. ProducerAt'
      BY <1>0, <1>1 DEF WriteToTooLarge, ProducerAt, IInv
    <2> QED
      BY <1>1, <2>1, OwnStep DEF WriteToTooLarge, consVars
  <1>2. ASSUME NEW b \in BodyLens, NEW wait \in {"none", "left"}, WriteTo(b, wait)
        PROVE  IInv'
    <2>1. ProducerAt'
      BY <1>0, <1>2 DEF WriteTo, ProducerAt, IInv
    <2> QED
      BY <1>2, <2>1, OwnStep DEF WriteTo, consVars
  <1>3. ASSUME NEW b \in BodyLens, NEW wait \in {"none", "left"},
               SendInPlace(b, wait)
        PROVE  IInv'
    <2>1. /\ b \in Nat /\ plen' = HdrLen + b /\ pw' = wIdx /\ pr' = rIdx
          /\ wIdx' = wIdx /\ rIdx' = rIdx
      BY <1>0, <1>3 DEF SendInPlace
    <2>2. Contig(wIdx) \in Nat
      BY <1>0, ContigRange
    <2>3. CASE ppc' = "try"
      BY <1>0, <2>1, <2>3, <1>3, OwnStep DEF ProducerAt, SendInPlace, consVars
    <2>4. CASE ppc' = "body"
      <3>1. WriteSpan(wIdx, rIdx) > 0 /\ WriteSpan(wIdx, rIdx) >= b
        BY <1>3, <2>4 DEF SendInPlace
      <3>2. HdrLen + b <= Contig(wIdx) /\ HdrLen + b <= Avail(wIdx, rIdx)
        BY <3>1, <1>0, <2>1, <2>2 DEF WriteSpan, Avail
      <3>3. pw' + plen' <= pr' + DataSize
        BY <3>2, <1>0, <2>1 DEF Avail
      <3>4. ProducerAt'
        BY <1>0, <2>1, <2>4, <3>2, <3>3 DEF ProducerAt
      <3> QED
        BY <3>4, <1>3, OwnStep DEF SendInPlace, consVars
    <2> QED
      BY <2>3, <2>4, <1>3 DEF SendInPlace
  <1> QED
    BY <1>1, <1>2, <1>3 DEF Call

\* The steps of write_to that move the producer only: loading the indices and
\* the wait loop.
LEMMA LoopStep ==
  ASSUME IInv, TypeOK', Probe \/ Retry \/ GiveUp \/ DeadlinePasses
  PROVE  IInv'
  <1>0. /\ wIdx \in Nat /\ rIdx \in Nat /\ pr \in Nat /\ DataSize \in Nat
        /\ HdrLen \in Nat /\ plen \in Nat
        /\ pr <= rIdx /\ wIdx <= rIdx + DataSize
    BY Numbers DEF IInv, ProducerAt
  <1>1. CASE Probe
    <2>1. Contig(wIdx) \in Nat
      BY <1>0, ContigRange
    <2>2. /\ pw' = wIdx /\ pr' = rIdx /\ plen' = plen /\ HdrLen <= plen
          /\ wIdx' = wIdx /\ rIdx' = rIdx
      BY <1>1 DEF Probe, IInv, ProducerAt
    <2>3. ppc' \in {"full", "skip", "fill"}
      BY <1>1 DEF Probe
    <2>4. ppc' # "full" => wIdx + plen <= rIdx + DataSize
      BY <1>0, <1>1 DEF Probe, Avail
    <2>5. ppc' = "skip" => Contig(wIdx) < plen
      BY <1>1 DEF Probe
    <2>6. ppc' = "fill" => plen <= Contig(wIdx)
      BY <1>0, <1>1, <2>1 DEF Probe
    <2>7. ProducerAt'
      BY <1>0, <2>2, <2>3, <2>4, <2>5, <2>6 DEF ProducerAt
    <2> QED
      BY <1>1, <2>7, OwnStep DEF Probe, consVars
  <1>2. CASE Retry \/ GiveUp
    <2>1. ProducerAt'
      BY <1>0, <1>2 DEF Retry, GiveUp, ProducerAt, IInv
    <2> QED
      BY <1>2, <2>1, OwnStep DEF Retry, GiveUp, consVars
  <1>3. CASE DeadlinePasses
    <2>1. ProducerAt'
      BY <1>3 DEF DeadlinePasses, ProducerAt, IInv, MarkerAt, FrameAt, NextFrame
    <2> QED
      BY <1>3, <2>1, OwnStep DEF DeadlinePasses, consVars
  <1> QED
    BY <1>1, <1>2, <1>3

---------------------------------------------------------------------------
(* The invariant: writes into the ring.                                    *)

\* A write of m bytes at q, behind write_idx and within a ring of read_idx, has
\* to re-establish ProducerAt only.
LEMMA MemStep ==
  ASSUME IInv, TypeOK', ProducerAt',
         NEW q \in Nat, NEW m \in Nat,
         wIdx <= q, q + m <= rIdx + DataSize,
         \A o \in Offsets :
           ~((q % DataSize) <= o /\ o < (q % DataSize) + m) => mem'[o] = mem[o],
         UNCHANGED <<wIdx, rIdx, cpc, pin, sent, got>>
  PROVE  IInv'
  <1>1. FramesTile' /\ ConsumerAt' /\ FifoIntact'
    BY FramesKept, ConsumerKept, FifoKept DEF IInv
  <1>2. Contents'
    BY ContentsKept DEF IInv
  <1> QED
    BY <1>1, <1>2 DEF IInv

\* A frame of n bytes that fits the tail covers offsets of the data area only.
LEMMA FrameOffsets ==
  ASSUME NEW p \in Nat, NEW n \in Nat, n <= Contig(p), NEW k \in 0 .. n - 1
  PROVE  /\ (p % DataSize) + k \in Offsets
         /\ p % DataSize \in Nat
         /\ ((p % DataSize) + k) - (p % DataSize) = k
  <1>1. /\ Contig(p) \in Nat /\ p % DataSize \in Nat
        /\ (p % DataSize) + Contig(p) = DataSize /\ DataSize \in Nat
    BY ContigRange, RingAssumption
  <1> QED
    BY <1>1 DEF Offsets

\* Writing the skip marker: the same snapshot of read_idx still bounds the frame
\* at the head of the ring, and the tail now carries its marker.
LEMMA SkipStep ==
  ASSUME IInv, TypeOK', WriteSkip
  PROVE  IInv'
  <1>0. /\ wIdx \in Nat /\ rIdx \in Nat /\ pr \in Nat /\ DataSize \in Nat
        /\ HdrLen \in Nat /\ plen \in Nat /\ pw \in Nat /\ LenField \in Nat
    BY Numbers DEF IInv
  <1>1. /\ pw = wIdx /\ Contig(pw) < plen /\ pw + plen <= pr + DataSize
        /\ pr <= rIdx /\ wIdx <= rIdx + DataSize /\ HdrLen <= plen
    BY DEF WriteSkip, IInv, ProducerAt
  <1>2. Contig(pw) \in Nat /\ pw % DataSize \in Nat /\ SkipMarkLen(Contig(pw)) \in Nat
    BY <1>0, ContigRange DEF SkipMarkLen
  <1>3. SkipMarkLen(Contig(pw)) <= Contig(pw)
    BY <1>0, <1>2 DEF SkipMarkLen
  <1>4. pw + SkipMarkLen(Contig(pw)) <= rIdx + DataSize
    BY <1>0, <1>1, <1>2, <1>3
  <1>5. /\ wIdx' = wIdx /\ rIdx' = rIdx /\ pr' = pr /\ plen' = plen
        /\ pw' = pw + Contig(pw)
        /\ ppc' = IF Avail(pw', pr) < plen THEN "full" ELSE "fill"
    BY DEF WriteSkip
  <1>6. Contig(pw') = DataSize
    BY <1>0, <1>2, <1>5, WrapZero, RingAssumption DEF Contig
  <1>7. MarkerAt(wIdx)'
    <2> SUFFICES ASSUME Contig(wIdx) >= LenField, NEW k \in 0 .. LenField - 1
                 PROVE  mem'[(wIdx % DataSize) + k] = ZeroByte
      BY <1>5 DEF MarkerAt, Contig
    <2>1. (wIdx % DataSize) + k \in Offsets
      BY <1>0, <1>1, <1>2, FrameOffsets
    <2>2. SkipMarkLen(Contig(pw)) = LenField
      BY <1>1 DEF SkipMarkLen
    <2>3. /\ wIdx % DataSize <= (wIdx % DataSize) + k
          /\ (wIdx % DataSize) + k < (wIdx % DataSize) + LenField
      BY <1>0, <1>1, <1>2
    <2> QED
      BY <2>1, <2>2, <2>3, <1>1 DEF WriteSkip
  <1>8. ppc' = "fill" => pw' + plen <= pr + DataSize
    BY <1>0, <1>2, <1>5 DEF Avail
  <1>9. pw' <= pr + DataSize
    BY <1>0, <1>1, <1>2, <1>5
  <1>10. plen <= DataSize
    <2>1. rIdx <= wIdx
      BY Geometry DEF IInv
    <2> QED
      BY <2>1, <1>0, <1>1
  <1>11. ProducerAt'
    BY <1>0, <1>1, <1>5, <1>6, <1>7, <1>8, <1>9, <1>10 DEF ProducerAt
  <1>12. \A o \in Offsets :
           ~((pw % DataSize) <= o /\ o < (pw % DataSize) + SkipMarkLen(Contig(pw)))
             => mem'[o] = mem[o]
    BY DEF WriteSkip
  <1> QED
    BY <1>0, <1>1, <1>2, <1>4, <1>11, <1>12, MemStep DEF WriteSkip, consVars

\* What every write of header or body bytes starts from.
LEMMA WriteRoom ==
  ASSUME IInv, ppc \in {"fill", "publish", "body", "header"}
  PROVE  /\ wIdx \in Nat /\ rIdx \in Nat /\ pr \in Nat /\ DataSize \in Nat
         /\ HdrLen \in Nat /\ plen \in Nat /\ pw \in Nat /\ LenField \in Nat
         /\ Contig(wIdx) \in Nat /\ Contig(pw) \in Nat /\ pw % DataSize \in Nat
         /\ HdrLen <= plen /\ plen <= Contig(pw) /\ wIdx <= pw
         /\ pw + plen <= pr + DataSize /\ pw + plen <= rIdx + DataSize
         /\ pr <= rIdx /\ wIdx <= rIdx + DataSize
  <1>0. /\ wIdx \in Nat /\ rIdx \in Nat /\ pr \in Nat /\ DataSize \in Nat
        /\ HdrLen \in Nat /\ plen \in Nat /\ pw \in Nat /\ LenField \in Nat
    BY Numbers DEF IInv
  <1>1. /\ Contig(wIdx) \in Nat /\ Contig(pw) \in Nat /\ pw % DataSize \in Nat
    BY <1>0, ContigRange
  <1>2. /\ HdrLen <= plen /\ plen <= Contig(pw)
        /\ pw + plen <= pr + DataSize
        /\ pr <= rIdx /\ wIdx <= rIdx + DataSize
        /\ pw = wIdx \/ pw = wIdx + Contig(wIdx)
    BY DEF IInv, ProducerAt
  <1>3. wIdx <= pw /\ pw + plen <= rIdx + DataSize
    BY <1>0, <1>1, <1>2
  <1> QED
    BY <1>0, <1>1, <1>2, <1>3

\* Copying header and body: the frame is complete, the skip marker in front of
\* it untouched.
LEMMA FillStep ==
  ASSUME IInv, TypeOK', Fill
  PROVE  IInv'
  <1>0. /\ wIdx \in Nat /\ rIdx \in Nat /\ pr \in Nat /\ DataSize \in Nat
        /\ HdrLen \in Nat /\ plen \in Nat /\ pw \in Nat /\ LenField \in Nat
        /\ Contig(wIdx) \in Nat /\ Contig(pw) \in Nat /\ pw % DataSize \in Nat
        /\ HdrLen <= plen /\ plen <= Contig(pw) /\ wIdx <= pw
        /\ pw + plen <= pr + DataSize /\ pw + plen <= rIdx + DataSize
        /\ pr <= rIdx /\ wIdx <= rIdx + DataSize
    BY WriteRoom DEF Fill
  <1>1. rIdx <= wIdx
    BY Geometry DEF IInv
  <1>2. \A o \in Offsets :
          ~((pw % DataSize) <= o /\ o < (pw % DataSize) + plen)
            => mem'[o] = mem[o]
    BY DEF Fill
  <1>3. /\ wIdx' = wIdx /\ rIdx' = rIdx /\ pr' = pr /\ plen' = plen /\ pw' = pw
        /\ ppc' = "publish" /\ NextFrame' = NextFrame
    BY DEF Fill, NextFrame
  <1>4. FrameAt(pw, plen, NextFrame)'
    <2> SUFFICES ASSUME NEW k \in 0 .. plen - 1
                 PROVE  mem'[(pw % DataSize) + k] = FrameByte(NextFrame, plen, k)
      BY <1>3 DEF FrameAt
    <2>1. /\ (pw % DataSize) + k \in Offsets
          /\ ((pw % DataSize) + k) - (pw % DataSize) = k
      BY <1>0, FrameOffsets
    <2>2. /\ pw % DataSize <= (pw % DataSize) + k
          /\ (pw % DataSize) + k < (pw % DataSize) + plen
      BY <1>0
    <2> QED
      BY <2>1, <2>2 DEF Fill
  <1>5. ASSUME pw = wIdx + Contig(wIdx), MarkerAt(wIdx)
        PROVE  MarkerAt(wIdx)'
    <2> SUFFICES ASSUME Contig(wIdx) >= LenField, NEW k \in 0 .. LenField - 1
                 PROVE  mem'[(wIdx % DataSize) + k] = mem[(wIdx % DataSize) + k]
      BY <1>3, <1>5 DEF MarkerAt, Contig
    <2>1. (wIdx % DataSize) + k \in Offsets
      BY <1>0, FrameOffsets
    <2>2. wIdx + k < pw /\ pw + plen <= wIdx + k + DataSize /\ k \in Nat
      BY <1>0, <1>1, <1>5
    <2>3. ~((pw % DataSize) <= (wIdx % DataSize) + k
             /\ (wIdx % DataSize) + k < (pw % DataSize) + plen)
      BY <1>0, <2>2, Untouched
    <2> QED
      BY <1>2, <2>1, <2>3
  <1>6. pw = wIdx \/ (pw = wIdx + Contig(wIdx) /\ MarkerAt(wIdx))
    BY DEF Fill, IInv, ProducerAt
  <1>7. ProducerAt'
    <2>1. (pw = wIdx \/ (pw = wIdx + Contig(wIdx) /\ MarkerAt(wIdx)))'
      BY <1>3, <1>5, <1>6 DEF Contig
    <2> QED
      BY <1>0, <1>3, <1>4, <2>1 DEF ProducerAt
  <1> QED
    BY <1>0, <1>2, <1>7, MemStep DEF Fill, consVars

\* Serializing the body in place.
LEMMA SerializeStep ==
  ASSUME IInv, TypeOK', SerializeBody
  PROVE  IInv'
  <1>0. /\ wIdx \in Nat /\ rIdx \in Nat /\ pr \in Nat /\ DataSize \in Nat
        /\ HdrLen \in Nat /\ plen \in Nat /\ pw \in Nat /\ LenField \in Nat
        /\ Contig(wIdx) \in Nat /\ Contig(pw) \in Nat /\ pw % DataSize \in Nat
        /\ HdrLen <= plen /\ plen <= Contig(pw) /\ wIdx <= pw
        /\ pw + plen <= pr + DataSize /\ pw + plen <= rIdx + DataSize
        /\ pr <= rIdx /\ wIdx <= rIdx + DataSize
    BY WriteRoom DEF SerializeBody
  <1>2. \A o \in Offsets :
          ~((pw % DataSize) <= o /\ o < (pw % DataSize) + plen)
            => mem'[o] = mem[o]
    <2>1. \A o \in Offsets :
            (pw % DataSize) + HdrLen <= o => (pw % DataSize) <= o
      BY <1>0 DEF Offsets
    <2> QED
      BY <2>1 DEF SerializeBody
  <1>3. /\ wIdx' = wIdx /\ rIdx' = rIdx /\ pr' = pr /\ plen' = plen /\ pw' = pw
        /\ ppc' = "header" /\ NextFrame' = NextFrame /\ pw = wIdx
    BY DEF SerializeBody, NextFrame, IInv, ProducerAt
  <1>4. ASSUME NEW k \in HdrLen .. plen - 1
        PROVE  mem'[(pw % DataSize) + k] = FrameByte(NextFrame, plen, k)
    <2>0. k \in 0 .. plen - 1
      BY <1>0
    <2>1. /\ (pw % DataSize) + k \in Offsets
          /\ ((pw % DataSize) + k) - (pw % DataSize) = k
      BY <1>0, <2>0, FrameOffsets
    <2>2. /\ (pw % DataSize) + HdrLen <= (pw % DataSize) + k
          /\ (pw % DataSize) + k < (pw % DataSize) + plen
      BY <1>0
    <2> QED
      BY <2>1, <2>2 DEF SerializeBody
  <1>7. ProducerAt'
    BY <1>0, <1>3, <1>4 DEF ProducerAt
  <1> QED
    BY <1>0, <1>2, <1>7, MemStep DEF SerializeBody, consVars

\* req_commit writes the header in front of a body that is still in place.
LEMMA HeaderStep ==
  ASSUME IInv, TypeOK', CommitHeader
  PROVE  IInv'
  <1>0. /\ wIdx \in Nat /\ rIdx \in Nat /\ pr \in Nat /\ DataSize \in Nat
        /\ HdrLen \in Nat /\ plen \in Nat /\ pw \in Nat /\ LenField \in Nat
        /\ Contig(wIdx) \in Nat /\ Contig(pw) \in Nat /\ pw % DataSize \in Nat
        /\ HdrLen <= plen /\ plen <= Contig(pw) /\ wIdx <= pw
        /\ pw + plen <= pr + DataSize /\ pw + plen <= rIdx + DataSize
        /\ pr <= rIdx /\ wIdx <= rIdx + DataSize
    BY WriteRoom DEF CommitHeader
  <1>1. pw = wIdx
    BY DEF CommitHeader, IInv, ProducerAt
  <1>2. \A o \in Offsets :
          ~((pw % DataSize) <= o /\ o < (pw % DataSize) + plen)
            => mem'[o] = mem[o]
    <2>1. \A o \in Offsets :
            o < (pw % DataSize) + HdrLen => o < (pw % DataSize) + plen
      BY <1>0 DEF Offsets
    <2> QED
      BY <2>1, <1>1 DEF CommitHeader
  <1>3. /\ wIdx' = wIdx /\ rIdx' = rIdx /\ pr' = pr /\ plen' = plen /\ pw' = pw
        /\ ppc' = "publish" /\ NextFrame' = NextFrame
    BY <1>1 DEF CommitHeader, NextFrame
  <1>4. FrameAt(pw, plen, NextFrame)'
    <2> SUFFICES ASSUME NEW k \in 0 .. plen - 1
                 PROVE  mem'[(pw % DataSize) + k] = FrameByte(NextFrame, plen, k)
      BY <1>3 DEF FrameAt
    <2>1. /\ (pw % DataSize) + k \in Offsets
          /\ ((pw % DataSize) + k) - (pw % DataSize) = k
      BY <1>0, FrameOffsets
    <2>2. CASE k < HdrLen
      <3>1. /\ pw % DataSize <= (pw % DataSize) + k
            /\ (pw % DataSize) + k < (pw % DataSize) + HdrLen
        BY <1>0, <2>2
      <3> QED
        BY <2>1, <3>1, <1>1 DEF CommitHeader
    <2>3. CASE k >= HdrLen
      <3>1. k \in HdrLen .. plen - 1
        BY <1>0, <2>3
      <3>2. mem[(pw % DataSize) + k] = FrameByte(NextFrame, plen, k)
        BY <3>1 DEF CommitHeader, IInv, ProducerAt
      <3>3. ~((pw % DataSize) + k < (pw % DataSize) + HdrLen)
        BY <1>0, <2>3
      <3> QED
        BY <2>1, <3>2, <3>3, <1>1 DEF CommitHeader
    <2> QED
      BY <2>2, <2>3, <1>0
  <1>7. ProducerAt'
    BY <1>0, <1>1, <1>3, <1>4 DEF ProducerAt
  <1> QED
    BY <1>0, <1>2, <1>7, MemStep DEF CommitHeader, consVars

\* Publishing appends one frame to the layout and to the bytes the consumer may
\* read.
LEMMA PublishStep ==
  ASSUME IInv, TypeOK', Publish
  PROVE  IInv'
  <1>c. Len(sent) \in Nat
    BY DEF IInv, TypeOK
  <1> PICK L \in Nat : L = Len(sent)
    BY <1>c
  <1>0. /\ wIdx \in Nat /\ rIdx \in Nat /\ pr \in Nat /\ DataSize \in Nat
        /\ HdrLen \in Nat /\ plen \in Nat /\ pw \in Nat
        /\ Contig(wIdx) \in Nat /\ Contig(pw) \in Nat
        /\ HdrLen <= plen /\ plen <= Contig(pw) /\ wIdx <= pw
        /\ pw + plen <= rIdx + DataSize
        /\ pr <= rIdx /\ wIdx <= rIdx + DataSize
    BY WriteRoom DEF Publish
  <1>1. /\ rIdx' = rIdx /\ mem' = mem /\ cpc' = cpc /\ pin' = pin /\ got' = got
        /\ pr' = pr /\ wIdx' = pw + plen /\ ppc' = "idle"
        /\ sent' = Append(sent, [s |-> pw, n |-> plen])
    BY DEF Publish, consVars
  <1>2. L \in Nat /\ sent \in Seq([s : Nat, n : Nat])
    BY DEF IInv, TypeOK
  <1>3. /\ Len(sent') = L + 1
        /\ \A j \in 1 .. L : sent'[j] = sent[j]
        /\ sent'[L + 1] = [s |-> pw, n |-> plen]
    BY <1>0, <1>1, <1>2
  <1>4. /\ \A j \in 0 .. L : End(j)' = End(j)
        /\ End(L + 1)' = pw + plen
    BY <1>2, <1>3 DEF End
  <1>5. Released' = Released /\ Released \in 0 .. L
    BY <1>1 DEF Released, ConsumerAt, IInv
  <1>6. /\ wIdx = End(L)
        /\ \A j \in 0 .. L : End(j) \in Nat /\ End(j) <= wIdx
    BY Geometry DEF IInv, FramesTile
  <1>7. /\ pw = wIdx \/ (pw = wIdx + Contig(wIdx) /\ MarkerAt(wIdx))
        /\ FrameAt(pw, plen, L + 1)
    BY DEF Publish, IInv, ProducerAt, NextFrame
  <1>8. FramesTile'
    <2>1. wIdx' = End(L + 1)'
      BY <1>1, <1>4
    <2>2. ASSUME NEW j \in 1 .. L
          PROVE  /\ HdrLen <= sent'[j].n
                 /\ sent'[j].n <= Contig(sent'[j].s)
                 /\ \/ sent'[j].s = End(j - 1)'
                    \/ sent'[j].s = End(j - 1)' + Contig(End(j - 1)')
                 /\ \A i \in 0 .. j - 1 : End(i)' <= sent'[j].s
      <3>1. sent'[j] = sent[j] /\ \A i \in 0 .. j - 1 : End(i)' = End(i)
        BY <1>2, <1>3, <1>4
      <3>2. End(j - 1)' = End(j - 1)
        BY <1>2, <1>4
      <3> QED
        BY <3>1, <3>2 DEF IInv, FramesTile
    <2>3. /\ HdrLen <= sent'[L + 1].n
          /\ sent'[L + 1].n <= Contig(sent'[L + 1].s)
          /\ \/ sent'[L + 1].s = End(L)'
             \/ sent'[L + 1].s = End(L)' + Contig(End(L)')
      <3>1. End(L)' = wIdx
        BY <1>2, <1>4, <1>6
      <3> QED
        BY <3>1, <1>0, <1>3, <1>7
    <2>4. \A i \in 0 .. L : End(i)' <= sent'[L + 1].s
      <3> TAKE i \in 0 .. L
      <3>1. End(i)' = End(i) /\ End(i) \in Nat /\ End(i) <= wIdx
        BY <1>4, <1>6
      <3> QED
        BY <3>1, <1>0, <1>3
    <2>5. \A j \in 1 .. L + 1 :
            /\ HdrLen <= sent'[j].n
            /\ sent'[j].n <= Contig(sent'[j].s)
            /\ \/ sent'[j].s = End(j - 1)'
               \/ sent'[j].s = End(j - 1)' + Contig(End(j - 1)')
            /\ \A i \in 0 .. j - 1 : End(i)' <= sent'[j].s
      <3> TAKE j \in 1 .. L + 1
      <3>1. CASE j \in 1 .. L
        BY <3>1, <2>2
      <3>2. CASE j = L + 1
        <4>1. j - 1 = L
          BY <3>2, <1>2
        <4> QED
          BY <3>2, <4>1, <2>3, <2>4
      <3> QED
        BY <3>1, <3>2, <1>2
    <2> QED
      BY <2>1, <2>5, <1>3 DEF FramesTile, Contig
  <1>9. ConsumerAt'
    <2>1. Released' \in 0 .. Len(sent') /\ (Released < L => Released' < Len(sent'))
      BY <1>2, <1>3, <1>5
    <2>2. /\ End(Released)' = End(Released)
          /\ Released < L => /\ sent'[Released + 1] = sent[Released + 1]
                             /\ End(Released + 1)' = End(Released + 1)
      BY <1>2, <1>3, <1>4, <1>5
    <2>3. ConsumerAt
      BY DEF IInv
    <2> QED
      BY <2>1, <2>2, <2>3, <1>1, <1>5 DEF ConsumerAt, Contig
  <1>10. Contents'
    <2> SUFFICES ASSUME NEW j \in Released + 1 .. L + 1
                 PROVE  /\ FrameAt(sent'[j].s, sent'[j].n, j)
                        /\ sent'[j].s # End(j - 1)' /\ rIdx <= End(j - 1)'
                             => MarkerAt(End(j - 1)')
      BY <1>1, <1>3, <1>5, SMTT(30) DEF Contents, FrameAt, MarkerAt, Contig
    <2>1. CASE j \in 1 .. L
      <3>1. sent'[j] = sent[j] /\ End(j - 1)' = End(j - 1)
        BY <2>1, <1>2, <1>3, <1>4
      <3>2. j \in Released + 1 .. L
        BY <2>1, <1>5, <1>2
      <3> QED
        BY <3>1, <3>2 DEF IInv, Contents
    <2>2. CASE j = L + 1
      <3>1. j - 1 = L /\ End(L)' = wIdx
        BY <2>2, <1>2, <1>4, <1>6
      <3> QED
        BY <2>2, <3>1, <1>3, <1>7
    <2> QED
      BY <2>1, <2>2, <1>2, <1>5
  <1>11. ProducerAt'
    BY <1>0, <1>1 DEF ProducerAt
  <1>12. FifoIntact'
    <2>1. Len(got) \in Nat
      BY DEF IInv, TypeOK
    <2> QED
      BY <2>1, <1>1, <1>2, <1>3 DEF IInv, FifoIntact
  <1> QED
    BY <1>8, <1>9, <1>10, <1>11, <1>12 DEF IInv

---------------------------------------------------------------------------
(* The invariant: the consumer.                                            *)

\* The frame the consumer reads next, while one is there.
LEMMA NextUp ==
  ASSUME IInv, Released < Len(sent)
  PROVE  /\ Released \in Nat /\ Released + 1 \in 1 .. Len(sent)
         /\ Released + 1 \in Released + 1 .. Len(sent)
         /\ rIdx \in Nat /\ sent[Released + 1].s \in Nat
         /\ sent[Released + 1].n \in Nat
         /\ End(Released + 1) = sent[Released + 1].s + sent[Released + 1].n
         /\ End(Released + 1) <= wIdx
         /\ HdrLen <= sent[Released + 1].n
         /\ sent[Released + 1].n <= Contig(sent[Released + 1].s)
         /\ rIdx <= sent[Released + 1].s
         /\ FrameAt(sent[Released + 1].s, sent[Released + 1].n, Released + 1)
         /\ rIdx # sent[Released + 1].s =>
              /\ rIdx = End(Released)
              /\ sent[Released + 1].s = rIdx + Contig(rIdx)
              /\ MarkerAt(rIdx)
  <1>0. Len(sent) \in Nat /\ rIdx \in Nat
    BY Numbers DEF IInv
  <1>1. Released \in Nat /\ Released \in 0 .. Len(sent)
    BY <1>0 DEF IInv, ConsumerAt
  <1>2. /\ Released + 1 \in 1 .. Len(sent) /\ (Released + 1) - 1 = Released
        /\ Released + 1 \in Released + 1 .. Len(sent)
    BY <1>0, <1>1
  <1>3. /\ sent[Released + 1].s \in Nat /\ sent[Released + 1].n \in Nat
        /\ End(Released + 1) = sent[Released + 1].s + sent[Released + 1].n
    BY <1>2, FrameNumbers DEF IInv
  <1>4. End(Released + 1) <= wIdx /\ rIdx <= sent[Released + 1].s
    <2>1. Released + 1 \in 0 .. Len(sent)
      BY <1>1, <1>2
    <2> QED
      BY <2>1, <1>2, Geometry DEF IInv
  <1>5. /\ HdrLen <= sent[Released + 1].n
        /\ sent[Released + 1].n <= Contig(sent[Released + 1].s)
        /\ \/ sent[Released + 1].s = End(Released)
           \/ sent[Released + 1].s = End(Released) + Contig(End(Released))
    BY <1>2 DEF IInv, FramesTile
  <1>6. /\ FrameAt(sent[Released + 1].s, sent[Released + 1].n, Released + 1)
        /\ sent[Released + 1].s # End(Released) /\ rIdx <= End(Released)
             => MarkerAt(End(Released))
    BY <1>2 DEF IInv, Contents
  <1>7. rIdx = End(Released) \/ rIdx = sent[Released + 1].s
    BY DEF IInv, ConsumerAt
  <1>8. ASSUME rIdx # sent[Released + 1].s
        PROVE  /\ rIdx = End(Released)
               /\ sent[Released + 1].s = rIdx + Contig(rIdx)
               /\ MarkerAt(rIdx)
    <2>1. rIdx = End(Released) /\ rIdx <= End(Released)
      BY <1>0, <1>7, <1>8
    <2> QED
      BY <2>1, <1>5, <1>6, <1>8
  <1> QED
    BY <1>0, <1>1, <1>2, <1>3, <1>4, <1>5, <1>6, <1>8

\* Bytes beyond write_idx are never read: there is a next frame when the
\* indices differ.
LEMMA Unread ==
  ASSUME IInv, wIdx # rIdx
  PROVE  Released < Len(sent)
  <1>0. Len(sent) \in Nat /\ Released \in 0 .. Len(sent)
    BY Numbers DEF IInv, ConsumerAt
  <1>1. CASE Released = Len(sent)
    <2>1. rIdx = End(Len(sent)) /\ wIdx = End(Len(sent))
      BY <1>1, <1>0 DEF IInv, ConsumerAt, FramesTile
    <2> QED
      BY <2>1
  <1> QED
    BY <1>0, <1>1

\* A length field read by the consumer is whole: the next frame's, or zero on a
\* skipped tail.
LEMMA HeaderCases ==
  ASSUME IInv, cpc = "header"
  PROVE  HeaderLens(rIdx % DataSize) =
           IF rIdx = sent[Released + 1].s THEN {sent[Released + 1].n} ELSE {0}
  <1> DEFINE f == Released + 1
             n == sent[Released + 1].n
             o == rIdx % DataSize
  <1>0. Released < Len(sent) /\ Contig(rIdx) >= LenField
    BY DEF IInv, ConsumerAt
  <1>1. LenField \in Nat /\ HdrLen \in Nat /\ 0 < LenField /\ LenField < HdrLen
    BY Numbers DEF IInv
  <1>2. /\ Released \in Nat /\ n \in Nat /\ HdrLen <= n /\ rIdx \in Nat
        /\ FrameAt(sent[Released + 1].s, n, f)
        /\ rIdx # sent[Released + 1].s => MarkerAt(rIdx)
    BY <1>0, NextUp
  <1>3. o \in Nat /\ o + 0 = o
    BY <1>2, ContigRange
  <1>4. CASE rIdx = sent[Released + 1].s
    <2>1. \A k \in 0 .. LenField - 1 : mem[o + k] = FrameByte(f, n, k)
      <3> TAKE k \in 0 .. LenField - 1
      <3>1. k \in 0 .. n - 1
        BY <1>1, <1>2
      <3> QED
        BY <3>1, <1>2, <1>4 DEF FrameAt
    <2>2. 0 \in 0 .. LenField - 1
      BY <1>1
    <2>3. mem[o] = FrameByte(f, n, 0) /\ mem[o + 0] = mem[o]
      BY <2>1, <2>2, <1>3
    <2>4. mem[o].f = f /\ mem[o].n = n
      BY <2>3 DEF FrameByte
    <2>5. mem[o + 0] # ZeroByte
      BY <2>3, <2>4, <1>2 DEF ZeroByte
    <2> QED
      BY <2>1, <2>2, <2>4, <2>5, <1>4 DEF HeaderLens
  <1>5. CASE rIdx # sent[Released + 1].s
    BY <1>5, <1>0, <1>2 DEF HeaderLens, MarkerAt
  <1> QED
    BY <1>4, <1>5

\* Loading the indices and finding bytes.
LEMMA LoadStep ==
  ASSUME IInv, TypeOK', ReadLoad
  PROVE  IInv'
  <1>0. Released < Len(sent)
    BY Unread DEF ReadLoad
  <1>1. /\ wIdx' = wIdx /\ rIdx' = rIdx /\ mem' = mem /\ sent' = sent /\ got' = got
        /\ ppc' = ppc /\ plen' = plen /\ pw' = pw /\ pr' = pr /\ pin' = pin
        /\ cpc = "idle" /\ pin = 0
        /\ cpc' = IF Contig(rIdx) < LenField THEN "skip" ELSE "header"
    BY DEF ReadLoad, prodVars
  <1>2. Released' = Released
    BY <1>1 DEF Released
  <1>3. /\ LenField \in Nat /\ HdrLen \in Nat /\ LenField < HdrLen
        /\ rIdx \in Nat /\ Contig(rIdx) \in Nat
    BY Numbers, ContigRange DEF IInv
  <1>4. Contig(rIdx) < LenField => rIdx # sent[Released + 1].s
    <2>1. /\ sent[Released + 1].n \in Nat /\ HdrLen <= sent[Released + 1].n
          /\ sent[Released + 1].n <= Contig(sent[Released + 1].s)
      BY <1>0, NextUp
    <2> QED
      BY <2>1, <1>3
  <1>5. Contig(rIdx) < LenField \/ Contig(rIdx) >= LenField
    BY <1>3
  <1>6. ConsumerAt'
    BY <1>0, <1>1, <1>2, <1>4, <1>5 DEF IInv, ConsumerAt, End, Contig
  <1>7. Contents'
    BY <1>1, <1>2 DEF IInv, Contents, End, FrameAt, MarkerAt
  <1>8. FramesTile' /\ FifoIntact'
    BY <1>1, FramesKept, FifoKept DEF IInv
  <1>9. rIdx <= rIdx' /\ rIdx' \in Nat
    BY <1>1, <1>3
  <1>10. ProducerAt'
    BY <1>1, <1>9, ProducerKept DEF IInv
  <1> QED
    BY <1>6, <1>7, <1>8, <1>10 DEF IInv

\* Decoding the header: a skip marker or the next frame, never anything else.
LEMMA DecodeStep ==
  ASSUME IInv, TypeOK', ReadHeader
  PROVE  IInv'
  <1>0. Released < Len(sent) /\ pin = 0
    BY DEF IInv, ConsumerAt, ReadHeader
  <1>1. /\ wIdx' = wIdx /\ rIdx' = rIdx /\ mem' = mem /\ sent' = sent /\ got' = got
        /\ ppc' = ppc /\ plen' = plen /\ pw' = pw /\ pr' = pr
        /\ cpc = "header"
    BY DEF ReadHeader, prodVars
  <1>b. /\ HdrLen \in Nat /\ LenField \in Nat /\ LenField < HdrLen
        /\ rIdx \in Nat /\ DataSize \in Nat
    BY Numbers DEF IInv
  <1>3. 0 < HdrLen /\ HdrLen \in Nat /\ rIdx \in Nat /\ Contig(rIdx) \in Nat
    BY <1>b, ContigRange
  <1>4. /\ sent[Released + 1].n \in Nat /\ HdrLen <= sent[Released + 1].n
        /\ sent[Released + 1].n <= Contig(sent[Released + 1].s)
        /\ End(Released + 1) = sent[Released + 1].s + sent[Released + 1].n
    BY <1>0, NextUp
  <1>5. \/ cpc' = "skip" /\ pin' = 0 /\ rIdx # sent[Released + 1].s
        \/ cpc' = "view" /\ pin' = End(Released + 1) /\ rIdx = sent[Released + 1].s
    <2>1. PICK n \in HeaderLens(rIdx % DataSize) :
            IF n = 0
            THEN cpc' = "skip" /\ pin' = pin
            ELSE IF n < HdrLen \/ n > Contig(rIdx)
            THEN cpc' = "idle" /\ pin' = pin
            ELSE cpc' = "view" /\ pin' = rIdx + n
      BY DEF ReadHeader
    <2>2. CASE rIdx = sent[Released + 1].s
      <3>1. n = sent[Released + 1].n
        BY <2>2, <1>1, HeaderCases
      <3>2. n # 0 /\ ~(n < HdrLen \/ n > Contig(rIdx))
        BY <3>1, <2>2, <1>3, <1>4
      <3> QED
        BY <3>1, <3>2, <2>1, <2>2, <1>4
    <2>3. CASE rIdx # sent[Released + 1].s
      <3>1. n = 0
        BY <2>3, <1>1, HeaderCases
      <3> QED
        BY <3>1, <2>1, <2>3, <1>0
    <2> QED
      BY <2>2, <2>3
  <1>2. Released' = Released
    BY <1>1, <1>5 DEF Released
  <1>a. End(Released + 1)' = End(Released + 1) /\ End(Released)' = End(Released)
    BY <1>1, <1>2 DEF End
  <1>6. ConsumerAt'
    BY <1>0, <1>1, <1>2, <1>a, <1>5 DEF IInv, ConsumerAt
  <1>7. Contents'
    BY <1>1, <1>2 DEF IInv, Contents, End, FrameAt, MarkerAt
  <1>8. FramesTile' /\ FifoIntact'
    BY <1>1, FramesKept, FifoKept DEF IInv
  <1>9. rIdx <= rIdx' /\ rIdx' \in Nat
    BY <1>1, <1>3
  <1>10. ProducerAt'
    BY <1>1, <1>9, ProducerKept DEF IInv
  <1> QED
    BY <1>6, <1>7, <1>8, <1>10 DEF IInv

\* Jumping over a skipped tail leads to the start of the next frame.
LEMMA JumpStep ==
  ASSUME IInv, TypeOK', ReadSkip
  PROVE  IInv'
  <1>0. Released < Len(sent) /\ pin = 0 /\ rIdx # sent[Released + 1].s
    BY DEF IInv, ConsumerAt, ReadSkip
  <1>1. /\ wIdx' = wIdx /\ mem' = mem /\ sent' = sent /\ got' = got
        /\ ppc' = ppc /\ plen' = plen /\ pw' = pw /\ pr' = pr /\ pin' = pin
        /\ cpc = "skip" /\ cpc' = "idle" /\ rIdx' = rIdx + Contig(rIdx)
    BY DEF ReadSkip, prodVars
  <1>2. Released' = Released
    BY <1>1 DEF Released
  <1>3. rIdx \in Nat /\ Contig(rIdx) \in Nat
    BY Numbers, ContigRange DEF IInv
  <1>4. rIdx' = sent[Released + 1].s
    BY <1>0, <1>1, NextUp
  <1>5. rIdx <= rIdx' /\ rIdx' \in Nat
    BY <1>1, <1>3
  <1>6. ConsumerAt'
    BY <1>0, <1>1, <1>2, <1>4 DEF IInv, ConsumerAt
  <1>7. Contents'
    <2> SUFFICES ASSUME NEW j \in Released + 1 .. Len(sent)
                 PROVE  /\ FrameAt(sent[j].s, sent[j].n, j)
                        /\ sent[j].s # End(j - 1) /\ rIdx' <= End(j - 1)
                             => MarkerAt(End(j - 1))
      BY <1>1, <1>2 DEF Contents, End, FrameAt, MarkerAt
    <2>1. End(j - 1) \in Nat
      <3>1. j - 1 \in 0 .. Len(sent)
        BY Numbers DEF IInv, ConsumerAt
      <3> QED
        BY <3>1, Geometry DEF IInv
    <2>2. rIdx' <= End(j - 1) => rIdx <= End(j - 1)
      BY <2>1, <1>3, <1>5
    <2> QED
      BY <2>2 DEF IInv, Contents
  <1>8. FramesTile' /\ FifoIntact'
    BY <1>1, FramesKept, FifoKept DEF IInv
  <1>10. ProducerAt'
    BY <1>1, <1>5, ProducerKept DEF IInv
  <1> QED
    BY <1>6, <1>7, <1>8, <1>10 DEF IInv

\* The view holds exactly the next frame, untorn.
LEMMA ViewWhole ==
  ASSUME IInv, cpc = "view"
  PROVE  ViewFrame(rIdx % DataSize, pin - rIdx) = Released + 1
  <1> DEFINE n == sent[Released + 1].n
             o == rIdx % DataSize
  <1>0. /\ Released < Len(sent) /\ rIdx = sent[Released + 1].s
        /\ pin = End(Released + 1)
    BY DEF IInv, ConsumerAt
  <1>1. /\ Released \in Nat /\ n \in Nat /\ rIdx \in Nat /\ HdrLen <= n
        /\ FrameAt(rIdx, n, Released + 1) /\ pin = rIdx + n
    BY <1>0, NextUp
  <1>2. pin - rIdx = n
    BY <1>1
  <1>3. HdrLen \in Nat /\ LenField \in Nat /\ LenField < HdrLen
    BY Numbers DEF IInv
  <1>4. 0 \in 0 .. n - 1 /\ o + 0 = o
    <2>1. o \in 0 .. DataSize - 1 /\ DataSize \in Nat
      BY <1>1, ContigRange, Numbers DEF IInv
    <2>2. n >= 1
      BY <1>1, <1>3
    <2> HIDE DEF n, o
    <2> QED
      BY <1>1, <2>1, <2>2
  <1>5. \A k \in 0 .. n - 1 : mem[o + k] = FrameByte(Released + 1, n, k)
    BY <1>1 DEF FrameAt
  <1>6. mem[o] = FrameByte(Released + 1, n, 0)
    BY <1>4, <1>5
  <1>7. mem[o].f = Released + 1
    BY <1>6 DEF FrameByte
  <1> QED
    BY <1>2, <1>5, <1>7 DEF ViewFrame

\* Handing the view to the application.
LEMMA UseStep ==
  ASSUME IInv, TypeOK', UseView
  PROVE  IInv'
  <1>0. /\ Released < Len(sent) /\ rIdx = sent[Released + 1].s
        /\ pin = End(Released + 1)
    BY DEF IInv, ConsumerAt, UseView
  <1>1. /\ wIdx' = wIdx /\ mem' = mem /\ sent' = sent /\ rIdx' = rIdx
        /\ ppc' = ppc /\ plen' = plen /\ pw' = pw /\ pr' = pr /\ pin' = pin
        /\ cpc = "view" /\ cpc' = "used"
        /\ got' = Append(got, ViewFrame(rIdx % DataSize, pin - rIdx))
    BY DEF UseView, prodVars
  <1>2. /\ got \in Seq(Nat) /\ Len(got) \in Nat /\ Released = Len(got)
        /\ Len(sent) \in Nat /\ rIdx \in Nat
    BY <1>1 DEF Released, IInv, TypeOK
  <1>3. got' = Append(got, Len(got) + 1)
    BY <1>1, <1>2, ViewWhole
  <1>4. /\ Len(got') = Len(got) + 1 /\ got'[Len(got) + 1] = Len(got) + 1
        /\ \A j \in 1 .. Len(got) : got'[j] = got[j]
    BY <1>2, <1>3
  <1>5. Released' = Released
    BY <1>1, <1>2, <1>4 DEF Released
  <1>a. End(Released + 1)' = End(Released + 1) /\ End(Released)' = End(Released)
    BY <1>1, <1>5 DEF End
  <1>6. ConsumerAt'
    BY <1>0, <1>1, <1>5, <1>a DEF IInv, ConsumerAt
  <1>7. Contents'
    BY <1>1, <1>5 DEF IInv, Contents, End, FrameAt, MarkerAt
  <1>8. FramesTile'
    BY <1>1, FramesKept DEF IInv
  <1>9. FifoIntact'
    <2>1. Len(got') <= Len(sent')
      BY <1>0, <1>1, <1>2, <1>4
    <2>2. \A j \in 1 .. Len(got') : got'[j] = j
      <3> TAKE j \in 1 .. Len(got')
      <3>1. j \in 1 .. Len(got) \/ j = Len(got) + 1
        BY <1>2, <1>4
      <3>2. \A i \in 1 .. Len(got) : got[i] = i
        BY DEF IInv, FifoIntact
      <3> QED
        BY <3>1, <3>2, <1>4
    <2> QED
      BY <2>1, <2>2 DEF FifoIntact
  <1>b. rIdx <= rIdx' /\ rIdx' \in Nat
    BY <1>1, <1>2
  <1>10. ProducerAt'
    BY <1>1, <1>b, ProducerKept DEF IInv
  <1> QED
    BY <1>6, <1>7, <1>8, <1>9, <1>10 DEF IInv

\* Releasing the view gives the producer the bytes of exactly that frame.
LEMMA ReleaseStep ==
  ASSUME IInv, TypeOK', ReleaseView
  PROVE  IInv'
  <1>0. /\ Released < Len(sent) /\ rIdx = sent[Released + 1].s
        /\ pin = End(Released + 1)
    BY DEF IInv, ConsumerAt, ReleaseView
  <1>1. /\ wIdx' = wIdx /\ mem' = mem /\ sent' = sent /\ got' = got
        /\ ppc' = ppc /\ plen' = plen /\ pw' = pw /\ pr' = pr /\ pin' = 0
        /\ cpc = "used" /\ cpc' = "idle" /\ rIdx' = End(Released + 1)
    BY <1>0 DEF ReleaseView, prodVars
  <1>2. /\ Len(got) \in Nat /\ Len(sent) \in Nat /\ rIdx \in Nat
    BY Numbers DEF IInv
  <1>3. Released = Len(got) - 1 /\ Released' = Len(got) /\ Released' = Released + 1
    BY <1>1, <1>2 DEF Released
  <1>4. /\ Released \in Nat /\ Released + 1 \in 1 .. Len(sent)
        /\ sent[Released + 1].s \in Nat /\ sent[Released + 1].n \in Nat
        /\ End(Released + 1) = sent[Released + 1].s + sent[Released + 1].n
    BY <1>0, NextUp
  <1>5. rIdx <= rIdx' /\ rIdx' \in Nat
    BY <1>0, <1>1, <1>4
  <1>6. ConsumerAt'
    <2>1. End(Released)' = End(Released + 1)
      BY <1>1, <1>3 DEF End
    <2>2. Released' \in 0 .. Len(sent)
      BY <1>2, <1>3, <1>4
    <2> QED
      BY <1>1, <2>1, <2>2 DEF ConsumerAt
  <1>7. Contents'
    <2> SUFFICES ASSUME NEW j \in Released + 2 .. Len(sent)
                 PROVE  /\ FrameAt(sent[j].s, sent[j].n, j)
                        /\ sent[j].s # End(j - 1) /\ rIdx' <= End(j - 1)
                             => MarkerAt(End(j - 1))
      <3>1. Released' + 1 = Released + 2
        BY <1>3, <1>4
      <3> QED
        BY <1>1, <3>1 DEF Contents, End, FrameAt, MarkerAt
    <2>0. j \in Released + 1 .. Len(sent) /\ j - 1 \in 0 .. Len(sent)
      BY <1>2, <1>4
    <2>1. End(j - 1) \in Nat
      BY <2>0, Geometry DEF IInv
    <2>2. rIdx' <= End(j - 1) => rIdx <= End(j - 1)
      BY <2>1, <1>2, <1>5
    <2> QED
      BY <2>0, <2>2 DEF IInv, Contents
  <1>8. FramesTile' /\ FifoIntact'
    BY <1>1, FramesKept, FifoKept DEF IInv
  <1>10. ProducerAt'
    BY <1>1, <1>5, ProducerKept DEF IInv
  <1> QED
    BY <1>6, <1>7, <1>8, <1>10 DEF IInv

---------------------------------------------------------------------------
(* The theorems.                                                           *)

\* Every step keeps the invariant.
LEMMA InvStep == IInv /\ [Next]_vars => IInv'
  <1> SUFFICES ASSUME IInv, [Next]_vars PROVE IInv'
    OBVIOUS
  <1>1. TypeOK'
    BY TypeStep DEF IInv
  <1>2. CASE Call
    BY <1>1, <1>2, CallStep
  <1>3. CASE ProducerStep
    BY <1>1, <1>3, LoopStep, SkipStep, FillStep, PublishStep, SerializeStep,
       HeaderStep DEF ProducerStep
  <1>4. CASE DeadlinePasses
    BY <1>1, <1>4, LoopStep
  <1>5. CASE ConsumerStep
    BY <1>1, <1>5, LoadStep, DecodeStep, JumpStep, UseStep, ReleaseStep
    DEF ConsumerStep
  <1>6. CASE UNCHANGED vars
    <2>1. UNCHANGED <<wIdx, rIdx, mem, cpc, pin, sent, got>>
      BY <1>6 DEF vars
    <2>2. ProducerAt'
      BY <1>6 DEF IInv, ProducerAt, vars, MarkerAt, FrameAt, NextFrame
    <2> QED
      BY <1>1, <2>1, <2>2, OwnStep
  <1> QED
    BY <1>2, <1>3, <1>4, <1>5, <1>6 DEF Next

\* The inductive invariant holds in every reachable state of the ring.
THEOREM Invariance == Spec => []IInv
  BY InvInit, InvStep, PTL DEF Spec

\* Every frame is handed to the application once, in order and untorn.
THEOREM Delivery == Spec => []FifoIntact
  <1>1. IInv => FifoIntact
    BY DEF IInv
  <1> QED
    BY <1>1, Invariance, PTL

\* The producer never writes a byte the consumer may still read, nor across the
\* end of the data area.
THEOREM NoOverwrite == Spec => []WriteClear
  <1>1. IInv => WriteClear
    <2> SUFFICES ASSUME IInv PROVE WriteClear
      OBVIOUS
    <2>0. /\ wIdx \in Nat /\ rIdx \in Nat /\ pr \in Nat /\ DataSize \in Nat
          /\ pw \in Nat /\ plen \in Nat /\ LenField \in Nat
      BY Numbers DEF IInv
    <2>1. Contig(pw) \in Nat /\ Contig(wIdx) \in Nat
      BY <2>0, ContigRange
    <2>2. pr <= rIdx /\ wIdx <= rIdx + DataSize
      BY DEF IInv, ProducerAt
    <2>3. CASE ppc = "skip"
      <3>1. WriteTarget = <<pw, pw + SkipMarkLen(Contig(pw))>>
        BY <2>3 DEF WriteTarget
      <3>2. pw = wIdx /\ Contig(pw) < plen /\ pw + plen <= pr + DataSize
        BY <2>3 DEF IInv, ProducerAt
      <3>3. /\ SkipMarkLen(Contig(pw)) \in Nat
            /\ SkipMarkLen(Contig(pw)) <= Contig(pw)
        BY <2>0, <2>1 DEF SkipMarkLen
      <3> QED
        BY <2>0, <2>1, <2>2, <3>1, <3>2, <3>3 DEF WriteClear
    <2>4. CASE ppc \in {"fill", "publish", "body", "header"}
      <3>1. WriteTarget = <<pw, pw + plen>>
        BY <2>4 DEF WriteTarget
      <3>2. /\ plen <= Contig(pw) /\ wIdx <= pw /\ pw + plen <= rIdx + DataSize
        BY <2>4, WriteRoom
      <3> QED
        BY <2>0, <2>1, <3>1, <3>2 DEF WriteClear
    <2>5. CASE ppc \notin {"skip", "fill", "publish", "body", "header"}
      <3>1. WriteTarget = <<wIdx, wIdx>>
        BY <2>5 DEF WriteTarget
      <3> QED
        BY <2>0, <2>1, <2>2, <3>1 DEF WriteClear
    <2> QED
      BY <2>3, <2>4, <2>5
  <1> QED
    BY <1>1, Invariance, PTL

\* The unsigned differences of the two indices never wrap.
THEOREM NoIndexWrap == Spec => []IndexOrder
  <1>1. IInv => IndexOrder
    <2> SUFFICES ASSUME IInv PROVE IndexOrder
      OBVIOUS
    <2>0. /\ wIdx \in Nat /\ rIdx \in Nat /\ pr \in Nat /\ DataSize \in Nat
          /\ pw \in Nat /\ plen \in Nat
      BY Numbers DEF IInv
    <2>1. rIdx <= wIdx
      BY Geometry DEF IInv
    <2>2. /\ pr <= rIdx /\ wIdx <= rIdx + DataSize
          /\ ppc \in {"skip", "fill", "publish", "body", "header"} =>
               pw + plen <= pr + DataSize
          /\ ppc = "full" => pw <= pr + DataSize
      BY DEF IInv, ProducerAt
    <2>3. ppc \in {"skip", "fill", "publish", "full", "body", "header"} =>
            pw - pr <= DataSize
      BY <2>0, <2>2
    <2> QED
      BY <2>1, <2>2, <2>3 DEF IndexOrder
  <1> QED
    BY <1>1, Invariance, PTL

\* The consumer never decodes a torn or foreign length field.
THEOREM NoCorruptHeader == Spec => []HeaderWhole
  <1>1. IInv => HeaderWhole
    <2> SUFFICES ASSUME IInv, cpc = "header"
                 PROVE  \E n \in 0 .. DataSize :
                          /\ HeaderLens(rIdx % DataSize) = {n}
                          /\ \/ n = 0 /\ rIdx + Contig(rIdx) < wIdx
                             \/ HdrLen <= n /\ n <= Contig(rIdx) /\ rIdx + n <= wIdx
      BY DEF HeaderWhole
    <2>0. Released < Len(sent)
      BY DEF IInv, ConsumerAt
    <2>1. /\ rIdx \in Nat /\ wIdx \in Nat /\ DataSize \in Nat /\ HdrLen \in Nat
          /\ LenField \in Nat /\ LenField < HdrLen
      BY Numbers DEF IInv
    <2>2. Contig(rIdx) \in Nat /\ Contig(rIdx) <= DataSize
      BY <2>1, ContigRange
    <2>3. /\ sent[Released + 1].s \in Nat /\ sent[Released + 1].n \in Nat
          /\ End(Released + 1) = sent[Released + 1].s + sent[Released + 1].n
          /\ End(Released + 1) <= wIdx
          /\ HdrLen <= sent[Released + 1].n
          /\ sent[Released + 1].n <= Contig(sent[Released + 1].s)
          /\ rIdx # sent[Released + 1].s =>
               sent[Released + 1].s = rIdx + Contig(rIdx)
      BY <2>0, NextUp
    <2>4. CASE rIdx = sent[Released + 1].s
      <3>1. HeaderLens(rIdx % DataSize) = {sent[Released + 1].n}
        BY <2>4, HeaderCases
      <3>2. /\ sent[Released + 1].n \in 0 .. DataSize
            /\ sent[Released + 1].n <= Contig(rIdx)
            /\ rIdx + sent[Released + 1].n <= wIdx
        BY <2>1, <2>2, <2>3, <2>4
      <3> QED
        BY <3>1, <3>2, <2>3
    <2>5. CASE rIdx # sent[Released + 1].s
      <3>1. HeaderLens(rIdx % DataSize) = {0}
        BY <2>5, HeaderCases
      <3>2. 0 \in 0 .. DataSize /\ rIdx + Contig(rIdx) < wIdx
        BY <2>1, <2>2, <2>3, <2>5
      <3> QED
        BY <3>1, <3>2
    <2> QED
      BY <2>4, <2>5
  <1> QED
    BY <1>1, Invariance, PTL

---------------------------------------------------------------------------
(* Refinement.                                                             *)

\* The queue of undelivered frames as a sequence.
LEMMA PendingSeq ==
  ASSUME IInv
  PROVE  /\ Len(sent) \in Nat /\ Len(got) \in Nat /\ Len(got) <= Len(sent)
         /\ Pending \in Seq(Nat)
         /\ Len(Pending) = Len(sent) - Len(got)
         /\ \A j \in 1 .. Len(sent) - Len(got) : Pending[j] = Len(got) + j
  <1>1. Len(sent) \in Nat /\ Len(got) \in Nat /\ Len(got) <= Len(sent)
    BY Numbers DEF IInv, FifoIntact
  <1>2. Pending \in Seq(Nat) /\ Len(Pending) = Len(sent) - Len(got)
    BY <1>1 DEF Pending
  <1> QED
    BY <1>1, <1>2 DEF Pending

\* Publish is Accept, UseView is Deliver, everything else is a stutter.
LEMMA FifoStep ==
  ASSUME IInv, IInv', [Next]_vars
  PROVE  [Fifo!Next]_(Fifo!fifoVars)
  <1>0. /\ Len(sent) \in Nat /\ Len(got) \in Nat /\ Len(got) <= Len(sent)
        /\ Pending \in Seq(Nat)
        /\ Len(Pending) = Len(sent) - Len(got)
        /\ \A j \in 1 .. Len(sent) - Len(got) : Pending[j] = Len(got) + j
    BY PendingSeq
  <1>p. /\ Len(sent') \in Nat /\ Len(got') \in Nat
        /\ Pending' \in Seq(Nat)
        /\ Len(Pending') = Len(sent') - Len(got')
        /\ \A j \in 1 .. Len(sent') - Len(got') : Pending'[j] = Len(got') + j
    <2>1. Len(sent') \in Nat /\ Len(got') \in Nat /\ Len(got') <= Len(sent')
      BY DEF IInv, TypeOK, FifoIntact
    <2>2. Pending' \in Seq(Nat) /\ Len(Pending') = Len(sent') - Len(got')
      BY <2>1 DEF Pending
    <2> QED
      BY <2>1, <2>2 DEF Pending
  <1>1. CASE Publish
    <2>1. got' = got /\ Len(sent') = Len(sent) + 1
      BY <1>1, <1>0 DEF Publish, IInv, TypeOK
    <2>2. Len(Pending') = Len(Pending) + 1
      BY <1>0, <1>p, <2>1
    <2>3. \A j \in 1 .. Len(Pending) : Pending'[j] = Pending[j]
      <3> TAKE j \in 1 .. Len(Pending)
      <3>1. Pending[j] = Len(got) + j
        BY <1>0
      <3>2. j \in 1 .. Len(sent') - Len(got')
        BY <1>0, <1>p, <2>1
      <3> QED
        BY <3>1, <3>2, <1>p, <2>1
    <2>4. Pending'[Len(Pending) + 1] = Len(got) + Len(Pending) + 1
      BY <1>0, <1>p, <2>1
    <2>5. Pending' = Append(Pending, Len(got) + Len(Pending) + 1)
      <3>1. /\ Append(Pending, Len(got) + Len(Pending) + 1) \in Seq(Nat)
            /\ Len(Append(Pending, Len(got) + Len(Pending) + 1)) = Len(Pending) + 1
        BY <1>0
      <3>2. \A j \in 1 .. Len(Pending) + 1 :
              Append(Pending, Len(got) + Len(Pending) + 1)[j] = Pending'[j]
        BY <1>0, <2>3, <2>4
      <3> QED
        BY <3>1, <3>2, <1>p, <2>2, SeqEqual
    <2> QED
      BY <2>1, <2>5 DEF Fifo!Next, Fifo!Accept
  <1>2. CASE UseView
    <2>1. Released = Len(got) /\ Released < Len(sent) /\ sent' = sent
      BY <1>2 DEF UseView, IInv, ConsumerAt, Released
    <2>2. got' = Append(got, Len(got) + 1)
      BY <1>2, <2>1, ViewWhole DEF UseView
    <2>3. Len(got') = Len(got) + 1
      BY <2>2, <1>0 DEF IInv, TypeOK
    <2>4. Pending # <<>> /\ Head(Pending) = Len(got) + 1
      BY <2>1, <1>0
    <2>5. Len(Pending') = Len(Pending) - 1
      BY <1>0, <1>p, <2>1, <2>3
    <2>6. \A j \in 1 .. Len(Pending) - 1 : Pending'[j] = Pending[j + 1]
      BY <1>0, <1>p, <2>1, <2>3
    <2>7. Pending' = Tail(Pending)
      <3>1. Tail(Pending) \in Seq(Nat) /\ Len(Tail(Pending)) = Len(Pending) - 1
        BY <1>0, <2>4
      <3>2. \A j \in 1 .. Len(Pending) - 1 : Tail(Pending)[j] = Pending'[j]
        BY <1>0, <2>4, <2>6
      <3> QED
        BY <3>1, <3>2, <1>p, <2>5, SeqEqual
    <2> QED
      BY <2>2, <2>4, <2>7 DEF Fifo!Next, Fifo!Deliver
  <1>3. CASE sent' = sent /\ got' = got
    BY <1>3 DEF Fifo!fifoVars, Pending
  <1>4. Publish \/ UseView \/ (sent' = sent /\ got' = got)
    BY DEF Next, Call, ProducerStep, ConsumerStep, vars, WriteToTooLarge,
       WriteTo, SendInPlace, Probe, WriteSkip, Fill, Retry, GiveUp,
       SerializeBody, CommitHeader, DeadlinePasses, ReadLoad, ReadHeader,
       ReadSkip, ReleaseView
  <1> QED
    BY <1>1, <1>2, <1>3, <1>4

\* The ring implements the abstract queue of frames.
THEOREM Refinement == Spec => RefinesFifo
  <1>1. Init => Fifo!Init
    BY DEF Init, Fifo!Init, Pending
  <1>2. IInv /\ IInv' /\ [Next]_vars => [Fifo!Next]_(Fifo!fifoVars)
    BY FifoStep
  <1> QED
    BY <1>1, <1>2, Invariance, PTL DEF Spec, RefinesFifo, Fifo!Spec

\* The safety of the ring (write_to, read_frame_view and the zero-copy pair on
\* one segment), as the run checks it: all of the above at once.
THEOREM Safety == Spec => []RingSafe
  <1>1. TypeOK /\ IndexOrder /\ WriteClear /\ HeaderWhole /\ FifoIntact => RingSafe
    BY DEF RingSafe
  <1> QED
    BY <1>1, TypeCorrect, NoIndexWrap, NoOverwrite, NoCorruptHeader, Delivery, PTL

---------------------------------------------------------------------------
(* Sessions: the inductive invariant.                                      *)

IsSeq(s) == s \in Seq({s[i] : i \in DOMAIN s})

SegFields == {"name", "by", "for", "pid", "ready", "fmt", "req", "resp"}
SrvFields == {"pc", "run", "next", "id", "look", "c", "left"}
ClFields == {"pc", "srv", "name", "own", "seg", "reg", "rfd", "req", "resp", "mid", "sent"}

\* The shapes of the state, and what is not indexed.
Shape ==
  /\ world \in Worlds
  /\ IsSeq(segs) /\ \A g \in DOMAIN segs : DOMAIN segs[g] = SegFields
  /\ files \in [Ids -> 0 .. Len(segs)]
  /\ path \in Servers \cup {None}
  /\ ends \in 0 .. MaxEnds
  /\ DOMAIN srv = Servers /\ \A s \in Servers : DOMAIN srv[s] = SrvFields
  /\ DOMAIN cl = Clients /\ \A c \in Clients : DOMAIN cl[c] = ClFields

\* The pid in a control block is its creator's; it is there before ready.
SegmentOk(g) ==
  /\ segs[g].name \in Ids /\ segs[g].req \in 0 .. Cap /\ segs[g].resp \in 0 .. Cap
  /\ segs[g].by \in Servers => srv[segs[g].by].pc # "off"
  /\ segs[g].pid \in {None, segs[g].by}
  /\ segs[g].ready /\ segs[g].pid = None => segs[g].by \notin Servers

Seeking == {"create", "judge", "unlink", "again"}
Making == {"pid", "ready", "offer", "drop"}
Leaving == {"destroy", "members"}
Early == {"idle", "queued", "queued dead"}
Unanswered == {"accepted", "lost"}

\* What s looked at before it unlinks a name: a segment of that name whose creator
\* does not live.
JudgedDead(s) ==
  /\ srv[s].look \in DOMAIN segs
  /\ segs[srv[s].look].name = srv[s].id /\ ~Up(segs[srv[s].look].by)

\* The accept loop serves one connection at a time: a client of its own that has
\* nothing yet, and then the segment made for it.  What a reclaim is about to
\* unlink was judged to be a dead creator's.  What a destructor has left to do are
\* entries of its own.
ServerOk(s) ==
  /\ srv[s].next \in 0 .. MaxClients
  /\ srv[s].pc \in Seeking \cup Making \cup {"wait"} =>
       /\ srv[s].c \in Clients /\ srv[s].id \in Ids
       /\ cl[srv[s].c].srv = s /\ cl[srv[s].c].pc \notin Early
  /\ srv[s].pc \in Seeking \cup Making => cl[srv[s].c].pc \in Unanswered
  /\ srv[s].pc \in Making \cup {"wait"} =>
       /\ InHand(s) \in DOMAIN segs
       /\ segs[InHand(s)].by = s /\ segs[InHand(s)].name = srv[s].id
  /\ srv[s].pc = "ready" => segs[InHand(s)].pid = s
  /\ srv[s].pc = "unlink" => JudgedDead(s)
  /\ srv[s].pc \in Leaving =>
       \A c \in srv[s].left : c \in Clients /\ cl[c].srv = s /\ cl[c].reg # "none"

\* A client that was offered a name was offered that of its own segment; what it
\* maps is this segment, or the name no longer stands for it.
ClientOk(c) ==
  /\ cl[c].own \in 0 .. Len(segs) /\ cl[c].seg \in 0 .. Len(segs)
  /\ cl[c].req \in Nat /\ cl[c].resp \in Nat
  /\ cl[c].pc \in Early => cl[c].reg = "none"
  /\ cl[c].reg # "none" => cl[c].own # 0 /\ segs[cl[c].own].by = cl[c].srv
  /\ cl[c].pc \in {"offered", "named", "mapped", "open"} =>
       cl[c].own # 0 /\ cl[c].name = segs[cl[c].own].name
  /\ cl[c].pc \in {"mapped", "open", "dead"} => cl[c].seg # 0
  /\ cl[c].pc \in {"mapped", "open"} /\ cl[c].seg # cl[c].own => files[segs[cl[c].own].name] # cl[c].own

\* A name stands for the newest segment that was ever given it (O_EXCL).
NamesNewest ==
  \A n \in Ids : files[n] # 0 =>
    segs[files[n]].name = n /\ \A g \in DOMAIN segs : segs[g].name = n => g <= files[n]

SessionInv ==
  /\ Shape /\ NamesNewest
  /\ \A g \in DOMAIN segs : SegmentOk(g)
  /\ \A s \in Servers : ServerOk(s)
  /\ \A c \in Clients : ClientOk(c)

LEMMA SeqIs ==
  ASSUME NEW s, IsSeq(s)
  PROVE  DOMAIN s = 1 .. Len(s) /\ Len(s) \in Nat
  BY DEF IsSeq

LEMMA Relabelled ==
  ASSUME NEW s, IsSeq(s), NEW t, t = [i \in DOMAIN s |-> t[i]]
  PROVE  IsSeq(t) /\ Len(t) = Len(s) /\ DOMAIN t = DOMAIN s
  <1>1. PICK n \in Nat : n = Len(s) /\ DOMAIN s = 1 .. n
    BY SeqIs
  <1>2. DOMAIN t = 1 .. n
    BY <1>1
  <1>3. PICK X : X = {t[i] : i \in 1 .. n}
    OBVIOUS
  <1>4. t \in [1 .. n -> X]
    BY <1>1, <1>3
  <1>5. t \in Seq(X) /\ Len(t) = n
    BY <1>4
  <1> QED
    BY <1>1, <1>2, <1>3, <1>5 DEF IsSeq

OneLonger(t, s, x) ==
  /\ IsSeq(t) /\ Len(t) = Len(s) + 1 /\ DOMAIN t = 1 .. Len(s) + 1
  /\ t[Len(s) + 1] = x /\ \A i \in DOMAIN s : t[i] = s[i]

LEMMA Appended ==
  ASSUME NEW s, IsSeq(s), NEW x
  PROVE  OneLonger(Append(s, x), s, x)
  <1>0. PICK t : t = Append(s, x)
    OBVIOUS
  <1>1. PICK X : X = {s[i] : i \in DOMAIN s} \cup {x}
    OBVIOUS
  <1>2. s \in Seq(X) /\ x \in X
    BY <1>1 DEF IsSeq
  <1>3. Len(t) = Len(s) + 1 /\ t[Len(t)] = x /\ (\A i \in DOMAIN s : t[i] = s[i]) /\ DOMAIN t = 1 .. Len(t) /\ t \in Seq(X)
    BY <1>0, <1>2
  <1>4. IsSeq(t)
    BY <1>3 DEF IsSeq
  <1> QED
    BY <1>0, <1>3, <1>4 DEF OneLonger

---------------------------------------------------------------------------
(* What a step keeps.                                                      *)

Busy == Seeking \cup Making \cup {"wait"}

SegsKept ==
  /\ IsSeq(segs') /\ Len(segs') >= Len(segs)
  /\ \A g \in DOMAIN segs :
       /\ segs'[g].name = segs[g].name /\ segs'[g].by = segs[g].by
       /\ segs[g].pid # None => segs'[g].pid = segs[g].pid

FilesKept == \A n \in Ids : files'[n] \in {files[n], 0} \/ files'[n] > Len(segs)

\* No process returns to "off" or from the dead.
NeverBack ==
  \A s \in Servers : /\ srv[s].pc # "off" => srv'[s].pc # "off"
                     /\ srv[s].pc = "dead" => srv'[s].pc = "dead"

\* Nothing but the counters of an entry changes.
SameClient(c) ==
  /\ cl'[c].pc = cl[c].pc /\ cl'[c].srv = cl[c].srv /\ cl'[c].name = cl[c].name
  /\ cl'[c].own = cl[c].own /\ cl'[c].seg = cl[c].seg /\ cl'[c].reg = cl[c].reg
  /\ cl'[c].req \in Nat /\ cl'[c].resp \in Nat

\* What the server that is at work for a client relies on.
Held(c) ==
  /\ cl'[c].srv = cl[c].srv /\ cl'[c].own = cl[c].own
  /\ cl[c].pc \notin Early => cl'[c].pc \notin Early
  /\ cl[c].pc \in Unanswered => cl'[c].pc \in Unanswered
  /\ cl[c].reg # "none" => cl'[c].reg # "none"

\* What s relies on while others move.
Relied(s) ==
  /\ srv[s].pc \in Busy => Held(srv[s].c)
  /\ srv[s].pc \in Leaving => \A c \in srv[s].left : Held(c)

LEMMA AllHeld ==
  ASSUME SessionInv, \A c \in Clients : Held(c)
  PROVE  \A s \in Servers : Relied(s)
  BY DEF SessionInv, ServerOk, Busy, Relied

LEMMA SegsSame ==
  ASSUME Shape, segs' = segs
  PROVE  SegsKept /\ \A g \in DOMAIN segs' : DOMAIN segs'[g] = SegFields
  <1>1. Len(segs) \in Nat
    BY SeqIs DEF Shape
  <1> QED
    BY <1>1 DEF Shape, SegsKept

LEMMA Indices ==
  ASSUME Shape
  PROVE  DOMAIN segs = 1 .. Len(segs) /\ Len(segs) \in Nat
  BY SeqIs DEF Shape

LEMMA KeptIndices ==
  ASSUME Shape, SegsKept
  PROVE  /\ DOMAIN segs' = 1 .. Len(segs') /\ Len(segs') \in Nat
         /\ \A g \in DOMAIN segs : g \in DOMAIN segs' /\ g \in 1 .. Len(segs)
         /\ \A g \in 0 .. Len(segs) : g \in 0 .. Len(segs')
  <1>1. DOMAIN segs = 1 .. Len(segs) /\ Len(segs) \in Nat
    BY Indices
  <1>2. DOMAIN segs' = 1 .. Len(segs') /\ Len(segs') \in Nat
    BY SeqIs DEF SegsKept
  <1>3. Len(segs') >= Len(segs)
    BY DEF SegsKept
  <1> QED
    BY <1>1, <1>2, <1>3

LEMMA SegmentStays ==
  ASSUME Shape, NEW g \in DOMAIN segs, SegmentOk(g), segs'[g] = segs[g], NeverBack
  PROVE  SegmentOk(g)'
  BY DEF SegmentOk, NeverBack

LEMMA ServerStays ==
  ASSUME SessionInv, SegsKept, NeverBack, NEW s \in Servers, srv'[s] = srv[s],
         Relied(s)
  PROVE  ServerOk(s)'
  <1>1. ServerOk(s) /\ Shape /\ (srv[s].pc \in Busy => srv[s].c \in Clients)
    BY DEF SessionInv, ServerOk, Busy
  <1>2. \A g \in DOMAIN segs : g \in DOMAIN segs'
    BY <1>1, KeptIndices
  <1>3. srv[s].pc \in Seeking \cup Making \cup {"wait"} =>
          /\ srv[s].c \in Clients /\ srv[s].id \in Ids
          /\ cl'[srv[s].c].srv = s /\ cl'[srv[s].c].pc \notin Early /\ cl'[srv[s].c].own = cl[srv[s].c].own
    BY <1>1 DEF ServerOk, Held, Busy, Relied
  <1>4. srv[s].pc \in Seeking \cup Making => cl'[srv[s].c].pc \in Unanswered
    BY <1>1 DEF ServerOk, Held, Busy, Relied
  <1>5. srv[s].pc \in Making \cup {"wait"} =>
          /\ InHand(s) \in DOMAIN segs
          /\ segs[InHand(s)].by = s /\ segs[InHand(s)].name = srv[s].id
    BY <1>1 DEF ServerOk
  <1>6. srv[s].pc \in Making \cup {"wait"} =>
          /\ InHand(s)' \in DOMAIN segs'
          /\ segs'[InHand(s)'].by = s /\ segs'[InHand(s)'].name = srv[s].id
          /\ InHand(s)' = InHand(s)
    <2>1. srv[s].pc \in Making \cup {"wait"} => InHand(s)' = InHand(s)
      BY <1>3 DEF InHand
    <2> QED
      BY <1>2, <1>5, <2>1 DEF SegsKept
  <1>7. srv[s].pc = "ready" => segs'[InHand(s)'].pid = s
    <2> SUFFICES ASSUME srv[s].pc = "ready" PROVE segs'[InHand(s)'].pid = s
      OBVIOUS
    <2>1. segs[InHand(s)].pid = s /\ s # None
      BY <1>1, SessionAssumption DEF ServerOk
    <2>2. InHand(s) \in DOMAIN segs /\ InHand(s)' = InHand(s)
      BY <1>5, <1>6 DEF Making
    <2> QED
      BY <2>1, <2>2 DEF SegsKept
  <1>8. srv[s].pc = "unlink" => JudgedDead(s)'
    <2> SUFFICES ASSUME srv[s].pc = "unlink" PROVE JudgedDead(s)'
      OBVIOUS
    <2>1. PICK g \in DOMAIN segs : g = srv[s].look /\ ~Up(segs[g].by) /\ segs[g].name = srv[s].id
      BY <1>1 DEF ServerOk, JudgedDead
    <2>2. PICK b : b = segs[g].by
      OBVIOUS
    <2>3. ~Up(b) /\ SegmentOk(g) /\ segs'[g].by = b /\ segs'[g].name = srv[s].id
      BY <2>1, <2>2 DEF SessionInv, SegsKept
    <2>4. ~Up(b)'
      BY <2>2, <2>3 DEF Up, NeverBack, SegmentOk
    <2> QED
      BY <1>2, <2>1, <2>3, <2>4 DEF JudgedDead
  <1>9. srv'[s].next \in 0 .. MaxClients
    BY <1>1 DEF ServerOk
  <1>10. srv[s].pc \in Leaving =>
           \A c \in srv[s].left : c \in Clients /\ cl'[c].srv = s /\ cl'[c].reg # "none"
    BY <1>1 DEF ServerOk, Held, Relied
  <1> QED
    BY <1>3, <1>4, <1>6, <1>7, <1>8, <1>9, <1>10 DEF ServerOk

LEMMA ClientStays ==
  ASSUME SessionInv, SegsKept, FilesKept, NEW c \in Clients, SameClient(c)
  PROVE  ClientOk(c)'
  <1>1. ClientOk(c) /\ Shape
    BY DEF SessionInv
  <1>2. /\ \A g \in 0 .. Len(segs) : g # 0 => g \in DOMAIN segs
        /\ \A g \in 0 .. Len(segs) : g \in 0 .. Len(segs')
    BY <1>1, Indices, KeptIndices
  <1>3. PICK o \in 0 .. Len(segs) : o = cl[c].own
    BY <1>1 DEF ClientOk
  <1>4. o # 0 => segs'[o].name = segs[o].name /\ segs'[o].by = segs[o].by
    BY <1>2 DEF SegsKept
  <1>5. cl'[c].own = o
    BY <1>3 DEF SameClient
  <1>6. /\ cl'[c].own \in 0 .. Len(segs') /\ cl'[c].seg \in 0 .. Len(segs')
        /\ cl'[c].req \in Nat /\ cl'[c].resp \in Nat
    BY <1>1, <1>2 DEF ClientOk, SameClient
  <1>7. /\ cl'[c].pc \in Early => cl'[c].reg = "none"
        /\ cl'[c].pc \in {"mapped", "open", "dead"} => cl'[c].seg # 0
    BY <1>1 DEF ClientOk, SameClient
  <1>8. cl'[c].reg # "none" => cl'[c].own # 0 /\ segs'[cl'[c].own].by = cl'[c].srv
    BY <1>1, <1>3, <1>4, <1>5 DEF ClientOk, SameClient
  <1>9. cl'[c].pc \in {"offered", "named", "mapped", "open"} =>
          cl'[c].own # 0 /\ cl'[c].name = segs'[cl'[c].own].name
    BY <1>1, <1>3, <1>4, <1>5 DEF ClientOk, SameClient
  <1>10. cl'[c].pc \in {"mapped", "open"} /\ cl'[c].seg # cl'[c].own => files'[segs'[cl'[c].own].name] # cl'[c].own
    <2> SUFFICES ASSUME cl'[c].pc \in {"mapped", "open"}, cl'[c].seg # cl'[c].own
                 PROVE  files'[segs'[o].name] # o
      BY <1>5
    <2>1. o # 0 /\ files[segs[o].name] # o
      BY <1>1, <1>3 DEF ClientOk, SameClient
    <2>2. PICK n \in Ids : n = segs[o].name
      BY <1>2, <2>1 DEF SessionInv, SegmentOk
    <2>3. segs'[o].name = n
      BY <1>4, <2>1, <2>2
    <2>4. files'[n] \in {files[n], 0} \/ files'[n] > Len(segs)
      BY DEF FilesKept
    <2>5. o <= Len(segs)
      BY <1>1, <1>3, Indices
    <2>6. files'[n] # o
      <3>1. CASE files'[n] \in {files[n], 0}
        BY <2>1, <2>2, <3>1
      <3>2. CASE files'[n] > Len(segs)
        <4>1. Len(segs) \in Nat /\ o \in Nat
          BY <1>1, Indices
        <4> QED
          BY <2>5, <3>2, <4>1
      <3> QED
        BY <2>4, <3>1, <3>2
    <2> QED
      BY <2>3, <2>6
  <1> QED
    BY <1>6, <1>7, <1>8, <1>9, <1>10 DEF ClientOk

\* Names go away, and no segment is added.
LEMMA NamesStay ==
  ASSUME SessionInv, SegsKept, FilesKept, Len(segs') = Len(segs), files' \in [Ids -> 0 .. Len(segs')]
  PROVE  NamesNewest'
  <1>1. Shape /\ NamesNewest
    BY DEF SessionInv
  <1>2. PICK k \in Nat : k = Len(segs) /\ DOMAIN segs = 1 .. k /\ DOMAIN segs' = 1 .. k
    BY <1>1, Indices, KeptIndices
  <1> SUFFICES ASSUME NEW n \in Ids, files'[n] # 0
               PROVE  /\ segs'[files'[n]].name = n
                      /\ \A g \in DOMAIN segs' : segs'[g].name = n => g <= files'[n]
    BY DEF NamesNewest
  <1>3. files'[n] = files[n] /\ files[n] \in 1 .. k
    <2>1. files'[n] \in 0 .. k /\ files[n] \in 0 .. k
      BY <1>1, <1>2 DEF Shape
    <2>2. files'[n] \in {files[n], 0} \/ files'[n] > k
      BY <1>2 DEF FilesKept
    <2> QED
      BY <2>1, <2>2
  <1>4. \A g \in 1 .. k : segs'[g].name = segs[g].name
    BY <1>2 DEF SegsKept
  <1> QED
    BY <1>1, <1>2, <1>3, <1>4 DEF NamesNewest

\* What a step has to show: the rest follows from what it keeps.
LEMMA Moved ==
  ASSUME SessionInv, SegsKept, FilesKept, NeverBack, Shape',
         Len(segs') = Len(segs) \/ NamesNewest',
         \A g \in DOMAIN segs' : SegmentOk(g)',
         \A s \in Servers : ServerOk(s)' \/ (srv'[s] = srv[s] /\ Relied(s)),
         \A c \in Clients : ClientOk(c)' \/ SameClient(c)
  PROVE  SessionInv'
  <1>0. NamesNewest'
    BY NamesStay DEF Shape
  <1>1. ASSUME NEW s \in Servers PROVE ServerOk(s)'
    BY ServerStays
  <1>2. ASSUME NEW c \in Clients PROVE ClientOk(c)'
    BY ClientStays
  <1> QED
    BY <1>0, <1>1, <1>2 DEF SessionInv

\* A step of the client c.
ClientStep(c) ==
  /\ UNCHANGED <<world, files, path, srv>> /\ ends' \in 0 .. MaxEnds
  /\ DOMAIN cl' = Clients /\ DOMAIN cl'[c] = ClFields
  /\ \A d \in Clients \ {c} : cl'[d] = cl[d]

LEMMA ClientActs ==
  ASSUME SessionInv, NEW c \in Clients, ClientStep(c), SegsKept, Len(segs') = Len(segs),
         \A g \in DOMAIN segs' : DOMAIN segs'[g] = SegFields /\ SegmentOk(g)', Held(c), ClientOk(c)'
  PROVE  SessionInv'
  <1>1. FilesKept /\ NeverBack
    BY DEF FilesKept, NeverBack, ClientStep
  <1>2. Shape'
    BY DEF SessionInv, Shape, ClientStep, SegsKept
  <1>3. \A d \in Clients \ {c} : SameClient(d) /\ Held(d)
    BY DEF ClientStep, SameClient, Held, SessionInv, ClientOk
  <1>4. \A s \in Servers : srv'[s] = srv[s] /\ Relied(s)
    BY <1>3, AllHeld DEF ClientStep
  <1> QED
    BY <1>1, <1>2, <1>3, <1>4, Moved

\* The same when no segment changes.
LEMMA ClientActsAlone ==
  ASSUME SessionInv, NEW c \in Clients, ClientStep(c), segs' = segs, Held(c), ClientOk(c)'
  PROVE  SessionInv'
  <1>1. Shape /\ NeverBack
    BY DEF SessionInv, NeverBack, ClientStep
  <1>2. SegsKept /\ \A g \in DOMAIN segs' : DOMAIN segs'[g] = SegFields
    BY <1>1, SegsSame
  <1>3. \A g \in DOMAIN segs' : SegmentOk(g)'
    BY <1>1, SegmentStays DEF SessionInv
  <1> QED
    BY <1>2, <1>3, ClientActs

\* A step of the accept loop of s.
ServerStep(s) ==
  /\ UNCHANGED world /\ path' \in Servers \cup {None} /\ ends' \in 0 .. MaxEnds
  /\ DOMAIN srv' = Servers /\ DOMAIN srv'[s] = SrvFields
  /\ \A x \in Servers \ {s} : srv'[x] = srv[x]
  /\ srv[s].pc # "dead" /\ srv'[s].pc # "off"

\* The others are not disturbed: a client has one server.
LEMMA ServerActs ==
  ASSUME SessionInv, NEW s \in Servers, ServerStep(s), SegsKept, FilesKept,
         files' \in [Ids -> 0 .. Len(segs')], Len(segs') = Len(segs) \/ NamesNewest',
         \A g \in DOMAIN segs' : DOMAIN segs'[g] = SegFields /\ SegmentOk(g)',
         DOMAIN cl' = Clients, \A c \in Clients : DOMAIN cl'[c] = ClFields,
         \A c \in Clients : cl[c].srv # s => cl'[c] = cl[c],
         \A c \in Clients : ClientOk(c)' \/ SameClient(c), ServerOk(s)'
  PROVE  SessionInv'
  <1>1. NeverBack
    BY DEF NeverBack, ServerStep
  <1>2. Shape'
    BY DEF SessionInv, Shape, ServerStep, SegsKept
  <1>3. ASSUME NEW x \in Servers, x # s
        PROVE  srv'[x] = srv[x] /\ Relied(x)
    <2>1. srv'[x] = srv[x]
      BY <1>3 DEF ServerStep
    <2>2. ASSUME srv[x].pc \in Busy PROVE Held(srv[x].c)
      <3>1. PICK c \in Clients : c = srv[x].c /\ cl[c].srv = x
        BY <2>2 DEF SessionInv, ServerOk, Busy
      <3>2. cl'[c] = cl[c]
        BY <1>3, <3>1
      <3> QED
        BY <3>1, <3>2 DEF Held
    <2>3. ASSUME srv[x].pc \in Leaving, NEW c \in srv[x].left PROVE Held(c)
      <3>1. c \in Clients /\ cl[c].srv = x
        BY <2>3 DEF SessionInv, ServerOk
      <3>2. cl'[c] = cl[c]
        BY <1>3, <3>1
      <3> QED
        BY <3>2 DEF Held
    <2> QED
      BY <2>1, <2>2, <2>3 DEF Relied
  <1> QED
    BY <1>1, <1>2, <1>3, Moved

LEMMA ServerActsAlone ==
  ASSUME SessionInv, NEW s \in Servers, ServerStep(s), UNCHANGED <<segs, cl>>, FilesKept,
         files' \in [Ids -> 0 .. Len(segs)], ServerOk(s)'
  PROVE  SessionInv'
  <1>1. Shape /\ NeverBack
    BY DEF SessionInv, NeverBack, ServerStep
  <1>2. SegsKept /\ \A g \in DOMAIN segs' : DOMAIN segs'[g] = SegFields
    BY <1>1, SegsSame
  <1>3. \A g \in DOMAIN segs' : SegmentOk(g)'
    BY <1>1, SegmentStays DEF SessionInv
  <1>4. DOMAIN cl' = Clients /\ \A c \in Clients : DOMAIN cl'[c] = ClFields /\ cl'[c] = cl[c] /\ SameClient(c)
    BY DEF SessionInv, Shape, SameClient, ClientOk
  <1> QED
    BY <1>2, <1>3, <1>4, ServerActs

\* A step of s with the connection of its client c, segments as they are.
LEMMA PairActs ==
  ASSUME SessionInv, NEW s \in Servers, ServerStep(s), UNCHANGED <<segs, files>>,
         NEW c \in Clients, cl[c].srv = s, DOMAIN cl' = Clients, DOMAIN cl'[c] = ClFields,
         \A d \in Clients \ {c} : cl'[d] = cl[d], ClientOk(c)', ServerOk(s)'
  PROVE  SessionInv'
  <1>1. Shape /\ NeverBack
    BY DEF SessionInv, NeverBack, ServerStep
  <1>2. SegsKept /\ \A g \in DOMAIN segs' : DOMAIN segs'[g] = SegFields
    BY <1>1, SegsSame
  <1>3. \A g \in DOMAIN segs' : SegmentOk(g)'
    BY <1>1, SegmentStays DEF SessionInv
  <1>4. ASSUME NEW d \in Clients
        PROVE  DOMAIN cl'[d] = ClFields /\ (ClientOk(d)' \/ SameClient(d))
    <2>1. CASE d = c
      BY <2>1
    <2>2. CASE d # c
      <3>1. cl'[d] = cl[d] /\ DOMAIN cl[d] = ClFields /\ ClientOk(d)
        BY <1>1, <2>2 DEF SessionInv, Shape
      <3> QED
        BY <3>1 DEF SameClient, ClientOk
    <2> QED
      BY <2>1, <2>2
  <1>5. FilesKept /\ files' \in [Ids -> 0 .. Len(segs')]
    BY <1>1 DEF FilesKept, Shape
  <1> QED
    BY <1>2, <1>3, <1>4, <1>5, ServerActs

---------------------------------------------------------------------------
(* The steps of a client.                                                  *)

LEMMA ConnectKeeps ==
  ASSUME SessionInv, NEW c \in Clients, Connect(c)
  PROVE  SessionInv'
  <1>1. Shape /\ ClientOk(c) /\ cl[c].pc = "idle"
    BY DEF SessionInv, Connect
  <1>2. /\ UNCHANGED <<world, files, segs, path, srv, ends>> /\ DOMAIN cl' = Clients /\ DOMAIN cl'[c] = ClFields
        /\ \A d \in Clients \ {c} : cl'[d] = cl[d]
        /\ cl'[c].pc \in {"queued", "failed"} /\ cl'[c].name = cl[c].name /\ cl'[c].own = cl[c].own
        /\ cl'[c].seg = cl[c].seg /\ cl'[c].reg = cl[c].reg /\ cl'[c].req = cl[c].req /\ cl'[c].resp = cl[c].resp
    BY <1>1 DEF Connect, ClGoes, Shape, ClFields
  <1>3. ClientOk(c)'
    BY <1>1, <1>2 DEF ClientOk, Early
  <1>4. FilesKept /\ NeverBack /\ SegsKept /\ \A g \in DOMAIN segs' : DOMAIN segs'[g] = SegFields
    BY <1>1, <1>2, SegsSame DEF FilesKept, NeverBack
  <1>5. Shape'
    BY <1>1, <1>2 DEF Shape
  <1>6. \A g \in DOMAIN segs' : SegmentOk(g)'
    BY <1>1, <1>2, <1>4, SegmentStays DEF SessionInv
  <1>7. \A d \in Clients \ {c} : SameClient(d) /\ Held(d)
    BY <1>2 DEF SameClient, Held, SessionInv, ClientOk
  <1>8. \A s \in Servers : srv'[s] = srv[s] /\ Relied(s)
    <2> SUFFICES ASSUME NEW s \in Servers PROVE Relied(s)
      BY <1>2
    <2>1. ASSUME srv[s].pc \in Busy PROVE Held(srv[s].c)
      <3>1. srv[s].c \in Clients /\ cl[srv[s].c].pc \notin Early
        BY <2>1 DEF SessionInv, ServerOk, Busy
      <3>2. srv[s].c # c
        BY <1>1, <3>1 DEF Early
      <3> QED
        BY <1>7, <3>1, <3>2
    <2>2. ASSUME srv[s].pc \in Leaving, NEW d \in srv[s].left PROVE Held(d)
      <3>1. d \in Clients /\ cl[d].reg # "none"
        BY <2>2 DEF SessionInv, ServerOk
      <3>2. d # c
        BY <1>1, <3>1 DEF ClientOk, Early
      <3> QED
        BY <1>7, <3>1, <3>2
    <2> QED
      BY <2>1, <2>2 DEF Relied
  <1> QED
    BY <1>2, <1>3, <1>4, <1>5, <1>6, <1>7, <1>8, Moved

LEMMA HandshakeKeeps ==
  ASSUME SessionInv, NEW c \in Clients, HandshakeClient(c)
  PROVE  SessionInv'
  <1>1. Shape /\ ClientOk(c) /\ cl[c].pc = "offered"
    BY DEF SessionInv, HandshakeClient
  <1>2. /\ UNCHANGED <<world, files, segs, path, srv, ends>> /\ DOMAIN cl' = Clients /\ DOMAIN cl'[c] = ClFields
        /\ \A d \in Clients \ {c} : cl'[d] = cl[d]
        /\ cl'[c].pc = "named" /\ cl'[c].name = cl[c].name /\ cl'[c].own = cl[c].own /\ cl'[c].srv = cl[c].srv
        /\ cl'[c].seg = cl[c].seg /\ cl'[c].reg = cl[c].reg /\ cl'[c].req = cl[c].req /\ cl'[c].resp = cl[c].resp
    BY <1>1 DEF HandshakeClient, ClGoes, Shape, ClFields
  <1>3. ClientStep(c)
    BY <1>1, <1>2 DEF ClientStep, Shape
  <1>4. Held(c)
    BY <1>1, <1>2 DEF Held, Early, Unanswered
  <1>5. ClientOk(c)'
    BY <1>1, <1>2 DEF ClientOk, Early
  <1> QED
    BY <1>2, <1>3, <1>4, <1>5, ClientActsAlone

LEMMA OpenFileKeeps ==
  ASSUME SessionInv, NEW c \in Clients, OpenFile(c)
  PROVE  SessionInv'
  <1>1. Shape /\ ClientOk(c) /\ cl[c].pc = "named"
    BY DEF SessionInv, OpenFile
  <1>2. PICK g : g = files[cl[c].name]
    OBVIOUS
  <1>3. /\ cl[c].own # 0 /\ cl[c].name = segs[cl[c].own].name
        /\ cl[c].own \in DOMAIN segs /\ g \in 0 .. Len(segs)
    <2>1. cl[c].own # 0 /\ cl[c].name = segs[cl[c].own].name /\ cl[c].own \in 0 .. Len(segs)
      BY <1>1 DEF ClientOk
    <2>2. cl[c].own \in DOMAIN segs
      BY <1>1, <2>1, Indices
    <2>3. cl[c].name \in Ids
      BY <2>1, <2>2 DEF SessionInv, SegmentOk
    <2> QED
      BY <1>1, <1>2, <2>1, <2>2, <2>3 DEF Shape
  <1>4. /\ UNCHANGED <<world, files, segs, path, srv, ends>> /\ DOMAIN cl' = Clients /\ DOMAIN cl'[c] = ClFields
        /\ \A d \in Clients \ {c} : cl'[d] = cl[d]
        /\ cl'[c].name = cl[c].name /\ cl'[c].own = cl[c].own /\ cl'[c].srv = cl[c].srv
        /\ cl'[c].reg = cl[c].reg /\ cl'[c].req = cl[c].req /\ cl'[c].resp = cl[c].resp
        /\ \/ cl'[c].pc = "failed" /\ cl'[c].seg = cl[c].seg
           \/ cl'[c].pc = "mapped" /\ cl'[c].seg = g /\ g # 0
    BY <1>1, <1>2 DEF OpenFile, ClGoes, Shape, ClFields
  <1>5. ClientStep(c)
    BY <1>1, <1>4 DEF ClientStep, Shape
  <1>6. Held(c)
    BY <1>1, <1>4 DEF Held, Early, Unanswered
  <1>7. ClientOk(c)'
    BY <1>1, <1>2, <1>3, <1>4 DEF ClientOk, Early
  <1> QED
    BY <1>4, <1>5, <1>6, <1>7, ClientActsAlone

LEMMA OpenReadyKeeps ==
  ASSUME SessionInv, NEW c \in Clients, OpenReady(c)
  PROVE  SessionInv'
  <1>1. Shape /\ ClientOk(c) /\ cl[c].pc = "mapped"
    BY DEF SessionInv, OpenReady
  <1>2. /\ UNCHANGED <<world, files, segs, path, srv, ends>> /\ DOMAIN cl' = Clients /\ DOMAIN cl'[c] = ClFields
        /\ \A d \in Clients \ {c} : cl'[d] = cl[d]
        /\ cl'[c].pc \in {"open", "failed"} /\ cl'[c].name = cl[c].name /\ cl'[c].own = cl[c].own /\ cl'[c].srv = cl[c].srv
        /\ cl'[c].seg = cl[c].seg /\ cl'[c].reg = cl[c].reg /\ cl'[c].req = cl[c].req /\ cl'[c].resp = cl[c].resp
    BY <1>1 DEF OpenReady, ClGoes, Shape, ClFields
  <1>3. ClientStep(c)
    BY <1>1, <1>2 DEF ClientStep, Shape
  <1>4. Held(c)
    BY <1>1, <1>2 DEF Held, Early, Unanswered
  <1>5. ClientOk(c)'
    BY <1>1, <1>2 DEF ClientOk, Early
  <1> QED
    BY <1>2, <1>3, <1>4, <1>5, ClientActsAlone

LEMMA SendNotifyKeeps ==
  ASSUME SessionInv, NEW c \in Clients, SendNotify(c)
  PROVE  SessionInv'
  <1>1. Shape /\ ClientOk(c)
    BY DEF SessionInv
  <1>2. /\ UNCHANGED <<world, files, segs, path, srv, ends>> /\ DOMAIN cl' = Clients /\ DOMAIN cl'[c] = ClFields
        /\ \A d \in Clients \ {c} : cl'[d] = cl[d]
        /\ cl'[c].pc = cl[c].pc /\ cl'[c].name = cl[c].name /\ cl'[c].own = cl[c].own /\ cl'[c].srv = cl[c].srv
        /\ cl'[c].seg = cl[c].seg /\ cl'[c].reg = cl[c].reg /\ cl'[c].req = cl[c].req + 1 /\ cl'[c].resp = cl[c].resp
    BY <1>1 DEF SendNotify, Shape, ClFields
  <1>3. ClientStep(c)
    BY <1>1, <1>2 DEF ClientStep, Shape
  <1>4. Held(c)
    BY <1>2 DEF Held
  <1>5. ClientOk(c)'
    BY <1>1, <1>2 DEF ClientOk
  <1> QED
    BY <1>2, <1>3, <1>4, <1>5, ClientActsAlone

LEMMA Ends ==
  ASSUME Shape, Ending
  PROVE  ends' \in 0 .. MaxEnds
  <1>1. ends \in 0 .. MaxEnds /\ ends < MaxEnds /\ ends' = ends + 1 /\ MaxEnds \in Nat
    BY SessionAssumption DEF Shape, Ending
  <1> QED
    BY <1>1

LEMMA LeavesKeeps ==
  ASSUME SessionInv, NEW c \in Clients, Shutdown(c) \/ ClientDies(c)
  PROVE  SessionInv'
  <1>1. Shape /\ ClientOk(c)
    BY DEF SessionInv
  <1>2. ends' \in 0 .. MaxEnds
    BY <1>1, Ends DEF Shutdown, ClientDies
  <1>3. PICK p, m :
          /\ cl' = [cl EXCEPT ![c].pc = p, ![c].seg = 0, ![c].mid = m]
          /\ p \in {"queued dead", "lost", "shut"}
          /\ p = "queued dead" => cl[c].pc = "queued"
          /\ cl[c].pc \in Unanswered => p = "lost"
    <2>1. CASE Shutdown(c)
      <3>1. cl[c].pc \notin Unanswered
        BY <2>1 DEF Shutdown, Unanswered
      <3>2. cl' = [cl EXCEPT ![c].pc = "shut", ![c].seg = 0, ![c].mid = cl[c].mid]
        BY <1>1, <2>1 DEF Shutdown, Shape, ClFields
      <3> QED
        BY <3>1, <3>2
    <2>2. CASE ClientDies(c)
      <3>1. PICK q : q = CASE cl[c].pc = "queued" -> "queued dead"
                           [] cl[c].pc \in {"accepted", "offered"} -> "lost"
                           [] OTHER -> "shut"
        OBVIOUS
      <3>2. cl' = [cl EXCEPT ![c].pc = q, ![c].seg = 0, ![c].mid = FALSE]
        BY <2>2, <3>1 DEF ClientDies
      <3>3. cl[c].pc # "lost"
        BY <2>2 DEF ClientDies
      <3> QED
        BY <3>1, <3>2, <3>3 DEF Unanswered
    <2> QED
      BY <2>1, <2>2
  <1>4. /\ UNCHANGED <<world, files, segs, path, srv>> /\ DOMAIN cl' = Clients /\ DOMAIN cl'[c] = ClFields
        /\ \A d \in Clients \ {c} : cl'[d] = cl[d]
        /\ cl'[c].pc = p /\ cl'[c].name = cl[c].name /\ cl'[c].own = cl[c].own /\ cl'[c].srv = cl[c].srv
        /\ cl'[c].seg = 0 /\ cl'[c].reg = cl[c].reg /\ cl'[c].req = cl[c].req /\ cl'[c].resp = cl[c].resp
    <2>1. UNCHANGED <<world, files, segs, path, srv>>
      BY DEF Shutdown, ClientDies
    <2> QED
      BY <1>1, <1>3, <2>1 DEF Shape, ClFields
  <1>5. ClientStep(c)
    BY <1>1, <1>2, <1>4 DEF ClientStep, Shape
  <1>6. Held(c)
    BY <1>3, <1>4 DEF Held, Early, Unanswered
  <1>7. ClientOk(c)'
    <2>1. 0 \in 0 .. Len(segs)
      BY <1>1, Indices
    <2> QED
      BY <1>1, <1>3, <1>4, <2>1 DEF ClientOk, Early
  <1> QED
    BY <1>4, <1>5, <1>6, <1>7, ClientActsAlone

\* One field of a segment that a client or a server writes.
LEMMA SegmentWritten ==
  ASSUME Shape, NEW g \in DOMAIN segs, NEW r, DOMAIN r = SegFields, segs' = [segs EXCEPT ![g] = r],
         r.name = segs[g].name, r.by = segs[g].by, segs[g].pid # None => r.pid = segs[g].pid
  PROVE  /\ SegsKept /\ Len(segs') = Len(segs) /\ DOMAIN segs' = DOMAIN segs
         /\ \A h \in DOMAIN segs' : DOMAIN segs'[h] = SegFields
         /\ segs'[g] = r /\ \A h \in DOMAIN segs : h # g => segs'[h] = segs[h]
  <1>1. DOMAIN segs' = DOMAIN segs /\ segs'[g] = r /\ \A h \in DOMAIN segs : h # g => segs'[h] = segs[h]
    OBVIOUS
  <1>2. segs' = [h \in DOMAIN segs |-> segs'[h]]
    BY <1>1
  <1>3. IsSeq(segs') /\ Len(segs') = Len(segs)
    BY <1>2, Relabelled DEF Shape
  <1>4. Len(segs) \in Nat
    BY Indices
  <1> QED
    BY <1>1, <1>3, <1>4 DEF Shape, SegsKept

LEMMA SendWriteKeeps ==
  ASSUME SessionInv, NEW c \in Clients, SendWrite(c)
  PROVE  SessionInv'
  <1>1. Shape /\ ClientOk(c) /\ cl[c].pc \in {"open", "dead"}
    BY DEF SessionInv, SendWrite
  <1>2. PICK g \in DOMAIN segs : g = cl[c].seg
    BY <1>1, Indices DEF ClientOk
  <1>3. SegmentOk(g) /\ DOMAIN segs[g] = SegFields
    BY <1>1 DEF SessionInv, Shape
  <1>4. PICK r : r = [segs[g] EXCEPT !.req = @ + 1]
    OBVIOUS
  <1>5. /\ DOMAIN r = SegFields /\ r.name = segs[g].name /\ r.by = segs[g].by /\ r.pid = segs[g].pid
        /\ r.ready = segs[g].ready /\ r.resp = segs[g].resp /\ r.req = segs[g].req + 1
    BY <1>3, <1>4 DEF SegFields
  <1>6. segs' = [segs EXCEPT ![g] = r]
    BY <1>2, <1>4 DEF SendWrite
  <1>7. /\ SegsKept /\ Len(segs') = Len(segs) /\ DOMAIN segs' = DOMAIN segs
        /\ \A h \in DOMAIN segs' : DOMAIN segs'[h] = SegFields
        /\ segs'[g] = r /\ \A h \in DOMAIN segs : h # g => segs'[h] = segs[h]
    BY <1>1, <1>5, <1>6, SegmentWritten
  <1>8. /\ UNCHANGED <<world, files, path, srv, ends>> /\ DOMAIN cl' = Clients /\ DOMAIN cl'[c] = ClFields
        /\ \A d \in Clients \ {c} : cl'[d] = cl[d]
        /\ cl'[c].pc = cl[c].pc /\ cl'[c].name = cl[c].name /\ cl'[c].own = cl[c].own /\ cl'[c].srv = cl[c].srv
        /\ cl'[c].seg = cl[c].seg /\ cl'[c].reg = cl[c].reg /\ cl'[c].req = cl[c].req /\ cl'[c].resp = cl[c].resp
    BY <1>1 DEF SendWrite, Shape, ClFields
  <1>9. NeverBack /\ FilesKept
    BY <1>8 DEF NeverBack, FilesKept
  <1>10. SegmentOk(g)'
    <2>1. segs[g].req < Cap /\ segs[g].req \in 0 .. Cap /\ Cap \in Nat
      BY <1>2, <1>3, SessionAssumption DEF SendWrite, SegmentOk
    <2>2. segs[g].req + 1 \in 0 .. Cap
      BY <2>1
    <2> QED
      BY <1>3, <1>5, <1>7, <1>8, <2>2 DEF SegmentOk
  <1>11. \A h \in DOMAIN segs' : SegmentOk(h)'
    BY <1>1, <1>7, <1>9, <1>10, SegmentStays DEF SessionInv
  <1>12. ClientStep(c) /\ Held(c) /\ SameClient(c)
    BY <1>1, <1>8 DEF ClientStep, Shape, Held, SameClient, ClientOk
  <1>13. ClientOk(c)'
    BY <1>7, <1>9, <1>12, ClientStays
  <1> QED
    BY <1>7, <1>11, <1>12, <1>13, ClientActs

LEMMA ResponsesKeep ==
  ASSUME SessionInv, NEW c \in Clients, ResponseLoop(c)
  PROVE  SessionInv'
  <1>1. Shape /\ ClientOk(c) /\ cl[c].pc = "open"
    BY DEF SessionInv, ResponseLoop, ResponseWake, ResponseTimeout
  <1>2. PICK g \in DOMAIN segs : g = cl[c].seg
    BY <1>1, Indices DEF ClientOk
  <1>3. CASE ReadResponses(c) /\ (ResponseWake(c) \/ cl' = cl)
    <2>1. SegmentOk(g) /\ DOMAIN segs[g] = SegFields
      BY <1>1 DEF SessionInv, Shape
    <2>2. PICK r : r = [segs[g] EXCEPT !.resp = 0]
      OBVIOUS
    <2>3. /\ DOMAIN r = SegFields /\ r.name = segs[g].name /\ r.by = segs[g].by /\ r.pid = segs[g].pid
          /\ r.ready = segs[g].ready /\ r.req = segs[g].req /\ r.resp = 0
      BY <2>1, <2>2 DEF SegFields
    <2>4. segs' = [segs EXCEPT ![g] = r]
      BY <1>2, <1>3, <2>2 DEF ReadResponses
    <2>5. /\ SegsKept /\ Len(segs') = Len(segs) /\ DOMAIN segs' = DOMAIN segs
          /\ \A h \in DOMAIN segs' : DOMAIN segs'[h] = SegFields
          /\ segs'[g] = r /\ \A h \in DOMAIN segs : h # g => segs'[h] = segs[h]
      BY <1>1, <2>3, <2>4, SegmentWritten
    <2>6. /\ UNCHANGED <<world, files, path, srv, ends>>
          /\ cl' = cl \/ (cl' = [cl EXCEPT ![c].resp = @ - 1] /\ cl[c].resp > 0)
      BY <1>3 DEF ResponseLoop, ResponseWake, ResponseTimeout
    <2>7. /\ DOMAIN cl' = Clients /\ DOMAIN cl'[c] = ClFields
          /\ \A d \in Clients \ {c} : cl'[d] = cl[d]
          /\ cl'[c].pc = cl[c].pc /\ cl'[c].name = cl[c].name /\ cl'[c].own = cl[c].own /\ cl'[c].srv = cl[c].srv
          /\ cl'[c].seg = cl[c].seg /\ cl'[c].reg = cl[c].reg /\ cl'[c].req = cl[c].req
          /\ cl'[c].resp = cl[c].resp \/ (cl'[c].resp = cl[c].resp - 1 /\ cl[c].resp > 0)
      BY <1>1, <2>6 DEF Shape, ClFields
    <2>8. NeverBack /\ FilesKept
      BY <2>6 DEF NeverBack, FilesKept
    <2>9. SegmentOk(g)'
      <3>1. 0 \in 0 .. Cap
        BY SessionAssumption
      <3> QED
        BY <2>1, <2>3, <2>5, <2>6, <3>1 DEF SegmentOk
    <2>10. \A h \in DOMAIN segs' : SegmentOk(h)'
      BY <1>1, <2>5, <2>8, <2>9, SegmentStays DEF SessionInv
    <2>11. ClientStep(c) /\ Held(c) /\ SameClient(c)
      BY <1>1, <2>6, <2>7 DEF ClientStep, Shape, Held, SameClient, ClientOk
    <2>12. ClientOk(c)'
      BY <2>5, <2>8, <2>11, ClientStays
    <2> QED
      BY <2>5, <2>10, <2>11, <2>12, ClientActs
  <1>4. CASE ResponseTimeout(c) /\ ClGoes(c, "dead") /\ segs' = segs
    <2>1. /\ UNCHANGED <<world, files, path, srv, ends>> /\ DOMAIN cl' = Clients /\ DOMAIN cl'[c] = ClFields
          /\ \A d \in Clients \ {c} : cl'[d] = cl[d]
          /\ cl'[c].pc = "dead" /\ cl'[c].name = cl[c].name /\ cl'[c].own = cl[c].own /\ cl'[c].srv = cl[c].srv
          /\ cl'[c].seg = cl[c].seg /\ cl'[c].reg = cl[c].reg /\ cl'[c].req = cl[c].req /\ cl'[c].resp = cl[c].resp
      BY <1>1, <1>4 DEF ResponseTimeout, ClGoes, Shape, ClFields
    <2>2. ClientStep(c) /\ Held(c)
      BY <1>1, <2>1 DEF ClientStep, Shape, Held, Early, Unanswered
    <2>3. ClientOk(c)'
      BY <1>1, <1>4, <2>1 DEF ClientOk, Early
    <2> QED
      BY <1>4, <2>2, <2>3, ClientActsAlone
  <1> QED
    BY <1>3, <1>4 DEF ResponseLoop, ResponseWake, ResponseTimeout

---------------------------------------------------------------------------
(* The steps of a server's accept loop.                                    *)

\* A server that is not at work for anyone.
LEMMA Unoccupied ==
  ASSUME NEW s \in Servers, srv'[s].pc \notin Busy \cup Leaving, srv'[s].next \in 0 .. MaxClients
  PROVE  ServerOk(s)'
  BY DEF ServerOk, Busy, Seeking, Making

LEMMA StartsKeep ==
  ASSUME SessionInv, NEW s \in Servers, Start(s) \/ Bind(s) \/ AcceptEnds(s)
  PROVE  SessionInv'
  <1>1. Shape /\ ServerOk(s)
    BY DEF SessionInv
  <1>2. UNCHANGED <<world, files, segs, cl, ends>> /\ path' \in Servers \cup {None}
    BY <1>1 DEF Start, Bind, AcceptEnds, Shape
  <1>3. /\ DOMAIN srv' = Servers /\ DOMAIN srv'[s] = SrvFields
        /\ \A x \in Servers \ {s} : srv'[x] = srv[x]
        /\ srv'[s].pc \in {"bind", "accept", "ended"} /\ srv'[s].next = srv[s].next
        /\ srv[s].pc \in {"off", "bind", "accept"}
    BY <1>1 DEF Start, Bind, AcceptEnds, SrvGoes, Shape, SrvFields
  <1>4. ServerStep(s)
    BY <1>1, <1>2, <1>3 DEF ServerStep, Shape
  <1>5. FilesKept /\ files' \in [Ids -> 0 .. Len(segs)]
    BY <1>1, <1>2 DEF FilesKept, Shape
  <1>6. ServerOk(s)'
    <2>1. srv'[s].pc \notin Busy \cup Leaving
      BY <1>3 DEF Busy, Seeking, Making, Leaving
    <2> QED
      BY <1>1, <1>3, <2>1, Unoccupied DEF ServerOk
  <1> QED
    BY <1>2, <1>4, <1>5, <1>6, ServerActsAlone

\* What BackToAccept does to the server's record.
LEMMA BackIs ==
  ASSUME Shape, NEW s \in Servers, BackToAccept(s)
  PROVE  /\ DOMAIN srv' = Servers /\ DOMAIN srv'[s] = SrvFields
         /\ \A x \in Servers \ {s} : srv'[x] = srv[x]
         /\ srv'[s].pc = "accept" /\ srv'[s].next = srv[s].next
  BY DEF Shape, BackToAccept, SrvFields

LEMMA GoesIs ==
  ASSUME Shape, NEW s \in Servers, NEW p, SrvGoes(s, p)
  PROVE  /\ DOMAIN srv' = Servers /\ DOMAIN srv'[s] = SrvFields
         /\ \A x \in Servers \ {s} : srv'[x] = srv[x]
         /\ srv'[s].pc = p /\ srv'[s].next = srv[s].next /\ srv'[s].c = srv[s].c
         /\ srv'[s].id = srv[s].id /\ srv'[s].look = srv[s].look
  BY DEF Shape, SrvGoes, SrvFields

\* A connection is refused; segments and names may go through what a clean-up does.
LEMMA RefuseActs ==
  ASSUME SessionInv, NEW s \in Servers, NEW c \in Clients, cl[c].srv = s, srv[s].pc # "dead",
         Refuse(s, c), UNCHANGED <<world, path, ends>>, SegsKept, Len(segs') = Len(segs), FilesKept,
         files' \in [Ids -> 0 .. Len(segs')],
         NeverBack => \A g \in DOMAIN segs' : DOMAIN segs'[g] = SegFields /\ SegmentOk(g)'
  PROVE  SessionInv'
  <1>1. Shape /\ ServerOk(s) /\ ClientOk(c)
    BY DEF SessionInv
  <1>2. /\ DOMAIN srv' = Servers /\ DOMAIN srv'[s] = SrvFields
        /\ \A x \in Servers \ {s} : srv'[x] = srv[x]
        /\ srv'[s].pc = "accept" /\ srv'[s].next = srv[s].next
    BY <1>1, BackIs DEF Refuse
  <1>3. PICK p \in {"lost", "crashed"} : cl' = [cl EXCEPT ![c].pc = p]
    BY DEF Refuse
  <1>4. /\ DOMAIN cl' = Clients /\ DOMAIN cl'[c] = ClFields
        /\ \A d \in Clients \ {c} : cl'[d] = cl[d]
        /\ cl'[c].pc = p /\ cl'[c].name = cl[c].name /\ cl'[c].own = cl[c].own /\ cl'[c].srv = cl[c].srv
        /\ cl'[c].seg = cl[c].seg /\ cl'[c].reg = cl[c].reg /\ cl'[c].req = cl[c].req /\ cl'[c].resp = cl[c].resp
    BY <1>1, <1>3 DEF Shape, ClFields
  <1>5. ServerStep(s)
    BY <1>1, <1>2 DEF ServerStep, Shape
  <1>6. NeverBack
    BY <1>5 DEF NeverBack, ServerStep
  <1>7. ServerOk(s)'
    <2>1. srv'[s].pc \notin Busy \cup Leaving
      BY <1>2 DEF Busy, Seeking, Making, Leaving
    <2> QED
      BY <1>1, <1>2, <2>1, Unoccupied DEF ServerOk
  <1>8. ClientOk(c)'
    <2>1. cl[c].own # 0 => segs'[cl[c].own].by = segs[cl[c].own].by
      BY <1>1, Indices DEF ClientOk, SegsKept
    <2> QED
      BY <1>1, <1>4, <2>1 DEF ClientOk, Early
  <1>9. ASSUME NEW d \in Clients
        PROVE  DOMAIN cl'[d] = ClFields /\ (ClientOk(d)' \/ SameClient(d)) /\ (cl[d].srv # s => cl'[d] = cl[d])
    <2>1. CASE d = c
      BY <1>4, <1>8, <2>1
    <2>2. CASE d # c
      <3>1. cl'[d] = cl[d] /\ DOMAIN cl[d] = ClFields /\ ClientOk(d)
        BY <1>1, <1>4, <2>2 DEF SessionInv, Shape
      <3> QED
        BY <3>1 DEF SameClient, ClientOk
    <2> QED
      BY <2>1, <2>2
  <1> QED
    BY <1>4, <1>5, <1>6, <1>7, <1>9, ServerActs

LEMMA RefuseKeeps ==
  ASSUME SessionInv, NEW s \in Servers, NEW c \in Clients, cl[c].srv = s, srv[s].pc # "dead",
         Refuse(s, c), UNCHANGED <<world, files, segs, path, ends>>
  PROVE  SessionInv'
  <1>1. Shape
    BY DEF SessionInv
  <1>2. SegsKept /\ FilesKept /\ files' \in [Ids -> 0 .. Len(segs')]
    BY <1>1, SegsSame DEF FilesKept, Shape
  <1>3. NeverBack => \A g \in DOMAIN segs' : DOMAIN segs'[g] = SegFields /\ SegmentOk(g)'
    BY <1>1, SegmentStays DEF SessionInv, Shape
  <1> QED
    BY <1>2, <1>3, RefuseActs

LEMMA AcceptKeeps ==
  ASSUME SessionInv, NEW s \in Servers, Accept(s)
  PROVE  SessionInv'
  <1>1. Shape /\ ServerOk(s) /\ srv[s].pc = "accept" /\ UNCHANGED <<world, files, segs, path, ends>>
    BY DEF SessionInv, Accept
  <1>2. PICK c \in Queued(s) :
          IF srv[s].next >= MaxClients
            THEN Refuse(s, c)
            ELSE /\ srv' = [srv EXCEPT ![s].pc = "create", ![s].c = c, ![s].id = srv[s].next, ![s].next = @ + 1]
                 /\ cl' = [cl EXCEPT ![c].pc = IF @ = "queued" THEN "accepted" ELSE "lost"]
    BY DEF Accept
  <1>3. c \in Clients /\ cl[c].srv = s /\ cl[c].pc \in Early /\ ClientOk(c)
    BY DEF Queued, Early, SessionInv
  <1>4. CASE srv[s].next >= MaxClients
    BY <1>1, <1>2, <1>3, <1>4, RefuseKeeps
  <1>5. CASE ~(srv[s].next >= MaxClients)
    <2>1. PICK p \in Unanswered : cl' = [cl EXCEPT ![c].pc = p]
      BY <1>2, <1>5 DEF Unanswered
    <2>2. srv' = [srv EXCEPT ![s].pc = "create", ![s].c = c, ![s].id = srv[s].next, ![s].next = @ + 1]
      BY <1>2, <1>5
    <2>3. /\ DOMAIN cl' = Clients /\ DOMAIN cl'[c] = ClFields
          /\ \A d \in Clients \ {c} : cl'[d] = cl[d]
          /\ cl'[c].pc = p /\ cl'[c].name = cl[c].name /\ cl'[c].own = cl[c].own /\ cl'[c].srv = cl[c].srv
          /\ cl'[c].seg = cl[c].seg /\ cl'[c].reg = cl[c].reg /\ cl'[c].req = cl[c].req /\ cl'[c].resp = cl[c].resp
      BY <1>1, <1>3, <2>1 DEF Shape, ClFields
    <2>4. /\ DOMAIN srv' = Servers /\ DOMAIN srv'[s] = SrvFields
          /\ \A x \in Servers \ {s} : srv'[x] = srv[x]
          /\ srv'[s].pc = "create" /\ srv'[s].c = c /\ srv'[s].id = srv[s].next /\ srv'[s].next = srv[s].next + 1
      BY <1>1, <2>2 DEF Shape, SrvFields
    <2>5. ServerStep(s)
      BY <1>1, <2>4 DEF ServerStep, Shape
    <2>6. srv[s].next \in Ids /\ srv[s].next + 1 \in 0 .. MaxClients
      <3>1. srv[s].next \in 0 .. MaxClients /\ MaxClients \in Nat
        BY <1>1, SessionAssumption DEF ServerOk
      <3> QED
        BY <1>5, <3>1 DEF Ids
    <2>7. ServerOk(s)'
      BY <1>3, <2>1, <2>3, <2>4, <2>6 DEF ServerOk, Unanswered, Early, Seeking, Making, Leaving
    <2>8. ClientOk(c)'
      BY <1>1, <1>3, <2>1, <2>3 DEF ClientOk, Early, Unanswered
    <2> QED
      BY <1>1, <1>3, <2>3, <2>5, <2>7, <2>8, PairActs
  <1> QED
    BY <1>4, <1>5

\* What a server in its search for a segment has in hand.
LEMMA SeekingIs ==
  ASSUME SessionInv, NEW s \in Servers, srv[s].pc \in Seeking
  PROVE  /\ srv[s].c \in Clients /\ srv[s].id \in Ids /\ cl[srv[s].c].srv = s
         /\ cl[srv[s].c].pc \in Unanswered /\ cl[srv[s].c].pc \notin Early
         /\ srv[s].pc \notin {"dead", "off"} /\ Shape /\ ServerOk(s)
  BY DEF SessionInv, ServerOk, Seeking, Making

LEMMA CreateFailsKeeps ==
  ASSUME SessionInv, NEW s \in Servers, srv[s].pc \in Seeking, CreateFails(s), UNCHANGED <<world, path, ends>>
  PROVE  SessionInv'
  BY SeekingIs, RefuseKeeps DEF CreateFails

\* A step of the search: the client stays, and what may be unlinked was judged.
LEMMA SearchGoesOn ==
  ASSUME SessionInv, NEW s \in Servers, srv[s].pc \in Seeking, srv'[s].pc \in Seeking,
         DOMAIN srv' = Servers, DOMAIN srv'[s] = SrvFields, \A x \in Servers \ {s} : srv'[x] = srv[x],
         srv'[s].next = srv[s].next, srv'[s].c = srv[s].c, srv'[s].id = srv[s].id,
         srv'[s].pc = "unlink" => JudgedDead(s)',
         UNCHANGED <<world, segs, path, cl, ends>>, FilesKept, files' \in [Ids -> 0 .. Len(segs)]
  PROVE  SessionInv'
  <1>1. /\ srv[s].c \in Clients /\ srv[s].id \in Ids /\ cl[srv[s].c].srv = s
        /\ cl[srv[s].c].pc \in Unanswered /\ cl[srv[s].c].pc \notin Early
        /\ srv[s].pc \notin {"dead", "off"} /\ Shape /\ ServerOk(s)
    BY SeekingIs
  <1>2. ServerStep(s)
    BY <1>1 DEF ServerStep, Shape, Seeking
  <1>3. ServerOk(s)'
    BY <1>1 DEF ServerOk, Seeking, Making, Leaving
  <1> QED
    BY <1>2, <1>3, ServerActsAlone

LEMMA NewFileKeeps ==
  ASSUME SessionInv, NEW s \in Servers, srv[s].pc \in Seeking, NewFile(s), UNCHANGED <<world, path, ends>>
  PROVE  SessionInv'
  <1>1. /\ srv[s].c \in Clients /\ srv[s].id \in Ids /\ cl[srv[s].c].srv = s
        /\ cl[srv[s].c].pc \in Unanswered /\ cl[srv[s].c].pc \notin Early
        /\ srv[s].pc \notin {"dead", "off"} /\ Shape /\ ServerOk(s)
    BY SeekingIs
  <1>2. PICK c \in Clients : c = srv[s].c /\ ClientOk(c)
    BY <1>1 DEF SessionInv
  <1>3. PICK k \in Nat : k = Len(segs) /\ DOMAIN segs = 1 .. k
    BY <1>1, Indices
  <1>4. PICK r : r = Segment(srv[s].id, s, c)
    OBVIOUS
  <1>5. /\ DOMAIN r = SegFields /\ r.name = srv[s].id /\ r.by = s /\ r.pid = None /\ r.ready = FALSE
        /\ r.req = 0 /\ r.resp = 0
    BY <1>4 DEF Segment, SegFields
  <1>6. /\ IsSeq(segs') /\ Len(segs') = k + 1 /\ DOMAIN segs' = 1 .. k + 1
        /\ segs'[k + 1] = r /\ \A g \in DOMAIN segs : segs'[g] = segs[g]
    <2>1. segs' = Append(segs, r)
      BY <1>2, <1>4 DEF NewFile
    <2>2. IsSeq(segs)
      BY <1>1 DEF Shape
    <2>3. /\ IsSeq(segs') /\ Len(segs') = Len(segs) + 1 /\ DOMAIN segs' = 1 .. Len(segs) + 1
          /\ segs'[Len(segs) + 1] = r /\ \A i \in DOMAIN segs : segs'[i] = segs[i]
      <3>1. OneLonger(segs', segs, r)
        BY <2>1, <2>2, Appended
      <3> QED
        BY <3>1 DEF OneLonger
    <2> QED
      BY <1>3, <2>3
  <1>7. files' = [files EXCEPT ![srv[s].id] = k + 1] /\ cl' = [cl EXCEPT ![c].own = k + 1]
    BY <1>2, <1>3 DEF NewFile
  <1>8. /\ DOMAIN srv' = Servers /\ DOMAIN srv'[s] = SrvFields
        /\ \A x \in Servers \ {s} : srv'[x] = srv[x]
        /\ srv'[s].pc = "pid" /\ srv'[s].next = srv[s].next /\ srv'[s].c = srv[s].c /\ srv'[s].id = srv[s].id
    BY <1>1, GoesIs DEF NewFile
  <1>9. SegsKept
    BY <1>3, <1>6 DEF SegsKept
  <1>10. FilesKept /\ files' \in [Ids -> 0 .. Len(segs')]
    BY <1>1, <1>3, <1>6, <1>7 DEF FilesKept, Shape
  <1>11. /\ DOMAIN cl' = Clients /\ DOMAIN cl'[c] = ClFields
         /\ \A d \in Clients \ {c} : cl'[d] = cl[d]
         /\ cl'[c].own = k + 1 /\ cl'[c].pc = cl[c].pc /\ cl'[c].name = cl[c].name /\ cl'[c].srv = cl[c].srv
         /\ cl'[c].seg = cl[c].seg /\ cl'[c].reg = cl[c].reg /\ cl'[c].req = cl[c].req /\ cl'[c].resp = cl[c].resp
    BY <1>1, <1>7 DEF Shape, ClFields
  <1>12. ServerStep(s)
    BY <1>1, <1>8 DEF ServerStep, Shape
  <1>13. NeverBack
    BY <1>12 DEF NeverBack, ServerStep
  <1>14. \A g \in DOMAIN segs' : DOMAIN segs'[g] = SegFields /\ SegmentOk(g)'
    <2>1. \A g \in DOMAIN segs : DOMAIN segs'[g] = SegFields /\ SegmentOk(g)'
      BY <1>1, <1>6, <1>13, SegmentStays DEF SessionInv, Shape
    <2>2. (segs'[k + 1]).name \in Ids /\ 0 \in 0 .. Cap
      BY <1>1, <1>5, <1>6, SessionAssumption
    <2>3. PICK g : g = k + 1
      OBVIOUS
    <2>4. SegmentOk(g)'
      BY <1>5, <1>6, <1>8, <2>2, <2>3 DEF SegmentOk
    <2>5. \A h \in DOMAIN segs' : h \in DOMAIN segs \/ h = g
      BY <1>3, <1>6, <2>3
    <2> QED
      BY <1>5, <1>6, <2>1, <2>3, <2>4, <2>5
  <1>15. ServerOk(s)'
    <2>1. InHand(s)' = k + 1 /\ k + 1 \in DOMAIN segs'
      BY <1>2, <1>3, <1>6, <1>8, <1>11 DEF InHand
    <2>2. segs'[InHand(s)'].by = s /\ segs'[InHand(s)'].name = srv[s].id
      BY <1>5, <1>6, <2>1
    <2> QED
      BY <1>1, <1>2, <1>8, <1>11, <2>1, <2>2 DEF ServerOk, Seeking, Making, Leaving
  <1>16. ClientOk(c)'
    <2>1. k + 1 \in 0 .. Len(segs') /\ k + 1 # 0 /\ (segs'[k + 1]).by = s
      BY <1>3, <1>5, <1>6
    <2>2. cl'[c].seg \in 0 .. Len(segs')
      <3>1. cl'[c].seg \in 0 .. k
        BY <1>2, <1>3, <1>11 DEF ClientOk
      <3>2. \A x \in 0 .. k : x \in 0 .. k + 1
        OBVIOUS
      <3> QED
        BY <1>6, <3>1, <3>2
    <2>3. cl'[c].pc \in {"accepted", "lost"}
      BY <1>1, <1>2, <1>11 DEF Unanswered
    <2>4. cl'[c].req \in Nat /\ cl'[c].resp \in Nat /\ cl'[c].srv = s /\ cl'[c].own = k + 1
      BY <1>1, <1>2, <1>11 DEF ClientOk
    <2> QED
      BY <2>1, <2>2, <2>3, <2>4 DEF ClientOk, Early
  <1>17. ASSUME NEW d \in Clients
         PROVE  DOMAIN cl'[d] = ClFields /\ (ClientOk(d)' \/ SameClient(d))
    <2>1. CASE d = c
      BY <1>11, <1>16, <2>1
    <2>2. CASE d # c
      <3>1. cl'[d] = cl[d] /\ DOMAIN cl[d] = ClFields /\ ClientOk(d)
        BY <1>1, <1>11, <2>2 DEF SessionInv, Shape
      <3> QED
        BY <3>1 DEF SameClient, ClientOk
    <2> QED
      BY <2>1, <2>2
  <1>18. \A d \in Clients : cl[d].srv # s => cl'[d] = cl[d]
    BY <1>1, <1>2, <1>11
  <1>19. NamesNewest'
    <2> SUFFICES ASSUME NEW n \in Ids, files'[n] # 0
                 PROVE  /\ segs'[files'[n]].name = n
                        /\ \A g \in DOMAIN segs' : segs'[g].name = n => g <= files'[n]
      BY DEF NamesNewest
    <2>1. segs'[k + 1].name = srv[s].id /\ DOMAIN files = Ids
      BY <1>1, <1>5, <1>6 DEF Shape
    <2>2. CASE n = srv[s].id
      <3>1. files'[n] = k + 1
        BY <1>7, <2>1, <2>2
      <3> QED
        BY <1>6, <2>1, <2>2, <3>1
    <2>3. CASE n # srv[s].id
      <3>1. files'[n] = files[n] /\ files[n] \in 1 .. k
        <4>1. files[n] \in 0 .. k
          BY <1>1, <1>3 DEF Shape
        <4>2. files'[n] = files[n]
          BY <1>7, <2>1, <2>3
        <4> QED
          BY <4>1, <4>2
      <3>2. segs[files[n]].name = n /\ \A g \in 1 .. k : segs[g].name = n => g <= files[n]
        BY <1>3, <3>1 DEF SessionInv, NamesNewest
      <3>3. \A g \in 1 .. k + 1 : g \in 1 .. k \/ g = k + 1
        OBVIOUS
      <3> QED
        BY <1>3, <1>6, <2>1, <2>3, <3>1, <3>2, <3>3
    <2> QED
      BY <2>2, <2>3
  <1> QED
    BY <1>9, <1>10, <1>11, <1>12, <1>14, <1>15, <1>17, <1>18, <1>19, ServerActs

LEMMA CreateKeeps ==
  ASSUME SessionInv, NEW s \in Servers, Create(s)
  PROVE  SessionInv'
  <1>1. srv[s].pc \in Seeking /\ Shape /\ UNCHANGED <<world, path, ends>>
    BY DEF Create, Seeking, SessionInv
  <1>2. CASE NewFile(s)
    BY <1>1, <1>2, NewFileKeeps
  <1>3. CASE SrvGoes(s, "judge") /\ UNCHANGED <<files, segs, cl>>
    <2>1. /\ DOMAIN srv' = Servers /\ DOMAIN srv'[s] = SrvFields
          /\ \A x \in Servers \ {s} : srv'[x] = srv[x]
          /\ srv'[s].pc = "judge" /\ srv'[s].next = srv[s].next /\ srv'[s].c = srv[s].c /\ srv'[s].id = srv[s].id
      BY <1>1, <1>3, GoesIs
    <2>2. FilesKept /\ files' \in [Ids -> 0 .. Len(segs)] /\ srv'[s].pc \in Seeking
      BY <1>1, <1>3, <2>1 DEF FilesKept, Shape, Seeking
    <2> QED
      BY <1>1, <1>3, <2>1, <2>2, SearchGoesOn
  <1> QED
    BY <1>2, <1>3 DEF Create

\* Whose creator is judged dead is dead, and stays so.
LEMMA StaleIs ==
  ASSUME SessionInv, NEW g \in DOMAIN segs, Stale(g)
  PROVE  ~Up(segs[g].by)
  <1>1. SegmentOk(g)
    BY DEF SessionInv
  <1>2. CASE segs[g].pid # None
    BY <1>1, <1>2 DEF SegmentOk, Stale
  <1>3. CASE segs[g].pid = None
    BY <1>1, <1>3 DEF SegmentOk, Stale, Up
  <1> QED
    BY <1>2, <1>3

LEMMA JudgeKeeps ==
  ASSUME SessionInv, NEW s \in Servers, Judge(s)
  PROVE  SessionInv'
  <1>1. srv[s].pc \in Seeking /\ Shape /\ srv[s].id \in Ids /\ UNCHANGED <<world, path, ends>>
    BY SeekingIs DEF Judge, Seeking, SessionInv
  <1>2. PICK g : g = files[srv[s].id]
    OBVIOUS
  <1>3. CASE g # 0 /\ Stale(g)
    <2>1. srv' = [srv EXCEPT ![s].pc = "unlink", ![s].look = g] /\ UNCHANGED <<files, segs, cl>>
      BY <1>2, <1>3 DEF Judge
    <2>2. /\ DOMAIN srv' = Servers /\ DOMAIN srv'[s] = SrvFields
          /\ \A x \in Servers \ {s} : srv'[x] = srv[x]
          /\ srv'[s].pc = "unlink" /\ srv'[s].next = srv[s].next /\ srv'[s].c = srv[s].c /\ srv'[s].id = srv[s].id
          /\ srv'[s].look = g
      BY <1>1, <2>1 DEF Shape, SrvFields
    <2>3. g \in DOMAIN segs /\ segs[g].name = srv[s].id
      <3>1. g \in 0 .. Len(segs)
        BY <1>1, <1>2 DEF Shape
      <3> QED
        BY <1>1, <1>2, <1>3, <3>1, Indices DEF SessionInv, NamesNewest
    <2>4. PICK b : b = segs[g].by
      OBVIOUS
    <2>5. ~Up(b)
      BY <1>3, <2>3, <2>4, StaleIs
    <2>6. srv[s].pc # "dead" /\ srv[s].pc # "off"
      BY <1>1 DEF Seeking
    <2>7. ~Up(b)'
      BY <2>2, <2>5, <2>6 DEF Up
    <2>8. JudgedDead(s)'
      BY <2>1, <2>2, <2>3, <2>4, <2>7 DEF JudgedDead
    <2>9. FilesKept /\ files' \in [Ids -> 0 .. Len(segs)] /\ srv'[s].pc \in Seeking
      BY <1>1, <2>1, <2>2 DEF FilesKept, Shape, Seeking
    <2> QED
      BY <1>1, <2>1, <2>2, <2>8, <2>9, SearchGoesOn
  <1>4. CASE ~(g # 0 /\ Stale(g))
    <2>1. CreateFails(s)
      BY <1>2, <1>4 DEF Judge
    <2> QED
      BY <1>1, <2>1, CreateFailsKeeps
  <1> QED
    BY <1>3, <1>4

LEMMA UnlinkKeeps ==
  ASSUME SessionInv, NEW s \in Servers, Unlink(s)
  PROVE  SessionInv'
  <1>1. srv[s].pc \in Seeking /\ Shape /\ srv[s].id \in Ids /\ UNCHANGED <<world, path, ends>>
    BY SeekingIs DEF Unlink, Seeking, SessionInv
  <1>2. CASE files[srv[s].id] # 0
    <2>1. files' = [files EXCEPT ![srv[s].id] = 0] /\ SrvGoes(s, "again") /\ UNCHANGED <<segs, cl>>
      BY <1>2 DEF Unlink
    <2>2. /\ DOMAIN srv' = Servers /\ DOMAIN srv'[s] = SrvFields
          /\ \A x \in Servers \ {s} : srv'[x] = srv[x]
          /\ srv'[s].pc = "again" /\ srv'[s].next = srv[s].next /\ srv'[s].c = srv[s].c /\ srv'[s].id = srv[s].id
      BY <1>1, <2>1, GoesIs
    <2>3. FilesKept /\ files' \in [Ids -> 0 .. Len(segs)] /\ srv'[s].pc \in Seeking
      <3>1. 0 \in 0 .. Len(segs)
        BY <1>1, Indices
      <3> QED
        BY <1>1, <2>1, <2>2, <3>1 DEF FilesKept, Shape, Seeking
    <2> QED
      BY <1>1, <2>1, <2>2, <2>3, SearchGoesOn
  <1>3. CASE files[srv[s].id] = 0
    <2>1. CreateFails(s)
      BY <1>3 DEF Unlink
    <2> QED
      BY <1>1, <2>1, CreateFailsKeeps
  <1> QED
    BY <1>2, <1>3

LEMMA CreateAgainKeeps ==
  ASSUME SessionInv, NEW s \in Servers, CreateAgain(s)
  PROVE  SessionInv'
  <1>1. srv[s].pc \in Seeking /\ UNCHANGED <<world, path, ends>> /\ (NewFile(s) \/ CreateFails(s))
    BY DEF CreateAgain, Seeking
  <1> QED
    BY <1>1, NewFileKeeps, CreateFailsKeeps

\* What a server that has made a segment has in hand.
LEMMA MakingIs ==
  ASSUME SessionInv, NEW s \in Servers, srv[s].pc \in Making \cup {"wait"}
  PROVE  /\ srv[s].c \in Clients /\ srv[s].id \in Ids /\ cl[srv[s].c].srv = s /\ cl[srv[s].c].pc \notin Early
         /\ InHand(s) \in DOMAIN segs /\ segs[InHand(s)].by = s /\ segs[InHand(s)].name = srv[s].id
         /\ SegmentOk(InHand(s)) /\ DOMAIN segs[InHand(s)] = SegFields /\ Shape /\ ServerOk(s)
         /\ srv[s].pc \in Making => cl[srv[s].c].pc \in Unanswered
         /\ srv[s].pc \notin {"dead", "off"}
  BY DEF SessionInv, ServerOk, Seeking, Making, Shape

LEMMA StoresKeep ==
  ASSUME SessionInv, NEW s \in Servers, StorePid(s) \/ StoreReady(s)
  PROVE  SessionInv'
  <1>1. srv[s].pc \in Making \cup {"wait"} /\ srv[s].pc \in Making
    BY DEF StorePid, StoreReady, Making
  <1>2. /\ srv[s].c \in Clients /\ srv[s].id \in Ids /\ cl[srv[s].c].srv = s /\ cl[srv[s].c].pc \notin Early
        /\ InHand(s) \in DOMAIN segs /\ segs[InHand(s)].by = s /\ segs[InHand(s)].name = srv[s].id
        /\ SegmentOk(InHand(s)) /\ DOMAIN segs[InHand(s)] = SegFields /\ Shape /\ ServerOk(s)
        /\ cl[srv[s].c].pc \in Unanswered /\ srv[s].pc \notin {"dead", "off"}
    BY <1>1, MakingIs
  <1>3. PICK g \in DOMAIN segs : g = InHand(s)
    BY <1>2
  <1>4. UNCHANGED <<world, files, path, cl, ends>>
    BY DEF StorePid, StoreReady
  <1>5. PICK r, p :
          /\ segs' = [segs EXCEPT ![g] = r] /\ SrvGoes(s, p) /\ p \in {"ready", "offer"} /\ r.pid = s
          /\ DOMAIN r = SegFields /\ r.name = segs[g].name /\ r.by = segs[g].by
          /\ r.req = segs[g].req /\ r.resp = segs[g].resp
    <2>1. CASE StorePid(s)
      <3>1. PICK r : r = [segs[g] EXCEPT !.pid = s]
        OBVIOUS
      <3>2. segs' = [segs EXCEPT ![g] = r] /\ SrvGoes(s, "ready")
        BY <1>3, <2>1, <3>1 DEF StorePid
      <3>3. /\ DOMAIN r = SegFields /\ r.name = segs[g].name /\ r.by = segs[g].by /\ r.pid = s
            /\ r.req = segs[g].req /\ r.resp = segs[g].resp
        BY <1>2, <1>3, <3>1 DEF SegFields
      <3> QED
        BY <3>2, <3>3
    <2>2. CASE StoreReady(s)
      <3>1. PICK r : r = [segs[g] EXCEPT !.fmt = TRUE, !.ready = TRUE]
        OBVIOUS
      <3>2. segs' = [segs EXCEPT ![g] = r] /\ SrvGoes(s, "offer")
        BY <1>2, <1>3, <2>2, <3>1 DEF StoreReady, Shape
      <3>3. segs[g].pid = s
        BY <1>2, <1>3, <2>2 DEF StoreReady, ServerOk
      <3>4. /\ DOMAIN r = SegFields /\ r.name = segs[g].name /\ r.by = segs[g].by /\ r.pid = s
            /\ r.req = segs[g].req /\ r.resp = segs[g].resp
        BY <1>2, <1>3, <3>1, <3>3 DEF SegFields
      <3> QED
        BY <3>2, <3>4
    <2> QED
      BY <2>1, <2>2
  <1>6. segs[g].pid # None => r.pid = segs[g].pid
    BY <1>2, <1>3, <1>5 DEF SegmentOk
  <1>7. /\ SegsKept /\ Len(segs') = Len(segs) /\ DOMAIN segs' = DOMAIN segs
        /\ \A h \in DOMAIN segs' : DOMAIN segs'[h] = SegFields
        /\ segs'[g] = r /\ \A h \in DOMAIN segs : h # g => segs'[h] = segs[h]
    BY <1>2, <1>5, <1>6, SegmentWritten
  <1>8. /\ DOMAIN srv' = Servers /\ DOMAIN srv'[s] = SrvFields
        /\ \A x \in Servers \ {s} : srv'[x] = srv[x]
        /\ srv'[s].pc = p /\ srv'[s].next = srv[s].next /\ srv'[s].c = srv[s].c /\ srv'[s].id = srv[s].id
    BY <1>2, <1>5, GoesIs
  <1>9. ServerStep(s)
    BY <1>2, <1>4, <1>5, <1>8 DEF ServerStep, Shape
  <1>10. NeverBack /\ FilesKept /\ files' \in [Ids -> 0 .. Len(segs')]
    BY <1>2, <1>4, <1>7, <1>9 DEF NeverBack, ServerStep, FilesKept, Shape
  <1>11. SegmentOk(g)'
    BY <1>2, <1>3, <1>5, <1>7, <1>8, SessionAssumption DEF SegmentOk
  <1>12. \A h \in DOMAIN segs' : SegmentOk(h)'
    BY <1>2, <1>7, <1>10, <1>11, SegmentStays DEF SessionInv
  <1>13. InHand(s)' = g
    BY <1>3, <1>4, <1>8 DEF InHand
  <1>14. ServerOk(s)'
    BY <1>2, <1>3, <1>4, <1>5, <1>7, <1>8, <1>13 DEF ServerOk, Making, Seeking, Leaving
  <1>15. DOMAIN cl' = Clients /\ \A c \in Clients : DOMAIN cl'[c] = ClFields /\ cl'[c] = cl[c] /\ SameClient(c)
    BY <1>4 DEF SessionInv, Shape, SameClient, ClientOk
  <1> QED
    BY <1>7, <1>9, <1>10, <1>12, <1>14, <1>15, ServerActs

LEMMA SizeFailsKeeps ==
  ASSUME SessionInv, NEW s \in Servers, SizeFails(s)
  PROVE  SessionInv'
  <1>1. srv[s].pc \in Making \cup {"wait"} /\ UNCHANGED <<world, segs, path, ends>> /\ Refuse(s, srv[s].c)
    BY DEF SizeFails, Making
  <1>2. /\ srv[s].c \in Clients /\ srv[s].id \in Ids /\ cl[srv[s].c].srv = s /\ Shape
        /\ srv[s].pc # "dead"
    BY <1>1, MakingIs
  <1>3. files' = [files EXCEPT ![srv[s].id] = 0] /\ 0 \in 0 .. Len(segs)
    BY <1>2, Indices DEF SizeFails
  <1>4. SegsKept /\ Len(segs') = Len(segs) /\ FilesKept /\ files' \in [Ids -> 0 .. Len(segs')]
    BY <1>1, <1>2, <1>3, SegsSame DEF FilesKept, Shape
  <1>5. NeverBack => \A g \in DOMAIN segs' : DOMAIN segs'[g] = SegFields /\ SegmentOk(g)'
    BY <1>1, <1>2, SegmentStays DEF SessionInv, Shape
  <1> QED
    BY <1>1, <1>2, <1>4, <1>5, RefuseActs

\* destroy() of a channel: other segments and the clients stay.
LEMMA DestroyIs ==
  ASSUME SessionInv, NEW g \in DOMAIN segs, DestroyChannel(g)
  PROVE  /\ SegsKept /\ Len(segs') = Len(segs) /\ FilesKept /\ files' \in [Ids -> 0 .. Len(segs')]
         /\ NeverBack => \A h \in DOMAIN segs' : DOMAIN segs'[h] = SegFields /\ SegmentOk(h)'
  <1>1. Shape /\ SegmentOk(g) /\ DOMAIN segs[g] = SegFields
    BY DEF SessionInv, Shape
  <1>2. PICK r : r = [segs[g] EXCEPT !.ready = FALSE]
    OBVIOUS
  <1>3. /\ DOMAIN r = SegFields /\ r.name = segs[g].name /\ r.by = segs[g].by /\ r.pid = segs[g].pid
        /\ r.req = segs[g].req /\ r.resp = segs[g].resp /\ r.ready = FALSE
    BY <1>1, <1>2 DEF SegFields
  <1>4. segs' = [segs EXCEPT ![g] = r]
    BY <1>2 DEF DestroyChannel
  <1>5. /\ SegsKept /\ Len(segs') = Len(segs) /\ DOMAIN segs' = DOMAIN segs
        /\ \A h \in DOMAIN segs' : DOMAIN segs'[h] = SegFields
        /\ segs'[g] = r /\ \A h \in DOMAIN segs : h # g => segs'[h] = segs[h]
    BY <1>1, <1>3, <1>4, SegmentWritten
  <1>6. FilesKept /\ files' \in [Ids -> 0 .. Len(segs')]
    <2>1. files' = [files EXCEPT ![segs[g].name] = 0] /\ 0 \in 0 .. Len(segs)
      BY <1>1, Indices DEF DestroyChannel
    <2> QED
      BY <1>1, <1>5, <2>1 DEF FilesKept, Shape
  <1>7. ASSUME NeverBack, NEW h \in DOMAIN segs' PROVE SegmentOk(h)'
    <2>1. CASE h = g
      BY <1>1, <1>3, <1>5, <1>7, <2>1 DEF SegmentOk, NeverBack
    <2>2. CASE h # g
      BY <1>1, <1>5, <1>7, <2>2, SegmentStays DEF SessionInv
    <2> QED
      BY <2>1, <2>2
  <1> QED
    BY <1>5, <1>6, <1>7

LEMMA OfferKeeps ==
  ASSUME SessionInv, NEW s \in Servers, Offer(s)
  PROVE  SessionInv'
  <1>1. srv[s].pc \in Making \cup {"wait"} /\ srv[s].pc \in Making /\ UNCHANGED <<world, path, ends>>
    BY DEF Offer, Making
  <1>2. /\ srv[s].c \in Clients /\ srv[s].id \in Ids /\ cl[srv[s].c].srv = s /\ cl[srv[s].c].pc \notin Early
        /\ InHand(s) \in DOMAIN segs /\ segs[InHand(s)].by = s /\ segs[InHand(s)].name = srv[s].id
        /\ Shape /\ ServerOk(s) /\ srv[s].pc \notin {"dead", "off"}
    BY <1>1, MakingIs
  <1>3. PICK c \in Clients : c = srv[s].c /\ ClientOk(c)
    BY <1>2 DEF SessionInv
  <1>4. /\ cl' = [cl EXCEPT ![c].pc = "offered", ![c].name = OfferedName(s)]
        /\ SrvGoes(s, "wait") /\ UNCHANGED <<files, segs>>
    BY <1>3 DEF Offer
  <1>5. /\ DOMAIN srv' = Servers /\ DOMAIN srv'[s] = SrvFields
        /\ \A x \in Servers \ {s} : srv'[x] = srv[x]
        /\ srv'[s].pc = "wait" /\ srv'[s].next = srv[s].next /\ srv'[s].c = srv[s].c /\ srv'[s].id = srv[s].id
    BY <1>2, <1>4, GoesIs
  <1>6. ServerStep(s)
    BY <1>1, <1>2, <1>5 DEF ServerStep, Shape
  <1>7. /\ DOMAIN cl' = Clients /\ DOMAIN cl'[c] = ClFields
        /\ \A d \in Clients \ {c} : cl'[d] = cl[d]
        /\ cl'[c].pc = "offered" /\ cl'[c].name = srv[s].id /\ cl'[c].own = cl[c].own /\ cl'[c].srv = cl[c].srv
        /\ cl'[c].seg = cl[c].seg /\ cl'[c].reg = cl[c].reg /\ cl'[c].req = cl[c].req /\ cl'[c].resp = cl[c].resp
    BY <1>2, <1>4 DEF Shape, ClFields, OfferedName
  <1>8. InHand(s) = cl[c].own /\ InHand(s)' = cl[c].own
    BY <1>3, <1>5, <1>7 DEF InHand
  <1>9. ServerOk(s)'
    <2>1. srv'[s].next \in 0 .. MaxClients
      BY <1>2, <1>5 DEF ServerOk
    <2>2. /\ srv'[s].c \in Clients /\ srv'[s].id \in Ids
          /\ cl'[srv'[s].c].srv = s /\ cl'[srv'[s].c].pc \notin Early
      BY <1>2, <1>3, <1>5, <1>7 DEF Early
    <2>3. InHand(s)' \in DOMAIN segs' /\ segs'[InHand(s)'].by = s /\ segs'[InHand(s)'].name = srv'[s].id
      BY <1>2, <1>4, <1>5, <1>8
    <2> QED
      BY <1>5, <2>1, <2>2, <2>3 DEF ServerOk, Making, Seeking, Leaving
  <1>10. ClientOk(c)'
    <2>1. cl[c].own # 0 /\ segs[cl[c].own].name = srv[s].id
      BY <1>2, <1>8, Indices
    <2> QED
      BY <1>3, <1>4, <1>7, <2>1 DEF ClientOk, Early
  <1> QED
    BY <1>1, <1>2, <1>3, <1>4, <1>6, <1>7, <1>9, <1>10, PairActs

LEMMA HandshakeFailsKeeps ==
  ASSUME SessionInv, NEW s \in Servers, HandshakeFails(s)
  PROVE  SessionInv'
  <1>1. /\ srv[s].pc \in Making \cup {"wait"} /\ srv[s].pc \in Making /\ UNCHANGED <<world, path, cl, ends>>
        /\ DestroyChannel(InHand(s)) /\ SrvGoes(s, "drop")
    BY DEF HandshakeFails, Making
  <1>2. /\ srv[s].c \in Clients /\ srv[s].id \in Ids /\ cl[srv[s].c].srv = s /\ cl[srv[s].c].pc \notin Early
        /\ InHand(s) \in DOMAIN segs /\ segs[InHand(s)].by = s /\ segs[InHand(s)].name = srv[s].id
        /\ Shape /\ ServerOk(s) /\ cl[srv[s].c].pc \in Unanswered /\ srv[s].pc \notin {"dead", "off"}
    BY <1>1, MakingIs
  <1>3. /\ DOMAIN srv' = Servers /\ DOMAIN srv'[s] = SrvFields
        /\ \A x \in Servers \ {s} : srv'[x] = srv[x]
        /\ srv'[s].pc = "drop" /\ srv'[s].next = srv[s].next /\ srv'[s].c = srv[s].c /\ srv'[s].id = srv[s].id
    BY <1>1, <1>2, GoesIs
  <1>4. ServerStep(s)
    BY <1>1, <1>2, <1>3 DEF ServerStep, Shape
  <1>5. NeverBack
    BY <1>4 DEF NeverBack, ServerStep
  <1>6. /\ SegsKept /\ Len(segs') = Len(segs) /\ FilesKept /\ files' \in [Ids -> 0 .. Len(segs')]
        /\ \A h \in DOMAIN segs' : DOMAIN segs'[h] = SegFields /\ SegmentOk(h)'
    BY <1>1, <1>2, <1>5, DestroyIs
  <1>7. ServerOk(s)'
    <2>1. InHand(s)' = InHand(s)
      BY <1>1, <1>3 DEF InHand
    <2>2. InHand(s)' \in DOMAIN segs' /\ segs'[InHand(s)'].by = s /\ segs'[InHand(s)'].name = srv[s].id
      BY <1>2, <1>6, <2>1, KeptIndices DEF SegsKept
    <2> QED
      BY <1>1, <1>2, <1>3, <2>2 DEF ServerOk, Making, Seeking, Leaving
  <1>8. DOMAIN cl' = Clients /\ \A d \in Clients : DOMAIN cl'[d] = ClFields /\ cl'[d] = cl[d] /\ SameClient(d)
    BY <1>1 DEF SessionInv, Shape, SameClient, ClientOk
  <1> QED
    BY <1>4, <1>6, <1>7, <1>8, ServerActs

LEMMA DropKeeps ==
  ASSUME SessionInv, NEW s \in Servers, DropEntry(s)
  PROVE  SessionInv'
  <1>1. /\ srv[s].pc \in Making \cup {"wait"} /\ UNCHANGED <<world, path, ends>>
        /\ DestroyChannel(InHand(s)) /\ Refuse(s, srv[s].c)
    BY DEF DropEntry, Making
  <1>2. srv[s].c \in Clients /\ cl[srv[s].c].srv = s /\ InHand(s) \in DOMAIN segs /\ srv[s].pc # "dead"
    BY <1>1, MakingIs
  <1>3. /\ SegsKept /\ Len(segs') = Len(segs) /\ FilesKept /\ files' \in [Ids -> 0 .. Len(segs')]
        /\ NeverBack => \A h \in DOMAIN segs' : DOMAIN segs'[h] = SegFields /\ SegmentOk(h)'
    BY <1>1, <1>2, DestroyIs
  <1> QED
    BY <1>1, <1>2, <1>3, RefuseActs

LEMMA EnterKeeps ==
  ASSUME SessionInv, NEW s \in Servers, srv[s].pc = "wait", NEW fd, Enter(s, fd),
         UNCHANGED <<world, files, segs, path, ends>>
  PROVE  SessionInv'
  <1>1. srv[s].pc \in Making \cup {"wait"}
    OBVIOUS
  <1>2. /\ srv[s].c \in Clients /\ cl[srv[s].c].srv = s /\ cl[srv[s].c].pc \notin Early
        /\ InHand(s) \in DOMAIN segs /\ segs[InHand(s)].by = s /\ Shape /\ ServerOk(s)
    BY <1>1, MakingIs
  <1>3. PICK c \in Clients : c = srv[s].c /\ ClientOk(c)
    BY <1>2 DEF SessionInv
  <1>4. cl' = [cl EXCEPT ![c].reg = "map", ![c].rfd = fd]
    BY <1>3 DEF Enter
  <1>5. /\ DOMAIN srv' = Servers /\ DOMAIN srv'[s] = SrvFields
        /\ \A x \in Servers \ {s} : srv'[x] = srv[x]
        /\ srv'[s].pc = "accept" /\ srv'[s].next = srv[s].next
    BY <1>2, BackIs DEF Enter
  <1>6. ServerStep(s)
    BY <1>2, <1>5 DEF ServerStep, Shape
  <1>7. ServerOk(s)'
    <2>1. srv'[s].pc \notin Busy \cup Leaving
      BY <1>5 DEF Busy, Seeking, Making, Leaving
    <2> QED
      BY <1>2, <1>5, <2>1, Unoccupied DEF ServerOk
  <1>8. /\ DOMAIN cl' = Clients /\ DOMAIN cl'[c] = ClFields
        /\ \A d \in Clients \ {c} : cl'[d] = cl[d]
        /\ cl'[c].pc = cl[c].pc /\ cl'[c].name = cl[c].name /\ cl'[c].own = cl[c].own /\ cl'[c].srv = cl[c].srv
        /\ cl'[c].seg = cl[c].seg /\ cl'[c].reg = "map" /\ cl'[c].req = cl[c].req /\ cl'[c].resp = cl[c].resp
    BY <1>2, <1>4 DEF Shape, ClFields
  <1>9. ClientOk(c)'
    <2>1. cl[c].own # 0 /\ segs[cl[c].own].by = s /\ cl[c].pc \notin Early
      BY <1>2, <1>3, Indices DEF InHand
    <2> QED
      BY <1>2, <1>3, <1>8, <2>1 DEF ClientOk
  <1> QED
    BY <1>2, <1>3, <1>6, <1>7, <1>8, <1>9, PairActs

LEMMA DiesKeeps ==
  ASSUME SessionInv, NEW s \in Servers, srv[s].pc \notin {"off", "dead"}, ProcessDies(s),
         UNCHANGED <<world, files, segs, path>>, ends' \in 0 .. MaxEnds
  PROVE  SessionInv'
  <1>1. Shape
    BY DEF SessionInv
  <1>2. /\ DOMAIN srv' = Servers /\ DOMAIN srv'[s] = SrvFields
        /\ \A x \in Servers \ {s} : srv'[x] = srv[x]
        /\ srv'[s].pc = "dead" /\ srv'[s].next = 0
    BY <1>1 DEF ProcessDies, Shape, SrvFields, IdleServer
  <1>3. ServerStep(s)
    BY <1>1, <1>2 DEF ServerStep, Shape
  <1>4. NeverBack
    BY <1>3 DEF NeverBack, ServerStep
  <1>5. SegsKept /\ \A g \in DOMAIN segs' : DOMAIN segs'[g] = SegFields
    BY <1>1, SegsSame
  <1>6. \A g \in DOMAIN segs' : SegmentOk(g)'
    BY <1>1, <1>4, SegmentStays DEF SessionInv
  <1>7. FilesKept /\ files' \in [Ids -> 0 .. Len(segs')]
    BY <1>1 DEF FilesKept, Shape
  <1>8. ServerOk(s)'
    <2>1. srv'[s].pc \notin Busy \cup Leaving /\ 0 \in 0 .. MaxClients
      BY <1>2, SessionAssumption DEF Busy, Seeking, Making, Leaving
    <2> QED
      BY <1>2, <2>1, Unoccupied
  <1>9. ASSUME NEW c \in Clients
        PROVE  DOMAIN cl'[c] = ClFields /\ (cl[c].srv # s => cl'[c] = cl[c]) /\ (ClientOk(c)' \/ SameClient(c))
    <2>1. ClientOk(c) /\ DOMAIN cl[c] = ClFields
      BY <1>1 DEF SessionInv, Shape
    <2>2. CASE cl[c].srv # s
      <3>1. cl'[c] = cl[c]
        BY <2>2 DEF ProcessDies
      <3> QED
        BY <2>1, <3>1 DEF SameClient, ClientOk
    <2>3. CASE cl[c].srv = s
      <3>1. PICK p : p = CASE cl[c].pc = "queued" -> "failed"
                           [] cl[c].pc = "queued dead" -> "lost"
                           [] cl[c].pc = "accepted" -> "crashed"
                           [] OTHER -> cl[c].pc
        OBVIOUS
      <3>2. cl'[c] = [cl[c] EXCEPT !.pc = p]
        BY <2>3, <3>1 DEF ProcessDies
      <3>3. p \in {"failed", "lost", "crashed"} \/ p = cl[c].pc
        BY <3>1
      <3>4. /\ DOMAIN cl'[c] = ClFields
            /\ cl'[c].pc = p /\ cl'[c].name = cl[c].name /\ cl'[c].own = cl[c].own /\ cl'[c].srv = cl[c].srv
            /\ cl'[c].seg = cl[c].seg /\ cl'[c].reg = cl[c].reg /\ cl'[c].req = cl[c].req /\ cl'[c].resp = cl[c].resp
        BY <2>1, <3>2 DEF ClFields
      <3>5. CASE p = cl[c].pc
        BY <2>1, <2>3, <3>4, <3>5 DEF SameClient, ClientOk
      <3>6. CASE p \in {"failed", "lost", "crashed"}
        <4>1. ClientOk(c)'
          BY <2>1, <3>4, <3>6 DEF ClientOk, Early
        <4> QED
          BY <2>3, <3>4, <4>1
      <3> QED
        BY <3>3, <3>5, <3>6
    <2> QED
      BY <2>2, <2>3
  <1>10. DOMAIN cl' = Clients
    BY DEF ProcessDies
  <1> QED
    BY <1>3, <1>5, <1>6, <1>7, <1>8, <1>9, <1>10, ServerActs

LEMMA RegistersKeep ==
  ASSUME SessionInv, NEW s \in Servers, Register(s) \/ RegisterLost(s)
  PROVE  SessionInv'
  <1>1. srv[s].pc = "wait" /\ UNCHANGED <<world, files, segs, path, ends>> /\ Shape
    BY DEF Register, RegisterLost, SessionInv
  <1>2. CASE \E fd \in BOOLEAN : Enter(s, fd)
    BY <1>1, <1>2, EnterKeeps
  <1>3. CASE ProcessDies(s)
    <2>1. srv[s].pc \notin {"off", "dead"} /\ ends' \in 0 .. MaxEnds
      BY <1>1 DEF Shape
    <2> QED
      BY <1>1, <1>3, <2>1, DiesKeeps
  <1> QED
    BY <1>2, <1>3 DEF Register, RegisterLost

LEMMA CrashKeeps ==
  ASSUME SessionInv, NEW s \in Servers, Crash(s)
  PROVE  SessionInv'
  <1>1. /\ srv[s].pc \notin {"off", "dead"} /\ ProcessDies(s) /\ UNCHANGED <<world, files, segs, path>>
        /\ Ending /\ Shape
    BY DEF Crash, Up, SessionInv
  <1>2. ends' \in 0 .. MaxEnds
    BY <1>1, Ends
  <1> QED
    BY <1>1, <1>2, DiesKeeps

---------------------------------------------------------------------------
(* The workers, stop, destruction.                                         *)

LEMMA AnsweredIs ==
  ASSUME NEW g \in DOMAIN segs, SegmentOk(g)
  PROVE  Answered(g) \in Nat /\ segs[g].resp + Answered(g) \in 0 .. Cap
  <1>1. PICK a \in Nat, b \in Nat, k \in Nat :
          /\ a = segs[g].req /\ b = segs[g].resp /\ k = Cap /\ b <= k
    BY SessionAssumption DEF SegmentOk
  <1>2. PICK d \in Nat : d = k - b
    BY <1>1
  <1>3. \E x \in {a, d} : \A y \in {a, d} : x <= y
    <2>1. CASE a <= d
      BY <2>1
    <2>2. CASE d <= a
      BY <2>2
    <2> QED
      BY <2>1, <2>2
  <1>4. Min({a, d}) \in {a, d} /\ \A y \in {a, d} : Min({a, d}) <= y
    BY <1>3 DEF Min
  <1>5. PICK m : m = Min({a, d})
    OBVIOUS
  <1>6. Answered(g) = m
    BY <1>1, <1>2, <1>5 DEF Answered
  <1>7. m \in Nat /\ m <= d
    BY <1>4, <1>5
  <1>8. b + m \in 0 .. k
    BY <1>1, <1>2, <1>7
  <1> QED
    BY <1>1, <1>6, <1>7, <1>8

LEMMA DrainKeeps ==
  ASSUME SessionInv, NEW s \in Servers, NEW ds \in SUBSET Entries(s), NEW woken \in {0, 1},
         \A c \in ds : cl[c].req >= woken, Drain(ds, woken), UNCHANGED <<world, files, path, srv, ends>>
  PROVE  SessionInv'
  <1>1. Shape /\ NeverBack /\ FilesKept
    BY DEF SessionInv, NeverBack, FilesKept
  <1>2. segs' = [g \in DOMAIN segs |->
                   IF \E c \in ds : cl[c].own = g
                     THEN [segs[g] EXCEPT !.req = 0, !.resp = @ + Answered(g)] ELSE segs[g]]
    BY DEF Drain
  <1>3. PICK k \in Notifications :
          cl' = [c \in Clients |->
                   IF c \notin ds THEN cl[c]
                   ELSE [cl[c] EXCEPT !.req = @ - woken,
                                      !.resp = @ + (IF cl[c].rfd THEN k * Answered(cl[c].own) ELSE 0)]]
    BY DEF Drain
  <1>4. segs' = [g \in DOMAIN segs |-> segs'[g]]
    BY <1>2
  <1>5. IsSeq(segs') /\ Len(segs') = Len(segs) /\ DOMAIN segs' = DOMAIN segs
    BY <1>1, <1>4, Relabelled DEF Shape
  <1>6. ASSUME NEW g \in DOMAIN segs
        PROVE  /\ DOMAIN segs'[g] = SegFields /\ segs'[g].name = segs[g].name /\ segs'[g].by = segs[g].by
               /\ segs'[g].pid = segs[g].pid /\ segs'[g].ready = segs[g].ready
               /\ segs'[g].req \in 0 .. Cap /\ segs'[g].resp \in 0 .. Cap
    <2>1. SegmentOk(g) /\ DOMAIN segs[g] = SegFields
      BY <1>1 DEF SessionInv, Shape
    <2>2. segs'[g] = segs[g] \/ segs'[g] = [segs[g] EXCEPT !.req = 0, !.resp = @ + Answered(g)]
      BY <1>2
    <2>3. segs[g].resp + Answered(g) \in 0 .. Cap /\ 0 \in 0 .. Cap
      BY <2>1, AnsweredIs, SessionAssumption
    <2>4. CASE segs'[g] = segs[g]
      BY <2>1, <2>4 DEF SegmentOk
    <2>5. CASE segs'[g] = [segs[g] EXCEPT !.req = 0, !.resp = @ + Answered(g)]
      <3>1. PICK y : y = segs[g].resp + Answered(g)
        OBVIOUS
      <3>2. segs'[g] = [segs[g] EXCEPT !.req = 0, !.resp = y]
        BY <2>5, <3>1
      <3> QED
        BY <2>1, <2>3, <3>1, <3>2 DEF SegFields
    <2> QED
      BY <2>2, <2>4, <2>5
  <1>7. SegsKept
    <2>1. Len(segs') >= Len(segs)
      BY <1>1, <1>5, Indices
    <2> QED
      BY <1>5, <1>6, <2>1 DEF SegsKept
  <1>8. ASSUME NEW g \in DOMAIN segs' PROVE SegmentOk(g)'
    <2>1. g \in DOMAIN segs /\ SegmentOk(g)
      BY <1>5 DEF SessionInv
    <2> QED
      BY <1>6, <2>1 DEF SegmentOk
  <1>9. ASSUME NEW c \in Clients
        PROVE  DOMAIN cl'[c] = ClFields /\ SameClient(c)
    <2>1. ClientOk(c) /\ DOMAIN cl[c] = ClFields
      BY <1>1 DEF SessionInv, Shape
    <2>2. CASE c \notin ds
      <3>1. cl'[c] = cl[c]
        BY <1>3, <2>2
      <3> QED
        BY <2>1, <3>1 DEF SameClient, ClientOk
    <2>3. CASE c \in ds
      <3>1. PICK g \in DOMAIN segs : g = cl[c].own
        <4>1. cl[c].reg # "none"
          BY <2>3 DEF Entries
        <4> QED
          BY <1>1, <2>1, <4>1, Indices DEF ClientOk
      <3>2. Answered(g) \in Nat
        BY AnsweredIs DEF SessionInv
      <3>3. k \in Nat
        BY DEF Notifications
      <3>4. PICK a \in Nat : a = IF cl[c].rfd THEN k * Answered(g) ELSE 0
        BY <3>2, <3>3
      <3>5. PICK x \in Nat, y \in Nat : x = cl[c].req - woken /\ y = cl[c].resp + a
        <4>1. PICK u \in Nat, v \in Nat : u = cl[c].req /\ v = cl[c].resp
          BY <2>1 DEF ClientOk
        <4>2. u >= woken
          BY <2>3, <4>1
        <4>3. u - woken \in Nat /\ v + a \in Nat
          BY <4>2
        <4> QED
          BY <4>1, <4>3
      <3>6. cl'[c] = [cl[c] EXCEPT !.req = x, !.resp = y]
        BY <1>3, <2>3, <3>1, <3>4, <3>5
      <3> QED
        BY <2>1, <3>6 DEF ClFields, SameClient
    <2> QED
      BY <2>2, <2>3
  <1>10. Shape'
    <2>1. DOMAIN cl' = Clients
      BY <1>3
    <2> QED
      BY <1>1, <1>5, <1>6, <1>9, <2>1 DEF Shape
  <1>11. \A c \in Clients : Held(c)
    BY <1>9 DEF Held, SameClient
  <1>12. \A x \in Servers : srv'[x] = srv[x] /\ Relied(x)
    BY <1>11, AllHeld
  <1> QED
    BY <1>1, <1>5, <1>7, <1>8, <1>9, <1>10, <1>12, Moved

LEMMA WorkersKeep ==
  ASSUME SessionInv, NEW s \in Servers, WorkerThread(s)
  PROVE  SessionInv'
  <1>1. CASE WakePipe(s)
    <2>1. PICK c \in Entries(s) : cl[c].reg = "map" /\ cl' = [cl EXCEPT ![c].reg = "epoll"]
      BY <1>1 DEF WakePipe
    <2>2. c \in Clients /\ Shape /\ ClientOk(c)
      BY DEF Entries, SessionInv
    <2>3. /\ UNCHANGED <<world, files, segs, path, srv, ends>> /\ DOMAIN cl' = Clients /\ DOMAIN cl'[c] = ClFields
          /\ \A d \in Clients \ {c} : cl'[d] = cl[d]
          /\ cl'[c].pc = cl[c].pc /\ cl'[c].name = cl[c].name /\ cl'[c].own = cl[c].own /\ cl'[c].srv = cl[c].srv
          /\ cl'[c].seg = cl[c].seg /\ cl'[c].reg = "epoll" /\ cl'[c].req = cl[c].req /\ cl'[c].resp = cl[c].resp
      BY <1>1, <2>1, <2>2 DEF WakePipe, Shape, ClFields
    <2>4. ClientStep(c) /\ Held(c)
      BY <2>2, <2>3 DEF ClientStep, Shape, Held
    <2>5. ClientOk(c)'
      BY <2>1, <2>2, <2>3 DEF ClientOk, Early
    <2> QED
      BY <2>2, <2>3, <2>4, <2>5, ClientActsAlone
  <1>2. CASE Wake(s)
    <2>1. PICK c \in Entries(s) : cl[c].req > 0 /\ Drain({c}, 1)
      BY <1>2 DEF Wake
    <2>2. cl[c].req >= 1
      <3>1. cl[c].req \in Nat
        BY DEF Entries, SessionInv, ClientOk
      <3> QED
        BY <2>1, <3>1
    <2> QED
      BY <1>2, <2>1, <2>2, DrainKeeps DEF Wake
  <1>3. CASE WorkerTimeout(s)
    <2>1. Drain(Entries(s), 0) /\ UNCHANGED <<world, files, path, srv, ends>>
      BY <1>3 DEF WorkerTimeout, Snapshot
    <2>2. \A c \in Entries(s) : cl[c].req >= 0
      BY DEF Entries, SessionInv, ClientOk
    <2> QED
      BY <2>1, <2>2, DrainKeeps
  <1> QED
    BY <1>1, <1>2, <1>3 DEF WorkerThread

LEMMA StopKeeps ==
  ASSUME SessionInv, NEW s \in Servers, Stop(s)
  PROVE  SessionInv'
  <1>1. Shape /\ ServerOk(s) /\ UNCHANGED <<world, files, segs, path>>
    BY DEF SessionInv, Stop
  <1>2. ends' \in 0 .. MaxEnds
    BY <1>1, Ends DEF Stop
  <1>3. /\ DOMAIN srv' = Servers /\ (\A x \in Servers : DOMAIN srv'[x] = SrvFields)
        /\ \A x \in Servers : /\ srv'[x].pc = srv[x].pc /\ srv'[x].next = srv[x].next /\ srv'[x].c = srv[x].c
                              /\ srv'[x].id = srv[x].id /\ srv'[x].look = srv[x].look
                              /\ srv'[x].left = srv[x].left
    BY <1>1 DEF Stop, Shape, SrvFields
  <1>4. NeverBack /\ FilesKept
    BY <1>1, <1>3 DEF NeverBack, FilesKept
  <1>5. SegsKept /\ \A g \in DOMAIN segs' : DOMAIN segs'[g] = SegFields
    BY <1>1, SegsSame
  <1>6. \A g \in DOMAIN segs' : SegmentOk(g)'
    BY <1>1, <1>4, SegmentStays DEF SessionInv
  <1>7. ASSUME NEW c \in Clients
        PROVE  DOMAIN cl'[c] = ClFields /\ Held(c) /\ (ClientOk(c)' \/ SameClient(c))
    <2>1. ClientOk(c) /\ DOMAIN cl[c] = ClFields
      BY <1>1 DEF SessionInv, Shape
    <2>2. CASE c \notin Queued(s)
      <3>1. cl'[c] = cl[c]
        BY <2>2 DEF Stop
      <3> QED
        BY <2>1, <3>1 DEF SameClient, ClientOk, Held
    <2>3. CASE c \in Queued(s)
      <3>1. cl[c].pc \in Early /\ cl[c].pc \notin Unanswered
        BY <2>3 DEF Queued, Early, Unanswered
      <3>2. PICK p \in {"failed", "lost"} : cl'[c] = [cl[c] EXCEPT !.pc = p]
        BY <2>3 DEF Stop
      <3>3. /\ DOMAIN cl'[c] = ClFields
            /\ cl'[c].pc = p /\ cl'[c].name = cl[c].name /\ cl'[c].own = cl[c].own /\ cl'[c].srv = cl[c].srv
            /\ cl'[c].seg = cl[c].seg /\ cl'[c].reg = cl[c].reg /\ cl'[c].req = cl[c].req /\ cl'[c].resp = cl[c].resp
        BY <2>1, <3>2 DEF ClFields
      <3>4. ClientOk(c)'
        BY <1>1, <2>1, <3>2, <3>3 DEF ClientOk, Early
      <3> QED
        BY <3>1, <3>3, <3>4 DEF Held
    <2> QED
      BY <2>2, <2>3
  <1>8. Shape'
    <2>1. DOMAIN cl' = Clients
      BY DEF Stop
    <2> QED
      BY <1>1, <1>2, <1>3, <1>7, <2>1 DEF Shape
  <1>9. ASSUME NEW x \in Servers PROVE ServerOk(x)'
    <2>1. ServerOk(x) /\ (srv[x].pc \in Busy => srv[x].c \in Clients /\ Held(srv[x].c))
      BY <1>7 DEF SessionInv, ServerOk, Busy
    <2>2. srv[x].pc \in Busy => InHand(x)' = InHand(x)
      BY <1>3, <2>1 DEF InHand, Held
    <2>3. srv[x].pc \in Busy => cl'[srv[x].c].srv = cl[srv[x].c].srv
      BY <2>1 DEF Held
    <2>4. /\ srv[x].pc \in Busy /\ cl[srv[x].c].pc \notin Early => cl'[srv[x].c].pc \notin Early
          /\ srv[x].pc \in Busy /\ cl[srv[x].c].pc \in Unanswered => cl'[srv[x].c].pc \in Unanswered
      BY <2>1 DEF Held
    <2>5. \A b : Up(b)' <=> Up(b)
      BY <1>3 DEF Up
    <2>6. srv[x].pc = "unlink" => JudgedDead(x)'
      <3> SUFFICES ASSUME srv[x].pc = "unlink" PROVE JudgedDead(x)'
        OBVIOUS
      <3>1. PICK b : b = segs[srv[x].look].by
        OBVIOUS
      <3>2. srv[x].look \in DOMAIN segs /\ ~Up(b) /\ segs[srv[x].look].name = srv[x].id
        BY <2>1, <3>1 DEF ServerOk, JudgedDead
      <3>3. ~Up(b)'
        BY <2>5, <3>2
      <3> QED
        BY <1>1, <1>3, <3>1, <3>2, <3>3 DEF JudgedDead
    <2>7. srv[x].pc \in Seeking \cup Making \cup {"wait"} =>
            /\ srv'[x].c \in Clients /\ srv'[x].id \in Ids
            /\ cl'[srv'[x].c].srv = x /\ cl'[srv'[x].c].pc \notin Early
      BY <1>3, <2>1, <2>3, <2>4 DEF ServerOk, Busy
    <2>8. srv[x].pc \in Seeking \cup Making => cl'[srv'[x].c].pc \in Unanswered
      BY <1>3, <2>1, <2>4 DEF ServerOk, Busy
    <2>9. /\ srv[x].pc \in Making \cup {"wait"} =>
               InHand(x)' \in DOMAIN segs' /\ segs'[InHand(x)'].by = x /\ segs'[InHand(x)'].name = srv'[x].id
          /\ srv[x].pc = "ready" => segs'[InHand(x)'].pid = x
      BY <1>1, <1>3, <2>1, <2>2 DEF ServerOk, Busy, Making
    <2>10. srv'[x].next \in 0 .. MaxClients
      BY <1>3, <2>1 DEF ServerOk
    <2>11. srv[x].pc \in Leaving =>
             \A c \in srv'[x].left : c \in Clients /\ cl'[c].srv = x /\ cl'[c].reg # "none"
      BY <1>3, <1>7, <2>1 DEF ServerOk, Held
    <2> QED
      BY <1>3, <2>6, <2>7, <2>8, <2>9, <2>10, <2>11 DEF ServerOk
  <1> QED
    BY <1>1, <1>4, <1>5, <1>6, <1>7, <1>8, <1>9, Moved

\* The destructor starts, or goes on to the members; the object is gone.
LEMMA DestroyKeeps ==
  ASSUME SessionInv, NEW s \in Servers, Destroy(s) \/ DestroyMembers(s) \/ Destroyed(s)
  PROVE  SessionInv'
  <1>1. /\ Shape /\ ServerOk(s) /\ UNCHANGED <<world, files, segs, path, cl, ends>>
        /\ srv[s].pc \in {"ended", "destroy", "members"}
    BY DEF SessionInv, Destroy, DestroyMembers, Destroyed
  <1>2. /\ DOMAIN srv' = Servers /\ DOMAIN srv'[s] = SrvFields
        /\ \A x \in Servers \ {s} : srv'[x] = srv[x]
        /\ \/ srv'[s].pc \in Leaving /\ srv'[s].left = Entries(s) /\ srv'[s].next = srv[s].next
           \/ srv'[s].pc = "gone" /\ srv'[s].next = 0
    BY <1>1 DEF Destroy, DestroyMembers, Destroyed, Shape, SrvFields, IdleServer, Leaving
  <1>3. ServerStep(s)
    BY <1>1, <1>2 DEF ServerStep, Shape, Leaving
  <1>4. FilesKept /\ files' \in [Ids -> 0 .. Len(segs)]
    BY <1>1 DEF FilesKept, Shape
  <1>5. ServerOk(s)'
    <2>1. CASE srv'[s].pc \in Leaving
      <3>1. srv'[s].left = Entries(s) /\ srv'[s].next = srv[s].next
        BY <1>2, <2>1 DEF Leaving
      <3>2. \A c \in srv'[s].left : c \in Clients /\ cl'[c].srv = s /\ cl'[c].reg # "none"
        BY <1>1, <3>1 DEF Entries
      <3> QED
        BY <1>1, <2>1, <3>1, <3>2 DEF ServerOk, Seeking, Making, Leaving
    <2>2. CASE srv'[s].pc = "gone"
      <3>1. srv'[s].pc \notin Busy \cup Leaving /\ srv'[s].next \in 0 .. MaxClients
        BY <1>2, <2>2, SessionAssumption DEF Busy, Seeking, Making, Leaving
      <3> QED
        BY <3>1, Unoccupied
    <2> QED
      BY <1>2, <2>1, <2>2
  <1> QED
    BY <1>1, <1>3, <1>4, <1>5, ServerActsAlone

\* An entry that is left to a destructor has a segment.
LEMMA LeftIs ==
  ASSUME SessionInv, NEW s \in Servers, srv[s].pc \in Leaving, NEW c \in srv[s].left
  PROVE  c \in Clients /\ cl[c].own \in DOMAIN segs
  <1>1. c \in Clients /\ cl[c].reg # "none" /\ Shape
    BY DEF SessionInv, ServerOk
  <1>2. cl[c].own \in 0 .. Len(segs) /\ cl[c].own # 0
    BY <1>1 DEF SessionInv, ClientOk
  <1> QED
    BY <1>1, <1>2, Indices

LEMMA DestroyEntryKeeps ==
  ASSUME SessionInv, NEW s \in Servers, DestroyEntry(s)
  PROVE  SessionInv'
  <1>1. Shape /\ ServerOk(s) /\ srv[s].pc \in Leaving /\ UNCHANGED <<world, path, cl, ends>>
    BY DEF SessionInv, DestroyEntry, Leaving
  <1>2. PICK c \in srv[s].left : DestroyChannel(cl[c].own) /\ srv' = [srv EXCEPT ![s].left = @ \ {c}]
    BY DEF DestroyEntry
  <1>3. /\ DOMAIN srv' = Servers /\ DOMAIN srv'[s] = SrvFields
        /\ \A x \in Servers \ {s} : srv'[x] = srv[x]
        /\ srv'[s].pc = srv[s].pc /\ srv'[s].left = srv[s].left \ {c} /\ srv'[s].next = srv[s].next
    BY <1>1, <1>2 DEF Shape, SrvFields
  <1>4. ServerStep(s)
    BY <1>1, <1>3 DEF ServerStep, Shape, Leaving
  <1>5. NeverBack
    BY <1>4 DEF NeverBack, ServerStep
  <1>6. /\ SegsKept /\ Len(segs') = Len(segs) /\ FilesKept /\ files' \in [Ids -> 0 .. Len(segs')]
        /\ \A h \in DOMAIN segs' : DOMAIN segs'[h] = SegFields /\ SegmentOk(h)'
    BY <1>1, <1>2, <1>5, LeftIs, DestroyIs
  <1>7. ServerOk(s)'
    BY <1>1, <1>3 DEF ServerOk, Seeking, Making, Leaving
  <1>8. DOMAIN cl' = Clients /\ \A d \in Clients : DOMAIN cl'[d] = ClFields /\ cl'[d] = cl[d] /\ SameClient(d)
    BY <1>1 DEF SessionInv, Shape, SameClient, ClientOk
  <1> QED
    BY <1>4, <1>6, <1>7, <1>8, ServerActs

---------------------------------------------------------------------------
(* The theorems about sessions.                                            *)

LEMMA SessionStarts ==
  ASSUME SessionInit
  PROVE  SessionInv
  <1>1. /\ world \in Worlds /\ segs = world.left /\ world.left \in {<<>>, <<LeftOver>>, <<Legacy>>}
        /\ MaxClients \in Nat \ {0} /\ Cap \in Nat /\ MaxEnds \in Nat /\ Old \notin Servers
    BY SessionAssumption DEF SessionInit
  <1>2. /\ DOMAIN LeftOver = SegFields /\ LeftOver.name = 0 /\ LeftOver.by = Old /\ LeftOver.pid = Old
        /\ LeftOver.req = 0 /\ LeftOver.resp = 0
    BY DEF LeftOver, Segment, SegFields
  <1>3. /\ DOMAIN Legacy = SegFields /\ Legacy.name = 0 /\ Legacy.by = Old /\ Legacy.pid = None
        /\ Legacy.req = 0 /\ Legacy.resp = 0
    BY DEF Legacy, Segment, SegFields
  <1>4. PICK r : segs \in {<<>>, <<r>>} /\ r \in {LeftOver, Legacy}
    BY <1>1
  <1>5. /\ DOMAIN r = SegFields /\ r.name = 0 /\ r.by = Old /\ r.pid \in {None, Old}
        /\ r.req = 0 /\ r.resp = 0
    BY <1>2, <1>3, <1>4
  <1>6. IsSeq(segs) /\ (\A g \in DOMAIN segs : segs[g] = r) /\ Len(segs) \in {0, 1}
    <2>1. CASE segs = <<>>
      BY <2>1 DEF IsSeq
    <2>2. CASE segs = <<r>>
      BY <2>2 DEF IsSeq
    <2> QED
      BY <1>4, <2>1, <2>2
  <1>7. \A s \in Servers : srv[s] = IdleServer
    BY DEF SessionInit
  <1>8. \A c \in Clients : cl[c] = IdleClient
    BY DEF SessionInit
  <1>9. 0 \in Ids
    BY <1>1 DEF Ids
  <1>10. Shape
    <2>1. \A g \in DOMAIN segs : DOMAIN segs[g] = SegFields
      BY <1>5, <1>6
    <2>2. files \in [Ids -> 0 .. Len(segs)]
      BY <1>6 DEF SessionInit
    <2>3. /\ DOMAIN srv = Servers /\ \A s \in Servers : DOMAIN srv[s] = SrvFields
          /\ DOMAIN cl = Clients /\ \A c \in Clients : DOMAIN cl[c] = ClFields
      BY <1>7, <1>8 DEF SessionInit, IdleServer, IdleClient, SrvFields, ClFields
    <2>4. path \in Servers \cup {None} /\ ends \in 0 .. MaxEnds
      BY <1>1 DEF SessionInit
    <2> QED
      BY <1>1, <1>6, <2>1, <2>2, <2>3, <2>4 DEF Shape
  <1>11. \A g \in DOMAIN segs : SegmentOk(g)
    BY <1>1, <1>5, <1>6, <1>9 DEF SegmentOk
  <1>12. \A s \in Servers : ServerOk(s)
    BY <1>1, <1>7 DEF ServerOk, IdleServer, Seeking, Making, Leaving
  <1>13. ASSUME NEW c \in Clients PROVE ClientOk(c)
    <2>1. 0 \in 0 .. Len(segs)
      BY <1>6
    <2>2. /\ IdleClient.pc = "idle" /\ IdleClient.own = 0 /\ IdleClient.seg = 0 /\ IdleClient.reg = "none"
          /\ IdleClient.req = 0 /\ IdleClient.resp = 0
      BY DEF IdleClient
    <2>3. /\ cl[c].pc = "idle" /\ cl[c].own = 0 /\ cl[c].seg = 0 /\ cl[c].reg = "none"
          /\ cl[c].req = 0 /\ cl[c].resp = 0
      BY <1>8, <2>2
    <2> QED
      BY <2>1, <2>3 DEF ClientOk, Early
  <1>14. NamesNewest
    <2>1. \A n \in Ids : files[n] # 0 => n = 0 /\ files[n] = 1 /\ DOMAIN segs = {1}
      <3>1. \A n \in Ids : files[n] # 0 => n = 0 /\ files[n] = Len(segs) /\ Len(segs) = 1
        BY <1>6 DEF SessionInit
      <3>2. Len(segs) = 1 => DOMAIN segs = {1}
        BY <1>6, SeqIs
      <3> QED
        BY <3>1, <3>2
    <2> QED
      BY <1>5, <1>6, <2>1 DEF NamesNewest
  <1> QED
    BY <1>10, <1>11, <1>12, <1>13, <1>14 DEF SessionInv

LEMMA SessionSteps ==
  ASSUME SessionInv, [SessionNext]_sessionVars
  PROVE  SessionInv'
  <1>1. ASSUME NEW s \in Servers, Start(s) \/ Stop(s) \/ Destroy(s) \/ Crash(s) \/ Destructor(s)
        PROVE  SessionInv'
    BY <1>1, StartsKeep, StopKeeps, DestroyKeeps, DestroyEntryKeeps, CrashKeeps DEF Destructor
  <1>2. ASSUME NEW s \in Servers, ServerThread(s)
        PROVE  SessionInv'
    BY <1>2, StartsKeep, AcceptKeeps, CreateKeeps, JudgeKeeps, UnlinkKeeps, CreateAgainKeeps, StoresKeep,
       SizeFailsKeeps, OfferKeeps, HandshakeFailsKeeps, DropKeeps, RegistersKeep DEF ServerThread
  <1>3. ASSUME NEW s \in Servers, WorkerThread(s)
        PROVE  SessionInv'
    BY <1>3, WorkersKeep
  <1>4. ASSUME NEW c \in Clients, Connect(c) \/ SendWrite(c) \/ Shutdown(c) \/ ClientDies(c) \/ Caller(c) \/ ResponseLoop(c)
        PROVE  SessionInv'
    BY <1>4, ConnectKeeps, SendWriteKeeps, LeavesKeeps, HandshakeKeeps, OpenFileKeeps, OpenReadyKeeps,
       SendNotifyKeeps, ResponsesKeep DEF Caller
  <1>5. CASE UNCHANGED sessionVars
    <2>1. world' = world /\ files' = files /\ segs' = segs /\ path' = path /\ srv' = srv /\ cl' = cl /\ ends' = ends
      BY <1>5 DEF sessionVars
    <2>2. Shape'
      BY <2>1 DEF SessionInv, Shape
    <2>3. NeverBack /\ FilesKept /\ SegsKept
      BY <2>1, SegsSame DEF NeverBack, FilesKept, SessionInv
    <2>4. \A g \in DOMAIN segs' : SegmentOk(g)'
      BY <2>1, <2>3, SegmentStays DEF SessionInv
    <2>5. \A c \in Clients : SameClient(c) /\ Held(c)
      BY <2>1 DEF SessionInv, SameClient, ClientOk, Held
    <2>6. \A s \in Servers : srv'[s] = srv[s] /\ Relied(s)
      BY <2>1, <2>5, AllHeld
    <2> QED
      BY <2>1, <2>2, <2>3, <2>4, <2>5, <2>6, Moved
  <1> QED
    BY <1>1, <1>2, <1>3, <1>4, <1>5 DEF SessionNext

LEMMA SessionInvariant == SessionSpec => []SessionInv
  <1> QED
    BY SessionStarts, SessionSteps, PTL DEF SessionSpec

\* Through all starts, stops, crashes, reclaims and handshakes of any servers
\* and clients no ring holds more than its capacity, no server hands out more
\* ids than it may, and a client that finished connect() maps its own segment
\* unless the name was taken from that segment before it opened it.
THEOREM SessionsAreSafe == SessionSpec => []SessionsSafe
  <1>1. SessionInv => SessionsSafe
    <2> SUFFICES ASSUME SessionInv PROVE SessionsSafe
      OBVIOUS
    <2>1. SessionTypeOK
      BY DEF SessionInv, SessionTypeOK, Shape, SegmentOk, ServerOk, ClientOk
    <2>2. MapsOwn
      BY DEF SessionInv, MapsOwn, ClientOk
    <2> QED
      BY <2>1, <2>2 DEF SessionsSafe
  <1> QED
    BY <1>1, SessionInvariant, PTL

\* A clean-up of the segment h takes the name from h or from a newer one.
LEMMA DestroyTakes ==
  ASSUME SessionInv, NEW s \in Servers, NEW n \in Ids, NEW h \in DOMAIN segs, h \in CleansUp(s),
         files' = [files EXCEPT ![segs[h].name] = 0], srv'[s] # srv[s]
  PROVE  TakenWithCause(n)
  <1> SUFFICES ASSUME NEW g, g = files[n], g # 0, files'[n] = 0
               PROVE  segs[h].name = n /\ h <= g
    BY DEF TakenWithCause
  <1>1. segs[h].name = n
    BY DEF SessionInv, Shape
  <1> QED
    BY <1>1 DEF SessionInv, NamesNewest

LEMMA Takes ==
  ASSUME SessionInv, SessionNext, NEW n \in Ids
  PROVE  TakenWithCause(n)
  <1>1. Shape
    BY DEF SessionInv
  <1>2. ASSUME files' = files \/ files'[n] # 0 PROVE TakenWithCause(n)
    BY <1>2 DEF TakenWithCause
  <1>3. ASSUME NEW s \in Servers, NewFile(s), srv[s].pc \in Seeking
        PROVE  TakenWithCause(n)
    <2>1. srv[s].id \in Ids /\ files \in [Ids -> 0 .. Len(segs)] /\ Len(segs) + 1 # 0
      BY <1>1, <1>3, SeekingIs, Indices DEF Shape
    <2>2. files' = [files EXCEPT ![srv[s].id] = Len(segs) + 1]
      BY <1>3 DEF NewFile
    <2>3. files'[n] = files[n] \/ files'[n] # 0
      BY <2>1, <2>2
    <2> QED
      BY <2>3 DEF TakenWithCause
  <1>4. ASSUME NEW s \in Servers, Create(s) \/ Judge(s) \/ CreateAgain(s)
        PROVE  TakenWithCause(n)
    <2>1. srv[s].pc \in Seeking /\ (NewFile(s) \/ files' = files)
      BY <1>4 DEF Create, Judge, CreateAgain, CreateFails, Seeking
    <2> QED
      BY <1>2, <1>3, <2>1
  <1>5. ASSUME NEW s \in Servers, Unlink(s)
        PROVE  TakenWithCause(n)
    <2>1. CASE files[srv[s].id] = 0
      BY <1>2, <1>5, <2>1 DEF Unlink, CreateFails
    <2>2. CASE files[srv[s].id] # 0
      <3>1. /\ srv[s].pc = "unlink" /\ files' = [files EXCEPT ![srv[s].id] = 0] /\ SrvGoes(s, "again")
        BY <1>5, <2>2 DEF Unlink
      <3>2. srv'[s] # srv[s]
        BY <1>1, <3>1, GoesIs
      <3> SUFFICES ASSUME NEW g, g = files[n], g # 0, files'[n] = 0, Up(segs[g].by)
                   PROVE  srv[s].id = n /\ srv[s].look < g
        BY <3>1, <3>2 DEF TakenWithCause
      <3>3. srv[s].id = n
        BY <1>1, <3>1 DEF Shape
      <3>4. PICK k \in DOMAIN segs : k = srv[s].look /\ segs[k].name = n /\ ~Up(segs[k].by)
        BY <3>1, <3>3 DEF SessionInv, ServerOk, JudgedDead
      <3>5. k <= g /\ k # g
        BY <3>4 DEF SessionInv, NamesNewest
      <3>6. k \in Nat /\ g \in Nat
        BY <1>1, Indices DEF Shape
      <3> QED
        BY <3>3, <3>4, <3>5, <3>6
    <2> QED
      BY <2>1, <2>2
  <1>6. ASSUME NEW s \in Servers, SizeFails(s) \/ HandshakeFails(s) \/ DropEntry(s)
        PROVE  TakenWithCause(n)
    <2>1. srv[s].pc \in {"pid", "offer", "drop"} /\ srv[s].pc \in Making \cup {"wait"}
      BY <1>6 DEF SizeFails, HandshakeFails, DropEntry, Making
    <2>2. PICK h \in DOMAIN segs : h = InHand(s) /\ segs[h].name = srv[s].id
      BY <2>1, MakingIs
    <2>3. files' = [files EXCEPT ![segs[h].name] = 0]
      BY <1>6, <2>2 DEF SizeFails, HandshakeFails, DropEntry, DestroyChannel
    <2>4. h \in CleansUp(s)
      BY <2>1, <2>2 DEF CleansUp
    <2>5. srv'[s] # srv[s]
      <3>1. CASE SizeFails(s) \/ DropEntry(s)
        <4>1. srv'[s].pc = "accept"
          BY <1>1, <3>1, BackIs DEF SizeFails, DropEntry, Refuse
        <4> QED
          BY <2>1, <4>1
      <3>2. CASE HandshakeFails(s)
        BY <1>1, <3>2, GoesIs DEF HandshakeFails
      <3> QED
        BY <1>6, <3>1, <3>2
    <2> QED
      BY <2>3, <2>4, <2>5, DestroyTakes
  <1>7. ASSUME NEW s \in Servers, DestroyEntry(s)
        PROVE  TakenWithCause(n)
    <2>1. srv[s].pc \in Leaving
      BY <1>7 DEF DestroyEntry, Leaving
    <2>2. PICK c \in srv[s].left : DestroyChannel(cl[c].own) /\ srv' = [srv EXCEPT ![s].left = @ \ {c}]
      BY <1>7 DEF DestroyEntry
    <2>3. PICK h \in DOMAIN segs : h = cl[c].own
      BY <2>1, LeftIs
    <2>4. files' = [files EXCEPT ![segs[h].name] = 0]
      BY <2>2, <2>3 DEF DestroyChannel
    <2>5. h \in CleansUp(s)
      BY <2>1, <2>3 DEF CleansUp, Leaving
    <2>6. srv'[s] # srv[s]
      <3>1. srv'[s].left = srv[s].left \ {c}
        BY <1>1, <2>2 DEF Shape, SrvFields
      <3> QED
        BY <3>1
    <2> QED
      BY <2>4, <2>5, <2>6, DestroyTakes
  <1>8. ASSUME NEW s \in Servers, Start(s) \/ Stop(s) \/ Destroy(s) \/ DestroyMembers(s) \/ Destroyed(s) \/ Crash(s)
                 \/ WorkerThread(s)
        PROVE  files' = files
    BY <1>8 DEF Start, Stop, Destroy, DestroyMembers, Destroyed, Crash, WorkerThread, WakePipe, Wake, WorkerTimeout
  <1>9. ASSUME NEW s \in Servers, Bind(s) \/ Accept(s) \/ AcceptEnds(s) \/ StorePid(s) \/ StoreReady(s)
                 \/ Offer(s) \/ Register(s) \/ RegisterLost(s)
        PROVE  files' = files
    BY <1>9 DEF Bind, Accept, AcceptEnds, StorePid, StoreReady, Offer, Register, RegisterLost
  <1>10. ASSUME NEW c \in Clients, Connect(c) \/ SendWrite(c) \/ Shutdown(c) \/ ClientDies(c) \/ Caller(c) \/ ResponseLoop(c)
        PROVE  files' = files
    BY <1>10 DEF Connect, SendWrite, Shutdown, ClientDies, Caller, ResponseLoop, HandshakeClient, OpenFile,
       OpenReady, SendNotify, ResponseWake, ResponseTimeout
  <1>11. ASSUME NEW s \in Servers, ServerThread(s)
         PROVE  TakenWithCause(n)
    BY <1>2, <1>4, <1>5, <1>6, <1>9, <1>11 DEF ServerThread
  <1> QED
    BY <1>2, <1>7, <1>8, <1>10, <1>11 DEF SessionNext, Destructor

\* reclaim_stale_segment and destroy(): the name of a living creator's segment goes
\* away only in a clean-up of that segment by its own creator, or with an older
\* segment of the same name, which a reclaim had found dead or whose own creator
\* cleans it up (a create() that fails, a failed handshake, the destructors with
\* the second unlink of ~ShmChannel).
THEOREM ReclaimsHaveCause == SessionSpec => ReclaimCauses
  <1>1. SessionInv /\ [SessionNext]_sessionVars => [\A n \in Ids : TakenWithCause(n)]_sessionVars
    BY Takes
  <1> QED
    BY <1>1, SessionInvariant, PTL DEF SessionSpec, ReclaimCauses
============================================================================
