------------------------------ MODULE ShmRing ------------------------------
(***************************************************************************)
(* One direction of a ShmChannel (general/shm_channel.cc): the byte ring   *)
(* shared by one producer and one consumer in two processes.  The request  *)
(* and the response ring run the same code on different memory; they       *)
(* differ in the wait budget only (SHM_REQUEST_WAIT_MS, 0 for responses),  *)
(* which is the parameter of WriteTo.                                      *)
(*                                                                         *)
(* Every access to shared memory that the other side can observe is a      *)
(* step of its own: loading the peer's index, each memcpy into the ring,   *)
(* each release store, the read of a frame header, the use of a pinned     *)
(* view.  Acquire/release on the two indices is what makes the steps of a  *)
(* thread visible in program order, so the interleaving semantics of TLA+  *)
(* is the one the code relies on.                                          *)
(*                                                                         *)
(* A byte of the ring is a Cell: byte i of frame f whose length is n, or   *)
(* the zero byte of a skip marker.  Indices are natural numbers: a uint64  *)
(* byte counter does not reach its limit in the life of a channel.         *)
(***************************************************************************)
EXTENDS Integers, Sequences

CONSTANTS
  DataSize,    \* ring capacity in bytes (ShmRingBuf::data_size)
  HdrLen,      \* frame header: frame_len + msg_type, 8 bytes in the code
  LenField,    \* the frame_len field, 4 bytes in the code
  BodyLens,    \* body lengths the callers use
  MaxFrames    \* bound: number of frames published in a behaviour

ASSUME RingAssumption ==
  /\ DataSize \in Nat \ {0}
  /\ LenField \in Nat \ {0}
  /\ HdrLen \in Nat
  /\ LenField < HdrLen
  /\ BodyLens \subseteq Nat
  /\ MaxFrames \in Nat

VARIABLES
  wIdx,      \* write_idx, stored by the producer
  rIdx,      \* read_idx, stored by the consumer
  mem,       \* the data area, offset -> Cell
  ppc,       \* where the producer is
  plen,      \* frame_len of the frame being written
  pw,        \* the producer's local w
  pr,        \* the producer's snapshot of read_idx
  budget,    \* wait budget of the call: "none" (wait_ms <= 0), "left", "spent"
  pret,      \* result of the last finished write
  cpc,       \* where the consumer is
  pin,       \* pinned_end, 0 when no view is out
  sent,      \* history: the published frames, [s |-> start index, n |-> length]
  got        \* history: the frame numbers handed to the application, 0 = torn

prodVars == <<ppc, plen, pw, pr, budget, pret>>
consVars == <<cpc, pin>>
vars == <<wIdx, rIdx, mem, ppc, plen, pw, pr, budget, pret,
          cpc, pin, sent, got>>

Offsets == 0 .. DataSize - 1
Cell == [f : Nat, n : Nat, i : Nat]
ZeroByte == [f |-> 0, n |-> 0, i |-> 0]

\* Byte k of frame number f, whose frame_len is n.
FrameByte(f, n, k) == [f |-> f, n |-> n, i |-> k]

\* Bytes from index p to the end of the data area.
Contig(p) == DataSize - (p % DataSize)

\* Deviation: the header is left out of the comparison with the free bytes.
AvailForBody(w, r) == DataSize - (w - r) + HdrLen

\* Free bytes as the producer computes them from w and its snapshot of r.
Avail(w, r) == DataSize - (w - r)

\* The number of the frame being written: frames are numbered as published.
NextFrame == Len(sent) + 1

---------------------------------------------------------------------------
Init ==
  /\ wIdx = 0
  /\ rIdx = 0
  /\ mem = [o \in Offsets |-> ZeroByte]
  /\ ppc = "idle"
  /\ plen = 0
  /\ pw = 0
  /\ pr = 0
  /\ budget = "none"
  /\ pret = "none"
  /\ cpc = "idle"
  /\ pin = 0
  /\ sent = <<>>
  /\ got = <<>>

---------------------------------------------------------------------------
(* Producer: write_to.                                                     *)

\* A frame that exceeds the whole ring fails at once, whatever the budget.
WriteToTooLarge(b) ==
  /\ ppc = "idle"
  /\ DataSize < HdrLen + b
  /\ pret' = "toolarge"
  /\ UNCHANGED <<wIdx, rIdx, mem, ppc, plen, pw, pr, budget,
                 consVars, sent, got>>

\* Entry of write_to with a body of b bytes; wait is "left" when wait_ms > 0.
WriteTo(b, wait) ==
  /\ ppc = "idle"
  /\ Len(sent) < MaxFrames
  /\ DataSize >= HdrLen + b
  /\ ppc' = "try"
  /\ plen' = HdrLen + b
  /\ budget' = wait
  /\ pret' = "none"
  /\ UNCHANGED <<wIdx, rIdx, mem, pw, pr, consVars, sent, got>>

\* The loop head: load both indices, compare the free bytes with frame_len
\* and the tail with frame_len.
Probe ==
  /\ ppc = "try"
  /\ pw' = wIdx
  /\ pr' = rIdx
  /\ ppc' = IF Avail(wIdx, rIdx) < plen THEN "full"
            ELSE IF Contig(wIdx) < plen THEN "skip" ELSE "fill"
  /\ UNCHANGED <<wIdx, rIdx, mem, plen, budget, pret,
                 consVars, sent, got>>

\* Deviation: a tail shorter than the length field is not clamped.
SkipMarkUnclamped(contig) == LenField

\* Deviation: no marker is written.
SkipMarkMissing(contig) == 0

\* Bytes the skip marker zeroes at the tail: the length field, or the whole
\* tail when it is shorter than that.
SkipMarkLen(contig) == IF contig >= LenField THEN LenField ELSE contig

\* Deviation: the free bytes are not compared again behind the skipped tail.
WriteSkipUnchecked ==
  /\ ppc = "skip"
  /\ LET off == pw % DataSize IN
       mem' = [o \in Offsets |->
                 IF off <= o /\ o < off + SkipMarkLen(Contig(pw))
                 THEN ZeroByte ELSE mem[o]]
  /\ pw' = pw + Contig(pw)
  /\ ppc' = "fill"
  /\ UNCHANGED <<wIdx, rIdx, plen, pr, budget, pret,
                 consVars, sent, got>>

\* Deviation: the local index is moved back to the head of the ring.
WriteSkipBackwards ==
  /\ ppc = "skip"
  /\ pw' = pw - Contig(pw)
  /\ ppc' = "full"
  /\ UNCHANGED <<wIdx, rIdx, mem, plen, pr, budget, pret,
                 consVars, sent, got>>

\* The tail is too short: zero a marker there, continue at the head of the
\* ring, and compare again with the same snapshot of read_idx.
WriteSkip ==
  /\ ppc = "skip"
  /\ LET off == pw % DataSize IN
       mem' = [o \in Offsets |->
                 IF off <= o /\ o < off + SkipMarkLen(Contig(pw))
                 THEN ZeroByte ELSE mem[o]]
  /\ pw' = pw + Contig(pw)
  /\ ppc' = IF Avail(pw', pr) < plen THEN "full" ELSE "fill"
  /\ UNCHANGED <<wIdx, rIdx, plen, pr, budget, pret,
                 consVars, sent, got>>

\* The three memcpys of header and body.
Fill ==
  /\ ppc = "fill"
  /\ LET off == pw % DataSize IN
       mem' = [o \in Offsets |->
                 IF off <= o /\ o < off + plen
                 THEN FrameByte(NextFrame, plen, o - off) ELSE mem[o]]
  /\ ppc' = "publish"
  /\ UNCHANGED <<wIdx, rIdx, plen, pw, pr, budget, pret,
                 consVars, sent, got>>

\* Deviation: the skipped tail is not added to write_idx.
PublishWithoutSkip ==
  /\ ppc = "publish"
  /\ wIdx' = wIdx + plen
  /\ sent' = Append(sent, [s |-> pw, n |-> plen])
  /\ ppc' = "idle"
  /\ pret' = "ok"
  /\ UNCHANGED <<rIdx, mem, plen, pw, pr, budget, consVars, got>>

\* The release store of write_idx: skip marker and frame become visible
\* together.
Publish ==
  /\ ppc = "publish"
  /\ wIdx' = pw + plen
  /\ sent' = Append(sent, [s |-> pw, n |-> plen])
  /\ ppc' = "idle"
  /\ pret' = "ok"
  /\ UNCHANGED <<rIdx, mem, plen, pw, pr, budget, consVars, got>>

\* Deviation: the deadline is computed anew in every round.
DeadlineRestarts ==
  /\ ppc \in {"try", "skip", "full"}
  /\ budget = "left"
  /\ budget' = "left"
  /\ UNCHANGED <<wIdx, rIdx, mem, ppc, plen, pw, pr, pret,
                 consVars, sent, got>>

\* steady_clock reaches the deadline of the call in progress.
DeadlinePasses ==
  /\ ppc \in {"try", "skip", "full"}
  /\ budget = "left"
  /\ budget' = "spent"
  /\ UNCHANGED <<wIdx, rIdx, mem, ppc, plen, pw, pr, pret,
                 consVars, sent, got>>

\* Not enough room and budget left: yield or sleep, then probe again.
Retry ==
  /\ ppc = "full"
  /\ budget = "left"
  /\ ppc' = "try"
  /\ UNCHANGED <<wIdx, rIdx, mem, plen, pw, pr, budget, pret,
                 consVars, sent, got>>

\* Not enough room and no budget (left): return false.
GiveUp ==
  /\ ppc = "full"
  /\ budget # "left"
  /\ ppc' = "idle"
  /\ pret' = "full"
  /\ UNCHANGED <<wIdx, rIdx, mem, plen, pw, pr, budget,
                 consVars, sent, got>>

---------------------------------------------------------------------------
(* Producer: the zero-copy path, req_write_ptr then req_commit, as the     *)
(* protobuf client and server use it.                                      *)

\* Size of the span write_ptr returns, 0 for the empty span.
WriteSpan(w, r) ==
  LET room == IF Avail(w, r) < Contig(w) THEN Avail(w, r) ELSE Contig(w)
  IN  IF Avail(w, r) < HdrLen \/ room <= HdrLen THEN 0 ELSE room - HdrLen

\* send(): take a span; serialize in place if the body fits it, otherwise
\* fall back to write_to with a copied body.
SendInPlace(b, wait) ==
  /\ ppc = "idle"
  /\ Len(sent) < MaxFrames
  /\ DataSize >= HdrLen + b
  /\ plen' = HdrLen + b
  /\ budget' = wait
  /\ pret' = "none"
  /\ pw' = wIdx
  /\ pr' = rIdx
  /\ ppc' = IF WriteSpan(wIdx, rIdx) > 0 /\ WriteSpan(wIdx, rIdx) >= b
            THEN "body" ELSE "try"
  /\ UNCHANGED <<wIdx, rIdx, mem, consVars, sent, got>>

\* serializeToArray into the span, which starts behind the header.
SerializeBody ==
  /\ ppc = "body"
  /\ LET off == pw % DataSize IN
       mem' = [o \in Offsets |->
                 IF off + HdrLen <= o /\ o < off + plen
                 THEN FrameByte(NextFrame, plen, o - off) ELSE mem[o]]
  /\ ppc' = "header"
  /\ UNCHANGED <<wIdx, rIdx, plen, pw, pr, budget, pret,
                 consVars, sent, got>>

\* req_commit: reload w and write the header in front of the body; the
\* store of write_idx is the Publish step.
CommitHeader ==
  /\ ppc = "header"
  /\ pw' = wIdx
  /\ LET off == wIdx % DataSize IN
       mem' = [o \in Offsets |->
                 IF off <= o /\ o < off + HdrLen
                 THEN FrameByte(NextFrame, plen, o - off) ELSE mem[o]]
  /\ ppc' = "publish"
  /\ UNCHANGED <<wIdx, rIdx, plen, pr, budget, pret,
                 consVars, sent, got>>

---------------------------------------------------------------------------
(* Consumer: read_frame_view, use of the view, release_frame_view.         *)

\* The frame_len values a memcpy of LenField bytes at offset o may give: the
\* written one when the field is whole, anything when it is torn.
HeaderLens(o) ==
  IF \A k \in 0 .. LenField - 1 : mem[o + k] = ZeroByte THEN {0}
  ELSE IF \A k \in 0 .. LenField - 1 :
            mem[o + k] = FrameByte(mem[o].f, mem[o].n, k) THEN {mem[o].n}
  ELSE 0 .. DataSize + 1

\* Loop head with no view out: load read_idx and write_idx; something is there.
ReadLoad ==
  /\ cpc = "idle"
  /\ pin = 0
  /\ wIdx # rIdx
  /\ cpc' = IF Contig(rIdx) < LenField THEN "skip" ELSE "header"
  /\ UNCHANGED <<wIdx, rIdx, mem, prodVars, pin, sent, got>>

\* Read frame_len: a zero is a skip marker; a length outside header .. tail is
\* a corrupt frame and the call returns false; otherwise pin the frame.
ReadHeader ==
  /\ cpc = "header"
  /\ \E n \in HeaderLens(rIdx % DataSize) :
       IF n = 0
       THEN cpc' = "skip" /\ pin' = pin
       ELSE IF n < HdrLen \/ n > Contig(rIdx)
       THEN cpc' = "idle" /\ pin' = pin
       ELSE cpc' = "view" /\ pin' = rIdx + n
  /\ UNCHANGED <<wIdx, rIdx, mem, prodVars, sent, got>>

\* Deviation: only the marker is skipped, not the tail.
ReadSkipMarkOnly ==
  /\ cpc = "skip"
  /\ rIdx' = rIdx + SkipMarkLen(Contig(rIdx))
  /\ cpc' = "idle"
  /\ UNCHANGED <<wIdx, mem, prodVars, pin, sent, got>>

\* Jump over the tail.
ReadSkip ==
  /\ cpc = "skip"
  /\ rIdx' = rIdx + Contig(rIdx)
  /\ cpc' = "idle"
  /\ UNCHANGED <<wIdx, mem, prodVars, pin, sent, got>>

\* What the application finds in the n bytes at offset o.
ViewFrame(o, n) ==
  IF \A k \in 0 .. n - 1 : mem[o + k] = FrameByte(mem[o].f, n, k)
  THEN mem[o].f ELSE 0

\* The application parses the view in place (or read_from copies it out).
UseView ==
  /\ cpc = "view"
  /\ got' = Append(got, ViewFrame(rIdx % DataSize, pin - rIdx))
  /\ cpc' = "used"
  /\ UNCHANGED <<wIdx, rIdx, mem, prodVars, pin, sent>>

\* Deviation: the pin is not cleared.
ReleaseViewKeepsPin ==
  /\ cpc = "used"
  /\ pin # 0
  /\ rIdx' = pin
  /\ cpc' = "idle"
  /\ UNCHANGED <<wIdx, mem, prodVars, pin, sent, got>>

\* release_frame_view.
ReleaseView ==
  /\ cpc = "used"
  /\ pin # 0
  /\ rIdx' = pin
  /\ pin' = 0
  /\ cpc' = "idle"
  /\ UNCHANGED <<wIdx, mem, prodVars, sent, got>>

---------------------------------------------------------------------------
ProducerStep ==
  \/ Probe \/ WriteSkip \/ Fill \/ Publish \/ Retry \/ GiveUp
  \/ SerializeBody \/ CommitHeader
ConsumerStep == ReadLoad \/ ReadHeader \/ ReadSkip \/ UseView \/ ReleaseView

Call ==
  \E b \in BodyLens :
    \/ WriteToTooLarge(b)
    \/ \E wait \in {"none", "left"} : WriteTo(b, wait) \/ SendInPlace(b, wait)

Next == Call \/ ProducerStep \/ DeadlinePasses \/ ConsumerStep

Spec == Init /\ [][Next]_vars

\* The producer's thread and the consumer's worker keep running (the worker
\* wakes up at least every 500 ms) and the clock reaches every deadline.
Fairness ==
  /\ WF_vars(ProducerStep)
  /\ WF_vars(ConsumerStep)
  /\ WF_vars(DeadlinePasses)

FairSpec == Spec /\ Fairness

---------------------------------------------------------------------------
\* Type correctness of the ring's state.
TypeOK ==
  /\ wIdx \in Nat
  /\ rIdx \in Nat
  /\ mem \in [Offsets -> Cell]
  /\ ppc \in {"idle", "try", "skip", "fill", "publish", "full", "body", "header"}
  /\ plen \in Nat
  /\ pw \in Nat
  /\ pr \in Nat
  /\ budget \in {"none", "left", "spent"}
  /\ pret \in {"none", "ok", "full", "toolarge"}
  /\ cpc \in {"idle", "header", "skip", "view", "used"}
  /\ pin \in Nat
  /\ sent \in Seq([s : Nat, n : Nat])
  /\ got \in Seq(Nat)

\* The consumer never passes the producer and the producer never runs more
\* than one ring ahead: the unsigned subtractions w - r and ds - (w - r) in
\* write_to and write_ptr never wrap, also after the tail was skipped.
IndexOrder ==
  /\ rIdx <= wIdx
  /\ wIdx <= rIdx + DataSize
  /\ pr <= rIdx
  /\ ppc \in {"skip", "fill", "publish", "full", "body", "header"} =>
       pw - pr <= DataSize

\* The bytes the producer is about to write: [from, to) in index space.
WriteTarget ==
  CASE ppc = "skip" -> <<pw, pw + SkipMarkLen(Contig(pw))>>
    [] ppc \in {"fill", "publish", "body", "header"} -> <<pw, pw + plen>>
    [] OTHER -> <<wIdx, wIdx>>

\* Whatever the producer writes lies behind everything published and within one
\* ring of the consumer, and does not cross the end of the data area: a
\* published frame, in particular one the consumer holds a view of, is never
\* overwritten (the contract of read_*_view in shm_channel.hpp).
WriteClear ==
  /\ wIdx <= WriteTarget[1]
  /\ WriteTarget[2] <= rIdx + DataSize
  /\ WriteTarget[2] - WriteTarget[1] <= Contig(WriteTarget[1])

\* Whenever the consumer decodes a header it finds a whole length field that is
\* a skip marker or a frame lying within the published bytes: the branch for a
\* corrupt frame, which would stall the direction for ever, is never taken.
HeaderWhole ==
  cpc = "header" =>
    \E n \in 0 .. DataSize :
      /\ HeaderLens(rIdx % DataSize) = {n}
      /\ \/ n = 0 /\ rIdx + Contig(rIdx) < wIdx
         \/ HdrLen <= n /\ n <= Contig(rIdx) /\ rIdx + n <= wIdx

\* The application sees every published frame once, in order and untorn, and
\* nothing else.
FifoIntact ==
  /\ Len(got) <= Len(sent)
  /\ \A j \in 1 .. Len(got) : got[j] = j

\* What two processes on the ring rely on at every moment: indices in order,
\* nothing live overwritten, whole headers, frames in order and untorn.
RingSafe == TypeOK /\ IndexOrder /\ WriteClear /\ HeaderWhole /\ FifoIntact

\* Every published frame is eventually handed to the application: no skip
\* marker, pinned view or full ring stops the drain loop.
AllDelivered ==
  \A k \in 1 .. MaxFrames : Len(sent) >= k ~> Len(got) >= k

\* Every write call returns: it publishes or it gives up within its budget,
\* also when no amount of draining makes room for its frame.
WriteReturns == ppc # "idle" ~> ppc = "idle"

\* The frames published and not yet handed to the application.
Pending == [j \in 1 .. Len(sent) - Len(got) |-> Len(got) + j]

Fifo == INSTANCE ShmFifo WITH queue <- Pending, delivered <- got

\* The ring implements the queue: skip frames, failed writes, pinning and the
\* two write paths are invisible behind it.
RefinesFifo == Fifo!Spec
=============================================================================
