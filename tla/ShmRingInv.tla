---------------------------- MODULE ShmRingInv ----------------------------
(***************************************************************************)
(* The inductive invariant of ShmRing.  It says where the published frames *)
(* lie, where the consumer stands among them, which bytes of the ring are  *)
(* therefore determined, and what the producer knows while it writes.      *)
(***************************************************************************)
EXTENDS ShmRing

\* The index behind frame j (frame 0 is the empty prefix).
End(j) == IF j = 0 THEN 0 ELSE sent[j].s + sent[j].n

\* How many frames the consumer has given back to the producer.
Released == IF cpc = "used" THEN Len(got) - 1 ELSE Len(got)

\* The bytes of the ring from index p on are frame f of length n.
FrameAt(p, n, f) ==
  \A k \in 0 .. n - 1 : mem[(p % DataSize) + k] = FrameByte(f, n, k)

\* The tail from index p on is recognised as skipped.
MarkerAt(p) ==
  Contig(p) >= LenField =>
    \A k \in 0 .. LenField - 1 : mem[(p % DataSize) + k] = ZeroByte

\* The published frames follow each other, each in one piece, with at most a
\* skipped tail between two of them.
FramesTile ==
  /\ wIdx = End(Len(sent))
  /\ \A j \in 1 .. Len(sent) :
       /\ HdrLen <= sent[j].n
       /\ sent[j].n <= Contig(sent[j].s)
       /\ \/ sent[j].s = End(j - 1)
          \/ sent[j].s = End(j - 1) + Contig(End(j - 1))
       /\ \A i \in 0 .. j - 1 : End(i) <= sent[j].s

\* The consumer stands at the end of the last released frame or, behind a
\* skipped tail, at the start of the next one; a pinned frame is that next one.
ConsumerAt ==
  /\ Released \in 0 .. Len(sent)
  /\ cpc # "idle" => Released < Len(sent)
  /\ \/ rIdx = End(Released)
     \/ Released < Len(sent) /\ rIdx = sent[Released + 1].s
  /\ cpc = "header" => Contig(rIdx) >= LenField
  /\ cpc = "skip" => rIdx # sent[Released + 1].s
  /\ cpc \in {"view", "used"} =>
       rIdx = sent[Released + 1].s /\ pin = End(Released + 1)
  /\ cpc \in {"idle", "header", "skip"} => pin = 0

\* Every frame not yet released is in the ring untorn, and every skipped tail
\* the consumer has yet to reach carries its marker.
Contents ==
  \A j \in Released + 1 .. Len(sent) :
    /\ FrameAt(sent[j].s, sent[j].n, j)
    /\ sent[j].s # End(j - 1) /\ rIdx <= End(j - 1) => MarkerAt(End(j - 1))

\* What the producer has established at each point of a write.
ProducerAt ==
  /\ pr <= rIdx
  /\ wIdx <= rIdx + DataSize
  /\ ppc # "idle" => HdrLen <= plen
  /\ ppc \in {"skip", "body", "header"} => pw = wIdx
  /\ ppc \in {"fill", "publish"} =>
       pw = wIdx \/ (pw = wIdx + Contig(wIdx) /\ MarkerAt(wIdx))
  /\ ppc = "skip" => Contig(pw) < plen
  /\ ppc \in {"fill", "publish", "body", "header"} => plen <= Contig(pw)
  /\ ppc \in {"skip", "fill", "publish", "body", "header"} =>
       pw + plen <= pr + DataSize
  /\ ppc = "full" => pw <= pr + DataSize
  /\ ppc = "header" =>
       \A k \in HdrLen .. plen - 1 :
         mem[(pw % DataSize) + k] = FrameByte(NextFrame, plen, k)
  /\ ppc = "publish" => FrameAt(pw, plen, NextFrame)

\* The conjunction that every step of the ring preserves.
IInv ==
  /\ TypeOK
  /\ FramesTile
  /\ ConsumerAt
  /\ Contents
  /\ ProducerAt
  /\ FifoIntact
=============================================================================
