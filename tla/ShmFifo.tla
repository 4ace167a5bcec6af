------------------------------ MODULE ShmFifo ------------------------------
(***************************************************************************)
(* What one direction of a ShmChannel promises: a queue of frames.  A      *)
(* write that returns true appends one frame, a write that returns false   *)
(* changes nothing, and the reader takes frames from the front.  Frames    *)
(* are numbered in the order in which they were accepted.                  *)
(***************************************************************************)
EXTENDS Naturals, Sequences

VARIABLES
  queue,      \* accepted and not yet handed out
  delivered   \* handed to the application

fifoVars == <<queue, delivered>>

Init ==
  /\ queue = <<>>
  /\ delivered = <<>>

\* write_* returned true.
Accept ==
  /\ queue' = Append(queue, Len(delivered) + Len(queue) + 1)
  /\ delivered' = delivered

\* read_*_view returned true and the view was used.
Deliver ==
  /\ queue # <<>>
  /\ delivered' = Append(delivered, Head(queue))
  /\ queue' = Tail(queue)

Next == Accept \/ Deliver

Spec == Init /\ [][Next]_fifoVars
=============================================================================
