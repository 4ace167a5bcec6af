---------------------------- MODULE AsyncLooper ----------------------------
(***************************************************************************)
(* log_system/looper.hpp and buffer.hpp: the asynchronous logger's worker  *)
(* with its two buffers.  Application threads push records into the        *)
(* production buffer; the worker swaps the buffers, writes the other one   *)
(* out and empties it, all under one mutex.  stop() asks the worker to end *)
(* and joins it, without taking the mutex.                                 *)
(*                                                                         *)
(* Waiting on a condition variable is two steps: the predicate is found    *)
(* false with the mutex held ("pred"), then the thread blocks and the      *)
(* mutex is released at once.  A notification wakes threads that have      *)
(* blocked, and no others.  There are no spurious wake-ups: the standard   *)
(* allows them and promises none.                                          *)
(***************************************************************************)
EXTENDS Naturals, Sequences

CONSTANTS
  Threads,     \* the threads that log
  Lens,        \* lengths of records
  Capacity,    \* DEFAULT_BUFFER_SIZE
  Threshold,   \* THRESHOLD_BUFFER_SIZE
  Increment,   \* INCREMENT_BUF_SIZE
  Safe,        \* ASYNC_SAFE rather than ASYNC_UNSAFE
  MaxRecs      \* bound: records pushed in a behaviour

ASSUME LooperAssumption ==
  /\ Capacity \in Nat \ {0} /\ Threshold \in Nat /\ Increment \in Nat
  /\ Lens \subseteq Nat \ {0}
  /\ Safe \in BOOLEAN /\ MaxRecs \in Nat
  /\ "free" \notin Threads /\ "worker" \notin Threads

VARIABLES
  lock,      \* the holder of _mutex, between two steps
  stop,      \* "no", or "asked" once request_stop was called
  pro,       \* _pro_buf: records, bytes used, bytes allocated
  con,       \* _con_buf
  wpc,       \* where the worker is
  ppc,       \* where a logging thread is
  plen,      \* length of the record a thread is pushing
  spc,       \* where the thread in stop() is
  pushed,    \* history: number of records pushed
  written    \* history: the records handed to the sinks

vars == <<lock, stop, pro, con, wpc, ppc, plen, spc, pushed, written>>

EmptyBuffer(size) == [recs |-> <<>>, used |-> 0, size |-> size]

Init ==
  /\ lock = "free"
  /\ stop = "no"
  /\ pro = EmptyBuffer(Capacity)
  /\ con = EmptyBuffer(Capacity)
  /\ wpc = "top"
  /\ ppc = [t \in Threads |-> "idle"]
  /\ plen = [t \in Threads |-> 0]
  /\ spc = "none"
  /\ pushed = 0
  /\ written = <<>>

---------------------------------------------------------------------------
(* Buffer.                                                                 *)

Room(b) == b.size - b.used

\* Deviation: the allocation never grows.
GrownNever(b, n) == b.size

\* getenoughsize: the allocation after making sure of n more bytes.
Grown(b, n) ==
  IF n < Room(b) THEN b.size
  ELSE IF b.size < Threshold THEN b.size * 2 + n
  ELSE b.size + Increment + n

BufferPush(b, rec, n) ==
  [recs |-> Append(b.recs, rec), used |-> b.used + n, size |-> Grown(b, n)]

---------------------------------------------------------------------------
(* push(), in a logging thread.                                            *)

\* The wait's predicate.
MayPush(n) == ~Safe \/ stop = "asked" \/ n <= Room(pro)

\* Copy the record and notify_one the worker; the mutex is released.
PushBody(t, n) ==
  /\ pushed < MaxRecs
  /\ pro' = BufferPush(pro, pushed + 1, n)
  /\ pushed' = pushed + 1
  /\ wpc' = IF wpc = "blocked" THEN "woken" ELSE wpc
  /\ ppc' = [ppc EXCEPT ![t] = "idle"]
  /\ lock' = "free"

\* The predicate is false: go on holding the mutex until the thread blocks.
PushWait(t) ==
  /\ ppc' = [ppc EXCEPT ![t] = "pred"]
  /\ lock' = t
  /\ UNCHANGED <<pro, pushed, wpc>>

Push(t, n) ==
  /\ lock = "free"
  /\ ppc[t] = "idle"
  /\ pushed < MaxRecs
  /\ plen' = [plen EXCEPT ![t] = n]
  /\ \/ MayPush(n) /\ PushBody(t, n)
     \/ ~MayPush(n) /\ PushWait(t)
  /\ UNCHANGED <<stop, con, spc, written>>

PushBlocks(t) ==
  /\ ppc[t] = "pred"
  /\ ppc' = [ppc EXCEPT ![t] = "blocked"]
  /\ lock' = "free"
  /\ UNCHANGED <<stop, pro, con, wpc, plen, spc, pushed, written>>

\* A notified thread takes the mutex and evaluates the predicate again.
PushResumes(t) ==
  /\ lock = "free"
  /\ ppc[t] = "woken"
  /\ \/ MayPush(plen[t]) /\ PushBody(t, plen[t])
     \/ ~MayPush(plen[t]) /\ PushWait(t)
  /\ UNCHANGED <<stop, con, plen, spc, written>>

\* notify_all on the producers' condition.
WakeThreads == [t \in Threads |-> IF ppc[t] = "blocked" THEN "woken" ELSE ppc[t]]

---------------------------------------------------------------------------
(* threadentry(), the worker.                                              *)

\* Deviation: the buffer that was written out is not reset.
DrainNoReset ==
  /\ written' = written \o pro.recs
  /\ con' = pro
  /\ pro' = con
  /\ ppc' = IF Safe THEN WakeThreads ELSE ppc
  /\ wpc' = "top"
  /\ lock' = "free"

\* Deviation: the waiting threads are not notified.
DrainQuietly ==
  /\ written' = written \o pro.recs
  /\ con' = EmptyBuffer(pro.size)
  /\ pro' = con
  /\ ppc' = ppc
  /\ wpc' = "top"
  /\ lock' = "free"

\* swap, notify_all the producers, callback, reset.
Drain ==
  /\ written' = written \o pro.recs
  /\ con' = EmptyBuffer(pro.size)
  /\ pro' = con
  /\ ppc' = IF Safe THEN WakeThreads ELSE ppc
  /\ wpc' = "top"
  /\ lock' = "free"

\* The predicate is false: hold the mutex until the worker blocks.
WorkerWait ==
  /\ wpc' = "pred"
  /\ lock' = "worker"
  /\ UNCHANGED <<pro, con, ppc, written>>

WorkerReady == stop = "asked" \/ pro.recs # <<>>

\* Deviation: the worker ends as soon as it is asked to.
WorkerExitsEarly ==
  /\ lock = "free"
  /\ wpc = "top"
  /\ stop = "asked"
  /\ wpc' = "exit"
  /\ UNCHANGED <<lock, stop, pro, con, ppc, plen, spc, pushed, written>>

WorkerExits ==
  /\ lock = "free"
  /\ wpc = "top"
  /\ stop = "asked"
  /\ pro.recs = <<>>
  /\ wpc' = "exit"
  /\ UNCHANGED <<lock, stop, pro, con, ppc, plen, spc, pushed, written>>

WorkerLoop ==
  /\ lock = "free"
  /\ \/ wpc = "top" /\ ~(stop = "asked" /\ pro.recs = <<>>)
     \/ wpc = "woken"
  /\ \/ WorkerReady /\ Drain
     \/ ~WorkerReady /\ WorkerWait
  /\ UNCHANGED <<stop, plen, spc, pushed>>

WorkerBlocks ==
  /\ wpc = "pred"
  /\ wpc' = "blocked"
  /\ lock' = "free"
  /\ UNCHANGED <<stop, pro, con, ppc, plen, spc, pushed, written>>

---------------------------------------------------------------------------
(* stop().                                                                 *)

RequestStop ==
  /\ spc = "none"
  /\ stop' = "asked"
  /\ spc' = "notifycon"
  /\ UNCHANGED <<lock, pro, con, wpc, ppc, plen, pushed, written>>

NotifyWorker ==
  /\ spc = "notifycon"
  /\ wpc' = IF wpc = "blocked" THEN "woken" ELSE wpc
  /\ spc' = "notifypro"
  /\ UNCHANGED <<lock, stop, pro, con, ppc, plen, pushed, written>>

NotifyThreads ==
  /\ spc = "notifypro"
  /\ ppc' = WakeThreads
  /\ spc' = "join"
  /\ UNCHANGED <<lock, stop, pro, con, wpc, plen, pushed, written>>

Join ==
  /\ spc = "join"
  /\ wpc = "exit"
  /\ spc' = "done"
  /\ UNCHANGED <<lock, stop, pro, con, wpc, ppc, plen, pushed, written>>

ThreadStep(t) == PushBlocks(t) \/ PushResumes(t)
WorkerStep == WorkerExits \/ WorkerLoop \/ WorkerBlocks
StopStep == NotifyWorker \/ NotifyThreads \/ Join

Next ==
  \/ \E t \in Threads : ThreadStep(t) \/ \E n \in Lens : Push(t, n)
  \/ WorkerStep
  \/ RequestStop
  \/ StopStep

Spec == Init /\ [][Next]_vars

\* Every thread runs: what it can do from some time on without a pause, it does.
\* Nothing is said of who gets the mutex first, as std::mutex promises no order;
\* and nobody has to log or to call stop().
Fairness ==
  /\ \A t \in Threads : WF_vars(PushBlocks(t)) /\ WF_vars(PushResumes(t))
  /\ WF_vars(WorkerStep)
  /\ WF_vars(StopStep)

FairSpec == Spec /\ Fairness

---------------------------------------------------------------------------
\* Type correctness of the looper's state.
TypeOK ==
  /\ lock \in Threads \cup {"free", "worker"}
  /\ stop \in {"no", "asked"}
  /\ \A b \in {pro, con} :
       b.recs \in Seq(Nat) /\ b.used \in 0 .. b.size /\ b.size \in Nat
  /\ wpc \in {"top", "pred", "blocked", "woken", "exit"}
  /\ ppc \in [Threads -> {"idle", "pred", "blocked", "woken"}]
  /\ plen \in [Threads -> Lens \cup {0}]
  /\ spc \in {"none", "notifycon", "notifypro", "join", "done"}
  /\ pushed \in 0 .. MaxRecs
  /\ written \in Seq(Nat)

\* Nothing is lost, duplicated or reordered on its way through the two buffers:
\* the sinks have got a prefix of what was pushed and the rest is waiting.
InOrder ==
  /\ written \o con.recs \o pro.recs = [i \in 1 .. pushed |-> i]

\* The two buffers through every swap, wait and growth.
LooperSafe == TypeOK /\ InOrder

\* A record pushed before the worker ended is written, also when stop() was
\* called in between.
PushedIsWritten ==
  \A k \in 1 .. MaxRecs :
    pushed >= k /\ wpc # "exit" ~> Len(written) >= k

\* A thread that waits for room, with a record that fits the empty buffer, does
\* not sleep for ever (push() wakes only the worker, also when it has just made
\* room by growing the buffer, and stop() notifies without the mutex), and while
\* it waits records go on being pushed: its own, or one of a thread that was
\* quicker.  Which of the two is open: neither the mutex nor the condition
\* variable lets the threads in by turns, so a given thread may be overtaken
\* after every swap.
WaitersProceed ==
  \A t \in Threads :
    /\ ppc[t] = "blocked" /\ plen[t] <= Capacity ~> ppc[t] # "blocked"
    /\ \A k \in 0 .. MaxRecs - 1 :
         ppc[t] # "idle" /\ plen[t] <= Capacity /\ pushed = k
           ~> ppc[t] = "idle" \/ pushed > k
=============================================================================
