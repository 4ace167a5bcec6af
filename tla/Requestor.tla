----------------------------- MODULE Requestor -----------------------------
(***************************************************************************)
(* client/requestor.hpp: matching responses to requests by rid, with a     *)
(* timeout.  Three kinds of thread meet here.  Every caller runs send() in *)
(* its own thread; the event loop of the connection runs onResponse and    *)
(* the timer's onTimeout, one handler at a time; a synchronous caller that *)
(* gives up runs onTimeout itself, concurrently with the loop.             *)
(*                                                                         *)
(* A step is what one thread does between two points where another can     *)
(* interfere: a critical section of _mutex, a use of the promise outside   *)
(* it, a call into the loop.  A rid is a UUID, so a request is its rid and *)
(* is sent once.  The descriptor is shared-owned by the handlers that hold *)
(* it, so its fields outlive its entry in the table.                       *)
(***************************************************************************)
EXTENDS Naturals

CONSTANTS
  Reqs,    \* the requests of a behaviour
  Kinds    \* the variants of send() in use

ASSUME KindsAssumption == Kinds \subseteq {"sync", "async", "callback"}

VARIABLES
  status,     \* "up"; "aborted" once an exception left a handler of the loop
  kind,       \* the variant of send() used for a request, "none" before it
  cpc,        \* where the caller of a request is
  ret,        \* what send() returned
  table,      \* the rids in _request_desc
  triggered,  \* the rids whose descriptor has timeout_triggered
  promise,    \* the state of the descriptor's promise
  called,     \* the requests whose callback was invoked
  timer,      \* the muduo timer of a request
  wire,       \* requests on their way to, or at, the server
  replies,    \* responses on their way back
  lpc         \* where the loop's handler for a request is

vars == <<status, kind, cpc, ret, table, triggered, promise, called, timer,
          wire, replies, lpc>>

Init ==
  /\ status = "up"
  /\ kind = [r \in Reqs |-> "none"]
  /\ cpc = [r \in Reqs |-> "new"]
  /\ ret = [r \in Reqs |-> "none"]
  /\ table = {}
  /\ triggered = {}
  /\ promise = [r \in Reqs |-> "empty"]
  /\ called = {}
  /\ timer = [r \in Reqs |-> "off"]
  /\ wire = {}
  /\ replies = {}
  /\ lpc = [r \in Reqs |-> "idle"]

\* TimerQueue::cancel from another thread is queued to the loop.
QueueCancel(t) == IF t = "armed" THEN "cancelling" ELSE t

---------------------------------------------------------------------------
(* The caller's thread: the three variants of send().                      *)

\* newDesc; the callback variant arms no timer.
NewDesc(r, k) ==
  /\ status = "up"
  /\ cpc[r] = "new"
  /\ kind' = [kind EXCEPT ![r] = k]
  /\ table' = table \cup {r}
  /\ cpc' = [cpc EXCEPT ![r] = IF k = "callback" THEN "send" ELSE "arm"]
  /\ UNCHANGED <<status, ret, triggered, promise, called, timer, wire,
                 replies, lpc>>

\* runAfter(timeout, onTimeout) and the store of its TimerId.
RunAfter(r) ==
  /\ status = "up"
  /\ cpc[r] = "arm"
  /\ timer' = [timer EXCEPT ![r] = "armed"]
  /\ cpc' = [cpc EXCEPT ![r] = "send"]
  /\ UNCHANGED <<status, kind, ret, table, triggered, promise, called, wire,
                 replies, lpc>>

\* conn->send accepted the request: the synchronous variant waits, the others
\* return to the application.
SendOk(r) ==
  /\ status = "up"
  /\ cpc[r] = "send"
  /\ wire' = wire \cup {r}
  /\ cpc' = [cpc EXCEPT ![r] = IF kind[r] = "sync" THEN "wait" ELSE "done"]
  /\ ret' = [ret EXCEPT ![r] = IF kind[r] = "sync" THEN "none" ELSE "sent"]
  /\ UNCHANGED <<status, kind, table, triggered, promise, called, timer,
                 replies, lpc>>

\* conn->send failed: cancel the timer, if there is one ...
SendFails(r) ==
  /\ status = "up"
  /\ cpc[r] = "send"
  /\ timer' = [timer EXCEPT ![r] = QueueCancel(timer[r])]
  /\ cpc' = [cpc EXCEPT ![r] = "drop"]
  /\ UNCHANGED <<status, kind, ret, table, triggered, promise, called, wire,
                 replies, lpc>>

\* Deviation: the descriptor of a request that was not sent stays.
DropDescKeeps(r) ==
  /\ status = "up"
  /\ cpc[r] = "drop"
  /\ ret' = [ret EXCEPT ![r] = "senderror"]
  /\ cpc' = [cpc EXCEPT ![r] = "done"]
  /\ UNCHANGED <<status, kind, table, triggered, promise, called, timer, wire,
                 replies, lpc>>

\* ... and delete the descriptor.
DropDesc(r) ==
  /\ status = "up"
  /\ cpc[r] = "drop"
  /\ table' = table \ {r}
  /\ ret' = [ret EXCEPT ![r] = "senderror"]
  /\ cpc' = [cpc EXCEPT ![r] = "done"]
  /\ UNCHANGED <<status, kind, triggered, promise, called, timer, wire,
                 replies, lpc>>

\* Deviation: the result of wait_for is not looked at.
WaitReadyUnset(r) ==
  /\ status = "up"
  /\ cpc[r] = "wait"
  /\ ret' = [ret EXCEPT ![r] = promise[r]]
  /\ cpc' = [cpc EXCEPT ![r] = "done"]
  /\ UNCHANGED <<status, kind, table, triggered, promise, called, timer,
                 wire, replies, lpc>>

\* wait_for finds the future ready: return true with whatever it holds, the
\* response or the timeout message of the loop's timer.
WaitReady(r) ==
  /\ status = "up"
  /\ cpc[r] = "wait"
  /\ promise[r] # "empty"
  /\ ret' = [ret EXCEPT ![r] = promise[r]]
  /\ cpc' = [cpc EXCEPT ![r] = "done"]
  /\ UNCHANGED <<status, kind, table, triggered, promise, called, timer,
                 wire, replies, lpc>>

\* wait_for times out on an empty promise.
WaitTimesOut(r) ==
  /\ status = "up"
  /\ cpc[r] = "wait"
  /\ promise[r] = "empty"
  /\ cpc' = [cpc EXCEPT ![r] = "cancel"]
  /\ UNCHANGED <<status, kind, ret, table, triggered, promise, called, timer,
                 wire, replies, lpc>>

\* Look the descriptor up and cancel its timer, if it is still there.
CancelTimer(r) ==
  /\ status = "up"
  /\ cpc[r] = "cancel"
  /\ timer' = IF r \in table
              THEN [timer EXCEPT ![r] = QueueCancel(timer[r])] ELSE timer
  /\ cpc' = [cpc EXCEPT ![r] = "expire"]
  /\ UNCHANGED <<status, kind, ret, table, triggered, promise, called, wire,
                 replies, lpc>>

\* send() returns false with RpcError::TIMEOUT.
ReturnTimeout(r) ==
  /\ ret' = [ret EXCEPT ![r] = "TIMEOUT"]
  /\ cpc' = [cpc EXCEPT ![r] = "done"]

\* Deviation: the caller leaves without running onTimeout.
CallerExpireQuietly(r) ==
  /\ status = "up"
  /\ cpc[r] = "expire"
  /\ ReturnTimeout(r)
  /\ UNCHANGED <<status, kind, table, triggered, promise, called, timer,
                 wire, replies, lpc>>

\* onTimeout in the caller's thread: the lookup.
CallerExpire(r) ==
  /\ status = "up"
  /\ cpc[r] = "expire"
  /\ IF r \in table
     THEN cpc' = [cpc EXCEPT ![r] = "mark"] /\ ret' = ret
     ELSE ReturnTimeout(r)
  /\ UNCHANGED <<status, kind, table, triggered, promise, called, timer,
                 wire, replies, lpc>>

\* The critical section that sets timeout_triggered, once.
CallerMark(r) ==
  /\ status = "up"
  /\ cpc[r] = "mark"
  /\ triggered' = triggered \cup {r}
  /\ IF r \in triggered
     THEN ReturnTimeout(r)
     ELSE cpc' = [cpc EXCEPT ![r] = "settle"] /\ ret' = ret
  /\ UNCHANGED <<status, kind, table, promise, called, timer, wire, replies,
                 lpc>>

\* set_value(timeout_msg) within try / catch.
CallerSettle(r) ==
  /\ status = "up"
  /\ cpc[r] = "settle"
  /\ promise' = [promise EXCEPT ![r] = IF @ = "empty" THEN "expired" ELSE @]
  /\ cpc' = [cpc EXCEPT ![r] = "erase"]
  /\ UNCHANGED <<status, kind, ret, table, triggered, called, timer, wire,
                 replies, lpc>>

\* delDesc and the end of the synchronous send().
CallerErase(r) ==
  /\ status = "up"
  /\ cpc[r] = "erase"
  /\ table' = table \ {r}
  /\ ReturnTimeout(r)
  /\ UNCHANGED <<status, kind, triggered, promise, called, timer, wire,
                 replies, lpc>>

---------------------------------------------------------------------------
(* The loop's thread.  A handler starts when no other one is running.      *)

LoopFree == status = "up" /\ \A q \in Reqs : lpc[q] = "idle"

\* The loop runs a queued cancellation.
CancelRuns(r) ==
  /\ LoopFree
  /\ timer[r] = "cancelling"
  /\ timer' = [timer EXCEPT ![r] = "off"]
  /\ UNCHANGED <<status, kind, cpc, ret, table, triggered, promise, called,
                 wire, replies, lpc>>

\* A response arrives: onResponse looks its descriptor up, and drops the
\* response when there is none.
OnResponse(r) ==
  /\ LoopFree
  /\ r \in replies
  /\ replies' = replies \ {r}
  /\ lpc' = [lpc EXCEPT ![r] = IF r \in table THEN "check" ELSE "idle"]
  /\ UNCHANGED <<status, kind, cpc, ret, table, triggered, promise, called,
                 timer, wire>>

\* Deviation: timeout_triggered is not tested.
ResponseUnchecked(r) ==
  /\ status = "up"
  /\ lpc[r] = "check"
  /\ timer' = [timer EXCEPT ![r] = "off"]
  /\ lpc' = [lpc EXCEPT ![r] = "deliver"]
  /\ UNCHANGED <<status, kind, cpc, ret, table, triggered, promise, called,
                 wire, replies>>

\* The critical section of onResponse: a response behind its timeout is
\* discarded with the descriptor, otherwise the timer is cancelled.
ResponseCheck(r) ==
  /\ status = "up"
  /\ lpc[r] = "check"
  /\ IF r \in triggered
     THEN /\ table' = table \ {r}
          /\ lpc' = [lpc EXCEPT ![r] = "idle"]
          /\ timer' = timer
     ELSE /\ timer' = [timer EXCEPT ![r] = "off"]
          /\ lpc' = [lpc EXCEPT ![r] = "deliver"]
          /\ table' = table
  /\ UNCHANGED <<status, kind, cpc, ret, triggered, promise, called, wire,
                 replies>>

\* Outside the lock: set_value(msg), which throws on a satisfied promise and
\* is caught nowhere up to the loop's thread function, or the callback.
ResponseDeliver(r) ==
  /\ status = "up"
  /\ lpc[r] = "deliver"
  /\ \/ /\ kind[r] = "callback"
        /\ called' = called \cup {r}
        /\ UNCHANGED <<status, promise>>
     \/ /\ kind[r] # "callback" /\ promise[r] = "empty"
        /\ promise' = [promise EXCEPT ![r] = "reply"]
        /\ UNCHANGED <<status, called>>
     \/ /\ kind[r] # "callback" /\ promise[r] # "empty"
        /\ status' = "aborted"
        /\ UNCHANGED <<promise, called>>
  /\ lpc' = [lpc EXCEPT ![r] = "erase"]
  /\ UNCHANGED <<kind, cpc, ret, table, triggered, timer, wire, replies>>

\* Deviation: the descriptor stays behind a handled response or timeout.
LoopEraseKeeps(r) ==
  /\ status = "up"
  /\ lpc[r] = "erase"
  /\ lpc' = [lpc EXCEPT ![r] = "idle"]
  /\ UNCHANGED <<status, kind, cpc, ret, table, triggered, promise, called,
                 timer, wire, replies>>

\* delDesc, the last act of onResponse and of onTimeout.
LoopErase(r) ==
  /\ status = "up"
  /\ lpc[r] = "erase"
  /\ table' = table \ {r}
  /\ lpc' = [lpc EXCEPT ![r] = "idle"]
  /\ UNCHANGED <<status, kind, cpc, ret, triggered, promise, called, timer,
                 wire, replies>>

\* Deviation: the timeout fills the promise and leaves mark and descriptor alone.
OnTimeoutFillsOnly(r) ==
  /\ LoopFree
  /\ timer[r] # "off"
  /\ timer' = [timer EXCEPT ![r] = "off"]
  /\ promise' = [promise EXCEPT ![r] = IF @ = "empty" THEN "expired" ELSE @]
  /\ UNCHANGED <<status, kind, cpc, ret, table, triggered, called, wire,
                 replies, lpc>>

\* The timer fires, also between a queued cancellation and its run; onTimeout
\* looks the descriptor up.
OnTimeout(r) ==
  /\ LoopFree
  /\ timer[r] # "off"
  /\ timer' = [timer EXCEPT ![r] = "off"]
  /\ lpc' = [lpc EXCEPT ![r] = IF r \in table THEN "mark" ELSE "idle"]
  /\ UNCHANGED <<status, kind, cpc, ret, table, triggered, promise, called,
                 wire, replies>>

\* Deviation: the test for an earlier timeout is inverted.
TimerMarkInverted(r) ==
  /\ status = "up"
  /\ lpc[r] = "mark"
  /\ triggered' = triggered \cup {r}
  /\ lpc' = [lpc EXCEPT ![r] = IF r \in triggered THEN "settle" ELSE "idle"]
  /\ UNCHANGED <<status, kind, cpc, ret, table, promise, called, timer, wire,
                 replies>>

\* Deviation: timeout_triggered is not set.
TimerMarkSilent(r) ==
  /\ status = "up"
  /\ lpc[r] = "mark"
  /\ lpc' = [lpc EXCEPT ![r] = IF r \in triggered THEN "idle" ELSE "settle"]
  /\ UNCHANGED <<status, kind, cpc, ret, table, triggered, promise, called,
                 timer, wire, replies>>

TimerMark(r) ==
  /\ status = "up"
  /\ lpc[r] = "mark"
  /\ triggered' = triggered \cup {r}
  /\ lpc' = [lpc EXCEPT ![r] = IF r \in triggered THEN "idle" ELSE "settle"]
  /\ UNCHANGED <<status, kind, cpc, ret, table, promise, called, timer, wire,
                 replies>>

TimerSettle(r) ==
  /\ status = "up"
  /\ lpc[r] = "settle"
  /\ promise' = [promise EXCEPT ![r] = IF @ = "empty" THEN "expired" ELSE @]
  /\ lpc' = [lpc EXCEPT ![r] = "erase"]
  /\ UNCHANGED <<status, kind, cpc, ret, table, triggered, called, timer,
                 wire, replies>>

---------------------------------------------------------------------------
\* The server answers a request, at any time or never.
ServerReplies(r) ==
  /\ status = "up"
  /\ r \in wire
  /\ wire' = wire \ {r}
  /\ replies' = replies \cup {r}
  /\ UNCHANGED <<status, kind, cpc, ret, table, triggered, promise, called,
                 timer, lpc>>

CallerStep(r) ==
  \/ RunAfter(r) \/ SendOk(r) \/ SendFails(r) \/ DropDesc(r)
  \/ WaitReady(r) \/ WaitTimesOut(r) \/ CancelTimer(r)
  \/ CallerExpire(r) \/ CallerMark(r) \/ CallerSettle(r) \/ CallerErase(r)
LoopStep(r) ==
  \/ CancelRuns(r) \/ OnResponse(r) \/ ResponseCheck(r) \/ ResponseDeliver(r)
  \/ LoopErase(r) \/ OnTimeout(r) \/ TimerMark(r) \/ TimerSettle(r)

Next ==
  \E r \in Reqs :
    \/ \E k \in Kinds : NewDesc(r, k)
    \/ CallerStep(r) \/ LoopStep(r) \/ ServerReplies(r)

Spec == Init /\ [][Next]_vars

\* A caller's thread keeps running (wait_for ends by itself), and so does the
\* loop, which runs what is queued, arrived or due.  The server owes nothing.
Fairness ==
  /\ \A r \in Reqs : WF_vars(CallerStep(r))
  /\ \A r \in Reqs : WF_vars(LoopStep(r))

FairSpec == Spec /\ Fairness

---------------------------------------------------------------------------
\* Type correctness of the requestor's state.
TypeOK ==
  /\ status \in {"up", "aborted"}
  /\ kind \in [Reqs -> Kinds \cup {"none"}]
  /\ cpc \in [Reqs -> {"new", "arm", "send", "drop", "wait", "cancel",
                       "expire", "mark", "settle", "erase", "done"}]
  /\ ret \in [Reqs -> {"none", "sent", "senderror", "reply", "expired", "TIMEOUT"}]
  /\ table \subseteq Reqs
  /\ triggered \subseteq Reqs
  /\ promise \in [Reqs -> {"empty", "reply", "expired"}]
  /\ called \subseteq Reqs
  /\ timer \in [Reqs -> {"off", "armed", "cancelling"}]
  /\ wire \subseteq Reqs
  /\ replies \subseteq Reqs
  /\ lpc \in [Reqs -> {"idle", "check", "deliver", "erase", "mark", "settle"}]

\* The threads that are going to settle request r and delete its descriptor.
Attending(r) ==
  \/ timer[r] # "off"
  \/ lpc[r] # "idle"
  \/ cpc[r] \in {"arm", "send", "drop", "wait", "cancel", "expire", "mark",
                 "settle", "erase"}

\* No descriptor is orphaned and no future forgotten: while the entry of a
\* request with a timeout is in the table, or its promise is empty, a pending
\* timer, a handler of the loop or its caller is still going to deal with it,
\* whoever cancelled the timer and whichever thread marked the timeout first.
NoOrphan ==
  \A r \in Reqs :
    /\ kind[r] \in {"sync", "async"}
    /\ r \in table \/ (promise[r] = "empty" /\ ret[r] # "senderror")
    => Attending(r)

\* What a finished synchronous send() reports is what happened to its promise:
\* a response is returned only if one came, RpcError::TIMEOUT only after the
\* descriptor was marked or the loop had already settled and removed it.
HonestReturn ==
  \A r \in Reqs :
    /\ ret[r] = "reply" => promise[r] = "reply" /\ r \notin wire
    /\ ret[r] = "expired" => promise[r] = "expired" /\ r \in triggered
    /\ ret[r] = "TIMEOUT" => promise[r] # "empty" \/ r \in triggered

\* An exception leaves a handler of the loop in one way only: the response of a
\* synchronous request meets the timeout its own caller has set in between.
\* Asynchronous and callback requests never stop the loop.
OnlySyncThrows ==
  status = "aborted" =>
    \E r \in Reqs : kind[r] = "sync" /\ promise[r] = "expired" /\ r \in triggered

\* However response, timer and caller meet: somebody attends to every open
\* request, what a send returned is what happened, and only the synchronous race
\* throws in the loop.
RequestsSafe == TypeOK /\ NoOrphan /\ HonestReturn /\ OnlySyncThrows

\* A response that reaches the table's critical section behind the timeout is
\* discarded: once a timeout is marked with no response past the check, none
\* passes it any more and the result never becomes a response.
LateDiscarded ==
  [][\A r \in Reqs :
       r \in triggered /\ lpc[r] # "deliver" =>
         /\ r \in triggered' /\ lpc'[r] # "deliver"
         /\ promise'[r] = "reply" => promise[r] = "reply"
         /\ r \in called' => r \in called]_vars

\* Every synchronous send() returns, and the future of every asynchronous one
\* becomes ready, also when the server never answers.
TimedSettles ==
  \A r \in Reqs :
    /\ kind[r] = "sync" ~> cpc[r] = "done" \/ status = "aborted"
    /\ kind[r] = "async" ~>
         promise[r] # "empty" \/ ret[r] = "senderror" \/ status = "aborted"

\* Every descriptor with a timeout leaves the table.
TimedDrains ==
  \A r \in Reqs :
    kind[r] \in {"sync", "async"} ~> r \notin table \/ status = "aborted"

\* A request with a timeout comes to its end on both sides, whatever the server
\* does: its caller has a result and its descriptor is gone.
TimedEnds == TimedSettles /\ TimedDrains
=============================================================================
