---------------------------- MODULE RequestorInv ----------------------------
(***************************************************************************)
(* The inductive invariant of Requestor, request by request.               *)
(***************************************************************************)
EXTENDS Requestor

Timed(r) == kind[r] \in {"sync", "async"}

\* Request r is answered and its descriptor gone.
Settled(r) == r \notin table /\ promise[r] # "empty"

\* The order in which a request comes into being.
Began(r) ==
  /\ cpc[r] = "new" <=> kind[r] = "none"
  /\ cpc[r] \in {"new", "arm"} =>
       timer[r] = "off" /\ lpc[r] = "idle" /\ r \notin triggered
  /\ cpc[r] = "new" => promise[r] = "empty"
  /\ cpc[r] = "arm" => r \in table
  /\ cpc[r] \in {"new", "arm", "send"} =>
       /\ r \notin wire /\ r \notin replies
       /\ lpc[r] \notin {"check", "deliver"} /\ promise[r] # "reply"
  /\ cpc[r] \in {"wait", "cancel", "expire", "mark", "settle", "erase"} =>
       kind[r] = "sync"
  /\ cpc[r] = "new" => r \notin table
  /\ ret[r] # "none" => cpc[r] = "done"
  /\ ret[r] = "senderror" => r \notin table
  /\ timer[r] = "cancelling" =>
       cpc[r] \notin {"new", "arm", "send", "wait", "cancel"}

\* A request is in one place only on its way out and back.
OnePlace(r) ==
  /\ r \in wire => r \notin replies /\ lpc[r] \notin {"check", "deliver"}
  /\ r \in replies => lpc[r] \notin {"check", "deliver"}
  /\ promise[r] = "reply" => r \notin wire /\ r \notin replies

\* While the caller is not itself on the way to settling the request, the loop
\* is: by an armed timer or a running handler.
LoopCares(r) ==
  cpc[r] \in {"send", "wait", "cancel"} \/ (cpc[r] = "done" /\ ret[r] # "senderror")
    => timer[r] = "armed" \/ lpc[r] # "idle" \/ Settled(r)

\* Who marked the timeout is about to set the promise and delete the entry; an
\* entry is deleted behind the setting of its promise only.
Marked(r) ==
  /\ r \in triggered =>
       promise[r] # "empty" \/ cpc[r] = "settle" \/ lpc[r] = "settle"
  /\ r \in triggered /\ r \in table =>
       cpc[r] \in {"settle", "erase"} \/ lpc[r] \in {"settle", "erase"}
  /\ r \notin table =>
       promise[r] # "empty" \/ cpc[r] = "settle" \/ ret[r] = "senderror"
  /\ lpc[r] = "erase" => promise[r] # "empty"
  /\ cpc[r] = "erase" => promise[r] # "empty"
  /\ cpc[r] \in {"settle", "erase"} \/ lpc[r] = "settle" => r \in triggered

\* A timeout message is set behind the mark only.
Stamped(r) ==
  /\ promise[r] = "expired" => r \in triggered
  /\ cpc[r] = "settle" \/ lpc[r] = "settle" => r \in triggered

\* What send() returned.
Returned(r) ==
  /\ ret[r] = "reply" => promise[r] = "reply"
  /\ ret[r] = "expired" => promise[r] = "expired"
  /\ ret[r] = "TIMEOUT" => promise[r] # "empty" \/ r \in triggered

\* What holds of a single request.
Good(r) ==
  /\ Began(r)
  /\ OnePlace(r)
  /\ Timed(r) => LoopCares(r) /\ Marked(r)
  /\ Stamped(r)
  /\ Returned(r)

\* The conjunction that every step of the requestor preserves.
IInv == TypeOK /\ \A r \in Reqs : Good(r)

\* No handler of the loop is past its lookup once the promise is set, unless the
\* caller's own thread has set it.
LoopOnly ==
  \A r \in Reqs :
    promise[r] = "reply" \/ (kind[r] # "sync" /\ promise[r] # "empty")
      => lpc[r] = "erase" \/ (r \notin table /\ lpc[r] = "idle")
=============================================================================
