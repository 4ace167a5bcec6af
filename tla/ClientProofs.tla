---------------------------- MODULE ClientProofs ----------------------------
(***************************************************************************)
(* Machine-checked proofs about the client: Requestor, for every set of    *)
(* requests and every mix of the variants of send(), and RpcClient, for    *)
(* every number of threads and hosts and every list of hosts.              *)
(***************************************************************************)
EXTENDS RequestorInv, RpcClient,
        FiniteSetTheorems, FunctionTheorems, SequenceTheorems, TLAPS

---------------------------------------------------------------------------
(* Requestor.                                                              *)


\* Initially the requestor has the right types.
LEMMA TypeInit == Init => TypeOK
  BY DEF Init, TypeOK

\* Every step keeps the types.
LEMMA TypeStep == TypeOK /\ [Next]_vars => TypeOK'
  <1> SUFFICES ASSUME TypeOK, [Next]_vars PROVE TypeOK'
    OBVIOUS
  <1> USE DEF TypeOK
  <1>1. ASSUME NEW r \in Reqs, NEW k \in Kinds, NewDesc(r, k) PROVE TypeOK'
    BY <1>1 DEF NewDesc
  <1>2. ASSUME NEW r \in Reqs, RunAfter(r) PROVE TypeOK'
    BY <1>2 DEF RunAfter
  <1>3. ASSUME NEW r \in Reqs, SendOk(r) PROVE TypeOK'
    BY <1>3 DEF SendOk
  <1>4. ASSUME NEW r \in Reqs, SendFails(r) PROVE TypeOK'
    BY <1>4 DEF SendFails, QueueCancel
  <1>5. ASSUME NEW r \in Reqs, DropDesc(r) PROVE TypeOK'
    BY <1>5 DEF DropDesc
  <1>6. ASSUME NEW r \in Reqs, WaitReady(r) PROVE TypeOK'
    BY <1>6 DEF WaitReady
  <1>7. ASSUME NEW r \in Reqs, WaitTimesOut(r) PROVE TypeOK'
    BY <1>7 DEF WaitTimesOut
  <1>8. ASSUME NEW r \in Reqs, CancelTimer(r) PROVE TypeOK'
    BY <1>8 DEF CancelTimer, QueueCancel
  <1>9. ASSUME NEW r \in Reqs, CallerExpire(r) PROVE TypeOK'
    BY <1>9 DEF CallerExpire, ReturnTimeout
  <1>10. ASSUME NEW r \in Reqs, CallerMark(r) PROVE TypeOK'
    BY <1>10 DEF CallerMark, ReturnTimeout
  <1>11. ASSUME NEW r \in Reqs, CallerSettle(r) PROVE TypeOK'
    BY <1>11 DEF CallerSettle
  <1>12. ASSUME NEW r \in Reqs, CallerErase(r) PROVE TypeOK'
    BY <1>12 DEF CallerErase, ReturnTimeout
  <1>13. ASSUME NEW r \in Reqs, CancelRuns(r) PROVE TypeOK'
    BY <1>13 DEF CancelRuns, LoopFree
  <1>14. ASSUME NEW r \in Reqs, OnResponse(r) PROVE TypeOK'
    BY <1>14 DEF OnResponse, LoopFree
  <1>15. ASSUME NEW r \in Reqs, ResponseCheck(r) PROVE TypeOK'
    BY <1>15 DEF ResponseCheck
  <1>16. ASSUME NEW r \in Reqs, ResponseDeliver(r) PROVE TypeOK'
    BY <1>16 DEF ResponseDeliver
  <1>17. ASSUME NEW r \in Reqs, LoopErase(r) PROVE TypeOK'
    BY <1>17 DEF LoopErase
  <1>18. ASSUME NEW r \in Reqs, OnTimeout(r) PROVE TypeOK'
    BY <1>18 DEF OnTimeout, LoopFree
  <1>19. ASSUME NEW r \in Reqs, TimerMark(r) PROVE TypeOK'
    BY <1>19 DEF TimerMark
  <1>20. ASSUME NEW r \in Reqs, TimerSettle(r) PROVE TypeOK'
    BY <1>20 DEF TimerSettle
  <1>21. ASSUME NEW r \in Reqs, ServerReplies(r) PROVE TypeOK'
    BY <1>21 DEF ServerReplies
  <1>22. CASE UNCHANGED vars
    BY <1>22 DEF vars
  <1> QED
    BY <1>1, <1>2, <1>3, <1>4, <1>5, <1>6, <1>7, <1>8, <1>9, <1>10, <1>11,
       <1>12, <1>13, <1>14, <1>15, <1>16, <1>17, <1>18, <1>19, <1>20,
       <1>21, <1>22
    DEF Next, CallerStep, LoopStep

\* The state of the requestor always has its type.
THEOREM TypeCorrect == Spec => []TypeOK
  BY TypeInit, TypeStep, PTL DEF Spec

---------------------------------------------------------------------------
(* The inductive invariant.                                                *)

\* A step that leaves everything about a request alone keeps its invariant.
LEMMA GoodKept ==
  ASSUME NEW q \in Reqs, Good(q),
         kind'[q] = kind[q], cpc'[q] = cpc[q], ret'[q] = ret[q],
         promise'[q] = promise[q], timer'[q] = timer[q], lpc'[q] = lpc[q],
         q \in table' <=> q \in table, q \in triggered' <=> q \in triggered,
         q \in wire' <=> q \in wire, q \in replies' <=> q \in replies
  PROVE  Good(q)'
  BY DEF Good, Began, OnePlace, LoopCares, Marked, Stamped, Returned, Settled, Timed

\* A step for one request leaves the others alone.
LEMMA Elsewhere ==
  ASSUME TypeOK, NEW r \in Reqs, NEW q \in Reqs, q # r, Good(q),
         \/ \E k \in Kinds : NewDesc(r, k)
         \/ CallerStep(r) \/ LoopStep(r) \/ ServerReplies(r)
  PROVE  Good(q)'
  <1> USE DEF TypeOK
  <1>1. ASSUME NEW k \in Kinds, NewDesc(r, k) PROVE Good(q)'
    BY <1>1, GoodKept DEF NewDesc
  <1>2. CASE RunAfter(r)
    BY <1>2, GoodKept DEF RunAfter
  <1>3. CASE SendOk(r)
    BY <1>3, GoodKept DEF SendOk
  <1>4. CASE SendFails(r)
    BY <1>4, GoodKept DEF SendFails, QueueCancel
  <1>5. CASE DropDesc(r)
    BY <1>5, GoodKept DEF DropDesc
  <1>6. CASE WaitReady(r)
    BY <1>6, GoodKept DEF WaitReady
  <1>7. CASE WaitTimesOut(r)
    BY <1>7, GoodKept DEF WaitTimesOut
  <1>8. CASE CancelTimer(r)
    BY <1>8, GoodKept DEF CancelTimer, QueueCancel
  <1>9. CASE CallerExpire(r)
    BY <1>9, GoodKept DEF CallerExpire, ReturnTimeout
  <1>10. CASE CallerMark(r)
    BY <1>10, GoodKept DEF CallerMark, ReturnTimeout
  <1>11. CASE CallerSettle(r)
    BY <1>11, GoodKept DEF CallerSettle
  <1>12. CASE CallerErase(r)
    BY <1>12, GoodKept DEF CallerErase, ReturnTimeout
  <1>13. CASE CancelRuns(r)
    BY <1>13, GoodKept DEF CancelRuns, LoopFree
  <1>14. CASE OnResponse(r)
    BY <1>14, GoodKept DEF OnResponse, LoopFree
  <1>15. CASE ResponseCheck(r)
    BY <1>15, GoodKept DEF ResponseCheck
  <1>16. CASE ResponseDeliver(r)
    BY <1>16, GoodKept DEF ResponseDeliver
  <1>17. CASE LoopErase(r)
    BY <1>17, GoodKept DEF LoopErase
  <1>18. CASE OnTimeout(r)
    BY <1>18, GoodKept DEF OnTimeout, LoopFree
  <1>19. CASE TimerMark(r)
    BY <1>19, GoodKept DEF TimerMark
  <1>20. CASE TimerSettle(r)
    BY <1>20, GoodKept DEF TimerSettle
  <1>21. CASE ServerReplies(r)
    BY <1>21, GoodKept DEF ServerReplies
  <1> QED
    BY <1>1, <1>2, <1>3, <1>4, <1>5, <1>6, <1>7, <1>8, <1>9, <1>10, <1>11,
       <1>12, <1>13, <1>14, <1>15, <1>16, <1>17, <1>18, <1>19, <1>20, <1>21
    DEF CallerStep, LoopStep

\* A step for a request keeps its own invariant.
LEMMA Here ==
  ASSUME TypeOK, NEW r \in Reqs, Good(r),
         \/ \E k \in Kinds : NewDesc(r, k)
         \/ CallerStep(r) \/ LoopStep(r) \/ ServerReplies(r)
  PROVE  Good(r)'
  <1> USE KindsAssumption DEF TypeOK, Good, Began, OnePlace, LoopCares, Marked, Stamped, Returned, Settled, Timed
  <1>1. ASSUME NEW k \in Kinds, NewDesc(r, k) PROVE Good(r)'
    BY <1>1 DEF NewDesc
  <1>2. CASE RunAfter(r)
    BY <1>2 DEF RunAfter
  <1>3. CASE SendOk(r)
    BY <1>3 DEF SendOk
  <1>4. CASE SendFails(r)
    BY <1>4 DEF SendFails, QueueCancel
  <1>5. CASE DropDesc(r)
    BY <1>5 DEF DropDesc
  <1>6. CASE WaitReady(r)
    BY <1>6 DEF WaitReady
  <1>7. CASE WaitTimesOut(r)
    BY <1>7 DEF WaitTimesOut
  <1>8. CASE CancelTimer(r)
    BY <1>8 DEF CancelTimer, QueueCancel
  <1>9. CASE CallerExpire(r)
    BY <1>9 DEF CallerExpire, ReturnTimeout
  <1>10. CASE CallerMark(r)
    BY <1>10 DEF CallerMark, ReturnTimeout
  <1>11. CASE CallerSettle(r)
    BY <1>11 DEF CallerSettle
  <1>12. CASE CallerErase(r)
    BY <1>12 DEF CallerErase, ReturnTimeout
  <1>13. CASE CancelRuns(r)
    BY <1>13 DEF CancelRuns, LoopFree
  <1>14. CASE OnResponse(r)
    BY <1>14 DEF OnResponse, LoopFree
  <1>15. CASE ResponseCheck(r)
    BY <1>15 DEF ResponseCheck
  <1>16. CASE ResponseDeliver(r)
    BY <1>16 DEF ResponseDeliver
  <1>17. CASE LoopErase(r)
    BY <1>17 DEF LoopErase
  <1>18. CASE OnTimeout(r)
    BY <1>18 DEF OnTimeout, LoopFree
  <1>19. CASE TimerMark(r)
    BY <1>19 DEF TimerMark
  <1>20. CASE TimerSettle(r)
    BY <1>20 DEF TimerSettle
  <1>21. CASE ServerReplies(r)
    BY <1>21 DEF ServerReplies
  <1> QED
    BY <1>1, <1>2, <1>3, <1>4, <1>5, <1>6, <1>7, <1>8, <1>9, <1>10, <1>11,
       <1>12, <1>13, <1>14, <1>15, <1>16, <1>17, <1>18, <1>19, <1>20, <1>21
    DEF CallerStep, LoopStep

\* Initially no request has begun.
LEMMA InvInit == Init => IInv
  <1>1. ASSUME Init, NEW r \in Reqs PROVE Good(r)
    BY <1>1 DEF Init, Good, Began, OnePlace, LoopCares, Marked, Stamped, Returned, Settled, Timed
  <1> QED
    BY <1>1, TypeInit DEF IInv

\* Every step keeps the invariant.
LEMMA InvStep == IInv /\ [Next]_vars => IInv'
  <1> SUFFICES ASSUME IInv, [Next]_vars PROVE IInv'
    OBVIOUS
  <1>1. TypeOK'
    BY TypeStep DEF IInv
  <1>2. ASSUME NEW q \in Reqs PROVE Good(q)'
    <2>1. CASE UNCHANGED vars
      BY <2>1, GoodKept DEF vars, IInv
    <2>2. ASSUME NEW r \in Reqs,
                 \/ \E k \in Kinds : NewDesc(r, k)
                 \/ CallerStep(r) \/ LoopStep(r) \/ ServerReplies(r)
          PROVE  Good(q)'
      BY <2>2, Elsewhere, Here DEF IInv
    <2> QED
      BY <2>1, <2>2 DEF Next
  <1> QED
    BY <1>1, <1>2 DEF IInv

\* The inductive invariant holds in every reachable state.
THEOREM Invariance == Spec => []IInv
  BY InvInit, InvStep, PTL DEF Spec

---------------------------------------------------------------------------
(* The theorems.                                                           *)

\* A descriptor with a timeout is never orphaned and its future never
\* forgotten.
THEOREM Attendance == Spec => []NoOrphan
  <1>1. IInv => NoOrphan
    <2> SUFFICES ASSUME IInv, NEW r \in Reqs, kind[r] \in {"sync", "async"},
                        r \in table \/ (promise[r] = "empty" /\ ret[r] # "senderror")
                 PROVE  Attending(r)
      BY DEF NoOrphan
    <2>1. Began(r) /\ LoopCares(r) /\ Marked(r)
      BY DEF IInv, Good, Timed
    <2>2. CASE cpc[r] = "done"
      BY <2>1, <2>2 DEF Began, LoopCares, Settled, Attending
    <2>3. CASE cpc[r] # "done"
      BY <2>1, <2>3 DEF Began, Attending, IInv, TypeOK
    <2> QED
      BY <2>2, <2>3
  <1> QED
    BY <1>1, Invariance, PTL

\* What send() reports agrees with what happened to the request.
THEOREM Honesty == Spec => []HonestReturn
  <1>1. IInv => HonestReturn
    <2> SUFFICES ASSUME IInv, NEW r \in Reqs
                 PROVE  /\ ret[r] = "reply" => promise[r] = "reply" /\ r \notin wire
                        /\ ret[r] = "expired" =>
                             promise[r] = "expired" /\ r \in triggered
                        /\ ret[r] = "TIMEOUT" =>
                             promise[r] # "empty" \/ r \in triggered
      BY DEF HonestReturn
    <2>1. OnePlace(r) /\ Returned(r) /\ Stamped(r)
      BY DEF IInv, Good
    <2> QED
      BY <2>1 DEF OnePlace, Returned, Stamped
  <1> QED
    BY <1>1, Invariance, PTL

\* A response that comes behind the timeout mark is discarded.
THEOREM Discard == Spec => LateDiscarded
  <1> DEFINE Kept(r) == /\ r \in triggered' /\ lpc'[r] # "deliver"
                        /\ promise'[r] = "reply" => promise[r] = "reply"
                        /\ r \in called' => r \in called
  <1>1. ASSUME IInv, [Next]_vars, NEW r \in Reqs, r \in triggered,
               lpc[r] # "deliver"
        PROVE  Kept(r)
    <2>0. TypeOK
      BY <1>1 DEF IInv
    <2>1. CASE UNCHANGED vars
      BY <1>1, <2>1 DEF vars
    <2>2. ASSUME NEW q \in Reqs,
                 \/ \E k \in Kinds : NewDesc(q, k)
                 \/ CallerStep(q) \/ ServerReplies(q)
          PROVE  Kept(r)
      <3>1. lpc' = lpc /\ called' = called
        BY <2>2 DEF CallerStep, NewDesc, ServerReplies, RunAfter, SendOk,
           SendFails, DropDesc, WaitReady, WaitTimesOut, CancelTimer,
           CallerExpire, CallerMark, CallerSettle, CallerErase
      <3>2. triggered \subseteq triggered'
        BY <2>2 DEF CallerStep, NewDesc, ServerReplies, RunAfter, SendOk,
           SendFails, DropDesc, WaitReady, WaitTimesOut, CancelTimer,
           CallerExpire, CallerMark, CallerSettle, CallerErase
      <3>3. promise' = promise \/ CallerSettle(q)
        BY <2>2 DEF CallerStep, NewDesc, ServerReplies, RunAfter, SendOk,
           SendFails, DropDesc, WaitReady, WaitTimesOut, CancelTimer,
           CallerExpire, CallerMark, CallerErase
      <3>4. promise'[r] = "reply" => promise[r] = "reply"
        BY <2>0, <3>3 DEF CallerSettle, TypeOK
      <3> QED
        BY <1>1, <3>1, <3>2, <3>4
    <2>3. ASSUME NEW q \in Reqs, LoopStep(q) PROVE Kept(r)
      <3>1. CASE CancelRuns(q) \/ OnResponse(q) \/ LoopErase(q) \/ OnTimeout(q)
        BY <1>1, <2>0, <3>1
        DEF CancelRuns, OnResponse, LoopErase, OnTimeout, TypeOK
      <3>2. CASE ResponseCheck(q)
        BY <1>1, <2>0, <3>2 DEF ResponseCheck, TypeOK
      <3>3. CASE ResponseDeliver(q)
        BY <1>1, <2>0, <3>3 DEF ResponseDeliver, TypeOK
      <3>4. CASE TimerMark(q) \/ TimerSettle(q)
        BY <1>1, <2>0, <3>4 DEF TimerMark, TimerSettle, TypeOK
      <3> QED
        BY <2>3, <3>1, <3>2, <3>3, <3>4 DEF LoopStep
    <2> QED
      BY <1>1, <2>1, <2>2, <2>3 DEF Next
  <1>2. IInv /\ [Next]_vars =>
          [\A r \in Reqs : r \in triggered /\ lpc[r] # "deliver" => Kept(r)]_vars
    BY <1>1
  <1> QED
    BY <1>2, Invariance, PTL DEF Spec, LateDiscarded

\* Every step keeps LoopOnly, and throws for a synchronous request only.
LEMMA LoopOnlyStep ==
  ASSUME IInv, LoopOnly, OnlySyncThrows, [Next]_vars
  PROVE  LoopOnly' /\ OnlySyncThrows'
  <1>0. /\ TypeOK
        /\ \A r \in Reqs :
             /\ cpc[r] = "new" => promise[r] = "empty"
             /\ cpc[r] \in {"wait", "cancel", "expire", "mark", "settle", "erase"}
                  => kind[r] = "sync"
             /\ promise[r] = "expired" => r \in triggered
    BY DEF IInv, Good, Began, Stamped
  <1> USE <1>0 DEF TypeOK, LoopOnly, OnlySyncThrows
  <1>1. ASSUME NEW r \in Reqs, NEW k \in Kinds, NewDesc(r, k)
        PROVE  LoopOnly' /\ OnlySyncThrows'
    BY <1>1 DEF NewDesc
  <1>2. ASSUME NEW r \in Reqs, RunAfter(r)
        PROVE  LoopOnly' /\ OnlySyncThrows'
    BY <1>2 DEF RunAfter
  <1>3. ASSUME NEW r \in Reqs, SendOk(r)
        PROVE  LoopOnly' /\ OnlySyncThrows'
    BY <1>3 DEF SendOk
  <1>4. ASSUME NEW r \in Reqs, SendFails(r)
        PROVE  LoopOnly' /\ OnlySyncThrows'
    BY <1>4 DEF SendFails, QueueCancel
  <1>5. ASSUME NEW r \in Reqs, DropDesc(r)
        PROVE  LoopOnly' /\ OnlySyncThrows'
    BY <1>5 DEF DropDesc
  <1>6. ASSUME NEW r \in Reqs, WaitReady(r)
        PROVE  LoopOnly' /\ OnlySyncThrows'
    BY <1>6 DEF WaitReady
  <1>7. ASSUME NEW r \in Reqs, WaitTimesOut(r)
        PROVE  LoopOnly' /\ OnlySyncThrows'
    BY <1>7 DEF WaitTimesOut
  <1>8. ASSUME NEW r \in Reqs, CancelTimer(r)
        PROVE  LoopOnly' /\ OnlySyncThrows'
    BY <1>8 DEF CancelTimer, QueueCancel
  <1>9. ASSUME NEW r \in Reqs, CallerExpire(r)
        PROVE  LoopOnly' /\ OnlySyncThrows'
    BY <1>9 DEF CallerExpire, ReturnTimeout
  <1>10. ASSUME NEW r \in Reqs, CallerMark(r)
        PROVE  LoopOnly' /\ OnlySyncThrows'
    BY <1>10 DEF CallerMark, ReturnTimeout
  <1>11. ASSUME NEW r \in Reqs, CallerSettle(r)
        PROVE  LoopOnly' /\ OnlySyncThrows'
    BY <1>11 DEF CallerSettle
  <1>12. ASSUME NEW r \in Reqs, CallerErase(r)
        PROVE  LoopOnly' /\ OnlySyncThrows'
    BY <1>12 DEF CallerErase, ReturnTimeout
  <1>13. ASSUME NEW r \in Reqs, CancelRuns(r)
        PROVE  LoopOnly' /\ OnlySyncThrows'
    BY <1>13 DEF CancelRuns, LoopFree
  <1>14. ASSUME NEW r \in Reqs, OnResponse(r)
        PROVE  LoopOnly' /\ OnlySyncThrows'
    BY <1>14 DEF OnResponse, LoopFree
  <1>15. ASSUME NEW r \in Reqs, ResponseCheck(r)
        PROVE  LoopOnly' /\ OnlySyncThrows'
    BY <1>15 DEF ResponseCheck
  <1>16. ASSUME NEW r \in Reqs, ResponseDeliver(r)
        PROVE  LoopOnly' /\ OnlySyncThrows'
    BY <1>16 DEF ResponseDeliver
  <1>17. ASSUME NEW r \in Reqs, LoopErase(r)
        PROVE  LoopOnly' /\ OnlySyncThrows'
    BY <1>17 DEF LoopErase
  <1>18. ASSUME NEW r \in Reqs, OnTimeout(r)
        PROVE  LoopOnly' /\ OnlySyncThrows'
    BY <1>18 DEF OnTimeout, LoopFree
  <1>19. ASSUME NEW r \in Reqs, TimerMark(r)
        PROVE  LoopOnly' /\ OnlySyncThrows'
    BY <1>19 DEF TimerMark
  <1>20. ASSUME NEW r \in Reqs, TimerSettle(r)
        PROVE  LoopOnly' /\ OnlySyncThrows'
    BY <1>20 DEF TimerSettle
  <1>21. ASSUME NEW r \in Reqs, ServerReplies(r)
        PROVE  LoopOnly' /\ OnlySyncThrows'
    BY <1>21 DEF ServerReplies
  <1>22. CASE UNCHANGED vars
    BY <1>22 DEF vars
  <1> QED
    BY <1>1, <1>2, <1>3, <1>4, <1>5, <1>6, <1>7, <1>8, <1>9, <1>10, <1>11,
       <1>12, <1>13, <1>14, <1>15, <1>16, <1>17, <1>18, <1>19, <1>20,
       <1>21, <1>22
    DEF Next, CallerStep, LoopStep

\* Only a synchronous request can make a handler of the loop throw: the race
\* needs the onTimeout that a caller runs in its own thread.
THEOREM SyncOnly == Spec => []OnlySyncThrows
  <1>1. Init => LoopOnly /\ OnlySyncThrows
    BY DEF Init, LoopOnly, OnlySyncThrows
  <1>2. IInv /\ LoopOnly /\ OnlySyncThrows /\ [Next]_vars => LoopOnly' /\ OnlySyncThrows'
    BY LoopOnlyStep
  <1> QED
    BY <1>1, <1>2, Invariance, PTL DEF Spec

\* The safety of the requestor (send, onResponse and onTimeout in every order),
\* as the run checks it: all of the above at once.
THEOREM Safety == Spec => []RequestsSafe
  <1>1. TypeOK /\ NoOrphan /\ HonestReturn /\ OnlySyncThrows => RequestsSafe
    BY DEF RequestsSafe
  <1> QED
    BY <1>1, TypeCorrect, Attendance, Honesty, SyncOnly, PTL

---------------------------------------------------------------------------
(* RpcClient: the inductive invariant, call by call.                       *)

Places == {"pick", "connect", "conn", "send", "resend", "wait"}

Jobs ==
  [pc : Places, kind : {"sync", "future", "callback", "proto"}, cands : Seq(Hosts),
   tried : SUBSET Hosts, attempt : Nat, host : Hosts, client : Nat]

\* How many hosts a call has tried since it began with the first one again.
Seen(j) ==
  IF j.pc # "pick" THEN (j.attempt % Len(j.cands)) + 1
  ELSE IF j.attempt = 0 THEN 0 ELSE ((j.attempt - 1) % Len(j.cands)) + 1

\* A call has several candidates, each once, and has tried as many as it made
\* attempts.
Tries(j) ==
  /\ j.cands # <<>> /\ IsInjective(j.cands)
  /\ j.attempt <= IF j.kind = "callback" THEN Len(j.cands) - 1 ELSE MaxRetries
  /\ j.tried \subseteq Range(j.cands)
  /\ j.kind # "callback" => Cardinality(j.tried) = Seen(j)

\* Its client was made and is the pool's, or was taken out of the pool.
Pooled(j) ==
  /\ j.client <= clients
  /\ j.client # 0 /\ j.pc # "pick" => j.client = pool[j.host] \/ j.client \in erased

\* The list of hosts has every host once.
HostList ==
  /\ host \in Seq([host : Hosts, load : Loads \cup {0}])
  /\ \A i, k \in DOMAIN host : host[i].host = host[k].host => i = k

ClientInv ==
  /\ HostList
  /\ pool \in [Hosts -> 0 .. clients]
  /\ clients \in 0 .. MaxClients
  /\ up \subseteq 1 .. clients /\ erased \subseteq 1 .. clients
  /\ out \in [Hosts -> Nat] /\ owed \in [Hosts -> Nat]
  /\ job \in [Callers -> Jobs \cup {NoJob}]
  /\ \A t \in Callers : job[t] # NoJob => Tries(job[t]) /\ Pooled(job[t])
  /\ Ledger

LEMMA Config ==
  /\ MaxRetries \in Nat /\ MaxClients \in Nat /\ IsFiniteSet(Callers) /\ IsFiniteSet(Listed)
  /\ Listed \subseteq Hosts
  /\ \A t \in Callers : CallKinds[t] \subseteq {"sync", "future", "callback", "proto"}
  BY RpcClientAssumption

LEMMA NoJobIs == NoJob \notin Jobs /\ \A j \in Jobs : j # NoJob /\ j.pc # NoJob.pc
  BY DEF NoJob, Jobs, Places

---------------------------------------------------------------------------
(* Sequences.                                                              *)

\* A finite set's sequence has each of its elements once.
LEMMA SetToSeqIs ==
  ASSUME NEW S, IsFiniteSet(S)
  PROVE  /\ SetToSeq(S) \in Seq(S)
         /\ \A i, k \in 1 .. Len(SetToSeq(S)) : SetToSeq(S)[i] = SetToSeq(S)[k] => i = k
  <1> DEFINE n == Cardinality(S)
             f == SetToSeq(S)
  <1>1. n \in Nat /\ ExistsBijection(1 .. n, S)
    BY FS_CardinalityType
  <1>2. \E g \in [1 .. n -> S] : IsInjective(g)
    BY <1>1 DEF ExistsBijection, Bijection, Injection
  <1>3. f \in [1 .. n -> S] /\ IsInjective(f)
    BY <1>2 DEF SetToSeq
  <1> HIDE DEF f, n
  <1>4. f \in Seq(S) /\ Len(f) = n
    BY <1>1, <1>3
  <1>5. \A i, k \in 1 .. Len(f) : f[i] = f[k] => i = k
    BY <1>3, <1>4 DEF IsInjective
  <1> QED
    BY <1>4, <1>5 DEF f

\* A sequence without its i-th element: the later ones move up.
LEMMA RemovedIs ==
  ASSUME NEW S, NEW s \in Seq(S), NEW i \in 1 .. Len(s)
  PROVE  /\ RemoveAt(s, i) \in Seq(S) /\ Len(RemoveAt(s, i)) = Len(s) - 1
         /\ \A k \in 1 .. Len(s) - 1 : RemoveAt(s, i)[k] = s[IF k < i THEN k ELSE k + 1]
  <1> DEFINE a == SubSeq(s, 1, i - 1)
             b == SubSeq(s, i + 1, Len(s))
  <1>0. Len(s) \in Nat /\ i \in Nat /\ i >= 1 /\ i <= Len(s)
    OBVIOUS
  <1>1. a \in Seq(S) /\ Len(a) = i - 1 /\ \A k \in 1 .. i - 1 : a[k] = s[k]
    BY <1>0
  <1>2. b \in Seq(S) /\ Len(b) = Len(s) - i /\ \A k \in 1 .. Len(s) - i : b[k] = s[i + k]
    BY <1>0
  <1>3. RemoveAt(s, i) = a \o b
    BY DEF RemoveAt
  <1> HIDE DEF a, b
  <1>4. /\ a \o b \in Seq(S) /\ Len(a \o b) = Len(s) - 1
        /\ \A k \in 1 .. Len(s) - 1 : (a \o b)[k] = IF k <= i - 1 THEN a[k] ELSE b[k - (i - 1)]
    <2>1. /\ a \o b \in Seq(S) /\ Len(a \o b) = Len(a) + Len(b)
          /\ \A k \in 1 .. Len(a) + Len(b) : (a \o b)[k] = IF k <= Len(a) THEN a[k] ELSE b[k - Len(a)]
      BY <1>1, <1>2, ConcatProperties
    <2> QED
      BY <1>0, <1>1, <1>2, <2>1
  <1>5. ASSUME NEW k \in 1 .. Len(s) - 1
        PROVE  (a \o b)[k] = s[IF k < i THEN k ELSE k + 1]
    <2>1. CASE k <= i - 1
      BY <1>0, <1>1, <1>4, <2>1
    <2>2. CASE ~(k <= i - 1)
      <3>1. k - (i - 1) \in 1 .. Len(s) - i /\ i + (k - (i - 1)) = k + 1 /\ ~(k < i)
        BY <1>0, <2>2
      <3>2. (a \o b)[k] = b[k - (i - 1)]
        BY <1>4, <2>2
      <3> QED
        BY <1>2, <3>1, <3>2
    <2> QED
      BY <2>1, <2>2
  <1> QED
    BY <1>3, <1>4, <1>5

\* A rotated sequence has the same elements, each as often.
LEMMA RotatedIs ==
  ASSUME NEW S, NEW s \in Seq(S), s # <<>>, NEW a \in Nat
  PROVE  /\ Rotated(s, a) \in Seq(S) /\ Len(Rotated(s, a)) = Len(s)
         /\ \A i \in 1 .. Len(s) :
              /\ ((a + i - 1) % Len(s)) + 1 \in 1 .. Len(s)
              /\ Rotated(s, a)[i] = s[((a + i - 1) % Len(s)) + 1]
         /\ \A i, k \in 1 .. Len(s) :
              ((a + i - 1) % Len(s)) + 1 = ((a + k - 1) % Len(s)) + 1 => i = k
  <1>0. Len(s) \in Nat /\ Len(s) >= 1
    OBVIOUS
  <1>1. \A i \in 1 .. Len(s) : ((a + i - 1) % Len(s)) + 1 \in 1 .. Len(s)
    BY <1>0
  <1>2. \A i, k \in 1 .. Len(s) : (a + i - 1) % Len(s) = (a + k - 1) % Len(s) => i = k
    <2> SUFFICES ASSUME NEW i \in 1 .. Len(s), NEW k \in 1 .. Len(s),
                        (a + i - 1) % Len(s) = (a + k - 1) % Len(s)
                 PROVE  i = k
      OBVIOUS
    <2> DEFINE n == Len(s)
               x == a + i - 1
               y == a + k - 1
    <2>1. n \in Nat /\ n >= 1 /\ x \in Nat /\ y \in Nat /\ x % n = y % n
      BY <1>0
    <2>2. x - y < n /\ y - x < n
      BY <1>0
    <2> HIDE DEF n, x, y
    <2>3. x = n * (x \div n) + (x % n) /\ y = n * (y \div n) + (y % n)
      BY <2>1
    <2>4. x \div n \in Int /\ y \div n \in Int
      BY <2>1
    <2> DEFINE p == x \div n
               q == y \div n
    <2>5. x - y = n * (p - q)
      <3>1. x = n * p + (x % n) /\ y = n * q + (x % n)
        BY <2>1, <2>3
      <3> DEFINE r == x % n
      <3>2. r \in Int /\ p \in Int /\ q \in Int /\ n \in Int
        BY <2>1, <2>4
      <3>3. x = n * p + r /\ y = n * q + r
        BY <3>1
      <3> HIDE DEF p, q, r
      <3>4. n * (p - q) = n * p - n * q /\ n * p \in Int /\ n * q \in Int
        BY <3>2
      <3> QED
        BY <3>2, <3>3, <3>4
    <2> HIDE DEF p, q
    <2>6. p \in Int /\ q \in Int
      BY <2>4 DEF p, q
    <2>7. p = q
      <3>1. CASE p > q
        <4>1. p - q >= 1
          BY <2>6, <3>1
        <4>2. n * (p - q) >= n
          BY <2>1, <2>6, <4>1
        <4> QED
          BY <2>1, <2>2, <2>5, <4>2
      <3>2. CASE p < q
        <4>1. q - p >= 1
          BY <2>6, <3>2
        <4>2. n * (q - p) >= n
          BY <2>1, <2>6, <4>1
        <4>3. y - x = n * (q - p)
          BY <2>1, <2>5, <2>6
        <4> QED
          BY <2>1, <2>2, <4>2, <4>3
      <3> QED
        BY <2>6, <3>1, <3>2
    <2>8. x = y
      BY <2>1, <2>5, <2>6, <2>7
    <2> QED
      BY <2>8 DEF x, y
  <1>3. Rotated(s, a) \in Seq(S) /\ Len(Rotated(s, a)) = Len(s)
         /\ \A i \in 1 .. Len(s) : Rotated(s, a)[i] = s[((a + i - 1) % Len(s)) + 1]
    <2>1. DOMAIN s = 1 .. Len(s) /\ \A i \in 1 .. Len(s) : s[i] \in S
      OBVIOUS
    <2>2. Rotated(s, a) = [i \in 1 .. Len(s) |-> s[((a + i - 1) % Len(s)) + 1]]
      BY <2>1 DEF Rotated
    <2>3. Rotated(s, a) \in [1 .. Len(s) -> S]
      BY <1>1, <2>1, <2>2
    <2>4. Rotated(s, a) \in Seq(S) /\ Len(Rotated(s, a)) = Len(s)
      BY <1>0, <2>3
    <2> QED
      BY <2>2, <2>4
  <1> QED
    BY <1>0, <1>1, <1>2, <1>3

---------------------------------------------------------------------------
(* Numbers.                                                                *)

\* A remainder is the only one of its range.
LEMMA ModIs ==
  ASSUME NEW n \in Nat \ {0}, NEW q \in Int, NEW r \in 0 .. n - 1, NEW x \in Int, x = n * q + r
  PROVE  x % n = r
  <1>1. x = n * (x \div n) + (x % n) /\ x \div n \in Int /\ x % n \in 0 .. n - 1
    OBVIOUS
  <1> DEFINE p == x \div n
             m == x % n
  <1>2. p \in Int /\ m \in 0 .. n - 1 /\ x = n * p + m
    BY <1>1
  <1> HIDE DEF p, m
  <1>3. n * (p - q) = r - m
    BY <1>2
  <1>4. ~(p - q >= 1)
    <2> SUFFICES ASSUME p - q >= 1 PROVE FALSE
      OBVIOUS
    <2>1. n * (p - q) >= n
      BY <1>2
    <2> QED
      BY <1>2, <1>3, <2>1
  <1>5. ~(q - p >= 1)
    <2> SUFFICES ASSUME q - p >= 1 PROVE FALSE
      OBVIOUS
    <2>1. n * (q - p) >= n
      BY <1>2
    <2>2. n * (q - p) = m - r
      BY <1>2, <1>3
    <2> QED
      BY <1>2, <2>1, <2>2
  <1>6. p = q
    BY <1>2, <1>4, <1>5
  <1>7. m = r
    BY <1>2, <1>3, <1>6
  <1> QED
    BY <1>7 DEF m

\* Counting on by one in the rotation: to the next host, or round to the first.
LEMMA ModNext ==
  ASSUME NEW n \in Nat \ {0}, NEW a \in Nat, a >= 1
  PROVE  /\ (a - 1) % n \in 0 .. n - 1
         /\ ((a - 1) % n) + 1 < n => a % n = ((a - 1) % n) + 1
         /\ ((a - 1) % n) + 1 = n => a % n = 0
  <1> DEFINE q == (a - 1) \div n
             r == (a - 1) % n
  <1>1. q \in Int /\ r \in 0 .. n - 1 /\ a - 1 = n * q + r
    OBVIOUS
  <1> HIDE DEF q, r
  <1>2. r + 1 < n => a % n = r + 1
    <2> SUFFICES ASSUME r + 1 < n PROVE a % n = r + 1
      OBVIOUS
    <2>1. r + 1 \in 0 .. n - 1 /\ a = n * q + (r + 1)
      BY <1>1
    <2> QED
      BY <1>1, <2>1, ModIs
  <1>3. r + 1 = n => a % n = 0
    <2> SUFFICES ASSUME r + 1 = n PROVE a % n = 0
      OBVIOUS
    <2>1. PICK p : p = q + 1
      OBVIOUS
    <2>2. 0 \in 0 .. n - 1 /\ p \in Int /\ a = n * p + 0
      <3>1. n * (q + 1) = n * q + n /\ n * q \in Int
        BY <1>1
      <3>2. a = n * q + n
        BY <1>1, <3>1
      <3> QED
        BY <1>1, <2>1, <3>1, <3>2
    <2> QED
      BY <2>2, ModIs
  <1> QED
    BY <1>1, <1>2, <1>3 DEF r

\* The least element of a set of numbers belongs to it.
LEMMA MinIs ==
  ASSUME NEW S \in SUBSET Nat, S # {}
  PROVE  Min(S) \in S /\ \A y \in S : Min(S) <= y
  <1>1. PICK x \in S : \A y \in S : ~(<<y, x>> \in OpToRel(<, Nat))
    BY WFMin, NatLessThanWellFounded
  <1>2. \A y \in S : ~(y < x)
    <2> SUFFICES ASSUME NEW y \in S, y < x PROVE FALSE
      OBVIOUS
    <2>1. <<y, x>> \in OpToRel(<, Nat)
      BY DEF OpToRel
    <2> QED
      BY <1>1, <2>1
  <1>3. \A y \in S : x <= y
    BY <1>2
  <1> QED
    BY <1>3 DEF Min

---------------------------------------------------------------------------
(* The candidates of a call.                                               *)

\* A list without repetitions has as many members as positions.
LEMMA RangeCard ==
  ASSUME NEW S, NEW s \in Seq(S), IsInjective(s)
  PROVE  IsFiniteSet(Range(s)) /\ Cardinality(Range(s)) = Len(s)
  <1>1. s \in [1 .. Len(s) -> Range(s)]
    BY DEF Range
  <1>2. s \in Bijection(1 .. Len(s), Range(s))
    BY <1>1 DEF IsInjective, Range, Bijection, Injection, Surjection
  <1>3. IsFiniteSet(1 .. Len(s)) /\ Cardinality(1 .. Len(s)) = Len(s)
    <2>1. Len(s) \in Int /\ 1 \in Int /\ (IF 1 > Len(s) THEN 0 ELSE Len(s) - 1 + 1) = Len(s)
      OBVIOUS
    <2> QED
      BY <2>1, FS_Interval
  <1> QED
    BY <1>2, <1>3, FS_Bijection DEF ExistsBijection

\* The host a call takes next is a candidate, and the count of the hosts tried
\* goes on.
LEMMA PickedIs ==
  ASSUME NEW j \in Jobs, Tries(j), j.pc = "pick", j.kind # "callback"
  PROVE  \E h \in Hosts, T \in SUBSET Hosts :
           /\ PickUntriedCandidate(j) = [j EXCEPT !.host = h, !.tried = T]
           /\ h \in Range(j.cands) /\ T \subseteq Range(j.cands)
           /\ Cardinality(T) = (j.attempt % Len(j.cands)) + 1
  <1> DEFINE n == Len(j.cands)
             untried == {i \in DOMAIN j.cands : j.cands[i] \notin j.tried}
             h == j.cands[IF untried = {} THEN 1 ELSE Min(untried)]
             T == IF untried = {} THEN {h} ELSE j.tried \cup {h}
             all == Range(j.cands)
  <1>0. /\ j.cands \in Seq(Hosts) /\ j.cands # <<>> /\ IsInjective(j.cands)
        /\ j.tried \subseteq all /\ Cardinality(j.tried) = Seen(j) /\ j.attempt \in Nat
    BY DEF Jobs, Tries
  <1>1. n \in Nat \ {0} /\ DOMAIN j.cands = 1 .. n
    BY <1>0
  <1>2. IsFiniteSet(all) /\ Cardinality(all) = n
    BY <1>0, RangeCard
  <1>3. IsFiniteSet(j.tried) /\ Cardinality(j.tried) <= n /\ Cardinality(j.tried) \in Nat
    BY <1>0, <1>2, FS_Subset, FS_CardinalityType
  <1>4. PickUntriedCandidate(j) = [j EXCEPT !.host = h, !.tried = T]
    BY DEF PickUntriedCandidate
  <1>5. untried # {} => Min(untried) \in untried
    <2>1. untried \in SUBSET Nat
      BY <1>1
    <2> HIDE DEF untried
    <2> QED
      BY <2>1, MinIs
  <1>6. h \in all /\ h \in Hosts
    <2>1. (IF untried = {} THEN 1 ELSE Min(untried)) \in DOMAIN j.cands
      BY <1>1, <1>5
    <2> HIDE DEF untried
    <2> QED
      BY <1>0, <2>1 DEF Range
  <1>7. T \subseteq all /\ T \in SUBSET Hosts
    <2>1. all \subseteq Hosts
      BY <1>0, <1>1 DEF Range
    <2> QED
      BY <1>0, <1>6, <2>1
  <1>8. Seen(j) = IF j.attempt = 0 THEN 0 ELSE ((j.attempt - 1) % n) + 1
    BY DEF Seen
  <1>9. Cardinality(T) = (j.attempt % n) + 1
    <2>1. CASE untried = {}
      <3>1. j.tried = all
        BY <1>0, <2>1 DEF Range
      <3>2. j.attempt # 0 /\ ((j.attempt - 1) % n) + 1 = n
        BY <1>0, <1>1, <1>2, <1>8, <3>1
      <3>3. j.attempt % n = 0
        <4>1. j.attempt >= 1
          BY <1>0, <3>2
        <4> HIDE DEF n
        <4> QED
          BY <1>0, <1>1, <3>2, <4>1, ModNext
      <3>4. T = {h}
        BY <2>1
      <3>5. Cardinality(T) = 1
        <4> HIDE DEF T, h
        <4> QED
          BY <3>4, FS_Singleton
      <3> QED
        BY <3>3, <3>5
    <2>2. CASE untried # {}
      <3>1. h = j.cands[Min(untried)] /\ h \notin j.tried
        BY <1>5, <2>2
      <3>2. j.tried # all
        BY <1>6, <3>1
      <3>3. Cardinality(j.tried) < n
        BY <1>0, <1>2, <1>3, <3>2, FS_Subset
      <3>4. Seen(j) = j.attempt % n
        <4>1. CASE j.attempt = 0
          <5>1. 0 \in 0 .. n - 1 /\ 0 = n * 0 + 0
            BY <1>1
          <5> HIDE DEF n
          <5>2. 0 % n = 0
            BY <1>1, <5>1, ModIs
          <5> QED
            BY <1>8, <4>1, <5>2
        <4>2. CASE j.attempt # 0
          <5>1. ((j.attempt - 1) % n) + 1 < n
            BY <1>0, <1>8, <3>3, <4>2
          <5>2. j.attempt >= 1
            BY <1>0, <4>2
          <5> HIDE DEF n
          <5> QED
            BY <1>0, <1>1, <1>8, <4>2, <5>1, <5>2, ModNext
        <4> QED
          BY <4>1, <4>2
      <3>5. T = j.tried \cup {h}
        BY <2>2
      <3>6. Cardinality(T) = Cardinality(j.tried) + 1
        <4> HIDE DEF T, h
        <4> QED
          BY <1>3, <3>1, <3>5, FS_AddElement
      <3> QED
        BY <1>0, <3>4, <3>6
    <2> QED
      BY <2>1, <2>2
  <1> QED
    BY <1>4, <1>6, <1>7, <1>9

---------------------------------------------------------------------------
(* What holds of a step that changes one thread's job.                     *)

\* An admitted request of host h that job j waits for.
On(j, h) == j # NoJob /\ j.host = h /\ j.pc \in {"send", "resend", "wait"}

LEMMA OnIs ==
  /\ \A h \in Hosts : OnItsWay(h) = {t \in Callers : On(job[t], h)}
  /\ \A h \in Hosts : ~On(NoJob, h)
  BY DEF OnItsWay, On

LEMMA WayFinite ==
  ASSUME NEW h
  PROVE  IsFiniteSet(OnItsWay(h)) /\ Cardinality(OnItsWay(h)) \in Nat
  <1>1. OnItsWay(h) \in SUBSET Callers
    BY DEF OnItsWay
  <1> QED
    BY <1>1, Config, FS_Subset, FS_CardinalityType

\* The number of admitted requests on their way changes with the job.
LEMMA WayStep ==
  ASSUME NEW t \in Callers, NEW nj, NEW h \in Hosts,
         job \in [Callers -> Jobs \cup {NoJob}], job' = [job EXCEPT ![t] = nj]
  PROVE  Cardinality(OnItsWay(h)') - (IF On(nj, h) THEN 1 ELSE 0)
           = Cardinality(OnItsWay(h)) - (IF On(job[t], h) THEN 1 ELSE 0)
  <1> DEFINE A == OnItsWay(h)
             B == OnItsWay(h)'
  <1>1. IsFiniteSet(A) /\ Cardinality(A) \in Nat
    BY WayFinite
  <1>2. A = {u \in Callers : On(job[u], h)} /\ B = {u \in Callers : On(job'[u], h)}
    BY DEF OnItsWay, On
  <1>3. job'[t] = nj /\ \A u \in Callers : u # t => job'[u] = job[u]
    OBVIOUS
  <1> HIDE DEF A, B
  <1>4. t \in A <=> On(job[t], h)
    BY <1>2
  <1>5. B = IF On(nj, h) THEN A \cup {t} ELSE A \ {t}
    BY <1>2, <1>3
  <1>6. CASE On(nj, h)
    <2>1. Cardinality(B) = IF On(job[t], h) THEN Cardinality(A) ELSE Cardinality(A) + 1
      BY <1>1, <1>4, <1>5, <1>6, FS_AddElement
    <2> QED
      BY <1>1, <1>6, <2>1 DEF A, B
  <1>7. CASE ~On(nj, h)
    <2>1. Cardinality(B) = IF On(job[t], h) THEN Cardinality(A) - 1 ELSE Cardinality(A)
      BY <1>1, <1>4, <1>5, <1>7, FS_RemoveElement
    <2> QED
      BY <1>1, <1>7, <2>1 DEF A, B
  <1> QED
    BY <1>6, <1>7

\* A request on its way is one that the breaker has not heard of.
LEMMA OwedForIt ==
  ASSUME ClientInv, NEW h \in Hosts, NEW t \in Callers, On(job[t], h)
  PROVE  owed[h] \in Nat /\ owed[h] >= 1
  <1>1. t \in OnItsWay(h)
    BY OnIs
  <1>2. Cardinality(OnItsWay(h)) # 0
    BY <1>1, WayFinite, FS_EmptySet
  <1> QED
    BY <1>2, WayFinite DEF ClientInv, Ledger

\* A client leaves the pool into the erased ones only.
PoolGoesOn ==
  /\ pool' \in [Hosts -> 0 .. clients']
  /\ clients' \in 0 .. MaxClients /\ clients <= clients'
  /\ up' \subseteq 1 .. clients'
  /\ erased \subseteq erased' /\ erased' \subseteq 1 .. clients'
  /\ \A h \in Hosts : pool'[h] = pool[h] \/ pool[h] = 0 \/ pool[h] \in erased'

\* Pooled, after the step.
StillPooled(j) ==
  /\ j.client <= clients'
  /\ j.client # 0 /\ j.pc # "pick" => j.client = pool'[j.host] \/ j.client \in erased'

LEMMA PooledStays ==
  ASSUME ClientInv, PoolGoesOn, NEW j \in Jobs, Pooled(j)
  PROVE  StillPooled(j)
  <1>1. /\ j.client \in Nat /\ j.host \in Hosts /\ clients \in Nat /\ clients' \in Nat
        /\ clients <= clients'
    BY DEF Jobs, ClientInv, PoolGoesOn
  <1>2. j.client <= clients'
    BY <1>1 DEF Pooled
  <1>3. ASSUME j.client # 0, j.pc # "pick"
        PROVE  j.client = pool'[j.host] \/ j.client \in erased'
    <2>1. j.client = pool[j.host] \/ j.client \in erased
      BY <1>3 DEF Pooled
    <2>2. pool'[j.host] = pool[j.host] \/ pool[j.host] = 0 \/ pool[j.host] \in erased'
      BY <1>1 DEF PoolGoesOn
    <2>3. erased \subseteq erased'
      BY DEF PoolGoesOn
    <2> QED
      BY <1>3, <2>1, <2>2, <2>3
  <1> QED
    BY <1>2, <1>3 DEF StillPooled

LEMMA Counts ==
  ASSUME NEW a \in Nat, NEW b \in Nat, NEW x \in Nat, NEW y \in Nat,
         NEW o \in Nat, NEW oo \in Nat, NEW w \in Nat, NEW ww \in Nat,
         b - x = a - y, ww - oo - x = w - o - y, w = a + o
  PROVE  ww = b + oo
  OBVIOUS

\* What the breaker has not heard of changes as the job and the answers that
\* are still to come.
Balance(old, new) ==
  /\ out' \in [Hosts -> Nat] /\ owed' \in [Hosts -> Nat]
  /\ \A h \in Hosts :
       owed'[h] - out'[h] - (IF On(new, h) THEN 1 ELSE 0)
         = owed[h] - out[h] - (IF On(old, h) THEN 1 ELSE 0)

LEMMA JobStep ==
  ASSUME ClientInv, NEW t \in Callers, NEW nj \in Jobs \cup {NoJob},
         job' = [job EXCEPT ![t] = nj],
         nj # NoJob => Tries(nj) /\ StillPooled(nj),
         PoolGoesOn, HostList', Balance(job[t], nj)
  PROVE  ClientInv'
  <1>1. job \in [Callers -> Jobs \cup {NoJob}]
    BY DEF ClientInv
  <1>2. job'[t] = nj /\ \A u \in Callers : u # t => job'[u] = job[u]
    BY <1>1
  <1>3. job' \in [Callers -> Jobs \cup {NoJob}]
    BY <1>1
  <1>4. ASSUME NEW u \in Callers, job'[u] # NoJob
        PROVE  Tries(job'[u]) /\ StillPooled(job'[u])
    <2>1. CASE u = t
      BY <1>2, <1>4, <2>1
    <2>2. CASE u # t
      <3>1. job'[u] = job[u] /\ job[u] \in Jobs
        BY <1>1, <1>2, <1>4, <2>2
      <3>2. Tries(job[u]) /\ Pooled(job[u])
        BY <1>4, <3>1 DEF ClientInv
      <3>3. StillPooled(job[u])
        BY <3>1, <3>2, PooledStays
      <3> QED
        BY <3>1, <3>2, <3>3
    <2> QED
      BY <2>1, <2>2
  <1>5. Ledger'
    <2> SUFFICES ASSUME NEW h \in Hosts PROVE owed'[h] = Cardinality(OnItsWay(h)') + out'[h]
      BY DEF Ledger
    <2>1. /\ owed[h] = Cardinality(OnItsWay(h)) + out[h] /\ out[h] \in Nat /\ owed[h] \in Nat
          /\ out'[h] \in Nat /\ owed'[h] \in Nat
      BY DEF ClientInv, Ledger, Balance
    <2>2. Cardinality(OnItsWay(h)') - (IF On(nj, h) THEN 1 ELSE 0)
            = Cardinality(OnItsWay(h)) - (IF On(job[t], h) THEN 1 ELSE 0)
      BY <1>1, WayStep
    <2>3. owed'[h] - out'[h] - (IF On(nj, h) THEN 1 ELSE 0)
            = owed[h] - out[h] - (IF On(job[t], h) THEN 1 ELSE 0)
      BY DEF Balance
    <2>4. Cardinality(OnItsWay(h)) \in Nat /\ Cardinality(OnItsWay(h)') \in Nat
      <3>1. OnItsWay(h)' \in SUBSET Callers
        BY DEF OnItsWay
      <3> QED
        BY <3>1, WayFinite, Config, FS_Subset, FS_CardinalityType
    <2>5. PICK x \in Nat : x = IF On(nj, h) THEN 1 ELSE 0
      OBVIOUS
    <2>6. PICK y \in Nat : y = IF On(job[t], h) THEN 1 ELSE 0
      OBVIOUS
    <2>7. PICK a \in Nat : a = Cardinality(OnItsWay(h))
      BY <2>4
    <2>8. PICK b \in Nat : b = Cardinality(OnItsWay(h)')
      BY <2>4
    <2>9. b - x = a - y /\ owed'[h] - out'[h] - x = owed[h] - out[h] - y /\ owed[h] = a + out[h]
      BY <2>1, <2>2, <2>3, <2>5, <2>6, <2>7, <2>8
    <2>10. owed'[h] = b + out'[h]
      BY <2>1, <2>9, Counts
    <2> QED
      BY <2>8, <2>10
  <1> QED
    BY <1>3, <1>4, <1>5 DEF ClientInv, PoolGoesOn, Balance, Pooled, StillPooled

\* Such a step that leaves the list and the pool alone.
LEMMA JobOnly ==
  ASSUME ClientInv, NEW t \in Callers, NEW nj \in Jobs \cup {NoJob},
         job' = [job EXCEPT ![t] = nj], nj # NoJob => Tries(nj) /\ Pooled(nj),
         UNCHANGED <<host, poolVars>>, Balance(job[t], nj)
  PROVE  ClientInv'
  <1>1. PoolGoesOn
    BY DEF PoolGoesOn, ClientInv, poolVars
  <1>2. HostList'
    BY DEF HostList, ClientInv
  <1>3. nj # NoJob => StillPooled(nj)
    BY DEF Pooled, StillPooled, poolVars
  <1> QED
    BY <1>1, <1>2, <1>3, JobStep

\* A step that leaves the jobs and the answers to come alone.
LEMMA WorldStep ==
  ASSUME ClientInv, PoolGoesOn, HostList', UNCHANGED <<job, out, owed>>
  PROVE  ClientInv'
  <1>1. ASSUME NEW t \in Callers, job[t] # NoJob
        PROVE  Tries(job[t]) /\ StillPooled(job[t])
    BY <1>1, PooledStays DEF ClientInv
  <1>2. Ledger'
    <2> SUFFICES ASSUME NEW h \in Hosts PROVE owed'[h] = Cardinality(OnItsWay(h)') + out'[h]
      BY DEF Ledger
    <2>1. OnItsWay(h)' = OnItsWay(h)
      BY DEF OnItsWay
    <2> QED
      BY <2>1 DEF ClientInv, Ledger
  <1>3. job' \in [Callers -> Jobs \cup {NoJob}] /\ out' \in [Hosts -> Nat] /\ owed' \in [Hosts -> Nat]
    BY DEF ClientInv
  <1> QED
    BY <1>1, <1>2, <1>3 DEF ClientInv, PoolGoesOn, Pooled, StillPooled

---------------------------------------------------------------------------
(* The steps of a call.                                                    *)

LEMMA JobWith ==
  ASSUME NEW j \in Jobs, NEW p \in Places, NEW a \in Nat, NEW c \in Nat
  PROVE  [j EXCEPT !.pc = p, !.attempt = a, !.client = c] \in Jobs
  BY Zenon DEF Jobs

\* An attempt that ends leaves no call, or one that is to pick its next host.
LEMMA AfterIs ==
  ASSUME NEW j \in Jobs, Tries(j), j.pc # "pick", NEW err
  PROVE  /\ AfterAttempt(j, err) \in Jobs \cup {NoJob}
         /\ AfterAttempt(j, err) # NoJob =>
              /\ Tries(AfterAttempt(j, err))
              /\ AfterAttempt(j, err).client = 0 /\ AfterAttempt(j, err).pc = "pick"
         /\ \A h : ~On(AfterAttempt(j, err), h)
  <1> DEFINE k == [j EXCEPT !.pc = "pick", !.attempt = j.attempt + 1, !.client = 0]
  <1>1. CASE err = "OK" \/ GivesUp(j, err)
    BY <1>1 DEF AfterAttempt, On
  <1>2. CASE ~(err = "OK" \/ GivesUp(j, err))
    <2>1. AfterAttempt(j, err) = k
      BY <1>2 DEF AfterAttempt
    <2>2. /\ k \in Jobs /\ k.pc = "pick" /\ k.client = 0 /\ k.attempt = j.attempt + 1
          /\ k.cands = j.cands /\ k.tried = j.tried /\ k.kind = j.kind /\ j.attempt \in Nat
          /\ j.cands \in Seq(Hosts)
      <3>1. j.attempt \in Nat /\ j.cands \in Seq(Hosts)
        BY DEF Jobs
      <3>2. k \in Jobs
        <4>1. "pick" \in Places /\ j.attempt + 1 \in Nat /\ 0 \in Nat
          BY <3>1 DEF Places
        <4> QED
          BY <4>1, JobWith
      <3>3. k.pc = "pick" /\ k.client = 0 /\ k.attempt = j.attempt + 1
        BY <3>1 DEF Jobs
      <3>4. k.cands = j.cands /\ k.tried = j.tried /\ k.kind = j.kind
        OBVIOUS
      <3> QED
        BY <3>1, <3>2, <3>3, <3>4
    <2> HIDE DEF k
    <2>3. k.attempt <= IF k.kind = "callback" THEN Len(k.cands) - 1 ELSE MaxRetries
      <3>1. CASE j.kind = "callback"
        <4>1. ~(j.attempt + 1 >= Len(j.cands))
          BY <1>2, <3>1 DEF GivesUp
        <4>2. Len(j.cands) \in Nat
          BY <2>2
        <4> QED
          BY <2>2, <3>1, <4>1, <4>2
      <3>2. CASE j.kind # "callback"
        <4>1. ~(j.attempt >= MaxRetries)
          BY <1>2, <3>2 DEF GivesUp
        <4> QED
          BY <2>2, <3>2, <4>1, Config
      <3> QED
        BY <3>1, <3>2
    <2>4. Seen(k) = Seen(j)
      <3>1. k.attempt # 0 /\ k.attempt - 1 = j.attempt
        BY <2>2
      <3> QED
        BY <2>2, <3>1 DEF Seen
    <2>5. Tries(k)
      BY <2>2, <2>3, <2>4 DEF Tries
    <2> QED
      BY <2>1, <2>2, <2>5 DEF On
  <1> QED
    BY <1>1, <1>2

\* The job of a thread whose call is somewhere.
LEMMA JobIs ==
  ASSUME ClientInv, NEW t \in Callers, job[t] # NoJob
  PROVE  job[t] \in Jobs /\ Tries(job[t]) /\ Pooled(job[t])
  BY DEF ClientInv

LEMMA CountsAre ==
  ASSUME ClientInv
  PROVE  /\ \A h \in Hosts : out[h] \in Nat /\ owed[h] \in Nat /\ pool[h] \in 0 .. clients
         /\ clients \in Nat /\ job \in [Callers -> Jobs \cup {NoJob}]
         /\ out \in [Hosts -> Nat] /\ owed \in [Hosts -> Nat]
  BY Config DEF ClientInv

\* A call goes on with its next attempt, and the counts with what it had sent.
LEMMA AttemptOver ==
  ASSUME ClientInv, NEW t \in Callers, NEW err, job[t] # NoJob, job[t].pc # "pick",
         job' = [job EXCEPT ![t] = AfterAttempt(job[t], err)],
         UNCHANGED <<host, poolVars>>,
         out' \in [Hosts -> Nat], owed' \in [Hosts -> Nat],
         \A h \in Hosts :
           owed'[h] - out'[h] = owed[h] - out[h] - (IF On(job[t], h) THEN 1 ELSE 0)
  PROVE  ClientInv'
  <1> DEFINE nj == AfterAttempt(job[t], err)
  <1>1. job[t] \in Jobs /\ Tries(job[t])
    BY JobIs
  <1>2. /\ nj \in Jobs \cup {NoJob} /\ \A h : ~On(nj, h)
        /\ nj # NoJob => Tries(nj) /\ nj.client = 0 /\ nj.pc = "pick"
    BY <1>1, AfterIs
  <1> HIDE DEF nj
  <1>3. nj # NoJob => Pooled(nj)
    BY <1>2, CountsAre DEF Pooled
  <1>4. Balance(job[t], nj)
    <2> SUFFICES ASSUME NEW h \in Hosts
                 PROVE  owed'[h] - out'[h] - (IF On(nj, h) THEN 1 ELSE 0)
                          = owed[h] - out[h] - (IF On(job[t], h) THEN 1 ELSE 0)
      BY DEF Balance
    <2>1. owed'[h] - out'[h] = owed[h] - out[h] - (IF On(job[t], h) THEN 1 ELSE 0)
      OBVIOUS
    <2>2. owed'[h] \in Nat /\ out'[h] \in Nat
      OBVIOUS
    <2>3. (IF On(nj, h) THEN 1 ELSE 0) = 0
      BY <1>2
    <2> QED
      BY <2>1, <2>2, <2>3
  <1>5. job' = [job EXCEPT ![t] = nj]
    BY DEF nj
  <1> QED
    BY <1>2, <1>3, <1>4, <1>5, JobOnly

\* Such an attempt had been admitted, and the breaker hears of it.
LEMMA EndsStep ==
  ASSUME ClientInv, NEW t \in Callers, NEW err, job[t].pc \in {"send", "resend"},
         Ends(t, err), UNCHANGED <<host, poolVars, out>>
  PROVE  ClientInv'
  <1>1. job[t] # NoJob
    BY DEF NoJob
  <1>2. job[t].host \in Hosts /\ On(job[t], job[t].host)
    BY <1>1, JobIs DEF On, Jobs
  <1>3. owed[job[t].host] >= 1
    BY <1>2, OwedForIt
  <1>4. owed' = [owed EXCEPT ![job[t].host] = owed[job[t].host] - 1]
    BY DEF Ends, Reports
  <1>5. owed' \in [Hosts -> Nat] /\ out' \in [Hosts -> Nat]
    BY <1>2, <1>3, <1>4, CountsAre
  <1>6. ASSUME NEW h \in Hosts
        PROVE  owed'[h] - out'[h] = owed[h] - out[h] - (IF On(job[t], h) THEN 1 ELSE 0)
    <2>1. out[h] \in Nat /\ owed[h] \in Nat /\ out'[h] = out[h]
      BY CountsAre
    <2>2. CASE h = job[t].host
      <3>1. owed'[h] = owed[h] - 1
        BY <1>4, <2>2, CountsAre
      <3>2. (IF On(job[t], h) THEN 1 ELSE 0) = 1
        BY <1>2, <2>2
      <3> QED
        BY <2>1, <3>1, <3>2
    <2>3. CASE h # job[t].host
      <3>1. owed'[h] = owed[h]
        BY <1>4, <2>3, CountsAre
      <3>2. (IF On(job[t], h) THEN 1 ELSE 0) = 0
        BY <2>3 DEF On
      <3> QED
        BY <2>1, <3>1, <3>2
    <2> QED
      BY <2>2, <2>3
  <1>7. job' = [job EXCEPT ![t] = AfterAttempt(job[t], err)] /\ job[t].pc # "pick"
    BY DEF Ends
  <1> QED
    BY <1>1, <1>5, <1>6, <1>7, AttemptOver

\* The breaker is not asked, or refuses.
LEMMA UnaskedStep ==
  ASSUME ClientInv, NEW t \in Callers, ConnectionUnavailable(t) \/ Rejected(t)
  PROVE  ClientInv'
  <1>1. /\ job[t].pc = "conn" /\ UNCHANGED <<host, poolVars, out, owed>>
        /\ \E err \in {"CONN_CLOSED", "CIRCUIT_OPEN"} :
             job' = [job EXCEPT ![t] = AfterAttempt(job[t], err)]
    BY DEF ConnectionUnavailable, Rejected
  <1>2. job[t] # NoJob /\ job[t].pc # "pick" /\ \A h : ~On(job[t], h)
    BY <1>1 DEF NoJob, On
  <1>3. \A h \in Hosts : owed'[h] - out'[h] = owed[h] - out[h] - (IF On(job[t], h) THEN 1 ELSE 0)
    BY <1>1, <1>2, CountsAre
  <1>4. out' \in [Hosts -> Nat] /\ owed' \in [Hosts -> Nat]
    BY <1>1, CountsAre
  <1> QED
    BY <1>1, <1>2, <1>3, <1>4, AttemptOver

\* The thread of a future gives up, its response may still come.
LEMMA FutureTimesOutStep ==
  ASSUME ClientInv, NEW t \in Callers, FutureTimesOut(t)
  PROVE  ClientInv'
  <1>1. /\ job[t].pc = "wait" /\ UNCHANGED <<host, poolVars, owed>>
        /\ job' = [job EXCEPT ![t] = AfterAttempt(job[t], "TIMEOUT")]
        /\ out' = [out EXCEPT ![job[t].host] = out[job[t].host] + 1]
    BY DEF FutureTimesOut
  <1>2. job[t] # NoJob /\ job[t].pc # "pick"
    BY <1>1 DEF NoJob
  <1>3. job[t].host \in Hosts /\ \A h : On(job[t], h) <=> h = job[t].host
    BY <1>1, <1>2, JobIs DEF Jobs, On
  <1>4. out' \in [Hosts -> Nat] /\ owed' \in [Hosts -> Nat]
    BY <1>1, <1>3, CountsAre
  <1>5. \A h \in Hosts : owed'[h] - out'[h] = owed[h] - out[h] - (IF On(job[t], h) THEN 1 ELSE 0)
    BY <1>1, <1>3, CountsAre
  <1> QED
    BY <1>1, <1>2, <1>4, <1>5, AttemptOver

LEMMA JobAt ==
  ASSUME NEW j \in Jobs, NEW h \in Hosts
  PROVE  /\ [j EXCEPT !.host = h] \in Jobs
         /\ [j EXCEPT !.host = h].host = h
         /\ \A f \in {"cands", "kind", "attempt", "tried", "pc"} : [j EXCEPT !.host = h][f] = j[f]
  <1>1. [j EXCEPT !.host = h] \in Jobs
    BY Zenon DEF Jobs
  <1>2. [j EXCEPT !.host = h].host = h
    BY DEF Jobs
  <1> QED
    BY <1>1, <1>2 DEF Jobs

LEMMA JobHaving ==
  ASSUME NEW j \in Jobs, NEW T \in SUBSET Hosts
  PROVE  /\ [j EXCEPT !.tried = T] \in Jobs
         /\ [j EXCEPT !.tried = T].tried = T
         /\ \A f \in {"cands", "kind", "attempt", "host", "pc"} : [j EXCEPT !.tried = T][f] = j[f]
  <1>1. [j EXCEPT !.tried = T] \in Jobs
    BY Zenon DEF Jobs
  <1>2. [j EXCEPT !.tried = T].tried = T
    BY DEF Jobs
  <1> QED
    BY <1>1, <1>2 DEF Jobs

LEMMA JobUsing ==
  ASSUME NEW j \in Jobs, NEW c \in Nat
  PROVE  /\ [j EXCEPT !.client = c] \in Jobs
         /\ [j EXCEPT !.client = c].client = c
         /\ \A f \in {"cands", "kind", "attempt", "host", "tried", "pc"} : [j EXCEPT !.client = c][f] = j[f]
  <1>1. [j EXCEPT !.client = c] \in Jobs
    BY Zenon DEF Jobs
  <1>2. [j EXCEPT !.client = c].client = c
    BY DEF Jobs
  <1> QED
    BY <1>1, <1>2 DEF Jobs

LEMMA JobDoing ==
  ASSUME NEW j \in Jobs, NEW p \in Places
  PROVE  /\ [j EXCEPT !.pc = p] \in Jobs
         /\ [j EXCEPT !.pc = p].pc = p
         /\ \A f \in {"cands", "kind", "attempt", "host", "tried", "client"} : [j EXCEPT !.pc = p][f] = j[f]
  <1>1. [j EXCEPT !.pc = p] \in Jobs
    BY Zenon DEF Jobs
  <1>2. [j EXCEPT !.pc = p].pc = p
    BY DEF Jobs
  <1> QED
    BY <1>1, <1>2 DEF Jobs

\* The host of the next attempt, whatever the kind of the call.
LEMMA NextHost ==
  ASSUME NEW j \in Jobs, Tries(j), j.pc = "pick"
  PROVE  \E k \in Jobs :
           /\ k = IF j.kind = "callback" THEN [j EXCEPT !.host = j.cands[j.attempt + 1]]
                  ELSE PickUntriedCandidate(j)
           /\ k.cands = j.cands /\ k.kind = j.kind /\ k.attempt = j.attempt
           /\ k.tried \subseteq Range(k.cands)
           /\ k.kind # "callback" => Cardinality(k.tried) = (k.attempt % Len(k.cands)) + 1
  <1>1. CASE j.kind = "callback"
    <2>1. j.cands \in Seq(Hosts) /\ j.attempt \in Nat /\ j.attempt + 1 <= Len(j.cands)
      <3>1. j.cands \in Seq(Hosts) /\ j.attempt \in Nat /\ Len(j.cands) \in Nat
        BY DEF Jobs
      <3>2. j.attempt <= Len(j.cands) - 1
        BY <1>1 DEF Tries
      <3> QED
        BY <3>1, <3>2
    <2>2. j.cands[j.attempt + 1] \in Hosts
      BY <2>1
    <2> DEFINE k == [j EXCEPT !.host = j.cands[j.attempt + 1]]
    <2>3. k \in Jobs /\ k.cands = j.cands /\ k.kind = j.kind /\ k.attempt = j.attempt /\ k.tried = j.tried
      BY <2>2, JobAt, Zenon
    <2> HIDE DEF k
    <2>4. k.tried \subseteq Range(k.cands)
      BY <2>3 DEF Tries
    <2> QED
      BY <1>1, <2>3, <2>4 DEF k
  <1>2. CASE j.kind # "callback"
    <2>1. PICK h \in Hosts, T \in SUBSET Hosts :
            /\ PickUntriedCandidate(j) = [j EXCEPT !.host = h, !.tried = T]
            /\ h \in Range(j.cands) /\ T \subseteq Range(j.cands)
            /\ Cardinality(T) = (j.attempt % Len(j.cands)) + 1
      BY <1>2, PickedIs
    <2> DEFINE m == [j EXCEPT !.host = h]
               k == [m EXCEPT !.tried = T]
    <2>2. m \in Jobs /\ m.cands = j.cands /\ m.kind = j.kind /\ m.attempt = j.attempt
      BY JobAt, Zenon
    <2>3. PickUntriedCandidate(j) = k
      BY <2>1, Zenon
    <2> HIDE DEF m
    <2>4. k \in Jobs /\ k.cands = m.cands /\ k.kind = m.kind /\ k.attempt = m.attempt /\ k.tried = T
      BY <2>2, JobHaving, Zenon
    <2> HIDE DEF k
    <2> QED
      BY <1>2, <2>1, <2>2, <2>3, <2>4
  <1> QED
    BY <1>1, <1>2

\* Between two requests of a call nothing is owed.
LEMMA NothingSent ==
  ASSUME ClientInv, NEW old, NEW new, UNCHANGED <<out, owed>>,
         \A h \in Hosts : On(old, h) <=> On(new, h)
  PROVE  Balance(old, new)
  <1>1. \A h \in Hosts :
          (IF On(old, h) THEN 1 ELSE 0) = (IF On(new, h) THEN 1 ELSE 0) /\ owed'[h] = owed[h] /\ out'[h] = out[h]
    OBVIOUS
  <1> QED
    BY <1>1, CountsAre DEF Balance

LEMMA PickStep ==
  ASSUME ClientInv, NEW t \in Callers, Pick(t)
  PROVE  ClientInv'
  <1>1. job[t].pc = "pick" /\ job[t] # NoJob
    BY DEF Pick, NoJob
  <1>2. PICK k \in Jobs :
          /\ k = IF job[t].kind = "callback" THEN [job[t] EXCEPT !.host = job[t].cands[job[t].attempt + 1]]
                 ELSE PickUntriedCandidate(job[t])
          /\ k.cands = job[t].cands /\ k.kind = job[t].kind /\ k.attempt = job[t].attempt
          /\ k.tried \subseteq Range(k.cands)
          /\ k.kind # "callback" => Cardinality(k.tried) = (k.attempt % Len(k.cands)) + 1
    BY <1>1, JobIs, NextHost
  <1> DEFINE p == IF pool[k.host] = 0 THEN "connect" ELSE "conn"
             m == [k EXCEPT !.client = pool[k.host]]
             nj == [m EXCEPT !.pc = p]
  <1>3. job' = [job EXCEPT ![t] = nj]
    BY <1>2, Zenon DEF Pick
  <1>4. pool[k.host] \in Nat /\ pool[k.host] <= clients /\ clients \in Nat
    BY CountsAre DEF Jobs
  <1>5. /\ m \in Jobs /\ m.client = pool[k.host] /\ m.host = k.host /\ m.kind = k.kind
        /\ m.cands = k.cands /\ m.tried = k.tried /\ m.attempt = k.attempt
    BY <1>4, JobUsing, Zenon
  <1>6. p \in Places /\ p \in {"connect", "conn"}
    BY DEF Places
  <1> HIDE DEF m, p
  <1>7. /\ nj \in Jobs /\ nj.pc = p /\ nj.client = m.client /\ nj.host = m.host
        /\ nj.kind = m.kind /\ nj.cands = m.cands /\ nj.tried = m.tried /\ nj.attempt = m.attempt
    BY <1>5, <1>6, JobDoing, Zenon
  <1> HIDE DEF nj
  <1>8. Tries(nj)
    <2>1. /\ job[t].cands # <<>> /\ IsInjective(job[t].cands)
          /\ job[t].attempt <= IF job[t].kind = "callback" THEN Len(job[t].cands) - 1 ELSE MaxRetries
      BY <1>1, JobIs DEF Tries
    <2>2. nj.pc # "pick"
      BY <1>6, <1>7
    <2> QED
      BY <1>2, <1>5, <1>7, <2>1, <2>2 DEF Tries, Seen
  <1>9. Pooled(nj)
    BY <1>4, <1>5, <1>7 DEF Pooled
  <1>10. \A h \in Hosts : ~On(job[t], h) /\ ~On(nj, h)
    BY <1>1, <1>6, <1>7 DEF On
  <1>11. UNCHANGED <<host, poolVars, out, owed>>
    BY DEF Pick
  <1>12. Balance(job[t], nj)
    BY <1>10, <1>11, NothingSent
  <1> QED
    BY <1>3, <1>7, <1>8, <1>9, <1>11, <1>12, JobOnly

\* A job that only goes on to another place, its request where it was or handed
\* to the breaker.
LEMMA Onward ==
  ASSUME ClientInv, NEW t \in Callers, NEW p \in Places, p # "pick", job[t] # NoJob, job[t].pc # "pick",
         job' = [job EXCEPT ![t].pc = p], UNCHANGED <<host, poolVars>>,
         Balance(job[t], [job[t] EXCEPT !.pc = p])
  PROVE  ClientInv'
  <1> DEFINE nj == [job[t] EXCEPT !.pc = p]
  <1>1. job[t] \in Jobs /\ Tries(job[t]) /\ Pooled(job[t])
    BY JobIs
  <1>2. /\ nj \in Jobs /\ nj.pc = p /\ nj.client = job[t].client /\ nj.host = job[t].host
        /\ nj.kind = job[t].kind /\ nj.cands = job[t].cands /\ nj.tried = job[t].tried
        /\ nj.attempt = job[t].attempt
    BY <1>1, JobDoing, Zenon
  <1>3. job' = [job EXCEPT ![t] = nj] /\ Balance(job[t], nj)
    BY Zenon
  <1> HIDE DEF nj
  <1>4. Tries(nj)
    BY <1>1, <1>2 DEF Tries, Seen
  <1>5. Pooled(nj)
    BY <1>1, <1>2 DEF Pooled
  <1> QED
    BY <1>2, <1>3, <1>4, <1>5, JobOnly

LEMMA OnWith ==
  ASSUME NEW j \in Jobs, NEW p \in Places, NEW h
  PROVE  On([j EXCEPT !.pc = p], h) <=> h = j.host /\ p \in {"send", "resend", "wait"}
  <1>1. [j EXCEPT !.pc = p] \in Jobs /\ [j EXCEPT !.pc = p].pc = p /\ [j EXCEPT !.pc = p].host = j.host
    BY JobDoing, Zenon
  <1>2. [j EXCEPT !.pc = p] # NoJob
    BY <1>1, NoJobIs
  <1> QED
    BY <1>1, <1>2 DEF On

LEMMA AdmittedStep ==
  ASSUME ClientInv, NEW t \in Callers, Admitted(t)
  PROVE  ClientInv'
  <1>1. /\ job[t].pc = "conn" /\ job[t] # NoJob /\ UNCHANGED <<host, poolVars, out>>
        /\ job' = [job EXCEPT ![t].pc = "send"]
        /\ owed' = [owed EXCEPT ![job[t].host] = owed[job[t].host] + 1]
    BY DEF Admitted, NoJob
  <1>2. job[t] \in Jobs /\ job[t].host \in Hosts /\ "send" \in Places
    BY <1>1, JobIs DEF Jobs, Places
  <1>3. \A h \in Hosts : ~On(job[t], h) /\ (On([job[t] EXCEPT !.pc = "send"], h) <=> h = job[t].host)
    BY <1>1, <1>2, OnWith DEF On
  <1>4. out' \in [Hosts -> Nat] /\ owed' \in [Hosts -> Nat]
    BY <1>1, <1>2, CountsAre
  <1> DEFINE nj == [job[t] EXCEPT !.pc = "send"]
  <1>5. Balance(job[t], nj)
    <2> HIDE DEF nj
    <2> SUFFICES ASSUME NEW h \in Hosts
                 PROVE  owed'[h] - out'[h] - (IF On(nj, h) THEN 1 ELSE 0)
                          = owed[h] - out[h] - (IF On(job[t], h) THEN 1 ELSE 0)
      BY <1>4 DEF Balance
    <2>1. out[h] \in Nat /\ owed[h] \in Nat /\ out'[h] = out[h]
      BY <1>1, CountsAre
    <2>2. owed'[h] = owed[h] + (IF h = job[t].host THEN 1 ELSE 0)
      BY <1>1, CountsAre
    <2>3. ~On(job[t], h) /\ (On(nj, h) <=> h = job[t].host)
      BY <1>3 DEF nj
    <2> QED
      BY <2>1, <2>2, <2>3
  <1> QED
    BY <1>1, <1>2, <1>5, Onward

\* The request of a future, and the one that call_proto sends once more.
LEMMA WaitingStep ==
  ASSUME ClientInv, NEW t \in Callers, NEW p \in {"resend", "wait"}, job[t].pc \in {"send", "resend"},
         job' = [job EXCEPT ![t].pc = p], UNCHANGED <<host, poolVars, out, owed>>
  PROVE  ClientInv'
  <1>1. job[t] # NoJob /\ job[t].pc # "pick" /\ p \in Places /\ p # "pick"
    BY DEF NoJob, Places
  <1>2. job[t] \in Jobs
    BY <1>1, JobIs
  <1>3. \A h \in Hosts : On(job[t], h) <=> On([job[t] EXCEPT !.pc = p], h)
    BY <1>1, <1>2, OnWith DEF On
  <1>4. Balance(job[t], [job[t] EXCEPT !.pc = p])
    BY <1>3, NothingSent
  <1> QED
    BY <1>1, <1>4, Onward

\* A callback call is over, its answer is to come.
LEMMA SendCallbackStep ==
  ASSUME ClientInv, NEW t \in Callers, SendCallback(t)
  PROVE  ClientInv'
  <1>1. /\ job[t].pc = "send" /\ job[t] # NoJob /\ UNCHANGED <<host, poolVars, owed>>
        /\ job' = [job EXCEPT ![t] = NoJob]
        /\ out' = [out EXCEPT ![job[t].host] = out[job[t].host] + 1]
    BY DEF SendCallback, NoJob
  <1>2. job[t].host \in Hosts /\ \A h : On(job[t], h) <=> h = job[t].host
    BY <1>1, JobIs DEF Jobs, On
  <1>3. \A h : ~On(NoJob, h)
    BY DEF On
  <1>4. out' \in [Hosts -> Nat] /\ owed' \in [Hosts -> Nat]
    BY <1>1, <1>2, CountsAre
  <1>5. Balance(job[t], NoJob)
    <2> SUFFICES ASSUME NEW h \in Hosts
                 PROVE  owed'[h] - out'[h] - (IF On(NoJob, h) THEN 1 ELSE 0)
                          = owed[h] - out[h] - (IF On(job[t], h) THEN 1 ELSE 0)
      BY <1>4 DEF Balance
    <2>1. out[h] \in Nat /\ owed[h] \in Nat /\ owed'[h] = owed[h]
      BY <1>1, CountsAre
    <2>2. out'[h] = out[h] + (IF h = job[t].host THEN 1 ELSE 0)
      BY <1>1, CountsAre
    <2> QED
      BY <1>2, <1>3, <2>1, <2>2
  <1> QED
    BY <1>1, <1>5, JobOnly

\* The loop fills the future: the breaker hears of it and the call is over.
LEMMA FutureAnsweredStep ==
  ASSUME ClientInv, NEW t \in Callers, FutureAnswered(t)
  PROVE  ClientInv'
  <1>1. /\ job[t].pc = "wait" /\ job[t] # NoJob /\ UNCHANGED <<host, poolVars, out>>
        /\ job' = [job EXCEPT ![t] = NoJob]
        /\ owed' = [owed EXCEPT ![job[t].host] = owed[job[t].host] - 1]
    BY DEF FutureAnswered, Reports, NoJob
  <1>2. job[t].host \in Hosts /\ \A h : On(job[t], h) <=> h = job[t].host
    BY <1>1, JobIs DEF Jobs, On
  <1>3. \A h : ~On(NoJob, h)
    BY DEF On
  <1>4. owed[job[t].host] >= 1
    BY <1>2, OwedForIt
  <1>5. out' \in [Hosts -> Nat] /\ owed' \in [Hosts -> Nat]
    BY <1>1, <1>2, <1>4, CountsAre
  <1>6. Balance(job[t], NoJob)
    <2> SUFFICES ASSUME NEW h \in Hosts
                 PROVE  owed'[h] - out'[h] - (IF On(NoJob, h) THEN 1 ELSE 0)
                          = owed[h] - out[h] - (IF On(job[t], h) THEN 1 ELSE 0)
      BY <1>5 DEF Balance
    <2>1. out[h] \in Nat /\ owed[h] \in Nat /\ out'[h] = out[h]
      BY <1>1, CountsAre
    <2>2. owed'[h] = owed[h] - (IF h = job[t].host THEN 1 ELSE 0)
      BY <1>1, CountsAre
    <2> QED
      BY <1>2, <1>3, <2>1, <2>2
  <1> QED
    BY <1>1, <1>6, JobOnly

\* An answer nobody waits for: the breaker hears of it all the same.
LEMMA LateAnswerStep ==
  ASSUME ClientInv, NEW h \in Hosts, LateAnswer(h)
  PROVE  ClientInv'
  <1>1. /\ out[h] > 0 /\ UNCHANGED <<host, poolVars, job>>
        /\ owed' = [owed EXCEPT ![h] = owed[h] - 1]
        /\ out' = [out EXCEPT ![h] = out[h] - 1]
    BY DEF LateAnswer, Reports
  <1>2. owed[h] = Cardinality(OnItsWay(h)) + out[h] /\ Cardinality(OnItsWay(h)) \in Nat
    BY WayFinite DEF ClientInv, Ledger
  <1>3. out' \in [Hosts -> Nat] /\ owed' \in [Hosts -> Nat]
    BY <1>1, <1>2, CountsAre
  <1>4. Ledger'
    <2> SUFFICES ASSUME NEW g \in Hosts PROVE owed'[g] = Cardinality(OnItsWay(g)') + out'[g]
      BY DEF Ledger
    <2>1. OnItsWay(g)' = OnItsWay(g)
      BY <1>1 DEF OnItsWay
    <2>2. owed[g] = Cardinality(OnItsWay(g)) + out[g] /\ Cardinality(OnItsWay(g)) \in Nat
      BY WayFinite DEF ClientInv, Ledger
    <2> QED
      BY <1>1, <2>1, <2>2, CountsAre
  <1> QED
    BY <1>1, <1>3, <1>4 DEF ClientInv, HostList, Pooled, poolVars

LEMMA NewClientStep ==
  ASSUME ClientInv, NEW t \in Callers, NewClient(t)
  PROVE  ClientInv'
  <1> DEFINE h == job[t].host
  <1>1. /\ job[t].pc = "connect" /\ job[t] # NoJob /\ clients < MaxClients /\ clients' = clients + 1
        /\ UNCHANGED <<host, erased, out, owed>>
    BY DEF NewClient, NoJob
  <1>2. job[t] \in Jobs /\ Tries(job[t]) /\ h \in Hosts
    BY <1>1, JobIs DEF Jobs
  <1>3. PICK c \in Nat :
          /\ job' = [job EXCEPT ![t].pc = "conn", ![t].client = c]
          /\ c <= clients' /\ c = pool'[h]
          /\ \/ pool[h] = 0 /\ pool' = [pool EXCEPT ![h] = clients + 1] /\ up' = up \cup {clients + 1}
             \/ UNCHANGED <<pool, up>>
    <2>1. /\ pool \in [Hosts -> 0 .. clients] /\ clients \in Nat /\ MaxClients \in Nat
          /\ pool[h] \in 0 .. clients
      BY <1>2, CountsAre, Config DEF ClientInv
    <2>2. CASE /\ pool[h] = 0
               /\ pool' = [pool EXCEPT ![h] = clients + 1]
               /\ up' = up \cup {clients + 1}
               /\ job' = [job EXCEPT ![t].pc = "conn", ![t].client = clients + 1]
      <3>1. clients + 1 \in Nat /\ clients + 1 <= clients' /\ clients + 1 = pool'[h]
        BY <1>1, <1>2, <2>1, <2>2
      <3> QED
        BY <2>2, <3>1, Zenon
    <2>3. CASE /\ job' = [job EXCEPT ![t].pc = "conn", ![t].client = pool[h]]
               /\ UNCHANGED <<pool, up>>
      <3>1. pool[h] \in Nat /\ pool[h] <= clients' /\ pool[h] = pool'[h]
        BY <1>1, <1>2, <2>1, <2>3
      <3> QED
        BY <2>3, <3>1, Zenon
    <2> QED
      BY <2>2, <2>3, Zenon DEF NewClient
  <1>4. PoolGoesOn
    <2>1. /\ pool \in [Hosts -> 0 .. clients] /\ clients \in Nat /\ MaxClients \in Nat
          /\ up \subseteq 1 .. clients /\ erased \subseteq 1 .. clients
      BY CountsAre, Config DEF ClientInv
    <2>2. clients' \in 0 .. MaxClients /\ clients <= clients' /\ erased' = erased
      BY <1>1, <2>1
    <2>3. erased' \subseteq 1 .. clients'
      BY <1>1, <2>1
    <2>4. pool' \in [Hosts -> 0 .. clients'] /\ up' \subseteq 1 .. clients'
      BY <1>1, <1>2, <1>3, <2>1
    <2>5. \A g \in Hosts : pool'[g] = pool[g] \/ pool[g] = 0
      BY <1>3, <2>1
    <2> QED
      BY <2>2, <2>3, <2>4, <2>5 DEF PoolGoesOn
  <1> DEFINE m == [job[t] EXCEPT !.pc = "conn"]
             nj == [m EXCEPT !.client = c]
  <1>5. job' = [job EXCEPT ![t] = nj]
    BY <1>3, Zenon
  <1>6. "conn" \in Places
    BY DEF Places
  <1>7. /\ m \in Jobs /\ m.pc = "conn" /\ m.host = job[t].host /\ m.kind = job[t].kind
        /\ m.cands = job[t].cands /\ m.tried = job[t].tried /\ m.attempt = job[t].attempt
    BY <1>2, <1>6, JobDoing, Zenon
  <1> HIDE DEF m
  <1>8. /\ nj \in Jobs /\ nj.pc = m.pc /\ nj.client = c /\ nj.host = m.host
        /\ nj.kind = m.kind /\ nj.cands = m.cands /\ nj.tried = m.tried /\ nj.attempt = m.attempt
    BY <1>7, JobUsing, Zenon
  <1> HIDE DEF nj
  <1>9. Tries(nj)
    BY <1>1, <1>2, <1>7, <1>8 DEF Tries, Seen
  <1>10. StillPooled(nj)
    BY <1>3, <1>7, <1>8 DEF StillPooled
  <1>11. \A g \in Hosts : ~On(job[t], g) /\ ~On(nj, g)
    BY <1>1, <1>7, <1>8 DEF On
  <1>12. Balance(job[t], nj)
    BY <1>1, <1>11, NothingSent
  <1>13. HostList'
    BY <1>1 DEF HostList, ClientInv
  <1> QED
    BY <1>4, <1>5, <1>8, <1>9, <1>10, <1>12, <1>13, JobStep

\* The candidates of a call are the hosts of the list, rotated.
LEMMA CandidatesAre ==
  ASSUME HostList, host # <<>>, NEW i \in 0 .. Len(host) - 1,
         NEW c \in SelectHosts("ROUND_ROBIN", host, EmptyRing, i, NoKey)
  PROVE  LET s == [n \in DOMAIN c |-> c[n].host]
         IN  s \in Seq(Hosts) /\ s # <<>> /\ IsInjective(s) /\ c[1].host \in Hosts
  <1> DEFINE D == [host : Hosts, load : Loads \cup {0}]
             a == i % Len(host)
             s == [n \in DOMAIN c |-> c[n].host]
  <1>1. host \in Seq(D) /\ Len(host) \in Nat /\ Len(host) >= 1
    BY DEF HostList
  <1>2. a \in Nat
    BY <1>1
  <1>3. c = Rotated(host, a)
    BY DEF SelectHosts
  <1> HIDE DEF a, D
  <1>4. /\ c \in Seq(D) /\ Len(c) = Len(host)
        /\ \A n \in 1 .. Len(host) :
             /\ ((a + n - 1) % Len(host)) + 1 \in 1 .. Len(host)
             /\ c[n] = host[((a + n - 1) % Len(host)) + 1]
        /\ \A n, k \in 1 .. Len(host) :
             ((a + n - 1) % Len(host)) + 1 = ((a + k - 1) % Len(host)) + 1 => n = k
    BY <1>1, <1>2, <1>3, RotatedIs
  <1>5. DOMAIN c = 1 .. Len(host) /\ \A n \in 1 .. Len(host) : c[n] \in D
    BY <1>4
  <1>6. \A n \in 1 .. Len(host) : c[n].host \in Hosts
    BY <1>5 DEF D
  <1>7. s \in [1 .. Len(host) -> Hosts]
    BY <1>5, <1>6
  <1>8. s \in Seq(Hosts) /\ Len(s) = Len(host) /\ s # <<>>
    BY <1>1, <1>7
  <1>9. IsInjective(s)
    <2> SUFFICES ASSUME NEW n \in 1 .. Len(host), NEW k \in 1 .. Len(host), s[n] = s[k]
                 PROVE  n = k
      BY <1>5 DEF IsInjective
    <2>1. c[n].host = c[k].host
      BY <1>5
    <2>2. \A x, y \in 1 .. Len(host) : host[x].host = host[y].host => x = y
      BY <1>1 DEF HostList
    <2> DEFINE x == ((a + n - 1) % Len(host)) + 1
               y == ((a + k - 1) % Len(host)) + 1
    <2>3. x \in 1 .. Len(host) /\ y \in 1 .. Len(host) /\ c[n] = host[x] /\ c[k] = host[y]
      BY <1>4
    <2>4. x = y => n = k
      BY <1>4, Zenon
    <2> HIDE DEF x, y
    <2> QED
      BY <2>1, <2>2, <2>3, <2>4
  <1>10. c[1].host \in Hosts
    BY <1>1, <1>6
  <1> QED
    BY <1>8, <1>9, <1>10

LEMMA StartCallStep ==
  ASSUME ClientInv, NEW t \in Callers, NEW kd \in CallKinds[t], StartCall(t, kd)
  PROVE  ClientInv'
  <1>1. PICK i \in 0 .. Len(host) - 1 :
          \E c \in SelectHosts("ROUND_ROBIN", host, EmptyRing, i, NoKey) :
            job' = [job EXCEPT ![t] =
              [pc |-> "pick", kind |-> kd, cands |-> [n \in DOMAIN c |-> c[n].host],
               tried |-> {}, attempt |-> 0, host |-> c[1].host, client |-> 0]]
    BY DEF StartCall
  <1>2. PICK c \in SelectHosts("ROUND_ROBIN", host, EmptyRing, i, NoKey) :
          job' = [job EXCEPT ![t] =
            [pc |-> "pick", kind |-> kd, cands |-> [n \in DOMAIN c |-> c[n].host],
             tried |-> {}, attempt |-> 0, host |-> c[1].host, client |-> 0]]
    BY <1>1
  <1> DEFINE s == [n \in DOMAIN c |-> c[n].host]
             nj == [pc |-> "pick", kind |-> kd, cands |-> s, tried |-> {}, attempt |-> 0,
                    host |-> c[1].host, client |-> 0]
  <1>3. job[t] = NoJob /\ host # <<>> /\ UNCHANGED <<host, poolVars, out, owed>>
    BY DEF StartCall
  <1>4. s \in Seq(Hosts) /\ s # <<>> /\ IsInjective(s) /\ c[1].host \in Hosts
    BY <1>3, CandidatesAre DEF ClientInv
  <1>5. kd \in {"sync", "future", "callback", "proto"} /\ "pick" \in Places
    BY Config DEF Places
  <1>6. job' = [job EXCEPT ![t] = nj]
    BY <1>2
  <1> HIDE DEF s
  <1>7. nj \in Jobs
    BY <1>4, <1>5 DEF Jobs
  <1>8. Tries(nj)
    <2>1. Len(s) \in Nat /\ Len(s) >= 1
      BY <1>4
    <2>2. nj.attempt <= IF nj.kind = "callback" THEN Len(nj.cands) - 1 ELSE MaxRetries
      BY <2>1, Config
    <2>3. Cardinality(nj.tried) = Seen(nj)
      BY FS_EmptySet DEF Seen
    <2> QED
      BY <1>4, <2>2, <2>3 DEF Tries
  <1>9. Pooled(nj)
    BY CountsAre DEF Pooled
  <1>10. \A h \in Hosts : ~On(job[t], h) /\ ~On(nj, h)
    BY <1>3 DEF On
  <1>11. Balance(job[t], nj)
    BY <1>3, <1>10, NothingSent
  <1> QED
    BY <1>3, <1>6, <1>7, <1>8, <1>9, <1>11, JobOnly

---------------------------------------------------------------------------
(* Notifications and faults.                                               *)

\* A host's first and only position in the list.
LEMMA PositionIs ==
  ASSUME HostList, NEW h \in HostsOf(host)
  PROVE  PositionOf(host, h) \in DOMAIN host /\ host[PositionOf(host, h)].host = h
  BY DEF HostsOf, PositionOf

LEMMA AppendKeeps ==
  ASSUME HostList, NEW h \in Hosts, NEW l \in Loads, NEW r,
         host' = AppendHost(host, r, h, l).host
  PROVE  HostList'
  <1> DEFINE D == [host : Hosts, load : Loads \cup {0}]
  <1>1. host \in Seq(D) /\ \A i, k \in DOMAIN host : host[i].host = host[k].host => i = k
    BY DEF HostList
  <1>2. CASE h \in HostsOf(host)
    <2> DEFINE p == PositionOf(host, h)
               d == [host[p] EXCEPT !.load = l]
    <2>1. p \in DOMAIN host /\ host' = [host EXCEPT ![p] = d]
      BY <1>2, PositionIs, Zenon DEF AppendHost
    <2>2. host[p] \in D
      <3> HIDE DEF D, p
      <3> QED
        BY <1>1, <2>1
    <2>3. d \in D /\ d.host = host[p].host
      BY <2>2
    <2> HIDE DEF d, D, p
    <2>4. host' \in Seq(D) /\ DOMAIN host' = DOMAIN host
      BY <1>1, <2>1, <2>3
    <2>5. \A i \in DOMAIN host : host'[i].host = host[i].host
      BY <2>1, <2>3
    <2> QED
      BY <1>1, <2>4, <2>5 DEF HostList, D
  <1>3. CASE h \notin HostsOf(host)
    <2> DEFINE d == [host |-> h, load |-> l]
    <2>1. host' = Append(host, d)
      BY <1>3 DEF AppendHost
    <2>2. d \in D /\ d.host = h
      OBVIOUS
    <2> HIDE DEF d, D
    <2>3. /\ host' \in Seq(D) /\ Len(host') = Len(host) + 1 /\ host'[Len(host) + 1] = d
          /\ \A i \in 1 .. Len(host) : host'[i] = host[i]
      BY <1>1, <2>1, <2>2
    <2>4. \A i \in 1 .. Len(host) : host[i].host # h
      BY <1>1, <1>3 DEF HostsOf
    <2>5. ASSUME NEW i \in 1 .. Len(host'), NEW k \in 1 .. Len(host'), host'[i].host = host'[k].host
          PROVE  i = k
      <3>1. Len(host) \in Nat
        BY <1>1
      <3>2. CASE i \in 1 .. Len(host) /\ k \in 1 .. Len(host)
        <4>1. host[i].host = host[k].host
          BY <2>3, <2>5, <3>2
        <4>2. i \in DOMAIN host /\ k \in DOMAIN host
          BY <1>1, <3>2
        <4> QED
          BY <1>1, <4>1, <4>2
      <3>3. CASE i \in 1 .. Len(host) /\ k = Len(host) + 1
        BY <2>2, <2>3, <2>4, <2>5, <3>3
      <3>4. CASE i = Len(host) + 1 /\ k \in 1 .. Len(host)
        BY <2>2, <2>3, <2>4, <2>5, <3>4
      <3> QED
        BY <2>3, <3>1, <3>2, <3>3, <3>4
    <2>6. DOMAIN host' = 1 .. Len(host')
      BY <2>3
    <2> QED
      BY <2>3, <2>5, <2>6 DEF HostList, D
  <1> QED
    BY <1>2, <1>3

LEMMA RemoveKeeps ==
  ASSUME HostList, NEW h \in HostsOf(host), NEW r, host' = RemoveHost(host, r, h).host
  PROVE  HostList'
  <1> DEFINE D == [host : Hosts, load : Loads \cup {0}]
             p == PositionOf(host, h)
  <1>1. host \in Seq(D) /\ \A i, k \in 1 .. Len(host) : host[i].host = host[k].host => i = k
    BY DEF HostList
  <1>2. p \in 1 .. Len(host)
    BY <1>1, PositionIs
  <1>3. host' = RemoveAt(host, p)
    BY DEF RemoveHost
  <1> HIDE DEF D, p
  <1>4. /\ host' \in Seq(D) /\ Len(host') = Len(host) - 1
        /\ \A k \in 1 .. Len(host) - 1 : host'[k] = host[IF k < p THEN k ELSE k + 1]
    BY <1>1, <1>2, <1>3, RemovedIs
  <1>5. ASSUME NEW i \in 1 .. Len(host'), NEW k \in 1 .. Len(host'), host'[i].host = host'[k].host
        PROVE  i = k
    <2> DEFINE x == IF i < p THEN i ELSE i + 1
               y == IF k < p THEN k ELSE k + 1
    <2>1. Len(host) \in Nat
      BY <1>1
    <2>2. x \in 1 .. Len(host) /\ y \in 1 .. Len(host) /\ (x = y => i = k)
      BY <1>2, <1>4, <2>1
    <2>3. host'[i] = host[x] /\ host'[k] = host[y]
      BY <1>4
    <2> HIDE DEF x, y
    <2> QED
      BY <1>1, <1>5, <2>2, <2>3
  <1>6. DOMAIN host' = 1 .. Len(host')
    BY <1>4
  <1> QED
    BY <1>4, <1>5, <1>6 DEF HostList, D

\* The pool as it is.
LEMMA PoolSame ==
  ASSUME ClientInv, UNCHANGED <<pool, clients, erased>>, up' \subseteq up
  PROVE  PoolGoesOn
  BY DEF ClientInv, PoolGoesOn

LEMMA OnlineStep ==
  ASSUME ClientInv, NEW h \in Hosts, NEW l \in Loads, Online(h, l)
  PROVE  ClientInv'
  <1>1. UNCHANGED <<pool, clients, erased, up, job, out, owed>>
    BY DEF Online, poolVars
  <1>2. HostList'
    BY AppendKeeps DEF Online, ClientInv
  <1> QED
    BY <1>1, <1>2, PoolSame, WorldStep

LEMMA OfflineStep ==
  ASSUME ClientInv, NEW h \in Hosts, Offline(h)
  PROVE  ClientInv'
  <1>1. UNCHANGED <<pool, clients, erased, up, job, out, owed>>
    BY DEF Offline, poolVars
  <1>2. HostList'
    BY RemoveKeeps DEF Offline, ClientInv
  <1> QED
    BY <1>1, <1>2, PoolSame, WorldStep

LEMMA DelClientStep ==
  ASSUME ClientInv, NEW h \in Hosts, DelClient(h)
  PROVE  ClientInv'
  <1>1. /\ UNCHANGED <<host, clients, up, job, out, owed>>
        /\ pool' = [pool EXCEPT ![h] = 0] /\ erased' = erased \cup ({pool[h]} \ {0})
    BY DEF DelClient
  <1>2. /\ pool \in [Hosts -> 0 .. clients] /\ clients \in 0 .. MaxClients /\ clients \in Nat
        /\ up \subseteq 1 .. clients /\ erased \subseteq 1 .. clients
    BY CountsAre DEF ClientInv
  <1>3. erased' \subseteq 1 .. clients
    <2>1. pool[h] \in 0 .. clients
      BY <1>2
    <2>2. {pool[h]} \ {0} \subseteq 1 .. clients
      BY <1>2, <2>1
    <2> QED
      BY <1>1, <1>2, <2>2
  <1>4. \A g \in Hosts : pool'[g] = pool[g] \/ pool[g] = 0 \/ pool[g] \in erased'
    BY <1>1, <1>2
  <1>5. PoolGoesOn
    BY <1>1, <1>2, <1>3, <1>4 DEF PoolGoesOn
  <1>6. HostList'
    BY <1>1 DEF HostList, ClientInv
  <1> QED
    BY <1>1, <1>5, <1>6, WorldStep

LEMMA FaultStep ==
  ASSUME ClientInv, (\E h \in Hosts : HostDies(h)) \/ (\E c \in Clients : LinkBreaks(c))
  PROVE  ClientInv'
  <1>1. UNCHANGED <<host, pool, clients, erased, job, out, owed>> /\ up' \subseteq up
    BY DEF HostDies, LinkBreaks
  <1>2. HostList'
    BY <1>1 DEF HostList, ClientInv
  <1> QED
    BY <1>1, <1>2, PoolSame, WorldStep

---------------------------------------------------------------------------
(* The invariant.                                                          *)

LEMMA ClientInvInit == ClientInit => ClientInv
  <1> SUFFICES ASSUME ClientInit PROVE ClientInv
    OBVIOUS
  <1> DEFINE D == {[host |-> h, load |-> 0] : h \in Listed}
  <1>1. host = SetToSeq(D)
    BY DEF ClientInit
  <1>2. IsFiniteSet(D)
    <2> DEFINE f == [h \in Listed |-> [host |-> h, load |-> 0]]
    <2>1. f \in Surjection(Listed, D)
      BY DEF Surjection
    <2> HIDE DEF f, D
    <2> QED
      BY <2>1, Config, FS_Surjection
  <1>3. D \subseteq [host : Hosts, load : Loads \cup {0}]
    BY Config
  <1>4. \A x, y \in D : x.host = y.host => x = y
    OBVIOUS
  <1> HIDE DEF D
  <1>5. host \in Seq(D) /\ \A i, k \in 1 .. Len(host) : host[i] = host[k] => i = k
    BY <1>1, <1>2, SetToSeqIs
  <1>6. HostList
    <2>1. \A i \in 1 .. Len(host) : host[i] \in D
      BY <1>5
    <2>2. host \in Seq([host : Hosts, load : Loads \cup {0}]) /\ DOMAIN host = 1 .. Len(host)
      <3> DEFINE E == [host : Hosts, load : Loads \cup {0}]
      <3>1. D \subseteq E
        BY <1>3
      <3> HIDE DEF E
      <3>2. host \in [1 .. Len(host) -> E] /\ Len(host) \in Nat
        BY <1>5, <2>1, <3>1
      <3>3. host \in Seq(E)
        BY <3>2
      <3> QED
        BY <3>2, <3>3 DEF E
    <2> QED
      BY <1>4, <1>5, <2>1, <2>2 DEF HostList
  <1>7. job = [t \in Callers |-> NoJob] /\ out = [h \in Hosts |-> 0] /\ owed = [h \in Hosts |-> 0]
    BY DEF ClientInit
  <1>8. Ledger
    <2> SUFFICES ASSUME NEW h \in Hosts PROVE owed[h] = Cardinality(OnItsWay(h)) + out[h]
      BY DEF Ledger
    <2>1. OnItsWay(h) = {}
      BY <1>7 DEF OnItsWay
    <2> QED
      BY <1>7, <2>1, FS_EmptySet
  <1>9. /\ pool \in [Hosts -> 0 .. clients] /\ clients \in 0 .. MaxClients
        /\ up \subseteq 1 .. clients /\ erased \subseteq 1 .. clients
    BY Config DEF ClientInit
  <1> QED
    BY <1>6, <1>7, <1>8, <1>9 DEF ClientInv

LEMMA CallStepKeeps ==
  ASSUME ClientInv, NEW t \in Callers, CallStep(t)
  PROVE  ClientInv'
  <1>1. CASE Pick(t)
    BY <1>1, PickStep
  <1>2. CASE NewClient(t)
    BY <1>2, NewClientStep
  <1>3. CASE ConnectionUnavailable(t) \/ Rejected(t)
    BY <1>3, UnaskedStep
  <1>4. CASE Admitted(t)
    BY <1>4, AdmittedStep
  <1>5. CASE AttemptSendFails(t)
    BY <1>5, EndsStep DEF AttemptSendFails
  <1>6. CASE SyncTimesOut(t)
    BY <1>6, EndsStep DEF SyncTimesOut
  <1>7. CASE SendFuture(t)
    BY <1>7, WaitingStep DEF SendFuture
  <1>8. CASE SendCallback(t)
    BY <1>8, SendCallbackStep
  <1>9. CASE FutureTimesOut(t)
    BY <1>9, FutureTimesOutStep
  <1> QED
    BY <1>1, <1>2, <1>3, <1>4, <1>5, <1>6, <1>7, <1>8, <1>9 DEF CallStep

LEMMA ResponseStep ==
  ASSUME ClientInv, NEW t \in Callers, NEW code, SyncResponse(t, code)
  PROVE  ClientInv'
  <1>1. job[t].pc \in {"send", "resend"} /\ UNCHANGED <<host, poolVars, out>>
    BY DEF SyncResponse
  <1>2. CASE \E err : Ends(t, err)
    BY <1>1, <1>2, EndsStep
  <1>3. CASE job' = [job EXCEPT ![t].pc = "resend"] /\ UNCHANGED owed
    BY <1>1, <1>3, WaitingStep
  <1> QED
    BY <1>2, <1>3 DEF SyncResponse

LEMMA ClientInvStep == ClientInv /\ [ClientNext]_clientVars => ClientInv'
  <1> SUFFICES ASSUME ClientInv, [ClientNext]_clientVars PROVE ClientInv'
    OBVIOUS
  <1>1. CASE UNCHANGED clientVars
    <2>1. UNCHANGED <<host, pool, clients, up, erased, job, out, owed>>
      BY <1>1 DEF clientVars, poolVars
    <2>2. HostList'
      BY <2>1 DEF HostList, ClientInv
    <2> QED
      BY <2>1, <2>2, PoolSame, WorldStep
  <1>2. ASSUME NEW h \in Hosts, NEW l \in Loads, Online(h, l) PROVE ClientInv'
    BY <1>2, OnlineStep
  <1>3. ASSUME NEW h \in Hosts, Offline(h) PROVE ClientInv'
    BY <1>3, OfflineStep
  <1>4. ASSUME NEW h \in Hosts, DelClient(h) PROVE ClientInv'
    BY <1>4, DelClientStep
  <1>5. ASSUME NEW h \in Hosts, LateAnswer(h) PROVE ClientInv'
    BY <1>5, LateAnswerStep
  <1>6. CASE (\E h \in Hosts : HostDies(h)) \/ (\E c \in Clients : LinkBreaks(c))
    BY <1>6, FaultStep
  <1>7. ASSUME NEW t \in Callers, NEW k \in CallKinds[t], StartCall(t, k) PROVE ClientInv'
    BY <1>7, StartCallStep
  <1>8. ASSUME NEW t \in Callers, CallStep(t) PROVE ClientInv'
    BY <1>8, CallStepKeeps
  <1>9. ASSUME NEW t \in Callers, NEW code, SyncResponse(t, code) PROVE ClientInv'
    BY <1>9, ResponseStep
  <1>10. ASSUME NEW t \in Callers, FutureAnswered(t) PROVE ClientInv'
    BY <1>10, FutureAnsweredStep
  <1> QED
    BY <1>1, <1>2, <1>3, <1>4, <1>5, <1>6, <1>7, <1>8, <1>9, <1>10 DEF ClientNext

\* For every number of threads and hosts: no call works on a client that another
\* thread's replaced in newClient, and pickUntriedCandidate never comes back to a
\* host before its turn.
THEOREM CallsAreSafe == ClientSpec => []CallsSafe
  <1>1. ClientInv => CallsSafe
    <2> SUFFICES ASSUME ClientInv PROVE CallsSafe
      OBVIOUS
    <2>1. HostsOf(host) \subseteq Hosts
      <3> DEFINE E == [host : Hosts, load : Loads \cup {0}]
      <3>1. host \in Seq(E)
        BY DEF ClientInv, HostList
      <3>2. \A e \in E : e.host \in Hosts
        OBVIOUS
      <3> HIDE DEF E
      <3>3. \A i \in DOMAIN host : host[i] \in E
        BY <3>1
      <3> QED
        BY <3>2, <3>3 DEF HostsOf
    <2>2. ASSUME NEW t \in Callers, job[t] # NoJob
          PROVE  /\ job[t].host \in Hosts /\ job[t].client \in 0 .. clients
                 /\ job[t].attempt \in 0 .. IF job[t].kind = "callback" THEN Len(job[t].cands) - 1
                                           ELSE MaxRetries
                 /\ job[t].client # 0 /\ job[t].pc # "pick"
                      => job[t].client = pool[job[t].host] \/ job[t].client \in erased
                 /\ job[t].pc # "pick" /\ job[t].kind # "callback"
                      => Cardinality(job[t].tried) = (job[t].attempt % Len(job[t].cands)) + 1
      <3>1. /\ job[t].host \in Hosts /\ job[t].attempt \in Nat /\ job[t].client \in Nat
            /\ Len(job[t].cands) \in Nat /\ clients \in Nat /\ MaxRetries \in Nat
        BY <2>2, JobIs, CountsAre, Config DEF Jobs
      <3>2. /\ job[t].client <= clients
            /\ job[t].client # 0 /\ job[t].pc # "pick"
                 => job[t].client = pool[job[t].host] \/ job[t].client \in erased
        BY <2>2, JobIs DEF Pooled
      <3>3. job[t].attempt <= IF job[t].kind = "callback" THEN Len(job[t].cands) - 1 ELSE MaxRetries
        BY <2>2, JobIs DEF Tries
      <3>4. job[t].pc # "pick" /\ job[t].kind # "callback"
              => Cardinality(job[t].tried) = (job[t].attempt % Len(job[t].cands)) + 1
        BY <2>2, JobIs DEF Tries, Seen
      <3>5. job[t].attempt \in 0 .. IF job[t].kind = "callback" THEN Len(job[t].cands) - 1
                                   ELSE MaxRetries
        BY <3>1, <3>3
      <3> QED
        BY <3>1, <3>2, <3>4, <3>5
    <2>3. ClientTypeOK
      BY <2>1, <2>2 DEF ClientTypeOK, ClientInv
    <2>4. UsesPooled /\ TriesAll
      BY <2>2 DEF UsesPooled, TriesAll
    <2> QED
      BY <2>3, <2>4 DEF CallsSafe
  <1> QED
    BY <1>1, ClientInvInit, ClientInvStep, PTL DEF ClientSpec

\* For every number of threads and hosts: allowRequest and the reports of the
\* calls balance, whichever of them time out, fail or are answered late.
THEOREM LedgerBalances == ClientSpec => []Ledger
  <1>1. ClientInv => Ledger
    BY DEF ClientInv
  <1> QED
    BY <1>1, ClientInvInit, ClientInvStep, PTL DEF ClientSpec

---------------------------------------------------------------------------
(* MethodHost, for lists of every length.                                  *)

\* The greatest element of a set of numbers that has a bound.
LEMMA MaxIs ==
  ASSUME NEW n \in Nat, NEW S \in SUBSET (1 .. n), S # {}
  PROVE  Max(S) \in S /\ \A y \in S : y <= Max(S)
  <1> DEFINE T == {n - i : i \in S}
  <1>1. T \in SUBSET Nat /\ T # {}
    <2>1. \A i \in S : n - i \in Nat
      OBVIOUS
    <2> QED
      BY <2>1
  <1> HIDE DEF T
  <1>2. Min(T) \in T /\ \A y \in T : Min(T) <= y
    BY <1>1, MinIs
  <1>3. PICK x \in S : Min(T) = n - x
    BY <1>2 DEF T
  <1>4. \A y \in S : y <= x
    <2> SUFFICES ASSUME NEW y \in S PROVE y <= x
      OBVIOUS
    <2>1. n - y \in T
      BY DEF T
    <2>2. n - x <= n - y
      BY <1>2, <1>3, <2>1
    <2>3. x \in Nat /\ y \in Nat
      OBVIOUS
    <2> QED
      BY <2>2, <2>3
  <1> QED
    BY <1>4 DEF Max

\* A list in which every host is once.
IsHostList(hs) ==
  /\ hs \in Seq(Details)
  /\ \A i, k \in DOMAIN hs : hs[i].host = hs[k].host => i = k

\* The ring that rebuildRing makes of a list leads to the hosts of its points.
LEMMA RingIs ==
  ASSUME NEW hs, IsHostList(hs), NEW p \in DOMAIN RebuildRing(hs)
  PROVE  RebuildRing(hs)[p] \in DOMAIN hs /\ p \in VirtualNodes[hs[RebuildRing(hs)[p]].host]
  <1> DEFINE S == {i \in DOMAIN hs : p \in VirtualNodes[hs[i].host]}
  <1>1. DOMAIN hs = 1 .. Len(hs) /\ Len(hs) \in Nat
    BY DEF IsHostList
  <1>2. p \in UNION {VirtualNodes[h] : h \in HostsOf(hs)} /\ RebuildRing(hs)[p] = Max(S)
    BY DEF RebuildRing
  <1>3. S # {} /\ S \in SUBSET (1 .. Len(hs))
    BY <1>1, <1>2 DEF HostsOf
  <1>4. Max(S) \in S
    <2> HIDE DEF S
    <2> QED
      BY <1>1, <1>3, MaxIs
  <1> QED
    BY <1>2, <1>4

\* Appending the points of a new host alone makes the ring a rebuild would make.
LEMMA InsertedIs ==
  ASSUME NEW hs, IsHostList(hs), NEW h \in Hosts, h \notin HostsOf(hs), NEW l \in Loads
  PROVE  LET new == Append(hs, [host |-> h, load |-> l])
         IN  InsertNodes(RebuildRing(hs), new, Len(new)) = RebuildRing(new)
  <1> DEFINE d == [host |-> h, load |-> l]
             new == Append(hs, d)
             n == Len(hs)
             V(i) == VirtualNodes[new[i].host]
             old == RebuildRing(hs)
             S(p) == {i \in DOMAIN hs : p \in VirtualNodes[hs[i].host]}
             T(p) == {i \in DOMAIN new : p \in VirtualNodes[new[i].host]}
             all == UNION {VirtualNodes[g] : g \in HostsOf(new)}
  <1>1. n \in Nat /\ DOMAIN hs = 1 .. n /\ hs \in Seq(Details)
    BY DEF IsHostList
  <1>2. d \in Details /\ d.host = h
    BY DEF Details
  <1> HIDE DEF d
  <1>3. /\ Len(new) = n + 1 /\ DOMAIN new = 1 .. n + 1 /\ new[n + 1] = d
        /\ \A i \in 1 .. n : new[i] = hs[i]
    BY <1>1, <1>2
  <1> HIDE DEF new, n
  <1>4. HostsOf(new) = HostsOf(hs) \cup {h}
    BY <1>1, <1>2, <1>3 DEF HostsOf
  <1>5. all = DOMAIN old \cup VirtualNodes[h]
    BY <1>4 DEF RebuildRing
  <1>6. ASSUME NEW p \in all
        PROVE  (IF p \in VirtualNodes[h] THEN n + 1 ELSE old[p]) = Max(T(p))
    <2>1. CASE p \in VirtualNodes[h]
      <3>1. n + 1 \in T(p) /\ \A y \in T(p) : y <= n + 1 /\ y \in Nat
        BY <1>1, <1>2, <1>3, <2>1
      <3> HIDE DEF T
      <3>2. \A x \in T(p) : (\A y \in T(p) : x >= y) => x = n + 1
        BY <1>1, <3>1
      <3>3. \A y \in T(p) : n + 1 >= y
        BY <1>1, <3>1
      <3>4. Max(T(p)) = n + 1
        BY <3>1, <3>2, <3>3 DEF Max
      <3> QED
        BY <2>1, <3>4
    <2>2. CASE p \notin VirtualNodes[h]
      <3>1. T(p) = S(p)
        BY <1>1, <1>2, <1>3, <2>2
      <3>2. p \in DOMAIN old
        BY <1>5, <1>6, <2>2
      <3>3. old[p] = Max(S(p))
        BY <3>2 DEF RebuildRing
      <3> QED
        BY <2>2, <3>1, <3>3
    <2> QED
      BY <2>1, <2>2
  <1>7. new[Len(new)].host = h
    BY <1>2, <1>3
  <1>8. InsertNodes(old, new, Len(new)) = [p \in all |-> IF p \in VirtualNodes[h] THEN n + 1 ELSE old[p]]
    BY <1>3, <1>5, <1>7 DEF InsertNodes
  <1>9. RebuildRing(new) = [p \in all |-> Max(T(p))]
    BY DEF RebuildRing
  <1>10. InsertNodes(old, new, Len(new)) = RebuildRing(new)
    BY <1>6, <1>8, <1>9
  <1> QED
    BY <1>10 DEF new, d

\* appendHost and removeHost, for every list: the ring is the one that a rebuild
\* would make of the new list, and leads to the hosts of its points.
THEOREM RingFollows ==
  ASSUME NEW hs, IsHostList(hs), NEW h \in Hosts, NEW l \in Loads,
         NEW new \in {AppendHost(hs, RebuildRing(hs), h, l), RemoveHost(hs, RebuildRing(hs), h)}
  PROVE  /\ IsHostList(new.host)
         /\ new.ring = RebuildRing(new.host)
         /\ \A p \in DOMAIN new.ring :
              new.ring[p] \in DOMAIN new.host /\ p \in VirtualNodes[new.host[new.ring[p]].host]
  <1>1. CASE h \in HostsOf(hs) /\ new = AppendHost(hs, RebuildRing(hs), h, l)
    <2> DEFINE p == PositionOf(hs, h)
               d == [hs[p] EXCEPT !.load = l]
    <2>1. p \in DOMAIN hs
      BY <1>1 DEF HostsOf, PositionOf
    <2>2. new = [host |-> [hs EXCEPT ![p] = d], ring |-> RebuildRing(hs)]
      BY <1>1, Zenon DEF AppendHost
    <2>3. hs \in Seq(Details) /\ hs[p] \in Details
      <3> HIDE DEF p
      <3> QED
        BY <2>1 DEF IsHostList
    <2>4. d \in Details /\ d.host = hs[p].host
      BY <2>3 DEF Details
    <2> HIDE DEF d, p
    <2>5. /\ new.host \in Seq(Details) /\ DOMAIN new.host = DOMAIN hs
          /\ \A i \in DOMAIN hs : new.host[i].host = hs[i].host
      BY <2>1, <2>2, <2>3, <2>4
    <2>6. IsHostList(new.host)
      BY <2>5 DEF IsHostList
    <2>7. HostsOf(new.host) = HostsOf(hs)
      BY <2>5 DEF HostsOf
    <2>8. RebuildRing(new.host) = RebuildRing(hs)
      <3>1. \A q : {i \in DOMAIN new.host : q \in VirtualNodes[new.host[i].host]}
                     = {i \in DOMAIN hs : q \in VirtualNodes[hs[i].host]}
        BY <2>5
      <3> QED
        BY <2>7, <3>1 DEF RebuildRing
    <2> QED
      BY <2>2, <2>6, <2>8, RingIs
  <1>2. CASE h \notin HostsOf(hs) /\ new = AppendHost(hs, RebuildRing(hs), h, l)
    <2> DEFINE d == [host |-> h, load |-> l]
               s == Append(hs, d)
    <2>1. new = [host |-> s, ring |-> InsertNodes(RebuildRing(hs), s, Len(s))]
      BY <1>2 DEF AppendHost
    <2>2. new.host = s /\ new.ring = RebuildRing(s)
      BY <1>2, <2>1, InsertedIs
    <2>3. d \in Details /\ d.host = h
      BY DEF Details
    <2> HIDE DEF d
    <2>4. hs \in Seq(Details) /\ \A i \in 1 .. Len(hs) : hs[i].host # h
      BY <1>2 DEF IsHostList, HostsOf
    <2>5. /\ s \in Seq(Details) /\ DOMAIN s = 1 .. Len(hs) + 1 /\ s[Len(hs) + 1] = d
          /\ \A i \in 1 .. Len(hs) : s[i] = hs[i]
      BY <2>3, <2>4
    <2> HIDE DEF s
    <2>6. ASSUME NEW i \in DOMAIN s, NEW k \in DOMAIN s, s[i].host = s[k].host
          PROVE  i = k
      <3>1. Len(hs) \in Nat
        BY <2>4
      <3>2. CASE i \in 1 .. Len(hs) /\ k \in 1 .. Len(hs)
        BY <2>4, <2>5, <2>6, <3>2 DEF IsHostList
      <3>3. CASE i \in 1 .. Len(hs) /\ k = Len(hs) + 1
        BY <2>3, <2>4, <2>5, <2>6, <3>3
      <3>4. CASE i = Len(hs) + 1 /\ k \in 1 .. Len(hs)
        BY <2>3, <2>4, <2>5, <2>6, <3>4
      <3> QED
        BY <2>5, <2>6, <3>1, <3>2, <3>3, <3>4
    <2>7. IsHostList(s)
      BY <2>5, <2>6 DEF IsHostList
    <2> QED
      BY <2>2, <2>7, RingIs
  <1>3. CASE h \in HostsOf(hs) /\ new = RemoveHost(hs, RebuildRing(hs), h)
    <2> DEFINE p == PositionOf(hs, h)
               s == RemoveAt(hs, p)
    <2>1. hs \in Seq(Details) /\ p \in 1 .. Len(hs)
      BY <1>3 DEF HostsOf, PositionOf, IsHostList
    <2>2. new.host = s /\ new.ring = RebuildRing(s)
      BY <1>3 DEF RemoveHost
    <2> HIDE DEF p
    <2>3. /\ s \in Seq(Details) /\ Len(s) = Len(hs) - 1
          /\ \A k \in 1 .. Len(hs) - 1 : s[k] = hs[IF k < p THEN k ELSE k + 1]
      BY <2>1, RemovedIs
    <2> HIDE DEF s
    <2>4. ASSUME NEW i \in 1 .. Len(s), NEW k \in 1 .. Len(s), s[i].host = s[k].host
          PROVE  i = k
      <3> DEFINE x == IF i < p THEN i ELSE i + 1
                 y == IF k < p THEN k ELSE k + 1
      <3>1. Len(hs) \in Nat
        BY <2>1
      <3>2. x \in 1 .. Len(hs) /\ y \in 1 .. Len(hs) /\ (x = y => i = k)
        BY <2>1, <2>3, <3>1
      <3>3. s[i] = hs[x] /\ s[k] = hs[y]
        BY <2>3
      <3> HIDE DEF x, y
      <3>4. \A a, b \in 1 .. Len(hs) : hs[a].host = hs[b].host => a = b
        BY <2>1 DEF IsHostList
      <3> QED
        BY <2>4, <3>2, <3>3, <3>4
    <2>5. DOMAIN s = 1 .. Len(s)
      BY <2>3
    <2>6. IsHostList(s)
      BY <2>3, <2>4, <2>5 DEF IsHostList
    <2> QED
      BY <2>2, <2>6, RingIs
  <1>4. CASE h \notin HostsOf(hs) /\ new = RemoveHost(hs, RebuildRing(hs), h)
    <2>1. new.host = hs /\ new.ring = RebuildRing(hs)
      BY <1>4 DEF RemoveHost
    <2> QED
      BY <2>1, RingIs
  <1> QED
    BY <1>1, <1>2, <1>3, <1>4

\* For every list the rotation goes on where _idx is cut back at its limit, and
\* the candidates of a call are all hosts, the next in turn in front.
THEOREM RotationServesAll ==
  ASSUME NEW hs \in Seq(Details), hs # <<>>, NEW i \in Nat
  PROVE  /\ PickRoundRobin(hs, NextIdx(hs, i)) = PickRoundRobin(hs, (i + 1) % Len(hs))
         /\ \A c \in SelectHosts("ROUND_ROBIN", hs, RebuildRing(hs), i, NoKey) :
              /\ Len(c) = Len(hs) /\ Range(c) = Range(hs)
              /\ c[1] \in SelectHost("ROUND_ROBIN", hs, RebuildRing(hs), i, NoKey)
  <1> DEFINE n == Len(hs)
             a == i % n
  <1>1. n \in Nat \ {0} /\ DOMAIN hs = 1 .. n
    OBVIOUS
  <1> HIDE DEF n
  <1>2. \A x \in Nat : x % n \in 0 .. n - 1 /\ (x % n) % n = x % n
    <2> SUFFICES ASSUME NEW x \in Nat PROVE x % n \in 0 .. n - 1 /\ (x % n) % n = x % n
      OBVIOUS
    <2>1. x % n \in 0 .. n - 1
      BY <1>1
    <2>2. x % n \in Int /\ x % n = n * 0 + (x % n)
      BY <1>1, <2>1
    <2> QED
      BY <1>1, <2>1, <2>2, ModIs
  <1>3. PickRoundRobin(hs, NextIdx(hs, i)) = PickRoundRobin(hs, (i + 1) % n)
    <2>1. CASE i + 1 >= MAX_IDX
      BY <2>1 DEF NextIdx, n
    <2>2. CASE ~(i + 1 >= MAX_IDX)
      <3>1. NextIdx(hs, i) = i + 1
        BY <2>2 DEF NextIdx
      <3>2. ((i + 1) % n) % n = (i + 1) % n
        BY <1>2
      <3> QED
        BY <3>1, <3>2 DEF PickRoundRobin, n
    <2> QED
      BY <2>1, <2>2
  <1>4. ASSUME NEW c \in SelectHosts("ROUND_ROBIN", hs, RebuildRing(hs), i, NoKey)
        PROVE  /\ Len(c) = n /\ Range(c) = Range(hs)
               /\ c[1] \in SelectHost("ROUND_ROBIN", hs, RebuildRing(hs), i, NoKey)
    <2> DEFINE f == [k \in 1 .. n |-> ((a + k - 1) % n) + 1]
    <2>1. c = Rotated(hs, a)
      BY <1>4 DEF SelectHosts, n
    <2>2. a \in Nat /\ a % n = a
      <3>1. i % n \in 0 .. n - 1 /\ (i % n) % n = i % n
        BY <1>2
      <3> QED
        BY <1>1, <3>1
    <2> HIDE DEF a
    <2>3. /\ Rotated(hs, a) \in Seq(Details) /\ Len(Rotated(hs, a)) = Len(hs)
          /\ \A k \in 1 .. Len(hs) :
               /\ ((a + k - 1) % Len(hs)) + 1 \in 1 .. Len(hs)
               /\ Rotated(hs, a)[k] = hs[((a + k - 1) % Len(hs)) + 1]
          /\ \A k, m \in 1 .. Len(hs) :
               ((a + k - 1) % Len(hs)) + 1 = ((a + m - 1) % Len(hs)) + 1 => k = m
      BY <2>2, RotatedIs
    <2>4. /\ c \in Seq(Details) /\ Len(c) = n /\ \A k \in 1 .. n : f[k] \in 1 .. n /\ c[k] = hs[f[k]]
          /\ \A k, m \in 1 .. n : f[k] = f[m] => k = m
      BY <2>1, <2>3 DEF n
    <2>5. f \in Injection(1 .. n, 1 .. n)
      BY <2>4 DEF Injection, IsInjective
    <2>6. f[1] = a + 1
      <3>1. 1 \in 1 .. n /\ a + 1 - 1 = a
        BY <1>1, <2>2
      <3> QED
        BY <2>2, <3>1
    <2> HIDE DEF f
    <2>7. f \in Surjection(1 .. n, 1 .. n)
      <3>1. IsFiniteSet(1 .. n)
        BY <1>1, FS_Interval
      <3> QED
        BY <2>5, <3>1, FS_Injection
    <2>8. DOMAIN c = 1 .. n
      BY <2>4
    <2>9. Range(c) = Range(hs)
      <3>1. Range(c) \subseteq Range(hs)
        BY <1>1, <2>4, <2>8 DEF Range
      <3>2. ASSUME NEW m \in 1 .. n
            PROVE  hs[m] \in Range(c)
        <4>1. PICK k \in 1 .. n : f[k] = m
          BY <2>7 DEF Surjection
        <4>2. c[k] = hs[f[k]] /\ k \in DOMAIN c
          BY <2>4, <2>8, Zenon
        <4> QED
          BY <4>1, <4>2 DEF Range
      <3> QED
        BY <1>1, <3>1, <3>2 DEF Range
    <2>10. c[1] = hs[a + 1]
      BY <1>1, <2>4, <2>6
    <2>11. SelectHost("ROUND_ROBIN", hs, RebuildRing(hs), i, NoKey) = {hs[a + 1]}
      BY DEF SelectHost, PickRoundRobin, a, n
    <2> QED
      BY <2>4, <2>9, <2>10, <2>11
  <1> QED
    BY <1>3, <1>4 DEF n

=============================================================================
