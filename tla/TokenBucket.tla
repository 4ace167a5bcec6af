----------------------------- MODULE TokenBucket -----------------------------
(***************************************************************************)
(* The token bucket of general/rate_limiter.hpp, called by several         *)
(* threads.  allow() reads the clock before it takes the lock, so that the *)
(* time it stores can be older than the one stored before: elapsed is      *)
(* negative and the tokens shrink, below zero if need be.                  *)
(*                                                                         *)
(* Time and tokens are integers: a tick is the time in which Rate tokens   *)
(* are made.                                                               *)
(***************************************************************************)
EXTENDS Integers

CONSTANTS
  Threads,    \* threads that call allow()
  Rate,       \* _rate, tokens per tick
  Burst,      \* _burst
  MaxTime     \* bound on the clock

ASSUME BucketAssumption ==
  /\ Rate \in Nat
  /\ Burst \in Nat
  /\ MaxTime \in Nat

VARIABLES
  now,        \* steady_clock
  tokens,     \* _tokens
  last,       \* _last_refill
  seen,       \* now_sec of a thread inside allow(), Outside otherwise
  admitted    \* history: calls that returned true

bucketVars == <<now, tokens, last, seen, admitted>>

Outside == -1

BucketInit ==
  /\ now = 0
  /\ tokens = Burst
  /\ last = 0
  /\ seen = [t \in Threads |-> Outside]
  /\ admitted = 0

Tick ==
  /\ now < MaxTime
  /\ now' = now + 1
  /\ UNCHANGED <<tokens, last, seen, admitted>>

\* double now_sec = nowSeconds(), outside the lock.
ReadClock(t) ==
  /\ seen[t] = Outside
  /\ seen' = [seen EXCEPT ![t] = now]
  /\ UNCHANGED <<now, tokens, last, admitted>>

\* Deviation: the bucket has no bound.
RefilledUnbounded(t) == tokens + Rate * (seen[t] - last)

\* The tokens after the refill.
Refilled(t) ==
  IF tokens + Rate * (seen[t] - last) > Burst
    THEN Burst ELSE tokens + Rate * (seen[t] - last)

\* Deviation: the time of the refill is not stored.
LeaveKeepsTime(t) ==
  /\ last' = last
  /\ seen' = [seen EXCEPT ![t] = Outside]
  /\ now' = now

\* The lock is released with the time of the refill stored.
Leave(t) ==
  /\ last' = seen[t]
  /\ seen' = [seen EXCEPT ![t] = Outside]
  /\ now' = now

\* The rest of allow(), under the lock: a token is taken ...
Admit(t) ==
  /\ seen[t] # Outside
  /\ Refilled(t) >= 1
  /\ tokens' = Refilled(t) - 1
  /\ admitted' = admitted + 1
  /\ Leave(t)

\* ... or there is none.
Deny(t) ==
  /\ seen[t] # Outside
  /\ Refilled(t) < 1
  /\ tokens' = Refilled(t)
  /\ admitted' = admitted
  /\ Leave(t)

BucketNext == Tick \/ \E t \in Threads : ReadClock(t) \/ Admit(t) \/ Deny(t)

BucketSpec == BucketInit /\ [][BucketNext]_bucketVars

---------------------------------------------------------------------------
\* Types; the bucket is never fuller than _burst, and no stored or remembered
\* time lies in the future.
BucketTypeOK ==
  /\ now \in Nat
  /\ tokens \in Int
  /\ tokens <= Burst
  /\ last \in 0 .. now
  /\ seen \in [Threads -> Nat \cup {Outside}]
  /\ \A t \in Threads : seen[t] <= now
  /\ admitted \in Nat

\* The promise of the limiter, whatever the interleaving of the threads: since
\* the bucket was made at most Burst calls plus Rate per tick were let through,
\* although allow() may go by a time older than the last refill.
AdmitBound == admitted <= Burst + Rate * now

\* What makes it inductive: no token is counted twice, neither as admitted nor
\* in the bucket, up to the time of the last refill.
NoTokenTwice == admitted + tokens <= Burst + Rate * last

BucketInv == BucketTypeOK /\ AdmitBound /\ NoTokenTwice
=============================================================================
