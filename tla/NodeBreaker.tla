---------------------------- MODULE NodeBreaker ----------------------------
(***************************************************************************)
(* client/node_breaker.{hpp,cpp}: the circuit breaker of one method on one *)
(* host, as the calls of RpcCaller use it.  Every operation is one         *)
(* critical section of the breaker's mutex.  Between allowRequest and the  *)
(* report of its outcome a call is in flight, for as long as it likes, so  *)
(* that outcomes arrive in states other than the one that admitted them.   *)
(*                                                                         *)
(* Time is the rest of the cooling period in seconds: elapsed >= open_     *)
(* duration_sec holds exactly when it is 0.                                *)
(***************************************************************************)
EXTENDS Integers, Sequences, FiniteSets

CONSTANTS
  WindowSize, MinCalls, FailureRatio,   \* CircuitConfig: the sliding window
  OpenDuration,                         \* open_duration_sec
  HalfOpenMax,                          \* half_open_max_req
  Calls,                                \* calls that can be in flight at once
  Outcomes,                             \* how a call can end
  MaxHalf                               \* bound: value of the half_open counter

ASSUME BreakerAssumption ==
  /\ WindowSize \in Int /\ MinCalls \in Int /\ FailureRatio \in Int
  /\ OpenDuration \in Nat /\ HalfOpenMax \in Int /\ MaxHalf \in Nat
  /\ Outcomes \subseteq {"success", "failure", "lost"}

\* The constructor brings the configuration into range.
Window == IF WindowSize < 1 THEN 1 ELSE WindowSize
Least == IF MinCalls < 1 THEN 1 ELSE IF MinCalls > Window THEN Window ELSE MinCalls
Percent == IF FailureRatio < 1 THEN 1
           ELSE IF FailureRatio > 100 THEN 100 ELSE FailureRatio

VARIABLES
  state,    \* _status.state
  half,     \* _status.half_open
  cool,     \* seconds until open_duration_sec have elapsed since _opened_since
  win,      \* _window, slot -> result
  pos,      \* _window_pos
  nfail,    \* _window_failures
  nsucc,    \* _window_successes
  inflight, \* the calls admitted and not yet reported
  probes,   \* history: calls admitted since the breaker last became HALF_OPEN
  lost,     \* history: 1 if a call ended without a report since then
  recent    \* history: outcomes since the window was last cleared, newest last

winVars == <<win, pos, nfail, nsucc, recent>>
vars == <<state, half, cool, win, pos, nfail, nsucc, inflight, probes,
          lost, recent>>

Slots == 0 .. Window - 1
EmptyWindow == [s \in Slots |-> "empty"]

Init ==
  /\ state = "CLOSED"
  /\ half = 0
  /\ cool = 0
  /\ win = EmptyWindow
  /\ pos = 0
  /\ nfail = 0
  /\ nsucc = 0
  /\ inflight = {}
  /\ probes = 0
  /\ lost = 0
  /\ recent = <<>>

---------------------------------------------------------------------------
\* The last Window outcomes.
Newest(s) ==
  IF Len(s) > Window THEN SubSeq(s, Len(s) - Window + 1, Len(s)) ELSE s

\* Deviation: the overwritten slot is not taken out of the counter.
NewFailOnly(res) == nfail + (IF res = "failed" THEN 1 ELSE 0)

\* record(): overwrite the oldest slot and keep the two counters.
NewFail(res) ==
  nfail - (IF win[pos] = "failed" THEN 1 ELSE 0) + (IF res = "failed" THEN 1 ELSE 0)
NewSucc(res) ==
  nsucc - (IF win[pos] = "succeeded" THEN 1 ELSE 0)
        + (IF res = "succeeded" THEN 1 ELSE 0)

\* Deviation: the position does not wrap.
RecordNoWrap(res) ==
  /\ win' = [win EXCEPT ![pos] = res]
  /\ nfail' = NewFail(res)
  /\ nsucc' = NewSucc(res)
  /\ pos' = pos + 1
  /\ recent' = Newest(Append(recent, res))

Record(res) ==
  /\ win' = [win EXCEPT ![pos] = res]
  /\ nfail' = NewFail(res)
  /\ nsucc' = NewSucc(res)
  /\ pos' = (pos + 1) % Window
  /\ recent' = Newest(Append(recent, res))

\* Deviation: the counters survive the slots they count.
ClearSlotsOnly ==
  /\ win' = EmptyWindow
  /\ pos' = 0
  /\ recent' = <<>>
  /\ UNCHANGED <<nfail, nsucc>>

\* clearWindow().
ClearWindow ==
  /\ win' = EmptyWindow
  /\ pos' = 0
  /\ nfail' = 0
  /\ nsucc' = 0
  /\ recent' = <<>>

\* shouldOpen(), for given counters.
ShouldOpen(f, s) == f + s >= Least /\ f * 100 >= (f + s) * Percent

---------------------------------------------------------------------------
\* allowRequest() on a CLOSED breaker.
AllowClosed(c) ==
  /\ c \notin inflight
  /\ state = "CLOSED"
  /\ inflight' = inflight \cup {c}
  /\ UNCHANGED <<state, half, cool, winVars, probes, lost>>

\* allowRequest() on an OPEN breaker behind its cooling period: the call is the
\* first probe.
AllowFirstProbe(c) ==
  /\ c \notin inflight
  /\ state = "OPEN"
  /\ cool = 0
  /\ half < MaxHalf
  /\ state' = "HALF_OPEN"
  /\ half' = half + 1
  /\ probes' = 1
  /\ inflight' = inflight \cup {c}
  /\ lost' = 0
  /\ UNCHANGED <<cool, winVars>>

\* Deviation: one probe too many.
AllowProbeAtMax(c) ==
  /\ c \notin inflight
  /\ state = "HALF_OPEN"
  /\ half <= HalfOpenMax
  /\ half' = half + 1
  /\ probes' = probes + 1
  /\ inflight' = inflight \cup {c}
  /\ UNCHANGED <<state, cool, winVars, lost>>

\* allowRequest() on a HALF_OPEN breaker with probes to spare.
AllowProbe(c) ==
  /\ c \notin inflight
  /\ state = "HALF_OPEN"
  /\ half < HalfOpenMax
  /\ half' = half + 1
  /\ probes' = probes + 1
  /\ inflight' = inflight \cup {c}
  /\ UNCHANGED <<state, cool, winVars, lost>>

\* onSuccess().
SuccessBody ==
  \/ /\ state # "CLOSED"
     /\ ClearWindow
     /\ half' = 0
     /\ state' = "CLOSED"
  \/ /\ state = "CLOSED"
     /\ Record("succeeded")
     /\ UNCHANGED <<state, half>>

\* Deviation: a failed probe does not open the breaker again.
TripsOnRatioOnly ==
  state = "CLOSED" /\ ShouldOpen(NewFail("failed"), NewSucc("failed"))

\* A failure opens a CLOSED breaker over its ratio, and any HALF_OPEN one.
Trips ==
  \/ state = "HALF_OPEN"
  \/ state = "CLOSED" /\ ShouldOpen(NewFail("failed"), NewSucc("failed"))

\* onFailure(): an OPEN breaker only records.
FailureBody ==
  /\ Record("failed")
  /\ \/ Trips /\ state' = "OPEN" /\ cool' = OpenDuration
     \/ ~Trips /\ UNCHANGED <<state, cool>>

OnSuccess(c) ==
  /\ "success" \in Outcomes
  /\ c \in inflight
  /\ inflight' = inflight \ {c}
  /\ SuccessBody
  /\ UNCHANGED <<cool, probes, lost>>

OnFailure(c) ==
  /\ "failure" \in Outcomes
  /\ c \in inflight
  /\ inflight' = inflight \ {c}
  /\ FailureBody
  /\ UNCHANGED <<half, probes, lost>>

\* onConnectionUnavailable(): a failure reported without an admission.
OnConnectionUnavailable ==
  /\ "failure" \in Outcomes
  /\ FailureBody
  /\ UNCHANGED <<half, inflight, probes, lost>>

\* A call ends without a report: the local queue was full (not a failure of the
\* host), or its callback's response never comes.
NoReport(c) ==
  /\ "lost" \in Outcomes
  /\ c \in inflight
  /\ inflight' = inflight \ {c}
  /\ lost' = 1
  /\ UNCHANGED <<state, half, cool, winVars, probes>>

\* A second passes.
Tick ==
  /\ state = "OPEN"
  /\ cool > 0
  /\ cool' = cool - 1
  /\ UNCHANGED <<state, half, winVars, inflight, probes, lost>>

Allow(c) == AllowClosed(c) \/ AllowFirstProbe(c) \/ AllowProbe(c)
Report(c) == OnSuccess(c) \/ OnFailure(c) \/ NoReport(c)

Next ==
  \/ \E c \in Calls : Allow(c) \/ Report(c)
  \/ OnConnectionUnavailable
  \/ Tick

Spec == Init /\ [][Next]_vars

\* The clock runs, the application keeps calling, and every call ends.
Fairness ==
  /\ WF_vars(Tick)
  /\ \A c \in Calls : WF_vars(Allow(c)) /\ WF_vars(Report(c))

FairSpec == Spec /\ Fairness

---------------------------------------------------------------------------
\* Type correctness of the breaker's state.
TypeOK ==
  /\ state \in {"CLOSED", "OPEN", "HALF_OPEN"}
  /\ half \in Nat
  /\ cool \in 0 .. OpenDuration
  /\ win \in [Slots -> {"empty", "failed", "succeeded"}]
  /\ pos \in Slots
  /\ nfail \in Int
  /\ nsucc \in Int
  /\ inflight \subseteq Calls
  /\ probes \in Nat
  /\ lost \in {0, 1}
  /\ recent \in Seq({"failed", "succeeded"})

CountIn(s, res) == Cardinality({i \in 1 .. Len(s) : s[i] = res})

\* The ring of slots with its two counters is the sliding window it stands for:
\* the counters count exactly the last window_size outcomes since the window
\* was cleared, across every wrap of the ring and every clearing.
WindowAgrees ==
  /\ nfail = CountIn(recent, "failed")
  /\ nsucc = CountIn(recent, "succeeded")
  /\ \A i \in 1 .. Len(recent) :
       win[(pos + Window - 1 - (Len(recent) - i)) % Window] = recent[i]

\* Since the breaker became HALF_OPEN it admitted at most half_open_max_req
\* calls (one at least), although the half_open counter it compares with is not
\* reset when a probe fails and outlives the period it was counted in.
ProbeBound ==
  state = "HALF_OPEN" =>
    /\ 1 <= probes
    /\ probes = 1 \/ probes <= HalfOpenMax

\* The breaker's bookkeeping, in whatever state outcomes arrive: counters and
\* slots are the sliding window, and the probes are bounded.
BreakerSafe == TypeOK /\ WindowAgrees /\ ProbeBound

\* A breaker opens on the outcomes since its last recovery only, never on
\* failures from before it: min_calls of them must be there, with the failure
\* ratio reached, by a count of the outcomes themselves.
OpensOnFreshRatio ==
  [][state = "CLOSED" /\ state' = "OPEN" =>
       LET f == CountIn(recent', "failed")
           n == Len(recent')
       IN  n >= Least /\ f * 100 >= n * Percent]_vars

\* A HALF_OPEN breaker closes or opens again when every call that ends in this
\* period is reported (a lost outcome leaves it HALF_OPEN for good), also
\* when the period began with a half_open counter beyond its limit.
ReportedDecides == state = "HALF_OPEN" ~> state # "HALF_OPEN" \/ lost = 1
=============================================================================
