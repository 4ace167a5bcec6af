SPECIFICATION FairSpec
CONSTANTS
  Reqs = {r1, r2}
  Kinds = {"sync", "async", "callback"}
INVARIANT RequestsSafe
PROPERTIES LateDiscarded TimedEnds
CHECK_DEADLOCK FALSE
