SPECIFICATION FairSpec
CONSTANTS
  WindowSize = 3
  MinCalls = 2
  FailureRatio = 60
  OpenDuration = 2
  HalfOpenMax = 2
  Calls = {c1, c2, c3}
  Outcomes = {"success", "failure", "lost"}
  MaxHalf = 4
INVARIANT BreakerSafe
PROPERTIES OpensOnFreshRatio ReportedDecides
