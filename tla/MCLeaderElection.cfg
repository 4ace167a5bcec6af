CONSTANTS
  Nodes = {n1, n2}
  TTL = 5
  Period = 1
  CurlMax = 3
  Prompt = 2
  SweepMax = 6
  MaxFaults = 3
SPECIFICATION FairSpec
INVARIANT ElectionSafe
PROPERTY Failover
