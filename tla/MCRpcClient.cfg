SPECIFICATION ClientSpec
CONSTANTS
  h1 = h1
  h2 = h2
  h3 = h3
  t1 = t1
  t2 = t2
  Hosts = {h1, h2, h3}
  Listed = {h1, h2}
  Loads = {0, 1}
  MAX_IDX = 5
  VirtualNodes <- MCVirtualNodes
  KeyPoints = {0, 3, 9}
  Callers = {t1, t2}
  CallKinds <- MCKinds
  MaxRetries = 1
  MaxCalls = 2
  MaxClients = 2
  MaxFaults = 1
  MaxChanges = 1
INVARIANTS CallsSafe Ledger HostChoice
PROPERTY ReturnsOrConnects
CHECK_DEADLOCK FALSE
