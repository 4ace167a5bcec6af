SPECIFICATION SessionSpec
CONSTANTS
  s1 = s1
  s2 = s2
  Servers = {s1, s2}
  Clients = {c1, c2}
  Worlds <- MCWorlds
  None = None
  Old = Old
  MaxClients = 2
  Cap = 1
  MaxEnds = 1
INVARIANT SessionsSafe
PROPERTIES ReclaimCauses Drained GoneNoticed ConnectReturns
CHECK_DEADLOCK FALSE
