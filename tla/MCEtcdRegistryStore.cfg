SPECIFICATION StoreSpec
CONSTANTS
  Keys = {k1}
  Conns = {c1, c2}
  MaxLeases = 3
  MaxRestarts = 2
INVARIANT StoreSafe
PROPERTIES FalseOfflineCauses VanishedAnnounced
CHECK_DEADLOCK FALSE
