SPECIFICATION TableSpec
CONSTANTS
  Methods = {m1}
  Hosts = {h1, h2}
  Threads = {t1, t2}
  MaxObjs = 3
  MaxRemovals = 1
SYMMETRY Symmetry
INVARIANT TableSafe
CHECK_DEADLOCK FALSE
