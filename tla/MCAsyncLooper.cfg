SPECIFICATION FairSpec
CONSTANTS
  Threads = {t1, t2}
  Lens = {1, 2, 3}
  Capacity = 3
  Threshold = 9
  Increment = 3
  Safe = TRUE
  MaxRecs = 4
INVARIANT LooperSafe
PROPERTIES PushedIsWritten WaitersProceed
CHECK_DEADLOCK FALSE
