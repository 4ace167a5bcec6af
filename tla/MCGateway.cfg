SPECIFICATION Spec
CONSTANTS
  Loops = {"l1", "l2"}
  Conns = {"gw", "cl", "own"}
  LoopOf <- MCLoopOf
  SelfConn = "own"
  MaxWaiting = 2
  Methods = {"add", "echo", "sum", "none"}
  NoMethod = NoMethod
  NoLoop = NoLoop
  Threads = {"g1", "g2"}
  Rate = 1
  Burst = 1
  MaxTime = 2
  HttpConns = {"h1", "h2", "h3"}
  HttpLoopOf <- MCHttpLoopOf
  GwConn = "gw"
  EchoMethod = "echo"
  MaxRetries = 1
  Worlds <- MCWorlds
INVARIANTS GatewaySafe AdmitBound SelfCallStarves
PROPERTIES HttpAnswered BufferWorkedOff
CHECK_DEADLOCK FALSE
