SPECIFICATION Spec
CONSTANTS
  Clients = {c1, c2}
  Names = {t1, t2}
  Pubs <- MCPubs
  Attrs <- MCAttrs
  MaxCalls = 4
  MaxTimeouts = 1
  MaxLost = 1
INVARIANTS TopicsSafe HeardUnlessGivenUp SubscribedUnlessRemoved Strategies
SYMMETRY Sym
CHECK_DEADLOCK FALSE
