SPECIFICATION Spec
CONSTANTS
  Hosts = {h1}
  Methods = {m1}
  Attempts = 2
  MaxConns <- MCMaxConns
  MaxWire = 1
INVARIANTS RegistrySafe NoGhost
PROPERTY DeadForgotten
CHECK_DEADLOCK FALSE
