SPECIFICATION Spec
CONSTANTS
  c1 = c1
  c2 = c2
  c3 = c3
  Clients = {c1, c2, c3}
  Setups <- OneClient
  MaxSent = 2
  None = None
INVARIANT ShutdownMode
