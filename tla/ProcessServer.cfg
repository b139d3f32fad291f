SPECIFICATION BuildSpec
CONSTANTS
  c1 = c1
  c2 = c2
  c3 = c3
  Clients = {c1, c2, c3}
  Setups <- MCSetups
  MaxSent = 2
  None = None
INVARIANTS Attended OwnEvents
PROPERTIES Answered Served NoLinger ForceHeard
