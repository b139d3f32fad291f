SPECIFICATION Spec
CONSTANTS
  a = a b = b c = c x = x y = y b1 = b1 b2 = b2 r = r
  Clients = {b1, b2, r}
  Reporters = {b1, b2}
  Hashes = {a, b, c}
  Outs = {x, y}
  Output <- MCOutput
  Class <- MCClass
  Marks = {m1, m2}
  Ages = {0, 1}
  Servers <- MCServers
  MaxNow = 2
  MaxQueue = 1
  None = None
INVARIANTS Sound AnswersAgree OutputsShare
PROPERTIES GCKeeps
