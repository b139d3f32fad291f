SPECIFICATION Spec
CONSTANTS
  Clients = {c1}
  Checksums = {a, b}
  ImportValues = {}
  Modes = {FALSE}
  InitValues = {0}
  MaxCount = 1
  MaxIssues = 3
  Sockets = 2
  MaxCrashes = 1
  MaxValue = 4
INVARIANTS NeverDecremented
