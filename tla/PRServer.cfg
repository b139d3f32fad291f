SPECIFICATION Spec
CONSTANTS
  Clients = {c1, c2}
  Checksums = {a, b}
  ImportValues = {1}
  Modes = {TRUE, FALSE}
  InitValues = {2}
  MaxCount = 1
  MaxIssues = 2
  Sockets = 2
  MaxCrashes = 1
  MaxValue = 6
INVARIANTS NoDecrement Unique CleanStopKeeps
PROPERTIES CommittedKept RequestEnds
CHECK_DEADLOCK FALSE
