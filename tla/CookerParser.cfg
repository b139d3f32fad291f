SPECIFICATION Spec
CONSTANTS
  Parsers = {p1, p2}
  Jobs <- MCJobs
  Noisy <- MCNoisy
  PipeCap = 1
  Killable = {p1}
  Scenarios = {{"break"}, {"kill"}, {"stop"}}
  None = None
  p1 = p1 p2 = p2 
INVARIANTS CompleteMeansAll OnlyAfterKill StreamLockFree ParsersGone
PROPERTY ParseEnds
CHECK_DEADLOCK FALSE
