SPECIFICATION FairSpec
CONSTANTS
  Tasks <- TwinTasks
  Depends <- TwinDepends
  SetsceneTids = {1, 2, 3}
  TargetTids = {4, 5}
  HardDepsRev <- TwinHard
  HashIndex <- TwinHash
  FileOf <- Distinct
  StampOf <- Distinct
  TaskName <- Distinct
  NumberThreads <- Unlimited
  NoExec = {4}
  NoStamp = {}
  NumberTasks = 2
  Options <- TwinOptions
  IgnoreTasks = {1, 4}
  OldStamps <- NoStamps
  OldSetscene <- NoStamps
  ActiveFloor = 2
INVARIANTS
  ThreadLimit
  CoveredIsPresent
  CompleteMeansBuilt
  ContinueBuildsTheRest
PROPERTIES
  Termination
