SPECIFICATION MSpec
CONSTANTS
  Tasks <- DiamondTasks
  Depends <- DiamondDepends
  SetsceneTids = {2, 3, 5}
  TargetTids = {1, 5}
  HardDepsRev <- DiamondHard
  HashIndex <- Distinct
  NameOf <- DiamondNames
  FileOf <- DiamondFiles
  StampOf <- Distinct
  TaskName <- Distinct
  NumberThreads <- Unlimited
  NoExec = {}
  NoStamp = {1}
  NumberTasks = 2
  Options <- DiamondOptions
  IgnoreTasks = {}
  OldStamps <- AnyStamps
  OldSetscene <- AnySetscene
  ActiveFloor = 2
INVARIANTS
  DepsFirst
  InputsPresent
  HoldoffRespected
  BookkeepingExact
  FailedMeansTaskFailed
  NothingLeftRunning
  ForcedTargetsRun
PROPERTIES
  StartOnce
  CoveredStays
