SPECIFICATION MSpec
CONSTANTS
  Tasks <- ReturnTasks
  Depends <- ReturnDepends
  SetsceneTids = {1, 2, 3, 4}
  TargetTids = {4}
  HardDepsRev <- ReturnHard
  HashIndex <- Distinct
  NameOf <- Distinct
  FileOf <- Distinct
  StampOf <- Distinct
  TaskName <- Distinct
  NumberThreads <- Unlimited
  NoExec = {}
  NoStamp = {}
  NumberTasks = 2
  Options <- PlainOnly
  IgnoreTasks = {}
  OldStamps <- NoStamps
  OldSetscene <- ReturnSetscene
  ActiveFloor = 2
INVARIANTS
  InputsPresent
