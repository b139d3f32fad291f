SPECIFICATION Spec
CONSTANTS
  plain = plain fake = fake t1 = t1 t2 = t2 f1 = f1
  Workers = {plain, fake}
  Fake = {fake}
  Tasks = {t1, t2, f1}
  WorkerOf <- MCWorkerOf
  Setscene = {f1}
  DiskMon <- MCDiskMon
  MaxDeaths = 1
  Builds <- StopBuilds
PROPERTIES HaltEnds
