SPECIFICATION FairSpec
CONSTANTS
  Values = {a, b}
  NoChange = NoChange
  p1 = p1
  optimizer = optimizer
  system_worker = system_worker
  Targets = {t1}
  Irreversible = {}
  Processes = {p1}
  Workers = {optimizer, system_worker}
  HistoryWorkers = {system_worker}
  ProcOf <- OneProcess
  UndoAllUsed = TRUE
  UndoAllFails = TRUE
  RacingWrites = TRUE
  MaxPlans = 2
  MaxOtherWrites = 1
  MaxCrashes = 1
  MaxTweakFaults = 1
  MaxStorageFaults = 1
PROPERTIES
  RowLifecycle
  NoChangeWithoutBackup
  JobsEnd
