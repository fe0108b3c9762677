SPECIFICATION Spec
CONSTANTS
  Values = {a, b, c}
  NoChange = NoChange
  p1 = p1
  optimizer = optimizer
  system_worker = system_worker
  Targets = {t1}
  Irreversible = {}
  Processes = {p1}
  Workers = {system_worker}
  HistoryWorkers = {system_worker}
  ProcOf <- OneProcess
  UndoAllUsed = TRUE
  UndoAllFails = TRUE
  RacingWrites = FALSE
  MaxPlans = 2
  MaxOtherWrites = 0
  MaxCrashes = 0
  MaxTweakFaults = 1
  MaxStorageFaults = 0
SYMMETRY ValueSymmetry
INVARIANTS
  OriginalRecoverable
