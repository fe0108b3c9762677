SPECIFICATION Spec
CONSTANTS
  Values = {a, b, c}
  NoChange = NoChange
  p1 = p1
  optimizer = optimizer
  system_worker = system_worker
  Targets = {t1, t2}
  Irreversible = {t2}
  Processes = {p1}
  Workers = {system_worker}
  HistoryWorkers = {system_worker}
  ProcOf <- OneProcess
  UndoAllUsed = TRUE
  UndoAllFails = FALSE
  RacingWrites = FALSE
  MaxPlans = 2
  MaxOtherWrites = 1
  MaxCrashes = 1
  MaxTweakFaults = 2
  MaxStorageFaults = 1
SYMMETRY ValueSymmetry
INVARIANTS
  TypeOK
  OriginalRecoverable
  ReportHonest
  InterruptedSurfaced
  NoUndoBeneathNewer
PROPERTIES
  NoUnverifiedSuccess
  NoStalePlan
