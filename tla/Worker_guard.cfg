SPECIFICATION FairSpec
CONSTANTS
  PlainOrder <- OneWriter
  Writers = {"optimize"}
  MonitorFails = FALSE
  ScanOverruns = TRUE
  MaxJobs = 2
CHECK_DEADLOCK FALSE
INVARIANTS
  TypeOK
  NoWriteCutOff
  NeverUnclosable
  CompletionIsOwn
PROPERTIES
  CloseWaits
  CloseEnds
