SPECIFICATION Spec
CONSTANTS
  PlainOrder <- TwoWriters
  Writers = {"steam", "tools"}
  MonitorFails = TRUE
  ScanOverruns = FALSE
  MaxJobs = 1
CHECK_DEADLOCK FALSE
PROPERTIES
  CloseWaits
