SPECIFICATION Spec
CONSTANTS
  Names = {"dota1", "dota2", "tracker"}
  DotaHosts = {"dota1", "dota2"}
  Lines = {"printer", "adblock"}
  Blocks <- BlockedByOthers
  Removals = {"apps", "onedrive", "bin", "windows_old", "temp"}
  Things = {"news", "tiles", "shell", "mail"}
  Group = {"news", "tiles", "shell"}
  System = {"shell"}
  Size <- Sizes
  Place <- Places
  Admin = TRUE
  Programs = {"launcher", "anticheat"}
  Sources = {"RUN_USER", "RUN_MACHINE", "RUN_MACHINE_32"}
  Protected = {"anticheat"}
  Elevated = TRUE
  MaxInstalls = 1
  Jobs = {"device", "shared", "single", "closed", "plan", "index", "mouse", "display", "hosts", "apps", "onedrive", "bin", "windows_old", "temp", "startup"}
  TornWrites = FALSE
  HostsRaced = FALSE
  PairsUnderRow = FALSE
  SwitchUnderRow = FALSE
  NoRow = NoRow
  NoBlock = NoBlock
  NoText = NoText
  Absent = Absent
  NotRead = NotRead
  Unreadable = Unreadable
  unused = unused
  MaxOthers = 3
  MaxFaults = 2
CHECK_DEADLOCK FALSE
PROPERTIES
  ContractHonoured
  OthersStay
  OnlyShownRemoved
  ToggleHitsOne
