SPECIFICATION DiskSpec
CONSTANTS
  Tasks = {"steam"}
  Objects <- TreeObjects
  Kind <- TreeKind
  Name <- TreeName
  Home <- TreeHome
  Root = "root"
  Spare = {"spared"}
  Newcomers = {"swap", "new"}
  Target = "target"
  Outside = "Outside"
  Elsewhere = "Elsewhere"
  Gone = "Gone"
  Items <- SomeItems
  Folders = {"temp", "temp_sub", "vendor"}
  FolderOf <- ItemFolder
  Catalogue <- SomeRows
  ProtectedFolders = {"vendor"}
  ProtectedFiles = {"key"}
  UserFiles = {"save"}
  Admin = FALSE
  RewriteMoments <- NotAfterTheGate
  ReplaceMoments <- NotAfterTheGate
  Games <- SomeGames
  KeepList = {"dota"}
  InstallPath <- OwnFolder
  Places <- SomeGames
  Caches = {"shadercache"}
  SignIns = {"config", "htmlcache"}
  Spared <- SparedFiles
  TreeOthers = 3
  CleanupOthers = 2
  SteamOthers = 3
  QuietSteps = {"verifycopy", "swap"}
  f1 = f1
  f2 = f2
  d1 = d1
  d2 = d2
  Absent = Absent
  Files = {f1, f2}
  Data = {d1, d2}
  SizeOf <- Sizes
  DestinationRaced = TRUE
  MaxRuns = 3
  MaxWrites = 1
  MaxFaults = 3
  MaxCrashes = 2
CHECK_DEADLOCK FALSE
INVARIANTS
  StillRecognised
