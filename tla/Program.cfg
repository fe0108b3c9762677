SPECIFICATION ProgramSpec
CONSTANTS
  Studies = {"window", "run elevated", "run as a player", "run of settings", "profile", "scan of hardware", "scan of network", "scores", "database"}
  Groups <- ReadTogether
  Copies = {"old", "new", "agent"}
  Latest = 2
  Known <- KnownTo
  Creates <- Migrations
  Nobody = "nobody"
  Uses <- UsedTogether
  ChangesFail = TRUE
  Order <- OptimizeOrder
  Displays = {"refresh"}
  Offered <- SettingsOffered
  Risk <- RiskOf
  NeedsAdmin = {"windowed"}
  Elevations = {TRUE, FALSE}
  MaxDrifts = 1
  Settings = {"windowed", "hags"}
  Schemes = {"balanced", "high", "ultimate"}
  FullSpeed = {"high", "ultimate"}
  Monitors = {"left", "right"}
  Best <- BestRates
  Rates = {60, 144}
  Services = {"spooler"}
  MaxMoves = 1
  Drives = {"one", "two"}
  Loads = {"idle", "busy"}
  Links = {"direct", "tunnel", "lan"}
  MaxChanges = 1
  MaxScans = 3
CHECK_DEADLOCK FALSE
INVARIANTS
  NobodyStranded
  ReferenceAcceptable
  ProfileReached
  InventoryHonest
  NetworkHonest
  AbsenceNoEvidence
  ScoreMonotone
  SchemaComplete
PROPERTIES
  OnlyConsented
