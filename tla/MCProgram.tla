------------------------------ MODULE MCProgram ------------------------------
(***************************************************************************)
(* The program around the changes, on small instances: the opening of the   *)
(* database (SchemaMigration), the window (Dashboard), a plan from offer to *)
(* report (PlannedRun), the club's profile (ClubProfile), scanning (Scan),  *)
(* and what is made of a scan (Scoring).  The first state chooses which is  *)
(* studied; the other parts stay as they start.                             *)
(***************************************************************************)
EXTENDS SchemaMigration, Dashboard, PlannedRun, ClubProfile, Scan, Scoring, TLC

CONSTANT Studies

VARIABLE study

-----------------------------------------------------------------------------
\* Three copies of the program, of which one is older.
KnownTo == [c \in Copies |-> IF c = "old" THEN 1 ELSE 2]
Migrations == << {"versions", "audit_log"}, {"no_update", "no_delete"} >>

\* The controllers of the window are used a few at a time.
UsedTogether ==
  {{"optimize", "cleanup", "steam"}, {"tools", "profile"}, {"system", "profile"}}

\* Displays, changes of medium risk, of low, and of the class never applied; of what
\* the settings dialog offers one is of high risk and one of low.
OptimizeOrder == <<"refresh", "mouse", "windowed", "firmware">>
RiskOf == [t \in {"refresh", "mouse", "windowed", "firmware", "dvr", "priority"} |->
  CASE t \in DOMAIN SETTINGS -> SETTINGS[t].risk
    [] t \in {"mouse", "dvr"} -> "MEDIUM" [] t = "firmware" -> "CRITICAL"
    [] OTHER -> "LOW"]
SettingsOffered == <<"dvr", "priority">>

BestRates == [m \in {"left", "right"} |-> IF m = "left" THEN 60 ELSE 144]

\* What is studied of a part at a time: a plan by an elevated program, by a player's,
\* and of the settings dialog; the hardware of a scan, and its network.
Within ==
  /\ study = "run elevated" =>
       elevated /\ source = "optimize" /\ needs \subseteq {"refresh", "mouse", "windowed"}
  /\ study = "run as a player" =>
       ~elevated /\ source = "optimize" /\ needs \subseteq {"refresh", "windowed", "firmware"}
  /\ study = "run of settings" => elevated /\ needs \subseteq {"refresh", "dvr", "priority"}
  /\ study = "scan of hardware" => machine.load = "idle" /\ machine.link = "direct"
  /\ study = "scan of network" => machine.hardware = "one" /\ scans <= 2

\* The readings that share a component, or a cap.
ReadTogether ==
  {{"cpu", "ram", "free", "media", "smart"},
   {"vram", "temperature", "throttling", "below", "warnings"},
   {"kind", "speed", "duplex", "path", "gateway", "internet"},
   {"kind", "router", "router_loss", "router_delay", "path"},
   {"internet", "loss", "jitter", "delay", "kind"}}

ASSUME InstancesSound ==
  /\ ClubProfileAssumption /\ SchemaAssumption /\ PlannedRunAssumption
  /\ ScanAssumption /\ ScoringAssumption

-----------------------------------------------------------------------------
\* What is not studied is in one of its first states, and stays there.
NoWindow == WindowInit /\ open = << >> /\ used = (CHOOSE u \in Uses : TRUE)
NoPlan == RunInit /\ elevated /\ needs = {}
NoProfile == ProfileInit /\ section = "ram" /\ ref.figure = 19 /\ here.figure = 19
NoScan == ScanInit /\ machine = [hardware |-> "one", load |-> "idle", link |-> "direct"]
NoScores == studied = {} /\ before = Usual /\ after = {}

RunStudies == {"run elevated", "run as a player", "run of settings"}
ScanStudies == {"scan of hardware", "scan of network"}

ProgramInit ==
  /\ study \in Studies /\ SchemaInit
  /\ IF study = "window" THEN WindowInit ELSE NoWindow
  /\ IF study \in RunStudies THEN RunInit ELSE NoPlan
  /\ IF study = "profile" THEN ProfileInit ELSE NoProfile
  /\ IF study \in ScanStudies THEN ScanInit ELSE NoScan
  /\ IF study = "scores" THEN ScoreInit ELSE NoScores
  /\ Within

ProgramNext ==
  /\ UNCHANGED study
  /\ \/ /\ study = "window" /\ WindowNext
        /\ UNCHANGED <<runVars, profileVars, scanVars, scoreVars, schemaVars>>
     \/ /\ study \in RunStudies /\ RunNext /\ Within'
        /\ UNCHANGED <<windowVars, profileVars, scanVars, scoreVars, schemaVars>>
     \/ /\ study = "profile" /\ ProfileNext
        /\ UNCHANGED <<windowVars, runVars, scanVars, scoreVars, schemaVars>>
     \/ /\ study \in ScanStudies /\ ScanNext /\ Within'
        /\ UNCHANGED <<windowVars, runVars, profileVars, scoreVars, schemaVars>>
     \/ /\ study = "scores" /\ ScoreNext
        /\ UNCHANGED <<windowVars, runVars, profileVars, scanVars, schemaVars>>
     \/ /\ study = "database" /\ SchemaNext
        /\ UNCHANGED <<windowVars, runVars, profileVars, scanVars, scoreVars>>

allvars == <<study, windowVars, runVars, profileVars, scanVars, scoreVars, schemaVars>>
ProgramSpec == ProgramInit /\ [][ProgramNext]_allvars

===============================================================================
