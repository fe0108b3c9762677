------------------------------ MODULE MCSettings ------------------------------
(***************************************************************************)
(* Every kind of tweak, and the startup list, on small instances.  The      *)
(* window runs one job at a time, so the first state chooses which; what the*)
(* other kinds keep is empty, or "unused".                                  *)
(***************************************************************************)
EXTENDS HostsBlock, RemovalTweak, StartupList, TLC

CONSTANTS
  Jobs, SwitchUnderRow,
  PairsUnderRow,
  Absent, unused                              \* model values

VARIABLES
  job,
  value, active, queued,                      \* a value, a Windows setting
  setting, plugged                            \* devices

-----------------------------------------------------------------------------
\* Three adapters, of which one is virtual and not the tweak's.
Device == INSTANCE DeviceTweak WITH
  Devices <- {"hub", "nic", "virtual"}, Values <- {"on", "off"}, Off <- "off",
  Selected <- {"hub", "nic"}

\* A string of two pairs of which the tweak owns one; a value of its own; one
\* under a key PGM may not write to.
Registry(flags, refused) == INSTANCE RegistryTweak WITH
  Flags <- flags, Mine <- "mine", Values <- {"0", "1"}, Unset <- "unset", Wanted <- "1",
  Kinds <- {"string", "dword", "link"}, Writable <- {"string", "dword"},
  Kind <- "string", Refused <- refused

Strings ==
  {[job |-> "shared", flags |-> {"mine", "theirs"}, refused |-> FALSE],
   [job |-> "single", flags |-> {"mine"}, refused |-> FALSE],
   [job |-> "closed", flags |-> {"mine"}, refused |-> TRUE]}

BlockedByOthers == [l \in {"printer", "adblock"} |-> "tracker"]

Setting(kind, plans, values, target, enough) == INSTANCE SettingTweak WITH
  Tweak <- kind, Plans <- plans, Values <- values, Target <- target,
  Enough <- enough

WindowsSettings ==
  {[job |-> "plan", plans |-> {"machine"}, values |-> 0..3, target |-> 3, enough |-> {2, 3}],
   [job |-> "index", plans |-> {"balanced", "high"}, values |-> 0..2, target |-> 1, enough |-> {1}],
   [job |-> "mouse", plans |-> {"user"}, values |-> 0..2, target |-> 0, enough |-> {0, 1}],
   [job |-> "display", plans |-> {"panel"}, values |-> 0..2, target |-> 2, enough |-> {2}]}

Variant(set) == CHOOSE v \in set : v.job = job

\* Two things of the same size; the order in which the clients are looked for.
Sizes == [t \in {"news", "tiles", "shell", "mail"} |-> IF t = "shell" THEN 2 ELSE 1]
Places ==
  [t \in {"news", "tiles", "shell", "mail"} |->
    CASE t = "news" -> 1 [] t = "tiles" -> 2 [] OTHER -> 3]

ASSUME InstancesSound ==
  /\ Device!DeviceAssumption /\ HostsAssumption /\ RemovalAssumption
  /\ StartupAssumption
  /\ \A v \in Strings : Registry(v.flags, v.refused)!RegistryAssumption
  /\ \A v \in WindowsSettings :
       Setting(v.job, v.plans, v.values, v.target, v.enough)!SettingAssumption

-----------------------------------------------------------------------------
tweaking == <<at, said, plan, row>>
values == <<value, active, queued>>
devices == <<setting, plugged>>
hosts == <<file, text>>
removing == <<tweak, present, bundled, list, found, removed>>
startup == <<autostart, approved, shown>>

NoValue == value = unused /\ active = unused /\ queued = unused
NoDevice == setting = unused /\ plugged = unused
NoRemoval ==
  /\ tweak = "none" /\ present = {} /\ bundled = {} /\ list = NotRead
  /\ found = {} /\ removed = {}
NoHosts == file = unused /\ text = unused
NoStartup == StartupInit /\ autostart = {}
NoTweak == at = unused /\ said = unused /\ plan = unused /\ row = unused

SettingJobs == {v.job : v \in WindowsSettings}
RegistryJobs == {v.job : v \in Strings}

Init ==
  \/ job = "device" /\ Device!Init
     /\ NoValue /\ NoHosts /\ NoRemoval /\ NoStartup
  \/ /\ \E v \in Strings : job = v.job /\ Registry(v.flags, v.refused)!Init
     /\ active = unused /\ queued = unused
     /\ NoDevice /\ NoHosts /\ NoRemoval /\ NoStartup
  \/ /\ \E v \in WindowsSettings :
          job = v.job /\ Setting(v.job, v.plans, v.values, v.target, v.enough)!Init
     /\ NoDevice /\ NoHosts /\ NoRemoval /\ NoStartup
  \/ job = "hosts" /\ HostsInit
     /\ NoValue /\ NoDevice /\ NoRemoval /\ NoStartup
  \/ RemovalInit /\ job = tweak
     /\ NoValue /\ NoDevice /\ NoHosts /\ NoStartup
  \/ job = "startup" /\ StartupInit /\ NoTweak
     /\ NoValue /\ NoDevice /\ NoHosts /\ NoRemoval

InitialJob == Init /\ job \in Jobs

Next ==
  /\ UNCHANGED job
  /\ \/ /\ job = "device" /\ Device!Next
        /\ UNCHANGED <<values, hosts, removing, startup>>
     \/ /\ \E v \in Strings : job = v.job /\ Registry(v.flags, v.refused)!Next
        /\ UNCHANGED <<active, queued, devices, hosts, removing, startup>>
     \/ /\ \E v \in WindowsSettings :
             job = v.job /\ Setting(v.job, v.plans, v.values, v.target, v.enough)!Next
        /\ UNCHANGED <<devices, hosts, removing, startup>>
     \/ job = "hosts" /\ HostsNext /\ UNCHANGED <<values, devices, removing, startup>>
     \/ /\ job = tweak /\ RemovalNext
        /\ UNCHANGED <<values, devices, hosts, startup>>
     \/ /\ job = "startup" /\ StartupNext
        /\ UNCHANGED <<tweaking, values, devices, hosts, removing>>

allvars == <<job, others, faults, tweaking, values, devices, hosts, removing, startup>>
Spec == InitialJob /\ [][Next]_allvars

-----------------------------------------------------------------------------
(* What the tweaks with a row promise, whatever they change.                *)

Hosted(names) == [n \in {"dota1", "dota2", "tracker"} |-> n \in names]

Pairs(v) ==
  [f \in Variant(Strings).flags |->
    IF v = Absent THEN Absent ELSE [data |-> v.data[f], kind |-> v.kind]]

Contract == INSTANCE TweakContract WITH
  at <- IF job \in Removals \cup {"startup"} THEN "idle" ELSE at,
  said <- IF job \in Removals \cup {"startup"} THEN "nothing" ELSE said,
  machine <-
    CASE job = "device" -> setting
      [] job \in RegistryJobs -> Pairs(value)
      [] job \in SettingJobs -> value
      [] job = "hosts" -> Hosted(BlockedHosts)
      [] OTHER -> << >>,
  there <-
    CASE job = "device" -> plugged
      [] job \in RegistryJobs -> DOMAIN Pairs(value)
      [] job \in SettingJobs -> DOMAIN value
      [] job = "hosts" -> {"dota1", "dota2", "tracker"}
      [] OTHER -> {},
  row <-
    IF job \in Removals \cup {"startup"} \/ row = NoRow THEN NoRow
    ELSE CASE job = "device" -> row
           [] job \in RegistryJobs -> Pairs(row)
           [] job \in SettingJobs -> [p \in {row.where} |-> row.old]
           [] OTHER -> Hosted(row),
  wanted <-
    CASE job = "device" -> {d \in DOMAIN setting : setting[d] = "off"}
      [] job \in RegistryJobs ->
           IF value # Absent /\ value.data = plan.desired THEN DOMAIN Pairs(value) ELSE {}
      [] job = "mouse" -> {p \in DOMAIN value : value[p] \in Variant(WindowsSettings).enough}
      [] job \in SettingJobs -> {p \in DOMAIN value : value[p] = Variant(WindowsSettings).target}
      [] job = "hosts" ->
           {n \in {"dota1", "dota2", "tracker"} :
              {"dota1", "dota2"} \subseteq BlockedHosts}
      [] OTHER -> {}

\* Every kind of tweak with a row keeps what the engine and the history rely on:
\* nothing outside its row is written, "verified" means that what the row covers
\* is as wanted, "restored" that it is back, each as it was.
ContractHonoured == Contract!Spec

\* What other programs keep in the same value or file stays theirs.
OthersStay ==
  [][/\ \A v \in Strings : job = v.job => Registry(v.flags, v.refused)!OthersPairsKept
     /\ job = "hosts" => OthersEntriesKept]_allvars
===============================================================================
