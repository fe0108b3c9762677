------------------------------ MODULE DeviceTweak ------------------------------
(***************************************************************************)
(* A tweak over many devices: the power saving flag of USB devices or of    *)
(* network adapters, or the Energy-Efficient Ethernet properties.  One      *)
(* script writes them all; each device answers for itself, devices come and *)
(* go, and the script may time out after it has written.                    *)
(***************************************************************************)
EXTENDS TweakStudy, FiniteSets

CONSTANTS
  Devices,    \* the flags, or the pairs of adapter and keyword
  Values,     \* what one can hold
  Off,        \* the value the tweak wants
  Selected    \* the devices the tweak is about

DeviceAssumption == Off \in Values /\ Selected \subseteq Devices

VARIABLES
  setting,    \* [Devices -> Values]; a device keeps it while unplugged
  plugged     \* the devices Windows lists now

vars == <<setting, plugged, plan, row, others, faults, steps>>

\* Plan and row: the devices to change, with their values.
Recorded == UNION {[D -> Values] : D \in SUBSET Devices}

TypeOK ==
  /\ setting \in [Devices -> Values] /\ plugged \subseteq Devices
  /\ plan \in Recorded /\ row \in Recorded \cup {NoRow}
  /\ at \in Reached /\ said \in Answers
  /\ others \in 0..MaxOthers /\ faults \in 0..MaxFaults

Init ==
  /\ StepsInit
  /\ setting \in [Devices -> Values] /\ plugged = Devices
  /\ plan = << >> /\ row = NoRow /\ Undisturbed

-----------------------------------------------------------------------------
\* USB hubs and devices by their instance id; adapters by the id Windows gives
\* the physical ones; wired adapters with a switch that lists "0" as valid.
Selects(d) == d \in Selected

\* The devices a scan would change now, with what they hold.
Targets ==
  [d \in {e \in plugged : Selects(e) /\ setting[e] # Off} |-> setting[d]]

\* The write: `taken` have changed, `acked` said so.  A device that is not
\* there takes nothing; after a timeout nobody has said anything.
Written(new, taken) ==
  setting' = [d \in Devices |-> IF d \in taken THEN new[d] ELSE setting[d]]

Write(new, taken, acked) ==
  /\ taken \subseteq DOMAIN new \cap plugged /\ acked \subseteq taken
  /\ IF DOMAIN new \cap plugged \subseteq acked THEN NoFault ELSE Fault
  /\ Written(new, taken)

\* Success as soon as one device accepted: verify decides about the others.
SomeAccepted(names, acked) == names \ acked # names

\* Mutant: an undo counts as done as soon as one device went back.
AnyAccepted(names, acked) == SomeAccepted(names, acked)

\* An undo is done when every device of the row took its old value back.
AllAccepted(names, acked) == acked = names

\* The re-reading after apply looks at the devices of the plan that are there.
StillOn(names) == {d \in names \cap plugged : setting[d] # Off}

-----------------------------------------------------------------------------
Scan ==
  /\ Targets # << >> /\ PlanStep /\ plan' = Targets /\ row' = NoRow
  /\ UNCHANGED <<setting, plugged, others, faults>>

\* The second scan shows other devices or other values, or fails.
Drift ==
  /\ StandDown
  /\ \/ Targets # plan /\ NoFault
     \/ Targets = plan /\ Fault
  /\ plan' = << >> /\ UNCHANGED <<setting, plugged, row, others>>

Backup ==
  /\ Targets = plan /\ BackupStep /\ row' = plan
  /\ UNCHANGED <<setting, plugged, plan, others, faults>>

Apply ==
  /\ \E taken, acked \in SUBSET Devices :
       /\ Write([d \in DOMAIN plan |-> Off], taken, acked)
       /\ ApplyStep(SomeAccepted(DOMAIN plan, acked))
  /\ UNCHANGED <<plugged, plan, row, others>>

\* The read fails (the exception counts as a no), or shows the devices.
Verify ==
  /\ \/ VerifyStep(StillOn(DOMAIN plan) = {}) /\ NoFault
     \/ VerifyStep(FALSE) /\ Fault
  /\ UNCHANGED <<setting, plugged, plan, row, others>>

\* Back to the recorded values, by the engine or by an undo.
Rollback ==
  /\ at \in {"rollback", "kept"}
  /\ \E taken, acked \in SUBSET Devices :
       /\ Write(row, taken, acked)
       /\ RollbackStep(AllAccepted(DOMAIN row, acked))
  /\ UNCHANGED <<plugged, plan, row, others>>

-----------------------------------------------------------------------------
\* A checkbox in Device Manager, a driver update.
OtherSets ==
  /\ Other
  /\ \E d \in Devices, v \in Values : setting' = [setting EXCEPT ![d] = v]
  /\ UNCHANGED <<plugged, plan, row, faults, steps>>

\* A device is pulled out, or put back in.
OtherPlugs ==
  /\ Other
  /\ \E d \in Devices :
       plugged' = IF d \in plugged THEN plugged \ {d} ELSE plugged \cup {d}
  /\ UNCHANGED <<setting, plan, row, faults, steps>>

Next ==
  \/ Scan \/ Drift \/ Backup \/ Apply \/ Verify \/ Rollback
  \/ OtherSets \/ OtherPlugs

Spec == Init /\ [][Next]_vars
===============================================================================
