-------------------------- MODULE DeviceTweakProofs --------------------------
(***************************************************************************)
(* DeviceTweak implements TweakContract, for any set of devices, any values *)
(* and any number of failures and of interfering steps.                    *)
(***************************************************************************)
EXTENDS DeviceTweak, TLAPS

\* The machine's cells are the devices' settings; a cell is there while its device is
\* plugged in, and as wanted when it is off.
Contract == INSTANCE TweakContract WITH
  machine <- setting, there <- plugged,
  wanted <- {d \in Devices : setting[d] = Off}

\* A recorded row is not mistaken for none, and there are bounds to count to.
RowsAssumption ==
  /\ DeviceAssumption /\ NoRow \notin Recorded
  /\ MaxOthers \in Nat /\ MaxFaults \in Nat

-----------------------------------------------------------------------------
(* The invariant the refinement rests on: from the backup on, the row holds  *)
(* exactly the devices of the plan.                                         *)

RowInv ==
  /\ setting \in [Devices -> Values] /\ plugged \subseteq Devices
  /\ plan \in Recorded /\ row \in Recorded \cup {NoRow}
  /\ at \in Reached /\ said \in Answers
  /\ at \in {"backed", "written", "rollback", "kept"} => row \in Recorded
  /\ at \in {"backed", "written"} => row = plan

CountInv == others \in 0..MaxOthers /\ faults \in 0..MaxFaults

LEMMA TargetsRecorded == ASSUME RowInv PROVE Targets \in Recorded
<1> DEFINE D == {e \in plugged : Selects(e) /\ setting[e] # Off}
<1>1. D \in SUBSET Devices /\ Targets \in [D -> Values]
  BY DEF RowInv, Targets
<1>2. QED
  BY <1>1 DEF Recorded

LEMMA RecordedDomain ==
  ASSUME NEW r \in Recorded
  PROVE  DOMAIN r \subseteq Devices /\ \A d \in DOMAIN r : r[d] \in Values
BY DEF Recorded

LEMMA EmptyRecorded == << >> \in Recorded
<1>1. << >> \in [{} -> Values]
  OBVIOUS
<1>2. QED
  BY <1>1 DEF Recorded

LEMMA RowInit == ASSUME RowsAssumption PROVE Init => RowInv /\ CountInv
BY EmptyRecorded DEF RowsAssumption, Init, StepsInit, Undisturbed, RowInv, CountInv, Reached, Answers

\* A write leaves every device with a value.
LEMMA WriteTyped ==
  ASSUME RowInv, NEW new, NEW taken, NEW acked, Write(new, taken, acked),
         \A d \in DOMAIN new : new[d] \in Values
  PROVE  /\ setting' \in [Devices -> Values]
         /\ \A d \in Devices \ DOMAIN new : setting'[d] = setting[d]
         /\ acked \subseteq DOMAIN new \cap plugged
         /\ \A d \in acked : d \in Devices /\ setting'[d] = new[d]
BY DEF RowInv, Write, Written

LEMMA RowStep ==
  ASSUME RowsAssumption
  PROVE  RowInv /\ [Next]_vars => RowInv'
<1> SUFFICES ASSUME RowInv, [Next]_vars PROVE RowInv'
  OBVIOUS
<1> USE DEF Reached, Answers
<1>1. CASE UNCHANGED vars
  BY <1>1 DEF vars, steps, RowInv
<1>2. CASE Scan
  BY <1>2, TargetsRecorded DEF Scan, PlanStep, RowInv
<1>3. CASE Drift
  BY <1>3, EmptyRecorded DEF Drift, StandDown, RowInv
<1>4. CASE Backup
  BY <1>4 DEF Backup, BackupStep, RowInv
<1>5. CASE Apply
  <2>1. PICK taken, acked \in SUBSET Devices :
          /\ Write([d \in DOMAIN plan |-> Off], taken, acked)
          /\ ApplyStep(SomeAccepted(DOMAIN plan, acked))
    BY <1>5 DEF Apply
  <2>2. setting' \in [Devices -> Values]
    BY <2>1, WriteTyped DEF RowsAssumption, DeviceAssumption
  <2>3. QED
    BY <1>5, <2>1, <2>2 DEF Apply, ApplyStep, RowInv
<1>6. CASE Verify
  BY <1>6 DEF Verify, VerifyStep, RowInv
<1>7. CASE Rollback
  <2>1. PICK taken, acked \in SUBSET Devices :
          /\ Write(row, taken, acked)
          /\ RollbackStep(AllAccepted(DOMAIN row, acked))
    BY <1>7 DEF Rollback
  <2>2. row \in Recorded
    BY <1>7 DEF Rollback, RowInv
  <2>3. setting' \in [Devices -> Values]
    BY <2>1, <2>2, WriteTyped, RecordedDomain
  <2>4. QED
    BY <1>7, <2>1, <2>3 DEF Rollback, RollbackStep, RowInv
<1>8. CASE OtherSets
  BY <1>8 DEF OtherSets, steps, RowInv
<1>9. CASE OtherPlugs
  BY <1>9 DEF OtherPlugs, steps, RowInv
<1>10. QED
  BY <1>1, <1>2, <1>3, <1>4, <1>5, <1>6, <1>7, <1>8, <1>9 DEF Next

\* The bounds on failures and on other programs hold.
LEMMA CountStep ==
  ASSUME RowsAssumption
  PROVE  CountInv /\ [Next]_vars => CountInv'
<1> SUFFICES ASSUME CountInv, [Next]_vars PROVE CountInv'
  OBVIOUS
<1>1. /\ others' = others \/ (others < MaxOthers /\ others' = others + 1)
      /\ faults' = faults \/ (faults < MaxFaults /\ faults' = faults + 1)
  <2>1. CASE UNCHANGED vars
    BY <2>1 DEF vars
  <2>2. CASE Scan \/ Drift \/ Backup \/ Verify
    BY <2>2 DEF Scan, Drift, Backup, Verify, Fault, NoFault
  <2>3. CASE Apply \/ Rollback
    BY <2>3 DEF Apply, Rollback, Write, Fault, NoFault
  <2>4. CASE OtherSets \/ OtherPlugs
    BY <2>4 DEF OtherSets, OtherPlugs, Other, OtherStep
  <2>5. QED
    BY <2>1, <2>2, <2>3, <2>4 DEF Next
<1>2. QED
  BY <1>1 DEF CountInv, RowsAssumption

\* Every variable of the tweak holds a value of its kind.
THEOREM DeviceTypeCorrect ==
  ASSUME RowsAssumption
  PROVE  Spec => []TypeOK
<1>1. RowInv /\ CountInv => TypeOK
  BY DEF RowInv, CountInv, TypeOK
<1>2. QED
  BY RowInit, RowStep, CountStep, <1>1, PTL DEF Spec

-----------------------------------------------------------------------------
(* The refinement, one step of the contract at a time.                      *)

LEMMA InitRefines == Init => Contract!Init
BY DEF Init, StepsInit, Contract!Init, Contract!StepsInit

\* Planning, standing down and backing up touch no device.
LEMMA PlanRefines == Scan => Contract!Plan
BY DEF Scan, PlanStep, Contract!Plan, Contract!PlanStep

LEMMA DriftRefines == Drift => Contract!Skip
BY DEF Drift, StandDown, Contract!Skip, Contract!StandDown

LEMMA BackupRefines ==
  ASSUME RowsAssumption, RowInv PROVE Backup => Contract!Backup
BY DEF RowsAssumption, RowInv, Backup, BackupStep, Contract!Backup, Contract!BackupStep

\* The script changes devices of the plan only, and those are the row's.
LEMMA ApplyRefines ==
  ASSUME RowsAssumption, RowInv, Apply PROVE Contract!Apply
<1>1. PICK taken, acked \in SUBSET Devices :
        /\ Write([d \in DOMAIN plan |-> Off], taken, acked)
        /\ ApplyStep(SomeAccepted(DOMAIN plan, acked))
  BY DEF Apply
<1>2. at = "backed" /\ row = plan /\ row # NoRow /\ UNCHANGED <<plugged, row>>
  BY <1>1 DEF Apply, ApplyStep, RowsAssumption, RowInv
<1>3. Contract!WritesWithinRow
  BY <1>1, <1>2, WriteTyped
     DEF RowInv, RowsAssumption, DeviceAssumption, Contract!WritesWithinRow, Contract!Covered
<1>4. \E ok \in BOOLEAN : Contract!ApplyStep(ok)
  BY <1>1 DEF ApplyStep, Contract!ApplyStep, SomeAccepted
<1>5. QED
  BY <1>2, <1>3, <1>4 DEF Contract!Apply

\* "Verified" is only said when every device of the row that is there is off.
LEMMA VerifyRefines ==
  ASSUME RowsAssumption, RowInv, Verify PROVE Contract!Verify
<1>1. at = "written" /\ row = plan /\ row # NoRow /\ UNCHANGED <<setting, plugged, row>>
  BY DEF Verify, VerifyStep, RowsAssumption, RowInv
<1>2. CASE VerifyStep(FALSE)
  BY <1>1, <1>2 DEF VerifyStep, Contract!Verify, Contract!VerifyStep
<1>3. CASE StillOn(DOMAIN plan) = {} /\ VerifyStep(TRUE)
  <2>1. DOMAIN row \cap plugged \subseteq {d \in Devices : setting[d] = Off}
    BY <1>1, <1>3 DEF StillOn, RowInv
  <2>2. QED
    BY <1>1, <1>3, <2>1 DEF VerifyStep, Contract!Verify, Contract!VerifyStep, Contract!Covered
<1>4. QED
  BY <1>2, <1>3 DEF Verify, VerifyStep

\* "Restored" is only said when every device of the row was there and took its value.
LEMMA RollbackRefines ==
  ASSUME RowsAssumption, RowInv, Rollback PROVE Contract!Rollback
<1>1. PICK taken, acked \in SUBSET Devices :
        /\ Write(row, taken, acked)
        /\ RollbackStep(AllAccepted(DOMAIN row, acked))
  BY DEF Rollback
<1>2. row \in Recorded /\ row # NoRow /\ UNCHANGED <<plugged, row>>
  BY DEF Rollback, RowsAssumption, RowInv
<1>3. /\ setting' \in [Devices -> Values]
      /\ \A d \in Devices \ DOMAIN row : setting'[d] = setting[d]
      /\ acked \subseteq DOMAIN row \cap plugged
      /\ \A d \in acked : setting'[d] = row[d]
  BY <1>1, <1>2, WriteTyped, RecordedDomain
<1>4. Contract!WritesWithinRow
  BY <1>2, <1>3 DEF RowInv, Contract!WritesWithinRow, Contract!Covered
<1>5. CASE acked = DOMAIN row
  BY <1>1, <1>2, <1>3, <1>4, <1>5
     DEF AllAccepted, RollbackStep, Contract!Rollback, Contract!RollbackStep, Contract!Covered
<1>6. CASE acked # DOMAIN row
  BY <1>1, <1>2, <1>4, <1>6
     DEF AllAccepted, RollbackStep, Contract!Rollback, Contract!RollbackStep
<1>7. QED
  BY <1>5, <1>6

\* What happens outside the program happens in the contract's calm steps.
LEMMA OthersRefine == OtherSets \/ OtherPlugs => Contract!Others
BY DEF OtherSets, OtherPlugs, Other, Calm, steps, Contract!Others, Contract!Calm

LEMMA StepRefines ==
  ASSUME RowsAssumption
  PROVE  RowInv /\ [Next]_vars => [Contract!Next]_<<setting, plugged, row, steps>>
<1> SUFFICES ASSUME RowInv, [Next]_vars
             PROVE  Contract!Next \/ UNCHANGED <<setting, plugged, row, steps>>
  OBVIOUS
<1>1. CASE UNCHANGED vars
  BY <1>1 DEF vars
<1>2. CASE Next
  BY <1>2, PlanRefines, DriftRefines, BackupRefines, ApplyRefines, VerifyRefines,
     RollbackRefines, OthersRefine DEF Next, Contract!Next
<1>3. QED
  BY <1>1, <1>2

\* Whichever devices are unplugged, refuse or answer late, the tweak keeps its promise:
\* it writes to devices of its row only, calls a change verified only when every one
\* of them that is there is off, and restored only when every one has its old value
\* (core/optimization/tweaks/devices.py).
THEOREM DeviceTweakKeepsContract ==
  ASSUME RowsAssumption
  PROVE  Spec => Contract!Spec
BY RowInit, RowStep, InitRefines, StepRefines, PTL DEF Spec, Contract!Spec, Contract!steps, steps
=============================================================================
