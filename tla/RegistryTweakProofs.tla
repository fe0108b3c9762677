-------------------------- MODULE RegistryTweakProofs --------------------------
(***************************************************************************)
(* RegistryTweak implements TweakContract, and a tweak of one pair and its  *)
(* undo leave the others' pairs alone, for any pairs, values and registry   *)
(* types and any number of failures and of writes by others.                *)
(***************************************************************************)
EXTENDS RegistryTweak, TLAPS

Pairs(v) ==
  [f \in Flags |-> IF v = Absent THEN Absent ELSE [data |-> v.data[f], kind |-> v.kind]]

\* The cells are the pairs; they are as wanted when the string is the planned one.
Contract == INSTANCE TweakContract WITH
  machine <- Pairs(value), there <- Flags,
  row <- IF row = NoRow THEN NoRow ELSE Pairs(row),
  wanted <- IF value # Absent /\ value.data = plan.desired THEN Flags ELSE {}

\* What is not there, and a row that does not exist, are not mistaken for data.
DistinctAssumption ==
  /\ RegistryAssumption
  /\ Absent \notin Present \cup Data /\ NoRow \notin Present \cup {Absent}
  /\ \A v \in Present \cup {Absent} : Pairs(v) # NoRow

-----------------------------------------------------------------------------
(* The invariant: nothing comes between the second look at the value and the *)
(* write, so what is written is what is there with one pair changed.        *)

PlanInv ==
  /\ value \in Present \cup {Absent}
  /\ row \in Present \cup {Absent, NoRow}
  /\ plan.desired \in Data \cup {Absent}
  /\ at = "planned" => plan.desired \in Data
  /\ at = "backed" => row = value /\ plan.desired = WithFlag(Observed)
  /\ at \in {"written", "rollback", "kept"} => plan.desired \in Data
  /\ at \in {"backed", "written", "rollback", "kept"} => row # NoRow

LEMMA ObservedData ==
  ASSUME value \in Present \cup {Absent}, DistinctAssumption
  PROVE  /\ Observed \in Data \cup {Absent}
         /\ Observed = Absent <=> value = Absent
         /\ value # Absent => value \in Present /\ Observed = value.data
BY DEF Observed, Present, DistinctAssumption

LEMMA MergedData ==
  ASSUME DistinctAssumption, NEW data \in Data \cup {Absent}
  PROVE  /\ WithFlag(data) \in Data
         /\ data = Absent => \A f \in Flags \ {Mine} : WithFlag(data)[f] = Unset
         /\ data # Absent => \A f \in Flags \ {Mine} : WithFlag(data)[f] = data[f]
BY DEF DistinctAssumption, RegistryAssumption, WithFlag, Nothing, Data

LEMMA PlanInit == Init => PlanInv
BY DEF Init, StepsInit, NoPlan, PlanInv

LEMMA PlanInvStep ==
  ASSUME DistinctAssumption, PlanInv, [Next]_vars
  PROVE  PlanInv'
<1>1. CASE UNCHANGED vars
  BY <1>1 DEF vars, steps, PlanInv, Observed, WithFlag
<1>2. CASE Scan
  <2>1. WithFlag(Observed) \in Data
    BY ObservedData, MergedData DEF PlanInv
  <2>2. QED
    BY <1>2, <2>1 DEF Scan, PlanStep, PlanInv
<1>3. CASE Drift
  BY <1>3 DEF Drift, StandDown, NoPlan, PlanInv
<1>4. CASE Backup
  <2>1. at' = "backed" /\ row' = value /\ UNCHANGED <<value, plan>>
        /\ plan.desired = WithFlag(Observed)
    BY <1>4 DEF Backup, BackupStep, SameAsPlanned
  <2>2. WithFlag(Observed)' = WithFlag(Observed)
    BY <2>1 DEF WithFlag, Observed
  <2>3. value # NoRow
    BY DEF DistinctAssumption, PlanInv
  <2>4. QED
    BY <2>1, <2>2, <2>3 DEF PlanInv
<1>5. CASE Apply
  <2>1. PICK ok \in BOOLEAN : WriteValue(plan.desired, Kind, ok) /\ ApplyStep(ok)
    BY <1>5 DEF Apply
  <2>2. plan.desired \in Data
    BY <1>5, ObservedData, MergedData DEF Apply, PlanInv
  <2>3. value' \in Present \cup {Absent}
    BY <2>1, <2>2 DEF WriteValue, PlanInv, Present, DistinctAssumption, RegistryAssumption
  <2>4. at = "backed" /\ at' \in {"written", "rollback"} /\ UNCHANGED <<plan, row>>
    BY <1>5, <2>1 DEF Apply, ApplyStep
  <2>5. QED
    BY <2>2, <2>3, <2>4 DEF PlanInv
<1>6. CASE Verify
  <2>1. at = "written" /\ at' \in {"kept", "rollback"} /\ UNCHANGED <<value, plan, row>>
    BY <1>6 DEF Verify, VerifyStep
  <2>2. QED
    BY <2>1 DEF PlanInv
<1>7. CASE Rollback
  <2>1. at \in {"rollback", "kept"} /\ at' \in {"idle", "kept"} /\ UNCHANGED <<plan, row>>
        /\ (at' = "kept" => at = "kept") /\ value' \in {value, row, Absent}
    BY <1>7 DEF Rollback, RollbackStep, WriteValue, DeleteValue, PlanInv, Present
  <2>2. QED
    BY <2>1 DEF PlanInv
<1>8. CASE OtherSets
  <2>1. at \notin {"backed", "rollback"} /\ value' \in Present \cup {Absent}
        /\ UNCHANGED <<at, plan, row>>
    BY <1>8 DEF OtherSets, Other, Calm, steps
  <2>2. QED
    BY <2>1 DEF PlanInv
<1>9. QED
  BY <1>1, <1>2, <1>3, <1>4, <1>5, <1>6, <1>7, <1>8 DEF Next

\* What the row holds of the others' pairs is what they hold: an undo that writes
\* the whole string back changes none of them.
PairsInv ==
  at \in {"backed", "written", "rollback", "kept"} => SameOtherPairs(row, value)

\* What apply writes differs from what is there in the tweak's own pair only.
LEMMA ApplyKeepsPairs ==
  ASSUME DistinctAssumption, PlanInv, Apply PROVE SameOtherPairs(value', value)
<1> SUFFICES ASSUME NEW f \in Flags \ {Mine} PROVE PairOf(value', f) = PairOf(value, f)
  BY DEF SameOtherPairs
<1>1. PICK ok \in BOOLEAN : WriteValue(plan.desired, Kind, ok)
  BY DEF Apply
<1>2. CASE ok
  <2>1. value' = [data |-> WithFlag(Observed), kind |-> Kind]
    BY <1>1, <1>2 DEF WriteValue, PlanInv, Apply
  <2>2. WithFlag(Observed) \in Data
    BY ObservedData, MergedData DEF PlanInv
  <2>3. value' \in Present
    BY <2>1, <2>2 DEF Present, DistinctAssumption, RegistryAssumption
  <2>4. PairOf(value', f) = WithFlag(Observed)[f]
    BY <2>1, <2>3 DEF PairOf, DistinctAssumption
  <2>5. WithFlag(Observed)[f] = PairOf(value, f)
    BY ObservedData, MergedData DEF PlanInv, PairOf
  <2>6. QED
    BY <2>4, <2>5
<1>3. CASE ~ok
  BY <1>1, <1>3 DEF WriteValue
<1>4. QED
  BY <1>2, <1>3

\* The rollback writes the row back, deletes what the row says was not there, or
\* changes nothing.
LEMMA RollbackKeepsPairs ==
  ASSUME DistinctAssumption, PlanInv, PairsInv, Rollback PROVE SameOtherPairs(value', value)
<1>1. SameOtherPairs(row, value)
  BY DEF Rollback, PairsInv
<1>2. value' \in {value, row}
  BY DEF Rollback, RollbackStep, WriteValue, DeleteValue, PlanInv, Present
<1>3. QED
  BY <1>1, <1>2 DEF SameOtherPairs

LEMMA PairsStep ==
  ASSUME DistinctAssumption, ~PairsUnderRow, PlanInv, PairsInv, [Next]_vars
  PROVE  PairsInv'
<1>1. CASE UNCHANGED vars
  BY <1>1 DEF vars, steps, PairsInv, SameOtherPairs
<1>2. CASE Scan \/ Drift
  BY <1>2 DEF Scan, Drift, PlanStep, StandDown, PairsInv
<1>3. CASE Backup
  BY <1>3 DEF Backup, BackupStep, PairsInv, SameOtherPairs
<1>4. CASE Apply
  <2>1. at = "backed" /\ row' = row
    BY <1>4 DEF Apply
  <2>2. SameOtherPairs(row, value) /\ SameOtherPairs(value', value)
    BY <1>4, <2>1, ApplyKeepsPairs DEF PairsInv
  <2>3. QED
    BY <2>1, <2>2 DEF PairsInv, SameOtherPairs
<1>5. CASE Verify
  BY <1>5 DEF Verify, VerifyStep, PairsInv, SameOtherPairs
<1>6. CASE Rollback
  <2>1. at \in {"rollback", "kept"} /\ row' = row
    BY <1>6 DEF Rollback
  <2>2. SameOtherPairs(row, value) /\ SameOtherPairs(value', value)
    BY <1>6, <2>1, RollbackKeepsPairs DEF PairsInv
  <2>3. QED
    BY <2>1, <2>2 DEF PairsInv, SameOtherPairs
<1>7. CASE OtherSets
  <2>1. UNCHANGED <<at, row>> /\ at \notin {"backed", "rollback"}
    BY <1>7 DEF OtherSets, Other, Calm, steps
  <2>2. at \in {"written", "kept"} => SameOtherPairs(value', value)
    BY <1>7 DEF OtherSets
  <2>3. QED
    BY <2>1, <2>2 DEF PairsInv, SameOtherPairs
<1>8. QED
  BY <1>1, <1>2, <1>3, <1>4, <1>5, <1>6, <1>7 DEF Next

Counted == others \in Nat

LEMMA OthersCounted == ASSUME Counted, [Next]_vars PROVE Counted'
<1>1. CASE OtherSets
  BY <1>1 DEF OtherSets, Other, OtherStep, Counted
<1>2. CASE ~OtherSets
  <2>1. UNCHANGED others
    BY <1>2 DEF Next, Scan, Drift, Backup, Apply, Verify, Rollback, vars
  <2>2. QED
    BY <2>1 DEF Counted
<1>3. QED
  BY <1>1, <1>2

\* A change of one pair, and its undo, leave every other pair of the string as it is,
\* as long as others leave their pairs alone while the change is in place: the string
\* is read again at the drift check and merged into what is there then, and the undo
\* writes all of the old one back (tweaks/choice.py; registry_value.py, rollback).
THEOREM OtherPairsSurvive ==
  ASSUME DistinctAssumption, ~PairsUnderRow
  PROVE  Spec => [][OthersPairsKept]_vars
<1>1. Init => PairsInv /\ Counted
  BY DEF Init, StepsInit, Undisturbed, Counted, PairsInv
<1>2. ASSUME PlanInv, PairsInv, Counted, [Next]_vars PROVE [OthersPairsKept]_vars
  <2>1. CASE UNCHANGED vars
    BY <2>1
  <2>2. CASE Scan \/ Drift \/ Backup \/ Verify
    BY <2>2 DEF Scan, Drift, Backup, Verify, OthersPairsKept, SameOtherPairs
  <2>3. CASE Apply \/ Rollback
    BY <1>2, <2>3, ApplyKeepsPairs, RollbackKeepsPairs DEF OthersPairsKept
  <2>4. CASE OtherSets
    <3>1. others' # others
      BY <2>4, <1>2 DEF OtherSets, Other, OtherStep, Counted
    <3>2. QED
      BY <3>1 DEF OthersPairsKept
  <2>5. QED
    BY <1>2, <2>1, <2>2, <2>3, <2>4 DEF Next
<1>3. QED
  BY PlanInit, PlanInvStep, PairsStep, OthersCounted, <1>1, <1>2, PTL DEF Spec

-----------------------------------------------------------------------------
(* The refinement, one step of the contract at a time.                      *)

LEMMA CoversAll ==
  ASSUME DistinctAssumption, PlanInv, row # NoRow
  PROVE  Contract!Covered = Flags
BY DEF Contract!Covered, DistinctAssumption, PlanInv, Pairs

LEMMA InitRefines == Init => Contract!Init
BY DEF Init, StepsInit, Contract!Init, Contract!StepsInit

LEMMA ScanRefines == Scan => Contract!Plan
BY DEF Scan, PlanStep, Contract!Plan, Contract!PlanStep, Pairs

LEMMA DriftRefines == Drift => Contract!Skip
BY DEF Drift, StandDown, Contract!Skip, Contract!StandDown, Pairs

LEMMA BackupRefines == ASSUME DistinctAssumption, PlanInv, Backup PROVE Contract!Backup
<1>1. row' = value /\ value # NoRow /\ Pairs(value) # NoRow /\ UNCHANGED value
  BY DEF Backup, DistinctAssumption, PlanInv
<1>2. QED
  BY <1>1 DEF Backup, BackupStep, Contract!Backup, Contract!BackupStep, Pairs

LEMMA ApplyRefines == ASSUME DistinctAssumption, PlanInv, Apply PROVE Contract!Apply
<1>1. PICK ok \in BOOLEAN : ApplyStep(ok)
  BY DEF Apply
<1>2. Contract!WritesWithinRow
  <2>1. row # NoRow
    BY <1>1 DEF ApplyStep, PlanInv
  <2>2. QED
    BY <2>1, CoversAll DEF Contract!WritesWithinRow, Pairs
<1>3. QED
  BY <1>1, <1>2 DEF Apply, ApplyStep, Contract!Apply, Contract!ApplyStep

LEMMA VerifyRefines == ASSUME DistinctAssumption, PlanInv, Verify PROVE Contract!Verify
<1>1. at = "written" /\ row # NoRow /\ plan.desired \in Data /\ UNCHANGED <<value, plan, row>>
  BY DEF Verify, VerifyStep, PlanInv
<1>2. CASE VerifyStep(FALSE)
  BY <1>1, <1>2 DEF VerifyStep, Contract!Verify, Contract!VerifyStep, Pairs
<1>3. CASE VerifyStep(TRUE) /\ Observed = plan.desired
  <2>1. value # Absent /\ value.data = plan.desired
    BY <1>1, <1>3, ObservedData DEF PlanInv, DistinctAssumption
  <2>2. QED
    BY <1>1, <1>3, <2>1, CoversAll DEF VerifyStep, Contract!Verify, Contract!VerifyStep, Pairs
<1>4. QED
  BY <1>2, <1>3 DEF Verify

LEMMA RollbackRefines == ASSUME DistinctAssumption, PlanInv, Rollback PROVE Contract!Rollback
<1>1. row # NoRow /\ row' = row
  BY DEF Rollback, RollbackStep, PlanInv
<1>2. Contract!WritesWithinRow
  BY <1>1, CoversAll DEF Contract!WritesWithinRow, Pairs
<1>3. CASE RollbackStep(FALSE)
  BY <1>1, <1>2, <1>3 DEF RollbackStep, Contract!Rollback, Contract!RollbackStep
<1>4. CASE RollbackStep(TRUE) /\ value' = row
  <2>1. \A c \in Contract!Covered : c \in Flags /\ Pairs(value)'[c] = Pairs(row)[c]
    BY <1>1, <1>4, CoversAll DEF Pairs
  <2>2. QED
    BY <1>1, <1>2, <1>4, <2>1 DEF RollbackStep, Contract!Rollback, Contract!RollbackStep
<1>5. QED
  BY <1>3, <1>4 DEF Rollback, WriteValue, DeleteValue, PlanInv, Present

LEMMA OthersRefine == OtherSets => Contract!Others
BY DEF OtherSets, Other, Calm, steps, Contract!Others, Contract!Calm

\* One registry value, or one pair of a shared string, is put back as it was, is
\* verified only when it is as planned, and nothing else is written.
THEOREM RegistryTweakKeepsContract ==
  ASSUME DistinctAssumption
  PROVE  Spec => Contract!Spec
<1>1. ASSUME PlanInv, [Next]_vars
      PROVE  [Contract!Next]_<<Pairs(value), Flags, IF row = NoRow THEN NoRow ELSE Pairs(row), steps>>
  <2>1. CASE UNCHANGED vars
    BY <2>1 DEF vars, steps, Pairs
  <2>2. CASE Next
    BY <1>1, <2>2, ScanRefines, DriftRefines, BackupRefines, ApplyRefines, VerifyRefines,
       RollbackRefines, OthersRefine DEF Next, Contract!Next
  <2>3. QED
    BY <1>1, <2>1, <2>2
<1>2. QED
  BY <1>1, InitRefines, PlanInit, PlanInvStep, PTL DEF Spec, Contract!Spec, Contract!steps, steps
===============================================================================
