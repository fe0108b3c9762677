----------------------------- MODULE SettingTweak -----------------------------
(***************************************************************************)
(* The tweaks of one setting behind a Windows call: the active power plan,  *)
(* one index of the active plan, the pointer's acceleration, the refresh    *)
(* rate of a display.  Each has its own idea of what needs a change and     *)
(* what counts as changed, and its own way to fail.  A plan's indices live  *)
(* in the plan: what is read and written is the index of whichever plan is  *)
(* active at that moment.                                                   *)
(***************************************************************************)
EXTENDS TweakStudy

CONSTANTS
  Tweak,      \* "plan", "index", "mouse" or "display"
  Plans,      \* the power plans of the machine
  Values,     \* what the setting can hold, as numbers
  Target,     \* what the tweak writes
  Enough,     \* the values a scan leaves as they are
  SwitchUnderRow  \* may the plan be switched while a row is not undone?

SettingAssumption ==
  /\ Tweak \in {"plan", "index", "mouse", "display"}
  /\ Target \in Values /\ Values \subseteq Nat /\ SwitchUnderRow \in BOOLEAN
  /\ Tweak = "plan" => Plans = {"machine"}

VARIABLES
  value,      \* what the setting holds, in each plan
  active,     \* the plan that is active
  queued      \* display modes that wait for a restart

vars == <<value, active, queued, plan, row, others, faults, steps>>
Backups == [where : Plans, old : Values]

TypeOK ==
  /\ value \in [Plans -> Values] /\ active \in Plans /\ queued \subseteq Values
  /\ plan \in Values /\ row \in Backups \cup {NoRow}
  /\ at \in Reached /\ said \in Answers
  /\ others \in 0..MaxOthers /\ faults \in 0..MaxFaults

Init ==
  /\ StepsInit /\ value \in [Plans -> Values] /\ active \in Plans
  /\ queued = {} /\ plan = Target /\ row = NoRow /\ Undisturbed

Now == value[active]

-----------------------------------------------------------------------------
(* What needs a change, and what verify accepts.                            *)

\* A plan whose processor never goes below full speed gains nothing from being
\* replaced: Enough holds those beside the target.
PlanNeeds == Now \notin Enough
\* Acceleration off is off, whatever the thresholds: several values do.
MouseNeeds == Now \notin Enough
\* Only a faster mode at the same resolution.
DisplayNeeds == Now < Target
IndexNeeds == Now # Target

Needs == CASE Tweak = "plan" -> PlanNeeds [] Tweak = "mouse" -> MouseNeeds
           [] Tweak = "display" -> DisplayNeeds [] OTHER -> IndexNeeds

Confirms == IF Tweak = "mouse" THEN ~MouseNeeds ELSE Now = Target

-----------------------------------------------------------------------------
(* The calls.  Each leaves the setting changed or not, and answers.         *)

Stored(v) == value' = [value EXCEPT ![active] = v] /\ UNCHANGED queued
Untouched == UNCHANGED <<value, queued>>

\* powercfg /setactive: done, or raises.
SwitchPlan(v, ok) == IF ok THEN Stored(v) /\ NoFault ELSE Untouched /\ Fault

\* Stored first, then activated, then read back: it may be stored and not be
\* acknowledged.
StoreIndex(v, ok) ==
  IF ok THEN Stored(v) /\ NoFault ELSE (Stored(v) \/ Untouched) /\ Fault

\* SystemParametersInfo: one call for the session and the profile.
SetMouse(v, ok) == IF ok THEN Stored(v) /\ NoFault ELSE Untouched /\ Fault

\* ChangeDisplaySettingsEx: done, refused, or queued for the next restart.
SetMode(v, ok) ==
  IF ok THEN value' = [value EXCEPT ![active] = v] /\ queued' = {} /\ NoFault
  ELSE Fault /\ UNCHANGED value /\ queued' \in {queued, {v}}

Write(v, ok) ==
  CASE Tweak = "plan" -> SwitchPlan(v, ok) [] Tweak = "index" -> StoreIndex(v, ok)
    [] Tweak = "mouse" -> SetMouse(v, ok) [] OTHER -> SetMode(v, ok)

\* A mode that waits for a restart is a success to apply, not to a rollback.
Applied(ok) == ok \/ queued' # {}

-----------------------------------------------------------------------------
Scan ==
  /\ Needs /\ PlanStep /\ plan' = Now /\ row' = NoRow
  /\ UNCHANGED <<value, active, queued, others, faults>>

Drift ==
  /\ StandDown
  /\ \/ (Now # plan \/ ~Needs) /\ NoFault
     \/ Now = plan /\ Needs /\ Fault
  /\ plan' = Target /\ UNCHANGED <<value, active, queued, row, others>>

\* The row holds what the scan read; which plan that was in is not recorded.
Backup ==
  /\ Now = plan /\ Needs /\ BackupStep
  /\ row' = [where |-> active, old |-> plan]
  /\ UNCHANGED <<value, active, queued, plan, others, faults>>

Apply ==
  /\ at = "backed"
  /\ \E ok \in BOOLEAN : Write(Target, ok) /\ ApplyStep(Applied(ok))
  /\ UNCHANGED <<active, plan, row, others>>

Verify ==
  /\ \/ VerifyStep(Confirms) /\ NoFault
     \/ VerifyStep(FALSE) /\ Fault
  /\ UNCHANGED <<value, active, queued, plan, row, others>>

\* The recorded value goes into the plan that is active now.
Rollback ==
  /\ at \in {"rollback", "kept"}
  /\ \E ok \in BOOLEAN : Write(row.old, ok) /\ RollbackStep(ok)
  /\ UNCHANGED <<active, plan, row, others>>

-----------------------------------------------------------------------------
OtherSets ==
  /\ Other /\ \E p \in Plans, v \in Values : value' = [value EXCEPT ![p] = v]
  /\ UNCHANGED <<active, queued, plan, row, faults, steps>>

\* The player, or PGM's own plan tweak, switches the plan.
OtherSwitches ==
  /\ Other /\ active' \in Plans
  /\ SwitchUnderRow \/ at \in {"idle", "planned"}
  /\ UNCHANGED <<value, queued, plan, row, faults, steps>>

\* The machine restarts; a queued mode takes effect.
Restart ==
  /\ Other /\ at \in {"idle", "kept"} /\ queued # {}
  /\ \E v \in queued : value' = [value EXCEPT ![active] = v]
  /\ queued' = {} /\ UNCHANGED <<active, plan, row, faults, steps>>

Next ==
  \/ Scan \/ Drift \/ Backup \/ Apply \/ Verify \/ Rollback
  \/ OtherSets \/ OtherSwitches \/ Restart

Spec == Init /\ [][Next]_vars
===============================================================================
