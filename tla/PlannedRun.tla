------------------------------ MODULE PlannedRun ------------------------------
(***************************************************************************)
(* One plan, from what is offered to the report: OPTIMIZE at a level chosen *)
(* on the main window, or the choices made in the settings dialog (or the   *)
(* fixes of a profile, which take the same road).  Planning changes         *)
(* nothing; the operator approves rows of a dialog; only those are applied, *)
(* each after another look.  What happens inside one change is the change   *)
(* lifecycle's affair; here it has an outcome.                              *)
(***************************************************************************)
EXTENDS Naturals, Sequences, FiniteSets, SequencesExt

CONSTANTS
  Order,       \* the tweaks OPTIMIZE builds, in their order
  Displays,    \* those built only for a display found below its best rate
  Offered,     \* the tweaks the settings dialog offers, in their order
  Risk,        \* the risk class of each
  NeedsAdmin,  \* those that need elevation whatever their class
  Elevations,  \* may the program run elevated, or not: a set of Booleans
  MaxDrifts    \* how often something else changes a setting

Tweaks == ToSet(Order) \cup ToSet(Offered)

PlannedRunAssumption ==
  /\ Order \in Seq(Tweaks) /\ Offered \in Seq(Tweaks)
  /\ Displays \subseteq ToSet(Order)
  /\ \A t \in Tweaks : Risk[t] \in {"SAFE", "LOW", "MEDIUM", "HIGH", "CRITICAL"}
  /\ Elevations \subseteq BOOLEAN /\ MaxDrifts \in Nat

Levels == {"NORMAL", "MEDIUM", "HARD"}
AutoApplicable(t) == Risk[t] \in {"SAFE", "LOW"}

VARIABLES
  elevated, \* does the program run elevated?
  needs,    \* the tweaks whose setting is not as they want it
  below,    \* the displays the last scan found below their best
  place,       \* "idle", "planning", "shown", "applying", "measuring", "reported"
  source,   \* "optimize" or "settings"
  toggle,   \* the level the window shows
  level,    \* the level of the plan
  plan,     \* its changes: [tweak, apply, blocked]
  ticked,   \* the rows of the dialog that are ticked
  touched,  \* the tweaks the operator has ticked by hand
  agreed,   \* the tweaks the operator agreed to
  done,     \* how many changes of the plan are dealt with
  outcome,  \* the outcome of the last of them
  measured,    \* {what was measured after the run}, or {}
  notes, drifts

runVars == <<elevated, needs, below, place, source, toggle, level, plan, ticked, touched,
          agreed, done, outcome, measured, notes, drifts>>
surroundings == <<needs, below, drifts>>
dialog == <<source, toggle, level, ticked, touched, agreed>>
report == <<done, outcome, measured, notes>>

RunInit ==
  /\ elevated \in Elevations
  /\ needs \in SUBSET Tweaks /\ below = needs \cap Displays
  /\ place = "idle" /\ source = "optimize" /\ toggle = "NORMAL" /\ level = "NORMAL"
  /\ plan = << >> /\ ticked = {} /\ touched = {} /\ agreed = {}
  /\ done = 0 /\ outcome = "none" /\ measured = {} /\ notes = {} /\ drifts = 0

-----------------------------------------------------------------------------
(* Planning.                                                                *)

\* Those of a list that are wanted, in the list's order.
InOrder(wanted, list) ==
  {built \in BoundedSeq(wanted, Len(list)) :
     /\ ToSet(built) = wanted
     /\ \A i, j \in DOMAIN built :
          i < j <=> \E a, b \in DOMAIN list : a < b /\ list[a] = built[i] /\ list[b] = built[j]}

\* build_tweaks: the displays of the scan first, then everything else, each to
\* find out for itself whether there is something to do.
BuiltTweaks == {t \in ToSet(Order) : t \in Displays => t \in below}

\* _gate: as wanted already, refused, not elevated, of a class that was not
\* admitted (the one reason a button can lift), or of one that never is.
Gate(t, refused, admitted) ==
  LET may == t \in needs /\ ~refused
             /\ (elevated \/ (AutoApplicable(t) /\ t \notin NeedsAdmin))
      held == may /\ ~AutoApplicable(t) /\ ~admitted IN
  [tweak |-> t, blocked |-> held,
   apply |-> may /\ ~held /\ Risk[t] # "CRITICAL"]

\* One tweak may be unreadable or refuse, and does not disturb the others.
Planned(list, admitted) ==
  \E faulty \in Tweaks \cup {"none"} :
    plan' = [i \in DOMAIN list |-> Gate(list[i], list[i] = faulty, admitted)]

AdmittedAt(l) == l # "NORMAL"

\* A dialog has one row for each change that would be applied.
RowsOf(changes) == SelectSeq([i \in DOMAIN changes |-> i], LAMBDA i : changes[i].apply)

\* OptimizationPipeline.preview and SettingsService.preview.
PlanReady ==
  /\ place = "planning" /\ place' = "shown"
  /\ IF source = "optimize"
     THEN \E list \in InOrder(BuiltTweaks, Order) : Planned(list, AdmittedAt(level))
     ELSE \E list \in InOrder(touched, Offered) : Planned(list, TRUE)
  /\ UNCHANGED <<surroundings, source, toggle, level, touched, agreed, report>>
  /\ ticked' = LET rows == RowsOf(plan') IN
       {r \in DOMAIN rows :
          source = "settings" \/ AutoApplicable(plan'[rows[r]].tweak) \/ level = "HARD"}

Plans(from, l) ==
  /\ place' = "planning" /\ source' = from /\ level' = l
  /\ plan' = << >> /\ ticked' = {} /\ UNCHANGED <<surroundings, agreed, report>>

Optimize ==
  /\ place = "idle" /\ Plans("optimize", toggle) /\ touched' = {} /\ UNCHANGED toggle

\* Every row starts at "leave"; an option picked is the consent.
ChooseSettings ==
  /\ place = "idle" /\ Plans("settings", "NORMAL")
  /\ touched' \in (SUBSET ToSet(Offered)) \ {{}} /\ UNCHANGED toggle

\* Also while a plan is being made, which keeps its own level.
SetLevel ==
  /\ place \in {"idle", "planning"} /\ toggle' \in Levels \ {toggle}
  /\ UNCHANGED <<surroundings, place, source, level, plan, ticked, touched, agreed, report>>

-----------------------------------------------------------------------------
(* The dialog.                                                              *)

RowIndex == RowsOf(plan)
RowTweak(r) == plan[RowIndex[r]].tweak

Tick(r) ==
  /\ place = "shown" /\ source = "optimize" /\ r \in DOMAIN RowIndex
  /\ IF r \in ticked
     THEN ticked' = ticked \ {r} /\ UNCHANGED touched
     ELSE ticked' = ticked \cup {r} /\ touched' = touched \cup {RowTweak(r)}
  /\ UNCHANGED <<surroundings, place, source, toggle, level, plan, agreed, report>>

\* Offered while the risk gate of this plan is shut and holds something back.
ShowMedium ==
  /\ place = "shown" /\ source = "optimize" /\ ~AdmittedAt(level)
  /\ \E i \in DOMAIN plan : plan[i].blocked
  /\ Plans("optimize", "MEDIUM") /\ toggle' = "MEDIUM" /\ touched' = {}

\* The dialog and what it held are gone.
Closed ==
  /\ place' = "idle" /\ source' = "optimize" /\ level' = "NORMAL" /\ plan' = << >>
  /\ ticked' = {} /\ touched' = {} /\ agreed' = {}
  /\ done' = 0 /\ outcome' = "none" /\ measured' = {} /\ notes' = {}
  /\ UNCHANGED <<needs, drifts, toggle>>

Cancel == place = "shown" /\ Closed /\ UNCHANGED below

\* Mutant: the ticks are taken for positions in the plan, which also holds the
\* changes that have no row.
TickedPositions(rows) == rows

\* Each row carries the position of its change in the plan.
SelectedIndices(rows) == {RowIndex[r] : r \in rows}

\* Plan.with_selection.
WithSelection(selected) ==
  [i \in DOMAIN plan |->
    IF ~plan[i].apply \/ i \in selected THEN plan[i] ELSE [plan[i] EXCEPT !.apply = FALSE]]

\* Accepting makes a restore point, or fails to, and the run goes on either way.
Accept ==
  /\ place = "shown" /\ ticked # {} /\ place' = "applying"
  /\ plan' = WithSelection(SelectedIndices(ticked))
  /\ agreed' = {RowTweak(r) : r \in ticked}
  /\ notes' \in {{}, {"no restore point"}}
  /\ UNCHANGED <<surroundings, source, toggle, level, ticked, touched, done, outcome, measured>>

-----------------------------------------------------------------------------
(* Applying, one change after another, and measuring.                       *)

Current == plan[done + 1]
Applying == place = "applying" /\ done < Len(plan)

Reports(how) ==
  /\ done' = done + 1 /\ outcome' = how
  /\ UNCHANGED <<below, drifts, place, dialog, plan, measured, notes>>

\* Not to be applied, or not as it was when it was planned, or not backed up.
LeaveChange ==
  /\ Applying /\ Reports("left") /\ UNCHANGED needs

\* Verified, undone again, or failed half way.
ExecuteChange ==
  /\ Applying /\ Current.apply /\ Current.tweak \in needs
  /\ \/ Reports("SUCCESS") /\ needs' = needs \ {Current.tweak}
     \/ Reports("ROLLED_BACK") /\ UNCHANGED needs
     \/ Reports("FAILED") /\ needs' \in {needs, needs \ {Current.tweak}}

RunEnds ==
  /\ place = "applying" /\ done = Len(plan)
  /\ place' = IF source = "optimize" THEN "measuring" ELSE "reported"
  /\ UNCHANGED <<surroundings, dialog, plan, report>>

\* Without a measurement there is no score, and not the one from before.
ScoreAfter(ok) == IF ok THEN {needs} ELSE {}

\* The rescan, whose failure leaves the run what it was.
Measure ==
  /\ place = "measuring" /\ place' = "reported"
  /\ \E ok \in BOOLEAN :
       /\ measured' = ScoreAfter(ok)
       /\ notes' = IF ok THEN notes ELSE notes \cup {"not measured"}
  /\ UNCHANGED <<surroundings, dialog, plan, done, outcome>>

\* The report is closed, and the window scans again.
CloseReport ==
  /\ place = "reported" /\ Closed /\ below' = needs \cap Displays

-----------------------------------------------------------------------------
\* The player, a game, an update; not while the report is read.
OtherDrifts ==
  /\ place # "reported" /\ drifts < MaxDrifts /\ drifts' = drifts + 1
  /\ \E t \in Tweaks : needs' = (needs \ {t}) \cup ({t} \ needs)
  /\ UNCHANGED <<below, place, dialog, plan, report>>

RunStep ==
  \/ Optimize \/ ChooseSettings \/ SetLevel \/ PlanReady
  \/ \E r \in 1..Len(Order) : Tick(r)
  \/ ShowMedium \/ Cancel \/ Accept
  \/ LeaveChange \/ ExecuteChange \/ RunEnds \/ Measure \/ CloseReport
  \/ OtherDrifts

RunNext == RunStep /\ UNCHANGED elevated

RunSpec == RunInit /\ [][RunNext]_runVars

-----------------------------------------------------------------------------
\* "Only what the operator ticked": a change that is carried out was a ticked
\* row of the dialog that was accepted; of a class above LOW only when elevated
\* and either ticked by hand or at the level that ticks everything; and never
\* of the class that is never applied.
Consented ==
  place = "applying" /\ done' # done /\ outcome' # "left" =>
    LET t == Current.tweak IN
    /\ t \in agreed /\ Risk[t] # "CRITICAL"
    /\ AutoApplicable(t) \/ (elevated /\ (t \in touched \/ level = "HARD"))

OnlyConsented == [][Consented]_runVars
===============================================================================
