--------------------------- MODULE ChangeLifecycle ---------------------------
(***************************************************************************)
(* The life of one change to Windows: planned, re-checked, backed up,      *)
(* applied, verified, and undone either by the engine in the same run or   *)
(* later from the history.  Composes                                       *)
(*   core/optimization/engine.py    TweakEngine: plan, apply, _execute     *)
(*   core/optimization/store.py     RunStore: the "backups" table          *)
(*   core/optimization/history.py   restore, restore_all                   *)
(*   core/optimization/recovery.py  find_interrupted, acknowledge          *)
(* with the settings of the machine, the player and the other programs     *)
(* that write them, program crashes, failing tweaks and a failing database *)
(*                                                                         *)
(* A worker is the thread of one BackgroundRunner.  The OPTIMIZE worker    *)
(* only runs plans; the worker behind the settings and history dialogs     *)
(* runs plans and undoes changes.  A program instance is a process; all    *)
(* processes share the settings and the database file.                     *)
(***************************************************************************)
EXTENDS Integers, Sequences, FiniteSets

CONSTANTS
  Targets,        \* what a backups row names: a registry value, a power scheme...
  Irreversible,   \* the targets of tweaks with BackupScope.NONE
  Values,         \* what a target can hold; "absent" is one of the values
  NoChange,       \* cur[w] while a worker executes no change
  Processes,      \* running copies of the program; nothing limits them to one
  Workers,        \* the worker threads that write settings
  HistoryWorkers, \* those of them that undo changes (SystemController)
  ProcOf,         \* the process a worker belongs to
  UndoAllUsed,    \* does the operator use "undo everything"?
  UndoAllFails,   \* may one of its undos fail?
  RacingWrites,   \* may others write a setting while a run is executing?
  MaxPlans, MaxOtherWrites, MaxCrashes, MaxTweakFaults, MaxStorageFaults

Change == [target : Targets, seen : Values, want : Values]
RowStates == {"APPLYING", "APPLIED", "RESTORED", "FAILED"}
Row == [target : Targets, old : Values, new : Values, state : RowStates]
Outcomes == {"SUCCESS", "FAILED", "SKIPPED", "ROLLED_BACK", "NOT_NEEDED"}
Result == [target : Targets, outcome : Outcomes, row : Nat]

\* Where a worker's thread is.  The names are those of the step it takes next.
RunSteps == {"next", "check", "backup", "apply", "verify", "mark",
             "rollback", "restored", "unrestored"}
UndoSteps == {"undocheck", "undo", "undone"}
Steps == {"idle", "preview"} \cup RunSteps \cup UndoSteps

ASSUME ConstantsAssumption ==
  /\ Irreversible \subseteq Targets
  /\ HistoryWorkers \subseteq Workers
  /\ ProcOf \in [Workers -> Processes]
  /\ {UndoAllUsed, UndoAllFails, RacingWrites} \subseteq BOOLEAN
  /\ {MaxPlans, MaxOtherWrites, MaxCrashes, MaxTweakFaults, MaxStorageFaults}
       \subseteq Nat
  /\ NoChange \notin Change

VARIABLES
  value,          \* the machine: what each target holds now
  rows,           \* the backups table, in rowid order
  proc,           \* [Processes -> down, reporting (startup dialog), up]
  listed,         \* the rows a process's startup dialog lists
  pc,             \* [Workers -> Steps]
  todo,           \* the changes a worker's plan still has to execute
  cur,            \* the change it is executing
  bk,             \* the row it works on: index into rows, 0 for none
  report,         \* RunReport.results of its run
  run,            \* its latest row in optimization_runs: the status
  pending,        \* the rows an undo still has to go through
  strict,         \* check_newer of the undo
  origin,         \* history: what others last put there before PGM's first row
  foreign,        \* history: others have written it since that first row
  plans, others, crashes, tfaults, sfaults   \* how much of each bound is used

system == <<value, origin, foreign>>
worker == <<pc, todo, cur, bk, report, pending, strict>>
counts == <<plans, others, crashes, tfaults, sfaults>>
vars == <<value, rows, proc, listed, pc, todo, cur, bk, report, run, pending,
          strict, origin, foreign, plans, others, crashes, tfaults, sfaults>>

Reversible == Targets \ Irreversible
RowIds == 1..Len(rows)
WorkersOf(p) == {w \in Workers : ProcOf[w] = p}
RowsFor(t) == {i \in RowIds : rows[i].target = t}

Init ==
  /\ value \in [Targets -> Values]
  /\ rows = << >>
  /\ proc = [p \in Processes |-> "down"]
  /\ listed = [p \in Processes |-> {}]
  /\ pc = [w \in Workers |-> "idle"]
  /\ todo = [w \in Workers |-> {}]
  /\ cur = [w \in Workers |-> NoChange]
  /\ bk = [w \in Workers |-> 0]
  /\ report = [w \in Workers |-> {}]
  /\ run = [w \in Workers |-> "NONE"]
  /\ pending = [w \in Workers |-> {}]
  /\ strict = [w \in Workers |-> TRUE]
  /\ origin = value
  /\ foreign = [t \in Targets |-> FALSE]
  /\ plans = 0 /\ others = 0 /\ crashes = 0 /\ tfaults = 0 /\ sfaults = 0

-----------------------------------------------------------------------------
(* Mistakes that the decisions below could contain; used only to see that   *)
(* the properties would notice them.                                        *)

DriftIgnored(c) == FALSE
WriteTrusted(c) == TRUE
BackupForgotten(c) == "apply"
RollbackAssumed(back) == "RESTORED"
RollbackMisnamed(back) == "ROLLED_BACK"
OlderApplied(i) == \E j \in RowsFor(rows[i].target) :
                      j < i /\ rows[j].state = "APPLIED"
RefusedByOrderOnly(i, checked) ==
  checked /\ \E j \in RowsFor(rows[i].target) : j > i /\ rows[j].state = "APPLIED"
InterruptedForgotten == {}

-----------------------------------------------------------------------------
(* The decisions of the lifecycle.                                          *)

\* scan: is there anything to change?
NeedsChange(c) == value[c.target] # c.want

\* drift_since_plan: does the setting differ from what the preview showed?
Drifted(c) == value[c.target] # c.seen

\* verify: does the setting hold the new value when it is read back?
Held(c) == value[c.target] = c.want

\* A change whose tweak is reversible is backed up before it is applied.
AfterCheck(c) == IF c.target \in Irreversible THEN "apply" ELSE "backup"

StateAfterRollback(back) == IF back THEN "RESTORED" ELSE "FAILED"

\* _newer_applied: a row of the same target further up the history is APPLIED.
Newer(i) == {j \in RowsFor(rows[i].target) : j > i}
NewerApplied(i) == \E j \in Newer(i) : rows[j].state = "APPLIED"

\* restore refuses what is not APPLIED and, when asked to check, what lies
\* beneath a newer change.
Refused(i, checked) ==
  rows[i].state # "APPLIED" \/ (checked /\ NewerApplied(i))

\* find_interrupted.
Interrupted == {i \in RowIds : rows[i].state = "APPLYING"}

\* Undo everything goes newest first.
NextInOrder(i, ids) == \A j \in ids : j <= i

-----------------------------------------------------------------------------
(* Failures, bounded.                                                       *)

NoFault == UNCHANGED <<tfaults, sfaults>>
TweakFault ==
  /\ tfaults < MaxTweakFaults
  /\ tfaults' = tfaults + 1
  /\ UNCHANGED sfaults
StorageFault ==
  /\ sfaults < MaxStorageFaults
  /\ sfaults' = sfaults + 1
  /\ UNCHANGED tfaults

\* A bound: "undo everything", which is not strict, may be kept from failing.
UndoMayFail(w) == strict[w] \/ UndoAllFails

\* A worker's job is over: it returned, or an exception left it.
JobOver(w) ==
  /\ pc' = [pc EXCEPT ![w] = "idle"]
  /\ todo' = [todo EXCEPT ![w] = {}]
  /\ cur' = [cur EXCEPT ![w] = NoChange]
  /\ bk' = [bk EXCEPT ![w] = 0]
  /\ report' = [report EXCEPT ![w] = {}]
  /\ pending' = [pending EXCEPT ![w] = {}]
  /\ strict' = [strict EXCEPT ![w] = TRUE]

\* A StorageError that nothing on the way up catches: the job ends there.
\* TweakEngine.apply has no handler around _execute, so the run stays RUNNING.
Abort(w) == StorageFault /\ JobOver(w) /\ UNCHANGED run

\* record_application and the appended TweakReport: one change is done with.
Conclude(w, outcome) ==
  /\ report' = [report EXCEPT
       ![w] = @ \cup {[target |-> cur[w].target, outcome |-> outcome,
                       row |-> bk[w]]}]
  /\ pc' = [pc EXCEPT ![w] = "next"]
  /\ cur' = [cur EXCEPT ![w] = NoChange]
  /\ bk' = [bk EXCEPT ![w] = 0]
  /\ UNCHANGED <<todo, pending, strict, run>>

Goto(w, step) ==
  /\ pc' = [pc EXCEPT ![w] = step]
  /\ UNCHANGED <<todo, cur, bk, report, pending, strict, run>>

SetState(i, state) == rows' = [rows EXCEPT ![i].state = state]

-----------------------------------------------------------------------------
(* Planning and the operator.                                               *)

\* TweakEngine.plan: scan every tweak.  What is left in todo is what passed the
\* gate and what the operator keeps ticked: any part of what needs a change.
Plan(w) ==
  /\ proc[ProcOf[w]] = "up" /\ pc[w] = "idle" /\ plans < MaxPlans
  /\ \E chosen \in (SUBSET Targets) \ {{}} : \E want \in [chosen -> Values] :
       /\ \A t \in chosen : want[t] # value[t]
       /\ todo' = [todo EXCEPT ![w] =
            {[target |-> t, seen |-> value[t], want |-> want[t]] : t \in chosen}]
  /\ pc' = [pc EXCEPT ![w] = "preview"]
  /\ UNCHANGED <<cur, bk, report, pending, strict, run>>
  /\ UNCHANGED <<system, rows, proc, listed, counts>>

Cancel(w) ==
  /\ pc[w] = "preview"
  /\ JobOver(w)
  /\ UNCHANGED <<system, rows, proc, listed, run, counts>>

\* The operator accepts; apply() opens the run.
Confirm(w) ==
  /\ pc[w] = "preview" /\ plans < MaxPlans
  /\ plans' = plans + 1
  /\ \/ /\ NoFault
        /\ pc' = [pc EXCEPT ![w] = "next"]
        /\ run' = [run EXCEPT ![w] = "RUNNING"]
        /\ UNCHANGED <<todo, cur, bk, report, pending, strict>>
     \/ Abort(w)
  /\ UNCHANGED <<system, rows, proc, listed, others, crashes>>

-----------------------------------------------------------------------------
(* TweakEngine.apply and _execute, one step per read or write that another  *)
(* thread, another program or a crash can come between.                     *)

\* A mistake the liveness property would notice: the change stays in the plan.
NextChangeKept(w) ==
  /\ pc[w] = "next"
  /\ \E c \in todo[w] : cur' = [cur EXCEPT ![w] = c]
  /\ pc' = [pc EXCEPT ![w] = "check"]
  /\ UNCHANGED <<todo, bk, report, pending, strict, run>>
  /\ UNCHANGED <<system, rows, proc, listed, counts>>

\* The loop of apply: the next change of the plan.
NextChange(w) ==
  /\ pc[w] = "next"
  /\ \E c \in todo[w] :
       /\ cur' = [cur EXCEPT ![w] = c]
       /\ todo' = [todo EXCEPT ![w] = @ \ {c}]
  /\ pc' = [pc EXCEPT ![w] = "check"]
  /\ UNCHANGED <<bk, report, pending, strict, run>>
  /\ UNCHANGED <<system, rows, proc, listed, counts>>

\* drift_since_plan: the plan may be stale.  A read that fails counts as drift.
CheckDrift(w) ==
  /\ pc[w] = "check"
  /\ LET c == cur[w] IN
       \/ ~NeedsChange(c) /\ NoFault /\ Conclude(w, "NOT_NEEDED")
       \/ NeedsChange(c) /\ Drifted(c) /\ NoFault /\ Conclude(w, "SKIPPED")
       \/ TweakFault /\ Conclude(w, "SKIPPED")
       \/ NeedsChange(c) /\ ~Drifted(c) /\ NoFault /\ Goto(w, AfterCheck(c))
       \/ (~NeedsChange(c) \/ Drifted(c)) /\ Abort(w)
  /\ UNCHANGED <<system, rows, proc, listed, plans, others, crashes>>

\* tweak.backup and persist_backup.  Registry tweaks read the value again,
\* the power, mouse and device tweaks save the one their scan read.
Backup(w) ==
  /\ pc[w] = "backup"
  /\ LET c == cur[w] IN
       \/ \E old \in {value[c.target], c.seen} :
            /\ rows' = Append(rows, [target |-> c.target, old |-> old,
                                     new |-> c.want, state |-> "APPLYING"])
            /\ bk' = [bk EXCEPT ![w] = Len(rows) + 1]
            /\ pc' = [pc EXCEPT ![w] = "apply"]
            /\ NoFault
            /\ UNCHANGED <<todo, cur, report, pending, strict, run>>
       \/ (TweakFault \/ StorageFault) /\ Conclude(w, "SKIPPED") /\ UNCHANGED rows
       \/ Abort(w) /\ UNCHANGED rows
  /\ UNCHANGED <<system, proc, listed, plans, others, crashes>>

\* _fail_and_rollback, first part: without a backup the change is FAILED.
FailAndRollback(w) ==
  IF bk[w] = 0 THEN Conclude(w, "FAILED") ELSE Goto(w, "rollback")

\* tweak.apply.  A tweak that fails may have written the setting or not, and
\* Windows may report a success and leave the setting alone.
Apply(w) ==
  /\ pc[w] = "apply"
  /\ LET t == cur[w].target
         written == [value EXCEPT ![t] = cur[w].want]  IN
       \/ value' = written /\ NoFault /\ Goto(w, "verify")
       \/ value' \in {value, written} /\ TweakFault /\ FailAndRollback(w)
       \/ value' = value /\ TweakFault /\ Goto(w, "verify")
  /\ UNCHANGED <<origin, foreign, rows, proc, listed, plans, others, crashes>>

\* tweak.verify: read the setting back.
Verify(w) ==
  /\ pc[w] = "verify"
  /\ \/ Held(cur[w]) /\ NoFault /\ Goto(w, "mark")
     \/ ~Held(cur[w]) /\ NoFault /\ FailAndRollback(w)
     \/ TweakFault /\ FailAndRollback(w)
  /\ UNCHANGED <<system, rows, proc, listed, plans, others, crashes>>

\* mark_backup APPLIED, then record_application; each may raise.  The audit
\* that follows never does.
MarkApplied(w) ==
  /\ pc[w] = "mark"
  /\ LET marked == IF bk[w] = 0 THEN UNCHANGED rows
                                ELSE SetState(bk[w], "APPLIED")  IN
       \/ marked /\ NoFault /\ Conclude(w, "SUCCESS")
       \/ marked /\ Abort(w)
       \/ Abort(w) /\ UNCHANGED rows
  /\ UNCHANGED <<system, proc, listed, plans, others, crashes>>

\* tweak.rollback writes the backup's old value and reads it back.  One that
\* fails may have written it or not.
PutBack(i, succeeds) ==
  LET restored == [value EXCEPT ![rows[i].target] = rows[i].old] IN
  IF succeeds THEN value' = restored /\ NoFault
              ELSE value' \in {value, restored} /\ TweakFault

Rollback(w) ==
  /\ pc[w] = "rollback"
  /\ \/ PutBack(bk[w], TRUE) /\ Goto(w, "restored")
     \/ PutBack(bk[w], FALSE) /\ Goto(w, "unrestored")
  /\ UNCHANGED <<origin, foreign, rows, proc, listed, plans, others, crashes>>

\* mark_backup after a rollback, then record_application.
MarkRolledBack(w) ==
  /\ pc[w] \in {"restored", "unrestored"}
  /\ LET back == pc[w] = "restored"
         marked == SetState(bk[w], StateAfterRollback(back))  IN
       \/ /\ marked /\ NoFault
          /\ Conclude(w, IF back THEN "ROLLED_BACK" ELSE "FAILED")
       \/ marked /\ Abort(w)
       \/ Abort(w) /\ UNCHANGED rows
  /\ UNCHANGED <<system, proc, listed, plans, others, crashes>>

\* close_run: COMPLETED unless a change FAILED.  A rolled back change has not.
CloseRun(w) ==
  /\ pc[w] = "next" /\ todo[w] = {}
  /\ \/ /\ NoFault /\ JobOver(w)
        /\ run' = [run EXCEPT ![w] =
             IF \E r \in report[w] : r.outcome = "FAILED"
             THEN "FAILED" ELSE "COMPLETED"]
     \/ Abort(w)
  /\ UNCHANGED <<system, rows, proc, listed, plans, others, crashes>>

-----------------------------------------------------------------------------
(* Undoing from the history dialog.                                         *)

RestoreOne(w) ==
  /\ w \in HistoryWorkers /\ proc[ProcOf[w]] = "up" /\ pc[w] = "idle"
  /\ \E i \in RowIds : pending' = [pending EXCEPT ![w] = {i}]
  /\ strict' = [strict EXCEPT ![w] = TRUE]
  /\ pc' = [pc EXCEPT ![w] = "undocheck"]
  /\ UNCHANGED <<todo, cur, bk, report, run>>
  /\ UNCHANGED <<system, rows, proc, listed, counts>>

\* The rows list_changes shows as applied when the undo starts.
AppliedRows == {i \in RowIds : rows[i].state = "APPLIED"}

RestoreAll(w) ==
  /\ w \in HistoryWorkers /\ proc[ProcOf[w]] = "up" /\ pc[w] = "idle"
  /\ UndoAllUsed /\ AppliedRows # {}
  /\ pending' = [pending EXCEPT ![w] = AppliedRows]
  /\ strict' = [strict EXCEPT ![w] = FALSE]
  /\ pc' = [pc EXCEPT ![w] = "undocheck"]
  /\ UNCHANGED <<todo, cur, bk, report, run>>
  /\ UNCHANGED <<system, rows, proc, listed, counts>>

\* The undo of row i is done with; on to the next, if any.
NextUndo(w, i) ==
  /\ pending' = [pending EXCEPT ![w] = @ \ {i}]
  /\ bk' = [bk EXCEPT ![w] = 0]
  /\ pc' = [pc EXCEPT ![w] = IF pending[w] = {i} THEN "idle" ELSE "undocheck"]
  /\ UNCHANGED <<todo, cur, report, strict, run>>

\* restore up to the rollback.
UndoCheck(w) ==
  /\ pc[w] = "undocheck"
  /\ \E i \in pending[w] :
       /\ NextInOrder(i, pending[w])
       /\ \/ Refused(i, strict[w]) /\ NoFault /\ NextUndo(w, i)
          \/ /\ ~Refused(i, strict[w]) /\ TweakFault /\ UndoMayFail(w)
             /\ NextUndo(w, i)
          \/ /\ ~Refused(i, strict[w]) /\ NoFault
             /\ bk' = [bk EXCEPT ![w] = i]
             /\ pc' = [pc EXCEPT ![w] = "undo"]
             /\ UNCHANGED <<todo, cur, report, pending, strict, run>>
          \/ Abort(w)
  /\ UNCHANGED <<system, rows, proc, listed, plans, others, crashes>>

\* tweak.rollback fed the row.  One that fails leaves the row APPLIED.
Undo(w) ==
  /\ pc[w] = "undo"
  /\ \/ PutBack(bk[w], TRUE) /\ Goto(w, "undone")
     \/ PutBack(bk[w], FALSE) /\ UndoMayFail(w) /\ NextUndo(w, bk[w])
  /\ UNCHANGED <<origin, foreign, rows, proc, listed, plans, others, crashes>>

\* mark_backup RESTORED.
MarkUndone(w) ==
  /\ pc[w] = "undone"
  /\ \/ SetState(bk[w], "RESTORED") /\ NoFault /\ NextUndo(w, bk[w])
     \/ Abort(w) /\ UNCHANGED rows
  /\ UNCHANGED <<system, proc, listed, plans, others, crashes>>

-----------------------------------------------------------------------------
(* Processes: start, report of interrupted changes, close, crash.           *)

\* find_interrupted when the main window first shows.  Nothing to list, or a
\* database that cannot be read, and the window is simply usable.
Start(p) ==
  /\ proc[p] = "down"
  /\ \/ /\ NoFault
        /\ listed' = [listed EXCEPT ![p] = Interrupted]
        /\ proc' = [proc EXCEPT ![p] =
             IF Interrupted = {} THEN "up" ELSE "reporting"]
     \/ /\ StorageFault
        /\ proc' = [proc EXCEPT ![p] = "up"]
        /\ UNCHANGED listed
  /\ UNCHANGED <<system, rows, worker, run, plans, others, crashes>>

\* The modal dialog is closed; acknowledge marks what it listed, row by row.
\* A database error stops it half way and is only logged.
Acknowledge(p) ==
  /\ proc[p] = "reporting"
  /\ \E done \in SUBSET listed[p] :
       /\ IF done = listed[p] THEN NoFault ELSE StorageFault
       /\ rows' = [i \in RowIds |->
            IF i \in done /\ rows[i].state = "APPLYING"
            THEN [rows[i] EXCEPT !.state = "FAILED"] ELSE rows[i]]
  /\ proc' = [proc EXCEPT ![p] = "up"]
  /\ listed' = [listed EXCEPT ![p] = {}]
  /\ UNCHANGED <<system, worker, run, plans, others, crashes>>

\* The jobs of the process's workers are gone; the database keeps what it has.
WorkersGone(p) ==
  LET gone(f, none) == [w \in Workers |-> IF ProcOf[w] = p THEN none ELSE f[w]]
  IN  /\ pc' = gone(pc, "idle")
      /\ todo' = gone(todo, {})
      /\ cur' = gone(cur, NoChange)
      /\ bk' = gone(bk, 0)
      /\ report' = gone(report, {})
      /\ pending' = gone(pending, {})
      /\ strict' = gone(strict, TRUE)

\* closeEvent: refused while a run or an undo is writing.
Close(p) ==
  /\ proc[p] = "up"
  /\ \A w \in WorkersOf(p) : pc[w] \in {"idle", "preview"}
  /\ proc' = [proc EXCEPT ![p] = "down"]
  /\ WorkersGone(p)
  /\ UNCHANGED <<system, rows, listed, run, counts>>

\* A power cut or a killed task.
Crash(p) ==
  /\ proc[p] # "down" /\ crashes < MaxCrashes
  /\ crashes' = crashes + 1
  /\ proc' = [proc EXCEPT ![p] = "down"]
  /\ listed' = [listed EXCEPT ![p] = {}]
  /\ WorkersGone(p)
  /\ UNCHANGED <<system, rows, run, plans, others, tfaults, sfaults>>

\* The player, or another program, writes a setting.
OtherWrites(t) ==
  /\ others < MaxOtherWrites
  /\ RacingWrites \/ \A w \in Workers : pc[w] \in {"idle", "preview"}
  /\ others' = others + 1
  /\ \E v \in Values \ {value[t]} :
       /\ value' = [value EXCEPT ![t] = v]
       /\ origin' = [origin EXCEPT ![t] = IF RowsFor(t) = {} THEN v ELSE @]
       /\ foreign' = [foreign EXCEPT ![t] = @ \/ RowsFor(t) # {}]
  /\ UNCHANGED <<rows, proc, listed, worker, run, plans, crashes, tfaults, sfaults>>

-----------------------------------------------------------------------------
RunStep(w) ==
  \/ NextChange(w) \/ CheckDrift(w) \/ Backup(w) \/ Apply(w) \/ Verify(w)
  \/ MarkApplied(w) \/ Rollback(w) \/ MarkRolledBack(w) \/ CloseRun(w)
UndoStep(w) == UndoCheck(w) \/ Undo(w) \/ MarkUndone(w)

Next ==
  \/ \E w \in Workers :
       \/ Plan(w) \/ Cancel(w) \/ Confirm(w) \/ RestoreOne(w) \/ RestoreAll(w)
       \/ RunStep(w) \/ UndoStep(w)
  \/ \E p \in Processes : Start(p) \/ Acknowledge(p) \/ Close(p) \/ Crash(p)
  \/ \E t \in Targets : OtherWrites(t)

Spec == Init /\ [][Next]_vars

\* A started thread is scheduled until its job returns.
FairSpec == Spec /\ \A w \in Workers : WF_vars(RunStep(w) \/ UndoStep(w))

-----------------------------------------------------------------------------
(* Properties.                                                              *)

SystemTypeOK ==
  /\ value \in [Targets -> Values]
  /\ origin \in [Targets -> Values]
  /\ foreign \in [Targets -> BOOLEAN]

TableTypeOK ==
  /\ rows \in Seq(Row)
  /\ proc \in [Processes -> {"down", "reporting", "up"}]
  /\ listed \in [Processes -> SUBSET RowIds]

WorkerTypeOK ==
  /\ pc \in [Workers -> Steps]
  /\ todo \in [Workers -> SUBSET Change]
  /\ cur \in [Workers -> Change \cup {NoChange}]
  /\ bk \in [Workers -> 0..Len(rows)]
  /\ report \in [Workers -> SUBSET Result]
  /\ run \in [Workers -> {"NONE", "RUNNING", "COMPLETED", "FAILED"}]
  /\ pending \in [Workers -> SUBSET RowIds]
  /\ strict \in [Workers -> BOOLEAN]

CountTypeOK ==
  /\ plans \in Nat /\ others \in Nat /\ crashes \in Nat
  /\ tfaults \in Nat /\ sfaults \in Nat

\* Every variable holds a value of its kind; row ids are ids of existing rows.
TypeOK == SystemTypeOK /\ TableTypeOK /\ WorkerTypeOK /\ CountTypeOK

\* A setting nobody else has written since PGM's first change either holds what
\* it held before PGM, or some row not marked RESTORED still has that value to
\* go back to - whatever failed, crashed or was undone on the way.
OriginalRecoverable ==
  \A t \in Reversible :
    \/ foreign[t] \/ value[t] = origin[t]
    \/ \E i \in RowsFor(t) :
         rows[i].old = origin[t] /\ rows[i].state # "RESTORED"

\* What the running report says of a change agrees with its backup row and with
\* the machine: SUCCESS is in force, ROLLED_BACK is back, FAILED is not hidden
\* behind another state, and a skipped change has no row.
ReportHonest ==
  \A w \in Workers : pc[w] \in RunSteps =>
    \A r \in report[w] :
      IF r.row = 0 THEN r.outcome \in {"SKIPPED", "NOT_NEEDED"}
                        \/ r.target \in Irreversible
      ELSE LET row == rows[r.row] IN
        /\ row.target = r.target
        /\ r.outcome = "SUCCESS" =>
             row.state = "APPLIED" /\ value[r.target] = row.new
        /\ r.outcome = "ROLLED_BACK" =>
             row.state = "RESTORED" /\ value[r.target] = row.old
        /\ r.outcome = "FAILED" => row.state = "FAILED"

\* With a working database, a row in APPLYING is either being worked on or shown
\* to the operator at the start: no session runs on over a silent one.
InterruptedSurfaced ==
  sfaults = 0 =>
    \A p \in Processes : proc[p] # "down" =>
      \A i \in RowIds : rows[i].state = "APPLYING" =>
        i \in listed[p] \/ \E w \in Workers : bk[w] = i

\* A row moves out of APPLYING once, an APPLIED one only to RESTORED, and what
\* it says of the change (target, old and new value) is never rewritten.
RowMoves ==
  /\ Len(rows') >= Len(rows)
  /\ \A i \in RowIds :
       /\ rows'[i].target = rows[i].target
       /\ rows'[i].old = rows[i].old /\ rows'[i].new = rows[i].new
       /\ \/ rows'[i].state = rows[i].state
          \/ rows[i].state = "APPLYING"
          \/ rows[i].state = "APPLIED" /\ rows'[i].state = "RESTORED"
RowLifecycle == [][RowMoves]_vars

\* Whatever PGM writes to a reversible setting is in a row committed before:
\* the new value of one still in APPLYING, or the old value of one.
WriteBackedUp ==
  \A t \in Reversible :
    value'[t] # value[t] /\ others' = others =>
      \E i \in RowsFor(t) :
        \/ value'[t] = rows[i].new /\ rows[i].state = "APPLYING"
        \/ value'[t] = rows[i].old
NoChangeWithoutBackup == [][WriteBackedUp]_vars

\* A row becomes APPLIED only over a setting that holds the row's new value.
NoUnverifiedSuccess ==
  [][\A i \in RowIds :
       rows[i].state = "APPLYING" /\ rows'[i].state = "APPLIED"
         => value[rows[i].target] = rows[i].new]_vars

\* tweak.apply replaces only the value the operator was shown in the preview.
NoStalePlan ==
  [][\A w \in Workers :
       pc[w] = "apply" /\ value'[cur[w].target] # value[cur[w].target]
         => value[cur[w].target] = cur[w].seen]_vars

\* An undo never writes while a newer change to the same target is APPLIED.
NoUndoBeneathNewer ==
  \A w \in Workers : pc[w] = "undo" => ~\E j \in RowsFor(rows[bk[w]].target) :
    j > bk[w] /\ rows[j].state = "APPLIED"

\* A job that was started ends: neither a run nor an undo goes on for ever.
JobsEnd ==
  \A w \in Workers : pc[w] \in RunSteps \cup UndoSteps ~> pc[w] = "idle"
=============================================================================
