----------------------- MODULE ChangeLifecycleProofs -----------------------
(***************************************************************************)
(* Proofs about ChangeLifecycle, for every value of the constants: any     *)
(* number of targets, values, workers, plans, runs, crashes and failures.  *)
(* First the types; then, for a single running copy of the program, what a *)
(* row of the backups table is good for: who owns a row, that rows only    *)
(* move forward, and that nothing is written without one; then, while one  *)
(* worker changes settings: a plan is never applied stale, success is      *)
(* verified, undos go from the top, reports are true, and the original     *)
(* value of a setting can be got back.                                     *)
(***************************************************************************)
EXTENDS ChangeLifecycle, SequenceTheorems, TLAPS

-----------------------------------------------------------------------------
(* Sequences of rows.                                                       *)

\* persist_backup: one more row, and the earlier ones as they were.
LEMMA AppendRow ==
  ASSUME NEW s \in Seq(Row), NEW r \in Row
  PROVE  /\ Append(s, r) \in Seq(Row)
         /\ Len(Append(s, r)) = Len(s) + 1
         /\ \A i \in 1..Len(s) : Append(s, r)[i] = s[i]
         /\ Append(s, r)[Len(s) + 1] = r
OBVIOUS

\* mark_backup: one row changes its state, every other column and row stays.
LEMMA MarkRow ==
  ASSUME NEW s \in Seq(Row), NEW i \in 1..Len(s), NEW state \in RowStates
  PROVE  LET t == [s EXCEPT ![i].state = state] IN
         /\ t \in Seq(Row)
         /\ Len(t) = Len(s)
         /\ t[i] = [s[i] EXCEPT !.state = state]
         /\ \A j \in 1..Len(s) : j # i => t[j] = s[j]
<1> DEFINE e == [s[i] EXCEPT !.state = state]
<1>1. s[i] \in Row
  OBVIOUS
<1>2. e \in Row
  BY <1>1 DEF Row
<1>3. [s EXCEPT ![i].state = state] = [s EXCEPT ![i] = e]
  OBVIOUS
<1>4. QED
  BY <1>2, <1>3, ExceptSeq

\* acknowledge: the listed rows that are still APPLYING become FAILED.
LEMMA AcknowledgeRows ==
  ASSUME NEW s \in Seq(Row), NEW done
  PROVE  LET t == [i \in 1..Len(s) |->
                     IF i \in done /\ s[i].state = "APPLYING"
                     THEN [s[i] EXCEPT !.state = "FAILED"] ELSE s[i]]
         IN  t \in Seq(Row) /\ Len(t) = Len(s)
<1> DEFINE t == [i \in 1..Len(s) |->
                   IF i \in done /\ s[i].state = "APPLYING"
                   THEN [s[i] EXCEPT !.state = "FAILED"] ELSE s[i]]
<1>1. \A i \in 1..Len(s) : s[i] \in Row
  OBVIOUS
<1>2. t \in [1..Len(s) -> Row]
  BY <1>1 DEF Row, RowStates
<1>3. QED
  BY <1>2, LenProperties, SeqDef

-----------------------------------------------------------------------------
(* Type correctness.                                                        *)

Executing == RunSteps \ {"next"}
WithRow == {"rollback", "restored", "unrestored", "undo", "undone"}

\* A worker executing a change has one, and one that puts an old value back
\* has a row to take it from.
WorkerOK ==
  \A w \in Workers :
    /\ pc[w] \in Executing => cur[w] \in Change
    /\ pc[w] \in WithRow => bk[w] \in RowIds

TypeInv == TypeOK /\ WorkerOK
WorkerInv == WorkerTypeOK /\ WorkerOK

USE DEF RowIds

LEMMA TypeInit == Init => TypeInv
  BY ConstantsAssumption DEF Init, TypeInv, TypeOK, SystemTypeOK, TableTypeOK, WorkerTypeOK,
     CountTypeOK, WorkerOK, Steps, Executing, WithRow, RunSteps, UndoSteps

\* The bookkeeping of failures keeps its types.
LEMMA FaultTypes ==
  ASSUME CountTypeOK, NoFault \/ TweakFault \/ StorageFault
  PROVE  tfaults' \in Nat /\ sfaults' \in Nat
  BY DEF CountTypeOK, NoFault, TweakFault, StorageFault

\* What the four ways a worker moves on do to its variables.  The table may
\* have grown in the same step.
LEMMA JobOverType ==
  ASSUME WorkerInv, rows \in Seq(Row), rows' \in Seq(Row), Len(rows') >= Len(rows),
         NEW w \in Workers, JobOver(w),
         run' \in [Workers -> {"NONE", "RUNNING", "COMPLETED", "FAILED"}]
  PROVE  WorkerInv'
<1>0. 1..Len(rows) \subseteq 1..Len(rows') /\ Len(rows) \in Nat /\ Len(rows') \in Nat
  BY LenProperties
<1>1. WorkerTypeOK'
  <2>1. pc' \in [Workers -> Steps]
    BY DEF WorkerInv, WorkerTypeOK, JobOver, Steps
  <2>2. /\ todo' \in [Workers -> SUBSET Change]
        /\ cur' \in [Workers -> Change \cup {NoChange}]
        /\ report' \in [Workers -> SUBSET Result]
        /\ strict' \in [Workers -> BOOLEAN]
    BY DEF WorkerInv, WorkerTypeOK, JobOver
  <2>3. bk' \in [Workers -> 0..Len(rows')] /\ pending' \in [Workers -> SUBSET (1..Len(rows'))]
    BY <1>0 DEF WorkerInv, WorkerTypeOK, JobOver
  <2>4. QED
    BY <2>1, <2>2, <2>3 DEF WorkerTypeOK
<1>2. WorkerOK'
  BY LenProperties DEF WorkerInv, WorkerTypeOK, WorkerOK, JobOver, Executing, WithRow, RunSteps
<1>3. QED
  BY <1>1, <1>2 DEF WorkerInv

LEMMA GotoType ==
  ASSUME WorkerInv, rows \in Seq(Row), rows' \in Seq(Row), Len(rows') >= Len(rows),
         NEW w \in Workers, NEW step \in Steps, Goto(w, step),
         step \in Executing => cur[w] \in Change,
         step \in WithRow => bk[w] \in RowIds
  PROVE  WorkerInv'
  BY DEF WorkerInv, WorkerTypeOK, WorkerOK, Goto

LEMMA ConcludeType ==
  ASSUME WorkerInv, rows \in Seq(Row), rows' \in Seq(Row), Len(rows') >= Len(rows),
         NEW w \in Workers, NEW outcome \in Outcomes, Conclude(w, outcome),
         pc[w] \in Executing
  PROVE  WorkerInv'
<1>1. [target |-> cur[w].target, outcome |-> outcome, row |-> bk[w]] \in Result
  BY DEF WorkerInv, WorkerTypeOK, WorkerOK, Change, Result
<1>2. report' \in [Workers -> SUBSET Result]
  BY <1>1 DEF WorkerInv, WorkerTypeOK, Conclude
<1>3. QED
  BY <1>2 DEF WorkerInv, WorkerTypeOK, WorkerOK, Conclude, Steps, Executing, WithRow,
     RunSteps, UndoSteps

LEMMA NextUndoType ==
  ASSUME WorkerInv, rows \in Seq(Row), rows' \in Seq(Row), Len(rows') >= Len(rows),
         NEW w \in Workers, NEW i, NextUndo(w, i)
  PROVE  WorkerInv'
  BY DEF WorkerInv, WorkerTypeOK, WorkerOK, NextUndo, Steps, Executing, WithRow,
     RunSteps, UndoSteps

LEMMA FailType ==
  ASSUME WorkerInv, rows \in Seq(Row), rows' = rows,
         NEW w \in Workers, FailAndRollback(w), pc[w] \in Executing
  PROVE  WorkerInv'
<1>1. CASE bk[w] = 0
  BY <1>1, ConcludeType, LenProperties DEF FailAndRollback, Outcomes
<1>2. CASE bk[w] # 0
  <2>1. bk[w] \in RowIds
    BY <1>2, LenProperties DEF WorkerInv, WorkerTypeOK
  <2>2. QED
    BY <1>2, <2>1, GotoType, LenProperties DEF FailAndRollback, Steps, RunSteps, WorkerInv, WorkerOK
<1>3. QED
  BY <1>1, <1>2

\* Putting back the old value of a row keeps the settings typed.
LEMMA PutBackType ==
  ASSUME SystemTypeOK, rows \in Seq(Row), NEW i \in RowIds, NEW ok, PutBack(i, ok)
  PROVE  value' \in [Targets -> Values] /\ (NoFault \/ TweakFault)
<1>1. rows[i] \in Row
  OBVIOUS
<1>2. QED
  BY <1>1 DEF PutBack, SystemTypeOK, Row

\* mark_backup keeps the table typed and its length.
LEMMA SetStateType ==
  ASSUME rows \in Seq(Row), NEW i \in RowIds, NEW state \in RowStates, SetState(i, state)
  PROVE  rows' \in Seq(Row) /\ Len(rows') = Len(rows)
  BY MarkRow DEF SetState

\* The steps of the operator and of the loop leave the table alone.
LEMMA OperatorType ==
  ASSUME TypeInv, NEW w \in Workers,
         Plan(w) \/ Cancel(w) \/ Confirm(w) \/ RestoreOne(w) \/ RestoreAll(w) \/ NextChange(w)
  PROVE  TypeInv'
<1> USE DEF TypeInv, TypeOK, SystemTypeOK, TableTypeOK, system, counts
<1>0. WorkerInv
  BY DEF WorkerInv
<1>1. CASE Plan(w)
  BY <1>1 DEF Plan, WorkerTypeOK, WorkerOK, CountTypeOK, Change, Steps, RunSteps, UndoSteps,
     Executing, WithRow
<1>2. CASE Cancel(w)
  <2>1. WorkerInv'
    BY <1>0, <1>2, JobOverType, LenProperties DEF Cancel, WorkerInv, WorkerTypeOK
  <2>2. QED
    BY <1>2, <2>1 DEF Cancel, WorkerInv, CountTypeOK
<1>3. CASE Confirm(w)
  <2>1. CountTypeOK'
    BY <1>3, FaultTypes DEF Confirm, CountTypeOK, Abort, NoFault, StorageFault
  <2>2. WorkerInv'
    <3>1. CASE Abort(w)
      BY <1>0, <1>3, <3>1, JobOverType, LenProperties DEF Confirm, Abort, WorkerInv, WorkerTypeOK
    <3>2. CASE ~Abort(w)
      BY <1>3, <3>2 DEF Confirm, WorkerInv, WorkerTypeOK, WorkerOK, Steps, RunSteps,
         UndoSteps, Executing, WithRow
    <3>3. QED
      BY <3>1, <3>2
  <2>3. QED
    BY <1>3, <2>1, <2>2 DEF Confirm, WorkerInv
<1>4. CASE RestoreOne(w)
  BY <1>4 DEF RestoreOne, WorkerTypeOK, WorkerOK, CountTypeOK, Steps, RunSteps, UndoSteps,
     Executing, WithRow
<1>5. CASE RestoreAll(w)
  BY <1>5 DEF RestoreAll, AppliedRows, WorkerTypeOK, WorkerOK, CountTypeOK, Steps, RunSteps,
     UndoSteps, Executing, WithRow
<1>6. CASE NextChange(w)
  BY <1>6 DEF NextChange, WorkerTypeOK, WorkerOK, CountTypeOK, Steps, RunSteps, UndoSteps,
     Executing, WithRow
<1>7. QED
  BY <1>1, <1>2, <1>3, <1>4, <1>5, <1>6

\* The steps that execute one change.
LEMMA ExecuteType ==
  ASSUME TypeInv, NEW w \in Workers,
         CheckDrift(w) \/ Backup(w) \/ Apply(w) \/ Verify(w) \/ MarkApplied(w)
           \/ Rollback(w) \/ MarkRolledBack(w) \/ CloseRun(w)
  PROVE  TypeInv'
<1> USE DEF TypeInv, TypeOK, SystemTypeOK, TableTypeOK, system
<1>0. WorkerInv /\ Len(rows) \in Nat
  BY LenProperties DEF WorkerInv
<1>a. ASSUME NEW step \in RunSteps, pc[w] = step, step # "next"
      PROVE  pc[w] \in Executing /\ cur[w] \in Change
  BY <1>a DEF Executing, WorkerOK
<1>1. CASE CheckDrift(w)
  <2>1. pc[w] \in Executing /\ cur[w] \in Change
    BY <1>1, <1>a DEF CheckDrift, RunSteps
  <2>2. WorkerInv'
    <3>1. CASE Conclude(w, "NOT_NEEDED") \/ Conclude(w, "SKIPPED")
      BY <1>0, <1>1, <2>1, <3>1, ConcludeType DEF CheckDrift, Outcomes
    <3>2. CASE Goto(w, AfterCheck(cur[w]))
      BY <1>0, <1>1, <2>1, <3>2, GotoType DEF CheckDrift, AfterCheck, Steps, RunSteps, WithRow
    <3>3. CASE Abort(w)
      BY <1>0, <1>1, <3>3, JobOverType DEF CheckDrift, Abort, WorkerTypeOK
    <3>4. QED
      BY <1>1, <3>1, <3>2, <3>3 DEF CheckDrift
  <2>3. CountTypeOK'
    BY <1>1, FaultTypes DEF CheckDrift, CountTypeOK, Abort
  <2>4. QED
    BY <1>1, <2>2, <2>3 DEF CheckDrift, WorkerInv
<1>2. CASE Backup(w)
  <2>1. pc[w] \in Executing /\ cur[w] \in Change
    BY <1>2, <1>a DEF Backup, RunSteps
  <2>2. CountTypeOK'
    BY <1>2, FaultTypes DEF Backup, CountTypeOK, Abort
  <2>3. CASE UNCHANGED rows
    <3>0. UNCHANGED <<value, origin, foreign, proc, listed>>
      BY <1>2 DEF Backup
    <3>1. CASE Conclude(w, "SKIPPED")
      BY <1>0, <2>1, <2>2, <2>3, <3>0, <3>1, ConcludeType DEF Outcomes, WorkerInv
    <3>2. CASE Abort(w)
      BY <1>0, <2>2, <2>3, <3>0, <3>2, JobOverType DEF Abort, WorkerInv, WorkerTypeOK
    <3>3. Conclude(w, "SKIPPED") \/ Abort(w) \/ rows' # rows
      <4>1. \A r : Append(rows, r) # rows
        <5>1. ASSUME NEW r, Append(rows, r) = rows PROVE FALSE
          BY <1>0, <5>1
        <5>2. QED
          BY <5>1
      <4>2. QED
        BY <1>2, <4>1 DEF Backup
    <3>4. QED
      BY <2>3, <3>1, <3>2, <3>3
  <2>4. ASSUME NEW old \in {value[cur[w].target], cur[w].seen},
               rows' = Append(rows, [target |-> cur[w].target, old |-> old,
                                     new |-> cur[w].want, state |-> "APPLYING"]),
               bk' = [bk EXCEPT ![w] = Len(rows) + 1],
               pc' = [pc EXCEPT ![w] = "apply"],
               UNCHANGED <<todo, cur, report, pending, strict, run>>
        PROVE  TypeInv'
    <3>1. [target |-> cur[w].target, old |-> old,
           new |-> cur[w].want, state |-> "APPLYING"] \in Row
      BY <2>1 DEF Change, Row, RowStates
    <3>2. rows' \in Seq(Row) /\ Len(rows') = Len(rows) + 1
      BY <2>4, <3>1, AppendRow
    <3>3. WorkerTypeOK' /\ WorkerOK'
      BY <1>0, <2>1, <2>4, <3>2 DEF WorkerTypeOK, WorkerOK, Steps, RunSteps, Executing, WithRow
    <3>4. QED
      BY <1>0, <1>2, <2>2, <3>2, <3>3 DEF Backup
  <2>5. QED
    BY <1>2, <2>3, <2>4 DEF Backup
<1>3. CASE Apply(w)
  <2>1. pc[w] \in Executing /\ cur[w] \in Change
    BY <1>3, <1>a DEF Apply, RunSteps
  <2>2. WorkerInv'
    <3>1. CASE Goto(w, "verify")
      BY <1>0, <1>3, <2>1, <3>1, GotoType DEF Apply, Steps, RunSteps, WithRow
    <3>2. CASE FailAndRollback(w)
      BY <1>0, <1>3, <2>1, <3>2, FailType DEF Apply
    <3>3. QED
      BY <1>3, <3>1, <3>2 DEF Apply
  <2>3. CountTypeOK'
    BY <1>3, FaultTypes DEF Apply, CountTypeOK
  <2>4. value' \in [Targets -> Values]
    BY <1>3, <2>1 DEF Apply, Change
  <2>5. QED
    BY <1>3, <2>2, <2>3, <2>4 DEF Apply, WorkerInv
<1>4. CASE Verify(w)
  <2>1. pc[w] \in Executing /\ cur[w] \in Change
    BY <1>4, <1>a DEF Verify, RunSteps
  <2>2. WorkerInv'
    <3>1. CASE Goto(w, "mark")
      BY <1>0, <1>4, <2>1, <3>1, GotoType DEF Verify, Steps, RunSteps, WithRow
    <3>2. CASE FailAndRollback(w)
      BY <1>0, <1>4, <2>1, <3>2, FailType DEF Verify
    <3>3. QED
      BY <1>4, <3>1, <3>2 DEF Verify
  <2>3. CountTypeOK'
    BY <1>4, FaultTypes DEF Verify, CountTypeOK
  <2>4. QED
    BY <1>4, <2>2, <2>3 DEF Verify, WorkerInv
<1>5. CASE MarkApplied(w)
  <2>1. pc[w] \in Executing /\ cur[w] \in Change
    BY <1>5, <1>a DEF MarkApplied, RunSteps
  <2>2. rows' \in Seq(Row) /\ Len(rows') = Len(rows)
    <3>1. CASE UNCHANGED rows
      BY <3>1
    <3>2. CASE bk[w] # 0 /\ SetState(bk[w], "APPLIED")
      BY <1>0, <3>2, SetStateType DEF WorkerTypeOK, RowStates
    <3>3. QED
      BY <1>5, <3>1, <3>2 DEF MarkApplied
  <2>3. WorkerInv'
    <3>1. CASE Conclude(w, "SUCCESS")
      BY <1>0, <2>1, <2>2, <3>1, ConcludeType DEF Outcomes
    <3>2. CASE Abort(w)
      BY <1>0, <2>2, <3>2, JobOverType DEF Abort, WorkerTypeOK
    <3>3. QED
      BY <1>5, <3>1, <3>2 DEF MarkApplied
  <2>4. CountTypeOK'
    BY <1>5, FaultTypes DEF MarkApplied, CountTypeOK, Abort
  <2>5. QED
    BY <1>5, <2>2, <2>3, <2>4 DEF MarkApplied, WorkerInv
<1>6. CASE Rollback(w)
  <2>1. pc[w] \in Executing /\ cur[w] \in Change /\ bk[w] \in RowIds
    BY <1>6, <1>a DEF Rollback, RunSteps, WorkerOK, WithRow
  <2>2. value' \in [Targets -> Values] /\ (NoFault \/ TweakFault)
    BY <1>6, <2>1, PutBackType DEF Rollback
  <2>3. WorkerInv'
    <3>1. CASE Goto(w, "restored")
      BY <1>0, <1>6, <2>1, <3>1, GotoType DEF Rollback, Steps, RunSteps
    <3>2. CASE Goto(w, "unrestored")
      BY <1>0, <1>6, <2>1, <3>2, GotoType DEF Rollback, Steps, RunSteps
    <3>3. QED
      BY <1>6, <3>1, <3>2 DEF Rollback
  <2>4. CountTypeOK'
    BY <1>6, <2>2, FaultTypes DEF Rollback, CountTypeOK
  <2>5. QED
    BY <1>6, <2>2, <2>3, <2>4 DEF Rollback, WorkerInv
<1>7. CASE MarkRolledBack(w)
  <2>1. pc[w] \in Executing /\ cur[w] \in Change /\ bk[w] \in RowIds
    BY <1>7, <1>a DEF MarkRolledBack, RunSteps, WorkerOK, WithRow
  <2>2. rows' \in Seq(Row) /\ Len(rows') = Len(rows)
    BY <1>7, <2>1, SetStateType DEF MarkRolledBack, StateAfterRollback, RowStates
  <2>3. WorkerInv'
    <3>1. CASE Conclude(w, "ROLLED_BACK") \/ Conclude(w, "FAILED")
      BY <1>0, <2>1, <2>2, <3>1, ConcludeType DEF Outcomes
    <3>2. CASE Abort(w)
      BY <1>0, <2>2, <3>2, JobOverType DEF Abort, WorkerTypeOK
    <3>3. QED
      BY <1>7, <3>1, <3>2 DEF MarkRolledBack
  <2>4. CountTypeOK'
    BY <1>7, FaultTypes DEF MarkRolledBack, CountTypeOK, Abort
  <2>5. QED
    BY <1>7, <2>2, <2>3, <2>4 DEF MarkRolledBack, WorkerInv
<1>8. CASE CloseRun(w)
  <2>1. WorkerInv'
    <3>1. CASE Abort(w)
      BY <1>0, <1>8, <3>1, JobOverType DEF CloseRun, Abort, WorkerTypeOK
    <3>2. CASE JobOver(w) /\ run' = [run EXCEPT ![w] =
             IF \E r \in report[w] : r.outcome = "FAILED"
             THEN "FAILED" ELSE "COMPLETED"]
      <4>1. run' \in [Workers -> {"NONE", "RUNNING", "COMPLETED", "FAILED"}]
        BY <3>2 DEF WorkerTypeOK
      <4>2. QED
        BY <1>0, <1>8, <3>2, <4>1, JobOverType DEF CloseRun
    <3>3. QED
      BY <1>8, <3>1, <3>2 DEF CloseRun
  <2>2. CountTypeOK'
    BY <1>8, FaultTypes DEF CloseRun, CountTypeOK, Abort
  <2>3. QED
    BY <1>8, <2>1, <2>2 DEF CloseRun, WorkerInv
<1>9. QED
  BY <1>1, <1>2, <1>3, <1>4, <1>5, <1>6, <1>7, <1>8

\* The steps of an undo.
LEMMA UndoType ==
  ASSUME TypeInv, NEW w \in Workers, UndoStep(w)
  PROVE  TypeInv'
<1> USE DEF TypeInv, TypeOK, SystemTypeOK, TableTypeOK, system
<1>0. WorkerInv /\ Len(rows) \in Nat
  BY LenProperties DEF WorkerInv
<1>1. CASE UndoCheck(w)
  <2>1. PICK i \in pending[w] :
          \/ Refused(i, strict[w]) /\ NoFault /\ NextUndo(w, i)
          \/ ~Refused(i, strict[w]) /\ TweakFault /\ NextUndo(w, i)
          \/ /\ ~Refused(i, strict[w]) /\ NoFault
             /\ bk' = [bk EXCEPT ![w] = i]
             /\ pc' = [pc EXCEPT ![w] = "undo"]
             /\ UNCHANGED <<todo, cur, report, pending, strict, run>>
          \/ Abort(w)
    BY <1>1 DEF UndoCheck
  <2>2. i \in RowIds
    BY <2>1 DEF WorkerTypeOK
  <2>3. WorkerInv'
    <3>1. CASE NextUndo(w, i)
      BY <1>0, <1>1, <3>1, NextUndoType DEF UndoCheck
    <3>2. CASE Abort(w)
      BY <1>0, <1>1, <3>2, JobOverType DEF UndoCheck, Abort, WorkerTypeOK
    <3>3. CASE /\ bk' = [bk EXCEPT ![w] = i]
               /\ pc' = [pc EXCEPT ![w] = "undo"]
               /\ UNCHANGED <<todo, cur, report, pending, strict, run>>
      BY <1>0, <1>1, <2>2, <3>3 DEF UndoCheck, WorkerInv, WorkerTypeOK, WorkerOK, Steps,
         UndoSteps, RunSteps, Executing, WithRow
    <3>4. QED
      BY <2>1, <3>1, <3>2, <3>3
  <2>4. CountTypeOK'
    BY <1>1, <2>1, FaultTypes DEF UndoCheck, CountTypeOK, Abort
  <2>5. QED
    BY <1>1, <2>3, <2>4 DEF UndoCheck, WorkerInv
<1>2. CASE Undo(w)
  <2>1. bk[w] \in RowIds
    BY <1>2 DEF Undo, WorkerOK, WithRow
  <2>2. value' \in [Targets -> Values] /\ (NoFault \/ TweakFault)
    BY <1>2, <2>1, PutBackType DEF Undo
  <2>3. WorkerInv'
    <3>1. CASE Goto(w, "undone")
      BY <1>0, <1>2, <2>1, <3>1, GotoType DEF Undo, Steps, UndoSteps, Executing, RunSteps
    <3>2. CASE NextUndo(w, bk[w])
      BY <1>0, <1>2, <3>2, NextUndoType DEF Undo
    <3>3. QED
      BY <1>2, <3>1, <3>2 DEF Undo
  <2>4. CountTypeOK'
    BY <1>2, <2>2, FaultTypes DEF Undo, CountTypeOK
  <2>5. QED
    BY <1>2, <2>2, <2>3, <2>4 DEF Undo, WorkerInv
<1>3. CASE MarkUndone(w)
  <2>1. bk[w] \in RowIds
    BY <1>3 DEF MarkUndone, WorkerOK, WithRow
  <2>2. rows' \in Seq(Row) /\ Len(rows') = Len(rows)
    BY <1>3, <2>1, SetStateType DEF MarkUndone, RowStates
  <2>3. WorkerInv'
    <3>1. CASE NextUndo(w, bk[w])
      BY <1>0, <2>2, <3>1, NextUndoType
    <3>2. CASE Abort(w)
      BY <1>0, <2>2, <3>2, JobOverType DEF Abort, WorkerTypeOK
    <3>3. QED
      BY <1>3, <3>1, <3>2 DEF MarkUndone
  <2>4. CountTypeOK'
    BY <1>3, FaultTypes DEF MarkUndone, CountTypeOK, Abort
  <2>5. QED
    BY <1>3, <2>2, <2>3, <2>4 DEF MarkUndone, WorkerInv
<1>4. QED
  BY <1>1, <1>2, <1>3 DEF UndoStep

\* The workers of a process that ended.
LEMMA WorkersGoneType ==
  ASSUME WorkerInv, rows \in Seq(Row), rows' = rows, UNCHANGED run,
         NEW p \in Processes, WorkersGone(p)
  PROVE  WorkerInv'
<1>0. 0 \in 0..Len(rows)
  BY LenProperties
<1>1. WorkerTypeOK'
  <2>1. pc' \in [Workers -> Steps]
    BY DEF WorkerInv, WorkerTypeOK, WorkersGone, Steps
  <2>2. /\ todo' \in [Workers -> SUBSET Change]
        /\ cur' \in [Workers -> Change \cup {NoChange}]
    BY DEF WorkerInv, WorkerTypeOK, WorkersGone
  <2>3. /\ report' \in [Workers -> SUBSET Result]
        /\ pending' \in [Workers -> SUBSET RowIds]
        /\ strict' \in [Workers -> BOOLEAN]
    BY DEF WorkerInv, WorkerTypeOK, WorkersGone
  <2>4. bk' \in [Workers -> 0..Len(rows)]
    BY <1>0 DEF WorkerInv, WorkerTypeOK, WorkersGone
  <2>5. QED
    BY <2>1, <2>2, <2>3, <2>4 DEF WorkerInv, WorkerTypeOK
<1>2. WorkerOK'
  BY DEF WorkerInv, WorkerOK, WorkersGone, Executing, WithRow, RunSteps
<1>3. QED
  BY <1>1, <1>2 DEF WorkerInv

\* Processes that start, report, close and crash.
LEMMA ProcessType ==
  ASSUME TypeInv, NEW p \in Processes, Start(p) \/ Acknowledge(p) \/ Close(p) \/ Crash(p)
  PROVE  TypeInv'
<1> USE DEF TypeInv, TypeOK, SystemTypeOK, TableTypeOK, system
<1>0. WorkerInv /\ Len(rows) \in Nat
  BY LenProperties DEF WorkerInv
<1>1. CASE Start(p)
  <2>1. CountTypeOK'
    BY <1>1, FaultTypes DEF Start, CountTypeOK
  <2>2. listed' \in [Processes -> SUBSET RowIds]
        /\ proc' \in [Processes -> {"down", "reporting", "up"}]
    BY <1>1 DEF Start, Interrupted
  <2>3. QED
    BY <1>1, <2>1, <2>2 DEF Start, worker, WorkerTypeOK, WorkerOK
<1>2. CASE Acknowledge(p)
  <2>1. CountTypeOK'
    BY <1>2, FaultTypes DEF Acknowledge, CountTypeOK
  <2>2. rows' \in Seq(Row) /\ Len(rows') = Len(rows)
    BY <1>2, AcknowledgeRows DEF Acknowledge
  <2>3. WorkerTypeOK' /\ WorkerOK'
    BY <1>2, <2>2 DEF Acknowledge, worker, WorkerTypeOK, WorkerOK
  <2>4. QED
    BY <1>2, <2>1, <2>2, <2>3 DEF Acknowledge
<1>3. CASE Close(p)
  BY <1>0, <1>3, WorkersGoneType DEF Close, counts, CountTypeOK, WorkerInv
<1>4. CASE Crash(p)
  BY <1>0, <1>4, WorkersGoneType DEF Crash, CountTypeOK, WorkerInv
<1>5. QED
  BY <1>1, <1>2, <1>3, <1>4

\* Writes of the player and of other programs.
LEMMA OtherType ==
  ASSUME TypeInv, NEW t \in Targets, OtherWrites(t)
  PROVE  TypeInv'
BY DEF OtherWrites, TypeInv, TypeOK, SystemTypeOK, TableTypeOK, WorkerTypeOK, WorkerOK,
   CountTypeOK, worker

\* Every step keeps the types.
LEMMA TypeStep == TypeInv /\ [Next]_vars => TypeInv'
<1> SUFFICES ASSUME TypeInv, [Next]_vars PROVE TypeInv'
  OBVIOUS
<1>1. CASE UNCHANGED vars
  BY <1>1 DEF vars, TypeInv, TypeOK, SystemTypeOK, TableTypeOK, WorkerTypeOK, WorkerOK,
     CountTypeOK
<1>2. CASE Next
  BY <1>2, OperatorType, ExecuteType, UndoType, ProcessType, OtherType DEF Next, RunStep
<1>3. QED
  BY <1>1, <1>2

\* Every variable of the lifecycle keeps its type, whatever the numbers of
\* targets, values, workers, processes and failures.
THEOREM TypeCorrect == Spec => []TypeOK
<1>1. TypeInv => TypeOK
  BY DEF TypeInv
<1>2. QED
  BY TypeInit, TypeStep, <1>1, PTL DEF Spec
-----------------------------------------------------------------------------
(* Rows.  With two copies running none of this holds: the second copy's     *)
(* startup takes a change the first is making for an interrupted one and    *)
(* marks it FAILED under the worker that is still writing.                  *)

USE DEF RowIds

OneCopy == \A p, q \in Processes : p = q

Owning == {"apply", "verify", "mark", "rollback", "restored", "unrestored"}
Undoing == {"undo", "undone"}

\* Between its backup and the mark that ends it, a change of a reversible
\* setting has a row that says what it does and is still APPLYING; an undo
\* works on a row that was APPLIED when it started.
RowOK(w) ==
  /\ pc[w] \notin Owning \cup Undoing => bk[w] = 0
  /\ pc[w] = "backup" => cur[w].target \notin Irreversible
  /\ pc[w] \in Owning =>
       IF bk[w] = 0 THEN cur[w].target \in Irreversible
       ELSE /\ rows[bk[w]].state = "APPLYING"
            /\ rows[bk[w]].target = cur[w].target
            /\ rows[bk[w]].new = cur[w].want
  /\ pc[w] \in Undoing => rows[bk[w]].state \in {"APPLIED", "RESTORED"}
  /\ pc[w] # "idle" => proc[ProcOf[w]] = "up"

\* No row is owned by two workers.
Disjoint ==
  \A u, w \in Workers :
    u # w /\ pc[u] \in Owning /\ pc[w] \in Owning /\ bk[u] # 0 => bk[u] # bk[w]

RowsOwned == (\A w \in Workers : RowOK(w)) /\ Disjoint
Inv == TypeInv /\ RowsOwned

\* A step of one worker: the others' places, changes and rows stay.
OnlyMoves(w) ==
  \A u \in Workers \ {w} : pc'[u] = pc[u] /\ bk'[u] = bk[u] /\ cur'[u] = cur[u]

\* What w may do to the table: a new row, or a mark on its own row.
OnlyMarks(w) ==
  /\ Len(rows') >= Len(rows)
  /\ \A i \in RowIds : i # bk[w] => rows'[i] = rows[i]

-----------------------------------------------------------------------------
LEMMA InvInit == Init => Inv
<1> SUFFICES ASSUME Init PROVE RowsOwned
  BY TypeInit DEF Inv
<1>1. ASSUME NEW w \in Workers PROVE RowOK(w)
  BY DEF Init, RowOK, Owning, Undoing
<1>2. Disjoint
  BY DEF Init, Disjoint, Owning
<1>3. QED
  BY <1>1, <1>2 DEF RowsOwned

\* A worker that moves without touching the table, and that keeps its row or
\* gives it up, leaves every row with its owner.
LEMMA QuietStep ==
  ASSUME Inv, NEW w \in Workers, OnlyMoves(w), rows' = rows, proc' = proc, RowOK(w)',
         pc'[w] \in Owning => bk'[w] = 0 \/ (bk'[w] = bk[w] /\ pc[w] \in Owning)
  PROVE  RowsOwned'
<1>1. ASSUME NEW u \in Workers PROVE RowOK(u)'
  <2>1. CASE u = w
    BY <2>1
  <2>2. CASE u # w
    BY <2>2 DEF Inv, RowsOwned, RowOK, OnlyMoves
  <2>3. QED
    BY <2>1, <2>2
<1>2. Disjoint'
  <2>1. SUFFICES ASSUME NEW u \in Workers, NEW v \in Workers, u # v, pc'[u] \in Owning,
                        pc'[v] \in Owning, bk'[u] # 0, bk'[u] = bk'[v]
                 PROVE  FALSE
    BY DEF Disjoint
  <2>2. QED
    BY <2>1 DEF Inv, RowsOwned, Disjoint, OnlyMoves
<1>3. QED
  BY <1>1, <1>2 DEF RowsOwned

\* A worker that marks its own row and is done with it: the other workers'
\* rows are other rows, or rows an undo may find RESTORED.
LEMMA MarkStep ==
  ASSUME Inv, NEW w \in Workers, OnlyMoves(w), OnlyMarks(w), proc' = proc, RowOK(w)',
         pc'[w] \notin Owning,
         \/ pc[w] \in Owning
         \/ pc[w] \in Undoing /\ rows'[bk[w]].state \in {"APPLIED", "RESTORED"}
  PROVE  RowsOwned'
<1>1. ASSUME NEW u \in Workers PROVE RowOK(u)'
  <2>1. CASE u = w
    BY <2>1
  <2>2. CASE u # w
    <3>0. RowOK(u) /\ RowOK(w) /\ bk[u] \in 0..Len(rows) /\ Len(rows) \in Nat
      BY LenProperties DEF Inv, RowsOwned, TypeInv, TypeOK, WorkerTypeOK, TableTypeOK
    <3>1. pc'[u] = pc[u] /\ bk'[u] = bk[u] /\ cur'[u] = cur[u]
      BY <2>2 DEF OnlyMoves
    <3>2. pc[u] \in Undoing => bk[u] \in RowIds
      BY DEF Inv, TypeInv, WorkerOK, WithRow, Undoing
    <3>3. CASE bk[u] = 0
      BY <3>0, <3>1, <3>2, <3>3 DEF RowOK, Owning, Undoing
    <3>4. CASE bk[u] # 0 /\ bk[u] # bk[w]
      <4>1. rows'[bk[u]] = rows[bk[u]]
        BY <3>0, <3>4 DEF OnlyMarks
      <4>2. QED
        BY <3>0, <3>1, <4>1 DEF RowOK
    <3>5. CASE bk[u] # 0 /\ bk[u] = bk[w]
      <4>1. pc[u] \in Undoing
        <5>1. CASE pc[w] \in Owning
          BY <2>2, <3>0, <3>5, <5>1 DEF Inv, RowsOwned, Disjoint, RowOK
        <5>2. CASE pc[w] \in Undoing
          BY <3>0, <3>5, <5>2 DEF RowOK, Undoing, Owning
        <5>3. QED
          BY <5>1, <5>2
      <4>2. pc[w] \in Undoing
        BY <3>0, <3>5, <4>1 DEF RowOK
      <4>3. rows'[bk[u]].state \in {"APPLIED", "RESTORED"}
        BY <3>5, <4>2 DEF Undoing, Owning
      <4>4. QED
        BY <3>0, <3>1, <4>1, <4>3 DEF RowOK, Undoing, Owning
    <3>6. QED
      BY <3>3, <3>4, <3>5
  <2>3. QED
    BY <2>1, <2>2
<1>2. Disjoint'
  BY DEF Inv, RowsOwned, Disjoint, OnlyMoves
<1>3. QED
  BY <1>1, <1>2 DEF RowsOwned

-----------------------------------------------------------------------------
(* Ways a worker moves on.                                                  *)

Leaves(w) ==
  \/ JobOver(w)
  \/ \E outcome \in Outcomes : Conclude(w, outcome)
  \/ \E i \in RowIds : NextUndo(w, i)

\* A worker done with a change, an undo or its job holds no row.
LEMMA LeavesLocal ==
  ASSUME Inv, NEW w \in Workers, pc[w] # "idle", proc' = proc, Leaves(w)
  PROVE  OnlyMoves(w) /\ RowOK(w)' /\ pc'[w] \notin Owning
<1>0. pc \in [Workers -> Steps] /\ bk \in [Workers -> 0..Len(rows)]
      /\ cur \in [Workers -> Change \cup {NoChange}] /\ proc[ProcOf[w]] = "up"
  BY DEF Inv, TypeInv, TypeOK, WorkerTypeOK, RowsOwned, RowOK
<1>1. OnlyMoves(w) /\ bk'[w] = 0 /\ pc'[w] \in {"idle", "next", "undocheck"}
  BY <1>0 DEF Leaves, OnlyMoves, JobOver, Conclude, NextUndo
<1>2. QED
  BY <1>0, <1>1 DEF RowOK, Owning, Undoing

LEMMA LeaveQuietly ==
  ASSUME Inv, NEW w \in Workers, pc[w] # "idle", proc' = proc, rows' = rows, Leaves(w)
  PROVE  RowsOwned'
BY LeavesLocal, QuietStep

LEMMA GotoQuietly ==
  ASSUME Inv, NEW w \in Workers, NEW step, Goto(w, step), proc' = proc, rows' = rows,
         \/ pc[w] \in Owning /\ step \in Owning
         \/ pc[w] \in Undoing /\ step \in Undoing
  PROVE  RowsOwned'
<1>0. pc \in [Workers -> Steps] /\ RowOK(w)
  BY DEF Inv, TypeInv, TypeOK, WorkerTypeOK, RowsOwned
<1>1. OnlyMoves(w) /\ pc'[w] = step /\ bk'[w] = bk[w] /\ cur'[w] = cur[w]
  BY <1>0 DEF Goto, OnlyMoves
<1>2. RowOK(w)'
  BY <1>0, <1>1 DEF RowOK, Owning, Undoing
<1>3. QED
  BY <1>0, <1>1, <1>2, QuietStep DEF Owning, Undoing

\* A failed change goes to its rollback if it has a row, and is over if not.
LEMMA FailQuietly ==
  ASSUME Inv, NEW w \in Workers, FailAndRollback(w), proc' = proc, rows' = rows,
         pc[w] \in Owning
  PROVE  RowsOwned'
<1>1. CASE bk[w] = 0
  BY <1>1, LeaveQuietly DEF FailAndRollback, Leaves, Outcomes, Owning
<1>2. CASE bk[w] # 0
  BY <1>2, GotoQuietly DEF FailAndRollback, Owning
<1>3. QED
  BY <1>1, <1>2

-----------------------------------------------------------------------------
(* Every step keeps rows with their owners.                                 *)

\* Steps of the operator and the loop that hold no row.
LEMMA OperatorOwned ==
  ASSUME Inv, NEW w \in Workers,
         Plan(w) \/ Cancel(w) \/ Confirm(w) \/ RestoreOne(w) \/ RestoreAll(w)
           \/ NextChange(w) \/ CloseRun(w)
  PROVE  RowsOwned' /\ rows' = rows /\ UNCHANGED value
<1>0. pc \in [Workers -> Steps] /\ bk \in [Workers -> 0..Len(rows)]
      /\ cur \in [Workers -> Change \cup {NoChange}] /\ RowOK(w)
  BY DEF Inv, TypeInv, TypeOK, WorkerTypeOK, RowsOwned
<1>1. CASE Plan(w) \/ RestoreOne(w) \/ RestoreAll(w) \/ NextChange(w)
  <2>1. rows' = rows /\ proc' = proc /\ UNCHANGED value
    BY <1>1 DEF Plan, RestoreOne, RestoreAll, NextChange, system
  <2>2. OnlyMoves(w) /\ bk'[w] = bk[w] /\ pc'[w] \in {"preview", "undocheck", "check"}
    BY <1>0, <1>1 DEF Plan, RestoreOne, RestoreAll, NextChange, OnlyMoves
  <2>3. bk[w] = 0 /\ proc[ProcOf[w]] = "up"
    BY <1>0, <1>1 DEF Plan, RestoreOne, RestoreAll, NextChange, RowOK, Owning, Undoing
  <2>4. RowOK(w)'
    BY <2>1, <2>2, <2>3 DEF RowOK, Owning, Undoing
  <2>5. QED
    BY <2>1, <2>2, <2>4, QuietStep DEF Owning
<1>2. CASE Cancel(w)
  BY <1>2, LeaveQuietly DEF Cancel, Leaves, system
<1>3. CASE Confirm(w)
  <2>1. rows' = rows /\ proc' = proc /\ UNCHANGED value /\ pc[w] = "preview"
    BY <1>3 DEF Confirm, system
  <2>2. CASE Abort(w)
    BY <2>1, <2>2, LeaveQuietly DEF Abort, Leaves
  <2>3. CASE pc' = [pc EXCEPT ![w] = "next"] /\ UNCHANGED <<todo, cur, bk, report, pending, strict>>
    <3>1. OnlyMoves(w) /\ bk'[w] = bk[w] /\ pc'[w] = "next"
      BY <1>0, <2>3 DEF OnlyMoves
    <3>2. RowOK(w)'
      BY <1>0, <2>1, <3>1 DEF RowOK, Owning, Undoing
    <3>3. QED
      BY <2>1, <3>1, <3>2, QuietStep DEF Owning
  <2>4. QED
    BY <1>3, <2>1, <2>2, <2>3 DEF Confirm
<1>4. CASE CloseRun(w)
  BY <1>4, LeaveQuietly DEF CloseRun, Leaves, Abort, system
<1>5. QED
  BY <1>1, <1>2, <1>3, <1>4

\* The re-check comes before the row: nothing is owned yet.
LEMMA CheckOwned ==
  ASSUME Inv, NEW w \in Workers, CheckDrift(w)
  PROVE  RowsOwned' /\ rows' = rows /\ UNCHANGED value
<1>0. pc \in [Workers -> Steps] /\ RowOK(w) /\ cur[w] \in Change
  BY DEF Inv, TypeInv, TypeOK, WorkerTypeOK, RowsOwned, WorkerOK, CheckDrift, Executing, RunSteps
<1>1. rows' = rows /\ proc' = proc /\ UNCHANGED value /\ pc[w] = "check"
  BY DEF CheckDrift, system
<1>2. CASE Conclude(w, "NOT_NEEDED") \/ Conclude(w, "SKIPPED") \/ Abort(w)
  BY <1>1, <1>2, LeaveQuietly DEF Leaves, Outcomes, Abort
<1>3. CASE Goto(w, AfterCheck(cur[w]))
  <2>1. OnlyMoves(w) /\ pc'[w] = AfterCheck(cur[w]) /\ bk'[w] = bk[w] /\ cur'[w] = cur[w]
    BY <1>0, <1>3 DEF Goto, OnlyMoves
  <2>2. bk[w] = 0 /\ proc[ProcOf[w]] = "up"
    BY <1>0, <1>1 DEF RowOK, Owning, Undoing
  <2>3. RowOK(w)'
    BY <1>1, <2>1, <2>2 DEF RowOK, Owning, Undoing, AfterCheck
  <2>4. QED
    BY <1>1, <2>1, <2>2, <2>3, QuietStep
<1>4. QED
  BY <1>1, <1>2, <1>3 DEF CheckDrift

\* persist_backup: the new row is nobody else's.
LEMMA BackupOwned ==
  ASSUME Inv, NEW w \in Workers, Backup(w)
  PROVE  RowsOwned' /\ RowMoves /\ UNCHANGED value
<1>0. /\ pc \in [Workers -> Steps] /\ bk \in [Workers -> 0..Len(rows)]
      /\ RowOK(w) /\ cur[w] \in Change /\ rows \in Seq(Row) /\ Len(rows) \in Nat
  BY LenProperties DEF Inv, TypeInv, TypeOK, WorkerTypeOK, TableTypeOK, RowsOwned, WorkerOK,
     Backup, Executing, RunSteps
<1>1. proc' = proc /\ UNCHANGED value /\ pc[w] = "backup"
  BY DEF Backup, system
<1>2. CASE rows' = rows /\ (Conclude(w, "SKIPPED") \/ Abort(w))
  BY <1>0, <1>1, <1>2, LeaveQuietly DEF Leaves, Outcomes, Abort, RowMoves
<1>3. CASE /\ \E old \in {value[cur[w].target], cur[w].seen} :
                rows' = Append(rows, [target |-> cur[w].target, old |-> old,
                                      new |-> cur[w].want, state |-> "APPLYING"])
           /\ bk' = [bk EXCEPT ![w] = Len(rows) + 1]
           /\ pc' = [pc EXCEPT ![w] = "apply"]
           /\ UNCHANGED <<todo, cur, report, pending, strict, run>>
  <2>1. PICK old \in {value[cur[w].target], cur[w].seen} :
          rows' = Append(rows, [target |-> cur[w].target, old |-> old,
                                new |-> cur[w].want, state |-> "APPLYING"])
    BY <1>3
  <2> DEFINE row == [target |-> cur[w].target, old |-> old,
                     new |-> cur[w].want, state |-> "APPLYING"]
  <2>2. row \in Row
    BY <1>0 DEF Change, Row, RowStates, Inv, TypeInv, TypeOK, SystemTypeOK
  <2>3. /\ Len(rows') = Len(rows) + 1
        /\ \A i \in RowIds : rows'[i] = rows[i]
        /\ rows'[Len(rows) + 1] = row
    BY <1>0, <2>1, <2>2, AppendRow
  <2>4. OnlyMoves(w) /\ bk'[w] = Len(rows) + 1 /\ pc'[w] = "apply" /\ cur'[w] = cur[w]
    BY <1>0, <1>3 DEF OnlyMoves
  <2>5. \A u \in Workers \ {w} : bk'[u] \in 0..Len(rows) /\ RowOK(u)'
    <3> SUFFICES ASSUME NEW u \in Workers \ {w} PROVE bk'[u] \in 0..Len(rows) /\ RowOK(u)'
      OBVIOUS
    <3>1. bk'[u] = bk[u] /\ pc'[u] = pc[u] /\ cur'[u] = cur[u] /\ bk[u] \in 0..Len(rows)
      BY <1>0, <2>4 DEF OnlyMoves
    <3>2. RowOK(u) /\ (pc[u] \in Undoing => bk[u] \in RowIds)
      BY DEF Inv, RowsOwned, TypeInv, WorkerOK, WithRow, Undoing
    <3>3. bk[u] # 0 => rows'[bk[u]] = rows[bk[u]]
      BY <1>0, <2>3, <3>1
    <3>4. QED
      BY <1>0, <1>1, <3>1, <3>2, <3>3 DEF RowOK, Undoing
  <2>6. RowOK(w)'
    BY <1>0, <1>1, <2>3, <2>4 DEF RowOK, Owning, Undoing
  <2>7. Disjoint'
    BY <1>0, <2>4, <2>5 DEF Disjoint, Inv, RowsOwned, OnlyMoves
  <2>8. RowMoves
    BY <1>0, <2>3 DEF RowMoves
  <2>9. QED
    BY <1>1, <2>5, <2>6, <2>7, <2>8 DEF RowsOwned
<1>4. QED
  BY <1>1, <1>2, <1>3 DEF Backup

\* tweak.apply, verify and rollback: the table stays, and a reversible setting
\* is written from the worker's own row.
LEMMA ExecuteOwned ==
  ASSUME Inv, NEW w \in Workers, Apply(w) \/ Verify(w) \/ Rollback(w)
  PROVE  RowsOwned' /\ rows' = rows /\ WriteBackedUp
<1>0. /\ pc \in [Workers -> Steps] /\ RowOK(w) /\ WorkerOK
      /\ bk[w] \in 0..Len(rows) /\ Len(rows) \in Nat
      /\ value \in [Targets -> Values] /\ rows \in Seq(Row)
  BY LenProperties DEF Inv, TypeInv, TypeOK, WorkerTypeOK, SystemTypeOK, TableTypeOK, RowsOwned
<1>1. CASE Apply(w)
  <2>1. rows' = rows /\ proc' = proc /\ pc[w] = "apply" /\ cur[w] \in Change
    BY <1>0, <1>1 DEF Apply, WorkerOK, Executing, RunSteps
  <2>2. RowsOwned'
    BY <1>1, <2>1, FailQuietly, GotoQuietly DEF Apply, Owning
  <2>3. WriteBackedUp
    <3>1. SUFFICES ASSUME NEW t \in Reversible, value'[t] # value[t]
                   PROVE  \E i \in RowsFor(t) : value'[t] = rows[i].new /\ rows[i].state = "APPLYING"
      BY DEF WriteBackedUp
    <3>2. value' = value \/ value' = [value EXCEPT ![cur[w].target] = cur[w].want]
      BY <1>1 DEF Apply
    <3>3. t = cur[w].target /\ value'[t] = cur[w].want
      BY <1>0, <3>1, <3>2 DEF Reversible
    <3>4. bk[w] # 0 /\ rows[bk[w]].state = "APPLYING" /\ rows[bk[w]].target = t
          /\ rows[bk[w]].new = cur[w].want
      BY <1>0, <2>1, <3>1, <3>3 DEF RowOK, Owning, Reversible
    <3>5. QED
      BY <1>0, <3>3, <3>4 DEF RowsFor
  <2>4. QED
    BY <2>1, <2>2, <2>3
<1>2. CASE Verify(w)
  <2>1. rows' = rows /\ proc' = proc /\ pc[w] = "verify" /\ value' = value
    BY <1>2 DEF Verify, system
  <2>2. RowsOwned'
    BY <1>2, <2>1, FailQuietly, GotoQuietly DEF Verify, Owning
  <2>3. QED
    BY <2>1, <2>2 DEF WriteBackedUp
<1>3. CASE Rollback(w)
  <2>1. rows' = rows /\ proc' = proc /\ pc[w] = "rollback" /\ bk[w] \in RowIds
    BY <1>0, <1>3 DEF Rollback, WorkerOK, WithRow
  <2>2. RowsOwned'
    BY <1>3, <2>1, GotoQuietly DEF Rollback, Owning
  <2>3. value' \in {value, [value EXCEPT ![rows[bk[w]].target] = rows[bk[w]].old]}
    BY <1>3 DEF Rollback, PutBack
  <2>4. QED
    BY <1>0, <2>1, <2>2, <2>3 DEF WriteBackedUp, RowsFor, Reversible
<1>4. QED
  BY <1>1, <1>2, <1>3

\* An undo starts from a row that is APPLIED and writes that row's old value.
LEMMA UndoOwned ==
  ASSUME Inv, NEW w \in Workers, UndoCheck(w) \/ Undo(w)
  PROVE  RowsOwned' /\ rows' = rows /\ WriteBackedUp
<1>0. /\ pc \in [Workers -> Steps] /\ bk \in [Workers -> 0..Len(rows)]
      /\ pending \in [Workers -> SUBSET RowIds] /\ RowOK(w) /\ WorkerOK
      /\ value \in [Targets -> Values] /\ rows \in Seq(Row)
  BY DEF Inv, TypeInv, TypeOK, WorkerTypeOK, SystemTypeOK, TableTypeOK, RowsOwned
<1>1. CASE UndoCheck(w)
  <2>1. rows' = rows /\ proc' = proc /\ pc[w] = "undocheck" /\ value' = value
    BY <1>1 DEF UndoCheck, system
  <2>2. PICK i \in RowIds :
          \/ NextUndo(w, i)
          \/ /\ ~Refused(i, strict[w])
             /\ bk' = [bk EXCEPT ![w] = i]
             /\ pc' = [pc EXCEPT ![w] = "undo"]
             /\ UNCHANGED <<todo, cur, report, pending, strict, run>>
          \/ Abort(w)
    BY <1>0, <1>1 DEF UndoCheck
  <2>3. CASE NextUndo(w, i) \/ Abort(w)
    BY <2>1, <2>3, LeaveQuietly DEF Leaves, Abort, WriteBackedUp
  <2>4. CASE /\ ~Refused(i, strict[w])
             /\ bk' = [bk EXCEPT ![w] = i]
             /\ pc' = [pc EXCEPT ![w] = "undo"]
             /\ UNCHANGED <<todo, cur, report, pending, strict, run>>
    <3>1. OnlyMoves(w) /\ bk'[w] = i /\ pc'[w] = "undo" /\ cur'[w] = cur[w]
      BY <1>0, <2>4 DEF OnlyMoves
    <3>2. RowOK(w)'
      BY <1>0, <2>1, <2>4, <3>1 DEF RowOK, Refused, Owning, Undoing
    <3>3. QED
      BY <2>1, <3>1, <3>2, QuietStep DEF Owning, WriteBackedUp
  <2>5. QED
    BY <2>2, <2>3, <2>4
<1>2. CASE Undo(w)
  <2>1. rows' = rows /\ proc' = proc /\ pc[w] = "undo" /\ bk[w] \in RowIds
    BY <1>0, <1>2 DEF Undo, WorkerOK, WithRow
  <2>2. RowsOwned'
    BY <1>2, <2>1, LeaveQuietly, GotoQuietly DEF Undo, Undoing, Leaves
  <2>3. value' \in {value, [value EXCEPT ![rows[bk[w]].target] = rows[bk[w]].old]}
    BY <1>2 DEF Undo, PutBack
  <2>4. QED
    BY <1>0, <2>1, <2>2, <2>3 DEF WriteBackedUp, RowsFor, Reversible
<1>3. QED
  BY <1>1, <1>2

\* mark_backup, at the end of a change, of a rollback and of an undo.
LEMMA MarkOwned ==
  ASSUME Inv, NEW w \in Workers, MarkApplied(w) \/ MarkRolledBack(w) \/ MarkUndone(w)
  PROVE  RowsOwned' /\ RowMoves /\ UNCHANGED value
<1>0. /\ RowOK(w) /\ WorkerOK /\ bk[w] \in 0..Len(rows) /\ Len(rows) \in Nat
      /\ rows \in Seq(Row) /\ cur[w] \in Change \cup {NoChange}
  BY LenProperties DEF Inv, TypeInv, TypeOK, WorkerTypeOK, TableTypeOK, RowsOwned
<1>1. proc' = proc /\ UNCHANGED value /\ pc[w] \in {"mark", "restored", "unrestored", "undone"}
  BY DEF MarkApplied, MarkRolledBack, MarkUndone, system
<1>2. Leaves(w)
  BY <1>0, <1>1 DEF MarkApplied, MarkRolledBack, MarkUndone, Leaves, Abort, Outcomes, WorkerOK, WithRow
<1>3. CASE rows' = rows
  BY <1>0, <1>1, <1>2, <1>3, LeaveQuietly DEF RowMoves
<1>4. CASE rows' # rows
  <2>1. bk[w] \in RowIds
    BY <1>0, <1>4 DEF MarkApplied, MarkRolledBack, MarkUndone, WorkerOK, WithRow
  <2>2. PICK state \in RowStates :
          /\ SetState(bk[w], state)
          /\ pc[w] \in Owning \/ (pc[w] \in Undoing /\ state = "RESTORED")
    BY <1>4 DEF MarkApplied, MarkRolledBack, MarkUndone, StateAfterRollback, RowStates, Owning, Undoing
  <2>3. /\ Len(rows') = Len(rows)
        /\ rows'[bk[w]] = [rows[bk[w]] EXCEPT !.state = state]
        /\ \A j \in RowIds : j # bk[w] => rows'[j] = rows[j]
    BY <1>0, <2>1, <2>2, MarkRow DEF SetState
  <2>4. rows[bk[w]] \in Row
    BY <1>0, <2>1
  <2>5. rows'[bk[w]].state = state /\ rows'[bk[w]].target = rows[bk[w]].target
        /\ rows'[bk[w]].old = rows[bk[w]].old /\ rows'[bk[w]].new = rows[bk[w]].new
    BY <2>3, <2>4 DEF Row
  <2>6. RowMoves
    <3>1. \/ rows[bk[w]].state = "APPLYING"
          \/ rows[bk[w]].state = "APPLIED" /\ state = "RESTORED"
          \/ rows[bk[w]].state = state
      BY <1>0, <2>1, <2>2 DEF RowOK
    <3>2. \A i \in RowIds : i = bk[w] \/ rows'[i] = rows[i]
      BY <2>3
    <3>3. Len(rows') >= Len(rows)
      BY <1>0, <2>3
    <3>4. QED
      BY <2>5, <3>1, <3>2, <3>3, Zenon DEF RowMoves
  <2>7. OnlyMarks(w)
    BY <1>0, <2>3 DEF OnlyMarks
  <2>8. RowsOwned'
    BY <1>1, <1>2, <2>2, <2>5, <2>7, LeavesLocal, MarkStep
  <2>9. QED
    BY <1>1, <2>6, <2>8
<1>5. QED
  BY <1>3, <1>4

\* Starting, closing and crashing leave the table alone; a startup dialog is
\* open only while no worker of the one copy has anything to do.
LEMMA ProcessOwned ==
  ASSUME OneCopy, Inv, NEW p \in Processes,
         Start(p) \/ Acknowledge(p) \/ Close(p) \/ Crash(p)
  PROVE  RowsOwned' /\ RowMoves /\ UNCHANGED value
<1>0. /\ \A w \in Workers : RowOK(w) /\ ProcOf[w] = p
      /\ proc \in [Processes -> {"down", "reporting", "up"}]
      /\ rows \in Seq(Row) /\ Len(rows) \in Nat /\ pc \in [Workers -> Steps]
  BY ConstantsAssumption, LenProperties DEF OneCopy, Inv, RowsOwned, TypeInv, TypeOK,
     TableTypeOK, WorkerTypeOK
<1>1. CASE Start(p)
  <2>1. \A w \in Workers : pc'[w] = "idle" /\ bk'[w] = 0 /\ rows' = rows /\ UNCHANGED value
    BY <1>0, <1>1 DEF Start, RowOK, worker, system, Owning, Undoing
  <2>2. rows' = rows /\ UNCHANGED value
    BY <1>1 DEF Start, system
  <2>3. QED
    BY <1>0, <2>1, <2>2 DEF RowMoves, RowsOwned, RowOK, Disjoint, Owning, Undoing
<1>2. CASE Acknowledge(p)
  <2>1. \A w \in Workers : pc'[w] = "idle" /\ bk'[w] = 0
    BY <1>0, <1>2 DEF Acknowledge, RowOK, worker, Owning, Undoing
  <2>2. PICK done :
          rows' = [i \in RowIds |->
            IF i \in done /\ rows[i].state = "APPLYING"
            THEN [rows[i] EXCEPT !.state = "FAILED"] ELSE rows[i]]
    BY <1>2 DEF Acknowledge
  <2>3. Len(rows') = Len(rows)
    BY <1>0, <2>2, AcknowledgeRows
  <2>4. \A i \in RowIds : rows[i] \in Row
    BY <1>0
  <2>5. RowMoves
    BY <1>0, <2>2, <2>3, <2>4 DEF RowMoves, Row
  <2>6. QED
    BY <1>2, <2>1, <2>5 DEF Acknowledge, system, RowsOwned, RowOK, Disjoint, Owning, Undoing
<1>3. CASE Close(p) \/ Crash(p)
  <2>1. WorkersGone(p) /\ rows' = rows /\ UNCHANGED value
    BY <1>3 DEF Close, Crash, system
  <2>2. \A w \in Workers : pc'[w] = "idle" /\ bk'[w] = 0
    BY <1>0, <2>1 DEF WorkersGone
  <2>3. QED
    BY <1>0, <2>1, <2>2 DEF RowMoves, RowsOwned, RowOK, Disjoint, Owning, Undoing
<1>4. QED
  BY <1>1, <1>2, <1>3

-----------------------------------------------------------------------------
\* A step keeps the rows with their owners, moves rows only forward and writes
\* reversible settings only from rows.
LEMMA StepOwned ==
  ASSUME OneCopy, Inv, [Next]_vars
  PROVE  RowsOwned' /\ RowMoves /\ WriteBackedUp
<1>0. rows' = rows => RowMoves
  BY LenProperties DEF RowMoves, Inv, TypeInv, TypeOK, TableTypeOK
<1>1. UNCHANGED value => WriteBackedUp
  BY DEF WriteBackedUp
<1>2. CASE UNCHANGED vars
  BY <1>0, <1>1, <1>2 DEF vars, Inv, RowsOwned, RowOK, Disjoint
<1>3. ASSUME NEW w \in Workers,
             \/ Plan(w) \/ Cancel(w) \/ Confirm(w) \/ RestoreOne(w) \/ RestoreAll(w)
             \/ RunStep(w) \/ UndoStep(w)
      PROVE  RowsOwned' /\ RowMoves /\ WriteBackedUp
  BY <1>0, <1>1, <1>3, OperatorOwned, CheckOwned, BackupOwned, ExecuteOwned, UndoOwned,
     MarkOwned DEF RunStep, UndoStep
<1>4. ASSUME NEW p \in Processes, Start(p) \/ Acknowledge(p) \/ Close(p) \/ Crash(p)
      PROVE  RowsOwned' /\ RowMoves /\ WriteBackedUp
  BY <1>1, <1>4, ProcessOwned
<1>5. ASSUME NEW t \in Targets, OtherWrites(t)
      PROVE  RowsOwned' /\ RowMoves /\ WriteBackedUp
  <2>1. rows' = rows /\ proc' = proc /\ UNCHANGED worker /\ others' # others
    BY <1>5 DEF OtherWrites, Inv, TypeInv, TypeOK, CountTypeOK
  <2>2. QED
    BY <1>0, <2>1 DEF WriteBackedUp, worker, Inv, RowsOwned, RowOK, Disjoint
<1>6. QED
  BY <1>2, <1>3, <1>4, <1>5 DEF Next

LEMMA InvStep == ASSUME OneCopy PROVE Inv /\ [Next]_vars => Inv'
BY StepOwned, TypeStep DEF Inv

\* With one copy of the program running, a row leaves APPLYING once, an APPLIED
\* row only becomes RESTORED, and target, old and new value are never rewritten
\* - whatever the workers, crashes, failures and undos.
THEOREM RowsMoveForward == OneCopy => (Spec => RowLifecycle)
<1> SUFFICES ASSUME OneCopy PROVE Spec => RowLifecycle
  OBVIOUS
<1>1. Inv /\ [Next]_vars => Inv'
  BY InvStep
<1>2. Inv /\ [Next]_vars => [RowMoves]_vars
  BY StepOwned
<1>3. QED
  BY InvInit, <1>1, <1>2, PTL DEF Spec, RowLifecycle

\* With one copy of the program running, whatever PGM writes to a reversible
\* setting is in a row that was committed before the write.
THEOREM WrittenFromRows == OneCopy => (Spec => NoChangeWithoutBackup)
<1> SUFFICES ASSUME OneCopy PROVE Spec => NoChangeWithoutBackup
  OBVIOUS
<1>1. Inv /\ [Next]_vars => Inv'
  BY InvStep
<1>2. Inv /\ [Next]_vars => [WriteBackedUp]_vars
  BY StepOwned
<1>3. QED
  BY InvInit, <1>1, <1>2, PTL DEF Spec, NoChangeWithoutBackup

-----------------------------------------------------------------------------
(* No interrupted change goes unnoticed.                                    *)

\* A worker's step leaves no row APPLYING behind without an owner, unless the
\* database failed it.
Accounted(w) ==
  sfaults' = 0 => \A i \in 1..Len(rows') : rows'[i].state = "APPLYING" =>
    \/ bk'[w] = i
    \/ i \in RowIds /\ rows[i].state = "APPLYING" /\ bk[w] # i

NoneLeft(w) == rows' = rows /\ bk'[w] = bk[w]
NothingHeld(w) ==
  /\ rows' = rows
  /\ bk[w] # 0 => bk[w] \in RowIds /\ rows[bk[w]].state # "APPLYING"

LEMMA NoneLeftAccounted ==
  ASSUME Inv, NEW w \in Workers, NoneLeft(w) \/ NothingHeld(w) \/ StorageFault
  PROVE  Accounted(w)
<1>0. sfaults \in Nat /\ Len(rows) \in Nat
  BY LenProperties DEF Inv, TypeInv, TypeOK, CountTypeOK, TableTypeOK
<1>1. CASE NoneLeft(w) \/ NothingHeld(w)
  BY <1>0, <1>1 DEF Accounted, NoneLeft, NothingHeld
<1>2. CASE StorageFault
  <2>1. sfaults' # 0
    BY <1>0, <1>2 DEF StorageFault
  <2>2. QED
    BY <2>1 DEF Accounted
<1>3. QED
  BY <1>1, <1>2

\* What every step of a worker leaves alone.
WorkerFrame(w) ==
  /\ proc' = proc /\ listed' = listed /\ (sfaults' = 0 => sfaults = 0)
  /\ \A u \in Workers \ {w} : bk'[u] = bk[u]

\* Outside Owning and Undoing a worker holds no row, whatever it does next.
LEMMA IdleHandsAccounted ==
  ASSUME Inv, NEW w \in Workers, pc[w] \notin Owning \cup Undoing, rows' = rows
  PROVE  Accounted(w)
<1>1. bk[w] = 0
  BY DEF Inv, RowsOwned, RowOK
<1>2. QED
  BY <1>1, NoneLeftAccounted DEF NothingHeld

LEMMA WorkerFrames ==
  ASSUME Inv, NEW w \in Workers,
         \/ Plan(w) \/ Cancel(w) \/ Confirm(w) \/ RestoreOne(w) \/ RestoreAll(w)
         \/ RunStep(w) \/ UndoStep(w)
  PROVE  WorkerFrame(w)
<1>0. bk \in [Workers -> 0..Len(rows)] /\ sfaults \in Nat
  BY DEF Inv, TypeInv, TypeOK, WorkerTypeOK, CountTypeOK
<1>1. CASE Plan(w) \/ Cancel(w) \/ Confirm(w) \/ RestoreOne(w) \/ RestoreAll(w) \/ NextChange(w)
  BY <1>0, <1>1 DEF WorkerFrame, Plan, Cancel, Confirm, RestoreOne, RestoreAll, NextChange,
     counts, Abort, StorageFault, NoFault, JobOver
<1>2. CASE CheckDrift(w) \/ Backup(w) \/ CloseRun(w)
  BY <1>0, <1>2 DEF WorkerFrame, CheckDrift, Backup, CloseRun, Abort, StorageFault, NoFault,
     TweakFault, JobOver, Conclude, Goto
<1>3. CASE Apply(w) \/ Verify(w) \/ Rollback(w)
  BY <1>0, <1>3 DEF WorkerFrame, Apply, Verify, Rollback, PutBack, FailAndRollback, NoFault,
     TweakFault, Conclude, Goto
<1>4. CASE MarkApplied(w) \/ MarkRolledBack(w) \/ MarkUndone(w)
  BY <1>0, <1>4 DEF WorkerFrame, MarkApplied, MarkRolledBack, MarkUndone, Abort, StorageFault,
     NoFault, JobOver, Conclude, NextUndo
<1>5. CASE UndoCheck(w) \/ Undo(w)
  BY <1>0, <1>5 DEF WorkerFrame, UndoCheck, Undo, PutBack, Abort, StorageFault, NoFault,
     TweakFault, JobOver, NextUndo, Goto
<1>6. QED
  BY <1>1, <1>2, <1>3, <1>4, <1>5 DEF RunStep, UndoStep

LEMMA WorkerAccounts ==
  ASSUME Inv, NEW w \in Workers,
         \/ Plan(w) \/ Cancel(w) \/ Confirm(w) \/ RestoreOne(w) \/ RestoreAll(w)
         \/ RunStep(w) \/ UndoStep(w)
  PROVE  Accounted(w)
<1>0. /\ RowOK(w) /\ WorkerOK /\ bk \in [Workers -> 0..Len(rows)]
      /\ rows \in Seq(Row) /\ Len(rows) \in Nat
  BY LenProperties DEF Inv, TypeInv, TypeOK, WorkerTypeOK, TableTypeOK, RowsOwned
<1>1. CASE Plan(w) \/ Cancel(w) \/ Confirm(w) \/ RestoreOne(w) \/ RestoreAll(w)
           \/ NextChange(w) \/ CheckDrift(w) \/ CloseRun(w) \/ UndoCheck(w)
  BY <1>1, IdleHandsAccounted DEF Plan, Cancel, Confirm, RestoreOne, RestoreAll, NextChange,
     CheckDrift, CloseRun, UndoCheck, Owning, Undoing
<1>2. CASE Backup(w)
  <2>1. pc[w] = "backup" /\ bk[w] = 0
    BY <1>0, <1>2 DEF Backup, RowOK, Owning, Undoing
  <2>2. CASE rows' = rows
    BY <2>1, <2>2, IdleHandsAccounted DEF Owning, Undoing
  <2>3. CASE rows' # rows
    <3>1. PICK row : rows' = Append(rows, row) /\ bk' = [bk EXCEPT ![w] = Len(rows) + 1]
      BY <1>2, <2>3 DEF Backup
    <3>2. \A i \in 1..Len(rows') : i = Len(rows) + 1 \/ (i \in RowIds /\ rows'[i] = rows[i])
      BY <1>0, <3>1
    <3>3. bk'[w] = Len(rows) + 1
      BY <1>0, <3>1
    <3>4. QED
      BY <1>0, <2>1, <3>2, <3>3 DEF Accounted
  <2>4. QED
    BY <2>2, <2>3
<1>3. CASE Apply(w) \/ Verify(w)
  <2>1. rows' = rows
    BY <1>3 DEF Apply, Verify
  <2>2. bk'[w] = bk[w] \/ bk[w] = 0
    BY <1>0, <1>3 DEF Apply, Verify, FailAndRollback, Goto, Conclude
  <2>3. QED
    BY <2>1, <2>2, NoneLeftAccounted DEF NoneLeft, NothingHeld
<1>4. CASE Rollback(w)
  BY <1>4, NoneLeftAccounted DEF Rollback, NoneLeft, Goto
<1>5. CASE Undo(w)
  <2>1. rows' = rows /\ bk[w] \in RowIds /\ rows[bk[w]].state # "APPLYING"
    BY <1>0, <1>5 DEF Undo, WorkerOK, WithRow, RowOK, Undoing
  <2>2. QED
    BY <2>1, NoneLeftAccounted DEF NothingHeld
<1>6. CASE MarkApplied(w) \/ MarkRolledBack(w) \/ MarkUndone(w)
  <2>1. CASE StorageFault
    BY <2>1, NoneLeftAccounted
  <2>2. CASE ~StorageFault /\ bk[w] = 0
    <3>1. MarkApplied(w)
      <4>1. ~(0 \in RowIds)
        BY <1>0
      <4>2. QED
        BY <1>0, <1>6, <2>2, <4>1 DEF MarkRolledBack, MarkUndone, WorkerOK, WithRow
    <3>2. rows' = rows
      BY <2>2, <3>1 DEF MarkApplied, Abort
    <3>3. QED
      BY <2>2, <3>2, NoneLeftAccounted DEF NothingHeld
  <2>3. CASE ~StorageFault /\ bk[w] # 0
    <3>1. PICK state \in {"APPLIED", "RESTORED", "FAILED"} : SetState(bk[w], state)
      BY <1>6, <2>3 DEF MarkApplied, MarkRolledBack, MarkUndone, StateAfterRollback, Abort
    <3>2. bk[w] \in RowIds /\ state \in RowStates
      BY <1>0, <2>3, <3>1 DEF RowStates
    <3>3. /\ Len(rows') = Len(rows)
          /\ rows'[bk[w]] = [rows[bk[w]] EXCEPT !.state = state]
          /\ \A j \in RowIds : j # bk[w] => rows'[j] = rows[j]
      BY <1>0, <3>1, <3>2, MarkRow DEF SetState
    <3>4. rows[bk[w]] \in Row
      BY <1>0, <3>2
    <3>5. rows'[bk[w]].state # "APPLYING"
      BY <3>1, <3>3, <3>4 DEF Row
    <3>6. QED
      BY <1>0, <3>3, <3>5 DEF Accounted
  <2>4. QED
    BY <2>1, <2>2, <2>3
<1>7. QED
  BY <1>1, <1>2, <1>3, <1>4, <1>5, <1>6 DEF RunStep, UndoStep

LEMMA SurfacedStep ==
  ASSUME OneCopy, Inv, InterruptedSurfaced, [Next]_vars
  PROVE  InterruptedSurfaced'
<1>0. /\ \A w \in Workers : RowOK(w)
      /\ proc \in [Processes -> {"down", "reporting", "up"}]
      /\ listed \in [Processes -> SUBSET RowIds]
      /\ rows \in Seq(Row) /\ Len(rows) \in Nat /\ sfaults \in Nat
  BY LenProperties DEF Inv, RowsOwned, TypeInv, TypeOK, TableTypeOK, CountTypeOK
<1>1. CASE UNCHANGED vars
  BY <1>1 DEF vars, InterruptedSurfaced
<1>2. ASSUME NEW w \in Workers,
             \/ Plan(w) \/ Cancel(w) \/ Confirm(w) \/ RestoreOne(w) \/ RestoreAll(w)
             \/ RunStep(w) \/ UndoStep(w)
      PROVE  InterruptedSurfaced'
  <2>1. WorkerFrame(w) /\ Accounted(w)
    BY <1>2, WorkerFrames, WorkerAccounts
  <2>2. SUFFICES ASSUME sfaults' = 0, NEW p \in Processes, proc[p] # "down",
                        NEW i \in 1..Len(rows'), rows'[i].state = "APPLYING"
                 PROVE  i \in listed[p] \/ \E u \in Workers : bk'[u] = i
    BY <2>1 DEF InterruptedSurfaced, WorkerFrame
  <2>3. CASE bk'[w] = i
    BY <2>3
  <2>4. CASE i \in RowIds /\ rows[i].state = "APPLYING" /\ bk[w] # i
    <3>1. i \in listed[p] \/ \E u \in Workers : bk[u] = i
      BY <2>1, <2>2, <2>4 DEF InterruptedSurfaced, WorkerFrame
    <3>2. QED
      BY <2>1, <2>4, <3>1 DEF WorkerFrame
  <2>5. QED
    BY <2>1, <2>2, <2>3, <2>4 DEF Accounted
<1>3. ASSUME NEW p \in Processes, Start(p) \/ Acknowledge(p) \/ Close(p) \/ Crash(p)
      PROVE  InterruptedSurfaced'
  <2>0. \A q \in Processes : q = p
    BY DEF OneCopy
  <2>1. CASE Start(p)
    <3>1. sfaults' = 0 => listed'[p] = Interrupted
      BY <1>0, <2>1 DEF Start, StorageFault
    <3>2. QED
      BY <2>0, <2>1, <3>1 DEF Start, system, InterruptedSurfaced, Interrupted
  <2>2. CASE Acknowledge(p)
    <3>1. \A w \in Workers : bk[w] = 0
      BY <1>0, <2>0, <2>2, ConstantsAssumption DEF Acknowledge, RowOK, Owning, Undoing
    <3>2. SUFFICES ASSUME sfaults' = 0, NEW i \in 1..Len(rows'), rows'[i].state = "APPLYING"
                   PROVE  FALSE
      BY DEF InterruptedSurfaced
    <3>3. sfaults = 0 /\ rows' = [j \in RowIds |->
            IF j \in listed[p] /\ rows[j].state = "APPLYING"
            THEN [rows[j] EXCEPT !.state = "FAILED"] ELSE rows[j]]
      BY <1>0, <2>2, <3>2 DEF Acknowledge, StorageFault, NoFault
    <3>4. Len(rows') = Len(rows)
      BY <1>0, <3>3, AcknowledgeRows
    <3>5. i \in RowIds /\ rows[i] \in Row
      BY <1>0, <3>2, <3>4
    <3>6. rows[i].state = "APPLYING" /\ i \notin listed[p]
      BY <3>2, <3>3, <3>5 DEF Row
    <3>7. QED
      BY <1>0, <2>2, <3>1, <3>3, <3>5, <3>6 DEF InterruptedSurfaced, Acknowledge
  <2>3. CASE Close(p) \/ Crash(p)
    BY <1>0, <2>0, <2>3 DEF Close, Crash, InterruptedSurfaced
  <2>4. QED
    BY <1>3, <2>1, <2>2, <2>3
<1>4. ASSUME NEW t \in Targets, OtherWrites(t)
      PROVE  InterruptedSurfaced'
  BY <1>4 DEF OtherWrites, InterruptedSurfaced, worker
<1>5. QED
  BY <1>1, <1>2, <1>3, <1>4 DEF Next

\* With one copy of the program and a working database, a row in APPLYING is
\* being worked on or is in the startup dialog: no session runs on over a change
\* that an earlier one left half made.
THEOREM NothingUnnoticed == OneCopy => (Spec => []InterruptedSurfaced)
<1> SUFFICES ASSUME OneCopy PROVE Spec => []InterruptedSurfaced
  OBVIOUS
<1>1. Init => InterruptedSurfaced
  BY DEF Init, InterruptedSurfaced
<1>2. Inv /\ [Next]_vars => Inv'
  BY InvStep
<1>3. Inv /\ InterruptedSurfaced /\ [Next]_vars => InterruptedSurfaced'
  BY SurfacedStep
<1>4. QED
  BY InvInit, <1>1, <1>2, <1>3, PTL DEF Spec

-----------------------------------------------------------------------------
(* One worker.                                                              *)

USE DEF RowIds

\* One copy of the program, one worker, and nobody writing in the middle of a run.
Alone ==
  /\ OneCopy
  /\ \A u, w \in Workers : u = w
  /\ ~RacingWrites

\* Places where a worker has seen or written nothing it relies on.
Resting == {"idle", "preview", "next", "check", "undocheck"}

\* What a worker has seen or written is still so when it relies on it.
SightOK(w) ==
  /\ pc[w] \in {"backup", "apply"} => value[cur[w].target] = cur[w].seen
  /\ pc[w] = "mark" => value[cur[w].target] = cur[w].want
  /\ pc[w] \in {"restored", "undone"} => value[rows[bk[w]].target] = rows[bk[w]].old
  /\ pc[w] \in Owning => bk[w] \in {0, Len(rows)}
  /\ pc[w] \in Undoing => rows[bk[w]].state = "APPLIED"

Sight == \A w \in Workers : SightOK(w)

LEMMA Facts ==
  ASSUME Inv, NEW w \in Workers
  PROVE  /\ value \in [Targets -> Values] /\ origin \in [Targets -> Values]
         /\ foreign \in [Targets -> BOOLEAN]
         /\ rows \in Seq(Row) /\ Len(rows) \in Nat /\ \A i \in RowIds : rows[i] \in Row
         /\ pc \in [Workers -> Steps] /\ todo \in [Workers -> SUBSET Change]
         /\ cur \in [Workers -> Change \cup {NoChange}] /\ bk \in [Workers -> 0..Len(rows)]
         /\ report \in [Workers -> SUBSET Result] /\ pending \in [Workers -> SUBSET RowIds]
         /\ strict \in [Workers -> BOOLEAN]
         /\ pc[w] \in Executing => cur[w] \in Change
         /\ pc[w] \in WithRow => bk[w] \in RowIds
         /\ RowOK(w)
BY LenProperties DEF Inv, TypeInv, TypeOK, SystemTypeOK, TableTypeOK, WorkerTypeOK, WorkerOK,
                     RowsOwned

\* Only one worker can be meant.
LEMMA Only == ASSUME Alone, NEW w \in Workers PROVE \A u \in Workers : u = w
BY DEF Alone

LEMMA RestingSight ==
  ASSUME NEW w \in Workers, pc'[w] \in Resting
  PROVE  SightOK(w)'
BY DEF SightOK, Resting, Owning, Undoing

LEMMA LeavesRest ==
  ASSUME Inv, NEW w \in Workers, Leaves(w)
  PROVE  pc'[w] \in Resting /\ bk'[w] = 0
<1>1. pc \in [Workers -> Steps] /\ bk \in [Workers -> 0..Len(rows)]
  BY Facts
<1>2. QED
  BY <1>1 DEF Leaves, JobOver, Conclude, NextUndo, Resting

\* mark_backup leaves all of a row but its state.
LEMMA MarkedRow ==
  ASSUME Inv, NEW i \in RowIds, NEW state \in RowStates, SetState(i, state)
  PROVE  /\ Len(rows') = Len(rows)
         /\ rows'[i].state = state /\ rows'[i].target = rows[i].target
         /\ rows'[i].old = rows[i].old /\ rows'[i].new = rows[i].new
         /\ \A j \in RowIds \ {i} : rows'[j] = rows[j]
<1>1. rows \in Seq(Row) /\ rows[i] \in Row
  BY DEF Inv, TypeInv, TypeOK, TableTypeOK
<1>2. /\ Len(rows') = Len(rows)
      /\ rows'[i] = [rows[i] EXCEPT !.state = state]
      /\ \A j \in RowIds : j # i => rows'[j] = rows[j]
  BY <1>1, MarkRow DEF SetState
<1>3. QED
  BY <1>1, <1>2 DEF Row

-----------------------------------------------------------------------------
LEMMA SightInit == Init => Sight
BY DEF Init, Sight, SightOK, Owning, Undoing

LEMMA OperatorSight ==
  ASSUME Inv, NEW w \in Workers,
         Plan(w) \/ Cancel(w) \/ Confirm(w) \/ RestoreOne(w) \/ RestoreAll(w)
           \/ NextChange(w) \/ CloseRun(w) \/ MarkApplied(w) \/ MarkRolledBack(w)
           \/ MarkUndone(w)
  PROVE  pc'[w] \in Resting
<1>1. pc \in [Workers -> Steps]
  BY Facts
<1>2. CASE Plan(w) \/ RestoreOne(w) \/ RestoreAll(w) \/ NextChange(w) \/ Cancel(w)
  BY <1>1, <1>2 DEF Plan, RestoreOne, RestoreAll, NextChange, Cancel, JobOver, Resting
<1>3. CASE Confirm(w) \/ CloseRun(w)
  BY <1>1, <1>3 DEF Confirm, CloseRun, Abort, JobOver, Resting
<1>4. CASE MarkApplied(w) \/ MarkRolledBack(w) \/ MarkUndone(w)
  BY <1>1, <1>4 DEF MarkApplied, MarkRolledBack, MarkUndone, Abort, JobOver, Conclude,
                    NextUndo, Resting
<1>5. QED
  BY <1>2, <1>3, <1>4

LEMMA CheckSight == ASSUME Inv, NEW w \in Workers, CheckDrift(w) PROVE SightOK(w)'
<1>1. /\ pc \in [Workers -> Steps] /\ RowOK(w) /\ pc[w] = "check" /\ UNCHANGED <<value, rows>>
      /\ bk \in [Workers -> 0..Len(rows)]
  BY Facts DEF CheckDrift, system
<1>2. CASE Conclude(w, "NOT_NEEDED") \/ Conclude(w, "SKIPPED") \/ Abort(w)
  BY <1>2, LeavesRest, RestingSight DEF Leaves, Outcomes, Abort
<1>3. CASE ~Drifted(cur[w]) /\ Goto(w, AfterCheck(cur[w]))
  <2>1. pc'[w] \in {"backup", "apply"} /\ bk'[w] = 0 /\ cur'[w] = cur[w]
    BY <1>1, <1>3 DEF Goto, AfterCheck, RowOK, Owning, Undoing
  <2>2. value'[cur'[w].target] = cur'[w].seen
    BY <1>1, <1>3, <2>1 DEF Drifted
  <2>3. QED
    BY <2>1, <2>2 DEF SightOK, Owning, Undoing
<1>4. QED
  BY <1>2, <1>3 DEF CheckDrift

LEMMA BackupSight == ASSUME Inv, Sight, NEW w \in Workers, Backup(w) PROVE SightOK(w)'
<1>1. /\ pc \in [Workers -> Steps] /\ pc[w] = "backup" /\ UNCHANGED value /\ SightOK(w)
      /\ bk \in [Workers -> 0..Len(rows)] /\ rows \in Seq(Row)
  BY Facts DEF Backup, system, Sight
<1>2. CASE Conclude(w, "SKIPPED") \/ Abort(w)
  BY <1>2, LeavesRest, RestingSight DEF Leaves, Outcomes, Abort
<1>3. CASE /\ \E old \in {value[cur[w].target], cur[w].seen} :
                rows' = Append(rows, [target |-> cur[w].target, old |-> old,
                                      new |-> cur[w].want, state |-> "APPLYING"])
           /\ bk' = [bk EXCEPT ![w] = Len(rows) + 1] /\ pc' = [pc EXCEPT ![w] = "apply"]
           /\ cur' = cur
  <2>1. pc'[w] = "apply" /\ bk'[w] = Len(rows) + 1 /\ cur' = cur
    BY <1>1, <1>3
  <2>2. Len(rows') = Len(rows) + 1
    BY <1>1, <1>3
  <2>3. QED
    BY <1>1, <2>1, <2>2 DEF SightOK, Owning, Undoing
<1>4. QED
  BY <1>2, <1>3 DEF Backup

LEMMA FailSight ==
  ASSUME Inv, NEW w \in Workers, FailAndRollback(w), rows' = rows, SightOK(w), pc[w] \in Owning
  PROVE  SightOK(w)'
<1>1. pc \in [Workers -> Steps] /\ bk[w] \in 0..Len(rows)
  BY Facts
<1>2. CASE Conclude(w, "FAILED")
  BY <1>2, LeavesRest, RestingSight DEF Leaves, Outcomes
<1>3. CASE Goto(w, "rollback")
  BY <1>1, <1>3 DEF Goto, SightOK, Owning, Undoing
<1>4. QED
  BY <1>2, <1>3 DEF FailAndRollback

LEMMA ExecuteSight ==
  ASSUME Inv, Sight, NEW w \in Workers, Apply(w) \/ Verify(w) \/ Rollback(w)
  PROVE  SightOK(w)'
<1>1. /\ pc \in [Workers -> Steps] /\ SightOK(w) /\ rows' = rows /\ value \in [Targets -> Values]
      /\ bk[w] \in 0..Len(rows) /\ pc[w] \in Owning
  BY Facts DEF Sight, Apply, Verify, Rollback, Owning
<1>2. CASE FailAndRollback(w)
  BY <1>1, <1>2, FailSight
<1>3. CASE Goto(w, "verify")
  BY <1>1, <1>3 DEF Goto, SightOK, Owning, Undoing
<1>4. CASE Verify(w) /\ Held(cur[w]) /\ Goto(w, "mark")
  BY <1>1, <1>4 DEF Verify, Held, Goto, SightOK, Owning, Undoing, system
<1>5. CASE Rollback(w)
  <2>1. bk[w] \in RowIds /\ rows[bk[w]] \in Row
    BY <1>5, Facts DEF Rollback, WithRow
  <2>2. CASE PutBack(bk[w], TRUE) /\ Goto(w, "restored")
    <3>1. value'[rows[bk[w]].target] = rows[bk[w]].old
      BY <1>1, <2>1, <2>2 DEF PutBack, Row
    <3>2. pc'[w] = "restored" /\ bk' = bk
      BY <1>1, <2>2 DEF Goto
    <3>3. QED
      BY <1>1, <3>1, <3>2 DEF SightOK, Owning, Undoing
  <2>3. CASE Goto(w, "unrestored")
    BY <1>1, <2>3 DEF Goto, SightOK, Owning, Undoing
  <2>4. QED
    BY <1>5, <2>2, <2>3 DEF Rollback
<1>6. QED
  BY <1>2, <1>3, <1>4, <1>5 DEF Apply, Verify

LEMMA UndoSight ==
  ASSUME Inv, Sight, NEW w \in Workers, UndoCheck(w) \/ Undo(w)
  PROVE  SightOK(w)'
<1>1. /\ pc \in [Workers -> Steps] /\ SightOK(w) /\ rows' = rows /\ value \in [Targets -> Values]
      /\ bk \in [Workers -> 0..Len(rows)] /\ pending \in [Workers -> SUBSET RowIds]
  BY Facts DEF Sight, UndoCheck, Undo
<1>2. CASE \E i \in RowIds : NextUndo(w, i)
  BY <1>2, LeavesRest, RestingSight DEF Leaves
<1>3. CASE Abort(w)
  BY <1>3, LeavesRest, RestingSight DEF Leaves, Abort
<1>4. CASE \E i \in RowIds : /\ ~Refused(i, strict[w])
                             /\ bk' = [bk EXCEPT ![w] = i] /\ pc' = [pc EXCEPT ![w] = "undo"]
  BY <1>1, <1>4 DEF Refused, SightOK, Owning, Undoing
<1>5. CASE pc[w] = "undo" /\ PutBack(bk[w], TRUE) /\ Goto(w, "undone")
  <2>1. bk[w] \in RowIds /\ rows[bk[w]] \in Row
    BY <1>5, Facts DEF WithRow
  <2>2. value'[rows[bk[w]].target] = rows[bk[w]].old
    BY <1>1, <1>5, <2>1 DEF PutBack, Row
  <2>3. pc'[w] = "undone" /\ bk' = bk
    BY <1>1, <1>5 DEF Goto
  <2>4. QED
    BY <1>1, <1>5, <2>2, <2>3 DEF SightOK, Owning, Undoing
<1>6. CASE UndoCheck(w)
  BY <1>1, <1>2, <1>3, <1>4, <1>6 DEF UndoCheck
<1>7. CASE Undo(w)
  <2>1. bk[w] \in RowIds
    BY <1>7, Facts DEF Undo, WithRow
  <2>2. QED
    BY <1>2, <1>5, <1>7, <2>1 DEF Undo
<1>8. QED
  BY <1>6, <1>7

\* A process starts, reports, closes or crashes over workers that end up idle.
LEMMA ProcessRests ==
  ASSUME OneCopy, Inv, NEW p \in Processes, Start(p) \/ Acknowledge(p) \/ Close(p) \/ Crash(p)
  PROVE  \A w \in Workers : pc'[w] = "idle"
<1> SUFFICES ASSUME NEW w \in Workers PROVE pc'[w] = "idle"
  OBVIOUS
<1>1. RowOK(w)
  BY DEF Inv, RowsOwned
<1>2. ProcOf[w] = p
  BY ConstantsAssumption DEF OneCopy
<1>3. CASE proc[p] \in {"down", "reporting"} /\ pc' = pc
  BY <1>1, <1>2, <1>3 DEF RowOK
<1>4. CASE WorkersGone(p)
  BY <1>2, <1>4 DEF WorkersGone
<1>5. QED
  BY <1>3, <1>4 DEF Start, Acknowledge, Close, Crash, worker

\* Others write between runs only.
LEMMA OthersWait ==
  ASSUME Alone, NEW t \in Targets, OtherWrites(t)
  PROVE  \A w \in Workers : pc[w] \in {"idle", "preview"} /\ pc'[w] = pc[w]
BY DEF Alone, OtherWrites, worker

LEMMA SightStep == ASSUME Alone, Inv, Sight, [Next]_vars PROVE Sight'
<1>1. CASE UNCHANGED vars
  BY <1>1 DEF vars, Sight, SightOK
<1>2. ASSUME NEW w \in Workers,
             \/ Plan(w) \/ Cancel(w) \/ Confirm(w) \/ RestoreOne(w) \/ RestoreAll(w)
             \/ RunStep(w) \/ UndoStep(w)
      PROVE  Sight'
  <2>1. SightOK(w)'
    BY <1>2, OperatorSight, RestingSight, CheckSight, BackupSight, ExecuteSight, UndoSight
       DEF RunStep, UndoStep
  <2>2. QED
    BY <2>1, Only DEF Sight
<1>3. ASSUME NEW p \in Processes, Start(p) \/ Acknowledge(p) \/ Close(p) \/ Crash(p)
      PROVE  Sight'
  BY <1>3, ProcessRests, RestingSight DEF Alone, Sight, Resting
<1>4. ASSUME NEW t \in Targets, OtherWrites(t)
      PROVE  Sight'
  BY <1>4, OthersWait, RestingSight DEF Sight, Resting
<1>5. QED
  BY <1>1, <1>2, <1>3, <1>4 DEF Next

LEMMA SightInvariant == ASSUME Alone PROVE Spec => [](Inv /\ Sight)
<1>1. Inv /\ [Next]_vars => Inv'
  BY InvStep DEF Alone
<1>2. Inv /\ Sight /\ [Next]_vars => Sight'
  BY SightStep
<1>3. QED
  BY InvInit, SightInit, <1>1, <1>2, PTL DEF Spec

-----------------------------------------------------------------------------
\* With one worker and nobody writing in the middle of a run, tweak.apply only
\* replaces the value the operator was shown in the preview.
THEOREM PlanNeverStale == Alone => (Spec => NoStalePlan)
<1> SUFFICES ASSUME Alone PROVE Spec => NoStalePlan
  OBVIOUS
<1> DEFINE A == \A w \in Workers :
                  pc[w] = "apply" /\ value'[cur[w].target] # value[cur[w].target]
                    => value[cur[w].target] = cur[w].seen
<1>1. Inv /\ Sight /\ [Next]_vars => [A]_vars
  BY DEF Sight, SightOK
<1>2. Spec => [](Inv /\ Sight)
  BY SightInvariant
<1>3. QED
  BY <1>1, <1>2, PTL DEF Spec, NoStalePlan

\* A row that a worker's step makes APPLIED is the one it verified.
LEMMA VerifiedMark ==
  ASSUME Inv, Sight, NEW w \in Workers, MarkApplied(w), NEW i \in RowIds,
         rows[i].state = "APPLYING", rows'[i].state = "APPLIED"
  PROVE  value[rows[i].target] = rows[i].new
<1>1. RowOK(w) /\ SightOK(w) /\ pc[w] = "mark" /\ bk[w] \in 0..Len(rows)
  BY Facts DEF Sight, MarkApplied
<1>2. bk[w] # 0 /\ SetState(bk[w], "APPLIED")
  BY DEF MarkApplied
<1>3. i = bk[w]
  BY <1>1, <1>2, MarkedRow DEF RowStates
<1>4. QED
  BY <1>1, <1>2, <1>3 DEF RowOK, SightOK, Owning

\* Only the mark after a verification makes a row APPLIED.
LEMMA OnlyMarkApplies ==
  ASSUME OneCopy, Inv, [Next]_vars, NEW i \in RowIds,
         rows[i].state = "APPLYING", rows'[i].state = "APPLIED"
  PROVE  \E w \in Workers : MarkApplied(w)
<1>1. rows' # rows /\ rows \in Seq(Row) /\ rows[i] \in Row
  BY DEF Inv, TypeInv, TypeOK, TableTypeOK
<1>2. ASSUME NEW w \in Workers,
             \/ Plan(w) \/ Cancel(w) \/ Confirm(w) \/ RestoreOne(w) \/ RestoreAll(w)
             \/ RunStep(w) \/ UndoStep(w)
      PROVE  MarkApplied(w)
  <2>1. Backup(w) \/ MarkApplied(w) \/ MarkRolledBack(w) \/ MarkUndone(w)
    BY <1>1, <1>2, OperatorOwned, CheckOwned, ExecuteOwned, UndoOwned DEF RunStep, UndoStep
  <2>2. ~Backup(w)
    <3>1. SUFFICES ASSUME Backup(w) PROVE FALSE
      OBVIOUS
    <3>2. PICK row : rows' = Append(rows, row)
      BY <1>1, <3>1 DEF Backup
    <3>3. rows'[i] = rows[i]
      BY <1>1, <3>2
    <3>4. QED
      BY <3>3
  <2>3. CASE MarkRolledBack(w) \/ MarkUndone(w)
    <3>1. bk[w] \in RowIds
      BY <2>3, Facts DEF MarkRolledBack, MarkUndone, WithRow
    <3>2. PICK state \in {"RESTORED", "FAILED"} : SetState(bk[w], state)
      BY <1>1, <2>3 DEF MarkRolledBack, MarkUndone, StateAfterRollback
    <3>3. QED
      BY <3>1, <3>2, MarkedRow DEF RowStates
  <2>4. QED
    BY <2>1, <2>2, <2>3
<1>3. ASSUME NEW p \in Processes, Start(p) \/ Acknowledge(p) \/ Close(p) \/ Crash(p)
      PROVE  FALSE
  <2>1. Acknowledge(p)
    BY <1>1, <1>3 DEF Start, Close, Crash
  <2>2. QED
    BY <1>1, <2>1 DEF Acknowledge, Row
<1>4. QED
  BY <1>1, <1>2, <1>3 DEF Next, OtherWrites, vars

\* With one worker and nobody writing in the middle of a run, a row becomes
\* APPLIED only over a setting that holds the row's new value.
THEOREM SuccessAlwaysVerified == Alone => (Spec => NoUnverifiedSuccess)
<1> SUFFICES ASSUME Alone PROVE Spec => NoUnverifiedSuccess
  OBVIOUS
<1> DEFINE A == \A i \in RowIds :
                  rows[i].state = "APPLYING" /\ rows'[i].state = "APPLIED"
                    => value[rows[i].target] = rows[i].new
<1>1. Inv /\ Sight /\ [Next]_vars => [A]_vars
  BY OnlyMarkApplies, VerifiedMark DEF Alone
<1>2. Spec => [](Inv /\ Sight)
  BY SightInvariant
<1>3. QED
  BY <1>1, <1>2, PTL DEF Spec, NoUnverifiedSuccess

-----------------------------------------------------------------------------
(* Undos go from the top.                                                   *)

\* The rows an "undo everything" still has to undo are all in its list, and
\* nothing above the row being undone is in force.
OrderOK(w) ==
  /\ pc[w] \in UndoSteps /\ ~strict[w] => AppliedRows \subseteq pending[w]
  /\ pc[w] \in Undoing => ~NewerApplied(bk[w])

Order == \A w \in Workers : OrderOK(w)

LEMMA OutsideUndo ==
  ASSUME NEW w \in Workers, pc'[w] \notin UndoSteps
  PROVE  OrderOK(w)'
BY DEF OrderOK, UndoSteps, Undoing

LEMMA RunsLeaveOrder ==
  ASSUME Inv, NEW w \in Workers, Plan(w) \/ Cancel(w) \/ Confirm(w) \/ RunStep(w)
  PROVE  pc'[w] \notin UndoSteps
<1>1. pc \in [Workers -> Steps]
  BY Facts
<1>2. CASE Plan(w) \/ Cancel(w) \/ Confirm(w) \/ NextChange(w) \/ CloseRun(w)
  BY <1>1, <1>2 DEF Plan, Cancel, Confirm, NextChange, CloseRun, Abort, JobOver, UndoSteps
<1>3. CASE CheckDrift(w) \/ Backup(w)
  BY <1>1, <1>3 DEF CheckDrift, Backup, AfterCheck, Abort, JobOver, Conclude, Goto, UndoSteps
<1>4. CASE Apply(w) \/ Verify(w) \/ Rollback(w)
  BY <1>1, <1>4 DEF Apply, Verify, Rollback, FailAndRollback, Conclude, Goto, UndoSteps
<1>5. CASE MarkApplied(w) \/ MarkRolledBack(w)
  BY <1>1, <1>5 DEF MarkApplied, MarkRolledBack, Abort, JobOver, Conclude, UndoSteps
<1>6. QED
  BY <1>2, <1>3, <1>4, <1>5 DEF RunStep

\* The list of an undo, once it moves on from row i.
LEMMA NextUndoOrder ==
  ASSUME Inv, NEW w \in Workers, NEW i \in RowIds, OrderOK(w), pc[w] \in UndoSteps,
         NextUndo(w, i), AppliedRows' \subseteq AppliedRows,
         strict[w] \/ i \notin AppliedRows'
  PROVE  OrderOK(w)'
<1>1. /\ pc \in [Workers -> Steps] /\ pending \in [Workers -> SUBSET RowIds]
      /\ strict \in [Workers -> BOOLEAN]
  BY Facts
<1>2. pc'[w] \in {"idle", "undocheck"} /\ pending'[w] = pending[w] \ {i} /\ strict' = strict
  BY <1>1 DEF NextUndo
<1>3. QED
  BY <1>1, <1>2 DEF OrderOK, Undoing

LEMMA UndoOrder ==
  ASSUME Alone, ~UndoAllFails, Inv, Sight, Order, NEW w \in Workers, UndoStep(w)
  PROVE  OrderOK(w)'
<1>1. /\ pc \in [Workers -> Steps] /\ pending \in [Workers -> SUBSET RowIds]
      /\ strict \in [Workers -> BOOLEAN] /\ bk \in [Workers -> 0..Len(rows)]
      /\ Len(rows) \in Nat /\ OrderOK(w) /\ SightOK(w) /\ RowOK(w)
  BY Facts DEF Order, Sight
<1>2. CASE Abort(w)
  <2>1. pc'[w] \notin UndoSteps
    BY <1>1, <1>2 DEF Abort, JobOver, UndoSteps
  <2>2. QED
    BY <2>1, OutsideUndo
<1>3. CASE UndoCheck(w)
  <2>1. PICK i \in pending[w] :
          /\ NextInOrder(i, pending[w])
          /\ \/ Refused(i, strict[w]) /\ NextUndo(w, i)
             \/ ~Refused(i, strict[w]) /\ strict[w] /\ NextUndo(w, i)
             \/ /\ ~Refused(i, strict[w])
                /\ bk' = [bk EXCEPT ![w] = i] /\ pc' = [pc EXCEPT ![w] = "undo"]
                /\ UNCHANGED <<todo, cur, report, pending, strict, run>>
             \/ Abort(w)
    BY <1>3 DEF UndoCheck, UndoMayFail
  <2>2. i \in RowIds /\ rows' = rows /\ pc[w] = "undocheck"
    BY <1>1, <1>3 DEF UndoCheck
  <2>3. CASE NextUndo(w, i) /\ (strict[w] \/ rows[i].state # "APPLIED")
    BY <1>1, <2>2, <2>3, NextUndoOrder DEF AppliedRows, UndoSteps
  <2>4. CASE /\ ~Refused(i, strict[w])
             /\ bk' = [bk EXCEPT ![w] = i] /\ pc' = [pc EXCEPT ![w] = "undo"]
             /\ UNCHANGED <<todo, cur, report, pending, strict, run>>
    <3>1. pc'[w] = "undo" /\ bk'[w] = i
      BY <1>1, <2>4
    <3>2. ~NewerApplied(i)
      <4>1. CASE strict[w]
        BY <2>4, <4>1 DEF Refused
      <4>2. CASE ~strict[w]
        <5>1. SUFFICES ASSUME NEW j \in RowIds, j > i, rows[j].state = "APPLIED" PROVE FALSE
          BY DEF NewerApplied, Newer, RowsFor
        <5>2. j \in pending[w]
          BY <1>1, <2>2, <4>2, <5>1 DEF OrderOK, AppliedRows, UndoSteps
        <5>3. QED
          BY <2>1, <2>2, <5>1, <5>2 DEF NextInOrder
      <4>3. QED
        BY <4>1, <4>2
    <3>3. NewerApplied(i)' = NewerApplied(i) /\ AppliedRows' = AppliedRows
      BY <2>2 DEF NewerApplied, Newer, RowsFor, AppliedRows
    <3>4. QED
      BY <1>1, <2>2, <2>4, <3>1, <3>2, <3>3 DEF OrderOK, UndoSteps, NewerApplied, Newer, RowsFor
  <2>5. QED
    BY <1>2, <2>1, <2>3, <2>4 DEF Refused
<1>4. CASE Undo(w)
  <2>1. rows' = rows /\ pc[w] = "undo" /\ bk[w] \in RowIds /\ AppliedRows' = AppliedRows
    BY <1>4, Facts DEF Undo, WithRow, AppliedRows
  <2>2. CASE Goto(w, "undone")
    <3>1. pc'[w] = "undone" /\ bk' = bk /\ pending' = pending /\ strict' = strict
      BY <1>1, <2>2 DEF Goto
    <3>2. QED
      BY <1>1, <2>1, <3>1 DEF OrderOK, UndoSteps, Undoing, NewerApplied, Newer, RowsFor
  <2>3. CASE NextUndo(w, bk[w]) /\ strict[w]
    BY <1>1, <2>1, <2>3, NextUndoOrder DEF UndoSteps
  <2>4. QED
    BY <1>4, <2>2, <2>3 DEF Undo, UndoMayFail
<1>5. CASE MarkUndone(w)
  <2>1. bk[w] \in RowIds /\ pc[w] = "undone"
    BY <1>5, Facts DEF MarkUndone, WithRow
  <2>2. CASE SetState(bk[w], "RESTORED") /\ NextUndo(w, bk[w])
    <3>1. AppliedRows' \subseteq AppliedRows /\ bk[w] \notin AppliedRows'
      BY <2>1, <2>2, MarkedRow DEF AppliedRows, RowStates
    <3>2. QED
      BY <1>1, <2>1, <2>2, <3>1, NextUndoOrder DEF UndoSteps
  <2>3. QED
    BY <1>2, <1>5, <2>2 DEF MarkUndone
<1>6. QED
  BY <1>3, <1>4, <1>5 DEF UndoStep

LEMMA OrderStep ==
  ASSUME Alone, ~UndoAllFails, Inv, Sight, Order, [Next]_vars
  PROVE  Order'
<1>1. CASE UNCHANGED vars
  BY <1>1 DEF vars, Order, OrderOK, AppliedRows, NewerApplied, Newer, RowsFor
<1>2. ASSUME NEW w \in Workers, Plan(w) \/ Cancel(w) \/ Confirm(w) \/ RunStep(w)
      PROVE  Order'
  <2>1. OrderOK(w)'
    BY <1>2, RunsLeaveOrder, OutsideUndo
  <2>2. QED
    BY <2>1, Only DEF Order
<1>3. ASSUME NEW w \in Workers, RestoreOne(w) \/ RestoreAll(w)
      PROVE  Order'
  <2>1. /\ pc \in [Workers -> Steps] /\ pending \in [Workers -> SUBSET RowIds]
        /\ strict \in [Workers -> BOOLEAN]
    BY Facts
  <2>2. /\ pc'[w] = "undocheck" /\ AppliedRows' = AppliedRows
        /\ strict'[w] \/ pending'[w] = AppliedRows
    BY <1>3, <2>1 DEF RestoreOne, RestoreAll, AppliedRows
  <2>3. OrderOK(w)'
    BY <2>2 DEF OrderOK, Undoing
  <2>4. QED
    BY <2>3, Only DEF Order
<1>4. ASSUME NEW w \in Workers, UndoStep(w)
      PROVE  Order'
  <2>1. OrderOK(w)'
    BY <1>4, UndoOrder
  <2>2. QED
    BY <2>1, Only DEF Order
<1>5. ASSUME NEW p \in Processes, Start(p) \/ Acknowledge(p) \/ Close(p) \/ Crash(p)
      PROVE  Order'
  BY <1>5, ProcessRests, OutsideUndo DEF Alone, Order, UndoSteps
<1>6. ASSUME NEW t \in Targets, OtherWrites(t)
      PROVE  Order'
  BY <1>6, OthersWait, OutsideUndo DEF Order, UndoSteps
<1>7. QED
  BY <1>1, <1>2, <1>3, <1>4, <1>5, <1>6 DEF Next

LEMMA OrderInvariant ==
  ASSUME Alone, ~UndoAllFails
  PROVE  Spec => [](Inv /\ Sight /\ Order)
<1>1. Init => Order
  BY DEF Init, Order, OrderOK, UndoSteps, Undoing
<1>2. Inv /\ Sight /\ Order /\ [Next]_vars => Order'
  BY OrderStep
<1>3. Spec => [](Inv /\ Sight)
  BY SightInvariant
<1>4. QED
  BY <1>1, <1>2, <1>3, PTL DEF Spec

\* With one worker and an "undo everything" whose undos do not fail, no undo
\* writes while a newer change to the same target is in force.
THEOREM UndosFromTheTop == Alone /\ ~UndoAllFails => (Spec => []NoUndoBeneathNewer)
<1> SUFFICES ASSUME Alone, ~UndoAllFails PROVE Spec => []NoUndoBeneathNewer
  OBVIOUS
<1>1. Order => NoUndoBeneathNewer
  BY DEF Order, OrderOK, NoUndoBeneathNewer, Undoing, NewerApplied, Newer
<1>2. Spec => [](Inv /\ Sight /\ Order)
  BY OrderInvariant
<1>3. QED
  BY <1>1, <1>2, PTL

-----------------------------------------------------------------------------
(* The original value can be got back.                                      *)

\* Row i leads back to what t held before PGM.
LeadsBack(i, t) == rows[i].old = origin[t] /\ rows[i].state # "RESTORED"

\* A row in force, or one a worker is writing from.
Live(j) == rows[j].state = "APPLIED" \/ \E w \in Workers : pc[w] \in Owning /\ bk[w] = j

\* Undoing from row j downwards ends at the original value.
Supported(t, j) == \E i \in RowsFor(t) : i <= j /\ LeadsBack(i, t)

Recoverable(t) == value[t] = origin[t] \/ \E i \in RowsFor(t) : LeadsBack(i, t)
LiveSupported(t) == \A j \in RowsFor(t) : Live(j) => Supported(t, j)

OriginOK(t) == foreign[t] \/ (Recoverable(t) /\ LiveSupported(t))
OriginKept == \A t \in Reversible : OriginOK(t)

\* A step that adds no row, makes no row live or RESTORED, and writes t, if at
\* all, from a live row.
Gentle(t) ==
  /\ UNCHANGED <<origin, foreign>> /\ Len(rows') = Len(rows)
  /\ \A j \in RowIds :
       /\ rows'[j].target = rows[j].target /\ rows'[j].old = rows[j].old
       /\ rows'[j].state = "RESTORED" => rows[j].state = "RESTORED"
       /\ Live(j)' => Live(j)
  /\ value'[t] = value[t] \/ \E k \in RowsFor(t) : Live(k)

LEMMA GentleStep == ASSUME NEW t, OriginOK(t), Gentle(t) PROVE OriginOK(t)'
<1> SUFFICES ASSUME ~foreign[t] PROVE Recoverable(t)' /\ LiveSupported(t)'
  BY DEF OriginOK, Gentle
<1>1. RowsFor(t)' = RowsFor(t) /\ \A i \in RowsFor(t) : i \in RowIds
  BY DEF RowsFor, Gentle
<1>2. Recoverable(t) /\ LiveSupported(t)
  BY DEF OriginOK
<1>3. \A i \in RowsFor(t) : LeadsBack(i, t) => LeadsBack(i, t)'
  BY <1>1 DEF LeadsBack, Gentle
<1>4. Recoverable(t)'
  <2>1. CASE value'[t] = value[t]
    BY <1>1, <1>2, <1>3, <2>1 DEF Recoverable, Gentle
  <2>2. CASE \E k \in RowsFor(t) : Live(k)
    BY <1>1, <1>2, <1>3, <2>2 DEF Recoverable, LiveSupported, Supported
  <2>3. QED
    BY <2>1, <2>2 DEF Gentle
<1>5. LiveSupported(t)'
  <2>1. SUFFICES ASSUME NEW j \in RowsFor(t), Live(j)' PROVE Supported(t, j)'
    BY <1>1 DEF LiveSupported
  <2>2. Live(j)
    BY <1>1, <2>1 DEF Gentle
  <2>3. Supported(t, j)
    BY <1>2, <2>1, <2>2 DEF LiveSupported
  <2>4. QED
    BY <1>1, <1>3, <2>3 DEF Supported
<1>6. QED
  BY <1>4, <1>5

\* Where a worker stands after its step decides which rows are live.
LEMMA LiveAfter ==
  ASSUME Alone, Inv, NEW w \in Workers, NEW j \in RowIds,
         rows'[j].state = "APPLIED" => Live(j),
         pc'[w] \in Owning => bk'[w] = 0 \/ (pc[w] \in Owning /\ bk'[w] = bk[w])
  PROVE  Live(j)' => Live(j)
<1>1. j # 0 /\ \A u \in Workers : u = w
  BY Facts, Only
<1>2. QED
  BY <1>1 DEF Live

\* A worker's step that leaves the table alone.
LEMMA TableStays ==
  ASSUME Alone, Inv, OriginKept, NEW w \in Workers, rows' = rows, UNCHANGED <<origin, foreign>>,
         pc'[w] \in Owning => bk'[w] = 0 \/ (pc[w] \in Owning /\ bk'[w] = bk[w]),
         NEW t \in Reversible,
         value'[t] = value[t] \/ \E k \in RowsFor(t) : Live(k)
  PROVE  OriginOK(t)'
<1>1. \A j \in RowIds : Live(j)' => Live(j)
  BY LiveAfter DEF Live
<1>2. Gentle(t)
  BY <1>1 DEF Gentle
<1>3. QED
  BY <1>2, GentleStep DEF OriginKept

\* Steps that leave table and setting alone.
LEMMA QuietOrigin ==
  ASSUME Alone, Inv, OriginKept, NEW w \in Workers, NEW t \in Reversible,
         Plan(w) \/ Cancel(w) \/ Confirm(w) \/ RestoreOne(w) \/ RestoreAll(w)
           \/ NextChange(w) \/ CloseRun(w) \/ CheckDrift(w) \/ UndoCheck(w)
  PROVE  OriginOK(t)'
<1>1. rows' = rows /\ UNCHANGED system /\ RowOK(w) /\ pc \in [Workers -> Steps]
      /\ bk \in [Workers -> 0..Len(rows)]
  BY Facts DEF Plan, Cancel, Confirm, RestoreOne, RestoreAll, NextChange, CloseRun, CheckDrift,
               UndoCheck
<1>2. CASE Plan(w) \/ Cancel(w) \/ Confirm(w) \/ RestoreOne(w) \/ RestoreAll(w)
           \/ NextChange(w) \/ CloseRun(w)
  <2>1. pc'[w] \notin Owning
    BY <1>2, OperatorSight DEF Resting, Owning
  <2>2. QED
    BY <1>1, <2>1, TableStays DEF system
<1>3. CASE CheckDrift(w)
  <2>1. pc'[w] \in Owning => bk'[w] = 0
    BY <1>1, <1>3 DEF CheckDrift, Conclude, Goto, Abort, JobOver, RowOK, Owning, Undoing
  <2>2. QED
    BY <1>1, <2>1, TableStays DEF system
<1>4. CASE UndoCheck(w)
  <2>1. pc'[w] \notin Owning
    BY <1>1, <1>4 DEF UndoCheck, NextUndo, Abort, JobOver, Owning
  <2>2. QED
    BY <1>1, <2>1, TableStays DEF system
<1>5. QED
  BY <1>2, <1>3, <1>4

\* persist_backup: the new row holds what the setting holds (S1), so it leads
\* back to the original if the setting still has it; else an older row does.
LEMMA BackupOrigin ==
  ASSUME Alone, Inv, Sight, OriginKept, NEW w \in Workers, Backup(w), NEW t \in Reversible
  PROVE  OriginOK(t)'
<1>1. /\ UNCHANGED system /\ pc[w] = "backup" /\ RowOK(w) /\ SightOK(w)
      /\ pc \in [Workers -> Steps] /\ bk \in [Workers -> 0..Len(rows)]
      /\ rows \in Seq(Row) /\ Len(rows) \in Nat /\ \A u \in Workers : u = w
  BY Facts, Only DEF Backup, Sight
<1>2. CASE rows' = rows /\ (Conclude(w, "SKIPPED") \/ Abort(w))
  <2>1. pc'[w] \notin Owning
    BY <1>1, <1>2 DEF Conclude, Abort, JobOver, Owning
  <2>2. QED
    BY <1>1, <1>2, <2>1, TableStays DEF system
<1>3. CASE /\ \E old \in {value[cur[w].target], cur[w].seen} :
                rows' = Append(rows, [target |-> cur[w].target, old |-> old,
                                      new |-> cur[w].want, state |-> "APPLYING"])
           /\ bk' = [bk EXCEPT ![w] = Len(rows) + 1] /\ pc' = [pc EXCEPT ![w] = "apply"]
  <2> DEFINE n == Len(rows) + 1
  <2>1. rows' = Append(rows, [target |-> cur[w].target, old |-> value[cur[w].target],
                              new |-> cur[w].want, state |-> "APPLYING"])
    BY <1>1, <1>3 DEF SightOK
  <2>2. /\ Len(rows') = n /\ \A i \in RowIds : rows'[i] = rows[i]
        /\ rows'[n].target = cur[w].target /\ rows'[n].old = value[cur[w].target]
        /\ rows'[n].state = "APPLYING"
    BY <1>1, <2>1
  <2>3. bk'[w] = n /\ n \notin RowIds
    BY <1>1, <1>3
  <2>4. SUFFICES ASSUME ~foreign[t] PROVE Recoverable(t)' /\ LiveSupported(t)'
    BY <1>1 DEF OriginOK, system
  <2>5. Recoverable(t) /\ LiveSupported(t)
    BY <2>4 DEF OriginKept, OriginOK
  <2>6. \A i \in RowsFor(t) : i \in RowsFor(t)' /\ i <= n /\ (LeadsBack(i, t) => LeadsBack(i, t)')
    BY <1>1, <2>2 DEF RowsFor, LeadsBack, system
  <2>7. Recoverable(t)'
    BY <1>1, <2>5, <2>6 DEF Recoverable, system
  <2>8. ASSUME NEW j \in RowsFor(t)', Live(j)' PROVE Supported(t, j)'
    <3>1. CASE j \in RowIds
      <4>1. j \in RowsFor(t) /\ Live(j)
        BY <1>1, <2>2, <2>3, <2>8, <3>1 DEF RowsFor, Live
      <4>2. QED
        BY <2>5, <2>6, <4>1 DEF LiveSupported, Supported
    <3>2. CASE j = n
      <4>1. t = cur[w].target
        BY <2>2, <2>8, <3>2 DEF RowsFor
      <4>2. CASE value[t] = origin[t]
        BY <1>1, <2>2, <2>8, <3>2, <4>1, <4>2 DEF Supported, LeadsBack, system
      <4>3. CASE \E i \in RowsFor(t) : LeadsBack(i, t)
        BY <2>6, <3>2, <4>3 DEF Supported
      <4>4. QED
        BY <2>5, <4>2, <4>3 DEF Recoverable
    <3>3. QED
      BY <1>1, <2>2, <2>8, <3>1, <3>2 DEF RowsFor
  <2>9. QED
    BY <2>7, <2>8 DEF LiveSupported
<1>4. QED
  BY <1>2, <1>3 DEF Backup

\* tweak.apply, verify and the rollback in the run write from the worker's row.
LEMMA ExecuteOrigin ==
  ASSUME Alone, Inv, Sight, OriginKept, NEW w \in Workers, Apply(w) \/ Verify(w) \/ Rollback(w),
         NEW t \in Reversible
  PROVE  OriginOK(t)'
<1>1. /\ rows' = rows /\ UNCHANGED <<origin, foreign>> /\ pc[w] \in Owning
      /\ pc \in [Workers -> Steps] /\ bk \in [Workers -> 0..Len(rows)] /\ RowOK(w)
      /\ value \in [Targets -> Values] /\ cur[w] \in Change /\ Len(rows) \in Nat
  BY Facts DEF Apply, Verify, Rollback, Owning, system, Executing, RunSteps
<1>2. pc'[w] \in Owning => bk'[w] = bk[w]
  BY <1>1 DEF Apply, Verify, Rollback, FailAndRollback, Conclude, Goto, Owning
<1>3. value'[t] # value[t] => bk[w] \in RowsFor(t)
  <2>1. CASE Apply(w)
    <3>1. value' \in {value, [value EXCEPT ![cur[w].target] = cur[w].want]}
      BY <2>1 DEF Apply
    <3>2. value'[t] # value[t] => t = cur[w].target
      BY <1>1, <3>1 DEF Reversible
    <3>3. QED
      BY <1>1, <3>2 DEF RowOK, Reversible, RowsFor
  <2>2. CASE Verify(w)
    BY <2>2 DEF Verify, system
  <2>3. CASE Rollback(w)
    <3>1. bk[w] \in RowIds
      BY <2>3, Facts DEF Rollback, WithRow
    <3>2. value' \in {value, [value EXCEPT ![rows[bk[w]].target] = rows[bk[w]].old]}
      BY <2>3 DEF Rollback, PutBack
    <3>3. QED
      BY <1>1, <3>1, <3>2 DEF Reversible, RowsFor
  <2>4. QED
    BY <2>1, <2>2, <2>3
<1>4. Live(bk[w])
  BY <1>1 DEF Live
<1>5. QED
  BY <1>1, <1>2, <1>3, <1>4, TableStays

\* An undo writes from a row that is in force.
LEMMA UndoOrigin ==
  ASSUME Alone, Inv, Sight, OriginKept, NEW w \in Workers, Undo(w), NEW t \in Reversible
  PROVE  OriginOK(t)'
<1>1. /\ rows' = rows /\ UNCHANGED <<origin, foreign>> /\ pc[w] = "undo" /\ SightOK(w)
      /\ pc \in [Workers -> Steps] /\ bk[w] \in RowIds /\ value \in [Targets -> Values]
  BY Facts DEF Undo, WithRow, Sight
<1>2. pc'[w] \notin Owning
  BY <1>1 DEF Undo, Goto, NextUndo, Owning
<1>3. Live(bk[w])
  BY <1>1 DEF SightOK, Live, Undoing
<1>4. value' \in {value, [value EXCEPT ![rows[bk[w]].target] = rows[bk[w]].old]}
  BY DEF Undo, PutBack
<1>5. value'[t] # value[t] => bk[w] \in RowsFor(t)
  BY <1>1, <1>4 DEF Reversible, RowsFor
<1>6. QED
  BY <1>1, <1>2, <1>3, <1>5, TableStays

\* mark_backup RESTORED: the setting holds the row's old value, and whatever
\* else is in force lies below and is supported from below.
LEMMA RestoredMark ==
  ASSUME Alone, Inv, OriginKept, NEW w \in Workers, NEW b \in RowIds, b = bk[w],
         UNCHANGED system, SetState(b, "RESTORED"), pc'[w] \notin Owning, Live(b),
         value[rows[b].target] = rows[b].old, ~NewerApplied(b), NEW t \in Reversible
  PROVE  OriginOK(t)'
<1>1. /\ Len(rows') = Len(rows) /\ Len(rows) \in Nat /\ \A u \in Workers : u = w
      /\ rows'[b].state = "RESTORED" /\ rows'[b].target = rows[b].target
      /\ rows'[b].old = rows[b].old /\ \A j \in RowIds \ {b} : rows'[j] = rows[j]
  BY MarkedRow, Facts, Only DEF RowStates
<1>2. SUFFICES ASSUME ~foreign[t] PROVE Recoverable(t)' /\ LiveSupported(t)'
  BY DEF OriginOK, system
<1>3. Recoverable(t) /\ LiveSupported(t)
  BY <1>2 DEF OriginKept, OriginOK
<1>4. RowsFor(t)' = RowsFor(t) /\ \A i \in RowsFor(t) : i \in RowIds
  BY <1>1 DEF RowsFor
<1>5. \A i \in RowsFor(t) \ {b} : LeadsBack(i, t) => LeadsBack(i, t)'
  BY <1>1, <1>4 DEF LeadsBack, system
<1>6. Recoverable(t)'
  <2>1. CASE value[t] = origin[t]
    BY <2>1 DEF Recoverable, system
  <2>2. CASE \E i \in RowsFor(t) : LeadsBack(i, t)
    <3>1. PICK i \in RowsFor(t) : LeadsBack(i, t)
      BY <2>2
    <3>2. CASE i = b
      BY <3>1, <3>2 DEF LeadsBack, RowsFor, Recoverable, system
    <3>3. CASE i # b
      BY <1>4, <1>5, <3>1, <3>3 DEF Recoverable
    <3>4. QED
      BY <3>2, <3>3
  <2>3. QED
    BY <1>3, <2>1, <2>2 DEF Recoverable
<1>7. ASSUME NEW j \in RowsFor(t), Live(j)' PROVE Supported(t, j)'
  <2>1. rows'[j].state = "APPLIED" /\ j # b
    BY <1>1, <1>7 DEF Live
  <2>2. rows[j].state = "APPLIED"
    BY <1>1, <1>4, <2>1
  <2>3. PICK i \in RowsFor(t) : i <= j /\ LeadsBack(i, t)
    BY <1>3, <1>7, <2>2 DEF LiveSupported, Supported, Live
  <2>4. CASE i # b
    BY <1>4, <1>5, <2>3, <2>4 DEF Supported
  <2>5. CASE i = b
    <3>1. j > b
      BY <1>4, <2>1, <2>3, <2>5
    <3>2. j \in Newer(b)
      BY <1>7, <2>5, <2>3, <3>1 DEF Newer, RowsFor
    <3>3. QED
      BY <2>2, <3>2 DEF NewerApplied
  <2>6. QED
    BY <2>4, <2>5
<1>8. QED
  BY <1>4, <1>6, <1>7 DEF LiveSupported

\* Marks that restore nothing.
LEMMA OtherMark ==
  ASSUME Alone, Inv, OriginKept, NEW w \in Workers, UNCHANGED system, pc'[w] \notin Owning,
         NEW b \in RowIds, NEW state \in {"APPLIED", "FAILED"}, SetState(b, state), Live(b),
         NEW t \in Reversible
  PROVE  OriginOK(t)'
<1>1. /\ Len(rows') = Len(rows) /\ rows'[b].state = state /\ rows'[b].target = rows[b].target
      /\ rows'[b].old = rows[b].old /\ \A j \in RowIds \ {b} : rows'[j] = rows[j]
  BY MarkedRow DEF RowStates
<1>2. ASSUME NEW j \in RowIds PROVE Live(j)' => Live(j)
  BY <1>1, LiveAfter DEF Live
<1>3. Gentle(t)
  BY <1>1, <1>2 DEF Gentle, system
<1>4. QED
  BY <1>3, GentleStep DEF OriginKept

LEMMA MarkOrigin ==
  ASSUME Alone, Inv, Sight, Order, OriginKept, NEW w \in Workers,
         MarkApplied(w) \/ MarkRolledBack(w) \/ MarkUndone(w), NEW t \in Reversible
  PROVE  OriginOK(t)'
<1>1. /\ UNCHANGED system /\ pc'[w] \notin Owning /\ RowOK(w) /\ SightOK(w) /\ OrderOK(w)
      /\ bk[w] \in 0..Len(rows) /\ Len(rows) \in Nat /\ pc[w] \in Owning \cup Undoing
      /\ pc[w] \in Owning => Live(bk[w])
  BY Facts, OperatorSight DEF MarkApplied, MarkRolledBack, MarkUndone, Resting, Owning, Undoing,
                              Sight, Order, Live
<1>2. CASE rows' = rows
  BY <1>1, <1>2, TableStays DEF system
<1>3. CASE MarkApplied(w) /\ rows' # rows
  <2>1. bk[w] \in RowIds /\ SetState(bk[w], "APPLIED") /\ pc[w] = "mark"
    BY <1>1, <1>3 DEF MarkApplied
  <2>2. QED
    BY <1>1, <2>1, OtherMark DEF Owning
<1>4. CASE MarkRolledBack(w) /\ pc[w] = "unrestored" /\ rows' # rows
  <2>1. bk[w] \in RowIds /\ SetState(bk[w], "FAILED")
    BY <1>4, Facts DEF MarkRolledBack, StateAfterRollback, WithRow
  <2>2. QED
    BY <1>1, <1>4, <2>1, OtherMark DEF Owning
<1>5. CASE MarkRolledBack(w) /\ pc[w] = "restored" /\ rows' # rows
  <2>1. bk[w] \in RowIds /\ SetState(bk[w], "RESTORED")
    BY <1>5, Facts DEF MarkRolledBack, StateAfterRollback, WithRow
  <2>2. bk[w] = Len(rows) /\ value[rows[bk[w]].target] = rows[bk[w]].old
    BY <1>1, <1>5, <2>1 DEF SightOK, Owning
  <2>3. ~NewerApplied(bk[w])
    BY <1>1, <2>2 DEF NewerApplied, Newer, RowsFor
  <2>4. QED
    BY <1>1, <1>5, <2>1, <2>2, <2>3, RestoredMark DEF Owning
<1>6. CASE MarkUndone(w) /\ rows' # rows
  <2>1. bk[w] \in RowIds /\ SetState(bk[w], "RESTORED") /\ pc[w] = "undone"
    BY <1>6, Facts DEF MarkUndone, WithRow
  <2>2. /\ value[rows[bk[w]].target] = rows[bk[w]].old /\ Live(bk[w])
        /\ ~NewerApplied(bk[w])
    BY <1>1, <2>1 DEF SightOK, OrderOK, Undoing, Live
  <2>3. QED
    BY <1>1, <2>1, <2>2, RestoredMark
<1>7. QED
  BY <1>2, <1>3, <1>4, <1>5, <1>6 DEF MarkRolledBack

\* Processes come and go over workers that end up idle.
LEMMA ProcessOrigin ==
  ASSUME Alone, Inv, OriginKept, NEW p \in Processes,
         Start(p) \/ Acknowledge(p) \/ Close(p) \/ Crash(p), NEW t \in Reversible
  PROVE  OriginOK(t)'
<1>1. /\ UNCHANGED system /\ \A w \in Workers : pc'[w] \notin Owning
      /\ rows \in Seq(Row) /\ \A j \in RowIds : rows[j] \in Row
  <2>1. UNCHANGED system
    BY DEF Start, Acknowledge, Close, Crash
  <2>2. \A w \in Workers : pc'[w] \notin Owning
    BY ProcessRests DEF Alone, Owning
  <2>3. rows \in Seq(Row) /\ \A j \in RowIds : rows[j] \in Row
    BY DEF Inv, TypeInv, TypeOK, TableTypeOK
  <2>4. QED
    BY <2>1, <2>2, <2>3
<1>2. Gentle(t)
  <2>1. CASE rows' = rows
    BY <1>1, <2>1 DEF Gentle, Live, system
  <2>2. CASE Acknowledge(p)
    <3>1. PICK done :
            rows' = [i \in RowIds |->
              IF i \in done /\ rows[i].state = "APPLYING"
              THEN [rows[i] EXCEPT !.state = "FAILED"] ELSE rows[i]]
      BY <2>2 DEF Acknowledge
    <3>2. Len(rows') = Len(rows)
      BY <1>1, <3>1, AcknowledgeRows
    <3>3. ASSUME NEW j \in RowIds
          PROVE  /\ rows'[j].target = rows[j].target /\ rows'[j].old = rows[j].old
                 /\ rows'[j].state = rows[j].state \/ rows'[j].state = "FAILED"
      BY <1>1, <3>1 DEF Row
    <3>4. QED
      BY <1>1, <3>2, <3>3 DEF Gentle, Live, system
  <2>3. QED
    BY <2>1, <2>2 DEF Start, Close, Crash
<1>3. QED
  BY <1>2, GentleStep DEF OriginKept

\* Before PGM's first row of a setting, others decide what its original is;
\* afterwards the setting counts as theirs.
LEMMA OtherOrigin ==
  ASSUME Alone, Inv, OriginKept, NEW s \in Targets, OtherWrites(s), NEW t \in Reversible
  PROVE  OriginOK(t)'
<1>1. /\ rows' = rows /\ UNCHANGED worker /\ value \in [Targets -> Values]
      /\ origin \in [Targets -> Values] /\ foreign \in [Targets -> BOOLEAN]
      /\ RowsFor(t)' = RowsFor(t)
  BY DEF OtherWrites, Inv, TypeInv, TypeOK, SystemTypeOK, RowsFor
<1>2. CASE t # s
  <2>1. value'[t] = value[t] /\ origin'[t] = origin[t] /\ foreign'[t] = foreign[t]
    BY <1>1, <1>2 DEF OtherWrites, Reversible
  <2>2. QED
    BY <1>1, <2>1 DEF OriginKept, OriginOK, Recoverable, LiveSupported, Supported, LeadsBack,
                      Live, worker
<1>3. CASE t = s /\ RowsFor(t) = {}
  <2>1. value'[t] = origin'[t]
    BY <1>1, <1>3 DEF OtherWrites
  <2>2. QED
    BY <1>1, <1>3, <2>1 DEF OriginOK, Recoverable, LiveSupported
<1>4. CASE t = s /\ RowsFor(t) # {}
  BY <1>1, <1>4 DEF OtherWrites, OriginOK
<1>5. QED
  BY <1>2, <1>3, <1>4

LEMMA OriginStep ==
  ASSUME Alone, Inv, Sight, Order, OriginKept, [Next]_vars
  PROVE  OriginKept'
<1> SUFFICES ASSUME NEW t \in Reversible PROVE OriginOK(t)'
  BY DEF OriginKept
<1>1. CASE UNCHANGED vars
  BY <1>1 DEF vars, OriginKept, OriginOK, Recoverable, LiveSupported, Supported, LeadsBack,
              Live, RowsFor
<1>2. ASSUME NEW w \in Workers,
             \/ Plan(w) \/ Cancel(w) \/ Confirm(w) \/ RestoreOne(w) \/ RestoreAll(w)
             \/ RunStep(w) \/ UndoStep(w)
      PROVE  OriginOK(t)'
  BY <1>2, QuietOrigin, BackupOrigin, ExecuteOrigin, UndoOrigin, MarkOrigin DEF RunStep, UndoStep
<1>3. ASSUME NEW p \in Processes, Start(p) \/ Acknowledge(p) \/ Close(p) \/ Crash(p)
      PROVE  OriginOK(t)'
  BY <1>3, ProcessOrigin
<1>4. ASSUME NEW s \in Targets, OtherWrites(s)
      PROVE  OriginOK(t)'
  BY <1>4, OtherOrigin
<1>5. QED
  BY <1>1, <1>2, <1>3, <1>4 DEF Next

\* With one worker and an "undo everything" whose undos do not fail, a setting
\* that nobody else has written since PGM's first change either has its original
\* value or has a row, not marked RESTORED, that leads back to it - whatever
\* failed, crashed or was undone on the way.
THEOREM OriginalNeverLost == Alone /\ ~UndoAllFails => (Spec => []OriginalRecoverable)
<1> SUFFICES ASSUME Alone, ~UndoAllFails PROVE Spec => []OriginalRecoverable
  OBVIOUS
<1>1. Init => OriginKept
  BY DEF Init, OriginKept, OriginOK, Recoverable, LiveSupported, RowsFor
<1>2. Inv /\ Sight /\ Order /\ OriginKept /\ [Next]_vars => OriginKept'
  BY OriginStep
<1>3. OriginKept => OriginalRecoverable
  BY DEF OriginKept, OriginOK, Recoverable, LeadsBack, OriginalRecoverable
<1>4. Spec => [](Inv /\ Sight /\ Order)
  BY OrderInvariant
<1>5. QED
  BY <1>1, <1>2, <1>3, <1>4, PTL DEF Spec

-----------------------------------------------------------------------------
(* The report tells the truth.                                              *)

\* What ReportHonest asks of one result.
Honest(r) ==
  IF r.row = 0 THEN r.outcome \in {"SKIPPED", "NOT_NEEDED"} \/ r.target \in Irreversible
  ELSE /\ rows[r.row].target = r.target
       /\ r.outcome = "SUCCESS" =>
            rows[r.row].state = "APPLIED" /\ value[r.target] = rows[r.row].new
       /\ r.outcome = "ROLLED_BACK" =>
            rows[r.row].state = "RESTORED" /\ value[r.target] = rows[r.row].old
       /\ r.outcome = "FAILED" => rows[r.row].state = "FAILED"

\* A run deals with a target once: what is reported, under way and still to do
\* are of different targets, so no later step can make a result untrue.
RunOK(w) ==
  /\ pc[w] \notin RunSteps => report[w] = {}
  /\ pc[w] \in RunSteps \cup {"preview"} =>
       \A c, d \in todo[w] : c.target = d.target => c = d
  /\ pc[w] \in RunSteps =>
       \A r \in report[w] : /\ r.row \in 0..Len(rows) /\ Honest(r)
                            /\ \A c \in todo[w] : c.target # r.target
  /\ pc[w] \in Executing =>
       /\ \A c \in todo[w] : c.target # cur[w].target
       /\ \A r \in report[w] : r.target # cur[w].target

Reports == \A w \in Workers : RunOK(w)

\* What a step of a change under way leaves alone: other rows, other settings.
MindsItsOwn(w) ==
  /\ Len(rows') \in Nat /\ Len(rows') >= Len(rows)
  /\ \A i \in RowIds : i # bk[w] => rows'[i] = rows[i]
  /\ \A t \in Targets : t # cur[w].target => value'[t] = value[t]

\* Steps that begin and end outside a run.
LEMMA NoRun ==
  ASSUME NEW w \in Workers, pc'[w] \notin RunSteps \cup {"preview"}, report'[w] = {}
  PROVE  RunOK(w)'
BY DEF RunOK, Executing

LEMMA StillHonest ==
  ASSUME Inv, NEW w \in Workers, RunOK(w), pc[w] \in Executing, MindsItsOwn(w),
         bk[w] # 0 => rows[bk[w]].target = cur[w].target,
         NEW r \in report[w]
  PROVE  /\ r.row \in 0..Len(rows') /\ Honest(r)'
         /\ \A c \in todo[w] : c.target # r.target
<1>1. /\ r \in Result /\ r.row \in 0..Len(rows) /\ Honest(r) /\ r.target # cur[w].target
      /\ \A c \in todo[w] : c.target # r.target
      /\ Len(rows) \in Nat /\ rows \in Seq(Row)
  BY Facts DEF RunOK, Executing
<1>2. r.target \in Targets
  BY <1>1 DEF Result
<1>3. Len(rows') >= Len(rows) /\ value'[r.target] = value[r.target]
  BY <1>1, <1>2 DEF MindsItsOwn
<1>4. CASE r.row = 0
  <2>1. Honest(r)'
    BY <1>1, <1>4 DEF Honest
  <2>2. r.row \in 0..Len(rows')
    BY <1>1, <1>3, <1>4 DEF MindsItsOwn
  <2>3. QED
    BY <1>1, <2>1, <2>2
<1>5. CASE r.row # 0
  <2>1. r.row \in RowIds /\ rows[r.row].target = r.target
    BY <1>1, <1>5 DEF Honest
  <2>2. r.row # bk[w]
    BY <1>1, <1>5, <2>1
  <2>3. rows'[r.row] = rows[r.row]
    BY <2>1, <2>2 DEF MindsItsOwn
  <2>4. Honest(r)'
    BY <1>1, <1>3, <1>5, <2>3 DEF Honest
  <2>5. QED
    BY <1>1, <2>4 DEF MindsItsOwn
<1>6. QED
  BY <1>4, <1>5

\* The result Conclude adds.
Concluded(w, outcome) == [target |-> cur[w].target, outcome |-> outcome, row |-> bk[w]]

\* A change goes on: it keeps its place in the run.
LEMMA GoesOn ==
  ASSUME Inv, NEW w \in Workers, RunOK(w), pc[w] \in Executing, MindsItsOwn(w),
         bk[w] # 0 => rows[bk[w]].target = cur[w].target,
         pc'[w] \in Executing, UNCHANGED <<todo, cur, report>>
  PROVE  RunOK(w)'
<1>1. \A r \in report[w] : /\ r.row \in 0..Len(rows') /\ Honest(r)'
                           /\ \A c \in todo[w] : c.target # r.target
  BY StillHonest
<1>2. QED
  BY <1>1 DEF RunOK, Executing

\* A change is done with, and its result is true.
LEMMA Concludes ==
  ASSUME Inv, NEW w \in Workers, RunOK(w), pc[w] \in Executing, MindsItsOwn(w),
         bk[w] # 0 => rows[bk[w]].target = cur[w].target,
         NEW outcome, Conclude(w, outcome), NEW new, new = Concluded(w, outcome), Honest(new)'
  PROVE  RunOK(w)'
<1>1. /\ pc \in [Workers -> Steps] /\ report \in [Workers -> SUBSET Result]
      /\ bk[w] \in 0..Len(rows) /\ Len(rows) \in Nat
  BY Facts
<1>2. pc'[w] = "next" /\ report'[w] = report[w] \cup {new} /\ todo' = todo
  BY <1>1 DEF Conclude, Concluded
<1>3. \A r \in report[w] : /\ r.row \in 0..Len(rows') /\ Honest(r)'
                           /\ \A c \in todo[w] : c.target # r.target
  BY StillHonest
<1>4. new.row \in 0..Len(rows') /\ \A c \in todo[w] : c.target # new.target
  BY <1>1 DEF RunOK, MindsItsOwn, Concluded
<1>5. \A c, d \in todo[w] : c.target = d.target => c = d
  BY DEF RunOK, Executing
<1>6. \A r \in report'[w] : /\ r.row \in 0..Len(rows') /\ Honest(r)'
                            /\ \A c \in todo'[w] : c.target # r.target
  <2>1. SUFFICES ASSUME NEW r \in report'[w]
                 PROVE  /\ r.row \in 0..Len(rows') /\ Honest(r)'
                        /\ \A c \in todo'[w] : c.target # r.target
    OBVIOUS
  <2>2. CASE r \in report[w]
    BY <1>2, <1>3, <2>2
  <2>3. CASE r = new
    BY <1>2, <1>4, <2>3
  <2>4. QED
    BY <1>2, <2>1, <2>2, <2>3
<1>7. QED
  BY <1>2, <1>5, <1>6 DEF RunOK, Executing, RunSteps

LEMMA EndsRun ==
  ASSUME Inv, NEW w \in Workers, JobOver(w)
  PROVE  RunOK(w)'
<1>1. pc'[w] = "idle" /\ report'[w] = {}
  BY Facts DEF JobOver
<1>2. QED
  BY <1>1, NoRun DEF RunSteps

\* Steps around the changes of a run.
LEMMA OutsideReports ==
  ASSUME Inv, NEW w \in Workers, RunOK(w),
         Plan(w) \/ Cancel(w) \/ Confirm(w) \/ RestoreOne(w) \/ RestoreAll(w)
           \/ NextChange(w) \/ CloseRun(w) \/ UndoStep(w)
  PROVE  RunOK(w)'
<1>1. /\ pc \in [Workers -> Steps] /\ report \in [Workers -> SUBSET Result]
      /\ todo \in [Workers -> SUBSET Change] /\ cur \in [Workers -> Change \cup {NoChange}]
      /\ RowOK(w)
  BY Facts
<1>2. CASE JobOver(w)
  BY <1>2, EndsRun
<1>3. CASE Plan(w)
  <2>1. /\ pc'[w] = "preview" /\ report'[w] = {}
        /\ \A c, d \in todo'[w] : c.target = d.target => c = d
    <3>1. pc'[w] = "preview" /\ report'[w] = {}
      BY <1>1, <1>3 DEF Plan, RunOK, RunSteps
    <3>2. PICK chosen \in (SUBSET Targets) \ {{}} : \E want \in [chosen -> Values] :
            /\ \A t \in chosen : want[t] # value[t]
            /\ todo' = [todo EXCEPT ![w] =
                 {[target |-> t, seen |-> value[t], want |-> want[t]] : t \in chosen}]
      BY <1>3, Zenon DEF Plan
    <3>3. PICK want : todo' = [todo EXCEPT ![w] =
                 {[target |-> t, seen |-> value[t], want |-> want[t]] : t \in chosen}]
      BY <3>2, Zenon
    <3>4. todo'[w] = {[target |-> t, seen |-> value[t], want |-> want[t]] : t \in chosen}
      BY <1>1, <3>3
    <3>5. QED
      BY <3>1, <3>4
  <2>2. QED
    BY <2>1 DEF RunOK, RunSteps, Executing
<1>4. CASE Confirm(w) /\ ~JobOver(w)
  <2>1. pc[w] = "preview" /\ pc'[w] = "next" /\ report'[w] = {} /\ todo' = todo
    BY <1>1, <1>4 DEF Confirm, Abort, RunOK, RunSteps
  <2>2. QED
    BY <2>1 DEF RunOK, RunSteps, Executing
<1>5. CASE RestoreOne(w) \/ RestoreAll(w)
  <2>1. pc'[w] = "undocheck" /\ report'[w] = {}
    BY <1>1, <1>5 DEF RestoreOne, RestoreAll, RunOK, RunSteps
  <2>2. QED
    BY <2>1, NoRun DEF RunSteps
<1>6. CASE NextChange(w)
  <2>1. PICK c \in todo[w] : cur' = [cur EXCEPT ![w] = c] /\ todo' = [todo EXCEPT ![w] = @ \ {c}]
    BY <1>6 DEF NextChange
  <2>2. /\ pc[w] = "next" /\ pc'[w] = "check" /\ report' = report /\ cur'[w] = c
        /\ todo'[w] = todo[w] \ {c} /\ rows' = rows /\ value' = value
    BY <1>1, <1>6, <2>1 DEF NextChange, system
  <2>3. \A r \in report[w] : Honest(r)' = Honest(r)
    BY <2>2 DEF Honest
  <2>4. QED
    BY <2>1, <2>2, <2>3 DEF RunOK, RunSteps, Executing
<1>7. CASE UndoStep(w) /\ ~JobOver(w)
  <2>1. pc[w] \in UndoSteps /\ report[w] = {}
    BY <1>7 DEF UndoStep, UndoCheck, Undo, MarkUndone, UndoSteps, RunOK, RunSteps
  <2>2. pc'[w] \in UndoSteps \cup {"idle"} /\ report' = report
    BY <1>1, <1>7 DEF UndoStep, UndoCheck, Undo, MarkUndone, NextUndo, Abort, Goto, UndoSteps
  <2>3. QED
    BY <2>1, <2>2, NoRun DEF UndoSteps, RunSteps
<1>8. QED
  BY <1>2, <1>3, <1>4, <1>5, <1>6, <1>7 DEF Cancel, CloseRun, Abort

\* Steps of a change under way that leave the table alone.
LEMMA ChangeReports ==
  ASSUME Inv, NEW w \in Workers, RunOK(w),
         CheckDrift(w) \/ Apply(w) \/ Verify(w) \/ Rollback(w)
  PROVE  RunOK(w)'
<1>1. /\ pc \in [Workers -> Steps] /\ cur[w] \in Change /\ RowOK(w) /\ bk[w] \in 0..Len(rows)
      /\ pc[w] \in Executing /\ rows' = rows /\ Len(rows) \in Nat
      /\ value \in [Targets -> Values]
  BY Facts DEF CheckDrift, Apply, Verify, Rollback, Executing, RunSteps
<1>2. bk[w] # 0 => rows[bk[w]].target = cur[w].target
  BY <1>1 DEF RowOK, CheckDrift, Apply, Verify, Rollback, Owning, Undoing
<1>3. MindsItsOwn(w)
  <2>1. CASE CheckDrift(w) \/ Verify(w)
    BY <1>1, <2>1 DEF CheckDrift, Verify, MindsItsOwn, system
  <2>2. CASE Apply(w)
    <3>1. value' \in {value, [value EXCEPT ![cur[w].target] = cur[w].want]}
      BY <2>2 DEF Apply
    <3>2. QED
      BY <1>1, <3>1 DEF MindsItsOwn
  <2>3. CASE Rollback(w)
    <3>1. value' \in {value, [value EXCEPT ![rows[bk[w]].target] = rows[bk[w]].old]}
      BY <2>3 DEF Rollback, PutBack
    <3>2. bk[w] # 0
      BY <1>1, <2>3, Facts DEF Rollback, WithRow
    <3>3. QED
      BY <1>1, <1>2, <3>1, <3>2 DEF MindsItsOwn
  <2>4. QED
    BY <2>1, <2>2, <2>3
<1>4. CASE CheckDrift(w) /\ (Conclude(w, "NOT_NEEDED") \/ Conclude(w, "SKIPPED"))
  <2>1. pc[w] = "check"
    BY <1>4 DEF CheckDrift
  <2>2. bk[w] = 0
    BY <1>1, <2>1 DEF RowOK, Owning, Undoing
  <2>3. ASSUME NEW outcome \in {"NOT_NEEDED", "SKIPPED"}, NEW new, new = Concluded(w, outcome)
        PROVE  Honest(new)'
    BY <2>2, <2>3 DEF Honest, Concluded
  <2>4. QED
    BY <1>1, <1>2, <1>3, <1>4, <2>3, Concludes
<1>5. CASE FailAndRollback(w) /\ bk[w] = 0 /\ pc[w] \in Owning
  <2>1. cur[w].target \in Irreversible /\ Conclude(w, "FAILED")
    BY <1>1, <1>5 DEF RowOK, FailAndRollback
  <2>2. ASSUME NEW new, new = Concluded(w, "FAILED") PROVE Honest(new)'
    BY <1>5, <2>1, <2>2 DEF Honest, Concluded
  <2>3. QED
    BY <1>1, <1>2, <1>3, <2>1, <2>2, Concludes
<1>6. CASE \E step \in Executing : Goto(w, step)
  <2>1. pc'[w] \in Executing /\ UNCHANGED <<todo, cur, report>>
    BY <1>1, <1>6 DEF Goto
  <2>2. QED
    BY <1>1, <1>2, <1>3, <2>1, GoesOn
<1>7. CASE Abort(w)
  BY <1>7, EndsRun DEF Abort
<1>8. QED
  BY <1>4, <1>5, <1>6, <1>7 DEF CheckDrift, Apply, Verify, Rollback, FailAndRollback, AfterCheck,
                                Executing, RunSteps, Owning

\* persist_backup adds a row at the end; a change without one is SKIPPED.
LEMMA BackupReports ==
  ASSUME Inv, NEW w \in Workers, RunOK(w), Backup(w)
  PROVE  RunOK(w)'
<1>1. /\ pc \in [Workers -> Steps] /\ RowOK(w) /\ pc[w] = "backup" /\ value' = value
      /\ pc[w] \in Executing /\ rows \in Seq(Row) /\ Len(rows) \in Nat /\ bk[w] = 0
  BY Facts DEF Backup, system, Executing, RunSteps, RowOK, Owning, Undoing
<1>2. CASE rows' = rows /\ Conclude(w, "SKIPPED")
  <2>1. MindsItsOwn(w)
    BY <1>1, <1>2 DEF MindsItsOwn
  <2>2. ASSUME NEW new, new = Concluded(w, "SKIPPED") PROVE Honest(new)'
    BY <1>1, <2>2 DEF Honest, Concluded
  <2>3. QED
    BY <1>1, <1>2, <2>1, <2>2, Concludes
<1>3. CASE Abort(w)
  BY <1>3, EndsRun DEF Abort
<1>4. CASE /\ \E row : rows' = Append(rows, row)
           /\ pc' = [pc EXCEPT ![w] = "apply"] /\ UNCHANGED <<todo, cur, report>>
  <2>1. MindsItsOwn(w)
    BY <1>1, <1>4 DEF MindsItsOwn
  <2>2. pc'[w] \in Executing
    BY <1>1, <1>4 DEF Executing, RunSteps
  <2>3. QED
    BY <1>1, <1>4, <2>1, <2>2, GoesOn
<1>5. QED
  BY <1>2, <1>3, <1>4 DEF Backup

\* mark_backup on the change's own row says what the result says.
LEMMA MarkReports ==
  ASSUME Inv, Sight, NEW w \in Workers, RunOK(w), MarkApplied(w) \/ MarkRolledBack(w)
  PROVE  RunOK(w)'
<1>1. /\ RowOK(w) /\ SightOK(w) /\ value' = value /\ pc[w] \in {"mark", "restored", "unrestored"}
      /\ bk[w] \in 0..Len(rows) /\ Len(rows) \in Nat /\ cur[w] \in Change
      /\ pc[w] \in Executing /\ pc[w] \in Owning
  BY Facts DEF MarkApplied, MarkRolledBack, system, Sight, Executing, RunSteps, Owning
<1>2. bk[w] # 0 => rows[bk[w]].target = cur[w].target /\ rows[bk[w]].new = cur[w].want
  BY <1>1 DEF RowOK
<1>3. CASE Abort(w)
  BY <1>3, EndsRun DEF Abort
<1>4. CASE MarkApplied(w) /\ bk[w] = 0 /\ rows' = rows /\ Conclude(w, "SUCCESS")
  <2>1. MindsItsOwn(w)
    BY <1>1, <1>4 DEF MindsItsOwn
  <2>2. cur[w].target \in Irreversible
    BY <1>1, <1>4 DEF RowOK
  <2>3. ASSUME NEW new, new = Concluded(w, "SUCCESS") PROVE Honest(new)'
    BY <1>4, <2>2, <2>3 DEF Honest, Concluded
  <2>4. QED
    BY <1>1, <1>2, <1>4, <2>1, <2>3, Concludes
<1>5. ASSUME NEW state \in RowStates, NEW outcome, bk[w] \in RowIds, SetState(bk[w], state),
             Conclude(w, outcome),
             \/ /\ pc[w] = "mark" /\ state = "APPLIED" /\ outcome = "SUCCESS"
             \/ /\ pc[w] = "restored" /\ state = "RESTORED" /\ outcome = "ROLLED_BACK"
             \/ /\ pc[w] = "unrestored" /\ state = "FAILED" /\ outcome = "FAILED"
      PROVE  RunOK(w)'
  <2>1. /\ Len(rows') = Len(rows) /\ rows'[bk[w]].state = state
        /\ rows'[bk[w]].target = rows[bk[w]].target /\ rows'[bk[w]].old = rows[bk[w]].old
        /\ rows'[bk[w]].new = rows[bk[w]].new
        /\ \A j \in RowIds \ {bk[w]} : rows'[j] = rows[j]
    BY <1>5, MarkedRow
  <2>2. MindsItsOwn(w) /\ bk[w] # 0
    BY <1>1, <1>5, <2>1 DEF MindsItsOwn
  <2>3. /\ outcome = "SUCCESS" => value[cur[w].target] = rows[bk[w]].new
        /\ outcome = "ROLLED_BACK" => value[cur[w].target] = rows[bk[w]].old
    BY <1>1, <1>2, <1>5, <2>2 DEF SightOK
  <2>4. ASSUME NEW new, new = Concluded(w, outcome) PROVE Honest(new)'
    <3>1. /\ rows'[bk[w]].target = cur[w].target
          /\ outcome = "SUCCESS" => rows'[bk[w]].state = "APPLIED"
                                    /\ value'[cur[w].target] = rows'[bk[w]].new
          /\ outcome = "ROLLED_BACK" => rows'[bk[w]].state = "RESTORED"
                                        /\ value'[cur[w].target] = rows'[bk[w]].old
          /\ outcome = "FAILED" => rows'[bk[w]].state = "FAILED"
      BY <1>1, <1>2, <1>5, <2>1, <2>2, <2>3
    <3>2. QED
      BY <2>2, <2>4, <3>1 DEF Honest, Concluded
  <2>5. QED
    BY <1>1, <1>2, <1>5, <2>2, <2>4, Concludes
<1>6. bk[w] # 0 => bk[w] \in RowIds
  BY <1>1
<1>7. CASE MarkApplied(w)
  BY <1>3, <1>4, <1>5, <1>6, <1>7 DEF MarkApplied, RowStates
<1>8. CASE MarkRolledBack(w)
  <2>1. bk[w] \in RowIds
    BY <1>8, Facts DEF MarkRolledBack, WithRow
  <2>2. QED
    BY <1>3, <1>5, <1>8, <2>1 DEF MarkRolledBack, StateAfterRollback, RowStates
<1>9. QED
  BY <1>7, <1>8

LEMMA ReportsStep == ASSUME Alone, Inv, Sight, Reports, [Next]_vars PROVE Reports'
<1>1. CASE UNCHANGED vars
  BY <1>1 DEF vars, Reports, RunOK, Honest
<1>2. ASSUME NEW w \in Workers,
             \/ Plan(w) \/ Cancel(w) \/ Confirm(w) \/ RestoreOne(w) \/ RestoreAll(w)
             \/ RunStep(w) \/ UndoStep(w)
      PROVE  Reports'
  <2>1. RunOK(w)'
    BY <1>2, OutsideReports, ChangeReports, BackupReports, MarkReports DEF Reports, RunStep
  <2>2. QED
    BY <2>1, Only DEF Reports
<1>3. ASSUME NEW p \in Processes, Start(p) \/ Acknowledge(p) \/ Close(p) \/ Crash(p)
      PROVE  Reports'
  <2> SUFFICES ASSUME NEW w \in Workers PROVE RunOK(w)'
    BY DEF Reports
  <2>1. pc'[w] = "idle"
    BY <1>3, ProcessRests DEF Alone
  <2>2. report'[w] = {}
    <3>1. CASE UNCHANGED worker
      BY <2>1, <3>1 DEF worker, Reports, RunOK, RunSteps
    <3>2. CASE WorkersGone(p)
      <4>1. ProcOf[w] = p
        BY ConstantsAssumption DEF Alone, OneCopy
      <4>2. QED
        BY <3>2, <4>1 DEF WorkersGone
    <3>3. QED
      BY <1>3, <3>1, <3>2 DEF Start, Acknowledge, Close, Crash
  <2>3. QED
    BY <2>1, <2>2, NoRun DEF RunSteps
<1>4. ASSUME NEW t \in Targets, OtherWrites(t)
      PROVE  Reports'
  <2> SUFFICES ASSUME NEW w \in Workers PROVE RunOK(w)'
    BY DEF Reports
  <2>1. pc[w] \in {"idle", "preview"} /\ UNCHANGED worker
    BY <1>4, OthersWait DEF OtherWrites
  <2>2. QED
    BY <2>1 DEF worker, Reports, RunOK, RunSteps, Executing
<1>5. QED
  BY <1>1, <1>2, <1>3, <1>4 DEF Next

\* With one worker and nobody writing in the middle of a run, every result in a
\* running report agrees with its backup row and with the machine, to the end of
\* the run.
THEOREM ReportAlwaysHonest == Alone => (Spec => []ReportHonest)
<1> SUFFICES ASSUME Alone PROVE Spec => []ReportHonest
  OBVIOUS
<1>1. Init => Reports
  BY DEF Init, Reports, RunOK, RunSteps, Executing
<1>2. Inv /\ Sight /\ Reports /\ [Next]_vars => Reports'
  BY ReportsStep
<1>3. Reports => ReportHonest
  BY DEF Reports, RunOK, Honest, ReportHonest
<1>4. Spec => [](Inv /\ Sight)
  BY SightInvariant
<1>5. QED
  BY <1>1, <1>2, <1>3, <1>4, PTL DEF Spec
===============================================================================
