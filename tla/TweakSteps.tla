------------------------------- MODULE TweakSteps -------------------------------
(***************************************************************************)
(* The order in which the engine, and later the history, call a tweak: scan *)
(* for the preview, the drift check, backup, apply, verify, and a rollback  *)
(* when a step says no; or, once the change is kept, an undo that may be    *)
(* tried again.  ChangeLifecycle has the same order with the database and   *)
(* the crashes, and takes the tweak as one opaque setting; the modules that *)
(* extend this one look inside the tweaks.                                  *)
(***************************************************************************)
EXTENDS Naturals

VARIABLES
  at,    \* the step the engine has reached with this change
  said   \* what the tweak last answered

steps == <<at, said>>
Reached == {"idle", "planned", "backed", "written", "rollback", "kept"}
Answers == {"nothing", "verified", "denied", "restored", "stuck"}

StepsInit == at = "idle" /\ said = "nothing"

\* plan: the scan says a change is needed and validate allows it.
PlanStep == at = "idle" /\ at' = "planned" /\ said' = "nothing"

\* Drift, a read that fails, a backup that raises: the change is skipped.
StandDown == at = "planned" /\ at' = "idle" /\ said' = "nothing"

\* The row is committed before anything is written.
BackupStep == at = "planned" /\ at' = "backed" /\ UNCHANGED said

\* A failed apply, or one that raises, is put back like one that verify denies.
ApplyStep(ok) ==
  at = "backed" /\ at' = (IF ok THEN "written" ELSE "rollback") /\ said' = "nothing"

VerifyStep(ok) ==
  /\ at = "written"
  /\ at' = (IF ok THEN "kept" ELSE "rollback")
  /\ said' = (IF ok THEN "verified" ELSE "denied")

\* The engine rolls back once; an undo that fails leaves the change applied.
RollbackStep(ok) ==
  /\ at \in {"rollback", "kept"}
  /\ at' = (IF ok \/ at = "rollback" THEN "idle" ELSE "kept")
  /\ said' = (IF ok THEN "restored" ELSE "stuck")

\* Others write while the program is not in the middle of a change.
Calm == at \in {"idle", "planned", "written", "kept"}
===============================================================================
