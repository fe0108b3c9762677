----------------------------- MODULE TweakContract -----------------------------
(***************************************************************************)
(* What the engine relies on in a tweak, whatever it changes: the promise   *)
(* of tweak.py's lifecycle methods.  The machine is a set of cells.  Some   *)
(* of them may be missing (an unplugged device).  The row says what each    *)
(* cell it covers held before.                                              *)
(***************************************************************************)
EXTENDS TweakSteps

CONSTANT NoRow

VARIABLES
  machine,   \* what each cell holds now
  there,     \* the cells that exist now
  row,       \* the backup: what the covered cells held, or NoRow
  wanted     \* the cells that are as this change wants them

Covered == IF row = NoRow THEN {} ELSE DOMAIN row

\* Only what the row covers may be written: the rest belongs to others.
WritesWithinRow ==
  /\ DOMAIN machine' = DOMAIN machine
  /\ \A c \in DOMAIN machine \ Covered : machine'[c] = machine[c]

Init == StepsInit /\ row = NoRow

Plan == PlanStep /\ row' = NoRow /\ UNCHANGED <<machine, there>>
Skip == StandDown /\ UNCHANGED <<machine, there, row>>
Backup == BackupStep /\ row' # NoRow /\ UNCHANGED <<machine, there>>
Apply == (\E ok \in BOOLEAN : ApplyStep(ok)) /\ WritesWithinRow /\ UNCHANGED <<there, row>>

\* "Re-read the system and confirm the change took effect."
Verify ==
  /\ \/ VerifyStep(TRUE) /\ Covered \cap there \subseteq wanted
     \/ VerifyStep(FALSE)
  /\ UNCHANGED <<machine, there, row>>

\* "Restore the state captured in backup", or say that it was not possible.
Rollback ==
  /\ WritesWithinRow
  /\ \/ RollbackStep(TRUE) /\ \A c \in Covered : c \in there /\ machine'[c] = row[c]
     \/ RollbackStep(FALSE)
  /\ UNCHANGED <<there, row>>

\* The player, Windows and other programs.
Others == Calm /\ UNCHANGED <<at, said, row>>

Next == Plan \/ Skip \/ Backup \/ Apply \/ Verify \/ Rollback \/ Others

Spec == Init /\ [][Next]_<<machine, there, row, steps>>
===============================================================================
