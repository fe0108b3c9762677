------------------------------- MODULE TweakStudy -------------------------------
(***************************************************************************)
(* What the engine keeps of one change: the plan of its first scan, and the *)
(* row its backup left in the database.  Others write while the program is  *)
(* not in the middle of the change.                                         *)
(***************************************************************************)
EXTENDS TweakSteps, Disturbance

CONSTANT NoRow

VARIABLES plan, row

Other == Calm /\ OtherStep
===============================================================================
