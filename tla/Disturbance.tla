------------------------------ MODULE Disturbance ------------------------------
(***************************************************************************)
(* What a tweak does not decide: how often others write what it reads, and  *)
(* how many of its calls fail.  Both are counted, and bounded.              *)
(***************************************************************************)
EXTENDS Naturals

CONSTANTS
  MaxOthers,  \* bound: steps of other programs and of the player
  MaxFaults   \* bound: calls that fail

VARIABLES others, faults

Undisturbed == others = 0 /\ faults = 0

OtherStep == others < MaxOthers /\ others' = others + 1
NoFault == UNCHANGED faults
Fault == faults < MaxFaults /\ faults' = faults + 1
===============================================================================
