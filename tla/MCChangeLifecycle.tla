------------------------- MODULE MCChangeLifecycle -------------------------
(* Instances of ChangeLifecycle for TLC: who the workers and processes are. *)
EXTENDS ChangeLifecycle, TLC

CONSTANTS p1, optimizer, system_worker

\* Every worker in one copy of the program, as it is meant to be run.
OneProcess == [w \in Workers |-> p1]

ValueSymmetry == Permutations(Values)
=============================================================================
