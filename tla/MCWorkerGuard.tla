----------------------------- MODULE MCWorkerGuard -----------------------------
(* A few of the main window's controllers, for WorkerGuard.                  *)
EXTENDS WorkerGuard

\* One with a write guarded by a flag.
OneWriter == <<"optimize">>
\* Two with flags.
TwoWriters == <<"steam", "tools">>
================================================================================
