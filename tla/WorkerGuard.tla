------------------------------ MODULE WorkerGuard ------------------------------
(***************************************************************************)
(* Jobs on worker threads, and the closing of the main window:             *)
(*   app/controllers/background.py   BackgroundRunner                       *)
(*   app/controllers/*_controller.py the flags that say "a write is going on" *)
(*   app/gui/dashboard.py            closeEvent                             *)
(*                                                                         *)
(* A runner has at most one thread.  A job ends on its thread by queueing  *)
(* its completion for the window's thread; everything else here happens on *)
(* the window's thread, one event at a time.  While the window closes,     *)
(* that thread waits for the workers and handles no event.                 *)
(***************************************************************************)
EXTENDS Integers, Sequences, SequencesExt

CONSTANTS
  PlainOrder,    \* the controllers shut down between the scan and the system's
  Writers,       \* those of them with a flag: optimize, steam, cleanup, tools
  MonitorFails,  \* may a load recording fail?
  ScanOverruns,  \* may a scan take more than the five seconds a close waits?
  MaxJobs

Plain == ToSet(PlainOrder)
Special == {"scan", "system", "monitor"}
Runners == Plain \cup Special
Flagged == Writers \cup {"system"}

ASSUME RunnersAssumption ==
  /\ PlainOrder \in Seq(STRING) /\ IsInjective(PlainOrder)
  /\ Plain \cap (Special \cup {"stop"}) = {}
  /\ Writers \subseteq Plain
  /\ MonitorFails \in BOOLEAN /\ ScanOverruns \in BOOLEAN /\ MaxJobs \in Nat \ {0}

VARIABLES
  phase,   \* [Runners -> none, running, returned (the thread's loop is idle)]
  job,     \* [Runners -> none, other, write]: what its thread was started for,
           \* write being one that closing must wait for
  serial,  \* [Runners -> Nat]: which of its jobs that is
  inbox,   \* completions queued for the window's thread
  flag,    \* [Flagged -> BOOLEAN]: _applying, _wiping, _cleaning, _modifying
  stop,    \* _stop_monitor
  window,  \* open, closing, closed, aborted
  left     \* what closeEvent still has to shut down

vars == <<phase, job, serial, inbox, flag, stop, window, left>>
closing == <<window, left>>

Completion == [runner : Runners, serial : Nat, ok : BOOLEAN]

\* Dashboard.__init__ starts the first scan.
Init ==
  /\ phase = [r \in Runners |-> IF r = "scan" THEN "running" ELSE "none"]
  /\ job = [r \in Runners |-> IF r = "scan" THEN "other" ELSE "none"]
  /\ serial = [r \in Runners |-> IF r = "scan" THEN 1 ELSE 0]
  /\ inbox = << >>
  /\ flag = [c \in Flagged |-> FALSE]
  /\ stop = FALSE
  /\ window = "open" /\ left = << >>

-----------------------------------------------------------------------------
(* Mistakes the decisions below could contain, to see that they would be    *)
(* noticed.                                                                 *)

BusyWhileRunning(r) == phase[r] = "running"
FlagForgotten(c) == FALSE
FlagKept(c) == TRUE
FlagIgnored(c) == FALSE
JoinedBeforeStop == <<"monitor", "stop", "system">>

-----------------------------------------------------------------------------
(* Decisions.                                                               *)

\* BackgroundRunner.busy: the thread runs until it is joined, also after its
\* job has returned.
Busy(r) == phase[r] # "none"

\* start_apply, start_wipe, start_clean, start_folder_run: once it runs.
FlagWhenStarted(c) == TRUE

\* _on_failed of a controller: whatever job it was that failed.
FlagAfterFailure(c) == FALSE

\* applying, wiping, cleaning, modifying; SystemController.applying asks the
\* runner as well.
Blocks(c) == flag[c] /\ (c = "system" => Busy(c))

\* SystemController.shutdown: tell the recording to stop, then join both.
SystemShutdown == <<"stop", "monitor", "system">>

\* The controller whose handler a runner's failure reaches.
OwnerOf(r) == IF r = "monitor" THEN "system" ELSE r

-----------------------------------------------------------------------------
(* Starting jobs, from the window's buttons and dialogs.                    *)

\* BackgroundRunner.start when the runner is free; ScanController._begin.
Begin(r, kind) ==
  /\ serial[r] < MaxJobs
  /\ phase' = [phase EXCEPT ![r] = "running"]
  /\ job' = [job EXCEPT ![r] = kind]
  /\ serial' = [serial EXCEPT ![r] = @ + 1]

\* A preview, a plan, a survey, a list, a scan; and the two small writes that no
\* flag is for: a startup switch, a saved profile.
StartOther(r) ==
  /\ window = "open" /\ r # "monitor" /\ ~Busy(r)
  /\ Begin(r, "other")
  /\ UNCHANGED <<inbox, flag, stop, closing>>

StartWrite(c) ==
  /\ window = "open" /\ c \in Writers /\ ~Busy(c)
  /\ Begin(c, "write")
  /\ flag' = [flag EXCEPT ![c] = FlagWhenStarted(c)]
  /\ UNCHANGED <<inbox, stop, closing>>

\* apply_settings, restore, restore_all: the flag first, then perhaps no job.
SystemWrite ==
  /\ window = "open"
  /\ flag' = [flag EXCEPT !["system"] = FlagWhenStarted("system")]
  /\ \/ ~Busy("system") /\ Begin("system", "write")
     \/ Busy("system") /\ UNCHANGED <<phase, job, serial>>
  /\ UNCHANGED <<inbox, stop, closing>>

\* The recording's button starts it, and stops it at the next sample.
StartMonitor ==
  /\ window = "open" /\ ~Busy("monitor")
  /\ stop' = FALSE /\ Begin("monitor", "other")
  /\ UNCHANGED <<inbox, flag, closing>>
StopMonitor ==
  /\ window = "open" /\ Busy("monitor") /\ ~stop
  /\ stop' = TRUE
  /\ UNCHANGED <<phase, job, serial, inbox, flag, closing>>

-----------------------------------------------------------------------------
(* The end of a job.                                                        *)

\* _Job.run: the work returned, or an exception left it.
JobReturns(r) ==
  /\ phase[r] = "running" /\ window # "aborted"
  /\ phase' = [phase EXCEPT ![r] = "returned"]
  /\ \E ok \in BOOLEAN :
       /\ r = "monitor" /\ ~MonitorFails => ok
       /\ inbox' = Append(inbox, [runner |-> r, serial |-> serial[r], ok |-> ok])
  /\ UNCHANGED <<job, serial, flag, stop, closing>>

\* The flag a completion leaves: each handler of a write's result clears it, the
\* handlers of another's result leave it alone, and any failure clears it.
FlagsAfter(e) ==
  LET c == OwnerOf(e.runner) IN
  IF c \notin Flagged THEN flag
  ELSE IF ~e.ok THEN [flag EXCEPT ![c] = FlagAfterFailure(c)]
  ELSE IF job[e.runner] = "write" THEN [flag EXCEPT ![c] = FALSE]
  ELSE flag

\* _finished and _failed: join the thread, then call the controller; nothing of
\* the kind for a runner that was shut down meanwhile.
Deliver ==
  /\ window \in {"open", "closed"} /\ inbox # << >>
  /\ inbox' = Tail(inbox)
  /\ LET e == Head(inbox)
         r == e.runner  IN
       \/ phase[r] = "none" /\ UNCHANGED <<phase, job, flag>>
       \/ /\ phase[r] = "returned"
          /\ phase' = [phase EXCEPT ![r] = "none"]
          /\ job' = [job EXCEPT ![r] = "none"]
          /\ flag' = FlagsAfter(e)
  /\ UNCHANGED <<serial, stop, closing>>

-----------------------------------------------------------------------------
(* Closing the window.                                                      *)

\* closeEvent: refused while a controller says it writes.
CloseEvent ==
  /\ window = "open"
  /\ \A c \in Flagged : ~Blocks(c)
  /\ window' = "closing"
  /\ left' = <<"scan">> \o PlainOrder \o SystemShutdown
  /\ UNCHANGED <<phase, job, serial, inbox, flag, stop>>

TellMonitor ==
  /\ window = "closing" /\ left # << >> /\ Head(left) = "stop"
  /\ stop' = TRUE /\ left' = Tail(left)
  /\ UNCHANGED <<phase, job, serial, inbox, flag, window>>

\* _teardown: quit and wait, for as long as the job takes.
Join ==
  /\ window = "closing" /\ left # << >> /\ Head(left) \in Runners
  /\ LET r == Head(left) IN
       /\ phase[r] # "running"
       /\ phase' = [phase EXCEPT ![r] = "none"]
       /\ job' = [job EXCEPT ![r] = "none"]
  /\ left' = Tail(left)
  /\ UNCHANGED <<serial, inbox, flag, stop, window>>

\* ScanController._teardown waits five seconds and drops the thread, running or
\* not; Qt ends the process when a running thread's object is destroyed.
DropScan ==
  /\ window = "closing" /\ left # << >> /\ Head(left) = "scan"
  /\ ScanOverruns /\ phase["scan"] = "running"
  /\ window' = "aborted"
  /\ UNCHANGED <<phase, job, serial, inbox, flag, stop, left>>

Closed ==
  /\ window = "closing" /\ left = << >>
  /\ window' = "closed"
  /\ UNCHANGED <<phase, job, serial, inbox, flag, stop, left>>

-----------------------------------------------------------------------------
Next ==
  \/ \E r \in Runners : StartOther(r) \/ JobReturns(r)
  \/ \E c \in Writers : StartWrite(c)
  \/ SystemWrite \/ StartMonitor \/ StopMonitor
  \/ Deliver
  \/ CloseEvent \/ TellMonitor \/ Join \/ DropScan \/ Closed

Spec == Init /\ [][Next]_vars

\* Jobs have their own timeouts, so a running one returns; a recording, which
\* may go on for ten minutes, is only relied on to return once it is told to
\* stop.  The window's thread goes on with a close it has begun.
FairSpec ==
  /\ Spec
  /\ \A r \in Runners \ {"monitor"} : WF_vars(JobReturns(r))
  /\ WF_vars(stop /\ JobReturns("monitor"))
  /\ WF_vars(TellMonitor \/ Join \/ DropScan \/ Closed)

-----------------------------------------------------------------------------
(* Properties.                                                              *)

\* Every variable holds a value of its kind, and no runner ever has two
\* completions waiting.
TypeOK ==
  /\ phase \in [Runners -> {"none", "running", "returned"}]
  /\ job \in [Runners -> {"none", "other", "write"}]
  /\ serial \in [Runners -> 0..MaxJobs]
  /\ inbox \in Seq(Completion)
  /\ flag \in [Flagged -> BOOLEAN] /\ stop \in BOOLEAN
  /\ window \in {"open", "closing", "closed", "aborted"}
  /\ left \in Seq(Runners \cup {"stop"})
  /\ \A i, j \in DOMAIN inbox : inbox[i].runner = inbox[j].runner => i = j

Writing(r) == phase[r] = "running" /\ job[r] = "write"

\* The process never ends, orderly or not, in the middle of a write.
NoWriteCutOff == window \in {"closed", "aborted"} => \A r \in Runners : ~Writing(r)

\* "True while a change is being written: closing must wait."  The close guard
\* refuses the close; it is not left to the joins after it.
CloseWaits ==
  [][window = "open" /\ window' = "closing" => \A r \in Runners : ~Writing(r)]_vars

\* The window can always be closed again: what refuses it is a job that has not
\* been answered yet, never a flag left over from an earlier one.
NeverUnclosable ==
  window = "open" => \A c \in Flagged : Blocks(c) => phase[c] # "none"

\* A completion is handled for the job it comes from, never for a later one.
CompletionIsOwn ==
  \A i \in DOMAIN inbox :
    LET e == inbox[i] IN phase[e.runner] # "none" =>
      e.serial = serial[e.runner] /\ phase[e.runner] = "returned"

\* A close that was accepted ends, whatever was running.
CloseEnds == window = "closing" ~> window \in {"closed", "aborted"}
===============================================================================
