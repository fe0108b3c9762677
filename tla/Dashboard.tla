------------------------------- MODULE Dashboard -------------------------------
(***************************************************************************)
(* The main window: which of its buttons are on, which dialogs are open     *)
(* over it, which job each of its controllers runs, and whether what it     *)
(* displays is still what the machine is like.                              *)
(*                                                                         *)
(* Handlers run on the window's thread.  A dialog is shown by an event loop *)
(* of its own, so completions are handled while it is open and may open     *)
(* another over it; the operator reaches only the topmost one.              *)
(***************************************************************************)
EXTENDS Sequences, SequencesExt

CONSTANTS
  Uses,         \* the sets of controllers an operator may use besides the scan
  ChangesFail   \* may a job that changes the machine end in a failure?

Runners == {"scan", "optimize", "cleanup", "steam", "tools", "system", "profile"}

RunnerOf(kind) ==
  CASE kind = "scan" -> "scan"
    [] kind \in {"plan", "optimize"} -> "optimize"
    [] kind \in {"cleanup_plan", "clean"} -> "cleanup"
    [] kind \in {"steam_plan", "wipe"} -> "steam"
    [] kind \in {"survey", "folder_plan", "folder_run", "startup_list", "toggle"} -> "tools"
    [] kind \in {"audit", "settings", "settings_plan", "apply", "history", "restore"} -> "system"
    [] OTHER -> "profile"   \* save, compare

\* The jobs that change what a scan measures.
Changes == {"optimize", "clean", "wipe", "folder_run", "apply", "restore"}

Buttons == {"rescan", "optimize", "tools"}   \* tools: all secondary ones

VARIABLES
  used,     \* the controllers this operator uses
  job,      \* [Runners -> kind, "none" when its thread is gone]
  ended,    \* [Runners -> "no", "ok", "failed"]: its completion is queued
  on,       \* the buttons that are enabled
  open,     \* the open dialogs, the topmost first
  waiting,  \* dialogs that wait for a job's answer
  header,   \* what the header says of the last scan: "scanning", "ready", "failed"
  display,  \* the result displayed: "none", "fresh", "stale"
  read      \* what the running scan has read so far: "nothing", "fresh", "stale"

windowVars == <<used, job, ended, on, open, waiting, header, display, read>>
results == <<header, display, read>>

WindowInit ==
  /\ used \in Uses
  /\ job = [r \in Runners |-> IF r = "scan" THEN "scan" ELSE "none"]
  /\ ended = [r \in Runners |-> "no"]
  /\ on = {} /\ waiting = {}
  /\ open \in {<< >>, <<"note">>}   \* perhaps changes a crash interrupted
  /\ header = "scanning" /\ display = "none" /\ read = "nothing"

-----------------------------------------------------------------------------
Busy(r) == job[r] # "none"
Top(d) == open # << >> /\ Head(open) = d

\* There is at most one dialog of a kind that is waited for.
Without(d) ==
  IF Contains(open, d) THEN RemoveAt(open, CHOOSE i \in DOMAIN open : open[i] = d) ELSE open

\* BackgroundRunner.start; a request for a busy one is dropped.
Started(kind) ==
  IF Busy(RunnerOf(kind)) THEN job ELSE [job EXCEPT ![RunnerOf(kind)] = kind]

\* ScanController._begin: also dropped while a scan runs; otherwise everything
\* is off until its answer.
ScanBegins ==
  IF Busy("scan") THEN UNCHANGED <<job, on, results>>
  ELSE /\ job' = Started("scan") /\ on' = {}
       /\ header' = "scanning" /\ read' = "nothing" /\ UNCHANGED display

\* Mutant: the result of a Steam reset, after which nothing is scanned, leaves
\* the tools off.
ToolsLeftOff(kind) == IF kind = "wipe" THEN {} ELSE {"tools"}

\* The tools a handler turns on again: those of every job that turned them off.
ToolsBack(kind) == {"tools"}

-----------------------------------------------------------------------------
(* The buttons of the window, with no dialog over it.                        *)

AskRescan == /\ open = << >> /\ "rescan" \in on /\ ScanBegins
          /\ UNCHANGED <<ended, open, waiting>>

\* Optimise needs a result and a free optimizer; planning turns it off, and
\* rescanning with it.
Planning ==
  /\ on' = on \ {"optimize", "rescan"}
  /\ job' = Started("plan")

AskOptimize ==
  /\ "optimize" \in used
  /\ open = << >> /\ "optimize" \in on /\ display # "none" /\ ~Busy("optimize")
  /\ Planning
  /\ UNCHANGED <<ended, open, waiting, results>>

\* Cleanup, Steam, the survey, the startup list, saving and comparing a profile
\* turn the tools off; the audit, the settings and the history do not.
Locks(kind) == RunnerOf(kind) \in {"cleanup", "steam", "tools", "profile"}

Tool(kind) ==
  /\ RunnerOf(kind) \in used
  /\ open = << >> /\ "tools" \in on /\ ~Busy(RunnerOf(kind))
  /\ RunnerOf(kind) = "profile" => display # "none"
  /\ job' = Started(kind)
  /\ on' = IF Locks(kind) THEN on \ {"tools"} ELSE on
  /\ UNCHANGED <<ended, open, waiting, results>>

FirstJobs == {"cleanup_plan", "steam_plan", "survey", "startup_list", "save",
              "compare", "audit", "settings", "history"}

-----------------------------------------------------------------------------
(* Workers.                                                                 *)

ScanReads ==
  /\ Busy("scan") /\ ended["scan"] = "no" /\ read = "nothing"
  /\ read' = "fresh"
  /\ UNCHANGED <<job, ended, on, open, waiting, header, display>>

Outdated(x) == IF x = "fresh" THEN "stale" ELSE x

\* A job ends; one that fails may have changed something all the same.
Ends(r) ==
  /\ Busy(r) /\ ended[r] = "no"
  /\ \E how \in {"ok", "failed"} :
       /\ r = "scan" /\ how = "ok" => read # "nothing"
       /\ job[r] \in Changes /\ how = "failed" => ChangesFail
       /\ ended' = [ended EXCEPT ![r] = how]
  /\ IF job[r] \in Changes
     THEN display' = Outdated(display) /\ read' = Outdated(read)
     ELSE UNCHANGED <<display, read>>
  /\ UNCHANGED <<job, on, open, waiting, header>>

-----------------------------------------------------------------------------
(* Completions.  A handler turns buttons on, closes and opens dialogs; what  *)
(* it does after a dialog it opened happens when that is closed.             *)

Handles(kind, how) ==
  LET r == RunnerOf(kind) IN
  /\ job[r] = kind /\ ended[r] = how
  /\ job' = [job EXCEPT ![r] = "none"]
  /\ ended' = [ended EXCEPT ![r] = "no"]

Opening(dialogs) == open' = dialogs \o open

ScanCompleted ==
  /\ Handles("scan", "ok")
  /\ on' = Buttons /\ header' = "ready"
  /\ display' = read /\ read' = "nothing"
  /\ UNCHANGED <<open, waiting>>

ScanFailed ==
  /\ Handles("scan", "failed")
  /\ on' = on \cup {"rescan"} /\ header' = "failed" /\ read' = "nothing"
  /\ Opening(<<"note">>)
  /\ UNCHANGED <<waiting, display>>

PreviewReady ==
  /\ Handles("plan", "ok")
  /\ on' = on \cup {"rescan", "optimize"} /\ Opening(<<"preview">>)
  /\ UNCHANGED <<waiting, results>>

OptimizeFinished ==
  /\ Handles("optimize", "ok")
  /\ on' = on \cup {"rescan"} /\ Opening(<<"optimized">>)
  /\ UNCHANGED <<waiting, results>>

OptimizeFailed ==
  /\ Handles("plan", "failed") \/ Handles("optimize", "failed")
  /\ on' = on \cup {"rescan", "optimize"} /\ Opening(<<"note">>)
  /\ UNCHANGED <<waiting, results>>

\* Cleanup and Steam: a list to tick, or nothing to do; then the result.
CleanupPlanned ==
  /\ Handles("cleanup_plan", "ok") /\ on' = on \cup ToolsBack("cleanup_plan")
  /\ \E d \in {"note", "cleanup"} : Opening(<<d>>)
  /\ UNCHANGED <<waiting, results>>

CleanupFinished ==
  /\ Handles("clean", "ok") /\ on' = on \cup ToolsBack("clean")
  /\ Opening(<<"cleaned">>)
  /\ UNCHANGED <<waiting, results>>

SteamPlanned ==
  /\ Handles("steam_plan", "ok") /\ on' = on \cup ToolsBack("steam_plan")
  /\ \E d \in {"note", "steam"} : Opening(<<d>>)
  /\ UNCHANGED <<waiting, results>>

\* Nothing is measured again after a Steam reset.
SteamWiped ==
  /\ Handles("wipe", "ok") /\ on' = on \cup ToolsBack("wipe")
  /\ Opening(<<"note">>)
  /\ UNCHANGED <<waiting, results>>

CleanupOrSteamFailed ==
  /\ \E kind \in {"cleanup_plan", "clean", "steam_plan", "wipe"} :
       Handles(kind, "failed") /\ on' = on \cup ToolsBack(kind)
  /\ Opening(<<"note">>)
  /\ UNCHANGED <<waiting, results>>

ToolListed ==
  /\ \/ Handles("survey", "ok") /\ Opening(<<"usage">>)
     \/ Handles("startup_list", "ok") /\ Opening(<<"startup">>)
  /\ on' = on \cup ToolsBack("survey")
  /\ UNCHANGED <<waiting, results>>

\* The answers to the usage dialog, dropped if it were gone.
FolderPlanned ==
  /\ Handles("folder_plan", "ok")
  /\ Opening(IF Contains(open, "usage") THEN <<"confirm_folder">> ELSE << >>)
  /\ UNCHANGED <<on, waiting, results>>

FolderDone ==
  /\ Handles("folder_run", "ok")
  /\ IF Contains(open, "usage")
     THEN waiting' = waiting \ {"usage"} /\ Opening(<<"note">>)
     ELSE UNCHANGED <<waiting, open>>
  /\ UNCHANGED <<on, results>>

StartupToggled == Handles("toggle", "ok") /\ UNCHANGED <<on, open, waiting, results>>

\* UsageDialog.fail: the dialog that asked gets the answer.
NoLongerWaiting == waiting \ {"usage"}

ToolsFailed ==
  /\ \E kind \in {"survey", "folder_plan", "folder_run", "startup_list", "toggle"} :
       Handles(kind, "failed")
  /\ on' = on \cup ToolsBack("survey")
  /\ waiting' = NoLongerWaiting /\ Opening(<<"note">>)
  /\ UNCHANGED results

ProfileAnswered ==
  /\ \/ Handles("save", "ok") /\ Opening(<<"note">>)
     \/ Handles("compare", "ok") /\ Opening(<<"comparison">>)
     \/ /\ Handles("save", "failed") \/ Handles("compare", "failed")
        /\ Opening(<<"note">>)
  /\ on' = on \cup ToolsBack("save")
  /\ UNCHANGED <<waiting, results>>

SystemRead ==
  /\ \/ Handles("audit", "ok") /\ Opening(<<"note">>)
     \/ Handles("settings", "ok") /\ Opening(<<"settings">>)
  /\ UNCHANGED <<on, waiting, results>>

SettingsPlanned ==
  /\ Handles("settings_plan", "ok")
  /\ waiting' = waiting \ {"settings"} /\ Opening(<<"confirm_settings">>)
  /\ UNCHANGED <<on, results>>

\* The settings dialog is accepted, and a report opens.
SettingsApplied ==
  /\ Handles("apply", "ok")
  /\ waiting' = waiting \ {"settings"} /\ open' = <<"note">> \o Without("settings")
  /\ UNCHANGED <<on, results>>

\* The list of an open history is replaced; without one, it opens.
HistoryReady ==
  /\ Handles("history", "ok") /\ waiting' = waiting \ {"history"}
  /\ Opening(IF Contains(open, "history") THEN << >> ELSE <<"history">>)
  /\ UNCHANGED <<on, results>>

Restored ==
  /\ Handles("restore", "ok") /\ Opening(<<"restored">>)
  /\ UNCHANGED <<on, waiting, results>>

SystemFailed ==
  /\ \E kind \in {"audit", "settings", "settings_plan", "apply", "history", "restore"} :
       Handles(kind, "failed")
  /\ waiting' = waiting \ {"settings", "history"} /\ Opening(<<"note">>)
  /\ UNCHANGED <<on, results>>

-----------------------------------------------------------------------------
(* The topmost dialog.                                                      *)

\* Read and closed, or cancelled.
Dismiss ==
  /\ open # << >>
  /\ Head(open) \in {"note", "preview", "cleanup", "steam", "startup", "settings",
                     "history", "comparison", "confirm_settings"}
  /\ open' = Tail(open) /\ waiting' = waiting \ {Head(open)}
  /\ UNCHANGED <<job, ended, on, results>>

\* What was changed is measured again when its report is closed.
ReportClosed ==
  /\ Top("optimized") \/ Top("cleaned")
  /\ open' = Tail(open) /\ ScanBegins
  /\ UNCHANGED <<ended, waiting>>

RestoredClosed ==
  /\ Top("restored") /\ open' = Tail(open) /\ job' = Started("history")
  /\ UNCHANGED <<ended, on, waiting, results>>

AcceptPreview ==
  /\ Top("preview") /\ open' = Tail(open)
  /\ on' = on \ {"optimize", "rescan"} /\ job' = Started("optimize")
  /\ UNCHANGED <<ended, waiting, results>>

\* The changes of medium risk are planned as well.
AskMedium ==
  /\ Top("preview") /\ open' = Tail(open) /\ Planning
  /\ UNCHANGED <<ended, waiting, results>>

AcceptTool ==
  /\ \/ Top("cleanup") /\ job' = Started("clean")
     \/ Top("steam") /\ job' = Started("wipe")
  /\ open' = Tail(open) /\ on' = on \ {"tools"}
  /\ UNCHANGED <<ended, waiting, results>>

\* UsageDialog._on_delete, _on_move, and _start_folder_job, which says so when
\* the runner is busy.
AskFolder ==
  /\ Top("usage") /\ "usage" \notin waiting
  /\ IF Busy("tools") THEN Opening(<<"note">>) /\ UNCHANGED <<job, waiting>>
     ELSE /\ job' = Started("folder_plan") /\ waiting' = waiting \cup {"usage"}
          /\ UNCHANGED open
  /\ UNCHANGED <<ended, on, results>>

ConfirmFolder ==
  /\ Top("confirm_folder") /\ open' = Tail(open)
  /\ \/ job' = Started("folder_run") /\ waiting' = waiting \cup {"usage"}
     \/ waiting' = waiting \ {"usage"} /\ UNCHANGED job
  /\ UNCHANGED <<ended, on, results>>

CloseUsage ==
  /\ Top("usage") /\ "usage" \notin waiting /\ open' = Tail(open)
  /\ UNCHANGED <<job, ended, on, waiting, results>>

Toggle == Top("startup") /\ job' = Started("toggle")
          /\ UNCHANGED <<ended, on, open, waiting, results>>

\* Choosing another option turns the button on again while it waits.
AskSettings ==
  /\ Top("settings") /\ job' = Started("settings_plan")
  /\ waiting' = waiting \cup {"settings"}
  /\ UNCHANGED <<ended, on, open, results>>

ConfirmSettings ==
  /\ Top("confirm_settings") /\ open' = Tail(open) /\ job' = Started("apply")
  /\ waiting' = IF Contains(open, "settings") THEN waiting \cup {"settings"} ELSE waiting
  /\ UNCHANGED <<ended, on, results>>

AskRestore ==
  /\ Top("history") /\ "history" \notin waiting
  /\ job' = Started("restore") /\ waiting' = waiting \cup {"history"}
  /\ UNCHANGED <<ended, on, open, results>>

\* The comparison asks for its fixes to be planned, and closes.
FixProfile ==
  /\ Top("comparison") /\ open' = Tail(open) /\ job' = Started("settings_plan")
  /\ UNCHANGED <<ended, on, waiting, results>>

-----------------------------------------------------------------------------
Handled ==
  \/ AskRescan \/ AskOptimize \/ \E kind \in FirstJobs : Tool(kind)
  \/ ScanReads \/ \E r \in Runners : Ends(r)
  \/ ScanCompleted \/ ScanFailed
  \/ PreviewReady \/ OptimizeFinished \/ OptimizeFailed
  \/ CleanupPlanned \/ CleanupFinished \/ SteamPlanned \/ SteamWiped
  \/ CleanupOrSteamFailed
  \/ ToolListed \/ FolderPlanned \/ FolderDone \/ StartupToggled \/ ToolsFailed
  \/ ProfileAnswered
  \/ SystemRead \/ SettingsPlanned \/ SettingsApplied \/ HistoryReady \/ Restored
  \/ SystemFailed
  \/ Dismiss \/ ReportClosed \/ RestoredClosed \/ AcceptPreview \/ AskMedium
  \/ AcceptTool \/ AskFolder \/ ConfirmFolder \/ CloseUsage \/ Toggle
  \/ AskSettings \/ ConfirmSettings \/ AskRestore \/ FixProfile

WindowNext == Handled /\ UNCHANGED used

WindowSpec == WindowInit /\ [][WindowNext]_windowVars

-----------------------------------------------------------------------------
AtRest == open = << >> /\ \A r \in Runners : ~Busy(r)

\* Whatever was started, answered, failed and closed, in whatever order: when
\* nothing is under way any more the operator can scan again, and unless the
\* last scan failed can use every button; and a usage dialog that cannot be
\* closed because it waits has a job, or a question, that will release it.
NobodyStranded ==
  /\ AtRest => "rescan" \in on
  /\ AtRest /\ header # "failed" => on = Buttons
  /\ "usage" \in waiting =>
       \/ job["tools"] \in {"folder_plan", "folder_run"}
       \/ Contains(open, "confirm_folder")

\* "After an action the dashboard calls refresh, which re-measures everything live"
\* (scan_controller.py:14-18): when nothing is under way, what is displayed was
\* read after the last change.
ActionRemeasured == AtRest /\ header # "failed" => display # "stale"
===============================================================================
