# Formal model of Pudge Gaming Manager

Pudge Gaming Manager (PGM) tunes Windows machines for games.  It plans changes to settings,
shows them, backs up, applies and verifies each one, and can undo them later; it also cleans
disks, removes Steam games, and deletes folders or moves them to another drive.  What it does
is hard to take back, so the questions worth a model are always the same: can an original be
lost, can the program claim something that is not so, and what is left when a step fails, the
power goes, or something else writes at the wrong moment.

This directory holds TLA+ modules translated from the source, TLC runs that check them on small
instances, and TLAPS proofs of the central results for every value of the constants.
`PROJECT.json` lists the runs, the source lines behind each definition, a mistake per property
that the run is known to notice, and the hazards.

    tlc -config Lifecycle_one_worker.cfg MCChangeLifecycle.tla     # a run
    tlapm ChangeLifecycleProofs.tla                                 # proofs

Paths below are relative to `pudge_gaming_manager/`.

## 1. The system and its model

The program is one Qt process with a main window.  Every button starts a job on a
`BackgroundRunner` (`app/controllers/background.py`): one thread per runner, one job at a time,
the result delivered to the window's thread by a queued signal.  The runners of OPTIMIZE, the
system dialogs, the tools, Steam, cleanup and profiles are independent, so jobs of different
kinds run at once.  All of them, and all copies of the program that happen to run, share the
machine's settings and one SQLite file.

| Component | State | Operations | What makes it correct | Model |
|---|---|---|---|---|
| Change lifecycle: `core/optimization/engine.py`, `store.py`, `tweak.py` | the settings; tables `backups`, `optimization_runs`; the plan | plan, apply (drift check, backup, apply, verify, mark), roll back | nothing is written without a committed backup; reports are true; an original can be recovered | `ChangeLifecycle` |
| Change history: `history.py` | the same table | undo one row, undo everything | no undo beneath a newer change | `ChangeLifecycle` |
| Crash recovery: `recovery.py`, `app/gui/dashboard_actions.py` | rows in APPLYING | find at start, show, acknowledge | no half-made change goes unnoticed | `ChangeLifecycle` |
| Tweaks: `core/optimization/tweaks/`, registry and power managers | registry, power plans, devices, hosts file | scan, drift, backup, apply, verify, rollback | their contract with the engine | `TweakContract`, `TweakSteps`, `RegistryTweak`, `SettingTweak`, `DeviceTweak`, `HostsBlock` |
| Cleanup tweaks, app removal | apps, folders; a cached list | scan, apply, verify; no way back | only what was shown goes; a confirmation is true | `RemovalTweak` |
| Startup programs: `windows/startup/` | Run keys, folders, approval flags | list, switch on or off | a switch reaches the entry picked | `StartupList` |
| Pipeline, risk levels, previews: `pipeline.py`, `engine.py`, `preview_dialog.py`, settings service | level, ticks, plan | plan, tick, gate, run, measure | only what was ticked and allowed is run | `PlannedRun`, `Catalogue` |
| Golden profile: `core/profiles/` | the profile file | save, edit, compare, fix | the reference accepts itself; fixes reach what they are for | `ClubProfile` |
| Folder move and delete: `windows/folder_ops.py`, `utilities/tree_copy.py`, `junction.py` | the disk; the plan | plan, re-check, probe, copy, verify, swap, junction, put back, discard, delete | no file is lost; refusals are true | `FolderMove` |
| Tree deletion: `utilities/tree_delete.py`, `secure_delete.py` | the disk | walk by handle, delete or measure | never leaves the tree; completeness is reported truly | `TreeDelete` |
| Disk cleanup: `core/cleanup/`, `windows/cleanup/` | the disk, plan, tallies | scan, confirm, gate, delete, prune, empty the bin | only what was shown and agreed to, nothing rewritten since | `DiskCleanup` |
| Steam reset: `games/steam/` | libraries, manifests, sign-in files | scan, keep back, stop Steam, remove games, caches, sign out | a kept game stays; a game with files left stays known | `SteamWipe` |
| Workers and close guard: `app/controllers/`, `dashboard.py` | threads, queued completions, flags | start, return, deliver, close, join | no write is cut off; no stale completion is handled; the window can be closed | `WorkerGuard` |
| Window and dialogs: `app/gui/dashboard*.py`, dialogs | buttons, stack of dialogs, what is displayed | every button, completion and answer | nobody is left without buttons; what is shown is current | `Dashboard` |
| Scanner: `core/scanner/`, network probes | shared cached inventory | full scan, refresh, measurement after a run | nothing stale is shown as new | `Scan` |
| Scoring and diagnostics: `core/scoring/`, `core/diagnostics/` | -- | score, findings | what was not read is no fault; better is not worse | `Scoring` |
| Database: `database/` | the file, its version | open, migrate, statements | a recorded version is complete, also when copies race | `SchemaMigration`; statements in `ChangeLifecycle` |
| Audit report, utilities, layout and wording | -- | reading and text | -- | not modelled (section 9) |

The behaviours that are hard here: workers that race on one setting or one row; other programs
(and the player) that write a setting or a file between a check and its use; steps that fail
half way, and compensations that fail as well; power loss between any two steps; a second copy
of the program; stacks of changes undone out of order; completions that arrive in any order
beneath modal dialogs; and flags that say a job is writing when it is not.

### How the modules compose

`ChangeLifecycle` composes engine, store, history and recovery with the settings, the other
programs and the crashes; it takes a tweak as one opaque setting.  `TweakContract` is what it
relies on in that, and each tweak module, looking inside one kind, is shown to refine it with its
own mapping of machine, row and what is wanted.  `TweakSteps` is the order of calls they share,
`TweakStudy` what the engine keeps of a change, `Disturbance` the counted steps of others and
failing calls.
`Catalogue` is one reading of a setting, used by `PlannedRun` and `ClubProfile` as the code's
`catalog.py` is used by both.

The MC modules put parts together that do not run at once or do not touch one another:
`MCDisk` (one job that deletes or moves), `MCSettings` (one kind of tweak, or the startup list),
`MCProgram` (one study of the program around the changes).  The first state chooses the job, and
the rest keeps its place; one run then answers one question for the whole family.  They extend
the modules they put together, so the properties of their runs are those the theorems speak of;
`MCSettings` also instantiates `DeviceTweak`, `RegistryTweak` and `SettingTweak`, the last two
once for each tweak.

No module with proofs, nor one it uses, declares a RECURSIVE operator; every parameter is a
constant with a named assumption; every operation is an action of its own.

## 2. Change lifecycle

### Correspondence

| Model | Code |
|---|---|
| `value[t]` | what Windows holds for a setting; `t` is the `target` column: two tweaks of one setting share it |
| `rows` | table `backups` in rowid order; state APPLYING, APPLIED, RESTORED, FAILED |
| `run[w]`, `report[w]` | status of the row in `optimization_runs`; `RunReport.results` |
| `pc[w]`, `todo`, `cur`, `bk` | where a job is in `TweakEngine.apply` / `_execute`, or in `restore` |
| `pending[w]`, `strict[w]` | the rows `restore` / `restore_all` still go through; `check_newer` |
| `proc[p]`, `listed[p]` | a copy of the program: down, showing the startup dialog (with the rows it lists), up |
| `origin[t]`, `foreign[t]` | history variables: the value before PGM's first row for `t`; others wrote since |

A worker is one `BackgroundRunner`.  An action is one read or write of a setting or of the
database, because other threads, programs and crashes come between those: `Plan`, `Confirm`
(opens the run), then for each change `NextChange`, `CheckDrift`, `Backup`, `Apply`, `Verify`,
`MarkApplied`, and when something fails `Rollback`, `MarkRolledBack`; `CloseRun` at the end.
Undo is `RestoreOne` / `RestoreAll`, then `UndoCheck`, `Undo`, `MarkUndone` per row.
Processes `Start`, `Acknowledge`, `Close` (refused while something writes, as `closeEvent`
does) and `Crash`.

Failures are the code's: a tweak call may fail before or after it has written, or report success
and do nothing; each database statement may raise, and where the code has no handler (`Abort`)
the job ends there with its run still RUNNING and its row still APPLYING.  Where the code catches
(`Backup`) the change is SKIPPED.  A read that fails counts as drift, as in
`Tweak.drift_since_plan`.

Abstracted: values are opaque (one stands for "absent"); the risk gate, elevation and the
operator's ticks are "any part of what needs a change" here and are `PlannedRun`'s subject; dry
runs, audit events and wording are left out; rows are ordered by rowid, where the code uses
`created_at` and rowid.

### Properties

* `TypeOK`: types, and every row id held anywhere is the id of an existing row.
* `OriginalRecoverable`: a setting that nobody but PGM wrote holds its original value, or a row
  not marked RESTORED has that value to go back to.
* `ReportHonest`: what a run reports agrees with the row and with the machine.
* `InterruptedSurfaced`: a row in APPLYING is being worked on or listed in a startup dialog
  (with a working database).
* `NoUndoBeneathNewer`: an older change is not put back beneath a newer one still applied.
* `RowLifecycle`, `NoChangeWithoutBackup`, `NoUnverifiedSuccess`, `NoStalePlan`: what a single
  step may never do to the table, the setting and the report.
* `JobsEnd`: every run and every undo ends, so the window can be closed.

### Runs

| Run | Instance | Shows |
|---|---|---|
| `Lifecycle_one_worker` | 1 worker, a reversible and an irreversible setting, 3 values, 2 runs, undo of one or all, 1 crash, 2 tweak faults, 1 database fault, 1 write by others | `TypeOK`, `OriginalRecoverable`, `ReportHonest`, `InterruptedSurfaced`, `NoUndoBeneathNewer`, `NoUnverifiedSuccess`, `NoStalePlan` |
| `Lifecycle_two_workers` | OPTIMIZE and the history in one window, 1 setting, 2 values, others writing in the middle of runs, undos that fail; fairness | `RowLifecycle`, `NoChangeWithoutBackup`, `JobsEnd`: what survives interleaving |
| `Lifecycle_undo_all_failing` | two stacked changes, the undo of the newest fails | violation of `OriginalRecoverable`: section 8 |

Bounds: `MaxPlans` (confirmed runs), `MaxOtherWrites`, `MaxCrashes`, `MaxTweakFaults`,
`MaxStorageFaults`.  Two runs make a stack of two changes of one setting, the smallest on which
the order of undo matters.  Two tweak faults are a failed apply followed by a failed rollback.
Three values tell the original, PGM's value and a foreign value apart; they are interchangeable,
so the safety run uses symmetry.  The two-worker run checks liveness, so it uses none.

`RacingWrites` is FALSE with one worker: other programs then write only between jobs.  A write
between a tweak's apply and its mark makes any report stale the next moment; with two workers it
is TRUE, and the properties checked there do not speak of the value at that moment.
`UndoAllFails` says whether an undo inside "undo everything" may fail; it is TRUE where the
failing one is studied.

Fairness: `FairSpec` asks weak fairness of each worker's run or undo steps.  A started thread is
scheduled by Windows, and every call in a job returns (commands have timeouts).  Nothing is asked
of the operator, of crashes or of other programs.

## 3. Tweaks from the inside

`TweakContract` states the promise of `tweak.py`'s methods about a machine of cells: apply and
rollback write only cells the row covers, verify says yes only when every covered cell that
exists is as wanted, rollback says yes only when each has its recorded value.  Others may write
at any time except between a look and the step that relies on it (`Calm`).

| Module | What it looks into | What is special |
|---|---|---|
| `RegistryTweak` | one value, or one pair of a `flag=value;` string several Settings pages share; write, read back, delete | absent is not empty; a kind PGM cannot write back refuses; the written string was merged at the preview, and the drift check looks at the whole string |
| `SettingTweak` | active power plan, an index of a plan, mouse acceleration, refresh rate | an index lives in whichever plan is active; "enough" may be more than the target |
| `DeviceTweak` | USB and network devices | devices come and go, refuse singly, and a script may time out after writing |
| `HostsBlock` | the marked block of the hosts file | read whole, split, rebuilt, emptied and written; others own everything outside |
| `RemovalTweak` | Store apps, OneDrive, recycle bin, Windows.old, temp | no row, no rollback; one cached list of apps, read in the background; the second look compares the names of the apps, the path of the client found first, the size of the bin, the presence of Windows.old |
| `StartupList` | Run keys (32 and 64 bit) and folders | the flag lies in a different place for each source; where Windows looks is a table of its own (`WindowsKeys`) |

The run `Settings` takes 15 jobs, three moves of others and two failing calls, and checks

* `ContractHonoured`: the refinement, for every tweak that keeps a row;
* `OthersStay`: pairs and hosts entries of others survive what PGM writes, undos included;
* `OnlyShownRemoved`: apps, the client and temporary files that go were in the preview and are no
  part of Windows; the bin is emptied of as much as was shown; Windows.old goes only if the preview
  had it;
* `ToggleHitsOne`: a toggle changes what Windows launches of no entry but the one picked.

Three moves are enough for one before the drift check, one between apply and verify and one before
the undo; two faults for a failing apply with a failing rollback.  For the startup list one
(`MaxInstalls`): what was installed or toggled since the list was read.  `Apps_list_unreadable`
checks `GoneWhenConfirmed`, that a confirmed removal is one, and is a finding; but for that case
the property is what `verify` asks, so no passing run repeats it.

Four bounds leave out what the code does not withstand:

* `TornWrites` FALSE: with TRUE a write of the hosts file may stop after the file was emptied
  (`windows/hosts.py:74`), and every entry of others is lost.
* `HostsRaced` FALSE: `set_block` reads the file (`windows/hosts.py:144`), puts its block in and
  writes it (`:169`).  `ReadText` and the write are two steps; with TRUE others edit between them,
  an entry they add is lost (`OthersStay` fails) and one they take out of our block comes back.
  `HostsApply` takes the names of the block from the same reading, where the code reads the file a
  second time for it (`dota_hosts.py:150`); an edit between those two is the same race.
* `PairsUnderRow` FALSE: the undo of one pair writes the whole string of the row back
  (`choice.py:111`, `registry_value.py:181`), with the other pages' pairs as they were at the
  backup.  With TRUE others change a pair while the change is in place and the undo takes that
  away: `OthersStay` fails, although `choice.py:11-13` says that the tweak "rewrites only its own
  pair and keeps the rest byte for byte".  What others change between preview and drift check is
  not bounded: the drift check looks at the whole string.
* `SwitchUnderRow` FALSE: with TRUE the player switches the power plan while a row of an index
  is open, and the undo writes the recorded index into another plan
  (`tweaks/power_settings.py:130`).

Two things the properties state as weakly as the code does:

* Windows.old is compared by its presence (`tweaks/windows_old.py:72`) and the bin by its size
  (`tweaks/recycle_bin.py:74`): what came into the folder, or into the bin for something of the
  same size, since the preview goes with it.
* The flags of the 32-bit Run key are written in the 32-bit view of the registry
  (`startup/manager.py:103-111`); Windows and Task Manager keep `Run32` in the 64-bit view, so the
  toggle of such an entry has no effect, and what Task Manager set for it is not read, although
  `manager.py:18-19` says both show the same.  Where Windows keeps them is knowledge from outside
  the repository.  `HeardBy` exempts these entries from "the row shows what Windows does".

## 4. Deleting and moving data

The run `Disk` holds four jobs.  Deadlock is not checked because the bounds let each one stop.

`TreeDelete`: objects of the file system keep their identity; what a path names is looked up when
it is opened.  A frame is a directory the walk holds open; `Leaf` deletes in any order because a
pool may do it.  The instance is a folder with a nested folder, a link, a spared child, and
newcomers (a file, and the junction that a move of this program leaves where a folder was).
`OutsideSafe`: nothing outside the tree and nothing spared is deleted, whatever links appear.
`CompleteMeansGone`: a call that reports no failure has left nothing of the tree but what it was
told to keep and what others have put there since.

`DiskCleanup`: `StartScan` and `ScanCategory` in parallel, `ConfirmCleanup`, then per category
`Gate` for every item, `DeleteItem` in any order, `Prune`; `EmptyBin`.  Three rows (aged temp, user files with a
waived folder, one that needs the administrator), five files of which one is protected by name,
one by folder, one a user file.  `OnlyAgreedData`: what is deleted was shown, ticked, in its own
place, not protected, and, where the row has a minimum age, old.  `InUseStays`: no row deletes a
file that others wrote since the scan and before that row's gate, where the row has a minimum age,
nor one in a folder that leads elsewhere by then.  `OthersTouch` rewrites files in the stages of
`RewriteMoments` and turns folders into links in those of `ReplaceMoments`; both are every stage
but a row's gate and its deletions.  That bound is a limit of the code.  All items of a row pass
the gate before the first is deleted (`windows/cleanup/engine.py:362`), a folder is resolved once
for the whole row (`:334-345`), and `delete_file` opens the full path and refuses a link in its
last component only (`utilities/secure_delete.py:106`): a file rewritten, or a folder replaced, in
between is not noticed, and `InUseStays` fails with either set to all stages.  The comments at
`deletion.py:91-94` and `engine.py:322-328` say that a folder replaced there cannot redirect a
deletion.

`SteamWipe`: three games, one on the keep-list, a cache, two sign-in targets.  A folder is whole,
in part or gone, and its deletion ends as `TreeDelete` says.  `KeptStays`: a kept game, the games
of a dry run, the refused or failed ones in Steam's list, and what the sign-out spares.
`Steam_partial` is a finding.  Games share no folder in the instance: if two manifests name one
folder, removing one takes the other's files, as in the code.

`FolderMove`: the disk is `at`, what the four paths of a run hold (the folder, its `.pgm-probe-`
and `.pgm-old-` names, the destination).  The token in the temporary names is fresh for each run,
so leftovers of earlier runs go to `strays`.  `pc` is the next call to the file system: `Plan`,
`Recheck`, `Probe` and `ProbeBack` (renamed away and back), `StartCopy`, `CopyFile`, `CopyDone`
(`copy_tree`), `VerifySource` and `VerifyCopy` (`_verify_copy`), `Swap` (renamed aside),
`MakeLinkDir`, `Reparse`, `Unlink` (`create_junction`), `PutBack`, `DeleteAside`, `Discard`, and
`SweepFile`, `SweepRoot` (`delete_tree` of a flat folder).  `result` and `named` are what the
operator is told and the places the message names.  `truth` is a history variable: what was last
stored under the folder's path.  `OtherWrites` stores, changes or removes a file (in the folder
it has open, else under the old path, through the junction if there is one), `OtherRemoves`,
`OtherHolds`, `OtherCloses` and `OtherCreates` remove, open, close and create; `Crash` ends the
worker anywhere; any call may fail.  The folder is flat; a measurement sees file count and the
total of `SizeOf`; the deny list, free space and volume checks are the plan's refusal.

* `NothingLost`: what was last stored under the path is on disk somewhere; only a confirmed
  deletion destroys the last copy of a file.
* `CopyIsExact`: when the source is about to be swapped away the copy equals it.
* `RefusalHonest`: a refusal that names no place left the folder whole under its own name; one
  that names places names whole folders.
* `DoneMeansMoved`, `DeletedLast`: the original is deleted only behind a junction that leads to
  every file still to be deleted.

Instance: 2 files, 2 contents of different size, 3 runs, 1 foreign write, a destination created
after its check, 3 faults, 2 crashes.  Three faults are a failed junction, a failed put-back and
one more; two crashes and three runs let a run start on what an interrupted one left.  One
foreign write, because two writes that shift bytes between files keep every total and defeat the
measurement exactly as a write of the same size does.  `QuietSteps` keeps others from writing
between the measurement of the source and its renaming: in the code that gap is the measuring of
the copy, and a program that opens, writes and closes a file inside it loses the write.

## 5. Workers and the closing window

A runner (`phase`, `job`, `serial`) is a `BackgroundRunner` or the scan's thread: none, running,
or returned, when the job is over but its thread's loop still is not joined; `busy` is true of
both.  `inbox` is the event queue of the window's thread, where completions wait.  `flag` is
`_applying`, `_wiping`, `_cleaning`, `_modifying`; the system controller has one flag for two
runners, the second being the load recording with its `stop` event.

`StartOther`, `StartWrite`, `SystemWrite`, `StartMonitor`, `StopMonitor` are the requests of the
window; `JobReturns` is the end of a job on its thread; `Deliver` is `_finished` or `_failed`
with the controller's handler; `CloseEvent`, then `Join` for each controller in the code's order,
`TellMonitor`, `DropScan` (the scan's five seconds are over) and `Closed` are `closeEvent` and
the `shutdown` methods.  No completion is delivered while the window closes, because its thread
waits.  What a job does is left out here.  A startup switch and the saving of a profile write
something without a flag; they are jobs like a preview, and only the joins protect them.

* `CloseWaits`: no close is accepted during a guarded write.
* `NoWriteCutOff`: the process does not end, orderly or not, during a guarded write.
* `NeverUnclosable`: what refuses a close is a job whose answer is still to come.
* `CompletionIsOwn`: a completion that is handled belongs to the runner's present job.
* `CloseEnds`: an accepted close ends.

`Worker_guard` checks these and `TypeOK` with OPTIMIZE, the scan, the system controller and the
recording, two jobs each, scans that overrun and recordings that do not fail.  `MaxJobs` 2 is
what it takes for a completion of the first job to meet the second.  Controllers interact only
through the close, so one of the flagged ones stands for all.  `Worker_monitor_fails` is a
finding; with failing recordings `CloseWaits` is false and, with an overrunning scan besides, so
is `NoWriteCutOff`.

Fairness: every job but the recording returns, because its commands have timeouts; the recording
is asked to return only once `stop` is set; the window's thread goes on with a close it has
begun.  Completions need none, since the close does not wait for them.

## 6. The program around the changes

The run `Program` holds nine studies; deadlock is not checked because their bounds let them stop.
`Within` narrows a study to the part of its constants' combinations that it is about.

`Dashboard`: `on` (buttons), `open` (the stack of dialogs, each with an event loop of its own, so
completions are handled beneath it and may open another over it; the operator reaches the topmost
one), the job each controller runs, and `read` against what the machine is like now.  Every
completion handler of `dashboard_actions.py` and of the dialogs is an action.  An operator uses a
set of controllers (`used`, one of `Uses`); in the run three sets of two or three.  `NobodyStranded`: whatever was started, answered, failed and
closed, in whatever order, when nothing is under way the operator can scan again and, unless the
last scan failed, use every button; and a dialog that cannot be closed while it waits has a job
or a question that will release it.  `ActionRemeasured` (what is displayed was read after the
last change) fails for the Steam reset: `Window_stale`.

`PlannedRun`: from what is offered to the report, elevated or not.  `Optimize` or
`ChooseSettings`, `SetLevel`, `PlanReady`, `Tick`, `ShowMedium`, `Accept`, then `LeaveChange` (the gate or drift) or
`ExecuteChange` per change, `RunEnds`, `Measure`.  The dialog lists only what would be applied,
the plan everything, and the level switch stays live while a plan is shown.  `OnlyConsented`:
what is carried out was a ticked row of the accepted dialog; above LOW only when elevated and
ticked by hand or at the level that ticks everything; CRITICAL never.  Three studies: as
administrator, as a player, and from the settings dialog.

`ClubProfile`: `Save`, `Edit`, `Compare`, `Fix`, `Rescan`, section by section, with figures, names,
settings, schemes and refresh rates that cannot be read on either PC, a driver that cannot be asked,
and another program at work.  Settings and power plan are read anew by a comparison, hardware and
displays are those of the last scan.  `ReferenceAcceptable`: a PC that is what the reference is,
as far as either could be read (`AtLeastRef`), shows no drift but
* `ShortOfClub`: the free space and the best refresh rate, which a capture demands whatever the
  reference has (`golden.py:162, 188`), where the reference falls short of them or its rate could
  not be read;
* `LeftToUnasked`: HAGS where it is absent from the registry and the driver could not be asked
  (`windows/graphics/hags.py:119-163`).  It is then neither unavailable nor one of the options
  (`state.py:90-103`), and `settings_drift.py:59-83` shows a setting captured as on as drift,
  although what is not known is elsewhere "unknown, never drift".

`ProfileReached`: what was put right without a failure does not drift when compared again.  For the
power scheme that is false: `Profile_power`.

`Scan`: the window's scan worker and the measurement after a run share one scanner and its cache
without a lock.  `InventoryHonest`, `NetworkHonest`: what is shown was found during its scan or is
shown as unknown (the network of a refresh: as it was shown before), a missing inventory has a
warning, and a full scan does not time a tunnel as the local network.  Three things are not so in
the code and are in the model as they are:
* A reading that is not to be had becomes unavailable with no more than a line in the log
  (`hardware/storage.py:119-132`, `hardware/gpu/detect.py:204-222`); only a probe that raises is a
  warning (`hardware_scan.py:250-262`).
* Of an inventory from PowerShell a class may be missing, without an error and without a warning.
* The adapter that traffic to the router takes may be the one thing of the routing that was not
  read (`routing.py:41-46, 123-133`, `"way unread"`).  `gateway_rerouted` is then False
  (`routing.py:89-93`; a test, `test_missing_via_is_not_treated_as_rerouted`, says so on purpose)
  and a ping through a tunnel is shown as the local network.  `NetworkHonest` exempts it.

Three scans of hardware over two drives, two of the
network over three kinds of link; one change of the machine, which is what it takes to make a
cached value stale.

`Scoring`: grades of readings in quarters of a point; one thing changes or can no longer be read.
`AbsenceNoEvidence`: losing a reading adds no finding but the one that says so (the adapter
itself apart, see section 8).  `ScoreMonotone`: with the same things read, better in one and
worse in none is not scored lower.  The readings are studied in five groups that share a
component or a cap; a group is checked over every combination of grades.

`SchemaMigration`: three copies of the program, one older, two migrations of two statements each.
The version is read before the lock is taken, so two copies may apply the same migration.
`SchemaComplete`: a recorded version has everything it and those before it create, and a copy
that is ready finds all that it knows of.

## 7. Proofs

What TLAPS proves holds for every value of the constants under the assumptions named.  Liveness
(`JobsEnd`, `CloseEnds`) and what a fold over a sequence computes stay with TLC.

| Module | Theorems | Assuming |
|---|---|---|
| `ChangeLifecycleProofs` | `TypeCorrect`; `RowsMoveForward`, `WrittenFromRows`, `NothingUnnoticed` | nothing more; the last three `OneCopy` |
| | `PlanNeverStale`, `SuccessAlwaysVerified`, `ReportAlwaysHonest`; `UndosFromTheTop`, `OriginalNeverLost` | `Alone`; the last two also `~UndoAllFails` |
| `FolderMoveProofs` | `RefusalAlwaysHonest`; `FolderTypeCorrect`; `NothingEverLost`, `CopyAlwaysExact`, `DoneAlwaysMoved`, `OriginalDeletedLast`; `OneWriteShows` | the first nothing; the next five `FolderAssumption` and `WritesShow`; the last says when `WritesShow` holds |
| `DeletionProofs` | `OutsideAlwaysSafe`, `CompleteAlwaysGone`, `OnlyAgreedDeleted`; `InUseAlwaysStays`; `KeptAlwaysStays` | nothing more; `QuietAfterTheGate` (nobody rewrites a file or replaces a folder from gate to deletions); `OwnFolders` |
| `WorkerGuardProofs` | `GuardTypeCorrect`, `CompletionAlwaysOwn`, `AlwaysClosable`; `WritesNeverCutOff`, `CloseAlwaysWaits` | the last two `~MonitorFails` |
| `ProgramProofs` | `SchemaAlwaysComplete`; `OnlyConsentedAlways`; `ReferenceAlwaysAcceptable`, `FixesReachProfile`; `AbsenceNeverEvidence`, `ScoreNeverFalls` | `SchemaAssumption`; `PlannedRunAssumption`; `ClubProfileAssumption`; `ScoringAssumption` |
| | `NobodyEverStranded`; `InventoryAlwaysHonest`, `NetworkAlwaysHonest` | nothing more; `ScanAssumption`, the kinds of link |
| `SettingsProofs` | `TogglesHitOne`; `OnlyShownEverRemoved` | `StartupAssumption`; `RemovalAssumption` |
| | `HostsTweakKeepsContract`, `OthersEntriesSurvive`; `SettingTweakKeepsContract` | `MarkersAssumption` and `~HostsRaced`, the second also `~TornWrites`; `PlansAssumption`, which has `~SwitchUnderRow` |
| `DeviceTweakProofs` | `DeviceTypeCorrect`, `DeviceTweakKeepsContract` | `RowsAssumption` |
| `RegistryTweakProofs` | `RegistryTweakKeepsContract`, `OtherPairsSurvive` | `DistinctAssumption`, the second also `~PairsUnderRow` |

**Types and rows.**  `TypeOK` alone is not inductive: that `bk[w]` names a row has to be known
where it is used, that an undo's row is one of its pending ones, that a worker in a run has a
change to work on.  `TypeInv` adds these.  `Inv == TypeInv /\ RowsOwned`: `RowOK(w)` says what a
worker's row is at each step (between backup and mark APPLYING, for the worker's own setting and
value; during an undo APPLIED, or RESTORED by another undo meanwhile), `Disjoint` that no two
workers own one row, or one's mark could move it under the other.  `OneCopy`, a single process, is
needed because `Acknowledge` marks APPLYING rows FAILED, and only then does showing the startup
dialog mean that no worker is at work.  Actions that leave the table alone, mark the worker's own
row, or hand it in are covered by the lemmas `QuietStep`, `MarkStep` and those on how a worker
leaves a change.

**One worker.**  `Alone` is `OneCopy`, one worker, and nobody writing inside a run.  Four
strengthenings: `Sight` (a value that was seen, written or put back is still there when the
worker relies on it, its own row is the last one, the row being undone is APPLIED); `Order` (the
list of "undo everything" contains every APPLIED row, newest first, and nothing newer than its
head is in force), which gives `NoUndoBeneathNewer`; `OriginKept` (for a setting
nobody else wrote, at or below each row in force, or being written from, there is one not RESTORED
whose old value is the origin: undoing downwards from any of them ends there), which gives
`OriginalRecoverable`; `Reports` (what is
reported, worked on and still to do concerns different settings, so no later step makes a result
untrue), which gives `ReportHonest`.  `~UndoAllFails` is where the proof and the finding of
section 8 meet: with it `Order` breaks exactly at the undo that fails.

**Folder move.**  The invariant says of every file where its last copy may be: always somewhere
(`Kept(Paths, f)`), besides the copy where the copy may still be discarded, and besides the
folder set aside where that is being deleted; with what each step of a move has brought about
(`StageInv`).  Others write, open and remove files at every step, the copying, the probes, the
junction, the way back, both deletions, between runs and after crashes, except after the last
measurement of the source, where nothing in the code could notice (the `QuietSteps` of the run).
What they write while the folder is copied and measured spoils the copy; the proof needs that the
measurement then differs.  Two parts carry that through a copy of any length: the copy is
as large as was counted, and it differs from the original in no more files than were written
(`Copying`, `Missed`).  `WritesShow` asks that contents so few files apart are told apart by how
many files and bytes they have.  `OneWriteShows` proves it of a folder of any size with one foreign
write and contents that differ in size, the instance TLC checks (`MCDisk` has TLC evaluate it);
for more writes the hypothesis may fail, as it does in the code: two rewrites of equal total are
not told from none.  `Bytes` is a fold over a set, of which the provers know only what is proved
here by a smallest counterexample: a total has one value, whatever order it is added in
(`TotalNat`), and a file more is its size more (`BytesAdd`).  `RefusalAlwaysHonest` needs
none of that: it follows the folder as a whole, from its own name to the probe's, to the name it is
set aside under and back, and says for every step where it is and what a refusal at that step would
name; the case that takes the care is a junction made half.

**Deletion.**  `OutsideSafe` rests on where the walk stands: every frame is a directory of the
tree that was opened by handle and is no link (`PlacesInv`), and what a frame still has to do lies
in it (`WalkInv`).  The tree is of any depth: what lies beneath a folder is the least set closed
under "its parent is in it", so no induction is needed.  `CompleteMeansGone` adds that a frame
that is still to be removed is named by the frame above it until it is gone, up to the root
(`RootPending`).  In the cleanup, what was approved passed the gate in its own row, and nothing is
deleted that was not (`PassedGate`).  What passed is, with `QuietAfterTheGate`, as old and where it
was until the row's last deletion; the hypothesis names the two things nothing in the code stops.  In the Steam reset a folder is touched only for a game that
was to go, which with `OwnFolders` is not a kept one (`GamesKept`).

**Close guard.**  A flag set over a job that does not write, and a completion delivered after the
next job started, are excluded by `ValuesOK`, `InboxInv` (one completion per runner, of its own
serial), `FlagInv` and, without failing recordings, `GuardInv`.

**Window.**  A button that is off has something that will turn it on: a running job that turned it
off, a report whose closing scans again, or a scan that failed and says so (`ButtonsInv`).  A usage
dialog that waits is open and has its job or its question, never both, and there is one question
at a time (`UsageInv`).  The stack of dialogs is of any height, completions open dialogs over
each other in any order, and any set of controllers is used together, where the run has three.

**Consent.**  `PlanGated`: what may be applied passed the gate; `PlanConsented`: in the dialog a
ticked row is of a class ticked for the operator or was ticked by hand, and once a plan is
accepted nothing else is left to be applied.  That rows and changes are numbered differently is
what the step of `Accept` has to bridge.

**Schema.**  `SchemaInv`: the recorded versions are always 1 to some n, however the copies race,
and a copy that is ready knows no more than the version it has reached.

**Scan.**  `FoundNow(w)`: whatever a scan holds that is shown as live was on the machine at some
moment since that scan began, or is unknown, also when the other scan has put its own reading into
the shared cache meanwhile.  `NetworkNow` says the same of the route; a router timed through a
tunnel and not marked means that both links were met during the scan, or that the way to the router
was not read.

**Profile.**  What a comparison shows of a PC that has not moved since is what comparing it now
would show (`ShownInv`); only the operator's edits change a captured figure (`FigureInv`), and a
section of figures has no fixes (`FixesInv`); what was put right is as the file has it until the
PC moves (`ReachedInv`).  Both theorems are then facts about the comparison alone, for the
reference one per section: `AgreeingSettings`, `AgreeingDisplays`, `AgreeingHardware`.

**Findings.**  What is always read has a grade in every scan (`GradedInv`: the route, the
throttling, the warnings).  With it every finding of a scan that differs from the one before only
by a lost reading was made before too, but for those that say what was lost (`SaidBefore`), one
step per kind of finding; any sets of readings vary together, where the run has five.

**Score.**  The same invariant, with what a scan never sends (`Unsent`: no ping of a router without
a gateway, none of the internet without a route), gives `ScoreNeverFalls`.  Each component falls
by caps, floors and penalties that a better reading can only lift (`CpuMonotone` to
`NetworkMonotone`).  The average divides by the weights of what could be scored, so what has to be
shown besides is that the same components are scored in both scans.  Only the network may drop out,
when a machine that had neither adapter nor route has one but no ping that can be trusted; it was
scored zero, so its share of the divisor goes and none of the points (`PartMonotone`, `NotAbove`).

**Tweaks.**  The refinement proofs map every action of the tweak to one of `TweakContract`'s or to
a stutter.  The device proof rests on the row holding exactly the devices of the plan; the registry
proof on nothing coming between the second look and the write, so that what is written is what is
there with one pair changed, and, for the undo, on the others' pairs being those of the row
(`PairsInv`); the setting's on the row naming the plan that is active from backup to
undo; the hosts file's on a written block being read back as written (`RebuiltReads`), also after
somebody took the end marker away.  That others' entries survive is the other half of that lemma,
with what was read still being what the file says (`TextCurrent`, by `~HostsRaced`).

**Removal and startup.**  From the drift check to the apply nothing the tweak could still take lies
outside the preview (`RemovalInv`): for apps and temporary files because the apply goes by what the
scan found, for the client because nobody comes in between; for the bin what is kept is the size,
for Windows.old that it was shown.  The startup theorem compares two tables: that of the places the
program writes flags to, which is the code's, and that of the places Windows reads, which is not.
Outside the 32-bit Run key they agree, and the place a flag of that key goes to is nobody's in
Windows' table (`KeysApart`).

**Only model-checked.**  `JobsEnd` and `CloseEnds` are liveness.  `ContractHonoured` and
`OthersStay` join the tweaks in one formula; the theorems state them tweak by tweak.
`GoneWhenConfirmed` has no theorem: it is the guard of a successful `verify` but for the list that
cannot be read, and there it fails.

## 8. What the checks found

Findings, each with a run that shows it:

* `restore_all` goes on beneath an undo that failed; afterwards no row leads to the original
  value.  The module says the order "unwinds any stack correctly".
  (`core/optimization/history.py:289`; `Lifecycle_undo_all_failing`)
* A load recording that fails clears the flag of a write in progress, and the window closes
  during it.  `applying` is documented as "True while a change is being written: closing must
  wait."  (`app/controllers/system_controller.py:76`; `Worker_monitor_fails`)
* The Steam reset deletes a game's manifest after a folder deletion that left files in use, and
  counts it as removed.  A comment says the manifest comes last "so a failed folder delete leaves
  the game still recognised".  (`games/steam/wipe.py:325`; `Steam_partial`)
* Verifying the removal of apps asks a fresh inventory; one that could not be read is empty, and
  that confirms the removal.  "Re-enumerate rather than trust the uninstall command."
  (`tweaks/apps.py:161`; `Apps_list_unreadable`)
* After a Steam reset the dashboard is not refreshed and shows the free space from before.
  "After an action the dashboard calls `ScanController.refresh`".
  (`app/gui/dashboard_actions.py:310`; `Window_stale`)
* A profile's power scheme on a PC that runs another full-speed scheme: the drift is offered as
  fixable, the fix sees nothing to change, the drift stays.
  (`tweaks/power.py:117`; `Profile_power`)

Limits of the code that the passing runs leave out by a named bound, or that no document denies:

* Two workers: an OPTIMIZE run between the history's check for newer changes and its write gets
  its change undone beneath (`history.py:233`); `NoUndoBeneathNewer` fails with two workers.
* A second copy of the program takes an APPLYING row of the first for a dead process's and marks
  it FAILED (`recovery.py:42`).
* `history.py:198` orders by seconds and rowid: a clock set back between two changes turns their
  order round.  `history.py:262` restores without looking at what the setting holds now, so a
  later change by the player is overwritten.
* A scan that takes more than five seconds after the close began has its running thread dropped,
  which ends the process before the other workers are joined.  Guarded writes are safe from it
  only because a close is not accepted during one, so `NoWriteCutOff` holds where `CloseWaits`
  does; a startup switch or the saving of a profile is cut off.
* Moving a folder: a destination created by another program after its check is discarded as if it
  were the partial copy (`folder_ops.py:284, 329, 400`); a write in the gap of section 4; a file
  rewritten with the same number of bytes passes `_verify_copy`; a failing `_discard` leaves the
  partial copy while the refusal names nothing.
* A torn write of the hosts file, and an edit between its reading and its writing; pairs of other
  pages changed under an open row; a power plan switched under one; a file rewritten or a folder
  replaced between gate and deletion; games that share a folder (sections 3 and 4).
* Toggles of the 32-bit Run key without effect; what came into Windows.old, or into the bin without
  changing its size, since the preview (section 3).
* Readings that are not to be had without a warning; a tunnel timed as the local network when the
  way to the router was not read; HAGS shown as drift when the driver could not be asked (section
  6).
* A routing query that fails reads as a PC without a connection (`routing.py:105`); a query that
  times out in the runner for JSON answers is not caught there; a startup tick that could not be
  set stays as it was clicked until the list is read again.

## 9. What is not modelled

* The audit report words what `Catalogue` reads and changes nothing.  Utilities, logging, error
  classes, layout, wording, icons: no state worth a model.
* The statistics of the load monitor: arithmetic on samples.  As a job it is in `WorkerGuard`.
* The services manager's writes have no caller among the program's operations; its reading is in
  `ClubProfile`.
* Taking ownership of protected folders, quoting and decoding of commands, parsing of `powercfg`,
  `vdf` and WMI output: what they yield is a value, an error or nothing.
* The deny list of `folder_policy.py`, free space and volume checks appear as the refusal of a
  plan; dry runs of the lifecycle leave everything as it is and are left out.
* The Windows calls themselves, of which only success, failure and effect are used.
