------------------------------ MODULE RemovalTweak ------------------------------
(***************************************************************************)
(* The tweaks that take something away and cannot put it back: groups of    *)
(* Store apps, OneDrive, the recycle bin, Windows.old, temporary files.     *)
(* There is no row: the engine goes from the second scan straight to the    *)
(* apply, and a failure is only reported.  The app tweaks share one list of *)
(* installed apps, read once in the background and kept.                    *)
(***************************************************************************)
EXTENDS TweakStudy, FiniteSetsExt

CONSTANTS
  Removals,   \* which of "apps", "onedrive", "bin", "windows_old" and "temp"
  Things,     \* apps, files in the bin, the client, the folder
  Group,      \* those the catalogue names
  System,     \* the apps Windows says are parts of itself
  Size,       \* [Things -> Nat], what the bin reports of them
  Place,      \* [Things -> Nat], in which order the clients are looked for
  Admin,      \* does PGM run as administrator?
  NotRead, Unreadable   \* the shared list, before it was read and if it could not be

RemovalAssumption ==
  /\ Removals \subseteq {"apps", "onedrive", "bin", "windows_old", "temp"}
  /\ Group \subseteq Things /\ System \subseteq Things /\ Size \in [Things -> Nat]
  /\ Place \in [Things -> Nat] /\ Admin \in BOOLEAN

VARIABLES
  tweak,      \* which it is
  present,    \* what is installed, or lies there
  bundled,    \* the apps new users are given
  list,       \* the shared list of apps: not read yet, unreadable, or what it says
  found,      \* what the tweak's last scan found to remove; the plan is what it showed
  removed     \* what the tweak removed

removalVars ==
  <<tweak, present, bundled, list, found, plan, row, removed, others, faults, steps>>

RemovalTypeOK ==
  /\ present \subseteq Things /\ bundled \subseteq Things
  /\ list \in (SUBSET Things) \cup {NotRead, Unreadable}
  /\ found \subseteq Things /\ plan \subseteq Things /\ removed \subseteq Things
  /\ at \in Reached /\ said \in Answers
  /\ others \in 0..MaxOthers /\ faults \in 0..MaxFaults

RemovalInit ==
  /\ StepsInit
  /\ tweak \in Removals /\ present \in SUBSET Things /\ list = NotRead
  /\ bundled \in (IF tweak = "apps" THEN {{}, present} ELSE {{}})
  /\ found = {} /\ plan = {} /\ row = NoRow /\ removed = {} /\ Undisturbed

-----------------------------------------------------------------------------
\* Named in the catalogue, present, and not a component of Windows.
Find(known) == (known \cap Group) \ System

\* What a group keeps: the other tweaks have nothing of the kind.
Spared == IF tweak = "apps" THEN System ELSE {}

\* A failed read leaves an empty list behind.
Known(l) == IF l \in {NotRead, Unreadable} THEN {} ELSE l

\* The client's program where it is found first, of the places it can be installed
\* in; not its setup, which stays.
Clients(things) == things \cap Group
Client == {c \in Clients(present) : \A d \in Clients(present) : Place[c] <= Place[d]}
\* What the bins of all drives hold.
BinContents == present \cap Group
\* The folder, on a Windows that leaves it there.
OldWindows == present \cap Group
\* The temporary files a scan of the allowed folders finds.
Temporary == present \cap Group

\* What a scan sees: the apps as they were when the list was read, everything
\* else as it is now.
Seen ==
  CASE tweak = "apps" -> Find(Known(list)) [] tweak = "onedrive" -> Client
    [] tweak = "bin" -> BinContents [] tweak = "windows_old" -> OldWindows
    [] tweak = "temp" -> Temporary

TotalSize(S) == MapThenSumSet(LAMBDA t : Size[t], S)

\* Mutant: the plan is carried out as it was shown, whatever came since.
PlanTrusted == TRUE

\* tweak.py compares what the scan makes of it: the names of the apps, the client's
\* path, the bin's size, that Windows.old is there, and nothing if nothing is left.
\* The temporary files are looked at one by one when they are deleted.
Unchanged ==
  \/ tweak = "temp"
  \/ /\ Seen # {}
     /\ CASE tweak = "bin" -> TotalSize(Seen) = TotalSize(plan)
          [] tweak = "windows_old" -> TRUE
          [] OTHER -> Seen = plan

-----------------------------------------------------------------------------
\* The list is read in the background while the window builds its tweaks.
ReadList ==
  /\ tweak = "apps" /\ list = NotRead
  /\ \/ list' = present /\ NoFault
     \/ list' = Unreadable /\ Fault
  /\ UNCHANGED <<present, bundled, found, plan, removed, others, steps>>

\* An unreadable list or a bin that does not answer is refused, never guessed.
RemovalScan ==
  /\ tweak = "apps" => list # NotRead
  /\ Seen # {} /\ PlanStep
  /\ found' = Seen /\ plan' = Seen
  /\ UNCHANGED <<present, bundled, list, removed, others, faults>>

RemovalDrift ==
  /\ ~Unchanged /\ StandDown /\ found' = Seen /\ plan' = {}
  /\ UNCHANGED <<present, bundled, list, removed, others, faults>>

\* No backup.  The second scan decides what will be removed.
Proceed ==
  /\ Unchanged /\ BackupStep
  /\ found' = (IF tweak = "temp" THEN found ELSE Seen)
  /\ UNCHANGED <<present, bundled, list, plan, removed, others, faults>>

\* The shell and the deletion of the folder take whatever is there, the uninstaller
\* the client that is found first; apps and temporary files go by what the scan found,
\* and a part of Windows is refused once more.
Targets ==
  CASE tweak \in {"apps", "temp"} -> (found \cap present) \ Spared
    [] tweak = "onedrive" -> Client
    [] OTHER -> present \cap Group

\* `taken` are gone, `told` were reported removed: an uninstaller that times out
\* has done its work unreported, and one that finds nothing reports success.
Told(taken) ==
  {told \in SUBSET found : told \cap present \subseteq taken}

\* One app that went is a success; files that stay are not a failure.
SomeAppWent(told) == told # {}
\* Decided by looking for a client anywhere, whatever the uninstaller answers, unless
\* it raises.
ClientGone(taken, told) == Clients(present \ taken) = {} /\ told = found
\* The shell's answer.
BinEmptied(taken, told) == Targets = taken /\ told = found
\* The deletion counts what it could not delete.
FolderGone(taken, told) == Targets = taken /\ told = found
Cleaned == TRUE

Succeeded(taken, told) ==
  CASE tweak = "apps" -> SomeAppWent(told) [] tweak = "onedrive" -> ClientGone(taken, told)
    [] tweak = "bin" -> BinEmptied(taken, told) [] tweak = "temp" -> Cleaned
    [] tweak = "windows_old" -> FolderGone(taken, told)

\* What was removed is also kept from new users, where PGM may.
Deprovisioned(told) ==
  IF tweak = "apps" /\ Admin THEN {bundled \ told, bundled} ELSE {bundled}

RemovalApply ==
  /\ \E taken \in SUBSET Targets : \E told \in Told(taken) :
       /\ IF told = found THEN NoFault ELSE Fault
       /\ present' = present \ taken /\ removed' = removed \cup taken
       /\ bundled' \in Deprovisioned(told)
       /\ ApplyStep(Succeeded(taken, told))
  /\ UNCHANGED <<list, found, plan, others>>

-----------------------------------------------------------------------------
\* Everything of the group, whatever was removed: an app that came back counts.
Remaining == IF tweak = "apps" THEN Find(present) ELSE present \cap Group

\* Files went, or the drive has more room than before, whoever made it.
SpaceGrew == removed # {} \/ ~(plan \subseteq present)

\* The apps are listed again.  A list that cannot be read is empty, and an empty
\* list confirms; a bin that does not answer denies.
RemovalVerify ==
  /\ at = "written"
  /\ \/ NoFault /\ VerifyStep(
          IF tweak = "temp" THEN SpaceGrew ELSE Remaining = {})
     \/ tweak = "apps" /\ VerifyStep(TRUE) /\ Fault
     \/ tweak = "bin" /\ VerifyStep(FALSE) /\ Fault
  /\ UNCHANGED <<present, bundled, list, found, plan, removed, others>>

\* "Unreachable": with no row nothing is put back, whoever asks.
RemovalRollback ==
  /\ at = "rollback" /\ RollbackStep(FALSE) /\ plan' = {}
  /\ UNCHANGED <<present, bundled, list, found, removed, others, faults>>

-----------------------------------------------------------------------------
\* The Store installs and updates apps, players put files into the bin.
OtherChanges ==
  /\ Other
  /\ \E t \in Things : present' = IF t \in present THEN present \ {t} ELSE present \cup {t}
  /\ UNCHANGED <<bundled, list, found, plan, removed, faults, steps>>

RemovalNext ==
  /\ UNCHANGED <<tweak, row>>
  /\ \/ ReadList \/ RemovalScan \/ RemovalDrift \/ Proceed \/ RemovalApply
     \/ RemovalVerify \/ RemovalRollback \/ OtherChanges

RemovalSpec == RemovalInit /\ [][RemovalNext]_removalVars
-----------------------------------------------------------------------------
\* "We never remove something we were not explicitly told to": apps, the client and
\* temporary files that are gone for good were in the preview, and are no part of
\* Windows.  Of the bin the preview gives the size, and what is thrown away is as much;
\* of Windows.old that it is there.
OnlyShownGoes ==
  LET gone == removed' \ removed
  IN  gone # {} =>
        CASE tweak = "bin" -> TotalSize(BinContents) = TotalSize(plan)
          [] tweak = "windows_old" -> plan # {}
          [] OTHER -> gone \subseteq plan \ Spared

OnlyShownRemoved == [][OnlyShownGoes]_removalVars

\* "Re-enumerate rather than trust the uninstall command": the tweak says that what
\* it removes is gone only when it is.
ConfirmedGone ==
  at = "written" /\ said' = "verified" /\ tweak # "temp" =>
    present' \cap Group \subseteq Spared

GoneWhenConfirmed == [][ConfirmedGone]_removalVars
===============================================================================
