------------------------------ MODULE FolderMove ------------------------------
(***************************************************************************)
(* Deleting one folder, or moving it to another drive behind a junction:   *)
(*   windows/folder_ops.py     plan_delete, plan_move, run_folder, _move    *)
(*   utilities/tree_copy.py    copy_tree                                    *)
(*   utilities/junction.py     create_junction                              *)
(*   utilities/tree_delete.py  delete_tree, measure_tree, of a flat folder  *)
(* A step of the worker is one call to the file system.  Between any two of *)
(* them another program may write, open or recreate what is at the source  *)
(* path, and the machine may lose power.  Nothing in the program looks for *)
(* an interrupted move at the next start.                                  *)
(*                                                                         *)
(* The folder is flat: a file is a name with a content, and what a         *)
(* measurement sees of a content is its size.                              *)
(***************************************************************************)
EXTENDS Integers, FiniteSets, FiniteSetsExt

CONSTANTS
  Files, Data, Absent,
  SizeOf,          \* [Data -> Nat]: all that measure_tree sees of a content
  QuietSteps,      \* the steps before which no other program writes
  DestinationRaced,\* may others create the destination after the plan?
  MaxRuns, MaxWrites, MaxFaults, MaxCrashes

FolderAssumption ==
  /\ IsFiniteSet(Files) /\ Absent \notin Data
  /\ SizeOf \in [Data -> Nat]
  /\ DestinationRaced \in BOOLEAN
  /\ {MaxRuns, MaxWrites, MaxFaults, MaxCrashes} \subseteq Nat

\* The paths a run uses: the folder's own, its two temporary names, the new one.
Paths == {"source", "probe", "aside", "dest"}
Content == [Files -> Data \cup {Absent}]
Nothing == [f \in Files |-> Absent]
Node == [kind : {"none", "dir", "link"}, files : Content]
None == [kind |-> "none", files |-> Nothing]
Dir(files) == [kind |-> "dir", files |-> files]
Link == [kind |-> "link", files |-> Nothing]    \* always to "dest"

Steps == {"idle", "planned", "probe", "probeback", "copy", "copying",
          "verify", "verifycopy", "swap", "mklink", "reparse", "unlink",
          "putback", "discard", "deleteaside", "sweep"}

VARIABLES
  at,        \* [Paths -> Node]: the disk
  strays,    \* folders left under the temporary names of earlier runs
  held,      \* the folder another program has something open in, or "none"
  theirs,    \* the destination was created by another program
  pc,        \* the worker's next step
  action,    \* FolderPlan.action
  left,      \* the entries a listing still has to go through
  copied,    \* CopyStats: files and bytes
  victim,    \* the folder delete_tree works on
  failed,    \* DeleteStats.errors is not empty
  result,    \* what the operator was told last
  named,     \* the paths that message names as holding the files
  truth,     \* history: what was last stored under the source path
  runs, writes, faults, crashes

disk == <<at, strays>>
others == <<held, theirs, truth>>
settled == <<theirs, truth>>
job == <<action, left, copied, victim, failed>>
told == <<result, named>>
counts == <<runs, writes, faults, crashes>>
vars == <<at, strays, held, theirs, pc, action, left, copied, victim, failed,
          result, named, truth, runs, writes, faults, crashes>>

Present(files) == {f \in Files : files[f] # Absent}
Bytes(files) == MapThenSumSet(LAMBDA f : SizeOf[files[f]], Present(files))

Init ==
  /\ \E files \in Content : truth = files /\ at = [p \in Paths |->
       IF p = "source" THEN Dir(files) ELSE None]
  /\ strays = {} /\ held = "none" /\ theirs = FALSE
  /\ pc = "idle" /\ action = "MOVE" /\ left = {}
  /\ copied = [files |-> 0, bytes |-> 0]
  /\ victim = "dest" /\ failed = FALSE
  /\ result = "none" /\ named = {}
  /\ runs = 0 /\ writes = 0 /\ faults = 0 /\ crashes = 0

-----------------------------------------------------------------------------
(* Mistakes the decisions below could contain, to see that they would be    *)
(* noticed.                                                                 *)

CountsOnly(files) == copied.files = Cardinality(Present(files))
OpenIgnored == TRUE
DiscardAlways == "discard"
SweptBeforeLink == "deleteaside"

-----------------------------------------------------------------------------
(* Decisions.                                                               *)

\* _verify_copy: does a measurement equal what was copied?
SameMeasure(files) ==
  copied = [files |-> Cardinality(Present(files)), bytes |-> Bytes(files)]

\* Windows renames no folder with anything open inside.
Renamable == held # "source"

\* After a failed junction the copy goes only if the original came back.
AfterLostOriginal == "idle"

\* block_reason and _open_root: a link or a missing folder is refused.
PlainDir(p) == at[p].kind = "dir"

\* Where the message says a folder is that could not be renamed back.
ProbeLeftIn == {"probe"}

\* What follows the rename aside.
AfterSwap == "mklink"

-----------------------------------------------------------------------------
(* Failures and messages.                                                   *)

NoFault == UNCHANGED faults
Fault == faults < MaxFaults /\ faults' = faults + 1

Refuse(where) == pc' = "idle" /\ result' = "refused" /\ named' = where

\* The operator's plan: measured, refused or confirmed.  The temporary names
\* of a run carry a fresh token, so what earlier runs left is out of its way.
Plan(act) ==
  /\ pc = "idle" /\ runs < MaxRuns
  /\ PlainDir("source")
  /\ act = "MOVE" => at["dest"].kind = "none"
  /\ runs' = runs + 1 /\ action' = act /\ pc' = "planned"
  /\ strays' = strays \cup {at[p] : p \in {q \in {"probe", "aside"} : at[q] # None}}
  /\ at' = [at EXCEPT !["probe"] = None, !["aside"] = None]
  /\ result' = "none" /\ named' = {}
  /\ UNCHANGED <<others, left, copied, victim, failed, writes, faults, crashes>>

Cancel ==
  /\ pc = "planned" /\ pc' = "idle"
  /\ UNCHANGED <<disk, others, job, told, counts>>

-----------------------------------------------------------------------------
(* delete_tree of a flat folder: list it, delete each entry, delete it.     *)

OpenForDelete(p) ==
  /\ pc' = "sweep" /\ victim' = p /\ left' = Present(at[p].files) /\ failed' = FALSE

\* _delete_leaf; one that Windows refuses is counted and left.
SweepFile ==
  /\ pc = "sweep"
  /\ \E f \in left :
       /\ left' = left \ {f}
       /\ \/ /\ NoFault
             /\ at' = [at EXCEPT ![victim].files[f] = Absent]
             /\ truth' = IF victim = "source" THEN [truth EXCEPT ![f] = Absent] ELSE truth
             /\ UNCHANGED failed
          \/ Fault /\ failed' = TRUE /\ UNCHANGED <<at, truth>>
  /\ UNCHANGED <<strays, held, theirs, pc, action, copied, victim, told,
                 runs, writes, crashes>>

\* The emptied folder itself; then the job is over.  What became of a discarded
\* copy is not looked at: the refusal already under way names nothing.
SweepRoot ==
  /\ pc = "sweep" /\ left = {}
  /\ \/ /\ at[victim].files = Nothing /\ NoFault
        /\ at' = [at EXCEPT ![victim] = None]
        /\ theirs' = (theirs /\ victim # "dest")
        /\ held' = IF held = victim THEN "none" ELSE held
     \/ at[victim].files # Nothing /\ NoFault /\ UNCHANGED <<at, theirs, held>>
     \/ Fault /\ UNCHANGED <<at, theirs, held>>
  /\ pc' = "idle"
  /\ IF victim = "dest" THEN UNCHANGED told
     ELSE /\ named' = {p \in {victim} : at'[p] # None}
          /\ result' = IF failed \/ named' # {} THEN "partial" ELSE "done"
  /\ UNCHANGED <<strays, truth, action, left, copied, victim, failed,
                 runs, writes, crashes>>

-----------------------------------------------------------------------------
(* run_folder.                                                              *)

\* _require_actionable and, for a move, the destination: a plan is checked again.
Recheck ==
  /\ pc = "planned"
  /\ \/ ~PlainDir("source") /\ NoFault /\ Refuse({}) /\ UNCHANGED job
     \/ /\ action = "MOVE" /\ at["dest"].kind # "none"
        /\ NoFault /\ Refuse({}) /\ UNCHANGED job
     \/ /\ action = "MOVE" /\ PlainDir("source") /\ at["dest"].kind = "none"
        /\ pc' = "probe" /\ UNCHANGED <<job, told, faults>>
     \/ /\ action = "DELETE" /\ PlainDir("source") /\ NoFault
        /\ OpenForDelete("source") /\ UNCHANGED <<action, copied, told>>
     \/ action = "DELETE" /\ Fault /\ Refuse({}) /\ UNCHANGED job
  /\ UNCHANGED <<disk, others, runs, writes, crashes>>

\* os.rename of a folder; whatever is open in it stays open.
Move(p, q) ==
  /\ at' = [at EXCEPT ![q] = at[p], ![p] = None]
  /\ held' = IF held = p THEN q ELSE held
Unmoved == UNCHANGED <<at, held>>

\* _probe_unused, there and back.
Probe ==
  /\ pc = "probe"
  /\ \/ /\ Renamable /\ at["source"] # None /\ NoFault
        /\ Move("source", "probe") /\ pc' = "probeback" /\ UNCHANGED told
     \/ ~(Renamable /\ at["source"] # None) /\ NoFault /\ Refuse({}) /\ Unmoved
     \/ Fault /\ Refuse({}) /\ Unmoved
  /\ UNCHANGED <<strays, settled, job, runs, writes, crashes>>

ProbeBack ==
  /\ pc = "probeback"
  /\ \/ /\ at["source"] = None /\ NoFault
        /\ Move("probe", "source") /\ pc' = "copy" /\ UNCHANGED told
     \/ at["source"] # None /\ NoFault /\ Refuse(ProbeLeftIn) /\ Unmoved
     \/ Fault /\ Refuse(ProbeLeftIn) /\ Unmoved
  /\ UNCHANGED <<strays, settled, job, runs, writes, crashes>>

\* A refusal that first removes the partial copy.
DiscardAndRefuse == pc' = "discard" /\ result' = "refused" /\ named' = {}

\* copy_tree: create the destination, list the source.
StartCopy ==
  /\ pc = "copy"
  /\ \/ /\ PlainDir("source") /\ at["dest"] = None /\ NoFault
        /\ at' = [at EXCEPT !["dest"] = Dir(Nothing)]
        /\ left' = Present(at["source"].files)
        /\ copied' = [files |-> 0, bytes |-> 0]
        /\ pc' = "copying" /\ UNCHANGED told
     \/ /\ ~(PlainDir("source") /\ at["dest"] = None)
        /\ NoFault /\ DiscardAndRefuse /\ UNCHANGED <<at, left, copied>>
     \/ Fault /\ DiscardAndRefuse /\ UNCHANGED <<at, left, copied>>
  /\ UNCHANGED <<strays, others, action, victim, failed, runs, writes, crashes>>

\* One file, with the size the copy has; one that is gone stops the copy.
CopyFile ==
  /\ pc = "copying"
  /\ \E f \in left :
       LET data == at["source"].files[f] IN
       \/ /\ data # Absent /\ NoFault
          /\ at' = [at EXCEPT !["dest"].files[f] = data]
          /\ left' = left \ {f}
          /\ copied' = [files |-> copied.files + 1,
                        bytes |-> copied.bytes + SizeOf[data]]
          /\ UNCHANGED <<pc, told>>
       \/ data = Absent /\ NoFault /\ DiscardAndRefuse /\ UNCHANGED <<at, left, copied>>
       \/ Fault /\ DiscardAndRefuse /\ UNCHANGED <<at, left, copied>>
  /\ UNCHANGED <<strays, others, action, victim, failed, runs, writes, crashes>>

\* Times and attributes of the folders, then _verify_copy.
CopyDone ==
  /\ pc = "copying" /\ left = {}
  /\ \/ NoFault /\ pc' = "verify" /\ UNCHANGED told
     \/ Fault /\ DiscardAndRefuse
  /\ UNCHANGED <<disk, others, job, runs, writes, crashes>>

\* _verify_copy measures the source again, then the copy.
Measure(p, next) ==
  /\ \/ PlainDir(p) /\ SameMeasure(at[p].files) /\ NoFault /\ pc' = next /\ UNCHANGED told
     \/ ~(PlainDir(p) /\ SameMeasure(at[p].files)) /\ NoFault /\ DiscardAndRefuse
     \/ Fault /\ DiscardAndRefuse
  /\ UNCHANGED <<disk, others, job, runs, writes, crashes>>
VerifySource == pc = "verify" /\ Measure("source", "verifycopy")
VerifyCopy == pc = "verifycopy" /\ Measure("dest", "swap")

\* The source is renamed aside.
Swap ==
  /\ pc = "swap"
  /\ \/ /\ Renamable /\ at["source"] # None /\ NoFault
        /\ Move("source", "aside")
        /\ pc' = AfterSwap /\ UNCHANGED told
     \/ /\ ~(Renamable /\ at["source"] # None) /\ NoFault
        /\ DiscardAndRefuse /\ Unmoved
     \/ Fault /\ DiscardAndRefuse /\ Unmoved
  /\ UNCHANGED <<strays, settled, job, runs, writes, crashes>>

\* create_junction: an empty folder that must be new ...
MakeLinkDir ==
  /\ pc = "mklink"
  /\ \/ /\ at["source"] = None /\ PlainDir("dest") /\ NoFault
        /\ at' = [at EXCEPT !["source"] = Dir(Nothing)] /\ pc' = "reparse"
     \/ /\ ~(at["source"] = None /\ PlainDir("dest")) /\ NoFault
        /\ pc' = "putback" /\ UNCHANGED at
     \/ Fault /\ pc' = "putback" /\ UNCHANGED at
  /\ UNCHANGED <<strays, others, job, told, runs, writes, crashes>>

\* ... becomes the junction, which Windows refuses of a folder with entries.
Reparse ==
  /\ pc = "reparse"
  /\ \/ /\ at["source"] = Dir(Nothing) /\ NoFault
        /\ at' = [at EXCEPT !["source"] = Link] /\ pc' = "deleteaside"
     \/ /\ at["source"] # Dir(Nothing) /\ NoFault
        /\ pc' = "unlink" /\ UNCHANGED at
     \/ Fault /\ pc' = "unlink" /\ UNCHANGED at
  /\ UNCHANGED <<strays, others, job, told, runs, writes, crashes>>

\* A half-made link is removed, if it is still an empty folder.
Unlink ==
  /\ pc = "unlink"
  /\ \/ /\ at["source"] = Dir(Nothing) /\ NoFault
        /\ at' = [at EXCEPT !["source"] = None]
     \/ at["source"] # Dir(Nothing) /\ NoFault /\ UNCHANGED at
     \/ Fault /\ UNCHANGED at
  /\ pc' = "putback"
  /\ UNCHANGED <<strays, others, job, told, runs, writes, crashes>>

\* The original goes back; if it cannot, the message names both folders.
PutBack ==
  /\ pc = "putback"
  /\ \/ /\ at["source"] = None /\ NoFault
        /\ Move("aside", "source") /\ DiscardAndRefuse
     \/ /\ \/ at["source"] # None /\ NoFault
           \/ Fault
        /\ pc' = AfterLostOriginal
        /\ result' = "refused" /\ named' = {"aside", "dest"} /\ Unmoved
  /\ UNCHANGED <<strays, settled, job, runs, writes, crashes>>

\* The original, now aside, is deleted; not being able to open it is a leftover.
DeleteAside ==
  /\ pc = "deleteaside"
  /\ \/ PlainDir("aside") /\ NoFault /\ OpenForDelete("aside") /\ UNCHANGED told
     \/ /\ Fault /\ pc' = "idle" /\ result' = "partial" /\ named' = {"aside"}
        /\ UNCHANGED <<left, victim, failed>>
  /\ UNCHANGED <<disk, others, action, copied, runs, writes, crashes>>

\* _discard: delete_tree of the destination; its errors are only logged.
Discard ==
  /\ pc = "discard"
  /\ \/ PlainDir("dest") /\ NoFault /\ OpenForDelete("dest")
     \/ /\ ~PlainDir("dest") /\ NoFault
        /\ pc' = "idle" /\ UNCHANGED <<left, victim, failed>>
     \/ Fault /\ pc' = "idle" /\ UNCHANGED <<left, victim, failed>>
  /\ UNCHANGED <<disk, others, action, copied, told, runs, writes, crashes>>

-----------------------------------------------------------------------------
(* Everything else on the machine.                                          *)

\* Power is lost, or the program is killed.
Crash ==
  /\ pc # "idle" /\ crashes < MaxCrashes
  /\ crashes' = crashes + 1 /\ pc' = "idle"
  /\ result' = "none" /\ named' = {}
  /\ UNCHANGED <<disk, others, job, runs, writes, faults>>

\* A program stores, changes or removes a file under the source path: in the
\* folder it has open, or through the junction where there is one, creating the
\* folder where it is missing.
OtherWrites ==
  /\ writes < MaxWrites /\ pc \notin QuietSteps
  /\ writes' = writes + 1
  /\ LET p == IF held = "none" THEN "source" ELSE held
         q == IF at[p] = Link THEN "dest" ELSE p IN
     \E f \in Files, d \in Data \cup {Absent} :
       /\ at[q].files[f] # d
       /\ at' = [at EXCEPT ![q] = Dir([@.files EXCEPT ![f] = d])]
       /\ truth' = [truth EXCEPT ![f] = d]
  /\ UNCHANGED <<strays, held, theirs, pc, job, told, runs, faults, crashes>>

\* A program removes the folder, which it had emptied.
OtherRemoves ==
  /\ writes < MaxWrites /\ pc \notin QuietSteps
  /\ writes' = writes + 1
  /\ held = "none" /\ at["source"] = Dir(Nothing)
  /\ at' = [at EXCEPT !["source"] = None]
  /\ UNCHANGED <<strays, others, pc, job, told, runs, faults, crashes>>

\* A program opens something in the source folder, or closes what it has open.
OtherHolds ==
  /\ held = "none" /\ PlainDir("source") /\ pc \notin QuietSteps
  /\ held' = "source"
  /\ UNCHANGED <<disk, theirs, truth, pc, job, told, counts>>
OtherCloses ==
  /\ held # "none" /\ held' = "none"
  /\ UNCHANGED <<disk, theirs, truth, pc, job, told, counts>>

\* A program creates a folder where the move was going to put the copy.
OtherCreates ==
  /\ DestinationRaced /\ pc \notin {"idle", "deleteaside", "sweep"} /\ at["dest"] = None
  /\ \E files \in Content : at' = [at EXCEPT !["dest"] = Dir(files)]
  /\ theirs' = TRUE
  /\ UNCHANGED <<strays, held, truth, pc, job, told, counts>>

-----------------------------------------------------------------------------
Next ==
  \/ \E act \in {"MOVE", "DELETE"} : Plan(act)
  \/ Cancel \/ Recheck \/ SweepFile \/ SweepRoot
  \/ Probe \/ ProbeBack \/ StartCopy \/ CopyFile \/ CopyDone
  \/ VerifySource \/ VerifyCopy \/ Swap \/ MakeLinkDir \/ Reparse \/ Unlink
  \/ PutBack \/ DeleteAside \/ Discard
  \/ Crash \/ OtherWrites \/ OtherRemoves
  \/ OtherHolds \/ OtherCloses \/ OtherCreates

Spec == Init /\ [][Next]_vars

-----------------------------------------------------------------------------
(* Properties.                                                              *)

\* Every variable holds a value of its kind, a junction is only ever at the old
\* path, and a deletion never works on one.
TypeOK ==
  /\ at \in [Paths -> Node] /\ strays \subseteq Node
  /\ \A p \in Paths \ {"source"} : at[p].kind # "link"
  /\ \A stray \in strays : stray.kind = "dir"
  /\ held \in Paths \cup {"none"} /\ theirs \in BOOLEAN /\ truth \in Content
  /\ pc \in Steps /\ action \in {"MOVE", "DELETE"}
  /\ left \subseteq Files /\ copied \in [files : Nat, bytes : Nat]
  /\ victim \in Paths /\ failed \in BOOLEAN
  /\ pc = "sweep" => at[victim].kind # "link"
  /\ result \in {"none", "refused", "partial", "done"} /\ named \subseteq Paths
  /\ {runs, writes, faults, crashes} \subseteq Nat

\* What was last stored under the source path is on disk somewhere, whatever
\* step failed and wherever the power went: nothing but a confirmed DELETE
\* destroys the last copy of a file.
NothingLost ==
  \A f \in Files : truth[f] # Absent =>
    \/ \E p \in Paths : at[p].files[f] = truth[f]
    \/ \E stray \in strays : stray.files[f] = truth[f]

\* When the source is about to be renamed aside, the copy is the folder.
CopyIsExact == pc = "swap" => at["dest"].files = at["source"].files

\* "The original is where it was": after a refusal that names no place, the
\* folder is whole under its own name, and a place that one names holds all the
\* files.  (Unless programs changed them meanwhile, or a run before this one was
\* cut off and left the files under a temporary name.)
RefusalHonest ==
  pc = "idle" /\ result = "refused" /\ writes = 0 =>
    /\ named = {} /\ strays = {} => at["source"] = Dir(truth)
    /\ \A p \in named : at[p] = Dir(truth)

\* A move reported as done leaves the old path leading to all the files.
DoneMeansMoved ==
  pc = "idle" /\ result = "done" /\ action = "MOVE" =>
    at["source"].kind = "link" /\ at["aside"] = None

\* The original is deleted only when the junction in its place leads to a copy of
\* every file still to be deleted, or to what a program has since put there.
DeletedLast ==
  pc = "sweep" /\ victim = "aside" =>
    /\ at["source"] = Link
    /\ \A f \in Files : at["aside"].files[f] # Absent =>
         at["dest"].files[f] \in {at["aside"].files[f], truth[f]}

-----------------------------------------------------------------------------
(* What the proofs ask of other programs.                                   *)

Differ(a, b) == {f \in Files : a[f] # b[f]}
MeasuredAlike(a, b) == Cardinality(Present(a)) = Cardinality(Present(b)) /\ Bytes(a) = Bytes(b)

\* Contents of the folder that no more than MaxWrites writes lie between are told apart
\* by how many files and bytes they are.
MeasureTells ==
  \A a, b \in Content :
    Cardinality(Differ(a, b)) <= MaxWrites /\ MeasuredAlike(a, b) => a = b

\* Nothing is written after the last measurement of the source; what is written from
\* the first file copied to that measurement is nothing, or is told by it.
WritesShow ==
  /\ {"verifycopy", "swap"} \subseteq QuietSteps
  /\ {"copying", "verify"} \subseteq QuietSteps \/ MeasureTells
=============================================================================
