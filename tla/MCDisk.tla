-------------------------------- MODULE MCDisk --------------------------------
(***************************************************************************)
(* The jobs that delete and move folders on small instances: moving a       *)
(* folder to another drive (FolderMove), deleting one tree (TreeDelete), the *)
(* disk cleanup (DiskCleanup) and the Steam reset (SteamWipe).  The window runs one at a *)
(* time, so the first state chooses which; the others' variables stay.      *)
(***************************************************************************)
EXTENDS FolderMove, TreeDelete, DiskCleanup, SteamWipe, TLC

CONSTANTS
  Tasks,
  f1, f2, d1, d2   \* model values

VARIABLE task

-----------------------------------------------------------------------------
\* A folder with a subfolder, a link to another folder and a spared child.
TreeObjects == {"root", "sub", "inner", "deep", "spared", "config", "link",
                "swap", "new", "target", "precious"}

TreeKind == [o \in TreeObjects |->
  CASE o \in {"root", "sub", "inner", "spared", "target"} -> "dir"
    [] o \in {"link", "swap"} -> "link"
    [] OTHER -> "file"]

TreeName == [o \in TreeObjects |-> IF o = "swap" THEN "sub" ELSE o]

TreeHome == [o \in TreeObjects |->
  CASE o = "root" -> "Outside"
    [] o \in {"sub", "spared", "link"} -> "root"
    [] o = "inner" -> "sub"
    [] o = "deep" -> "inner"
    [] o = "config" -> "spared"
    [] o = "precious" -> "target"
    [] OTHER -> "Elsewhere"]

-----------------------------------------------------------------------------
\* Temp with a minimum age, downloads cleared of user files, a launcher cache
\* inside a protected folder, and a row that needs the administrator.
Row(id, sees, roots, aged, admin, userFiles, waives) ==
  [id |-> id, sees |-> sees, roots |-> roots, aged |-> aged, admin |-> admin,
   prunes |-> aged, userFiles |-> userFiles, waives |-> waives]

SomeItems == {"old", "subfile", "save", "key", "cache"}

ItemFolder == [f \in SomeItems |->
  CASE f = "subfile" -> "temp_sub" [] f = "cache" -> "vendor" [] OTHER -> "temp"]

SomeRows ==
  << Row("temp", {"old", "subfile", "save", "cache"}, {"temp"}, TRUE, FALSE, FALSE, {}),
     Row("files", {"save", "key", "cache"}, {"temp"}, FALSE, FALSE, TRUE, {"vendor"}),
     Row("windows", {"old"}, {"temp"}, TRUE, TRUE, FALSE, {}) >>

NotAfterTheGate == Stages \ {"gate", "delete"}

-----------------------------------------------------------------------------
\* Three games, one on the keep-list, a cache, and two sign-in targets.
SomeGames == {"dota", "rust", "demo"}
OwnFolder == [g \in SomeGames |-> g]
SparedFiles == [t \in {"config", "htmlcache"} |->
  IF t = "config" THEN {"config.vdf", "libraryfolders.vdf"} ELSE {}]

-----------------------------------------------------------------------------
\* The two contents of the moved folder's files differ in size.
Sizes == [d \in Data |-> IF d = d1 THEN 1 ELSE 2]

ASSUME FolderSound == FolderAssumption /\ WritesShow

\* Where no folder is moved, it is empty and stays so.
NotMoving == Init /\ truth = Nothing

-----------------------------------------------------------------------------
DiskInit ==
  /\ task \in Tasks /\ TreeInit /\ CleanupInit /\ WipeInit
  /\ IF task = "move" THEN Init ELSE NotMoving

DiskNext ==
  /\ UNCHANGED task
  /\ \/ task = "tree" /\ TreeNext /\ UNCHANGED <<cleanupVars, wipeVars, vars>>
     \/ task = "cleanup" /\ CleanupNext /\ UNCHANGED <<treeVars, wipeVars, vars>>
     \/ task = "steam" /\ WipeNext /\ UNCHANGED <<treeVars, cleanupVars, vars>>
     \/ task = "move" /\ Next /\ UNCHANGED <<treeVars, cleanupVars, wipeVars>>

DiskSpec == DiskInit /\ [][DiskNext]_<<task, treeVars, cleanupVars, wipeVars, vars>>
===============================================================================
