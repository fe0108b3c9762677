------------------------------ MODULE DiskCleanup -----------------------------
(***************************************************************************)
(* The disk cleanup:                                                        *)
(*   windows/cleanup/engine.py, walk.py, deletion.py, rules.py              *)
(*   core/cleanup/service.py, windows/cleanup/recycle_bin.py                *)
(*   utilities/secure_delete.py  delete_file                                *)
(* A scan inventories every category in parallel and changes nothing; the  *)
(* operator ticks categories; the run goes through them in the catalogue's  *)
(* order: every item of a category passes the gate again, then the          *)
(* approved ones are deleted, in any order because a pool may do it, then   *)
(* folders left empty are removed.  Other programs work on the same files   *)
(* all the while.                                                           *)
(*                                                                          *)
(* What a path says is static: the folder a file lies in, which categories  *)
(* see it, and which of them its name protects it from.  What is on the     *)
(* disk changes: whether it still is a file, when it was last written, and  *)
(* whether its folder still leads into the category's roots.                *)
(***************************************************************************)
EXTENDS Naturals, Sequences, FiniteSets

CONSTANTS
  Items, Folders,  \* the files, and the folders they lie in
  FolderOf,        \* [Items -> Folders]
  Catalogue,       \* the CleanupCategory records, in order
  ProtectedFolders,\* a component of the path, or the place, is protected
  ProtectedFiles,  \* protected by their own name
  UserFiles,       \* protected by an extension a category may be freed from
  Admin,           \* is_admin()
  RewriteMoments,  \* the stages in which others may rewrite a file
  ReplaceMoments,  \* the stages in which others may put a link where a folder was
  CleanupOthers

\* sees: the files its patterns match beneath its roots; aged: min_age_hours > 0;
\* waives: the folders whose protected name it may pass.
CleanupCategory ==
  [id : STRING, sees : SUBSET Items, roots : SUBSET Folders, aged : BOOLEAN,
   admin : BOOLEAN, prunes : BOOLEAN, userFiles : BOOLEAN, waives : SUBSET Folders]

\* Between two categories of a run the stage is "next".
Stages == {"idle", "scan", "planned", "next", "gate", "delete", "done"}

ASSUME CleanupAssumption ==
  /\ FolderOf \in [Items -> Folders]
  /\ Catalogue \in Seq(CleanupCategory)
  /\ RewriteMoments \subseteq Stages /\ ReplaceMoments \subseteq Stages

Rows == DOMAIN Catalogue
Bin == "recycle_bin"
Ids == {Catalogue[c].id : c \in Rows}

VARIABLES
  thing,     \* [Items -> {"file", "link", "dir", "gone"}]: what has the name
  fresh,     \* files written within the minimum age of their category
  inUse,     \* files another program has open
  away,      \* folders replaced by a link that leads out of the roots
  pruned,    \* folders removed
  bin,       \* the recycle bin holds items
  stage, unscanned,
  plan,      \* [Rows -> SUBSET Items]: CategoryReport.items
  planned,   \* rows whose report is available
  binSeen,   \* plan.bin_state.has_content
  selected, dry,
  row,       \* the row being cleaned
  pending,   \* items still to pass the delete-time gate
  approved,  \* items that passed it
  tally,     \* [deleted, failed, refused]
  binEmptied,
  removed,   \* history: <<row, file>> deleted by this program
  cleanupOthers

filesystem == <<thing, fresh, inUse, away>>
inventory == <<plan, planned, binSeen>>
choice == <<selected, dry>>
cleanupVars ==
  <<thing, fresh, inUse, away, pruned, bin, stage, unscanned, plan, planned,
    binSeen, selected, dry, row, pending, approved, tally, binEmptied, removed,
    cleanupOthers>>

CleanupInit ==
  /\ thing = [f \in Items |-> "file"] /\ fresh = {} /\ inUse = {} /\ away = {}
  /\ pruned = {} /\ bin = TRUE
  /\ stage = "idle" /\ unscanned = {}
  /\ plan = [c \in Rows |-> {}] /\ planned = {} /\ binSeen = FALSE
  /\ selected = {} /\ dry = FALSE /\ row = 1 /\ pending = {} /\ approved = {}
  /\ tally = [deleted |-> 0, failed |-> 0, refused |-> 0]
  /\ binEmptied = FALSE /\ removed = {} /\ cleanupOthers = 0

-----------------------------------------------------------------------------
(* Mistakes the decisions below could contain.                              *)

InventoryTrusted(c, f) == f \in plan[c]
EverythingChosen(c) == TRUE

-----------------------------------------------------------------------------
(* The gates.                                                               *)

\* resolve_roots: the folders of the category this machine has.
RootsOf(c) == Catalogue[c].roots

\* component_is_protected over the path's parents, within a protected root,
\* with the waivers of the category.
FolderProtected(c, f) == FolderOf[f] \in ProtectedFolders \ Catalogue[c].waives

\* The file's own name and extension.
NameProtected(c, f) ==
  f \in ProtectedFiles \/ (f \in UserFiles /\ ~Catalogue[c].userFiles)

TooNew(c, f) == Catalogue[c].aged /\ f \in fresh

\* walk.candidates: no link is followed or listed, no protected folder entered.
Candidates(c) ==
  {f \in Catalogue[c].sees : /\ thing[f] = "file" /\ FolderOf[f] \notin away
                             /\ ~FolderProtected(c, f)}

\* _approves, as the scan asks it.
Approves(c, f) == ~NameProtected(c, f) /\ ~TooNew(c, f)

\* _approves_for_delete: the parent is resolved once per category; only a
\* category with a minimum age looks at the file again, and then a missing
\* file is refused here.  Without one, deleting it fails later.
ApprovesForDelete(c, f) ==
  /\ FolderOf[f] \notin away
  /\ ~FolderProtected(c, f) /\ ~NameProtected(c, f)
  /\ Catalogue[c].aged => thing[f] # "gone" /\ ~TooNew(c, f)

\* service.run: the rows the operator ticked, of those that had a report.
Chosen(c) == Catalogue[c].id \in selected /\ c \in planned

\* delete_file through a handle, and attempt: a link or a folder under the
\* name is refused, a file in use or gone is a failure.
Outcome(f) ==
  CASE f \in inUse \/ thing[f] = "gone" -> "failed"
    [] thing[f] \in {"link", "dir"} -> "refused"
    [] OTHER -> "deleted"

\* _record: the field of the result an outcome is counted in.
CountedAs(outcome) == outcome

-----------------------------------------------------------------------------
(* Plan: scan, show, confirm.                                               *)

StartScan ==
  /\ stage = "idle" /\ stage' = "scan" /\ unscanned' = Rows
  /\ UNCHANGED <<filesystem, pruned, bin, inventory, choice, row, pending,
                 approved, tally, binEmptied, removed, cleanupOthers>>

\* _scan_category, in a thread of its own.
ScanCategory(c) ==
  /\ stage = "scan" /\ c \in unscanned /\ unscanned' = unscanned \ {c}
  /\ IF (Catalogue[c].admin /\ ~Admin) \/ RootsOf(c) = {}
       THEN UNCHANGED <<plan, planned>>
       ELSE /\ planned' = planned \cup {c}
            /\ plan' = [plan EXCEPT ![c] = {f \in Candidates(c) : Approves(c, f)}]
  /\ UNCHANGED <<filesystem, pruned, bin, stage, binSeen, choice, row, pending,
                 approved, tally, binEmptied, removed, cleanupOthers>>

QueryBin ==
  /\ stage = "scan" /\ unscanned = {} /\ stage' = "planned"
  /\ binSeen' = bin
  /\ UNCHANGED <<filesystem, pruned, bin, unscanned, plan, planned, choice, row,
                 pending, approved, tally, binEmptied, removed, cleanupOthers>>

\* The operator ticks and confirms; a dry run stops after the gate.
ConfirmCleanup(ids, try) ==
  /\ stage = "planned" /\ stage' = "next"
  /\ selected' = ids /\ dry' = try /\ row' = 1
  /\ UNCHANGED <<filesystem, pruned, bin, unscanned, inventory, pending, approved,
                 tally, binEmptied, removed, cleanupOthers>>

-----------------------------------------------------------------------------
(* Run: CleanupEngine.clean, row by row.                                    *)

NextCategory ==
  /\ stage = "next" /\ row <= Len(Catalogue)
  /\ IF Chosen(row)
       THEN pending' = plan[row] /\ approved' = {} /\ stage' = "gate" /\ UNCHANGED row
       ELSE row' = row + 1 /\ UNCHANGED <<pending, approved, stage>>
  /\ UNCHANGED <<filesystem, pruned, bin, unscanned, inventory, choice, tally,
                 binEmptied, removed, cleanupOthers>>

Gate(f) ==
  /\ stage = "gate" /\ f \in pending /\ pending' = pending \ {f}
  /\ IF ApprovesForDelete(row, f)
       THEN approved' = approved \cup {f} /\ UNCHANGED tally
       ELSE tally' = [tally EXCEPT !.refused = @ + 1] /\ UNCHANGED approved
  /\ UNCHANGED <<filesystem, pruned, bin, stage, unscanned, inventory, choice, row,
                 binEmptied, removed, cleanupOthers>>

\* A dry run counts what passed and goes on to the next row.
Gated ==
  /\ stage = "gate" /\ pending = {}
  /\ IF dry
       THEN /\ tally' = [tally EXCEPT !.deleted = @ + Cardinality(approved)]
            /\ row' = row + 1 /\ stage' = "next"
       ELSE stage' = "delete" /\ UNCHANGED <<tally, row>>
  /\ UNCHANGED <<filesystem, pruned, bin, unscanned, inventory, choice, pending,
                 approved, binEmptied, removed, cleanupOthers>>

DeleteItem(f) ==
  /\ stage = "delete" /\ f \in approved /\ approved' = approved \ {f}
  /\ tally' = [tally EXCEPT ![CountedAs(Outcome(f))] = @ + 1]
  /\ IF Outcome(f) = "deleted"
       THEN thing' = [thing EXCEPT ![f] = "gone"] /\ removed' = removed \cup {<<row, f>>}
       ELSE UNCHANGED <<thing, removed>>
  /\ UNCHANGED <<fresh, inUse, away, pruned, bin, stage, unscanned, inventory,
                 choice, row, pending, binEmptied, cleanupOthers>>

\* _prune: empty folders beneath the roots, never a root, a link or a
\* protected folder; a waiver does not extend to the folder itself.
Prunable(c) ==
  {d \in Folders \ (RootsOf(c) \cup away \cup ProtectedFolders) :
     /\ \E f \in Catalogue[c].sees : FolderOf[f] = d
     /\ \A f \in Items : FolderOf[f] = d => thing[f] = "gone"}

Prune ==
  /\ stage = "delete" /\ approved = {} /\ stage' = "next" /\ row' = row + 1
  /\ pruned' = IF Catalogue[row].prunes THEN pruned \cup Prunable(row) ELSE pruned
  /\ UNCHANGED <<filesystem, bin, unscanned, inventory, choice, pending, approved,
                 tally, binEmptied, removed, cleanupOthers>>

\* recycle_bin.empty: what another program has open stays in it.
EmptyBin ==
  /\ stage = "next" /\ row > Len(Catalogue) /\ stage' = "done"
  /\ IF Bin \in selected /\ binSeen /\ ~dry
       THEN \E stays \in {FALSE, bin} : bin' = stays /\ binEmptied' = ~stays
       ELSE UNCHANGED bin /\ binEmptied' = (Bin \in selected /\ binSeen)
  /\ UNCHANGED <<filesystem, pruned, unscanned, inventory, choice, row, pending,
                 approved, tally, removed, cleanupOthers>>

-----------------------------------------------------------------------------
(* Other programs write, replace and open files and put links where folders *)
(* were.  The program cannot stop them from doing either between the gate   *)
(* of a row and its deletions: the gate resolves each folder once for the   *)
(* whole row, and delete_file looks at the last component of the path only. *)
(* RewriteMoments and ReplaceMoments say in which stages they do.           *)

OthersTouch ==
  /\ cleanupOthers < CleanupOthers /\ cleanupOthers' = cleanupOthers + 1
  /\ \/ \E f \in Items : /\ stage \in RewriteMoments /\ thing[f] = "file"
                         /\ fresh' = fresh \cup {f} /\ UNCHANGED <<thing, inUse, away>>
     \/ \E f \in Items, k \in {"link", "dir", "gone"} :
          /\ thing[f] = "file" /\ f \notin inUse
          /\ thing' = [thing EXCEPT ![f] = k] /\ UNCHANGED <<fresh, inUse, away>>
     \/ \E f \in Items : inUse' = inUse \cup {f} /\ thing[f] = "file"
                         /\ UNCHANGED <<thing, fresh, away>>
     \/ \E d \in Folders : /\ stage \in ReplaceMoments /\ d \notin pruned
                           /\ away' = away \cup {d} /\ UNCHANGED <<thing, fresh, inUse>>
  /\ UNCHANGED <<pruned, bin, stage, unscanned, inventory, choice, row, pending,
                 approved, tally, binEmptied, removed>>

OthersUseBin ==
  /\ cleanupOthers < CleanupOthers /\ cleanupOthers' = cleanupOthers + 1 /\ bin' = ~bin
  /\ UNCHANGED <<filesystem, pruned, stage, unscanned, inventory, choice, row, pending,
                 approved, tally, binEmptied, removed>>

CleanupNext ==
  \/ StartScan \/ QueryBin
  \/ \E c \in Rows : ScanCategory(c)
  \/ \E ids \in SUBSET (Ids \cup {Bin}), try \in BOOLEAN : ConfirmCleanup(ids, try)
  \/ NextCategory \/ Gated \/ Prune \/ EmptyBin
  \/ \E f \in Items : Gate(f) \/ DeleteItem(f)
  \/ OthersTouch \/ OthersUseBin

CleanupSpec == CleanupInit /\ [][CleanupNext]_cleanupVars

-----------------------------------------------------------------------------
(* Properties.                                                              *)

\* Every file deleted was shown in the plan, in a row the operator ticked,
\* lies in the row's own place, is not protected from it and, where the row
\* has a minimum age, was not written since; a dry run deletes nothing, and
\* the bin is left alone unless ticked (engine.py:386-439, service.py:159).
OnlyAgreedData ==
  /\ \A r \in removed :
       LET c == r[1] f == r[2] IN
         /\ ~dry /\ Catalogue[c].id \in selected /\ f \in plan[c]
         /\ ~FolderProtected(c, f) /\ ~NameProtected(c, f)
  /\ \A d \in pruned : d \notin ProtectedFolders /\ \A f \in Items :
       FolderOf[f] = d => thing[f] = "gone"
  /\ binEmptied => Bin \in selected

\* No row deletes a file that others wrote before that row's gate, after the
\* scan or after an earlier row of the run, where the row has a minimum age,
\* nor one in a folder that leads elsewhere since (engine.py:386).  Nothing
\* looks again after the gate: others act at the moments of RewriteMoments
\* and ReplaceMoments, which leave the time from gate to deletions out.
InUseStays ==
  [][\A r \in removed' \ removed :
       /\ FolderOf[r[2]] \notin away
       /\ Catalogue[r[1]].aged => r[2] \notin fresh]_cleanupVars
===============================================================================
