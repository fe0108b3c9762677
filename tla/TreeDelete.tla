------------------------------ MODULE TreeDelete ------------------------------
(***************************************************************************)
(* utilities/tree_delete.py: deleting or measuring a folder tree through   *)
(* handles, while other programs hold files open, add files, and move a    *)
(* subfolder away leaving a junction in its place (the folder move of this *)
(* program does just that).                                                *)
(*                                                                         *)
(* Objects of the file system keep their identity wherever they are; what  *)
(* a path names is looked up when it is opened.  A frame is a directory    *)
(* the walk holds open: directory() lists it, deletes its leaves, in any   *)
(* order because a pool of threads may do it, then goes into each child    *)
(* directory, which is deleted through the same handle when it comes back. *)
(***************************************************************************)
EXTENDS Naturals, Sequences, FiniteSets

CONSTANTS
  Objects,
  Kind,       \* [Objects -> {"file", "dir", "link"}]
  Name,       \* [Objects -> a name]
  Home,       \* [Objects -> Objects \cup {Outside, Elsewhere}]: where each is at first
  Root,       \* the folder to delete
  Spare,      \* names of the root's children that stay when its contents go
  Newcomers,  \* objects another program may put into the tree
  Target,     \* the folder every link leads to
  Outside,    \* the folder the root is in
  Elsewhere, Gone,
  TreeOthers  \* bound on what other programs do

VARIABLES
  where,      \* [Objects -> Objects \cup {Outside, Elsewhere, Gone}]
  locked,     \* objects another program has open and shares with nobody
  measuring,  \* measure_tree instead of delete_tree
  keepRoot,   \* delete the contents only, sparing Spare
  frames,     \* the open directories, the root's first
  anyFailed,  \* stats.failed > 0
  phase,      \* "idle", "walk", "done" or "refused"
  treeOthers

tree == <<where, locked>>
call == <<measuring, keepRoot>>
treeVars ==
  <<where, locked, measuring, keepRoot, frames, anyFailed, phase, treeOthers>>

Children(d) == {o \in Objects : where[o] = d}

Dirs == {o \in Objects : Kind[o] = "dir"}

\* d and what lies beneath it, however deep: every set of directories that has the
\* subdirectories of d, and of its own members, leads to it.
Closed(place, d) ==
  {D \in SUBSET Dirs : \A c \in Dirs : place[c] \in D \cup {d} => c \in D}
Beneath(place, d) ==
  LET closed == Closed(place, d)
  IN  {d} \cup {o \in Objects : \A D \in closed : place[o] \in D \cup {d}}

\* Objects lie in directories, siblings have different names, and what others put into
\* the tree comes from elsewhere.
ASSUME TreeAssumption ==
  /\ Kind \in [Objects -> {"file", "dir", "link"}]
  /\ Outside \notin Objects /\ Elsewhere \notin Objects /\ Gone \notin Objects
  /\ Outside # Elsewhere /\ Outside # Gone /\ Elsewhere # Gone
  /\ Home \in [Objects -> Objects \cup {Outside, Elsewhere}]
  /\ Root \in Objects /\ Home[Root] = Outside
  /\ \A o \in Objects : Home[o] \in Objects => Kind[Home[o]] = "dir"
  /\ \A o, p \in Objects :
       o # p /\ Home[o] = Home[p] /\ Home[o] # Elsewhere => Name[o] # Name[p]
  /\ Newcomers \subseteq Objects
  /\ \A o \in Newcomers : Kind[o] # "dir" /\ Home[o] = Elsewhere

\* What is in the tree at first, and what of it a call that keeps the root spares.
Native == Beneath(Home, Root)
Guarded ==
  UNION {Beneath(Home, o) : o \in {c \in Objects : Home[c] = Root /\ Name[c] \in Spare}}

\* What is in the tree now, wherever the root has been moved.
Inside == IF where[Root] = Gone THEN {} ELSE Beneath(where, Root)

TreeInit ==
  /\ where = Home /\ locked = {} /\ measuring = FALSE /\ keepRoot = FALSE
  /\ frames = <<>> /\ anyFailed = FALSE /\ phase = "idle" /\ treeOthers = 0

-----------------------------------------------------------------------------
(* Mistakes the decisions below could contain.                              *)

OpenFollowing(d, name) ==
  {IF Kind[o] = "link" THEN Target ELSE o :
     o \in {c \in Children(d) : Name[c] = name /\ c \notin locked}}
FailureForgotten(o) == FALSE

-----------------------------------------------------------------------------
(* Decisions.                                                               *)

\* _open_relative: what the name means now, the link itself if it is one
\* (FILE_OPEN_REPARSE_POINT); nothing when it is gone or may not be opened.
Opened(d, name) == {c \in Children(d) : Name[c] = name /\ c \notin locked}

\* directory: the entries of a listing, without the spared ones of the root.
Listed(d, keep) == {o \in Children(d) : ~(keep /\ d = Root /\ Name[o] \in Spare)}

\* _mark_deleted: Windows deletes no folder with anything in it.
Deletable(o) == measuring \/ Children(o) = {}

\* What a deletion that Windows refused adds to the failures.
CountsAsFailure(o) == ~Deletable(o)

\* _Entry: what a listing tells of a child; is_link comes first.
IsLeaf(o) == Kind[o] # "dir"

-----------------------------------------------------------------------------
(* The walk.                                                                *)

Frame(d, listed) ==
  [dir |-> d, leaves |-> {o \in listed : IsLeaf(o)},
   subs |-> {o \in listed : ~IsLeaf(o)}]

Top == frames[Len(frames)]
Below == SubSeq(frames, 1, Len(frames) - 1)
Fail == anyFailed' = TRUE /\ UNCHANGED where

DeleteObject(o) ==
  /\ where' = IF Deletable(o) /\ ~measuring THEN [where EXCEPT ![o] = Gone] ELSE where
  /\ anyFailed' = (anyFailed \/ CountsAsFailure(o))

\* A directory that cannot be listed is a failure, and nothing in it is done.
Enter(rest, d, keep) ==
  \/ frames' = Append(rest, Frame(d, Listed(d, keep))) /\ UNCHANGED anyFailed
  \/ frames' = Append(rest, Frame(d, {})) /\ anyFailed' = TRUE

\* delete_tree and measure_tree: _open_root refuses anything but a directory.
Start(measure, keep) ==
  /\ phase = "idle"
  /\ measuring' = measure /\ keepRoot' = keep
  /\ LET found == {o \in Opened(Outside, Name[Root]) : Kind[o] = "dir"}
     IN \/ found = {} /\ phase' = "refused" /\ UNCHANGED <<frames, anyFailed>>
        \/ \E o \in found : phase' = "walk" /\ Enter(<<>>, o, keep)
  /\ UNCHANGED <<tree, treeOthers>>

\* _delete_leaf: an entry listed as a link is opened whatever it is now.
Leaf ==
  /\ phase = "walk" /\ Top.leaves # {}
  /\ \E e \in Top.leaves :
       /\ frames' = [frames EXCEPT ![Len(frames)].leaves = @ \ {e}]
       /\ IF measuring THEN UNCHANGED <<where, anyFailed>>
          ELSE LET found == {o \in Opened(Top.dir, Name[e]) :
                               Kind[e] = "link" \/ Kind[o] = "file"}
               IN \/ \E o \in found : DeleteObject(o)
                  \/ found = {} /\ Fail
  /\ UNCHANGED <<locked, call, phase, treeOthers>>

\* _subdirectory: opened as a directory; a link by now is itself deleted,
\* or passed over by a measurement, and never gone into.
Subdirectory ==
  /\ phase = "walk" /\ Top.leaves = {} /\ Top.subs # {}
  /\ \E e \in Top.subs :
       LET found == {o \in Opened(Top.dir, Name[e]) : Kind[o] # "file"}
           rest == [frames EXCEPT ![Len(frames)].subs = @ \ {e}]
       IN \/ found = {} /\ frames' = rest /\ Fail
          \/ \E o \in found : Kind[o] = "link" /\ frames' = rest /\ DeleteObject(o)
          \/ \E o \in found :
               Kind[o] = "dir" /\ Enter(rest, o, keepRoot) /\ UNCHANGED where
  /\ UNCHANGED <<locked, call, phase, treeOthers>>

\* The directory is done: delete it through its handle, unless it is the
\* root of a call that keeps it.
Leave ==
  /\ phase = "walk" /\ Top.leaves = {} /\ Top.subs = {}
  /\ IF measuring \/ (keepRoot /\ Len(frames) = 1)
       THEN UNCHANGED <<where, anyFailed>> ELSE DeleteObject(Top.dir)
  /\ frames' = Below
  /\ phase' = IF Len(frames) = 1 THEN "done" ELSE "walk"
  /\ UNCHANGED <<locked, call, treeOthers>>

-----------------------------------------------------------------------------
(* Other programs.                                                          *)

Open(o) == \E i \in DOMAIN frames : frames[i].dir = o

\* A file appears, or a folder is moved away and a link takes its name.
\* Windows renames no folder while something inside it is open.
Appear(o, d) ==
  /\ where[o] = Elsewhere /\ Kind[o] = "file" /\ Kind[d] = "dir"
  /\ \A c \in Children(d) : Name[c] # Name[o]
  /\ where' = [where EXCEPT ![o] = d] /\ UNCHANGED locked

MoveBehindLink(d, link) ==
  /\ Kind[d] = "dir" /\ Kind[link] = "link" /\ Name[d] = Name[link]
  /\ where[link] = Elsewhere
  /\ \A o \in Beneath(where, d) \ {d} : o \notin locked /\ ~Open(o)
  /\ where' = [where EXCEPT ![d] = Elsewhere, ![link] = where[d]]
  /\ UNCHANGED locked

OthersInTree ==
  /\ treeOthers < TreeOthers /\ treeOthers' = treeOthers + 1
  /\ \/ \E o \in Newcomers, d \in Inside : Appear(o, d) \/ MoveBehindLink(d, o)
     \/ \E o \in Inside : o \notin locked /\ ~Open(o) /\ locked' = locked \cup {o}
                          /\ UNCHANGED where
     \/ \E o \in locked : locked' = locked \ {o} /\ UNCHANGED where
  /\ UNCHANGED <<call, frames, anyFailed, phase>>

TreeNext ==
  \/ Start(TRUE, FALSE)
  \/ \E keep \in BOOLEAN : Start(FALSE, keep)
  \/ Leaf \/ Subdirectory \/ Leave
  \/ OthersInTree

TreeSpec == TreeInit /\ [][TreeNext]_treeVars

-----------------------------------------------------------------------------
(* Properties.                                                              *)

\* What no call may touch: what was never in the tree, what a call that
\* keeps the root spares, everything if it measures.
Untouchable ==
  IF measuring THEN Objects
  ELSE (Objects \ (Native \cup Newcomers)) \cup (IF keepRoot THEN Guarded ELSE {})

\* Nothing outside the tree, nothing spared and, by a measurement, nothing
\* at all is deleted, whatever links others put in its way
\* (tree_delete.py:349-384, 315, 321).
OutsideSafe == \A o \in Untouchable : where[o] # Gone

\* A call that reports no failure has left nothing of the tree in place
\* but what it was told to keep and what others have put there since
\* (tree_delete.py:408-450); callers tell the operator so.
CompleteMeansGone ==
  phase = "done" /\ ~anyFailed /\ ~measuring =>
    IF keepRoot THEN Inside \subseteq {Root} \cup Newcomers \cup Untouchable
    ELSE where[Root] = Gone
===============================================================================
