----------------------------- MODULE DeletionProofs -----------------------------
(***************************************************************************)
(* What the jobs that delete never touch, for any number of files, folders, *)
(* categories, games and other programs at work meanwhile: the disk cleanup *)
(* (DiskCleanup), the Steam reset (SteamWipe) and the deletion of one tree   *)
(* (TreeDelete).                                                            *)
(***************************************************************************)
EXTENDS DiskCleanup, SteamWipe, TreeDelete, SequenceTheorems, TLAPS

-----------------------------------------------------------------------------
(* The disk cleanup.                                                        *)

Shown(c, f) == f \in plan[c]

\* What has passed the gate of the row being cleaned was shown and is not
\* protected from it: what a name says does not change.
PassedGate(f) ==
  /\ Shown(row, f)
  /\ ~FolderProtected(row, f) /\ ~NameProtected(row, f)

Cleaning == {"gate", "delete"}

CleanupTypes ==
  /\ stage \in {"idle", "scan", "planned", "next", "gate", "delete", "done"}
  /\ thing \in [Items -> {"file", "link", "dir", "gone"}]
  /\ plan \in [Rows -> SUBSET Items] /\ row \in Nat \ {0}
  /\ pending \subseteq Items /\ approved \subseteq Items

\* Up to the confirmation nothing is done; a row is cleaned because it was ticked,
\* and nothing is deleted in a dry run.
RowsAgreed ==
  /\ stage \in {"idle", "scan", "planned"} =>
       removed = {} /\ pruned = {} /\ ~binEmptied
  /\ stage \in Cleaning =>
       /\ row \in Rows /\ Chosen(row)
       /\ \A f \in pending : Shown(row, f)
       /\ \A f \in approved : PassedGate(f)
  /\ stage = "delete" => ~dry

CleanupInv == CleanupTypes /\ RowsAgreed /\ OnlyAgreedData

\* As long as others, between a row's gate and its deletions, neither rewrite a
\* file nor put a link where a folder was.
QuietAfterTheGate ==
  RewriteMoments \cap Cleaning = {} /\ ReplaceMoments \cap Cleaning = {}

\* What passed the gate of the row lies in a folder that is still in its place
\* and, where the row has a minimum age, is still old enough.
AsGated ==
  stage \in Cleaning => \A f \in approved :
    FolderOf[f] \notin away /\ (Catalogue[row].aged => f \notin fresh)

LEMMA CleanupStart == CleanupInit => CleanupInv /\ AsGated
<1> SUFFICES ASSUME CleanupInit PROVE CleanupInv /\ AsGated
  OBVIOUS
<1>1. CleanupTypes
  BY DEF CleanupInit, CleanupTypes
<1>2. RowsAgreed /\ AsGated /\ OnlyAgreedData
  BY DEF CleanupInit, RowsAgreed, AsGated, OnlyAgreedData, Cleaning
<1>3. QED
  BY <1>1, <1>2 DEF CleanupInv

LEMMA CatalogueRows ==
  /\ Rows = 1..Len(Catalogue)
  /\ \A c \in Rows : Catalogue[c] \in CleanupCategory
BY CleanupAssumption DEF CleanupAssumption, Rows

LEMMA CleanupTypesStep ==
  ASSUME CleanupTypes, [CleanupNext]_cleanupVars PROVE CleanupTypes'
<1> USE DEF CleanupTypes
<1>1. CASE StartScan \/ QueryBin
  BY <1>1 DEF StartScan, QueryBin, filesystem, choice, inventory
<1>2. ASSUME NEW c \in Rows, ScanCategory(c) PROVE CleanupTypes'
  <2>1. Candidates(c) \subseteq Items
    BY CatalogueRows DEF Candidates, CleanupCategory
  <2>2. QED
    BY <1>2, <2>1 DEF ScanCategory, filesystem, choice
<1>3. ASSUME NEW ids, NEW try \in BOOLEAN, ConfirmCleanup(ids, try) PROVE CleanupTypes'
  BY <1>3 DEF ConfirmCleanup, filesystem, inventory
<1>4. CASE NextCategory
  <2>1. row \in Rows
    BY <1>4, CatalogueRows DEF NextCategory
  <2>2. QED
    BY <1>4, <2>1 DEF NextCategory, filesystem, inventory, choice
<1>5. ASSUME NEW f \in Items, Gate(f) PROVE CleanupTypes'
  BY <1>5 DEF Gate, filesystem, inventory, choice
<1>6. CASE Gated
  BY <1>6 DEF Gated, filesystem, inventory, choice
<1>7. ASSUME NEW f \in Items, DeleteItem(f) PROVE CleanupTypes'
  BY <1>7 DEF DeleteItem, inventory, choice
<1>8. CASE Prune
  BY <1>8 DEF Prune, filesystem, inventory, choice
<1>9. CASE EmptyBin
  <2>1. UNCHANGED <<thing, plan, row, pending, approved>> /\ stage' = "done"
    BY <1>9 DEF EmptyBin, filesystem, inventory
  <2>2. QED
    BY <2>1
<1>10. CASE OthersTouch \/ OthersUseBin
  BY <1>10 DEF OthersTouch, OthersUseBin, filesystem, inventory, choice
<1>11. CASE UNCHANGED cleanupVars
  BY <1>11 DEF cleanupVars
<1>12. QED
  BY <1>1, <1>2, <1>3, <1>4, <1>5, <1>6, <1>7, <1>8, <1>9, <1>10, <1>11
  DEF CleanupNext

LEMMA RowsAgreedStep ==
  ASSUME CleanupTypes, RowsAgreed, [CleanupNext]_cleanupVars PROVE RowsAgreed'
<1> USE DEF CleanupTypes, RowsAgreed, Shown, PassedGate, Cleaning
<1> USE DEF FolderProtected, NameProtected, Chosen
<1>1. CASE StartScan \/ QueryBin
  BY <1>1 DEF StartScan, QueryBin, filesystem, choice, inventory
<1>2. ASSUME NEW c \in Rows, ScanCategory(c) PROVE RowsAgreed'
  BY <1>2 DEF ScanCategory, filesystem, choice
<1>3. ASSUME NEW ids, NEW try \in BOOLEAN, ConfirmCleanup(ids, try) PROVE RowsAgreed'
  BY <1>3 DEF ConfirmCleanup, filesystem, inventory
<1>4. CASE NextCategory
  <2>1. row \in Rows
    BY <1>4, CatalogueRows DEF NextCategory
  <2>2. QED
    BY <1>4, <2>1 DEF NextCategory, filesystem, inventory, choice
<1>5. ASSUME NEW f \in Items, Gate(f) PROVE RowsAgreed'
  BY <1>5 DEF Gate, ApprovesForDelete, filesystem, inventory, choice
<1>6. CASE Gated
  BY <1>6 DEF Gated, filesystem, inventory, choice
<1>7. ASSUME NEW f \in Items, DeleteItem(f) PROVE RowsAgreed'
  BY <1>7 DEF DeleteItem, inventory, choice
<1>8. CASE Prune \/ EmptyBin
  BY <1>8 DEF Prune, EmptyBin, filesystem, inventory, choice
<1>9. CASE OthersTouch \/ OthersUseBin
  BY <1>9 DEF OthersTouch, OthersUseBin, filesystem, inventory, choice
<1>10. CASE UNCHANGED cleanupVars
  BY <1>10 DEF cleanupVars
<1>11. QED
  BY <1>1, <1>2, <1>3, <1>4, <1>5, <1>6, <1>7, <1>8, <1>9, <1>10 DEF CleanupNext

\* What is gone stays gone, so a removed folder had nothing in it and never has.
LEMMA AgreedStep ==
  ASSUME CleanupInv, [CleanupNext]_cleanupVars PROVE OnlyAgreedData'
<1> USE DEF CleanupInv, CleanupTypes, RowsAgreed, OnlyAgreedData
<1> USE DEF FolderProtected, NameProtected, Chosen
<1>1. CASE StartScan \/ QueryBin
  BY <1>1 DEF StartScan, QueryBin, filesystem, choice, inventory
<1>2. ASSUME NEW c \in Rows, ScanCategory(c) PROVE OnlyAgreedData'
  BY <1>2 DEF ScanCategory, filesystem, choice
<1>3. ASSUME NEW ids, NEW try \in BOOLEAN, ConfirmCleanup(ids, try)
      PROVE  OnlyAgreedData'
  BY <1>3 DEF ConfirmCleanup, filesystem, inventory
<1>4. CASE NextCategory
  BY <1>4 DEF NextCategory, filesystem, inventory, choice
<1>5. CASE Gated \/ \E f \in Items : Gate(f)
  BY <1>5 DEF Gate, Gated, filesystem, inventory, choice
<1>6. ASSUME NEW f \in Items, DeleteItem(f) PROVE OnlyAgreedData'
  <2>1. PassedGate(f) /\ Catalogue[row].id \in selected /\ ~dry
    BY <1>6 DEF DeleteItem, Cleaning
  <2>2. removed' \subseteq removed \cup {<<row, f>>}
    BY <1>6 DEF DeleteItem
  <2>3. UNCHANGED <<dry, selected, plan, pruned, binEmptied>>
    BY <1>6 DEF DeleteItem, inventory, choice
  <2>4. \A e \in Items : thing[e] = "gone" => thing'[e] = "gone"
    BY <1>6 DEF DeleteItem
  <2>5. QED
    BY <2>1, <2>2, <2>3, <2>4 DEF PassedGate, Shown
<1>7. CASE Prune
  BY <1>7 DEF Prune, Prunable, filesystem, inventory, choice
<1>8. CASE EmptyBin
  BY <1>8 DEF EmptyBin, filesystem, inventory, choice
<1>9. CASE OthersTouch \/ OthersUseBin
  <2>1. \A e \in Items : thing[e] = "gone" => thing'[e] = "gone"
    BY <1>9 DEF OthersTouch, OthersUseBin, filesystem
  <2>2. UNCHANGED <<dry, selected, plan, pruned, binEmptied, removed>>
    BY <1>9 DEF OthersTouch, OthersUseBin, inventory, choice
  <2>3. QED
    BY <2>1, <2>2
<1>10. CASE UNCHANGED cleanupVars
  BY <1>10 DEF cleanupVars
<1>11. QED
  BY <1>1, <1>2, <1>3, <1>4, <1>5, <1>6, <1>7, <1>8, <1>9, <1>10 DEF CleanupNext

LEMMA CleanupStep == CleanupInv /\ [CleanupNext]_cleanupVars => CleanupInv'
BY CleanupTypesStep, RowsAgreedStep, AgreedStep DEF CleanupInv

\* The disk cleanup deletes only files that were shown in a row the operator ticked
\* and that are not protected from it, nothing in a dry run, no folder that is
\* protected or has anything in it, and empties the bin only when ticked.
THEOREM OnlyAgreedDeleted == CleanupSpec => []OnlyAgreedData
<1>1. CleanupInv => OnlyAgreedData
  BY DEF CleanupInv
<1>2. QED
  BY CleanupStart, CleanupStep, <1>1, PTL DEF CleanupSpec

LEMMA AsGatedStep ==
  ASSUME QuietAfterTheGate, CleanupInv, AsGated, [CleanupNext]_cleanupVars
  PROVE  AsGated'
<1> USE DEF AsGated, Cleaning
<1>1. CASE StartScan \/ QueryBin \/ NextCategory
  BY <1>1 DEF StartScan, QueryBin, NextCategory, filesystem, choice, inventory
<1>2. CASE \/ \E c \in Rows : ScanCategory(c)
           \/ \E ids \in SUBSET (Ids \cup {Bin}), try \in BOOLEAN :
                ConfirmCleanup(ids, try)
  BY <1>2 DEF ScanCategory, ConfirmCleanup, filesystem, choice, inventory
<1>3. ASSUME NEW f \in Items, Gate(f) PROVE AsGated'
  BY <1>3 DEF Gate, ApprovesForDelete, TooNew, filesystem, inventory, choice
<1>4. ASSUME NEW f \in Items, DeleteItem(f) PROVE AsGated'
  BY <1>4 DEF DeleteItem, inventory, choice
<1>5. CASE Gated \/ Prune \/ EmptyBin
  BY <1>5 DEF Gated, Prune, EmptyBin, filesystem, inventory, choice
<1>6. CASE OthersTouch \/ OthersUseBin
  BY <1>6 DEF OthersTouch, OthersUseBin, QuietAfterTheGate, filesystem, inventory, choice
<1>7. CASE UNCHANGED cleanupVars
  BY <1>7 DEF cleanupVars
<1>8. QED
  BY <1>1, <1>2, <1>3, <1>4, <1>5, <1>6, <1>7 DEF CleanupNext

\* As long as others, between a row's gate and its deletions, neither rewrite a file
\* nor put a link where a folder was: no row deletes a file written before its gate,
\* where it has a minimum age, nor one in a folder that leads elsewhere since.
THEOREM InUseAlwaysStays ==
  ASSUME QuietAfterTheGate PROVE CleanupSpec => InUseStays
<1> DEFINE Kept == \A r \in removed' \ removed :
                     /\ FolderOf[r[2]] \notin away
                     /\ Catalogue[r[1]].aged => r[2] \notin fresh
<1>1. ASSUME CleanupInv, AsGated, [CleanupNext]_cleanupVars PROVE [Kept]_cleanupVars
  <2>1. ASSUME NEW f \in Items, DeleteItem(f) PROVE Kept
    <3>1. removed' \subseteq removed \cup {<<row, f>>}
      BY <2>1 DEF DeleteItem
    <3>2. FolderOf[f] \notin away /\ (Catalogue[row].aged => f \notin fresh)
      BY <1>1, <2>1 DEF DeleteItem, AsGated, Cleaning
    <3>3. QED
      BY <3>1, <3>2
  <2>2. ASSUME ~\E f \in Items : DeleteItem(f) PROVE UNCHANGED removed
    BY <1>1, <2>2 DEF CleanupNext, StartScan, QueryBin, ScanCategory, ConfirmCleanup,
       NextCategory, Gate, Gated, Prune, EmptyBin, OthersTouch, OthersUseBin, cleanupVars
  <2>3. QED
    BY <2>1, <2>2
<1>2. QED
  BY CleanupStart, CleanupStep, AsGatedStep, <1>1, PTL DEF CleanupSpec, InUseStays

-----------------------------------------------------------------------------
(* The Steam reset.                                                         *)

\* Every game has a folder of its own.  The code does not look for games that
\* share one: removing the one empties the other's folder too.
OwnFolders == \A g, h \in Games : InstallPath[g] = InstallPath[h] => g = h

Unharmed(g) == folder[InstallPath[g]] \notin {"part", "gone"}

Counts == [removed : SUBSET Games, refused : SUBSET Games, failed : SUBSET Games]

WipeTypes ==
  /\ folder \in [Targets -> {"whole", "part", "gone", "link"}]
  /\ manifest \subseteq Games /\ dryRun \in BOOLEAN
  /\ remove \subseteq Games /\ keep \subseteq Games
  /\ caches \subseteq Caches /\ signout \subseteq SignIns
  /\ counted \in Counts
  /\ doing \in {"idle", "planned", "stop", "games", "manifest", "caches", "signout", "done"}
  /\ doing = "manifest" => game \in Games

\* Up to the first game nothing is touched.
Untouched ==
  doing \in {"idle", "planned", "stop"} =>
    /\ manifest = Games /\ Handled = {}
    /\ \A g \in Games : Unharmed(g)

\* Who is not to go stays; who has not been counted yet is known, and so is who was
\* refused or failed; the manifest that goes next is that of a game counted removed.
GamesKept ==
  /\ \A g \in Games : dryRun \/ g \notin Doomed => g \in manifest /\ Unharmed(g)
  /\ Games \ Handled \subseteq manifest
  /\ counted.refused \cup counted.failed \subseteq manifest
  /\ doing = "manifest" =>
       /\ ~dryRun /\ game \in Doomed /\ game \in manifest
       /\ game \in counted.removed \ (counted.refused \cup counted.failed)

SparedKept == spared = UNION {Spared[t] : t \in SignIns}

WipeInv == WipeTypes /\ Untouched /\ GamesKept /\ SparedKept

LEMMA WipeStart == WipeInit => WipeInv
<1> SUFFICES ASSUME WipeInit PROVE WipeInv
  OBVIOUS
<1>1. \A g \in Games : Unharmed(g)
  BY WipeAssumption DEF WipeInit, WipeAssumption, Unharmed, Targets
<1>2. WipeTypes
  BY DEF WipeInit, WipeTypes, Counts
<1>3. QED
  BY <1>1, <1>2
  DEF WipeInit, WipeInv, Untouched, GamesKept, SparedKept, Doomed, Handled

\* How a folder's deletion can end, and what it leaves of the other folders.
LEMMA FolderEnds ==
  ASSUME WipeTypes, NEW p \in Targets, NEW ending \in Endings(p)
  PROVE  /\ ending \in {"complete", "part", "refused", "failed"}
         /\ After(p, ending) \in [Targets -> {"whole", "part", "gone", "link"}]
         /\ \A q \in Targets \ {p} : After(p, ending)[q] = folder[q]
         /\ ending \in {"refused", "failed"} => After(p, ending) = folder
BY DEF WipeTypes, Endings, After

LEMMA WipeTypesStep ==
  ASSUME WipeTypes, [WipeNext]_wipeVars PROVE WipeTypes'
<1> USE DEF WipeTypes
<1>1. CASE ScanGames
  BY <1>1 DEF ScanGames, machine, Installed, CacheTargets, SignInTargets
<1>2. CASE StopSteam \/ GamesDone \/ CachesDone \/ WipeDone
  BY <1>2 DEF StopSteam, GamesDone, CachesDone, WipeDone, machine, wipePlan
<1>3. CASE RemoveManifest
  BY <1>3 DEF RemoveManifest, wipePlan, Counts
<1>4. CASE \/ \E ids \in SUBSET Games : KeepBack(ids)
           \/ \E try \in BOOLEAN : ConfirmWipe(try)
  BY <1>4 DEF KeepBack, ConfirmWipe, machine, wipePlan
<1>5. ASSUME NEW g \in Games, RemoveFolder(g) PROVE WipeTypes'
  <2>1. InstallPath[g] \in Targets
    BY WipeAssumption DEF WipeAssumption, Targets
  <2>2. PICK ending \in Endings(InstallPath[g]) :
          /\ folder' = IF dryRun THEN folder ELSE After(InstallPath[g], ending)
          /\ counted' = [counted EXCEPT
               !.removed = IF ending \in {"complete", "part"} \/ (dryRun /\ ending = "failed")
                             THEN @ \cup {g} ELSE @,
               !.refused = IF ending = "refused" THEN @ \cup {g} ELSE @,
               !.failed = IF ending = "failed" /\ ~dryRun THEN @ \cup {g} ELSE @]
          /\ doing' \in {"manifest", "games"}
    BY <1>5 DEF RemoveFolder
  <2>3. counted' \in Counts
    BY <2>2 DEF Counts
  <2>4. UNCHANGED <<manifest, dryRun, remove, keep, caches, signout>> /\ game' = g
    BY <1>5 DEF RemoveFolder, wipePlan
  <2>5. QED
    BY <2>1, <2>2, <2>3, <2>4, FolderEnds DEF Counts
<1>6. ASSUME NEW p \in Targets, ClearCache(p) \/ ClearSignIn(p) PROVE WipeTypes'
  <2>1. folder' = folder \/ \E ending \in Endings(p) : folder' = After(p, ending)
    BY <1>6 DEF ClearCache, ClearSignIn
  <2>2. UNCHANGED <<manifest, dryRun, remove, keep, counted, doing, game>>
    BY <1>6 DEF ClearCache, ClearSignIn
  <2>3. caches' \subseteq caches /\ signout' \subseteq signout
    BY <1>6 DEF ClearCache, ClearSignIn
  <2>4. QED
    BY <2>1, <2>2, <2>3, FolderEnds
<1>7. CASE OthersUseSteam
  BY <1>7 DEF OthersUseSteam, wipePlan
<1>8. CASE UNCHANGED wipeVars
  BY <1>8 DEF wipeVars
<1>9. QED
  BY <1>1, <1>2, <1>3, <1>4, <1>5, <1>6, <1>7, <1>8 DEF WipeNext

LEMMA SparedStep ==
  ASSUME SparedKept, [WipeNext]_wipeVars PROVE SparedKept'
<1>1. UNCHANGED spared
  <2>1. ASSUME NEW p \in Targets, ClearSignIn(p) PROVE UNCHANGED spared
    BY <2>1 DEF ClearSignIn, Keeps
  <2>2. ASSUME ~\E p \in Targets : ClearSignIn(p) PROVE UNCHANGED spared
    BY <2>2 DEF WipeNext, wipeVars, machine, ScanGames, StopSteam, RemoveManifest,
       GamesDone, CachesDone, WipeDone, KeepBack, ConfirmWipe, RemoveFolder, ClearCache,
       OthersUseSteam
  <2>3. QED
    BY <2>1, <2>2
<1>2. QED
  BY <1>1 DEF SparedKept

LEMMA GamesKeptStep ==
  ASSUME OwnFolders, WipeTypes, Untouched, GamesKept, [WipeNext]_wipeVars
  PROVE  (Untouched /\ GamesKept)'
<1> USE DEF Untouched, GamesKept, Unharmed, Doomed, Handled
<1>1. \A g \in Games : InstallPath[g] \in Places /\ InstallPath[g] \in Targets
  BY WipeAssumption DEF WipeAssumption, Targets
<1>2. CASE ScanGames
  BY <1>2 DEF ScanGames, machine
<1>3. CASE StopSteam
  BY <1>3 DEF StopSteam, wipePlan
<1>4. CASE GamesDone \/ CachesDone \/ WipeDone
  BY <1>4 DEF GamesDone, CachesDone, WipeDone, machine, wipePlan
<1>5. CASE RemoveManifest
  <2>1. counted'.removed = counted.removed /\ counted'.refused = counted.refused
    BY <1>5 DEF RemoveManifest, WipeTypes, Counts
  <2>2. UNCHANGED <<folder, remove, keep, dryRun, game>> /\ doing' = "games"
    BY <1>5 DEF RemoveManifest, wipePlan
  <2>3. \/ manifest' = manifest \ {game} /\ counted'.failed = counted.failed
        \/ manifest' = manifest /\ counted'.failed = counted.failed \cup {game}
    BY <1>5 DEF RemoveManifest, WipeTypes, Counts
  <2>4. doing = "manifest"
    BY <1>5 DEF RemoveManifest
  <2>5. QED
    BY <2>1, <2>2, <2>3, <2>4
<1>6. CASE \E ids \in SUBSET Games : KeepBack(ids)
  BY <1>6 DEF KeepBack, machine
<1>7. CASE \E try \in BOOLEAN : ConfirmWipe(try)
  BY <1>7 DEF ConfirmWipe, machine, wipePlan
<1>8. ASSUME NEW g \in Games, RemoveFolder(g) PROVE (Untouched /\ GamesKept)'
  <2>1. PICK ending \in Endings(InstallPath[g]) :
          /\ folder' = IF dryRun THEN folder ELSE After(InstallPath[g], ending)
          /\ counted' = [counted EXCEPT
               !.removed = IF ending \in {"complete", "part"} \/ (dryRun /\ ending = "failed")
                             THEN @ \cup {g} ELSE @,
               !.refused = IF ending = "refused" THEN @ \cup {g} ELSE @,
               !.failed = IF ending = "failed" /\ ~dryRun THEN @ \cup {g} ELSE @]
          /\ doing' = IF ending \in ManifestFollows /\ ~dryRun THEN "manifest" ELSE "games"
    BY <1>8 DEF RemoveFolder
  <2>2. UNCHANGED <<manifest, remove, keep, dryRun>> /\ game' = g
    BY <1>8 DEF RemoveFolder, wipePlan
  <2>3. g \in Doomed /\ g \notin Handled /\ g \in manifest
    BY <1>8 DEF RemoveFolder
  <2>4. ending \in {"complete", "part", "refused", "failed"}
    BY <1>1, FolderEnds
  <2>5. ~dryRun => \A h \in Games \ {g} : folder'[InstallPath[h]] = folder[InstallPath[h]]
    BY <1>1, <2>1, FolderEnds DEF OwnFolders
  <2>6. /\ counted'.refused \cup counted'.failed
             \subseteq counted.refused \cup counted.failed \cup {g}
        /\ Handled' = Handled \cup {g}
    BY <2>1, <2>4 DEF WipeTypes, Counts
  <2>7. doing' = "manifest" =>
          g \in counted'.removed /\ g \notin counted'.refused \cup counted'.failed
    BY <2>1, <2>3, <2>4 DEF ManifestFollows, WipeTypes, Counts
  <2>8. \A h \in Games :
          dryRun \/ h \notin Doomed => folder'[InstallPath[h]] = folder[InstallPath[h]]
    BY <2>1, <2>3, <2>5
  <2>9. QED
    BY <2>1, <2>2, <2>3, <2>6, <2>7, <2>8
<1>9. ASSUME NEW p \in Targets, ClearCache(p) \/ ClearSignIn(p)
      PROVE  (Untouched /\ GamesKept)'
  <2>1. p \notin Places
    BY <1>9, WipeAssumption DEF ClearCache, ClearSignIn, WipeTypes, WipeAssumption
  <2>2. \A q \in Places : folder'[q] = folder[q]
    BY <1>9, <2>1, FolderEnds DEF ClearCache, ClearSignIn, Targets
  <2>3. UNCHANGED <<manifest, remove, keep, dryRun, game, counted, doing>>
    BY <1>9 DEF ClearCache, ClearSignIn
  <2>4. QED
    BY <1>1, <2>2, <2>3
<1>10. CASE OthersUseSteam
  <2>1. \A q \in Targets : folder'[q] = folder[q] \/ folder'[q] = "link"
    BY <1>10 DEF OthersUseSteam, WipeTypes
  <2>2. UNCHANGED <<manifest, remove, keep, dryRun, game, counted, doing>>
    BY <1>10 DEF OthersUseSteam, wipePlan
  <2>3. QED
    BY <1>1, <2>1, <2>2
<1>11. CASE UNCHANGED wipeVars
  BY <1>11 DEF wipeVars
<1>12. QED
  BY <1>2, <1>3, <1>4, <1>5, <1>6, <1>7, <1>8, <1>9, <1>10, <1>11 DEF WipeNext

\* The Steam reset leaves every game to keep with its folder and its manifest,
\* everything in a dry run, the manifest of a game whose removal was refused or
\* failed, and the files the sign-out spares.
THEOREM KeptAlwaysStays ==
  ASSUME OwnFolders PROVE WipeSpec => []KeptStays
<1>1. WipeInv /\ [WipeNext]_wipeVars => WipeInv'
  BY WipeTypesStep, SparedStep, GamesKeptStep DEF WipeInv
<1>2. WipeInv => KeptStays
  BY DEF WipeInv, WipeTypes, Counts, GamesKept, SparedKept, Unharmed, Doomed, KeptStays
<1>3. QED
  BY WipeStart, <1>1, <1>2, PTL DEF WipeSpec

-----------------------------------------------------------------------------
(* The deletion of one tree.                                                *)

InTree == Native \cup Newcomers

\* Whatever others do, what was never in the tree stays where it was, what was in it
\* is in its own place or nowhere in it, what came is in a folder of the tree, and no
\* folder holds one name twice.
PlacesInv ==
  /\ where \in [Objects -> Objects \cup {Outside, Elsewhere, Gone}]
  /\ \A o \in Objects \ InTree : where[o] = Home[o]
  /\ \A o \in Native : where[o] \in {Home[o], Elsewhere, Gone}
  /\ \A o \in Newcomers : where[o] \in Native \cup {Outside, Elsewhere, Gone}
  /\ \A o \in Objects : where[o] \in Objects => Kind[where[o]] = "dir"
  /\ \A o, p \in Objects :
       o # p /\ where[o] = where[p] /\ where[o] \in Objects => Name[o] # Name[p]

FrameSet == [dir : Objects, leaves : SUBSET Objects, subs : SUBSET Objects]

\* An open directory is one of the tree's own folders; with the root kept, none that
\* is spared, and nothing of a spared name is still to be done in the root.
FrameOK(fr, kept) ==
  /\ fr.dir \in Native /\ Kind[fr.dir] = "dir"
  /\ \A e \in fr.leaves : Kind[e] # "dir"
  /\ \A e \in fr.subs : Kind[e] = "dir"
  /\ kept =>
       /\ fr.dir \notin Guarded
       /\ fr.dir = Root => \A e \in fr.leaves \cup fr.subs : Name[e] \notin Spare

WalkInv ==
  /\ phase \in {"idle", "walk", "done", "refused"}
  /\ measuring \in BOOLEAN /\ keepRoot \in BOOLEAN /\ anyFailed \in BOOLEAN
  /\ frames \in Seq(FrameSet)
  /\ \A i \in DOMAIN frames : FrameOK(frames[i], keepRoot)
  /\ phase = "walk" <=> frames # << >>
  /\ phase = "walk" => frames[1].dir = Root

\* Nothing goes before a deletion begins, or by a measurement.
NothingGone == phase = "idle" \/ measuring => \A o \in Objects : where[o] # Gone

SafeInv == PlacesInv /\ WalkInv /\ NothingGone /\ OutsideSafe

\* A child of the kept root that is not spared and has not gone is still to be done,
\* or is being done, as long as no failure has been counted.
RootPending ==
  keepRoot /\ ~measuring /\ ~anyFailed /\ phase \in {"walk", "done"} =>
    \A c \in Native :
      where[c] = Root /\ Name[c] \notin Spare =>
        /\ phase = "walk"
        /\ \/ c \in frames[1].leaves \cup frames[1].subs
           \/ Len(frames) > 1 /\ frames[2].dir = c

RootGone ==
  phase = "done" /\ ~keepRoot /\ ~measuring /\ ~anyFailed => where[Root] = Gone

\* What lies beneath a directory: the directory, what lies in anything of it, and
\* nothing more than any set with these two.
LEMMA BeneathIs ==
  ASSUME NEW place, NEW d,
         \A o \in Objects : place[o] \in Objects => Kind[place[o]] = "dir"
  PROVE  /\ d \in Beneath(place, d) /\ Beneath(place, d) \subseteq Objects \cup {d}
         /\ d \in Objects => \A o \in Objects :
              place[o] \in Beneath(place, d) => o \in Beneath(place, d)
         /\ \A o \in Beneath(place, d) : o = d \/ place[o] \in Beneath(place, d)
<1>1. \A o \in Objects : o \in Beneath(place, d) <=>
        o = d \/ \A D \in Closed(place, d) : place[o] \in D \cup {d}
  BY DEF Beneath
<1>2. Beneath(place, d) \subseteq Objects \cup {d} /\ d \in Beneath(place, d)
  BY DEF Beneath
<1>3. ASSUME d \in Objects, NEW o \in Objects, place[o] \in Beneath(place, d)
      PROVE  o \in Beneath(place, d)
  <2>1. CASE place[o] = d
    BY <1>1, <2>1
  <2>2. CASE place[o] # d
    <3>1. place[o] \in Dirs
      BY <1>2, <1>3, <2>2 DEF Dirs
    <3>2. ASSUME NEW D \in Closed(place, d) PROVE place[o] \in D
      <4>1. place[place[o]] \in D \cup {d}
        BY <1>1, <1>3, <2>2, <3>1 DEF Dirs
      <4>2. QED
        BY <3>1, <4>1 DEF Closed
    <3>3. QED
      BY <1>1, <3>2
  <2>3. QED
    BY <2>1, <2>2
<1>4. ASSUME NEW o \in Beneath(place, d), o # d PROVE place[o] \in Beneath(place, d)
  <2>1. o \in Objects /\ \A D \in Closed(place, d) : place[o] \in D \cup {d}
    BY <1>1, <1>2, <1>4
  <2>2. CASE place[o] # d
    <3>1. Dirs \in Closed(place, d)
      BY DEF Closed
    <3>2. place[o] \in Dirs
      BY <2>1, <2>2, <3>1
    <3>3. ASSUME NEW D \in Closed(place, d), place[place[o]] \notin D \cup {d} PROVE FALSE
      <4>1. D \ {place[o]} \in Closed(place, d)
        BY <3>3 DEF Closed
      <4>2. QED
        BY <2>1, <2>2, <4>1
    <3>4. QED
      BY <1>1, <3>2, <3>3 DEF Dirs
  <2>3. QED
    BY <1>2, <2>2
<1>5. QED
  BY <1>2, <1>3, <1>4

LEMMA BeneathWithin ==
  ASSUME NEW place, NEW d, NEW T, d \in T, \A o \in Objects : place[o] \in T => o \in T
  PROVE  Beneath(place, d) \subseteq T
<1>1. T \cap Dirs \in Closed(place, d)
  BY DEF Closed, Dirs
<1>2. QED
  BY <1>1 DEF Beneath

\* The tree is closed under what lies in it, and nothing of it came from elsewhere.
LEMMA NativeClosed ==
  /\ Native \subseteq Objects /\ Root \in Native /\ Native \cap Newcomers = {}
  /\ \A o \in Objects : Home[o] \in Native => o \in Native
  /\ \A o \in Native : o = Root \/ Home[o] \in Native
<1>1. /\ Root \in Objects
      /\ \A o \in Objects : Home[o] \in Objects => Kind[Home[o]] = "dir"
  BY TreeAssumption DEF TreeAssumption
<1>2. /\ Root \in Beneath(Home, Root) /\ Beneath(Home, Root) \subseteq Objects \cup {Root}
      /\ Root \in Objects => \A o \in Objects :
           Home[o] \in Beneath(Home, Root) => o \in Beneath(Home, Root)
      /\ \A o \in Beneath(Home, Root) : o = Root \/ Home[o] \in Beneath(Home, Root)
  BY <1>1, BeneathIs
<1>3. \A o \in Newcomers : Home[o] \notin Objects /\ o # Root
  BY TreeAssumption DEF TreeAssumption
<1>4. QED
  BY <1>1, <1>2, <1>3 DEF Native

\* What is spared is closed as well, lies in the tree, and never includes the root.
LEMMA GuardedClosed ==
  /\ Guarded \subseteq Native /\ Root \notin Guarded
  /\ \A o \in Objects : (Home[o] = Root /\ Name[o] \in Spare) \/ Home[o] \in Guarded
                          => o \in Guarded
  /\ \A o \in Guarded : (Home[o] = Root /\ Name[o] \in Spare) \/ Home[o] \in Guarded
<1>1. ASSUME NEW c \in Objects, Home[c] = Root, Name[c] \in Spare
      PROVE  /\ Beneath(Home, c) \subseteq Native /\ Root \notin Beneath(Home, c)
             /\ c \in Beneath(Home, c)
             /\ \A o \in Objects : Home[o] \in Beneath(Home, c) => o \in Beneath(Home, c)
             /\ \A o \in Beneath(Home, c) : o = c \/ Home[o] \in Beneath(Home, c)
  <2>1. c \in Native
    BY <1>1, NativeClosed
  <2>2. \A o \in Objects : Home[o] \in Native => o \in Native
    BY NativeClosed
  <2>3. Beneath(Home, c) \subseteq Native
    BY <2>1, <2>2, BeneathWithin
  <2>4. \A o \in Objects : Home[o] \in Objects => Kind[Home[o]] = "dir"
    BY TreeAssumption DEF TreeAssumption
  <2>5. /\ c \in Beneath(Home, c) /\ Beneath(Home, c) \subseteq Objects \cup {c}
        /\ c \in Objects => \A o \in Objects :
             Home[o] \in Beneath(Home, c) => o \in Beneath(Home, c)
        /\ \A o \in Beneath(Home, c) : o = c \/ Home[o] \in Beneath(Home, c)
    BY <2>4, BeneathIs
  <2>6. Root # c /\ Home[Root] \notin Objects
    BY <1>1, TreeAssumption DEF TreeAssumption
  <2>7. QED
    BY <2>3, <2>5, <2>6, NativeClosed
<1>2. QED
  BY <1>1 DEF Guarded

\* A file that lies in a folder of the tree, or in one reached from the root, is of the
\* tree or came to it.
LEMMA WhatIsInside ==
  ASSUME PlacesInv
  PROVE  /\ \A o \in Objects : where[o] \in InTree => o \in InTree /\ where[o] \in Native
         /\ Inside \subseteq InTree
         /\ \A o \in Inside : o = Root \/ where[o] \in Objects
         /\ where[Root] = Gone => Inside = {}
<1>1. ASSUME NEW o \in Objects, where[o] \in InTree
      PROVE  o \in InTree /\ where[o] \in Native
  <2>1. where[o] \in Objects /\ Kind[where[o]] = "dir"
    BY <1>1, NativeClosed, TreeAssumption DEF PlacesInv, InTree, TreeAssumption
  <2>2. where[o] \in Native
    BY <1>1, <2>1, TreeAssumption DEF TreeAssumption, InTree
  <2>3. QED
    BY <2>2, NativeClosed DEF PlacesInv, InTree
<1>2. \A o \in Objects : where[o] \in InTree => o \in InTree
  BY <1>1
<1>3. Beneath(where, Root) \subseteq InTree
  <2>1. Root \in InTree
    BY NativeClosed DEF InTree
  <2>2. QED
    BY <1>2, <2>1, BeneathWithin
<1>4. \A o \in Beneath(where, Root) : o = Root \/ where[o] \in Objects
  <2>1. InTree \subseteq Objects
    BY NativeClosed, TreeAssumption DEF InTree, TreeAssumption
  <2>2. \A o \in Objects : where[o] \in Objects => Kind[where[o]] = "dir"
    BY DEF PlacesInv
  <2>3. \A o \in Beneath(where, Root) : o = Root \/ where[o] \in Beneath(where, Root)
    BY <2>2, BeneathIs
  <2>4. QED
    BY <1>3, <2>1, <2>3
<1>5. QED
  BY <1>1, <1>3, <1>4 DEF Inside

-----------------------------------------------------------------------------
(* Where things are, step by step.                                          *)

LEMMA DeletedPlaces ==
  ASSUME PlacesInv, NEW x \in InTree, where' = [where EXCEPT ![x] = Gone]
  PROVE  PlacesInv'
<1>1. x \in Objects /\ Gone \notin Objects
  BY NativeClosed, TreeAssumption DEF InTree, TreeAssumption
<1>2. \A o \in Objects : where'[o] = IF o = x THEN Gone ELSE where[o]
  BY <1>1 DEF PlacesInv
<1>3. where' \in [Objects -> Objects \cup {Outside, Elsewhere, Gone}]
  BY <1>1 DEF PlacesInv
<1>4. Native \subseteq Objects /\ Newcomers \subseteq Objects
  BY NativeClosed, TreeAssumption DEF TreeAssumption
<1>5. QED
  BY <1>1, <1>2, <1>3, <1>4 DEF PlacesInv, InTree

\* Another program puts a file into the tree, or a link in the place of a folder that
\* it moves away.  It deletes nothing.
LEMMA OthersPlaces ==
  ASSUME PlacesInv, NEW x \in Newcomers, NEW d \in Inside,
         Appear(x, d) \/ MoveBehindLink(d, x)
  PROVE  /\ PlacesInv'
         /\ \A o \in Objects : where'[o] = Gone <=> where[o] = Gone
         /\ \A o \in Native : where'[o] = where[o] \/ where'[o] = Elsewhere
<1>1. /\ x \in Objects /\ x \notin Native /\ Kind[x] # "dir"
      /\ Native \subseteq Objects /\ Newcomers \subseteq Objects
      /\ Outside \notin Objects /\ Elsewhere \notin Objects /\ Gone \notin Objects
      /\ Elsewhere # Gone
  BY NativeClosed, TreeAssumption DEF TreeAssumption
<1>2. where[x] = Elsewhere /\ d \in Inside /\ Kind[d] = "dir"
  BY DEF Appear, MoveBehindLink
<1>3. d \in Native /\ d \in Objects
  BY <1>1, <1>2, WhatIsInside, TreeAssumption DEF InTree, TreeAssumption
<1>4. CASE Appear(x, d)
  <2>1. \A o \in Objects : where'[o] = IF o = x THEN d ELSE where[o]
    BY <1>1, <1>4 DEF Appear, PlacesInv
  <2>2. where' \in [Objects -> Objects \cup {Outside, Elsewhere, Gone}]
    BY <1>3, <1>4 DEF Appear, PlacesInv
  <2>3. \A o \in Objects : where[o] = d => Name[o] # Name[x]
    BY <1>4 DEF Appear, Children
  <2>4. QED
    BY <1>1, <1>2, <1>3, <2>1, <2>2, <2>3 DEF PlacesInv, InTree
<1>5. CASE MoveBehindLink(d, x)
  <2>1. \A o \in Objects : where'[o] = IF o = x THEN where[d]
                                       ELSE IF o = d THEN Elsewhere ELSE where[o]
    BY <1>1, <1>5 DEF MoveBehindLink, PlacesInv
  <2>2. where' \in [Objects -> Objects \cup {Outside, Elsewhere, Gone}]
    BY <1>3, <1>5 DEF MoveBehindLink, PlacesInv
  <2>3. d = Root \/ where[d] \in Objects
    BY <1>2, WhatIsInside
  <2>4. where[d] # Gone
    BY <1>1, <1>2, <2>3, WhatIsInside
  <2>5. where[d] \in Native \cup {Outside, Elsewhere}
    BY <1>3, <2>3, <2>4, NativeClosed, TreeAssumption DEF PlacesInv, TreeAssumption
  <2>6. Name[x] = Name[d]
    BY <1>5 DEF MoveBehindLink
  <2>7. \A o, p \in Objects :
          o # p /\ where'[o] = where'[p] /\ where'[o] \in Objects => Name[o] # Name[p]
    BY <1>1, <1>3, <2>1, <2>6 DEF PlacesInv
  <2>8. \A o \in Objects : where'[o] \in Objects => Kind[where'[o]] = "dir"
    BY <1>1, <1>3, <2>1 DEF PlacesInv
  <2>9. \A o \in Objects : where'[o] = Gone <=> where[o] = Gone
    BY <1>1, <1>2, <2>1, <2>4
  <2>10. QED
    BY <1>1, <1>3, <2>1, <2>2, <2>5, <2>7, <2>8, <2>9 DEF PlacesInv, InTree
<1>6. QED
  BY <1>4, <1>5

-----------------------------------------------------------------------------
(* The open directories.                                                    *)

FramesOK(s, kept) ==
  s \in Seq(FrameSet) /\ \A i \in 1..Len(s) : FrameOK(s[i], kept)

LEMMA TopFrame ==
  ASSUME WalkInv, phase = "walk"
  PROVE  /\ Len(frames) \in Nat \ {0} /\ Top \in FrameSet /\ FrameOK(Top, keepRoot)
         /\ Len(frames) = 1 \/ Len(frames) > 1
         /\ FramesOK(frames, keepRoot)
<1>1. /\ Len(frames) \in Nat \ {0} /\ Top \in FrameSet /\ FrameOK(Top, keepRoot)
      /\ FramesOK(frames, keepRoot)
  BY DEF WalkInv, Top, FramesOK
<1>2. \A n \in Nat \ {0} : n = 1 \/ n > 1
  OBVIOUS
<1>3. QED
  BY <1>1, <1>2

\* The directory on top with less to do.
Shortened(s, L, S) ==
  [s EXCEPT ![Len(s)] = [dir |-> s[Len(s)].dir, leaves |-> L, subs |-> S]]

\* A directory of the tree is entered.
LEMMA Entered ==
  ASSUME NEW kept, NEW s, FramesOK(s, kept), NEW d \in Native, Kind[d] = "dir",
         kept => d \notin Guarded, Enter(s, d, kept)
  PROVE  /\ FramesOK(frames', kept) /\ Len(frames') = Len(s) + 1
         /\ \A i \in 1..Len(s) : frames'[i] = s[i]
         /\ frames'[Len(s) + 1].dir = d
         /\ \/ anyFailed' = TRUE
            \/ /\ anyFailed' = anyFailed
               /\ \A o \in Listed(d, kept) :
                    o \in frames'[Len(s) + 1].leaves \cup frames'[Len(s) + 1].subs
<1>1. d \in Objects
  BY NativeClosed
<1>2. ASSUME NEW listed, listed = Listed(d, kept) \/ listed = {},
             frames' = Append(s, Frame(d, listed))
      PROVE  /\ FramesOK(frames', kept) /\ Len(frames') = Len(s) + 1
             /\ \A i \in 1..Len(s) : frames'[i] = s[i]
             /\ frames'[Len(s) + 1] = Frame(d, listed)
  <2> DEFINE fr == Frame(d, listed)
  <2>1. fr \in FrameSet
    BY <1>1, <1>2 DEF Frame, FrameSet, Listed, Children
  <2>2. FrameOK(fr, kept)
    BY <1>2 DEF Frame, FrameOK, IsLeaf, Listed
  <2> HIDE DEF fr
  <2>3. s \in Seq(FrameSet) /\ \A i \in 1..Len(s) : FrameOK(s[i], kept)
    BY DEF FramesOK
  <2>4. /\ frames' \in Seq(FrameSet) /\ Len(frames') = Len(s) + 1
        /\ \A i \in 1..Len(s) : frames'[i] = s[i]
        /\ frames'[Len(s) + 1] = fr
    BY <1>2, <2>1, <2>3 DEF fr
  <2>5. QED
    BY <2>2, <2>3, <2>4 DEF FramesOK, fr
<1>3. \A listed : Frame(d, listed).dir = d /\
        \A o \in listed : o \in Frame(d, listed).leaves \cup Frame(d, listed).subs
  BY DEF Frame
<1>4. CASE frames' = Append(s, Frame(d, Listed(d, kept))) /\ UNCHANGED anyFailed
  BY <1>2, <1>3, <1>4
<1>5. CASE frames' = Append(s, Frame(d, {})) /\ anyFailed' = TRUE
  BY <1>2, <1>3, <1>5
<1>6. QED
  BY <1>4, <1>5 DEF Enter

\* The directory on top is left.
LEMMA Left ==
  ASSUME WalkInv, phase = "walk", Leave
  PROVE  /\ FramesOK(frames', keepRoot) /\ Len(frames') = Len(frames) - 1
         /\ \A i \in 1..Len(frames) - 1 : frames'[i] = frames[i]
<1> DEFINE t == SubSeq(frames, 1, Len(frames) - 1)
<1>1. /\ frames \in Seq(FrameSet) /\ Len(frames) \in Nat \ {0}
      /\ \A i \in 1..Len(frames) : FrameOK(frames[i], keepRoot)
  BY TopFrame DEF FramesOK
<1>2. /\ t \in Seq(FrameSet) /\ Len(t) = Len(frames) - 1
      /\ \A i \in 1..Len(frames) - 1 : t[i] = frames[i]
  <2> DEFINE n == Len(frames) - 1
  <2>1. n \in Nat /\ \A i \in 1..n : frames[i] \in FrameSet
    BY <1>1
  <2> HIDE DEF n
  <2>2. /\ SubSeq(frames, 1, n) \in Seq(FrameSet)
        /\ Len(SubSeq(frames, 1, n)) = IF 1 <= n THEN n - 1 + 1 ELSE 0
        /\ \A i \in 1..n - 1 + 1 : SubSeq(frames, 1, n)[i] = frames[1 + i - 1]
    BY <2>1, SubSeqProperties
  <2>3. n - 1 + 1 = n /\ \A i \in 1..n : 1 + i - 1 = i
    BY <2>1
  <2>4. Len(SubSeq(frames, 1, n)) = n /\ \A i \in 1..n : SubSeq(frames, 1, n)[i] = frames[i]
    BY <2>1, <2>2, <2>3
  <2>5. QED
    BY <2>2, <2>4 DEF n
<1>3. frames' = t
  BY DEF Leave, Below
<1>4. QED
  BY <1>1, <1>2, <1>3 DEF FramesOK

\* What a name in the directory on top means now is of the tree and, unless the name is
\* spared, may go.
LEMMA WhatIsOpened ==
  ASSUME PlacesInv, WalkInv, phase = "walk",
         NEW e \in Top.leaves \cup Top.subs, NEW o \in Opened(Top.dir, Name[e])
  PROVE  /\ o \in InTree /\ where[o] = Top.dir /\ Name[o] = Name[e] /\ e \in Objects
         /\ keepRoot => o \notin Guarded
         /\ Kind[o] = "dir" => o \in Native
<1>1. Top \in FrameSet /\ FrameOK(Top, keepRoot)
  BY TopFrame
<1>2. o \in Objects /\ where[o] = Top.dir /\ Name[o] = Name[e]
  BY DEF Opened, Children
<1>3. o \in InTree /\ Top.dir \in Objects
  BY <1>1, <1>2, WhatIsInside, NativeClosed DEF FrameOK, InTree
<1>4. Kind[o] = "dir" => o \in Native
  BY <1>3, TreeAssumption DEF InTree, TreeAssumption
<1>5. ASSUME keepRoot, o \in Guarded PROVE FALSE
  <2>1. Home[o] = Top.dir
    BY <1>2, <1>3, <1>5, GuardedClosed, TreeAssumption DEF PlacesInv, TreeAssumption
  <2>2. Home[o] = Root /\ Name[o] \in Spare
    BY <1>1, <1>5, <2>1, GuardedClosed DEF FrameOK
  <2>3. QED
    BY <1>1, <1>2, <1>5, <2>1, <2>2 DEF FrameOK
<1>6. QED
  BY <1>1, <1>2, <1>3, <1>4, <1>5 DEF FrameSet

-----------------------------------------------------------------------------
(* What each step does, and that it does it within the tree.                *)

Calls == <<measuring, keepRoot>>

LEMMA UntouchableIs ==
  Untouchable = IF measuring THEN Objects
                ELSE (Objects \ InTree) \cup (IF keepRoot THEN Guarded ELSE {})
BY DEF Untouchable, InTree

LEMMA NoDeletion ==
  ASSUME SafeInv, phase = "walk", phase' \in {"walk", "done"}, UNCHANGED Calls, where' = where
  PROVE  PlacesInv' /\ NothingGone' /\ OutsideSafe'
BY DEF SafeInv, PlacesInv, NothingGone, OutsideSafe, Untouchable, Calls

LEMMA Deletion ==
  ASSUME SafeInv, phase = "walk", phase' \in {"walk", "done"}, UNCHANGED Calls,
         NEW x \in InTree, keepRoot => x \notin Guarded, DeleteObject(x)
  PROVE  /\ PlacesInv' /\ NothingGone' /\ OutsideSafe'
         /\ anyFailed' \in BOOLEAN /\ (anyFailed => anyFailed')
         /\ \A o \in Objects : where'[o] = where[o] \/ where'[o] = Gone
         /\ ~measuring /\ ~anyFailed' => where'[x] = Gone
<1>1. anyFailed' \in BOOLEAN /\ (anyFailed => anyFailed')
  BY DEF DeleteObject, CountsAsFailure, Deletable, SafeInv, WalkInv
<1>2. ~anyFailed' => Deletable(x)
  BY DEF DeleteObject, CountsAsFailure
<1>3. CASE Deletable(x) /\ ~measuring
  <2>1. where' = [where EXCEPT ![x] = Gone]
    BY <1>3 DEF DeleteObject
  <2>2. PlacesInv'
    BY <2>1, DeletedPlaces DEF SafeInv
  <2>3. \A o \in Objects : where'[o] = IF o = x THEN Gone ELSE where[o]
    BY <2>1 DEF SafeInv, PlacesInv
  <2>4. x \notin Untouchable /\ Untouchable' = Untouchable
    BY <1>3, UntouchableIs DEF Untouchable, Calls
  <2>5. OutsideSafe'
    <3>1. Untouchable \subseteq Objects
      BY UntouchableIs, GuardedClosed, NativeClosed
    <3>2. QED
      BY <2>3, <2>4, <3>1 DEF SafeInv, OutsideSafe
  <2>6. NothingGone'
    BY <1>3 DEF NothingGone, Calls
  <2>7. x \in Objects
    BY NativeClosed, TreeAssumption DEF InTree, TreeAssumption
  <2>8. QED
    BY <1>1, <2>2, <2>3, <2>5, <2>6, <2>7
<1>4. CASE ~(Deletable(x) /\ ~measuring)
  <2>1. where' = where
    BY <1>4 DEF DeleteObject
  <2>2. QED
    BY <1>1, <1>2, <1>4, <2>1, NoDeletion
<1>5. QED
  BY <1>3, <1>4

LEMMA ShorterIs ==
  ASSUME WalkInv, phase = "walk"
  PROVE  /\ \A L : [frames EXCEPT ![Len(frames)].leaves = L] = Shortened(frames, L, Top.subs)
         /\ \A S : [frames EXCEPT ![Len(frames)].subs = S] = Shortened(frames, Top.leaves, S)
<1>1. Top \in FrameSet /\ Top = frames[Len(frames)]
  BY TopFrame DEF Top, WalkInv
<1>2. \A L : [Top EXCEPT !.leaves = L] = [dir |-> Top.dir, leaves |-> L, subs |-> Top.subs]
  BY <1>1 DEF FrameSet
<1>3. \A S : [Top EXCEPT !.subs = S] = [dir |-> Top.dir, leaves |-> Top.leaves, subs |-> S]
  BY <1>1 DEF FrameSet
<1>4. QED
  BY <1>1, <1>2, <1>3 DEF Shortened

LEMMA ShorterFrames ==
  ASSUME WalkInv, phase = "walk",
         NEW L \in SUBSET Top.leaves, NEW S \in SUBSET Top.subs
  PROVE  /\ FramesOK(Shortened(frames, L, S), keepRoot)
         /\ Len(Shortened(frames, L, S)) = Len(frames)
         /\ \A i \in 1..Len(frames) : Shortened(frames, L, S)[i].dir = frames[i].dir
         /\ \A i \in 1..Len(frames) - 1 : Shortened(frames, L, S)[i] = frames[i]
         /\ Shortened(frames, L, S)[Len(frames)].leaves = L
         /\ Shortened(frames, L, S)[Len(frames)].subs = S
<1> DEFINE n == Len(frames)
           fr == [dir |-> frames[n].dir, leaves |-> L, subs |-> S]
           t == Shortened(frames, L, S)
<1>1. /\ frames \in Seq(FrameSet) /\ n \in Nat /\ n > 0 /\ frames[n] \in FrameSet
      /\ \A i \in 1..n : FrameOK(frames[i], keepRoot)
  BY TopFrame DEF Top, FramesOK
<1>top. Top = frames[n]
  BY DEF Top
<1>2. fr \in FrameSet /\ fr.dir = frames[n].dir /\ fr.leaves = L /\ fr.subs = S
  BY <1>1, <1>top DEF FrameSet
<1>3. FrameOK(fr, keepRoot)
  BY <1>1, <1>2, <1>top DEF FrameOK
<1>4. t = [frames EXCEPT ![n] = fr]
  BY DEF Shortened
<1> HIDE DEF fr, t
<1>5. t \in Seq(FrameSet) /\ Len(t) = n /\ t[n] = fr /\ \A i \in 1..n : i # n => t[i] = frames[i]
  <2>1. n \in 1..Len(frames)
    BY <1>1
  <2>2. frames \in Seq(FrameSet) /\ fr \in FrameSet
    BY <1>1, <1>2
  <2> HIDE DEF n
  <2>3. /\ [frames EXCEPT ![n] = fr] \in Seq(FrameSet)
        /\ Len([frames EXCEPT ![n] = fr]) = Len(frames)
        /\ \A j \in 1..Len(frames) :
             [frames EXCEPT ![n] = fr][j] = IF j = n THEN fr ELSE frames[j]
    BY <2>1, <2>2, ExceptSeq
  <2>4. QED
    BY <1>4, <2>1, <2>3 DEF n
<1>6. FramesOK(t, keepRoot)
  BY <1>1, <1>3, <1>5 DEF FramesOK
<1>7. \A i \in 1..Len(frames) : t[i].dir = frames[i].dir
  BY <1>2, <1>5
<1>8. QED
  BY <1>1, <1>2, <1>5, <1>6, <1>7 DEF t

\* As long as directories are open, the first is the root.
LEMMA StillWalking ==
  ASSUME WalkInv, phase = "walk", phase' = "walk", UNCHANGED Calls, anyFailed' \in BOOLEAN,
         FramesOK(frames', keepRoot), Len(frames') > 0, frames'[1].dir = Root
  PROVE  WalkInv'
BY DEF WalkInv, FramesOK, Calls, FrameOK

LEMMA LeafDoes ==
  ASSUME WalkInv, Leaf
  PROVE  \E e \in Top.leaves :
           /\ frames' = Shortened(frames, Top.leaves \ {e}, Top.subs)
           /\ \/ measuring /\ UNCHANGED <<where, anyFailed>>
              \/ anyFailed' = TRUE /\ UNCHANGED where
              \/ \E o \in Opened(Top.dir, Name[e]) : DeleteObject(o)
<1>1. PICK e \in Top.leaves :
        /\ frames' = [frames EXCEPT ![Len(frames)].leaves = Top.leaves \ {e}]
        /\ \/ measuring /\ UNCHANGED <<where, anyFailed>>
           \/ anyFailed' = TRUE /\ UNCHANGED where
           \/ \E o \in Opened(Top.dir, Name[e]) : DeleteObject(o)
  BY DEF Leaf, Fail, Top
<1>2. frames' = Shortened(frames, Top.leaves \ {e}, Top.subs)
  BY <1>1, ShorterIs DEF Leaf
<1>3. QED
  BY <1>1, <1>2

LEMMA LeafSafe ==
  ASSUME SafeInv, Leaf PROVE SafeInv'
<1>1. WalkInv /\ phase = "walk" /\ phase' = "walk" /\ UNCHANGED Calls
  BY DEF SafeInv, Leaf, call, Calls
<1>2. PICK e \in Top.leaves :
        /\ frames' = Shortened(frames, Top.leaves \ {e}, Top.subs)
        /\ \/ measuring /\ UNCHANGED <<where, anyFailed>>
           \/ anyFailed' = TRUE /\ UNCHANGED where
           \/ \E o \in Opened(Top.dir, Name[e]) : DeleteObject(o)
  BY <1>1, LeafDoes
<1>3. WalkInv' \/ anyFailed' \notin BOOLEAN
  <2>1. Top \in FrameSet /\ Len(frames) \in Nat \ {0} /\ frames[1].dir = Root
    BY <1>1, TopFrame DEF WalkInv
  <2>2. Top.leaves \ {e} \in SUBSET Top.leaves /\ Top.subs \in SUBSET Top.subs
    OBVIOUS
  <2>3. /\ FramesOK(Shortened(frames, Top.leaves \ {e}, Top.subs), keepRoot)
        /\ Len(Shortened(frames, Top.leaves \ {e}, Top.subs)) = Len(frames)
        /\ \A i \in 1..Len(frames) :
             Shortened(frames, Top.leaves \ {e}, Top.subs)[i].dir = frames[i].dir
    BY <1>1, <2>2, ShorterFrames
  <2> DEFINE t == Shortened(frames, Top.leaves \ {e}, Top.subs)
  <2>first. 1 \in 1..Len(frames)
    BY <2>1
  <2> HIDE DEF t
  <2>kept. FramesOK(t, keepRoot) /\ Len(t) = Len(frames) /\ t[1].dir = Root
    BY <2>1, <2>3, <2>first DEF t
  <2>4. FramesOK(frames', keepRoot) /\ Len(frames') = Len(frames) /\ frames'[1].dir = Root
    BY <1>2, <2>kept DEF t
  <2>5. QED
    BY <1>1, <2>1, <2>4, StillWalking
<1>4. CASE where' = where /\ anyFailed' \in BOOLEAN
  BY <1>1, <1>3, <1>4, NoDeletion DEF SafeInv
<1>5. ASSUME NEW o \in Opened(Top.dir, Name[e]), DeleteObject(o) PROVE SafeInv'
  <2>1. o \in InTree /\ (keepRoot => o \notin Guarded)
    BY <1>1, WhatIsOpened DEF SafeInv
  <2>2. QED
    BY <1>1, <1>3, <1>5, <2>1, Deletion DEF SafeInv
<1>6. QED
  BY <1>1, <1>2, <1>4, <1>5 DEF WalkInv

LEMMA SubdirectoryDoes ==
  ASSUME WalkInv, Subdirectory
  PROVE  \E e \in Top.subs :
         LET rest == Shortened(frames, Top.leaves, Top.subs \ {e}) IN
         \/ frames' = rest /\ anyFailed' = TRUE /\ UNCHANGED where
         \/ \E o \in Opened(Top.dir, Name[e]) : frames' = rest /\ DeleteObject(o)
         \/ \E o \in Opened(Top.dir, Name[e]) :
              Kind[o] = "dir" /\ Enter(rest, o, keepRoot) /\ UNCHANGED where
<1>1. PICK e \in Top.subs :
        LET rest == [frames EXCEPT ![Len(frames)].subs = Top.subs \ {e}] IN
        \/ frames' = rest /\ anyFailed' = TRUE /\ UNCHANGED where
        \/ \E o \in Opened(Top.dir, Name[e]) : frames' = rest /\ DeleteObject(o)
        \/ \E o \in Opened(Top.dir, Name[e]) :
             Kind[o] = "dir" /\ Enter(rest, o, keepRoot) /\ UNCHANGED where
  BY DEF Subdirectory, Fail, Top
<1>2. [frames EXCEPT ![Len(frames)].subs = Top.subs \ {e}]
        = Shortened(frames, Top.leaves, Top.subs \ {e})
  BY ShorterIs DEF Subdirectory
<1>3. QED
  BY <1>1, <1>2

LEMMA SubdirectorySafe ==
  ASSUME SafeInv, Subdirectory PROVE SafeInv'
<1>1. WalkInv /\ phase = "walk" /\ phase' = "walk" /\ UNCHANGED Calls
  BY DEF SafeInv, Subdirectory, call, Calls
<1>2. PICK e \in Top.subs :
        LET rest == Shortened(frames, Top.leaves, Top.subs \ {e}) IN
        \/ frames' = rest /\ anyFailed' = TRUE /\ UNCHANGED where
        \/ \E o \in Opened(Top.dir, Name[e]) : frames' = rest /\ DeleteObject(o)
        \/ \E o \in Opened(Top.dir, Name[e]) :
             Kind[o] = "dir" /\ Enter(rest, o, keepRoot) /\ UNCHANGED where
  BY <1>1, SubdirectoryDoes
<1> DEFINE rest == Shortened(frames, Top.leaves, Top.subs \ {e})
<1>3. Top \in FrameSet /\ Len(frames) \in Nat \ {0} /\ frames[1].dir = Root
  BY <1>1, TopFrame DEF WalkInv
<1>4. Top.leaves \in SUBSET Top.leaves /\ Top.subs \ {e} \in SUBSET Top.subs
  OBVIOUS
<1>5. FramesOK(rest, keepRoot) /\ Len(rest) = Len(frames) /\ rest[1].dir = Root
  <2>1. /\ FramesOK(rest, keepRoot) /\ Len(rest) = Len(frames)
        /\ \A i \in 1..Len(frames) : rest[i].dir = frames[i].dir
    BY <1>1, <1>4, ShorterFrames
  <2>2. 1 \in 1..Len(frames)
    BY <1>3
  <2> HIDE DEF rest
  <2>3. QED
    BY <1>3, <2>1, <2>2
<1> HIDE DEF rest
<1>6. CASE frames' = rest /\ anyFailed' = TRUE /\ UNCHANGED where
  BY <1>1, <1>3, <1>5, <1>6, StillWalking, NoDeletion DEF SafeInv
<1>7. ASSUME NEW o \in Opened(Top.dir, Name[e]), frames' = rest, DeleteObject(o)
      PROVE  SafeInv'
  <2>1. o \in InTree /\ (keepRoot => o \notin Guarded)
    BY <1>1, WhatIsOpened DEF SafeInv
  <2>2. QED
    BY <1>1, <1>3, <1>5, <1>7, <2>1, Deletion, StillWalking DEF SafeInv
<1>8. ASSUME NEW o \in Opened(Top.dir, Name[e]), Kind[o] = "dir",
             Enter(rest, o, keepRoot), UNCHANGED where
      PROVE  SafeInv'
  <2>1. o \in Native /\ (keepRoot => o \notin Guarded)
    BY <1>1, <1>8, WhatIsOpened DEF SafeInv
  <2>entered. /\ FramesOK(frames', keepRoot) /\ Len(frames') = Len(rest) + 1
        /\ \A i \in 1..Len(rest) : frames'[i] = rest[i]
        /\ frames'[Len(rest) + 1].dir = o
        /\ \/ anyFailed' = TRUE
           \/ /\ anyFailed' = anyFailed
              /\ \A p \in Listed(o, keepRoot) :
                   p \in frames'[Len(rest) + 1].leaves \cup frames'[Len(rest) + 1].subs
    BY <1>5, <1>8, <2>1, Entered
  <2>first. 1 \in 1..Len(rest)
    BY <1>3, <1>5
  <2>2. /\ FramesOK(frames', keepRoot) /\ Len(frames') = Len(rest) + 1
        /\ frames'[1] = rest[1] /\ anyFailed' \in BOOLEAN
    BY <1>1, <2>entered, <2>first DEF WalkInv
  <2>3. QED
    BY <1>1, <1>3, <1>5, <1>8, <2>2, StillWalking, NoDeletion DEF SafeInv
<1>9. QED
  BY <1>2, <1>6, <1>7, <1>8 DEF rest

LEMMA LeaveSafe ==
  ASSUME SafeInv, Leave PROVE SafeInv'
<1>1. WalkInv /\ phase = "walk" /\ UNCHANGED Calls
  BY DEF SafeInv, Leave, call, Calls
<1>2. /\ Top \in FrameSet /\ FrameOK(Top, keepRoot) /\ Len(frames) \in Nat \ {0}
      /\ FramesOK(frames, keepRoot) /\ frames[1].dir = Root
  BY <1>1, TopFrame DEF WalkInv
<1>3. phase' = IF Len(frames) = 1 THEN "done" ELSE "walk"
  BY DEF Leave
<1>4. /\ FramesOK(frames', keepRoot) /\ Len(frames') = Len(frames) - 1
      /\ \A i \in 1..Len(frames) - 1 : frames'[i] = frames[i]
  BY <1>1, Left
<1>5. WalkInv' \/ anyFailed' \notin BOOLEAN
  <2>1. CASE Len(frames) = 1
    <3>1. frames' = << >> /\ phase' = "done"
      BY <1>3, <1>4, <2>1 DEF FramesOK
    <3>2. QED
      BY <1>1, <1>4, <3>1 DEF WalkInv, FramesOK, Calls
  <2>2. CASE Len(frames) > 1
    <3>1. 1 \in 1..Len(frames) - 1
      BY <1>2, <2>2
    <3>2. frames'[1].dir = Root /\ Len(frames') > 0 /\ phase' = "walk"
      BY <1>2, <1>3, <1>4, <2>2, <3>1
    <3>3. QED
      BY <1>1, <1>4, <3>2, StillWalking
  <2>3. Len(frames) = 1 \/ Len(frames) > 1
    BY <1>2
  <2>4. QED
    BY <2>1, <2>2, <2>3
<1>6. CASE UNCHANGED <<where, anyFailed>>
  BY <1>1, <1>3, <1>5, <1>6, NoDeletion DEF SafeInv, WalkInv
<1>7. CASE DeleteObject(Top.dir)
  BY <1>1, <1>2, <1>3, <1>5, <1>7, Deletion DEF SafeInv, FrameOK, InTree
<1>8. QED
  BY <1>6, <1>7 DEF Leave

\* Nothing but the root itself can be found where the root is to be.
LEMMA OnlyTheRoot ==
  ASSUME SafeInv, NEW o \in Opened(Outside, Name[Root]), Kind[o] = "dir"
  PROVE  o = Root
<1>1. o \in Objects /\ where[o] = Outside /\ Name[o] = Name[Root]
  BY DEF Opened, Children
<1>2. Home[o] = Outside
  BY <1>1, NativeClosed, TreeAssumption DEF SafeInv, PlacesInv, InTree, TreeAssumption
<1>3. QED
  BY <1>1, <1>2, TreeAssumption DEF TreeAssumption

LEMMA StartSafe ==
  ASSUME SafeInv, NEW measure \in BOOLEAN, NEW kept \in BOOLEAN, Start(measure, kept)
  PROVE  /\ SafeInv' /\ where' = where /\ keepRoot' = kept
         /\ phase' = "walk" =>
              /\ Len(frames') = 1
              /\ ~anyFailed' => \A o \in Listed(Root, kept) :
                                  o \in frames'[1].leaves \cup frames'[1].subs
<1>1. /\ phase = "idle" /\ where' = where /\ measuring' = measure /\ keepRoot' = kept
      /\ \A o \in Objects : where[o] # Gone
  BY DEF Start, tree, SafeInv, NothingGone
<1>2. PlacesInv'
  BY <1>1 DEF SafeInv, PlacesInv
<1>3. NothingGone'
  BY <1>1 DEF NothingGone
<1>4. OutsideSafe'
  <2>1. Untouchable' \subseteq Objects
    BY GuardedClosed, NativeClosed DEF Untouchable
  <2>2. QED
    BY <1>1, <2>1 DEF OutsideSafe
<1>5. frames = << >> /\ anyFailed \in BOOLEAN
  BY <1>1 DEF SafeInv, WalkInv
<1>6. CASE phase' = "refused" /\ UNCHANGED <<frames, anyFailed>>
  <2>1. WalkInv'
    BY <1>1, <1>5, <1>6 DEF SafeInv, WalkInv
  <2>2. QED
    BY <1>1, <1>2, <1>3, <1>4, <1>6, <2>1 DEF SafeInv
<1>7. CASE phase' = "walk" /\ Kind[Root] = "dir" /\ Enter(<< >>, Root, kept)
  <2>1. Root \in Native /\ Root \notin Guarded
    BY NativeClosed, GuardedClosed
  <2> DEFINE none == << >>
  <2>2. FramesOK(none, kept) /\ Len(none) = 0
    BY DEF FramesOK
  <2>3. Enter(none, Root, kept)
    BY <1>7
  <2> HIDE DEF none
  <2>4. /\ FramesOK(frames', kept) /\ Len(frames') = Len(none) + 1
        /\ frames'[Len(none) + 1].dir = Root
        /\ \/ anyFailed' = TRUE
           \/ /\ anyFailed' = anyFailed
              /\ \A o \in Listed(Root, kept) :
                   o \in frames'[Len(none) + 1].leaves \cup frames'[Len(none) + 1].subs
    BY <1>7, <2>1, <2>2, <2>3, Entered
  <2>5. Len(none) + 1 = 1
    BY <2>2
  <2>6. /\ FramesOK(frames', kept) /\ Len(frames') = 1 /\ frames'[1].dir = Root
        /\ anyFailed' \in BOOLEAN
        /\ ~anyFailed' => \A o \in Listed(Root, kept) :
                            o \in frames'[1].leaves \cup frames'[1].subs
    BY <1>5, <2>4, <2>5
  <2>7. frames' \in Seq(FrameSet) /\ frames' # << >>
        /\ \A i \in DOMAIN frames' : FrameOK(frames'[i], kept)
    BY <2>6 DEF FramesOK
  <2>8. WalkInv'
    BY <1>1, <1>7, <2>6, <2>7 DEF WalkInv, FrameOK
  <2>9. QED
    BY <1>1, <1>2, <1>3, <1>4, <2>6, <2>8 DEF SafeInv
<1>8. CASE \E o \in Opened(Outside, Name[Root]) :
             Kind[o] = "dir" /\ phase' = "walk" /\ Enter(<< >>, o, kept)
  BY <1>7, <1>8, OnlyTheRoot
<1>9. QED
  BY <1>6, <1>8 DEF Start

LEMMA OthersSafe ==
  ASSUME SafeInv, OthersInTree
  PROVE  /\ SafeInv' /\ UNCHANGED <<call, frames, anyFailed, phase>>
         /\ \A o \in Objects : where'[o] = Gone <=> where[o] = Gone
         /\ \A o \in Native : where'[o] = where[o] \/ where'[o] = Elsewhere
<1>1. UNCHANGED <<call, frames, anyFailed, phase>>
  BY DEF OthersInTree
<1>2. /\ PlacesInv'
      /\ \A o \in Objects : where'[o] = Gone <=> where[o] = Gone
      /\ \A o \in Native : where'[o] = where[o] \/ where'[o] = Elsewhere
  <2>1. CASE where' = where
    BY <2>1 DEF SafeInv, PlacesInv
  <2>2. ASSUME NEW o \in Newcomers, NEW d \in Inside, Appear(o, d) \/ MoveBehindLink(d, o)
        PROVE  /\ PlacesInv'
               /\ \A c \in Objects : where'[c] = Gone <=> where[c] = Gone
               /\ \A c \in Native : where'[c] = where[c] \/ where'[c] = Elsewhere
    BY <2>2, OthersPlaces DEF SafeInv
  <2>3. QED
    BY <2>1, <2>2 DEF OthersInTree
<1>3. WalkInv'
  BY <1>1 DEF SafeInv, WalkInv, FrameOK, call
<1>4. NothingGone'
  BY <1>1, <1>2 DEF SafeInv, NothingGone, call
<1>5. OutsideSafe'
  <2>1. Untouchable' = Untouchable /\ Untouchable \subseteq Objects
    BY <1>1, UntouchableIs, GuardedClosed, NativeClosed DEF Untouchable, call
  <2>2. QED
    BY <1>2, <2>1 DEF SafeInv, OutsideSafe
<1>6. QED
  BY <1>1, <1>2, <1>3, <1>4, <1>5 DEF SafeInv

LEMMA SafeStart == TreeInit => SafeInv
<1> SUFFICES ASSUME TreeInit PROVE SafeInv
  OBVIOUS
<1>1. \A o \in Objects : where[o] # Gone
  BY TreeAssumption DEF TreeAssumption, TreeInit
<1>2. PlacesInv
  BY NativeClosed, TreeAssumption DEF TreeAssumption, TreeInit, PlacesInv, InTree
<1>3. WalkInv
  <2>1. frames = << >> /\ frames \in Seq(FrameSet) /\ Len(frames) = 0
    BY DEF TreeInit
  <2>2. \A i \in DOMAIN frames : FrameOK(frames[i], keepRoot)
    BY <2>1
  <2>3. QED
    BY <2>1, <2>2 DEF TreeInit, WalkInv
<1>4. OutsideSafe
  BY <1>1, GuardedClosed, NativeClosed, UntouchableIs DEF OutsideSafe
<1>5. QED
  BY <1>1, <1>2, <1>3, <1>4 DEF SafeInv, NothingGone

LEMMA SafeStep == SafeInv /\ [TreeNext]_treeVars => SafeInv'
<1> SUFFICES ASSUME SafeInv, [TreeNext]_treeVars PROVE SafeInv'
  OBVIOUS
<1>1. CASE \E measure, kept \in BOOLEAN : Start(measure, kept)
  BY <1>1, StartSafe
<1>2. CASE Leaf
  BY <1>2, LeafSafe
<1>3. CASE Subdirectory
  BY <1>3, SubdirectorySafe
<1>4. CASE Leave
  BY <1>4, LeaveSafe
<1>5. CASE OthersInTree
  BY <1>5, OthersSafe
<1>6. CASE UNCHANGED treeVars
  <2>1. UNCHANGED <<where, measuring, keepRoot, frames, anyFailed, phase>>
    BY <1>6 DEF treeVars
  <2>2. PlacesInv' /\ NothingGone' /\ OutsideSafe'
    BY <2>1 DEF SafeInv, PlacesInv, NothingGone, OutsideSafe, Untouchable
  <2>3. WalkInv'
    BY <2>1 DEF SafeInv, WalkInv, FrameOK
  <2>4. QED
    BY <2>2, <2>3 DEF SafeInv
<1>7. QED
  BY <1>1, <1>2, <1>3, <1>4, <1>5, <1>6 DEF TreeNext

\* Nothing outside the tree, nothing that is spared and, by a measurement, nothing at
\* all is ever deleted, whatever names, links and folders change under the walk
\* (tree_delete.py:349-384, 315, 321).
THEOREM OutsideAlwaysSafe == TreeSpec => []OutsideSafe
<1>1. TreeInit => SafeInv
  BY SafeStart
<1>2. SafeInv /\ [TreeNext]_treeVars => SafeInv'
  BY SafeStep
<1>3. SafeInv => OutsideSafe
  BY DEF SafeInv
<1>4. QED
  BY <1>1, <1>2, <1>3, PTL DEF TreeSpec

-----------------------------------------------------------------------------
(* Nothing is left behind.                                                  *)

\* A child of the root, by what happens to it in the walk's next step.
LEMMA LeafPending ==
  ASSUME SafeInv, RootPending, Leaf PROVE RootPending'
<1> SUFFICES ASSUME keepRoot', ~measuring', ~anyFailed',
                    NEW c \in Native, where'[c] = Root, Name[c] \notin Spare
             PROVE  \/ c \in frames'[1].leaves \cup frames'[1].subs
                    \/ Len(frames') > 1 /\ frames'[2].dir = c
  BY DEF RootPending, Leaf
<1>1. /\ WalkInv /\ PlacesInv /\ phase = "walk" /\ phase' = "walk" /\ UNCHANGED Calls
      /\ keepRoot /\ ~measuring
  BY DEF SafeInv, Leaf, call, Calls
<1>2. PICK e \in Top.leaves :
        /\ frames' = Shortened(frames, Top.leaves \ {e}, Top.subs)
        /\ \/ measuring /\ UNCHANGED <<where, anyFailed>>
           \/ anyFailed' = TRUE /\ UNCHANGED where
           \/ \E o \in Opened(Top.dir, Name[e]) : DeleteObject(o)
  BY <1>1, LeafDoes
<1>3. PICK o \in Opened(Top.dir, Name[e]) : DeleteObject(o)
  BY <1>1, <1>2
<1>4. /\ o \in InTree /\ where[o] = Top.dir /\ Name[o] = Name[e]
      /\ keepRoot => o \notin Guarded
  BY <1>1, WhatIsOpened
<1>5. /\ ~anyFailed /\ where'[o] = Gone
      /\ \A p \in Objects : where'[p] = where[p] \/ where'[p] = Gone
  BY <1>1, <1>3, <1>4, Deletion
<1>6. c \in Objects /\ o \in Objects /\ Root # Gone /\ Root \in Objects
  BY <1>4, NativeClosed, TreeAssumption DEF InTree, TreeAssumption
<1>7. where[c] = Root
  BY <1>5, <1>6
<1>8. \/ c \in frames[1].leaves \cup frames[1].subs
      \/ Len(frames) > 1 /\ frames[2].dir = c
  BY <1>1, <1>5, <1>7 DEF RootPending
<1> DEFINE t == Shortened(frames, Top.leaves \ {e}, Top.subs)
<1>9. Top.leaves \ {e} \in SUBSET Top.leaves /\ Top.subs \in SUBSET Top.subs
  OBVIOUS
<1>10. /\ Len(t) = Len(frames)
       /\ \A i \in 1..Len(frames) : t[i].dir = frames[i].dir
       /\ \A i \in 1..Len(frames) - 1 : t[i] = frames[i]
       /\ t[Len(frames)].leaves = Top.leaves \ {e} /\ t[Len(frames)].subs = Top.subs
  BY <1>1, <1>9, ShorterFrames
<1>11. /\ frames' = t /\ Len(frames) \in Nat \ {0} /\ frames[1].dir = Root
       /\ Len(frames) = 1 \/ Len(frames) > 1
  BY <1>1, <1>2, TopFrame DEF WalkInv
<1> HIDE DEF t
<1>12. CASE Len(frames) = 1
  <2>1. Top = frames[1]
    BY <1>12 DEF Top
  <2>2. c # e
    BY <1>1, <1>4, <1>5, <1>6, <1>7, <1>11, <2>1 DEF PlacesInv
  <2>3. QED
    BY <1>8, <1>10, <1>11, <1>12, <2>1, <2>2
<1>13. CASE Len(frames) > 1
  <2>1. 1 \in 1..Len(frames) - 1 /\ 2 \in 1..Len(frames)
    BY <1>11, <1>13
  <2>2. QED
    BY <1>8, <1>10, <1>11, <1>13, <2>1
<1>14. QED
  BY <1>11, <1>12, <1>13

LEMMA SubdirectoryPending ==
  ASSUME SafeInv, RootPending, Subdirectory PROVE RootPending'
<1> SUFFICES ASSUME keepRoot', ~measuring', ~anyFailed',
                    NEW c \in Native, where'[c] = Root, Name[c] \notin Spare
             PROVE  \/ c \in frames'[1].leaves \cup frames'[1].subs
                    \/ Len(frames') > 1 /\ frames'[2].dir = c
  BY DEF RootPending, Subdirectory
<1>1. /\ WalkInv /\ PlacesInv /\ phase = "walk" /\ phase' = "walk" /\ UNCHANGED Calls
      /\ keepRoot /\ ~measuring
  BY DEF SafeInv, Subdirectory, call, Calls
<1>2. PICK e \in Top.subs :
        LET rest == Shortened(frames, Top.leaves, Top.subs \ {e}) IN
        \/ frames' = rest /\ anyFailed' = TRUE /\ UNCHANGED where
        \/ \E o \in Opened(Top.dir, Name[e]) : frames' = rest /\ DeleteObject(o)
        \/ \E o \in Opened(Top.dir, Name[e]) :
             Kind[o] = "dir" /\ Enter(rest, o, keepRoot) /\ UNCHANGED where
  BY <1>1, SubdirectoryDoes
<1> DEFINE rest == Shortened(frames, Top.leaves, Top.subs \ {e})
<1>3. Top.leaves \in SUBSET Top.leaves /\ Top.subs \ {e} \in SUBSET Top.subs
  OBVIOUS
<1>4. /\ FramesOK(rest, keepRoot) /\ Len(rest) = Len(frames)
      /\ \A i \in 1..Len(frames) : rest[i].dir = frames[i].dir
      /\ \A i \in 1..Len(frames) - 1 : rest[i] = frames[i]
      /\ rest[Len(frames)].leaves = Top.leaves /\ rest[Len(frames)].subs = Top.subs \ {e}
  BY <1>1, <1>3, ShorterFrames
<1>5. /\ Len(frames) \in Nat \ {0} /\ frames[1].dir = Root
      /\ Len(frames) = 1 \/ Len(frames) > 1
  BY <1>1, TopFrame DEF WalkInv
<1> HIDE DEF rest
<1>6. PICK o \in Opened(Top.dir, Name[e]) :
        \/ frames' = rest /\ DeleteObject(o)
        \/ Kind[o] = "dir" /\ Enter(rest, o, keepRoot) /\ UNCHANGED where
  BY <1>2 DEF rest
<1>7. /\ o \in InTree /\ where[o] = Top.dir /\ Name[o] = Name[e]
      /\ keepRoot => o \notin Guarded
      /\ Kind[o] = "dir" => o \in Native
  BY <1>1, WhatIsOpened
<1>8. c \in Objects /\ o \in Objects /\ Root # Gone /\ Root \in Objects
  BY <1>7, NativeClosed, TreeAssumption DEF InTree, TreeAssumption
\* What is left to do in the root, but for the entry, and the folder it is at.
<1>9. ASSUME where[c] = Root, ~anyFailed, Len(frames) = 1 => c # e
      PROVE  \/ c \in rest[1].leaves \cup rest[1].subs
             \/ Len(frames) > 1 /\ rest[2].dir = c
  <2>1. \/ c \in frames[1].leaves \cup frames[1].subs
        \/ Len(frames) > 1 /\ frames[2].dir = c
    BY <1>1, <1>9 DEF RootPending
  <2>2. CASE Len(frames) = 1
    <3>1. Top = frames[1]
      BY <2>2 DEF Top
    <3>2. QED
      BY <1>4, <1>9, <2>1, <2>2, <3>1
  <2>3. CASE Len(frames) > 1
    <3>1. 1 \in 1..Len(frames) - 1 /\ 2 \in 1..Len(frames)
      BY <1>5, <2>3
    <3>2. QED
      BY <1>4, <2>1, <2>3, <3>1
  <2>4. QED
    BY <1>5, <2>2, <2>3
\* The entry of the root is what is opened: siblings have different names.
<1>10. ASSUME where[c] = Root, Len(frames) = 1, c = e
       PROVE  o = c
  <2>1. Top = frames[1]
    BY <1>10 DEF Top
  <2>2. QED
    BY <1>1, <1>5, <1>7, <1>8, <1>10, <2>1 DEF PlacesInv
<1>11. CASE frames' = rest /\ DeleteObject(o)
  <2>1. /\ ~anyFailed /\ where'[o] = Gone
        /\ \A p \in Objects : where'[p] = where[p] \/ where'[p] = Gone
    BY <1>1, <1>7, <1>11, Deletion
  <2>2. where[c] = Root /\ o # c
    BY <1>8, <2>1
  <2>3. QED
    BY <1>4, <1>9, <1>10, <1>11, <2>1, <2>2
<1>12. CASE Kind[o] = "dir" /\ Enter(rest, o, keepRoot) /\ UNCHANGED where
  <2>1. o \in Native /\ (keepRoot => o \notin Guarded)
    BY <1>7, <1>12
  <2>2. /\ FramesOK(frames', keepRoot) /\ Len(frames') = Len(rest) + 1
        /\ \A i \in 1..Len(rest) : frames'[i] = rest[i]
        /\ frames'[Len(rest) + 1].dir = o
        /\ \/ anyFailed' = TRUE
           \/ /\ anyFailed' = anyFailed
              /\ \A p \in Listed(o, keepRoot) :
                   p \in frames'[Len(rest) + 1].leaves \cup frames'[Len(rest) + 1].subs
    BY <1>4, <1>12, <2>1, Entered
  <2>3. where[c] = Root /\ ~anyFailed
    BY <1>12, <2>2
  <2>4. CASE Len(frames) = 1
    <3>1. Len(frames') = 2 /\ frames'[1] = rest[1] /\ frames'[2].dir = o
      BY <1>4, <2>2, <2>4
    <3>2. CASE c = e
      BY <1>10, <2>3, <2>4, <3>1, <3>2
    <3>3. CASE c # e
      BY <1>9, <2>3, <2>4, <3>1, <3>3
    <3>4. QED
      BY <3>2, <3>3
  <2>5. CASE Len(frames) > 1
    <3>1. 1 \in 1..Len(rest) /\ 2 \in 1..Len(rest)
      BY <1>4, <1>5, <2>5
    <3>2. Len(frames') > 1 /\ frames'[1] = rest[1] /\ frames'[2] = rest[2]
      BY <1>4, <1>5, <2>2, <2>5, <3>1
    <3>3. \/ c \in rest[1].leaves \cup rest[1].subs
          \/ rest[2].dir = c
      <4>1. \A n \in Nat : n > 1 => n # 1
        OBVIOUS
      <4>2. Len(frames) # 1
        BY <1>5, <2>5, <4>1
      <4>3. QED
        BY <1>9, <2>3, <4>2
    <3>4. QED
      BY <3>2, <3>3
  <2>6. QED
    BY <1>5, <2>4, <2>5
<1>13. QED
  BY <1>6, <1>11, <1>12

LEMMA LeavePending ==
  ASSUME SafeInv, RootPending, Leave PROVE RootPending' /\ RootGone'
<1>1. /\ WalkInv /\ phase = "walk" /\ UNCHANGED Calls
      /\ Top.leaves = {} /\ Top.subs = {}
  BY DEF SafeInv, Leave, call, Calls
<1>2. /\ Top \in FrameSet /\ FrameOK(Top, keepRoot) /\ Len(frames) \in Nat \ {0}
      /\ Len(frames) = 1 \/ Len(frames) > 1
      /\ frames[1].dir = Root
  BY <1>1, TopFrame DEF WalkInv
<1>3. phase' = IF Len(frames) = 1 THEN "done" ELSE "walk"
  BY DEF Leave
<1>4. /\ Len(frames') = Len(frames) - 1
      /\ \A i \in 1..Len(frames) - 1 : frames'[i] = frames[i]
  BY <1>1, Left
<1>5. ASSUME DeleteObject(Top.dir)
      PROVE  /\ anyFailed => anyFailed'
             /\ \A o \in Objects : where'[o] = where[o] \/ where'[o] = Gone
             /\ ~measuring /\ ~anyFailed' => where'[Top.dir] = Gone
  BY <1>1, <1>2, <1>3, <1>5, Deletion DEF FrameOK, InTree
<1>6. RootGone'
  <2>1. SUFFICES ASSUME phase' = "done", ~keepRoot, ~measuring, ~anyFailed'
                 PROVE  where'[Root] = Gone
    BY <1>1 DEF RootGone, Calls
  <2>2. Len(frames) = 1 /\ Top.dir = Root
    BY <1>2, <1>3, <2>1 DEF Top
  <2>3. QED
    BY <1>5, <2>1, <2>2 DEF Leave
<1>7. RootPending'
  <2>1. SUFFICES ASSUME keepRoot, ~measuring, ~anyFailed',
                        NEW c \in Native, where'[c] = Root, Name[c] \notin Spare
                 PROVE  /\ phase' = "walk"
                        /\ \/ c \in frames'[1].leaves \cup frames'[1].subs
                           \/ Len(frames') > 1 /\ frames'[2].dir = c
    BY <1>1 DEF RootPending, Calls
  <2>2. c \in Objects /\ Root # Gone
    BY NativeClosed, TreeAssumption DEF TreeAssumption
  <2>3. where[c] = Root /\ ~anyFailed
    BY <1>5, <2>1, <2>2 DEF Leave
  <2>4. \/ c \in frames[1].leaves \cup frames[1].subs
        \/ Len(frames) > 1 /\ frames[2].dir = c
    BY <1>1, <2>1, <2>3 DEF RootPending
  <2>5. Len(frames) > 1
    <3>1. Len(frames) = 1 => Top = frames[1]
      BY DEF Top
    <3>2. QED
      BY <1>1, <1>2, <2>4, <3>1
  <2>6. frames'[1] = frames[1] /\ phase' = "walk"
    BY <1>2, <1>3, <1>4, <2>5
  <2>7. CASE Len(frames) = 2
    <3>1. Top = frames[2]
      BY <2>7 DEF Top
    <3>2. Top.dir # c
      BY <1>5, <2>1, <2>2, <2>5, <2>7 DEF Leave
    <3>3. QED
      BY <2>4, <2>6, <3>1, <3>2
  <2>8. CASE Len(frames) > 2
    <3>1. 2 \in 1..Len(frames) - 1 /\ Len(frames) - 1 > 1
      BY <1>2, <2>8
    <3>2. QED
      BY <1>4, <2>4, <2>6, <3>1
  <2>9. \A n \in Nat : n > 1 => n = 2 \/ n > 2
    OBVIOUS
  <2>10. QED
    BY <1>2, <2>5, <2>7, <2>8, <2>9
<1>8. QED
  BY <1>6, <1>7

LEMMA StartPending ==
  ASSUME SafeInv, NEW measure \in BOOLEAN, NEW kept \in BOOLEAN, Start(measure, kept)
  PROVE  RootPending' /\ RootGone'
<1>1. /\ where' = where /\ keepRoot' = kept /\ phase' \in {"walk", "refused"}
      /\ phase' = "walk" =>
           /\ Len(frames') = 1
           /\ ~anyFailed' => \A o \in Listed(Root, kept) :
                               o \in frames'[1].leaves \cup frames'[1].subs
  BY StartSafe DEF Start
<1>2. \A c \in Native : where[c] = Root /\ Name[c] \notin Spare => c \in Listed(Root, kept)
  BY NativeClosed DEF Listed, Children
<1>3. QED
  BY <1>1, <1>2 DEF RootPending, RootGone

LEMMA OthersPending ==
  ASSUME SafeInv, RootPending, RootGone, OthersInTree PROVE RootPending' /\ RootGone'
<1>1. /\ UNCHANGED <<measuring, keepRoot, frames, anyFailed, phase>>
      /\ \A o \in Objects : where'[o] = Gone <=> where[o] = Gone
      /\ \A o \in Native : where'[o] = where[o] \/ where'[o] = Elsewhere
  BY OthersSafe DEF call
<1>2. Root \in Objects /\ Root # Elsewhere
  BY TreeAssumption DEF TreeAssumption
<1>3. RootGone'
  BY <1>1, <1>2 DEF RootGone
<1>4. \A c \in Native : where'[c] = Root => where[c] = Root
  BY <1>1, <1>2
<1>5. QED
  BY <1>1, <1>3, <1>4 DEF RootPending

LEMMA CompleteStep ==
  SafeInv /\ RootPending /\ RootGone /\ [TreeNext]_treeVars => RootPending' /\ RootGone'
<1> SUFFICES ASSUME SafeInv, RootPending, RootGone, [TreeNext]_treeVars
             PROVE  RootPending' /\ RootGone'
  OBVIOUS
<1>1. CASE \E measure, kept \in BOOLEAN : Start(measure, kept)
  BY <1>1, StartPending
<1>2. CASE Leaf
  BY <1>2, LeafPending DEF Leaf, RootGone
<1>3. CASE Subdirectory
  BY <1>3, SubdirectoryPending DEF Subdirectory, RootGone
<1>4. CASE Leave
  BY <1>4, LeavePending
<1>5. CASE OthersInTree
  BY <1>5, OthersPending
<1>6. CASE UNCHANGED treeVars
  BY <1>6 DEF treeVars, RootPending, RootGone
<1>7. QED
  BY <1>1, <1>2, <1>3, <1>4, <1>5, <1>6 DEF TreeNext

\* When the walk is over, a path from the kept root leads to a spared child, and on to
\* what is beneath it, or to what others brought.
LEMMA CompleteAtEnd ==
  ASSUME SafeInv, RootPending, RootGone PROVE CompleteMeansGone
<1>1. SUFFICES ASSUME phase = "done", ~anyFailed, ~measuring, keepRoot
               PROVE  Inside \subseteq {Root} \cup Newcomers \cup Untouchable
  BY DEF RootGone, CompleteMeansGone
<1> DEFINE T == {Root} \cup Newcomers \cup Guarded
<1>2. \A c \in Native : where[c] = Root => Name[c] \in Spare
  BY <1>1 DEF RootPending
<1>3. T \subseteq InTree
  BY NativeClosed, GuardedClosed DEF InTree
<1>4. ASSUME NEW o \in Objects, where[o] \in T PROVE o \in T
  <2>1. o \in InTree /\ where[o] \in Native
    BY <1>3, <1>4, WhatIsInside DEF SafeInv
  <2>2. CASE o \in Native
    <3>1. where[o] \in {Root} \cup Guarded
      BY <1>4, <2>1, NativeClosed
    <3>2. where[o] = Home[o]
      BY <2>1, <2>2, NativeClosed, TreeAssumption
      DEF SafeInv, PlacesInv, TreeAssumption
    <3>3. QED
      BY <1>2, <2>2, <3>1, <3>2, GuardedClosed
  <2>3. QED
    BY <2>1, <2>2 DEF InTree
<1>5. Root \in T
  OBVIOUS
<1> HIDE DEF T
<1>6. Beneath(where, Root) \subseteq T
  BY <1>4, <1>5, BeneathWithin
<1>7. QED
  BY <1>1, <1>6, UntouchableIs DEF Inside, T

\* A call that reports no failure leaves nothing of the tree in place but what it was
\* told to kept and what others have put there since (tree_delete.py:408-450).
THEOREM CompleteAlwaysGone == TreeSpec => []CompleteMeansGone
<1> DEFINE I == SafeInv /\ RootPending /\ RootGone
<1>1. TreeInit => I
  BY SafeStart DEF TreeInit, RootPending, RootGone
<1>2. I /\ [TreeNext]_treeVars => I'
  BY SafeStep, CompleteStep
<1>3. I => CompleteMeansGone
  BY CompleteAtEnd
<1> HIDE DEF I
<1>4. QED
  BY <1>1, <1>2, <1>3, PTL DEF TreeSpec
=============================================================================
