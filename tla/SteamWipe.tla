------------------------------- MODULE SteamWipe ------------------------------
(***************************************************************************)
(* The Steam reset:                                                         *)
(*   games/steam/wipe.py      scan, wipe, _remove_game, _remove_cache       *)
(*   games/steam/library.py   find_steam, discover_libraries, manifests     *)
(*   games/steam/signout.py, targets.py, default_keep.py                    *)
(* A plan splits the installed games by the keep-list and lists what is     *)
(* cleared besides; the operator may keep more games back; the wipe stops   *)
(* Steam and removes game after game, its folder first and its manifest     *)
(* last, then the caches, then what signs the accounts out.                 *)
(*                                                                          *)
(* A folder is whole, in part or gone.  Deleting one ends as TreeDelete     *)
(* says: refused when a link is in its place, an error when it cannot be    *)
(* opened, and otherwise complete or in part, which the caller is not told. *)
(***************************************************************************)
EXTENDS Naturals, FiniteSets

CONSTANTS
  Games,
  InstallPath,   \* [Games -> Places]: install_path; two games may share one
  KeepList,      \* DEFAULT_KEEP_IDS and the operator's exceptions
  Places,        \* the folders of the games
  Caches,        \* the cache folders of the libraries and of the root
  SignIns,       \* config, local.vdf and htmlcache of each profile
  Spared,        \* [SignIns -> files that stay when it is emptied]
  SteamOthers

\* Games are in the libraries' common folders, apart from what is cleared besides.
ASSUME WipeAssumption ==
  /\ InstallPath \in [Games -> Places]
  /\ Places \cap (Caches \cup SignIns) = {}

Targets == Places \cup Caches \cup SignIns

VARIABLES
  folder,     \* [Folders -> {"whole", "part", "gone", "link"}]
  manifest,   \* games whose appmanifest is there: those Steam knows
  spared,     \* the spared files that are there
  steam,      \* Steam runs
  busy,       \* folders with something open in another program
  doing,
  remove, keep, caches, signout,    \* WipePlan
  dryRun,
  game,       \* the game whose manifest is next
  cleared,    \* every sign-in target so far returned True
  counted,    \* WipeResult: the games counted removed, refused and failed
  signedOut,
  steamOthers

machine == <<folder, manifest, spared, steam, busy>>
wipePlan == <<remove, keep, caches, signout>>
wipeVars == <<folder, manifest, spared, steam, busy, doing, remove, keep, caches,
              signout, dryRun, game, cleared, counted, signedOut, steamOthers>>

WipeInit ==
  /\ folder = [p \in Targets |-> "whole"] /\ manifest = Games
  /\ spared = UNION {Spared[t] : t \in SignIns}
  /\ steam = TRUE /\ busy = {}
  /\ doing = "idle" /\ remove = {} /\ keep = {} /\ caches = {} /\ signout = {}
  /\ dryRun = FALSE /\ game = (CHOOSE g \in Games : TRUE) /\ cleared = TRUE
  /\ counted = [removed |-> {}, refused |-> {}, failed |-> {}]
  /\ signedOut = FALSE /\ steamOthers = 0

-----------------------------------------------------------------------------
(* Mistakes the decisions below could contain.                              *)

ManifestRegardless == {"complete", "part", "refused", "failed"}

-----------------------------------------------------------------------------
(* Decisions.                                                               *)

\* wipe: the games of the plan that are not also to be kept.
Doomed == remove \ keep

\* _remove_game: how a folder's deletion must have ended for the manifest to
\* go; an error and a refusal return before it.
ManifestFollows == {"complete", "part"}

\* clear in mode CONTENTS: CONFIG_KEEP.
Keeps(t) == Spared[t]

\* How delete_tree, or delete_file, of p can end now.
Endings(p) ==
  CASE folder[p] = "gone" -> {"complete"}
    [] folder[p] = "link" -> {"refused"}
    [] p \in busy -> {"part", "failed"}
    [] OTHER -> {"complete"}

After(p, ending) ==
  CASE ending = "complete" -> [folder EXCEPT ![p] = "gone"]
    [] ending = "part" -> [folder EXCEPT ![p] = "part"]
    [] OTHER -> folder

-----------------------------------------------------------------------------
(* Plan.                                                                    *)

\* installed_games: one game for every manifest that can be read.
Installed == manifest

\* _cache_targets: the folders that are there.
CacheTargets == {p \in Caches : folder[p] # "gone"}

\* signout_targets: a profile whose folder a link redirects is passed over.
SignInTargets == {p \in SignIns : folder[p] \notin {"gone", "link"}}

ScanGames ==
  /\ doing = "idle" /\ doing' = "planned"
  /\ keep' = Installed \cap KeepList /\ remove' = Installed \ KeepList
  /\ caches' = CacheTargets
  /\ signout' = SignInTargets
  /\ UNCHANGED <<machine, dryRun, game, cleared, counted, signedOut, steamOthers>>

\* WipePlan.with_kept_back.
KeepBack(ids) ==
  /\ doing = "planned" /\ ids # {} /\ ids \subseteq remove
  /\ remove' = remove \ ids /\ keep' = keep \cup ids
  /\ UNCHANGED <<machine, doing, caches, signout, dryRun, game, cleared, counted,
                 signedOut, steamOthers>>

ConfirmWipe(try) ==
  /\ doing = "planned" /\ dryRun' = try /\ doing' = IF try THEN "games" ELSE "stop"
  /\ UNCHANGED <<machine, wipePlan, game, cleared, counted, signedOut, steamOthers>>

\* _stop_steam: best effort, and what Steam had open is released.
StopSteam ==
  /\ doing = "stop" /\ doing' = "games"
  /\ \/ steam' = FALSE /\ busy' = {}
     \/ UNCHANGED <<steam, busy>>
  /\ UNCHANGED <<folder, manifest, spared, wipePlan, dryRun, game, cleared, counted,
                 signedOut, steamOthers>>

-----------------------------------------------------------------------------
(* Games.                                                                   *)

Handled == counted.removed \cup counted.refused \cup counted.failed

\* _remove_game up to the manifest.  A folder that is a link leads out of the
\* library and is refused; a dry run only counts.
RemoveFolder(g) ==
  /\ doing = "games" /\ g \in Doomed \ Handled
  /\ \E ending \in Endings(InstallPath[g]) :
       /\ folder' = IF dryRun THEN folder ELSE After(InstallPath[g], ending)
       /\ counted' = [counted EXCEPT
            !.removed = IF ending \in {"complete", "part"} \/ (dryRun /\ ending = "failed")
                          THEN @ \cup {g} ELSE @,
            !.refused = IF ending = "refused" THEN @ \cup {g} ELSE @,
            !.failed = IF ending = "failed" /\ ~dryRun THEN @ \cup {g} ELSE @]
       /\ doing' = IF ending \in ManifestFollows /\ ~dryRun THEN "manifest" ELSE "games"
  /\ game' = g
  /\ UNCHANGED <<manifest, spared, steam, busy, wipePlan, dryRun, cleared,
                 signedOut, steamOthers>>

RemoveManifest ==
  /\ doing = "manifest" /\ doing' = "games"
  /\ \/ manifest' = manifest \ {game} /\ UNCHANGED counted
     \/ /\ UNCHANGED manifest     \* in use
        /\ counted' = [counted EXCEPT !.failed = @ \cup {game}]
  /\ UNCHANGED <<folder, spared, steam, busy, wipePlan, dryRun, game, cleared,
                 signedOut, steamOthers>>

GamesDone ==
  /\ doing = "games" /\ Doomed \subseteq Handled /\ doing' = "caches"
  /\ UNCHANGED <<machine, wipePlan, dryRun, game, cleared, counted, signedOut, steamOthers>>

-----------------------------------------------------------------------------
(* Caches and sign-in.                                                      *)

ClearCache(p) ==
  /\ doing = "caches" /\ p \in caches /\ caches' = caches \ {p}
  /\ IF dryRun THEN UNCHANGED folder
     ELSE \E ending \in Endings(p) : folder' = After(p, ending)
  /\ UNCHANGED <<manifest, spared, steam, busy, doing, remove, keep, signout,
                 dryRun, game, cleared, counted, signedOut, steamOthers>>

CachesDone ==
  /\ doing = "caches" /\ caches = {} /\ doing' = "signout" /\ cleared' = (signout # {})
  /\ UNCHANGED <<machine, wipePlan, dryRun, game, counted, signedOut, steamOthers>>

\* _remove_cache returns True unless it was refused or raised.
ClearSignIn(p) ==
  /\ doing = "signout" /\ p \in signout /\ signout' = signout \ {p}
  /\ IF dryRun THEN UNCHANGED <<folder, spared, cleared>>
     ELSE \E ending \in Endings(p) :
            /\ folder' = After(p, ending)
            /\ spared' = IF ending \in {"complete", "part"}
                           THEN spared \ (Spared[p] \ Keeps(p)) ELSE spared
            /\ cleared' = (cleared /\ ending \in {"complete", "part"})
  /\ UNCHANGED <<manifest, steam, busy, doing, remove, keep, caches, dryRun, game,
                 counted, signedOut, steamOthers>>

WipeDone ==
  /\ doing = "signout" /\ signout = {} /\ doing' = "done" /\ signedOut' = cleared
  /\ UNCHANGED <<machine, wipePlan, dryRun, game, cleared, counted, steamOthers>>

-----------------------------------------------------------------------------
(* Steam, the player and other programs.                                    *)

OthersUseSteam ==
  /\ steamOthers < SteamOthers /\ steamOthers' = steamOthers + 1
  /\ \/ \E p \in Targets : p \notin busy /\ folder[p] \in {"whole", "part"}
          /\ busy' = busy \cup {p} /\ UNCHANGED <<folder, steam>>
     \/ \E p \in Targets : p \notin busy /\ folder[p] = "whole"
          /\ folder' = [folder EXCEPT ![p] = "link"] /\ UNCHANGED <<busy, steam>>
     \/ ~steam /\ steam' = TRUE /\ UNCHANGED <<folder, busy>>
  /\ UNCHANGED <<manifest, spared, doing, wipePlan, dryRun, game, cleared,
                 counted, signedOut>>

WipeNext ==
  \/ ScanGames \/ StopSteam \/ RemoveManifest \/ GamesDone \/ CachesDone \/ WipeDone
  \/ \E ids \in SUBSET Games : KeepBack(ids)
  \/ \E try \in BOOLEAN : ConfirmWipe(try)
  \/ \E g \in Games : RemoveFolder(g)
  \/ \E p \in Targets : ClearCache(p) \/ ClearSignIn(p)
  \/ OthersUseSteam

WipeSpec == WipeInit /\ [][WipeNext]_wipeVars

-----------------------------------------------------------------------------
(* Properties.                                                              *)

\* What is to stay stays, whatever fails on the way and whatever is opened or
\* redirected meanwhile: a game to keep, with its manifest; everything in a dry
\* run; in Steam's knowledge a game whose removal was refused or failed, so that
\* the next reset finds it again; and, of what the sign-out clears, the library
\* list and the settings (wipe.py:257-264 and 319-324, signout.py:33).
KeptStays ==
  /\ \A g \in IF dryRun THEN Games ELSE keep :
       g \in manifest /\ folder[InstallPath[g]] \notin {"part", "gone"}
  /\ counted.refused \cup counted.failed \subseteq manifest
  /\ spared = UNION {Spared[t] : t \in SignIns}

\* A game with files left stays known to Steam: "remove it last, so a
\* failed folder delete leaves the game still recognised" (wipe.py:325-326).
StillRecognised == \A g \in Games : g \in manifest \/ folder[InstallPath[g]] # "part"
===============================================================================
