----------------------------- MODULE SettingsProofs -----------------------------
(***************************************************************************)
(* Proofs about what is changed outside the registry: the startup list, for *)
(* any programs and sources; the removals, for any things, groups and       *)
(* sizes; the hosts file, for any names and entries; the Windows settings,  *)
(* for any plans and values.  All for any number of failing calls and of    *)
(* steps by others.                                                         *)
(***************************************************************************)
EXTENDS StartupList, RemovalTweak, HostsBlock, SettingTweak, TLAPS

-----------------------------------------------------------------------------
(* The startup list.                                                        *)

StartupInv ==
  /\ approved \in [Keys -> [Programs -> Flags]]
  /\ autostart \subseteq Entries /\ DOMAIN shown \subseteq Entries /\ others \in Nat
  /\ \A e \in DOMAIN shown : shown[e] \in BOOLEAN

\* PGM writes the flag of an entry where Windows looks for it, or where Windows looks
\* for none; no two sources share a place.
LEMMA KeysApart ==
  ASSUME StartupAssumption, NEW s \in Sources
  PROVE  /\ ApprovalKey(s) \in Keys /\ WindowsKey(s) \in Keys
         /\ HeardBy(s) => ApprovalKey(s) = WindowsKey(s)
         /\ \A t \in Sources : WindowsKey(t) = ApprovalKey(s) => t = s /\ HeardBy(s)
<1>1. s \in {"RUN_USER", "RUN_MACHINE", "RUN_MACHINE_32", "FOLDER_USER", "FOLDER_COMMON"}
  BY DEF StartupAssumption
<1>2. ApprovalKey(s) \in Keys /\ WindowsKey(s) \in Keys
  BY <1>1 DEF Keys, ApprovalKey, Hive, View, WindowsKey, WindowsKeys
<1>3. HeardBy(s) => ApprovalKey(s) = WindowsKey(s)
  BY <1>1 DEF HeardBy, ApprovalKey, Hive, View, WindowsKey, WindowsKeys
<1>4. ASSUME NEW t \in Sources, WindowsKey(t) = ApprovalKey(s) PROVE t = s /\ HeardBy(s)
  <2>1. t \in {"RUN_USER", "RUN_MACHINE", "RUN_MACHINE_32", "FOLDER_USER", "FOLDER_COMMON"}
    BY DEF StartupAssumption
  <2>2. QED
    BY <1>1, <1>4, <2>1 DEF HeardBy, ApprovalKey, Hive, View, WindowsKey, WindowsKeys
<1>5. QED
  BY <1>2, <1>3, <1>4

LEMMA StartupStart == StartupInit => StartupInv
BY DEF StartupInit, StartupInv, Flags, Undisturbed

\* What Windows launches changes at most for the entry the flag is about, if Windows
\* looks there at all.
LEMMA FlagHeard ==
  ASSUME StartupAssumption, StartupInv, NEW e \in Entries, NEW flag \in Flags,
         approved' = [approved EXCEPT ![ApprovalKey(e[1])][e[2]] = flag]
  PROVE  /\ approved' \in [Keys -> [Programs -> Flags]]
         /\ HeardBy(e[1]) => Launches(e)' = (flag # "off")
         /\ ~HeardBy(e[1]) => Launches(e)' = Launches(e)
         /\ \A f \in Entries \ {e} : Launches(f)' = Launches(f)
<1> DEFINE k == ApprovalKey(e[1])
<1>1. e[1] \in Sources /\ e[2] \in Programs /\ k \in Keys
  BY KeysApart DEF Entries
<1>2. /\ approved' \in [Keys -> [Programs -> Flags]]
      /\ \A l \in Keys, q \in Programs :
           approved'[l][q] = IF l = k /\ q = e[2] THEN flag ELSE approved[l][q]
  <2>1. approved' = [approved EXCEPT ![k] = [approved[k] EXCEPT ![e[2]] = flag]]
    OBVIOUS
  <2> DEFINE flags == [approved[k] EXCEPT ![e[2]] = flag]
  <2>2. /\ flags \in [Programs -> Flags]
        /\ \A q \in Programs : flags[q] = IF q = e[2] THEN flag ELSE approved[k][q]
    <3> HIDE DEF k
    <3>1. QED
      BY <1>1 DEF StartupInv
  <2>3. approved' = [approved EXCEPT ![k] = flags]
    BY <2>1
  <2> HIDE DEF k, flags
  <2>4. QED
    BY <1>1, <2>2, <2>3 DEF StartupInv
<1>3. ASSUME NEW f \in Entries
      PROVE  /\ WindowsKey(f[1]) \in Keys /\ f[2] \in Programs
             /\ WindowsKey(f[1]) = k /\ f[2] = e[2] => f = e /\ HeardBy(e[1])
  <2>1. f[1] \in Sources /\ f[2] \in Programs /\ f = <<f[1], f[2]>> /\ e = <<e[1], e[2]>>
    BY DEF Entries
  <2>2. WindowsKey(f[1]) = k => f[1] = e[1] /\ HeardBy(e[1])
    BY <1>1, <2>1, KeysApart
  <2>3. QED
    BY <2>1, <2>2, KeysApart
<1>4. ASSUME NEW f \in Entries
      PROVE  Launches(f)' = (approved'[WindowsKey(f[1])][f[2]] # "off")
  BY DEF Launches, WindowsKey, WindowsKeys
<1>5. HeardBy(e[1]) => WindowsKey(e[1]) = k
  BY <1>1, KeysApart
<1> HIDE DEF k
<1>6. HeardBy(e[1]) => Launches(e)' = (flag # "off")
  BY <1>1, <1>2, <1>4, <1>5
<1>7. ASSUME NEW f \in Entries, f = e => ~HeardBy(e[1]) PROVE Launches(f)' = Launches(f)
  BY <1>2, <1>3, <1>4, <1>7 DEF Launches
<1>8. QED
  BY <1>2, <1>6, <1>7

\* A toggle writes the flag of the entry picked, or nothing; the row of the list
\* changes only with it.
LEMMA ToggleWrites ==
  ASSUME StartupAssumption, StartupInv, SetEnabled
  PROVE  /\ UNCHANGED <<autostart, others>> /\ DOMAIN shown' = DOMAIN shown
         /\ \A f \in DOMAIN shown : shown'[f] \in BOOLEAN
         /\ \/ UNCHANGED approved
            \/ \E e \in DOMAIN shown, on \in BOOLEAN :
                 /\ shown[e] # on /\ Allowed(e, on)
                 /\ approved' = [approved EXCEPT ![ApprovalKey(e[1])][e[2]] =
                                   IF on THEN "on" ELSE "off"]
                 /\ \A f \in DOMAIN shown :
                      shown'[f] = shown[f] \/ (f = e /\ shown'[f] = on)
<1>1. PICK e \in DOMAIN shown, on \in BOOLEAN :
        /\ shown[e] # on /\ Allowed(e, on)
        /\ \/ /\ approved' = [approved EXCEPT ![ApprovalKey(e[1])][e[2]] =
                                IF on THEN "on" ELSE "off"]
              /\ \/ shown' = [shown EXCEPT ![e] = on] /\ NoFault
                 \/ shown' = [shown EXCEPT ![e] = TRUE] /\ Fault
           \/ Fault /\ UNCHANGED <<approved, shown>>
        /\ UNCHANGED <<autostart, others>>
  BY DEF SetEnabled
<1>2. DOMAIN shown' = DOMAIN shown
  BY <1>1
<1>3. ASSUME NEW f \in DOMAIN shown PROVE shown'[f] \in BOOLEAN
  BY <1>1 DEF StartupInv
<1>4. ASSUME ~UNCHANGED shown, NEW f \in DOMAIN shown
      PROVE  shown'[f] = shown[f] \/ (f = e /\ shown'[f] = on)
  <2>1. CASE shown' = [shown EXCEPT ![e] = on]
    BY <2>1
  <2>2. CASE shown' = [shown EXCEPT ![e] = TRUE]
    <3>1. f # e => shown'[f] = shown[f]
      BY <2>2
    <3>2. shown'[e] = TRUE /\ shown[e] \in {TRUE, FALSE} /\ on \in {TRUE, FALSE}
      BY <2>2 DEF StartupInv
    <3>3. shown'[e] = shown[e] \/ shown'[e] = on
      BY <1>1, <3>2, Zenon
    <3>4. QED
      BY <3>1, <3>3
  <2>3. QED
    BY <1>1, <1>4, <2>1, <2>2
<1>5. CASE UNCHANGED approved
  BY <1>1, <1>2, <1>3, <1>5
<1>6. CASE ~UNCHANGED approved
  BY <1>1, <1>2, <1>3, <1>4, <1>6
<1>7. QED
  BY <1>5, <1>6

\* What the dialog shows keeps to entries that existed.
LEMMA StartupStep ==
  ASSUME StartupAssumption, StartupInv, [StartupNext]_startupVars PROVE StartupInv'
<1>1. CASE UNCHANGED startupVars
  BY <1>1 DEF StartupInv, startupVars
<1>2. CASE List
  <2>1. ASSUME NEW e \in DOMAIN shown' PROVE shown'[e] \in BOOLEAN
    BY <1>2 DEF List, ReadsEnabled
  <2>2. QED
    BY <1>2, <2>1 DEF List, StartupInv
<1>3. CASE SetEnabled
  <2>1. CASE UNCHANGED approved
    BY <1>3, <2>1, ToggleWrites DEF StartupInv
  <2>2. CASE ~UNCHANGED approved
    <3>1. PICK e \in DOMAIN shown, on \in BOOLEAN :
            approved' = [approved EXCEPT ![ApprovalKey(e[1])][e[2]] = IF on THEN "on" ELSE "off"]
      BY <1>3, <2>2, ToggleWrites
    <3>2. approved' \in [Keys -> [Programs -> Flags]]
      BY <3>1, FlagHeard DEF StartupInv, Flags
    <3>3. QED
      BY <1>3, <3>2, ToggleWrites DEF StartupInv
  <2>3. QED
    BY <2>1, <2>2
<1>4. CASE OtherPrograms
  <2>1. PICK e \in Entries :
          \/ /\ autostart' = IF e \in autostart THEN autostart \ {e} ELSE autostart \cup {e}
             /\ UNCHANGED approved
          \/ /\ approved' = [approved EXCEPT ![WindowsKey(e[1])][e[2]] =
                               IF @ = "off" THEN "on" ELSE "off"]
             /\ UNCHANGED autostart
    BY <1>4 DEF OtherPrograms
  <2>2. autostart' \subseteq Entries
    BY <2>1 DEF StartupInv
  <2>3. approved' \in [Keys -> [Programs -> Flags]]
    <3>1. CASE UNCHANGED approved
      BY <3>1 DEF StartupInv
    <3>2. CASE ~UNCHANGED approved
      <4>1. PICK flag \in Flags :
              approved' = [approved EXCEPT ![WindowsKey(e[1])] =
                             [approved[WindowsKey(e[1])] EXCEPT ![e[2]] = flag]]
        BY <2>1, <3>2 DEF Flags
      <4>2. WindowsKey(e[1]) \in Keys /\ e[2] \in Programs
        BY KeysApart DEF Entries
      <4>3. QED
        BY <4>1, <4>2 DEF StartupInv
    <3>3. QED
      BY <3>1, <3>2
  <2>4. QED
    BY <1>4, <2>2, <2>3 DEF OtherPrograms, StartupInv
<1>5. QED
  BY <1>1, <1>2, <1>3, <1>4 DEF StartupNext

\* A toggle changes at most what Windows launches of the entry picked, and never turns
\* a protected one off, for any sources and whatever was installed since the list was
\* read; except for the 32-bit Run key, what the row then shows is what Windows does
\* (windows/startup/manager.py, set_enabled, approval_subkey and view).
THEOREM TogglesHitOne ==
  ASSUME StartupAssumption PROVE StartupSpec => ToggleHitsOne
<1>1. ASSUME StartupInv, [StartupNext]_startupVars PROVE [OnlyPickedChanges]_startupVars
  <2> SUFFICES ASSUME StartupNext, approved' # approved, others' = others
               PROVE  OnlyPickedChanges
    BY <1>1 DEF OnlyPickedChanges
  <2>1. SetEnabled
    BY <1>1 DEF StartupNext, List, OtherPrograms, StartupInv
  <2>2. PICK e \in DOMAIN shown, on \in BOOLEAN :
          /\ shown[e] # on /\ Allowed(e, on)
          /\ approved' = [approved EXCEPT ![ApprovalKey(e[1])][e[2]] = IF on THEN "on" ELSE "off"]
          /\ \A f \in DOMAIN shown : shown'[f] = shown[f] \/ (f = e /\ shown'[f] = on)
    BY <1>1, <2>1, ToggleWrites
  <2>3. e \in Entries
    BY <1>1 DEF StartupInv
  <2>4. /\ HeardBy(e[1]) => Launches(e)' = ((IF on THEN "on" ELSE "off") # "off")
        /\ ~HeardBy(e[1]) => Launches(e)' = Launches(e)
        /\ \A f \in Entries \ {e} : Launches(f)' = Launches(f)
    BY <1>1, <2>2, <2>3, FlagHeard DEF Flags
  <2>5. HeardBy(e[1]) => Launches(e)' = on
    BY <2>4
  <2>6. on \/ e[2] \notin Protected
    BY <2>2 DEF Allowed
  <2>7. ASSUME NEW f \in Entries, Launches(f) # Launches(f)'
        PROVE  /\ f \in DOMAIN shown /\ shown[f] # Launches(f)'
               /\ Launches(f)' \/ f[2] \notin Protected
               /\ \A g \in Entries \ {f} : Launches(g)' = Launches(g)
    <3>1. f = e /\ HeardBy(e[1])
      BY <2>4, <2>7
    <3>2. QED
      BY <2>2, <2>4, <2>5, <2>6, <3>1
  <2>8. ASSUME NEW f \in DOMAIN shown, HeardBy(f[1]), shown'[f] # shown[f]
        PROVE  shown'[f] = Launches(f)'
    <3>1. f = e /\ shown'[e] = on
      BY <2>2, <2>8
    <3>2. QED
      BY <2>5, <2>8, <3>1
  <2>9. QED
    BY <2>7, <2>8 DEF OnlyPickedChanges
<1>2. QED
  BY StartupStart, StartupStep, <1>1, PTL DEF StartupSpec, ToggleHitsOne

-----------------------------------------------------------------------------
(* What is removed and cannot be put back.                                  *)

\* What an apply could still remove, as far as the plan names it one by one.
MayGo == IF tweak = "onedrive" THEN Client ELSE found

RemovalInv ==
  /\ tweak \in {"apps", "onedrive", "bin", "windows_old", "temp"} \cap Removals
  /\ plan \subseteq Group /\ plan \cap Spared = {}
  /\ at = "planned" => found = plan /\ plan # {}
  /\ at = "backed" =>
       CASE tweak = "bin" -> TotalSize(BinContents) = TotalSize(plan)
         [] tweak = "windows_old" -> plan # {}
         [] OTHER -> MayGo \subseteq plan

LEMMA SeenInGroup ==
  ASSUME RemovalInv
  PROVE  /\ Seen \subseteq Group /\ Seen \cap Spared = {}
         /\ tweak = "onedrive" => Seen = Client
         /\ tweak = "bin" => Seen = BinContents
BY DEF RemovalInv, Seen, Find, Client, Clients, BinContents, OldWindows, Temporary, Spared

LEMMA RemovalStart == RemovalAssumption /\ RemovalInit => RemovalInv
BY DEF RemovalAssumption, RemovalInit, StepsInit, RemovalInv

\* What passes the drift check is what the preview said.
LEMMA ProceedAsShown ==
  ASSUME RemovalInv, Proceed, UNCHANGED tweak PROVE RemovalInv'
<1>1. /\ at = "planned" /\ at' = "backed" /\ Unchanged
      /\ UNCHANGED <<present, plan>> /\ Spared' = Spared
      /\ found' = (IF tweak = "temp" THEN found ELSE Seen)
  BY DEF Proceed, BackupStep, Spared
<1>2. BinContents' = BinContents /\ Client' = Client
  BY <1>1 DEF BinContents, Client, Clients
<1>3. CASE tweak = "bin"
  <2>1. TotalSize(Seen) = TotalSize(plan) /\ Seen = BinContents
    BY <1>1, <1>3, SeenInGroup DEF Unchanged
  <2>2. TotalSize(BinContents') = TotalSize(plan')
    BY <1>1, <1>2, <2>1
  <2>3. QED
    BY <1>1, <1>3, <2>2 DEF RemovalInv
<1>4. CASE tweak = "windows_old"
  BY <1>1, <1>4 DEF RemovalInv, Unchanged
<1>5. CASE tweak \notin {"bin", "windows_old"}
  <2>1. MayGo' \subseteq plan
    BY <1>1, <1>2, <1>5, SeenInGroup DEF MayGo, Unchanged, RemovalInv
  <2>2. QED
    BY <1>1, <1>5, <2>1 DEF RemovalInv
<1>6. QED
  BY <1>3, <1>4, <1>5

LEMMA RemovalStep ==
  ASSUME RemovalInv, [RemovalNext]_removalVars PROVE RemovalInv'
<1>1. CASE UNCHANGED removalVars
  BY <1>1 DEF RemovalInv, MayGo, Client, Clients, BinContents, Spared, removalVars, steps
<1> SUFFICES ASSUME RemovalNext PROVE RemovalInv'
  BY <1>1
<1>2. UNCHANGED tweak /\ Spared' = Spared
  BY DEF RemovalNext, Spared
<1>3. CASE ReadList
  BY <1>2, <1>3 DEF ReadList, RemovalInv, MayGo, Client, Clients, BinContents, steps
<1>4. CASE RemovalScan
  BY <1>2, <1>4, SeenInGroup DEF RemovalScan, PlanStep, RemovalInv
<1>5. CASE RemovalDrift
  BY <1>2, <1>5 DEF RemovalDrift, StandDown, RemovalInv
<1>6. CASE Proceed
  BY <1>2, <1>6, ProceedAsShown
<1>7. CASE RemovalApply
  BY <1>2, <1>7 DEF RemovalApply, ApplyStep, RemovalInv
<1>8. CASE RemovalVerify
  BY <1>2, <1>8 DEF RemovalVerify, VerifyStep, RemovalInv
<1>9. CASE RemovalRollback
  BY <1>2, <1>9 DEF RemovalRollback, RollbackStep, RemovalInv
<1>10. CASE OtherChanges
  BY <1>2, <1>10 DEF OtherChanges, Other, Calm, RemovalInv, steps
<1>11. QED
  BY <1>3, <1>4, <1>5, <1>6, <1>7, <1>8, <1>9, <1>10 DEF RemovalNext

\* Whatever is installed, thrown away or put there between the preview and the removal:
\* the apps, the client and the temporary files that are removed were shown, and are no
\* part of Windows; what is thrown away with the bin adds up to the size shown; and
\* Windows.old is only removed if it was shown, with whatever is in it by then
\* (windows/apps/inventory.py, find; tweak.py, drift_since_plan; the applies of
\* tweaks/apps.py, recycle_bin.py, windows_old.py and cleanup.py).
THEOREM OnlyShownEverRemoved ==
  ASSUME RemovalAssumption
  PROVE  RemovalSpec => OnlyShownRemoved
<1>1. ASSUME RemovalInv, [RemovalNext]_removalVars PROVE [OnlyShownGoes]_removalVars
  <2> SUFFICES ASSUME RemovalNext, removed' \ removed # {} PROVE OnlyShownGoes
    BY <1>1 DEF OnlyShownGoes
  <2>1. RemovalApply
    BY DEF RemovalNext, ReadList, RemovalScan, RemovalDrift, Proceed, RemovalVerify,
           RemovalRollback, OtherChanges
  <2>2. removed' \ removed \subseteq Targets /\ at = "backed"
    BY <2>1 DEF RemovalApply, ApplyStep
  <2>3. CASE tweak \in {"bin", "windows_old"}
    BY <1>1, <2>2, <2>3 DEF RemovalInv, OnlyShownGoes
  <2>4. CASE tweak \notin {"bin", "windows_old"}
    <3>1. Targets \subseteq MayGo /\ MayGo \subseteq plan
      BY <1>1, <2>2, <2>4 DEF Targets, MayGo, RemovalInv
    <3>2. plan \cap Spared = {}
      BY <1>1 DEF RemovalInv
    <3>3. removed' \ removed \subseteq plan \ Spared
      BY <2>2, <3>1, <3>2
    <3>4. QED
      BY <2>4, <3>3 DEF OnlyShownGoes
  <2>5. QED
    BY <2>3, <2>4
<1>2. QED
  BY RemovalStart, RemovalStep, <1>1, PTL DEF RemovalSpec, OnlyShownRemoved

-----------------------------------------------------------------------------
(* The hosts file.                                                          *)

\* A name is a cell of the contract, TRUE while our block has it.
HostsCells(names) == [n \in Names |-> n \in names]

HostsContract == INSTANCE TweakContract WITH
  machine <- HostsCells(BlockedHosts), there <- Names,
  row <- IF row = NoRow THEN NoRow ELSE HostsCells(row),
  wanted <- {n \in Names : DotaHosts \subseteq BlockedHosts}

\* Neither a row nor a block is mistaken for none.
MarkersAssumption ==
  /\ HostsAssumption
  /\ NoRow \notin (SUBSET Names) \cup [Names -> BOOLEAN] /\ NoBlock \notin SUBSET Names
  /\ NoText \notin File

HostsInv ==
  /\ file \in File /\ text \in File \cup {NoText} /\ plan \in SUBSET Names
  /\ at \in {"backed", "written", "rollback", "kept"} => row \in SUBSET Names
  /\ others \in Nat

LEMMA AroundTyped ==
  ASSUME HostsAssumption, NEW f \in File
  PROVE  /\ Around(f).ours \in SUBSET Names
         /\ Around(f).before \in SUBSET Lines /\ Around(f).after \in SUBSET Lines
<1>1. /\ f.before \in SUBSET Lines /\ f.after \in SUBSET Lines
      /\ f.block \in (SUBSET Names) \cup {NoBlock}
  BY DEF File
<1>2. \A l \in f.after : Blocks[l] \in Names
  BY <1>1 DEF HostsAssumption
<1>3. Around(f).ours \in SUBSET Names
  <2> DEFINE own == IF f.block = NoBlock THEN {} ELSE f.block
             swallowed == IF f.block = NoBlock \/ f.ended THEN {}
                          ELSE {Blocks[l] : l \in f.after}
  <2>1. own \subseteq Names
    BY <1>1
  <2>2. swallowed \subseteq Names
    BY <1>2
  <2>3. Around(f).ours = own \cup swallowed
    BY DEF Around
  <2> HIDE DEF own, swallowed
  <2>4. QED
    BY <2>1, <2>2, <2>3
<1>4. QED
  BY <1>1, <1>3 DEF Around

\* A written block is read back as written, and with it the others' lines that were
\* there when the file was read.
LEMMA RebuiltReads ==
  ASSUME MarkersAssumption, text \in File, NEW names \in SUBSET Names,
         file' = Rebuilt(names)
  PROVE  /\ file' \in File /\ BlockedHosts' = names
         /\ Split'.before \cup Split'.after = Around(text).before \cup Around(text).after
<1> DEFINE b == Around(text).before
           a == Around(text).after
<1>1. b \in SUBSET Lines /\ a \in SUBSET Lines
  BY AroundTyped DEF MarkersAssumption
<1>2. file' = IF names = {}
                THEN [before |-> b \cup a, block |-> NoBlock, ended |-> TRUE, after |-> {}]
                ELSE [before |-> b, block |-> names, ended |-> TRUE, after |-> a]
  BY DEF Rebuilt
<1> HIDE DEF a, b
<1>3. /\ file'.ended = TRUE /\ file'.block = (IF names = {} THEN NoBlock ELSE names)
      /\ file'.before \cup file'.after = b \cup a
  BY <1>2
<1>4. file' \in File
  <2>1. \A x, y \in SUBSET Lines, z \in (SUBSET Names) \cup {NoBlock} :
          [before |-> x, block |-> z, ended |-> TRUE, after |-> y] \in File
    BY DEF File
  <2>2. b \cup a \in SUBSET Lines /\ {} \in SUBSET Lines
    BY <1>1
  <2>3. QED
    BY <1>1, <1>2, <2>1, <2>2
<1>5. /\ Split'.before = file'.before /\ Split'.after = file'.after
      /\ Split'.ours = IF file'.block = NoBlock THEN {} ELSE file'.block
  BY <1>3 DEF Split, Around
<1>6. Split'.ours = names
  BY <1>3, <1>5 DEF MarkersAssumption
<1>7. QED
  BY <1>3, <1>4, <1>5, <1>6 DEF BlockedHosts, a, b

LEMMA BlockSet ==
  ASSUME MarkersAssumption, HostsInv, NEW names \in SUBSET Names, NEW ok \in BOOLEAN,
         SetBlock(names, ok)
  PROVE  /\ file' \in File /\ text' = NoText /\ (ok => BlockedHosts' = names)
         /\ ~TornWrites /\ text = file =>
              Split'.before \cup Split'.after = Split.before \cup Split.after
<1>1. text \in File /\ text' = NoText
  BY DEF SetBlock, HostsInv
<1>2. CASE file' = Rebuilt(names)
  BY <1>1, <1>2, RebuiltReads DEF Split
<1>3. CASE ~ok /\ file' = file
  BY <1>1, <1>3 DEF HostsInv, Split
<1>4. CASE ~ok /\ TornWrites /\ file' = Emptied
  BY <1>1, <1>4 DEF Emptied, File
<1>5. QED
  BY <1>2, <1>3, <1>4 DEF SetBlock

\* What apply writes into the block, from what it reads or fails to read there.
LEMMA ApplySets ==
  ASSUME MarkersAssumption, HostsInv, HostsApply
  PROVE  \E names \in SUBSET Names, ok \in BOOLEAN : SetBlock(names, ok)
<1>1. PICK ok \in BOOLEAN, readable \in BOOLEAN :
        SetBlock((IF readable THEN Around(text).ours ELSE {}) \cup DotaHosts, ok)
  BY DEF HostsApply
<1>2. text \in File
  BY <1>1 DEF SetBlock, HostsInv
<1>3. (IF readable THEN Around(text).ours ELSE {}) \cup DotaHosts \in SUBSET Names
  BY <1>2, AroundTyped DEF MarkersAssumption, HostsAssumption
<1>4. QED
  BY <1>1, <1>3

LEMMA RollbackSets ==
  ASSUME HostsInv, HostsRollback
  PROVE  row \in SUBSET Names /\ \E ok \in BOOLEAN : SetBlock(row, ok)
BY DEF HostsRollback, HostsInv

LEMMA HostsStart == HostsAssumption /\ HostsInit => HostsInv
<1> SUFFICES ASSUME HostsAssumption, HostsInit PROVE HostsInv
  OBVIOUS
<1>1. PICK l \in SUBSET Lines, b \in {NoBlock, {}} \cup {{n} : n \in Names} :
        file = [before |-> l, block |-> b, ended |-> TRUE, after |-> {}]
  BY DEF HostsInit
<1>2. b \in (SUBSET Names) \cup {NoBlock} /\ {} \in SUBSET Lines
  OBVIOUS
<1>3. file \in File
  BY <1>1, <1>2 DEF File
<1>4. QED
  BY <1>3 DEF HostsInit, StepsInit, Undisturbed, HostsInv

\* What others do to the file leaves it a file with at most one block.
LEMMA OthersFile ==
  ASSUME HostsInv, OtherEdits \/ OtherEditsBlock PROVE file' \in File
<1>1. /\ file = [before |-> file.before, block |-> file.block,
                 ended |-> file.ended, after |-> file.after]
      /\ file.before \in SUBSET Lines /\ file.after \in SUBSET Lines
      /\ file.block \in (SUBSET Names) \cup {NoBlock} /\ file.ended \in BOOLEAN
  BY DEF HostsInv, File
<1>2. CASE OtherEdits
  <2>1. PICK l \in Lines, place \in {"before", "after"} :
          file' = [file EXCEPT ![place] = IF l \in @ THEN @ \ {l} ELSE @ \cup {l}]
    BY <1>2 DEF OtherEdits
  <2> DEFINE new == IF l \in file[place] THEN file[place] \ {l} ELSE file[place] \cup {l}
  <2>2. new \in SUBSET Lines
    BY <1>1
  <2>3. file' = [file EXCEPT ![place] = new]
    BY <2>1
  <2> HIDE DEF new
  <2>4. QED
    BY <1>1, <2>2, <2>3 DEF File
<1>3. CASE OtherEditsBlock
  <2>1. CASE \E n \in Names : file' = [file EXCEPT !.block =
               IF n \in @ THEN @ \ {n} ELSE @ \cup {n}]
    <3>1. PICK n \in Names : file' = [file EXCEPT !.block =
            IF n \in @ THEN @ \ {n} ELSE @ \cup {n}]
      BY <2>1
    <3> DEFINE new == IF n \in file.block THEN file.block \ {n} ELSE file.block \cup {n}
    <3>2. file.block \in SUBSET Names
      BY <1>1, <1>3 DEF OtherEditsBlock
    <3>3. new \in SUBSET Names
      BY <3>2
    <3>4. file' = [file EXCEPT !.block = new]
      BY <3>1
    <3> HIDE DEF new
    <3>5. QED
      BY <1>1, <3>3, <3>4 DEF File
  <2>2. CASE file' = [file EXCEPT !.ended = FALSE]
    BY <1>1, <2>2 DEF File
  <2>3. QED
    BY <1>3, <2>1, <2>2 DEF OtherEditsBlock
<1>4. QED
  BY <1>2, <1>3

LEMMA HostsStep ==
  ASSUME MarkersAssumption, HostsInv, [HostsNext]_hostsVars PROVE HostsInv'
<1>1. CASE UNCHANGED hostsVars
  BY <1>1 DEF HostsInv, hostsVars, steps
<1>2. BlockedHosts \in SUBSET Names /\ DotaHosts \subseteq Names
  BY AroundTyped DEF MarkersAssumption, HostsAssumption, HostsInv, BlockedHosts, Split
<1>3. CASE HostsScan
  BY <1>2, <1>3 DEF HostsScan, PlanStep, HostsInv
<1>4. CASE HostsDrift \/ ReadText
  BY <1>4 DEF HostsDrift, ReadText, StandDown, HostsInv, steps
<1>5. CASE HostsBackup
  BY <1>5 DEF HostsBackup, BackupStep, HostsInv
<1>6. CASE HostsApply
  <2>1. file' \in File /\ text' = NoText
    BY <1>6, ApplySets, BlockSet
  <2>2. QED
    BY <1>6, <2>1 DEF HostsApply, HostsInv
<1>7. CASE HostsVerify
  BY <1>7 DEF HostsVerify, VerifyStep, HostsInv
<1>8. CASE HostsRollback
  <2>1. file' \in File /\ text' = NoText /\ row \in SUBSET Names
    BY <1>8, RollbackSets, BlockSet
  <2>2. QED
    BY <1>8, <2>1 DEF HostsRollback, HostsInv
<1>9. CASE OtherEdits \/ OtherEditsBlock
  BY <1>9, OthersFile DEF OtherEdits, OtherEditsBlock, Edit, OtherStep, HostsInv, steps
<1>10. QED
  BY <1>1, <1>3, <1>4, <1>5, <1>6, <1>7, <1>8, <1>9 DEF HostsNext

\* What set_block has read is what the file still holds, as long as nobody edits it in
\* between.
TextCurrent ==
  text # NoText => text = file /\ at \in {"backed", "rollback", "kept"}

LEMMA TextStays ==
  ASSUME ~HostsRaced, MarkersAssumption, HostsInv, TextCurrent, [HostsNext]_hostsVars
  PROVE  TextCurrent'
<1>1. CASE UNCHANGED hostsVars
  BY <1>1 DEF TextCurrent, hostsVars, steps
<1>2. CASE HostsScan \/ HostsDrift \/ HostsBackup \/ HostsVerify
  BY <1>2 DEF HostsScan, HostsDrift, HostsBackup, HostsVerify, PlanStep, StandDown,
    BackupStep, VerifyStep, TextCurrent
<1>3. CASE ReadText
  BY <1>3 DEF ReadText, TextCurrent, steps
<1>4. CASE HostsApply \/ HostsRollback
  <2>1. text' = NoText
    BY <1>4 DEF HostsApply, HostsRollback, SetBlock
  <2>2. QED
    BY <2>1 DEF TextCurrent
<1>5. CASE OtherEdits \/ OtherEditsBlock
  BY <1>5 DEF OtherEdits, OtherEditsBlock, Edit, TextCurrent
<1>6. QED
  BY <1>1, <1>2, <1>3, <1>4, <1>5 DEF HostsNext

\* The entries of other programs survive whatever the tweak writes, wherever they are
\* and whatever was done to the markers, while a write that fails does not empty the
\* file and nobody edits it between its reading and its writing (windows/hosts.py,
\* set_block; tweaks/dota_hosts.py).
THEOREM OthersEntriesSurvive ==
  ASSUME MarkersAssumption, ~TornWrites, ~HostsRaced
  PROVE  HostsSpec => [][OthersEntriesKept]_hostsVars
<1>1. ASSUME HostsInv, TextCurrent, [HostsNext]_hostsVars
      PROVE  [OthersEntriesKept]_hostsVars
  <2> SUFFICES ASSUME HostsNext, others' = others
               PROVE  Split'.before \cup Split'.after = Split.before \cup Split.after
    BY <1>1 DEF OthersEntriesKept
  <2>1. CASE UNCHANGED file
    BY <2>1 DEF Split
  <2>2. CASE HostsApply \/ HostsRollback
    <3>1. PICK names \in SUBSET Names, ok \in BOOLEAN : SetBlock(names, ok)
      BY <1>1, <2>2, ApplySets, RollbackSets
    <3>2. text = file
      BY <1>1, <3>1 DEF SetBlock, TextCurrent
    <3>3. QED
      BY <1>1, <3>1, <3>2, BlockSet
  <2>3. UNCHANGED file \/ HostsApply \/ HostsRollback
    <3>1. OtherEdits \/ OtherEditsBlock => others' = others + 1
      BY DEF OtherEdits, OtherEditsBlock, Edit, OtherStep
    <3>2. HostsScan \/ HostsDrift \/ HostsBackup \/ ReadText \/ HostsVerify => UNCHANGED file
      BY DEF HostsScan, HostsDrift, HostsBackup, ReadText, HostsVerify
    <3>3. others + 1 # others
      BY <1>1 DEF HostsInv
    <3>4. QED
      BY <3>1, <3>2, <3>3 DEF HostsNext
  <2>4. QED
    BY <2>1, <2>2, <2>3
<1>2. MarkersAssumption /\ HostsInit => HostsInv /\ TextCurrent
  BY HostsStart DEF MarkersAssumption, HostsInit, TextCurrent
<1>3. QED
  BY HostsStep, TextStays, <1>1, <1>2, PTL DEF HostsSpec

-----------------------------------------------------------------------------
(* The hosts file's tweak implements TweakContract.                         *)

LEMMA CellsRead ==
  /\ \A names : HostsCells(names) \in [Names -> BOOLEAN]
  /\ \A names : DOMAIN HostsCells(names) = Names
  /\ \A names : \A n \in Names : HostsCells(names)[n] = (n \in names)
BY DEF HostsCells

\* With a row every name is covered.
LEMMA HostsCovered ==
  ASSUME MarkersAssumption, row \in SUBSET Names, UNCHANGED row
  PROVE  HostsContract!Covered = Names /\ HostsContract!WritesWithinRow
<1>1. row # NoRow
  BY DEF MarkersAssumption
<1>2. HostsCells(row) # NoRow
  BY CellsRead DEF MarkersAssumption
<1>3. HostsContract!Covered = Names
  BY <1>1, <1>2, CellsRead DEF HostsContract!Covered
<1>4. QED
  BY <1>3, CellsRead DEF HostsContract!WritesWithinRow

\* Planning, standing down and backing up leave the block alone.
LEMMA HostsQuietRefines ==
  ASSUME MarkersAssumption, HostsInv
  PROVE  /\ HostsScan => HostsContract!Plan
         /\ HostsDrift => HostsContract!Skip
         /\ HostsBackup => HostsContract!Backup
<1>1. UNCHANGED file => BlockedHosts' = BlockedHosts
  BY DEF BlockedHosts, Split, Around
<1>2. ASSUME HostsScan PROVE HostsContract!Plan
  BY <1>1, <1>2 DEF HostsScan, PlanStep, HostsContract!Plan, HostsContract!PlanStep, HostsCells
<1>3. ASSUME HostsDrift PROVE HostsContract!Skip
  BY <1>1, <1>3 DEF HostsDrift, StandDown, HostsContract!Skip, HostsContract!StandDown,
    HostsCells
<1>4. ASSUME HostsBackup PROVE HostsContract!Backup
  <2>1. row' = plan /\ plan \in SUBSET Names /\ UNCHANGED file
    BY <1>4 DEF HostsBackup, HostsInv
  <2>2. row' # NoRow /\ HostsCells(row') # NoRow
    BY <2>1, CellsRead DEF MarkersAssumption
  <2>3. QED
    BY <1>1, <1>4, <2>1, <2>2 DEF HostsBackup, BackupStep, HostsContract!Backup,
      HostsContract!BackupStep, HostsCells
<1>5. QED
  BY <1>2, <1>3, <1>4

LEMMA HostsApplyRefines ==
  ASSUME MarkersAssumption, HostsInv, HostsApply PROVE HostsContract!Apply
<1>1. at = "backed" /\ UNCHANGED row /\ \E ok \in BOOLEAN : ApplyStep(ok)
  BY DEF HostsApply, ApplyStep
<1>2. row \in SUBSET Names
  BY <1>1 DEF HostsInv
<1>3. HostsContract!WritesWithinRow
  BY <1>1, <1>2, HostsCovered
<1>4. QED
  BY <1>1, <1>3 DEF HostsContract!Apply, HostsContract!ApplyStep, ApplyStep

\* "Verified" is only said when our block has every name of the game.
LEMMA HostsVerifyRefines ==
  ASSUME MarkersAssumption, HostsInv, HostsVerify PROVE HostsContract!Verify
<1>1. UNCHANGED <<file, row>>
  BY DEF HostsVerify
<1>2. HostsCells(BlockedHosts)' = HostsCells(BlockedHosts)
  BY <1>1 DEF BlockedHosts, Split, Around, HostsCells
<1>3. CASE VerifyStep(FALSE)
  BY <1>1, <1>2, <1>3 DEF VerifyStep, HostsContract!Verify, HostsContract!VerifyStep
<1>4. CASE Missing = {} /\ VerifyStep(TRUE)
  <2>1. Names \subseteq {n \in Names : DotaHosts \subseteq BlockedHosts}
    BY <1>4 DEF Missing
  <2>2. QED
    BY <1>1, <1>2, <1>4, <2>1 DEF VerifyStep, HostsContract!Verify, HostsContract!VerifyStep
<1>5. QED
  BY <1>3, <1>4 DEF HostsVerify, VerifyStep

\* "Restored" is only said when our block is what it was.
LEMMA HostsRollbackRefines ==
  ASSUME MarkersAssumption, HostsInv, HostsRollback PROVE HostsContract!Rollback
<1>1. PICK ok \in BOOLEAN, readable \in BOOLEAN :
        /\ SetBlock(row, ok)
        /\ RollbackStep(ok /\ readable /\ row \cap DotaHosts = {})
  BY DEF HostsRollback
<1>2. row \in SUBSET Names /\ UNCHANGED row
  BY DEF HostsRollback, HostsInv
<1>3. HostsContract!Covered = Names /\ HostsContract!WritesWithinRow
  BY <1>2, HostsCovered
<1>4. CASE RollbackStep(TRUE) /\ ok
  <2>1. BlockedHosts' = row
    BY <1>1, <1>2, <1>4, BlockSet
  <2>2. row # NoRow
    BY <1>2 DEF MarkersAssumption
  <2>3. QED
    BY <1>2, <1>3, <1>4, <2>1, <2>2 DEF RollbackStep, HostsContract!Rollback,
      HostsContract!RollbackStep, HostsCells
<1>5. CASE RollbackStep(FALSE)
  BY <1>2, <1>3, <1>5 DEF RollbackStep, HostsContract!Rollback, HostsContract!RollbackStep
<1>6. QED
  BY <1>1, <1>4, <1>5

LEMMA HostsStepRefines ==
  ASSUME MarkersAssumption, ~HostsRaced, HostsInv, [HostsNext]_hostsVars
  PROVE  HostsContract!Next \/ UNCHANGED <<HostsCells(BlockedHosts),
           IF row = NoRow THEN NoRow ELSE HostsCells(row), steps>>
<1>1. CASE UNCHANGED hostsVars
  BY <1>1 DEF hostsVars, BlockedHosts, Split, Around, HostsCells
<1>2. CASE HostsScan \/ HostsDrift \/ HostsBackup
  BY <1>2, HostsQuietRefines DEF HostsContract!Next
<1>3. CASE HostsApply \/ HostsVerify \/ HostsRollback
  BY <1>3, HostsApplyRefines, HostsVerifyRefines, HostsRollbackRefines DEF HostsContract!Next
<1>4. CASE OtherEdits \/ OtherEditsBlock
  <2>1. Calm /\ UNCHANGED <<row, steps>>
    BY <1>4 DEF OtherEdits, OtherEditsBlock, Edit
  <2>2. QED
    BY <2>1 DEF Calm, steps, HostsContract!Next, HostsContract!Others, HostsContract!Calm
<1>5. CASE ReadText
  BY <1>5 DEF ReadText, BlockedHosts, Split, Around, HostsCells
<1>6. QED
  BY <1>1, <1>2, <1>3, <1>4, <1>5 DEF HostsNext

\* Whatever others do to the file, except between its reading and its writing, and
\* whichever writes fail, the tweak says verified only
\* when our block has every name it blocks, and restored only when the block is what the
\* row says it was (tweaks/dota_hosts.py).
THEOREM HostsTweakKeepsContract ==
  ASSUME MarkersAssumption, ~HostsRaced PROVE HostsSpec => HostsContract!Spec
<1>1. HostsInit => HostsInv
  BY HostsStart DEF MarkersAssumption
<1>2. HostsInit => HostsContract!Init
  BY DEF HostsInit, StepsInit, HostsContract!Init, HostsContract!StepsInit
<1>3. HostsInv /\ [HostsNext]_hostsVars => [HostsContract!Next]_<<HostsCells(BlockedHosts),
        Names, IF row = NoRow THEN NoRow ELSE HostsCells(row), steps>>
  BY HostsStepRefines
<1>4. HostsInv /\ [HostsNext]_hostsVars => HostsInv'
  BY HostsStep
<1>5. QED
  BY <1>1, <1>2, <1>3, <1>4, PTL DEF HostsSpec, HostsContract!Spec, HostsContract!steps, steps

-----------------------------------------------------------------------------
(* The Windows settings: their tweaks implement TweakContract while nobody   *)
(* switches the plan under a row.                                           *)

\* A plan is a cell of the contract; the row covers the one it was read in.
SettingRow == IF row = NoRow THEN NoRow ELSE [p \in {row.where} |-> row.old]

SettingContract == INSTANCE TweakContract WITH
  machine <- value, there <- Plans, row <- SettingRow,
  wanted <- {p \in Plans : IF Tweak = "mouse" THEN value[p] \in Enough ELSE value[p] = Target}

PlansAssumption ==
  /\ SettingAssumption /\ ~SwitchUnderRow
  /\ NoRow \notin Backups /\ \A p \in Plans : NoRow \notin [{p} -> Values]

SettingInv ==
  /\ value \in [Plans -> Values] /\ active \in Plans
  /\ queued \subseteq Values /\ plan \in Values
  /\ at \in {"backed", "written", "rollback", "kept"} => row \in Backups /\ row.where = active

\* A call stores the value in the active plan, or nothing; when it says that it worked,
\* the value is there.
LEMMA WriteStores ==
  ASSUME SettingAssumption, SettingInv, NEW v \in Values, NEW ok \in BOOLEAN, Write(v, ok)
  PROVE  /\ value' \in [Plans -> Values] /\ queued' \subseteq Values
         /\ \A p \in Plans \ {active} : value'[p] = value[p]
         /\ ok => value'[active] = v
<1>1. /\ value' = value \/ value' = [value EXCEPT ![active] = v]
      /\ queued' \in {queued, {}, {v}}
      /\ ok => value' = [value EXCEPT ![active] = v]
  BY DEF Write, SwitchPlan, StoreIndex, SetMouse, SetMode, Stored, Untouched, SettingAssumption
<1>2. QED
  BY <1>1 DEF SettingInv

LEMMA SettingStart == SettingAssumption /\ Init => SettingInv
BY DEF SettingAssumption, Init, StepsInit, SettingInv

LEMMA SettingStep ==
  ASSUME PlansAssumption, SettingInv, [Next]_vars PROVE SettingInv'
<1>1. CASE UNCHANGED vars
  BY <1>1 DEF SettingInv, vars, steps
<1>2. SettingAssumption /\ Target \in Values /\ Now \in Values
  BY DEF PlansAssumption, SettingAssumption, SettingInv, Now
<1>3. CASE Scan
  BY <1>2, <1>3 DEF Scan, PlanStep, SettingInv
<1>4. CASE Drift
  BY <1>2, <1>4 DEF Drift, StandDown, SettingInv
<1>5. CASE Backup
  BY <1>5 DEF Backup, BackupStep, SettingInv, Backups
<1>6. CASE Apply
  <2>1. PICK ok \in BOOLEAN : Write(Target, ok)
    BY <1>6 DEF Apply
  <2>2. value' \in [Plans -> Values] /\ queued' \subseteq Values
    BY <1>2, <2>1, WriteStores
  <2>3. QED
    BY <1>6, <2>2 DEF Apply, ApplyStep, SettingInv
<1>7. CASE Verify
  BY <1>7 DEF Verify, VerifyStep, SettingInv
<1>8. CASE Rollback
  <2>1. PICK ok \in BOOLEAN : Write(row.old, ok)
    BY <1>8 DEF Rollback
  <2>2. row \in Backups /\ row.where = active /\ row.old \in Values
    BY <1>8 DEF Rollback, SettingInv, Backups
  <2>3. value' \in [Plans -> Values] /\ queued' \subseteq Values
    BY <1>2, <2>1, <2>2, WriteStores
  <2>4. QED
    BY <1>8, <2>2, <2>3 DEF Rollback, SettingInv
<1>9. CASE OtherSets
  BY <1>9 DEF OtherSets, SettingInv, steps
<1>10. CASE OtherSwitches
  BY <1>10 DEF OtherSwitches, PlansAssumption, SettingInv, steps
<1>11. CASE Restart
  BY <1>11 DEF Restart, SettingInv, steps
<1>12. QED
  BY <1>1, <1>3, <1>4, <1>5, <1>6, <1>7, <1>8, <1>9, <1>10, <1>11 DEF Next

\* What the row covers, once there is one: the active plan.
LEMMA SettingCovered ==
  ASSUME PlansAssumption, row \in Backups
  PROVE  /\ SettingRow = [p \in {row.where} |-> row.old] /\ SettingRow # NoRow
         /\ SettingContract!Covered = {row.where}
<1>1. row # NoRow /\ row.where \in Plans /\ row.old \in Values
  BY DEF PlansAssumption, Backups
<1>2. SettingRow = [p \in {row.where} |-> row.old]
  BY <1>1 DEF SettingRow
<1>3. SettingRow # NoRow
  BY <1>1, <1>2 DEF PlansAssumption
<1>4. QED
  BY <1>2, <1>3 DEF SettingContract!Covered

LEMMA SettingQuietRefines ==
  ASSUME PlansAssumption, SettingInv
  PROVE  /\ Scan => SettingContract!Plan
         /\ Drift => SettingContract!Skip
         /\ Backup => SettingContract!Backup
<1>1. ASSUME Scan PROVE SettingContract!Plan
  BY <1>1 DEF Scan, PlanStep, SettingRow, SettingContract!Plan, SettingContract!PlanStep
<1>2. ASSUME Drift PROVE SettingContract!Skip
  BY <1>2 DEF Drift, StandDown, SettingRow, SettingContract!Skip, SettingContract!StandDown
<1>3. ASSUME Backup PROVE SettingContract!Backup
  <2>1. row' = [where |-> active, old |-> plan] /\ active \in Plans /\ plan \in Values
    BY <1>3 DEF Backup, SettingInv
  <2>2. row' # NoRow /\ row'.where = active /\ row'.old = plan
    BY <2>1 DEF PlansAssumption, Backups
  <2>3. SettingRow' = [p \in {active} |-> plan]
    BY <2>2 DEF SettingRow
  <2>4. SettingRow' # NoRow
    BY <2>1, <2>3 DEF PlansAssumption
  <2>5. QED
    BY <1>3, <2>4 DEF Backup, BackupStep, SettingContract!Backup, SettingContract!BackupStep
<1>4. QED
  BY <1>1, <1>2, <1>3

LEMMA SettingApplyRefines ==
  ASSUME PlansAssumption, SettingInv, Apply PROVE SettingContract!Apply
<1>1. PICK ok \in BOOLEAN : Write(Target, ok) /\ ApplyStep(Applied(ok))
  BY DEF Apply
<1>2. at = "backed" /\ UNCHANGED row /\ row \in Backups /\ row.where = active
  BY <1>1 DEF Apply, ApplyStep, SettingInv
<1>3. \A p \in Plans \ {active} : value'[p] = value[p]
  BY <1>1, WriteStores DEF PlansAssumption, SettingAssumption
<1>4. SettingContract!WritesWithinRow
  <2>1. DOMAIN value' = Plans /\ DOMAIN value = Plans
    BY <1>1, WriteStores DEF PlansAssumption, SettingAssumption, SettingInv
  <2>2. QED
    BY <1>2, <1>3, <2>1, SettingCovered DEF SettingContract!WritesWithinRow
<1>5. \E good \in BOOLEAN : SettingContract!ApplyStep(good)
  BY <1>1 DEF ApplyStep, Applied, SettingContract!ApplyStep
<1>6. UNCHANGED SettingRow
  BY <1>2 DEF SettingRow
<1>7. QED
  BY <1>4, <1>5, <1>6 DEF SettingContract!Apply

\* "Verified" is only said when the plan of the row holds what was wanted.
LEMMA SettingVerifyRefines ==
  ASSUME PlansAssumption, SettingInv, Verify PROVE SettingContract!Verify
<1>1. /\ at = "written" /\ row \in Backups /\ row.where = active /\ active \in Plans
      /\ UNCHANGED <<value, SettingRow>>
  BY DEF Verify, VerifyStep, SettingInv, SettingRow
<1>2. CASE VerifyStep(FALSE)
  BY <1>1, <1>2 DEF VerifyStep, SettingContract!Verify, SettingContract!VerifyStep
<1>3. CASE Confirms /\ VerifyStep(TRUE)
  <2>1. IF Tweak = "mouse" THEN value[active] \in Enough ELSE value[active] = Target
    BY <1>3 DEF Confirms, MouseNeeds, Now
  <2>2. SettingContract!Covered = {active}
    BY <1>1, SettingCovered
  <2>3. QED
    BY <1>1, <1>3, <2>1, <2>2 DEF VerifyStep, SettingContract!Verify,
      SettingContract!VerifyStep
<1>4. QED
  BY <1>2, <1>3 DEF Verify, VerifyStep

\* "Restored" is only said when the plan of the row holds what it held.
LEMMA SettingRollbackRefines ==
  ASSUME PlansAssumption, SettingInv, Rollback PROVE SettingContract!Rollback
<1>1. PICK ok \in BOOLEAN : Write(row.old, ok) /\ RollbackStep(ok)
  BY DEF Rollback
<1>2. /\ row \in Backups /\ row.where = active /\ row.old \in Values /\ active \in Plans
      /\ UNCHANGED row
  BY DEF Rollback, SettingInv, Backups
<1>3. /\ value' \in [Plans -> Values] /\ value \in [Plans -> Values]
      /\ \A p \in Plans \ {active} : value'[p] = value[p]
      /\ ok => value'[active] = row.old
  BY <1>1, <1>2, WriteStores DEF PlansAssumption, SettingInv
<1>4. /\ SettingContract!Covered = {active} /\ SettingRow = [p \in {active} |-> row.old]
      /\ UNCHANGED SettingRow
  BY <1>2, SettingCovered DEF SettingRow
<1>5. SettingContract!WritesWithinRow
  BY <1>3, <1>4 DEF SettingContract!WritesWithinRow
<1>6. ok => \A p \in SettingContract!Covered : p \in Plans /\ value'[p] = SettingRow[p]
  BY <1>2, <1>3, <1>4
<1>7. QED
  BY <1>1, <1>4, <1>5, <1>6 DEF RollbackStep, SettingContract!Rollback,
    SettingContract!RollbackStep

LEMMA SettingStepRefines ==
  ASSUME PlansAssumption, SettingInv, [Next]_vars
  PROVE  SettingContract!Next \/ UNCHANGED <<value, SettingRow, steps>>
<1>1. CASE UNCHANGED vars
  BY <1>1 DEF vars, SettingRow
<1>2. CASE Scan \/ Drift \/ Backup
  BY <1>2, SettingQuietRefines DEF SettingContract!Next
<1>3. CASE Apply \/ Verify \/ Rollback
  BY <1>3, SettingApplyRefines, SettingVerifyRefines, SettingRollbackRefines
    DEF SettingContract!Next
<1>4. CASE OtherSets \/ OtherSwitches \/ Restart
  BY <1>4 DEF OtherSets, OtherSwitches, Restart, Other, Calm, steps, SettingRow,
    SettingContract!Next, SettingContract!Others, SettingContract!Calm
<1>5. QED
  BY <1>1, <1>2, <1>3, <1>4 DEF Next

\* Whatever the player and other programs set, whichever calls fail and whatever waits for
\* a restart, the tweak writes the plan of its row alone, says verified only when that
\* holds what was wanted, and restored only when it holds what it held (tweaks/power.py,
\* power_settings.py, mouse.py, display.py).
THEOREM SettingTweakKeepsContract ==
  ASSUME PlansAssumption PROVE Spec => SettingContract!Spec
<1>1. Init => SettingInv
  BY SettingStart DEF PlansAssumption
<1>2. Init => SettingContract!Init
  BY DEF Init, StepsInit, SettingRow, SettingContract!Init, SettingContract!StepsInit
<1>3. SettingInv /\ [Next]_vars => [SettingContract!Next]_<<value, Plans, SettingRow, steps>>
  BY SettingStepRefines
<1>4. SettingInv /\ [Next]_vars => SettingInv'
  BY SettingStep
<1>5. QED
  BY <1>1, <1>2, <1>3, <1>4, PTL DEF Spec, SettingContract!Spec, SettingContract!steps, steps
===============================================================================
