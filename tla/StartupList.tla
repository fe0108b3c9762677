------------------------------ MODULE StartupList ------------------------------
(***************************************************************************)
(* The list of programs Windows launches at sign-in, and turning one of     *)
(* them off or on.  PGM never deletes an entry: it writes the flag Windows  *)
(* keeps for it, where it takes Windows to look for an entry of that        *)
(* source.  Where Windows does look is a table of its own here.  The        *)
(* operator works from a list read earlier.                                 *)
(***************************************************************************)
EXTENDS Disturbance, FiniteSets

CONSTANTS
  Programs,   \* names of entries
  Sources,    \* RUN_USER, RUN_MACHINE, RUN_MACHINE_32, FOLDER_USER, FOLDER_COMMON
  Protected,  \* programs PGM refuses to disable
  Elevated,   \* does PGM run as administrator?
  MaxInstalls \* bound: steps of other programs

StartupAssumption ==
  /\ Sources \subseteq
       {"RUN_USER", "RUN_MACHINE", "RUN_MACHINE_32", "FOLDER_USER", "FOLDER_COMMON"}
  /\ Protected \subseteq Programs /\ Elevated \in BOOLEAN

VARIABLES
  autostart,  \* the entries that exist: pairs of source and name
  approved,   \* [places -> [names -> flag]]
  shown       \* the list the dialog shows: entry -> enabled

startupVars == <<autostart, approved, shown, others, faults>>
Entries == Sources \X Programs
Flags == {"none", "on", "off"}

-----------------------------------------------------------------------------
Hive(source) == IF source \in {"RUN_USER", "FOLDER_USER"} THEN "HKCU" ELSE "HKLM"
View(source) == IF source = "RUN_MACHINE_32" THEN 32 ELSE 64

\* Mutant: the 32-bit entries' flags are looked for beside the 64-bit ones.
OneRunKey(source) ==
  <<Hive(source), IF source \in {"FOLDER_USER", "FOLDER_COMMON"} THEN "StartupFolder" ELSE "Run", 64>>

\* The key under which the flags of a source's entries are.
ApprovalKey(source) ==
  <<Hive(source),
    CASE source \in {"FOLDER_USER", "FOLDER_COMMON"} -> "StartupFolder"
      [] source = "RUN_MACHINE_32" -> "Run32" [] OTHER -> "Run",
    View(source)>>

\* Where Windows, and Task Manager, look for them: all in the 64-bit view, those of
\* the 32-bit Run key in a key of their own.
WindowsKeys ==
  [RUN_USER |-> <<"HKCU", "Run", 64>>,
   RUN_MACHINE |-> <<"HKLM", "Run", 64>>,
   RUN_MACHINE_32 |-> <<"HKLM", "Run32", 64>>,
   FOLDER_USER |-> <<"HKCU", "StartupFolder", 64>>,
   FOLDER_COMMON |-> <<"HKLM", "StartupFolder", 64>>]

WindowsKey(source) == WindowsKeys[source]

Keys == {"HKCU", "HKLM"} \X {"Run", "Run32", "StartupFolder"} \X {32, 64}

\* An entry is on unless its flag says otherwise; a flag nobody set, or one that
\* cannot be read, counts as on.
ReadsEnabled(e) == approved[ApprovalKey(e[1])][e[2]] # "off"
Launches(e) == approved[WindowsKey(e[1])][e[2]] # "off"

StartupTypeOK ==
  /\ autostart \subseteq Entries
  /\ approved \in [Keys -> [Programs -> Flags]]
  /\ shown \in UNION {[S -> BOOLEAN] : S \in SUBSET Entries}
  /\ others \in 0..MaxInstalls /\ faults \in 0..MaxFaults

StartupInit ==
  /\ autostart \in SUBSET Entries
  /\ approved = [k \in Keys |-> [p \in Programs |-> "none"]]
  /\ shown = << >> /\ Undisturbed

-----------------------------------------------------------------------------
\* A source that cannot be read contributes nothing; flags that cannot be read
\* leave all its entries on.
List ==
  /\ \/ shown' = [e \in autostart |-> ReadsEnabled(e)] /\ NoFault
     \/ \E s \in Sources :
          /\ Fault
          /\ shown' \in {[e \in {x \in autostart : x[1] # s} |-> ReadsEnabled(e)],
                         [e \in autostart |-> e[1] = s \/ ReadsEnabled(e)]}
  /\ UNCHANGED <<autostart, approved, others>>

\* Only turning off is refused; the machine's entries need the administrator.
Allowed(e, on) ==
  /\ on \/ e[2] \notin Protected
  /\ Hive(e[1]) = "HKLM" => Elevated

\* The flag is written, then read back into the row of the list.  The entry may
\* be gone by now, or the write may fail.
SetEnabled ==
  \E e \in DOMAIN shown, on \in BOOLEAN :
    /\ shown[e] # on /\ Allowed(e, on)
    /\ \/ /\ approved' = [approved EXCEPT ![ApprovalKey(e[1])][e[2]] =
                            IF on THEN "on" ELSE "off"]
          /\ \/ shown' = [shown EXCEPT ![e] = on] /\ NoFault
             \/ shown' = [shown EXCEPT ![e] = TRUE] /\ Fault
       \/ Fault /\ UNCHANGED <<approved, shown>>
    /\ UNCHANGED <<autostart, others>>

\* Installers add and remove entries; Task Manager turns them on and off.
OtherPrograms ==
  /\ others < MaxInstalls /\ others' = others + 1
  /\ \E e \in Entries :
       \/ autostart' = (IF e \in autostart THEN autostart \ {e} ELSE autostart \cup {e})
          /\ UNCHANGED approved
       \/ /\ approved' = [approved EXCEPT ![WindowsKey(e[1])][e[2]] =
                            IF @ = "off" THEN "on" ELSE "off"]
          /\ UNCHANGED autostart
  /\ UNCHANGED <<shown, faults>>

StartupNext == List \/ SetEnabled \/ OtherPrograms

StartupSpec == StartupInit /\ [][StartupNext]_startupVars
-----------------------------------------------------------------------------
\* The flags of the 32-bit Run key are written where Windows does not look.
HeardBy(source) == source # "RUN_MACHINE_32"

\* A toggle changes at most what Windows launches of the one entry the operator
\* picked, in the direction picked, and never a protected one to off; a row of the
\* list that changes with it shows from then on what Windows does, unless it is one
\* of the 32-bit Run key.
OnlyPickedChanges ==
  approved' # approved /\ others' = others =>
    /\ \A e \in Entries : Launches(e) # Launches(e)' =>
         /\ e \in DOMAIN shown /\ shown[e] # Launches(e)'
         /\ Launches(e)' \/ e[2] \notin Protected
         /\ \A f \in Entries \ {e} : Launches(f)' = Launches(f)
    /\ \A e \in DOMAIN shown : HeardBy(e[1]) /\ shown'[e] # shown[e] =>
         shown'[e] = Launches(e)'

ToggleHitsOne == [][OnlyPickedChanges]_startupVars
===============================================================================
