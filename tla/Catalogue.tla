------------------------------ MODULE Catalogue ------------------------------
(***************************************************************************)
(* The Windows settings the program knows, and where one stands on a PC.    *)
(* One reading serves the settings dialog, the audit and the profile.       *)
(***************************************************************************)
EXTENDS FiniteSets

\* The key of no option at all.
NoKey == "none of the options"

SettingSpec(risk, absent, options) == [risk |-> risk, absent |-> absent, options |-> options]

Switch == {"on", "off"}

\* The risk of changing it, what Windows does when the value is absent ("driver"
\* and "default" are no option of their own), and the options offered.
SETTINGS ==
  [windowed |-> SettingSpec("LOW", "off", Switch),
   transparency |-> SettingSpec("MEDIUM", "on", Switch),
   animations |-> SettingSpec("MEDIUM", "on", Switch),
   game_mode |-> SettingSpec("MEDIUM", "on", Switch),
   hags |-> SettingSpec("MEDIUM", "driver", Switch),
   throttling |-> SettingSpec("MEDIUM", "default", {"default", "off"}),
   responsiveness |-> SettingSpec("MEDIUM", "default", {"default", "low"}),
   scheduling |-> SettingSpec("MEDIUM", "default", {"default", "high"}),
   priority |-> SettingSpec("HIGH", "default", {"default", "short"})]

-----------------------------------------------------------------------------
\* What a registry value of setting s can be found as.
Found(s) == SETTINGS[s].options \cup {"absent", "custom", "unreadable"}

\* On a build older than the setting, or without a card for it.
Available(s, pc) ==
  /\ s = "windowed" => ~pc.windows10
  /\ s = "hags" => pc.driver # "unsupported"

\* read_state: the option in force.  An absent value is what Windows does without
\* it, and for HAGS what the driver chose, when that can be asked.
CurrentKey(s, pc) ==
  LET found == pc.registry[s] IN
  CASE found \in SETTINGS[s].options -> found
    [] found = "absent" /\ s = "hags" /\ pc.driver \in Switch -> pc.driver
    [] found = "absent" /\ SETTINGS[s].absent \in SETTINGS[s].options -> SETTINGS[s].absent
    [] OTHER -> NoKey

Readable(s, pc) == pc.registry[s] # "unreadable"
===============================================================================
