----------------------------- MODULE ClubProfile -----------------------------
(***************************************************************************)
(* The golden profile: captured from a reference PC, carried to another as  *)
(* a file, compared there, and, where a difference has a tweak behind it,   *)
(* put right through a plan.  Comparing reads the settings and the power    *)
(* plan as they are, but the hardware and the displays as the last scan saw *)
(* them.  One section is studied at a time.                                 *)
(***************************************************************************)
EXTENDS Integers, FiniteSets, Catalogue

CONSTANTS
  Settings,    \* the catalogue settings of the profile
  Schemes,     \* power schemes, of which those in FullSpeed never slow down
  FullSpeed,
  Monitors,    \* with the best rate of each at its resolution
  Best, Rates,
  Services,
  MaxMoves

\* A figure that could not be read.
Unread == -1

Numbers == {"ram", "vram", "free", "cores"}   \* in quarters of a gigabyte, percent, cores
Names == {"disk", "vendor"}
Sections == Numbers \cup Names \cup {"settings", "power", "display", "services"}

ClubProfileAssumption ==
  /\ Settings \subseteq DOMAIN SETTINGS /\ FullSpeed \subseteq Schemes
  /\ Rates \subseteq Nat /\ Best \in [Monitors -> Rates] /\ MaxMoves \in Nat
  \* What may drift is told apart by its name.
  /\ Monitors \cap (Settings \cup Sections) = {}
  /\ Services \cap (Settings \cup Monitors \cup Sections) = {}

VARIABLES
  section,   \* the one that differs between the PCs
  ref,       \* the reference PC
  here,      \* this PC
  scanned,   \* this PC as the last scan saw it
  file,      \* the profile: {} when there is none, {profile}
  damaged,   \* the file was edited into something else
  result,    \* {} before a comparison, {the things that drifted}
  fixes,     \* those a fix is offered for
  reached,   \* the things fixed without a failure since something else moved
  stale,     \* is the comparison about something that has moved since?
  moves

profileVars == <<section, ref, here, scanned, file, damaged, result, fixes, reached, stale, moves>>

-----------------------------------------------------------------------------
\* A PC whose settings stand as given, HAGS besides with what the driver does, or that
\* it could not be asked.
SetTo(registry, driver) ==
  [figure |-> 16, name |-> "SSD", registry |-> registry,
   windows10 |-> driver = "unsupported", driver |-> driver, scheme |-> "balanced",
   rate |-> Best, service |-> [s \in Services |-> "Automatic"]]

Plain == SetTo([s \in Settings |-> "absent"], "on")

Figures == {Unread, 3, 7, 8, 19, 20}
Named == {"", "SSD", "other"}   \* a kind of disk, or a vendor
StartupTypes == {"Automatic", "Manual", "Disabled", "UNKNOWN", "missing"}

PCs(s) ==
  CASE s \in Numbers -> {[Plain EXCEPT !.figure = f] : f \in Figures}
    [] s \in Names -> {[Plain EXCEPT !.name = n] : n \in Named}
    [] s = "settings" ->
         {SetTo(r, d) :
            r \in {g \in [Settings -> UNION {Found(x) : x \in Settings}] :
                     \A x \in Settings : g[x] \in Found(x)},
            d \in Switch \cup {"unsupported", "unasked"}}
    [] s = "power" -> {[Plain EXCEPT !.scheme = p] : p \in Schemes \cup {"unread"}}
    [] s = "display" -> {[Plain EXCEPT !.rate = r] : r \in [Monitors -> Rates \cup {Unread}]}
    [] OTHER -> {[Plain EXCEPT !.service = t] : t \in [Services -> StartupTypes]}

ProfileInit ==
  /\ section \in Sections
  /\ ref \in PCs(section) /\ here \in PCs(section) /\ scanned = here
  /\ file = {} /\ damaged = FALSE /\ result = {} /\ fixes = {} /\ reached = {}
  /\ stale = FALSE /\ moves = 0

-----------------------------------------------------------------------------
(* Capture.                                                                 *)

\* "Round down to a whole GB so a 16 GB PC does not fail its own profile."
WholeGigabytes(quarters) == quarters \div 4

\* What the reference demands of a figure; nothing when it could not be read, but
\* always some free space.
Demanded(s, figure) ==
  IF s = "free" THEN {20}
  ELSE IF figure = Unread THEN {}
  ELSE IF s \in {"ram", "vram"} THEN {WholeGigabytes(figure)}
  ELSE {figure}

\* settings_drift.capture: what is there, can be read and is one of the options.
CapturedSettings(pc) ==
  LET known == {s \in Settings : Available(s, pc) /\ CurrentKey(s, pc) # NoKey /\ Readable(s, pc)} IN
  [s \in known |-> CurrentKey(s, pc)]

Captured(pc) ==
  [figure |-> Demanded(section, pc.figure),
   name |-> {n \in {pc.name} : n # "" /\ (section = "disk" => n = "SSD")},
   settings |-> CapturedSettings(pc),
   scheme |-> IF pc.scheme = "unread" THEN {} ELSE {pc.scheme},
   maximum |-> TRUE, minimum |-> 0, services |-> << >>]

\* The schema: at least one gigabyte, so that a card with less cannot be captured.
Valid(profile) == section \in {"ram", "vram", "cores"} => \A f \in profile.figure : f >= 1

\* capture_from_machine, save.
Save ==
  /\ file = {} /\ Valid(Captured(ref)) /\ file' = {Captured(ref)}
  /\ UNCHANGED <<section, ref, here, scanned, damaged, result, fixes, reached, stale, moves>>

\* Only by hand does a profile get a least rate, or no demand for the best one,
\* or services; services cannot be demanded to be disabled.
Edit ==
  /\ file # {} /\ ~damaged /\ result = {}
  /\ \E p \in file :
       \/ \E m \in Rates, max \in BOOLEAN :
            /\ section = "display"
            /\ file' = {[p EXCEPT !.minimum = m, !.maximum = max]} /\ UNCHANGED damaged
       \/ \E t \in {"Automatic", "Manual"} :
            /\ section = "services"
            /\ file' = {[p EXCEPT !.services = [s \in Services |-> t]]} /\ UNCHANGED damaged
       \/ damaged' = TRUE /\ UNCHANGED file
  /\ UNCHANGED <<section, ref, here, scanned, result, fixes, reached, stale, moves>>

-----------------------------------------------------------------------------
(* Comparison: a thing that cannot be read is unknown, never drift.         *)

Below(s, figure, wanted) ==
  IF s = "ram" THEN figure < 4 * wanted - 2      \* half a gigabyte of grace
  ELSE IF s = "vram" THEN figure < 4 * wanted
  ELSE figure < wanted

CompareHardware(p) ==
  IF section \in Numbers
  THEN {section : f \in {w \in p.figure : scanned.figure # Unread /\ Below(section, scanned.figure, w)}}
  ELSE {section : n \in {w \in p.name : section \in Names /\ scanned.name # "" /\ scanned.name # w}}

ComparePower(p) ==
  {"power" : g \in {w \in p.scheme : here.scheme # "unread" /\ here.scheme # w}}

\* A display whose mode cannot be read is left out.
Slow(pc, m) == pc.rate[m] # Unread /\ pc.rate[m] < Best[m]
BelowLeast(p, m) == scanned.rate[m] # Unread /\ scanned.rate[m] < p.minimum

CompareDisplay(p) == {m \in Monitors : (p.maximum /\ Slow(scanned, m)) \/ BelowLeast(p, m)}

\* Mutant: an absent value is taken for a difference, whatever Windows does
\* without it; so a PC differs from its own profile.
AbsentDiffers(p) ==
  {s \in DOMAIN p.settings :
     Readable(s, here) /\ Available(s, here) /\ here.registry[s] # p.settings[s]}

CompareSettings(p) ==
  {s \in DOMAIN p.settings :
     Readable(s, here) /\ Available(s, here) /\ CurrentKey(s, here) # p.settings[s]}

\* Automatic and delayed automatic are one class; a missing service is unknown.
CompareServices(p) ==
  {s \in DOMAIN p.services :
     here.service[s] \notin {"missing", "UNKNOWN"} /\ here.service[s] # p.services[s]}

Differences(p) ==
  CompareHardware(p) \cup ComparePower(p) \cup CompareDisplay(p) \cup
  CompareSettings(p) \cup CompareServices(p)

\* Mutant: a display that is only below the club's least rate gets no fix.
OnlyForMaximum(p) == {m \in Monitors : Slow(scanned, m) /\ p.maximum}

\* Only a display that can do better at its resolution.
DisplayFixes(p) ==
  {m \in Monitors : Slow(scanned, m) /\ (p.maximum \/ BelowLeast(p, m))}

\* collect.
Fixes(p) == CompareSettings(p) \cup ComparePower(p) \cup DisplayFixes(p)

\* load refuses a file that is not a profile, and nothing is compared.
Compare ==
  /\ file # {} /\ ~damaged /\ result = {}
  /\ \E p \in file : result' = {Differences(p)} /\ fixes' = Fixes(p)
  /\ stale' = (scanned # here)
  /\ UNCHANGED <<section, ref, here, scanned, file, damaged, reached, moves>>

-----------------------------------------------------------------------------
(* The one button: every fix is planned, confirmed and applied.              *)

\* Switching the scheme is planned only when it would gain something: not away
\* from one that already runs the processor at full speed.
PowerNeedsChange == here.scheme \notin FullSpeed

Fixed(p, what) ==
  [here EXCEPT
    !.registry = [s \in Settings |-> IF s \in what THEN p.settings[s] ELSE here.registry[s]],
    !.scheme = IF "power" \in what /\ PowerNeedsChange THEN CHOOSE w \in p.scheme : TRUE ELSE @,
    !.rate = [m \in Monitors |-> IF m \in what THEN Best[m] ELSE here.rate[m]]]

\* Each change is refused, fails, or holds.
Fix ==
  /\ fixes # {}
  /\ \E p \in file, what \in SUBSET fixes :
       here' = Fixed(p, what) /\ reached' = what
  /\ fixes' = {} /\ result' = {}
  /\ UNCHANGED <<section, ref, scanned, file, damaged, stale, moves>>

CloseComparison ==
  /\ result # {} /\ result' = {} /\ fixes' = {}
  /\ UNCHANGED <<section, ref, here, scanned, file, damaged, reached, stale, moves>>

Rescan ==
  /\ scanned # here /\ scanned' = here /\ stale' = TRUE
  /\ UNCHANGED <<section, ref, here, file, damaged, result, fixes, reached, moves>>

\* Something else on this PC changes, one setting at a time.
Near(pc) ==
  /\ pc.driver = here.driver
  /\ Cardinality({s \in Settings : pc.registry[s] # here.registry[s]}) <= 1

OtherMoves ==
  /\ moves < MaxMoves /\ moves' = moves + 1
  /\ here' \in {pc \in PCs(section) : Near(pc)} /\ reached' = {} /\ stale' = TRUE
  /\ UNCHANGED <<section, ref, scanned, file, damaged, result, fixes>>

ProfileNext ==
  \/ Save \/ Edit \/ Compare \/ Fix \/ CloseComparison \/ Rescan \/ OtherMoves

ProfileSpec == ProfileInit /\ [][ProfileNext]_profileVars

-----------------------------------------------------------------------------
Drifted == UNION result
UpToDate == result # {} /\ ~stale

\* Does this PC have what the reference has, or more of what is counted, as far as
\* either could be read?
Agrees(one, other, blank) == one = other \/ one = blank \/ other = blank

AtLeastRef ==
  /\ here.figure >= ref.figure \/ here.figure = Unread
  /\ Agrees(here.name, ref.name, "")
  /\ \A s \in Settings : Agrees(here.registry[s], ref.registry[s], "unreadable")
  /\ here.windows10 = ref.windows10 /\ Agrees(here.driver, ref.driver, "unasked")
  /\ Agrees(here.scheme, ref.scheme, "unread")
  /\ \A m \in Monitors : Agrees(here.rate[m], ref.rate[m], Unread)

\* Two demands are the club's, whatever the reference has: free space, and the best
\* rate of every display.  What the reference does not meet, or could not be seen to:
ShortOfClub ==
  {s \in {"free"} : section = s /\ ref.figure < 20} \cup
  {m \in Monitors : ref.rate[m] < Best[m]}

\* HAGS left to a driver that could not be asked here: neither unavailable nor one of
\* the options, it counts as a difference.
LeftToUnasked ==
  {s \in Settings \cap {"hags"} : here.registry[s] = "absent" /\ here.driver = "unasked"}

\* "The reference PC is the definition of acceptable": a PC that is what the
\* reference is, or has more of what is counted, shows no drift against the
\* profile captured from it, whatever could not be read on either; but for what the
\* reference itself falls short of, and HAGS where the driver could not be asked.
ReferenceAcceptable ==
  UpToDate /\ AtLeastRef /\ file = {Captured(ref)} =>
    Drifted \subseteq ShortOfClub \cup LeftToUnasked

\* "The drift PGM can correct": what was put right without a failure does not
\* drift when it is scanned and compared again, but for a display that has no
\* faster mode; and every display that could do better is offered a fix.
Reached(things) ==
  UpToDate => \A x \in reached \cap things :
    x \in Drifted => x \in Monitors /\ ~Slow(here, x)

ProfileReached ==
  /\ Reached(Settings \cup Monitors)
  /\ UpToDate => \A m \in Monitors \cap Drifted : m \in fixes \/ ~Slow(here, m)

\* The same of the power scheme.
PowerReached == Reached({"power"})
===============================================================================
