--------------------------------- MODULE Scan ---------------------------------
(***************************************************************************)
(* Scanning.  One scanner, with its cached inventory, serves two threads:   *)
(* the scan worker of the window and the optimizer's measurement afterwards *)
(* (hardware_scan.py says why there is no lock).  A full scan reads the     *)
(* inventory and, side by side, the network; a refresh takes the inventory  *)
(* from the cache, carries the last network reading forward, and measures   *)
(* the rest.                                                               *)
(***************************************************************************)
EXTENDS Naturals, FiniteSets

CONSTANTS
  Drives,     \* what the hardware may be
  Loads,      \* what a live probe may find
  Links,      \* how the PC is connected
  MaxChanges, \* how often the machine changes
  MaxScans    \* how often a scan begins

ScanAssumption == Links \subseteq {"direct", "tunnel", "lan", "none"}

Unknown == "unknown"
Scanners == {"window", "optimizer"}

VARIABLES
  machine,    \* the machine: [hardware, load, link]
  cache,      \* {} or {the last inventory}: its drives, or Unknown
  network,    \* {} or {the last network reading the window was given}
  stage,      \* [Scanners -> "idle", "begun", "fetched", "read", "measured"]
  quick,      \* [Scanners -> BOOLEAN]: a refresh
  carried,    \* [Scanners -> the network reading when it began]
  cim,        \* [Scanners -> {} or {inventory}]
  load,       \* [Scanners -> a load, or Unknown]
  routing,    \* of a full scan: "unread", a link, "way unread" or "unreadable"
  router,     \* its ping: what it went through, "marked" or "none"
  warned,     \* [Scanners -> SUBSET {"inventory", "probe"}]
  during,     \* [Scanners -> the states of the machine since it began]
  shown,      \* {} or {what the window shows}
  changes, scans

scanVars == <<machine, cache, network, stage, quick, carried, cim, load, routing, router,
              warned, during, shown, changes, scans>>
pings == <<routing, router>>
scanner == <<stage, quick, carried, cim, load, warned>>

ScanInit ==
  /\ machine \in [hardware : Drives, load : Loads, link : Links]
  /\ cache = {} /\ network = {} /\ shown = {}
  /\ stage = [w \in Scanners |-> "idle"]
  /\ quick = [w \in Scanners |-> FALSE]
  /\ carried = [w \in Scanners |-> {}] /\ cim = [w \in Scanners |-> {}]
  /\ load = [w \in Scanners |-> Unknown]
  /\ routing = "unread" /\ router = "none"
  /\ warned = [w \in Scanners |-> {}] /\ during = [w \in Scanners |-> {}]
  /\ changes = 0 /\ scans = 0

-----------------------------------------------------------------------------
BeginScan(w, refresh) ==
  /\ stage[w] = "idle" /\ scans < MaxScans /\ scans' = scans + 1
  /\ stage' = [stage EXCEPT ![w] = "begun"]
  /\ quick' = [quick EXCEPT ![w] = refresh]
  /\ carried' = [carried EXCEPT ![w] = network]
  /\ cim' = [cim EXCEPT ![w] = {}] /\ load' = [load EXCEPT ![w] = Unknown]
  /\ warned' = [warned EXCEPT ![w] = {}]
  /\ during' = [during EXCEPT ![w] = {machine}]
  /\ UNCHANGED <<machine, cache, network, shown, changes>>

\* ScanController.start and refresh; both are ignored while a scan runs.
Start == BeginScan("window", FALSE) /\ routing' = "unread" /\ router' = "none"
Refresh == BeginScan("window", network # {}) /\ routing' = "unread" /\ router' = "none"

\* The optimizer's rescan, after the window has shown a result once.
Remeasure == shown # {} /\ BeginScan("optimizer", TRUE) /\ UNCHANGED pings

-----------------------------------------------------------------------------
(* The inventory.                                                           *)

\* CommandRunner.run and PowerShellRunner.run_json: a program that is not found,
\* does not start, overruns its time or ends with an error, and an answer that is
\* no JSON, raise; no answer at all is no rows.
RunJson(ended, answer) ==
  IF ended # "zero" \/ answer = "garbage" THEN "raised"
  ELSE IF answer \in {"", "null", "scalar"} THEN "no rows"
  ELSE answer

Ended == {"not found", "not started", "overran", "error", "zero"}
Answers == {"", "null", "scalar", "garbage", "whole", "part"}

\* In this process all of it or nothing; else from PowerShell, where a class that
\* cannot be read, as that of the drives may be, is left out: no error and no warning.
Fetched(inProcess, ended, answer) ==
  IF inProcess THEN {machine.hardware}
  ELSE LET got == RunJson(ended, answer) IN
       CASE got \in {"raised", "no rows"} -> {}
         [] got = "part" -> {Unknown}
         [] OTHER -> {machine.hardware}

\* Mutant: whatever is in the cache is good enough for a full scan as well.
AnyCached(w) == cache # {}

Reusable(w) == quick[w] /\ cache # {}

Reuse(w) ==
  /\ stage[w] = "begun" /\ Reusable(w)
  /\ cim' = [cim EXCEPT ![w] = cache]
  /\ stage' = [stage EXCEPT ![w] = "read"]
  /\ UNCHANGED <<machine, cache, network, quick, carried, load, pings, warned, during, shown,
                 changes, scans>>

Fetch(w) ==
  /\ stage[w] = "begun" /\ ~Reusable(w)
  /\ \E inProcess \in BOOLEAN, ended \in Ended, answer \in Answers :
       LET got == Fetched(inProcess, ended, answer) IN
       /\ cim' = [cim EXCEPT ![w] = got]
       /\ warned' = IF got = {} THEN [warned EXCEPT ![w] = {"inventory"}] ELSE warned
  /\ stage' = [stage EXCEPT ![w] = "fetched"]
  /\ UNCHANGED <<machine, cache, network, quick, carried, load, pings, during, shown,
                 changes, scans>>

\* An empty one does not replace what was read before.
Keep(w) ==
  /\ stage[w] = "fetched" /\ stage' = [stage EXCEPT ![w] = "read"]
  /\ cache' = IF cim[w] = {} THEN cache ELSE cim[w]
  /\ UNCHANGED <<machine, network, quick, carried, cim, load, pings, warned, during, shown,
                 changes, scans>>

\* The live probes; one that raises is a warning and an unknown value, but a reading
\* that is not to be had is unknown and no more than a line in the log.
Probe(w) ==
  /\ stage[w] = "read" /\ stage' = [stage EXCEPT ![w] = "measured"]
  /\ \/ load' = [load EXCEPT ![w] = machine.load] /\ UNCHANGED warned
     \/ load' = [load EXCEPT ![w] = Unknown] /\ UNCHANGED warned
     \/ load' = [load EXCEPT ![w] = Unknown]
        /\ warned' = [warned EXCEPT ![w] = @ \cup {"probe"}]
  /\ UNCHANGED <<machine, cache, network, quick, carried, cim, pings, during, shown,
                 changes, scans>>

-----------------------------------------------------------------------------
(* The network, beside the inventory.                                       *)

NetworkTurn == stage["window"] # "idle" /\ ~quick["window"]

\* In this process, or from PowerShell, or not at all, which is an answer too; or all
\* but the adapter that traffic to the router takes.
Route ==
  /\ NetworkTurn /\ routing = "unread"
  /\ routing' \in {machine.link, "unreadable"} \cup
                  {"way unread" : l \in {machine.link} \cap {"direct", "tunnel"}}
  /\ UNCHANGED <<machine, cache, network, scanner, router, during, shown, changes, scans>>

\* Mutant: what came back through a tunnel counts as the local network.
PingTaken(went) == went

\* Traffic to the router that is known not to leave through the network card is marked.
PingMarked(went) == IF routing = "tunnel" THEN "marked" ELSE went

\* Only where there is a gateway; without an answer there is no figure.
Ping ==
  /\ NetworkTurn /\ routing \in {"direct", "tunnel", "way unread"} /\ router = "none"
  /\ \E went \in {machine.link} \cap {"direct", "tunnel"} : router' = PingMarked(went)
  /\ UNCHANGED <<machine, cache, network, scanner, routing, during, shown, changes, scans>>

NetworkRead == [routing |-> routing, router |-> router]

-----------------------------------------------------------------------------
Idle(w) ==
  /\ stage' = [stage EXCEPT ![w] = "idle"]
  /\ quick' = [quick EXCEPT ![w] = FALSE]
  /\ carried' = [carried EXCEPT ![w] = {}] /\ cim' = [cim EXCEPT ![w] = {}]
  /\ load' = [load EXCEPT ![w] = Unknown]
  /\ warned' = [warned EXCEPT ![w] = {}] /\ during' = [during EXCEPT ![w] = {}]

\* A refresh hands on the reading that was there when it began.
CarriedOn == carried["window"]

\* _publish and _on_finished.
Completed ==
  /\ stage["window"] = "measured" /\ (quick["window"] \/ routing # "unread")
  /\ LET net == IF quick["window"] THEN CarriedOn ELSE {NetworkRead} IN
       /\ network' = IF net = {} THEN network ELSE net
       /\ shown' = {[quick |-> quick["window"], inventory |-> cim["window"],
                     load |-> load["window"], network |-> net,
                     warned |-> warned["window"], during |-> during["window"],
                     before |-> UNION {s.network : s \in shown}]}
  /\ Idle("window") /\ routing' = "unread" /\ router' = "none"
  /\ UNCHANGED <<machine, cache, changes, scans>>

\* An error in the analysis: what was shown stays.
Failed ==
  /\ stage["window"] = "measured" /\ (quick["window"] \/ routing # "unread")
  /\ Idle("window") /\ routing' = "unread" /\ router' = "none"
  /\ UNCHANGED <<machine, cache, network, shown, changes, scans>>

Remeasured ==
  /\ stage["optimizer"] = "measured" /\ Idle("optimizer")
  /\ UNCHANGED <<machine, cache, network, pings, shown, changes, scans>>

\* A drive is plugged in, a game started, a VPN switched on.
MachineMoves ==
  /\ changes < MaxChanges /\ changes' = changes + 1
  /\ \/ \E h \in Drives \ {machine.hardware} : machine' = [machine EXCEPT !.hardware = h]
     \/ \E l \in Loads \ {machine.load} : machine' = [machine EXCEPT !.load = l]
     \/ \E l \in Links \ {machine.link} : machine' = [machine EXCEPT !.link = l]
  /\ during' = [w \in Scanners |-> IF stage[w] = "idle" THEN {} ELSE during[w] \cup {machine'}]
  /\ UNCHANGED <<cache, network, scanner, pings, shown, scans>>

ScanNext ==
  \/ Start \/ Refresh \/ Remeasure
  \/ \E w \in Scanners : Reuse(w) \/ Fetch(w) \/ Keep(w) \/ Probe(w)
  \/ Route \/ Ping \/ Completed \/ Failed \/ Remeasured \/ MachineMoves

ScanSpec == ScanInit /\ [][ScanNext]_scanVars

-----------------------------------------------------------------------------
Seen(s, what) == {m[what] : m \in s.during}

\* "A refreshed snapshot never shows a stale number as if it had just been taken":
\* a live value that is shown was found during its scan, and after a full scan so
\* were the drives, whatever the optimizer did to the cache meanwhile, or they are
\* shown as unknown; that there is no inventory at all is said in a warning.
InventoryHonest ==
  \A s \in shown :
    /\ s.load \in Seen(s, "load") \cup {Unknown}
    /\ s.inventory = {} => "inventory" \in s.warned
    /\ s.quick \/ s.inventory \subseteq Seen(s, "hardware") \cup {Unknown}

\* A refresh shows the network "exactly as the dashboard has been displaying it"; a
\* full scan one it read itself.  That never times a tunnel as the local network,
\* unless the machine was rerouted in the middle of it, or the adapter that traffic
\* to the router takes was not read: then it counts as the network card.
NetworkHonest ==
  \A s \in shown :
    IF s.quick THEN s.network = s.before
    ELSE \A n \in s.network :
           /\ IF n.routing = "way unread" THEN Seen(s, "link") \cap {"direct", "tunnel"} # {}
              ELSE n.routing \in Seen(s, "link") \cup {"unreadable"}
           /\ n.router = "tunnel" => n.routing = "way unread" \/ Cardinality(Seen(s, "link")) > 1
===============================================================================
