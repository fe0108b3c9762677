-------------------------------- MODULE Scoring --------------------------------
(***************************************************************************)
(* What is made of a scan: the score, an average over what could be read,   *)
(* and the findings.  A machine is measured, one thing about it changes, or *)
(* can no longer be read, and it is measured again.                         *)
(*                                                                         *)
(* Scores of a component are in quarters of a point, 0 to 400.              *)
(***************************************************************************)
EXTENDS Integers, Sequences

CONSTANTS Groups   \* the sets of readings that vary together, all others being Usual

\* What may be read, from the worst to the best: percents, gigabytes, counts,
\* megabits and milliseconds; monitors by how many of two run below their best.
\* A reading is the place of its value in this list, and NotRead without one.
Grades ==
  [cpu |-> <<96, 80, 40, 0>>, ram |-> <<95, 85, 60, 40>>,
   free |-> <<3, 8, 15, 25>>, media |-> <<"HDD", "SSD">>, smart |-> <<"bad", "good">>,
   vram |-> <<4, 8>>, temperature |-> <<"critical", "warning", "fine">>,
   throttling |-> <<"thermal", "power", "none">>,
   below |-> <<2, 1, 0>>, warnings |-> <<5, 2, 0>>,
   kind |-> <<"WIRELESS", "WIRED">>, speed |-> <<100, 1000>>, duplex |-> <<"half", "full">>,
   path |-> <<"none", "tunnel", "card">>, gateway |-> <<"none", "there">>,
   router |-> <<"untrusted", "silent", "replies">>,
   router_loss |-> <<40, 4, 0>>, router_delay |-> <<30, 2>>,
   internet |-> <<"untrusted", "silent", "replies">>,
   loss |-> <<40, 4, 0>>, jitter |-> <<30, 3>>, delay |-> <<200, 20>>]

NotRead == 0
Readings == DOMAIN Grades
\* Always read: the count of warnings, what the driver says of its clocks, and
\* whether anything is there to send to.
AlwaysRead == {"warnings", "throttling", "path", "gateway"}

\* Those that f can have.
ReadingsOf(f) == (IF f \in AlwaysRead THEN {} ELSE {NotRead}) \cup 1..Len(Grades[f])

Usual == [f \in Readings |-> IF f = "ram" THEN 3 ELSE Len(Grades[f])]

Is(s, f, value) == s[f] # NotRead /\ Grades[f][s[f]] = value
Value(s, f) == Grades[f][s[f]]

\* NetworkScanner.scan: a gateway is that of an adapter, and nothing is sent where
\* there is no gateway, or no route.  HardwareScanner.scan: a load that cannot be
\* read is a warning; free space or video memory that cannot be read is not.
Measured(s) ==
  LET there == IF s["kind"] = NotRead THEN [s EXCEPT !["gateway"] = 1] ELSE s
      silent == s["cpu"] # NotRead /\ s["ram"] # NotRead IN
  [f \in Readings |->
    IF \/ f = "internet" /\ Is(there, "path", "none")
       \/ f = "router" /\ Is(there, "gateway", "none")
    THEN NotRead
    ELSE IF f = "warnings" /\ Is(there, f, 0) /\ ~silent THEN there[f] - 1
    ELSE there[f]]

VARIABLES
  studied,  \* the readings that vary
  before,   \* the readings of one scan
  after     \* of the next, {} before it

scoreVars == <<studied, before, after>>

ScoringAssumption == \A group \in Groups : group \subseteq Readings

ScoreInit ==
  /\ studied \in Groups
  /\ before \in {Measured([f \in Readings |-> IF f \in studied THEN v[f] ELSE Usual[f]]) :
       v \in {w \in [studied -> 0..4] : \A f \in studied : w[f] \in ReadingsOf(f)}}
  /\ after = {}

-----------------------------------------------------------------------------
(* The components.                                                          *)

Clamp(q) == IF q < 0 THEN 0 ELSE IF q > 400 THEN 400 ELSE q
AtMost(q, cap) == IF q > cap THEN cap ELSE q

ScoreCpu(s) == Clamp(400 - 5 * Value(s, "cpu"))
ScoreRam(s) == Clamp(400 - 8 * (Value(s, "ram") - 40))

\* Mutant: a mechanical disk is worth sixty points instead of at most sixty.
HddFlat(q, hdd) == IF hdd THEN 240 ELSE q

HddCapped(q, hdd) == IF hdd THEN AtMost(q, 240) ELSE q

ScoreStorage(s) ==
  IF Is(s, "smart", "bad") THEN 0
  ELSE HddCapped(Clamp(20 * (Value(s, "free") - 5)), Is(s, "media", "HDD"))

ScoreDisplay(s) == IF s["below"] = NotRead THEN 400 ELSE Clamp(400 - 200 * Value(s, "below"))

Heat(s) == CASE Is(s, "temperature", "critical") -> 80
             [] Is(s, "temperature", "warning") -> 240
             [] OTHER -> 400
Throttle(s) == CASE Is(s, "throttling", "thermal") -> 100
                 [] Is(s, "throttling", "power") -> 280
                 [] OTHER -> 400
ScoreGpu(s) == AtMost(AtMost(Clamp(50 * Value(s, "vram")), Heat(s)), Throttle(s))

ScoreSystem(s) == Clamp(400 - 100 * Value(s, "warnings"))

Uplink(s) == s["kind"] # NotRead
Connected(s) == Uplink(s) \/ ~Is(s, "path", "none")
SlowCable(s) == Is(s, "kind", "WIRED") /\ Is(s, "speed", 100)
Trusted(s, ping) == Is(s, ping, "replies")

Positive(q) == IF q < 0 THEN 0 ELSE q
Penalty(s, f, free, each, cap) ==
  IF s[f] = NotRead THEN 0 ELSE AtMost(each * Positive(Value(s, f) - free), cap)

\* A ping that cannot be trusted, or is not answered, counts neither way.
ScoreNetwork(s) ==
  IF ~Connected(s) THEN 0
  ELSE Clamp(400
    - (IF Is(s, "kind", "WIRELESS") \/ SlowCable(s) THEN 80 ELSE 0)
    - (IF Uplink(s) /\ Is(s, "duplex", "half") THEN 80 ELSE 0)
    - (IF Trusted(s, "router") THEN Penalty(s, "router_loss", 0, 12, 240) ELSE 0)
    - (IF Trusted(s, "internet")
       THEN Penalty(s, "loss", 0, 12, 240) + Penalty(s, "jitter", 5, 8, 120)
            + Penalty(s, "delay", 50, 2, 120)
       ELSE 0))

Weight ==
  [gpu |-> 25, cpu |-> 20, network |-> 15, ram |-> 10, storage |-> 10, display |-> 10,
   system |-> 10]

Components == DOMAIN Weight
Sum(part) ==
  part["gpu"] + part["cpu"] + part["network"] + part["ram"] + part["storage"]
  + part["display"] + part["system"]

\* Those that could be measured.
Usable(s) ==
  {c \in Components :
     CASE c \in {"cpu", "ram"} -> s[c] # NotRead
       [] c = "storage" -> s["free"] # NotRead
       [] c = "gpu" -> s["vram"] # NotRead
       [] c = "network" ->
            ~Connected(s) \/ Uplink(s) \/ Trusted(s, "router") \/ Trusted(s, "internet")
       [] OTHER -> TRUE}

Score(s, c) ==
  CASE c = "cpu" -> ScoreCpu(s)
    [] c = "ram" -> ScoreRam(s)
    [] c = "storage" -> ScoreStorage(s)
    [] c = "gpu" -> ScoreGpu(s)
    [] c = "display" -> ScoreDisplay(s)
    [] c = "network" -> ScoreNetwork(s)
    [] OTHER -> ScoreSystem(s)

\* compute_score: what could not be read is left out, and the rest scaled up; the
\* value is Points over Weights.
Points(s) == Sum([c \in Components |-> IF c \in Usable(s) THEN Weight[c] * Score(s, c) ELSE 0])
Weights(s) == Sum([c \in Components |-> IF c \in Usable(s) THEN Weight[c] ELSE 0])

\* Is the value of t above that of s?
Above(t, s) ==
  Points(t) * Weights(s) > Points(s) * Weights(t)

-----------------------------------------------------------------------------
(* The findings.                                                            *)

\* Mutant: free space that cannot be read is none.
UnreadIsFull(s) == s["free"] = NotRead \/ Value(s, "free") <= 15

LowSpace(s) == s["free"] # NotRead /\ Value(s, "free") <= 15

Over(s, f, limit) == s[f] # NotRead /\ Value(s, f) > limit

HardwareIssues(s) ==
  {i \in {"temperature", "throttling", "low_free_space", "smart_unhealthy",
          "below_max_refresh", "high_usage", "scan_warning"} :
     CASE i = "temperature" -> Is(s, i, "critical") \/ Is(s, i, "warning")
       [] i = "throttling" -> ~Is(s, i, "none")
       [] i = "low_free_space" -> LowSpace(s)
       [] i = "smart_unhealthy" -> Is(s, "smart", "bad")
       [] i = "below_max_refresh" -> Over(s, "below", 0)
       [] i = "scan_warning" -> Over(s, "warnings", 0)
       [] OTHER -> Over(s, "ram", 84)}

RouterLimit(s) == IF Is(s, "kind", "WIRED") THEN 5 ELSE 20

ConnectionIssues(s) ==
  {i \in {"no_default_route", "wireless", "link_speed", "half_duplex", "gateway_loss",
          "gateway_latency", "internet_unreachable", "internet_loss",
          "internet_jitter", "internet_latency", "tunnelled"} :
     CASE i = "no_default_route" -> Is(s, "path", "none") /\ Is(s, "gateway", "none")
       [] i = "tunnelled" -> Is(s, "path", "tunnel")
       [] i = "wireless" -> Is(s, "kind", "WIRELESS")
       [] i = "link_speed" -> SlowCable(s)
       [] i = "half_duplex" -> Is(s, "kind", "WIRED") /\ Is(s, "duplex", "half")
       [] i = "gateway_loss" -> Trusted(s, "router") /\ Over(s, "router_loss", 0)
       [] i = "gateway_latency" ->
            Trusted(s, "router") /\ Uplink(s) /\ Over(s, "router_delay", RouterLimit(s))
       [] i = "internet_unreachable" -> Is(s, "internet", "silent")
       [] i = "internet_loss" -> Trusted(s, "internet") /\ Over(s, "loss", 4)
       [] i = "internet_jitter" -> Trusted(s, "internet") /\ Over(s, "jitter", 15)
       [] OTHER -> Trusted(s, "internet") /\ Over(s, "delay", 100)}

NetworkIssues(s) == IF ~Connected(s) THEN {"disconnected"} ELSE ConnectionIssues(s)

Issues(s) == HardwareIssues(s) \cup NetworkIssues(s)

-----------------------------------------------------------------------------
\* One reading is different, or cannot be taken, in the next scan.
MeasureAgain ==
  /\ after = {}
  /\ \E f \in Readings : \E v \in ReadingsOf(f) : after' = {Measured([before EXCEPT ![f] = v])}
  /\ UNCHANGED <<studied, before>>

ScoreNext == MeasureAgain
ScoreSpec == ScoreInit /\ [][ScoreNext]_scoreVars

-----------------------------------------------------------------------------
OnlyLost(s, t) == \A f \in Readings \ {"warnings"} : t[f] \in {s[f], NotRead}
SameRead(s, t) == \A f \in Readings : (s[f] = NotRead) = (t[f] = NotRead)
Better(s, t) == \A f \in Readings : t[f] >= s[f]

Pings == {"router", "internet"}

\* "Absence of data is not evidence of a problem": when a reading can no longer be
\* taken, the adapter itself apart, no finding appears that was not there, but for
\* the one that says it could not be read.
AbsenceNoEvidence ==
  \A t \in after :
    OnlyLost(before, t) /\ before["kind"] = t["kind"] =>
      Issues(t) \subseteq Issues(before) \cup {"scan_warning"}

\* Where the same things could be read, a machine that is better in one of them
\* and worse in none is not scored lower, whatever caps and penalties meet; pings
\* that are answered where they were not are not the same things.
ScoreMonotone ==
  \A t \in after :
    SameRead(before, t) /\ Better(before, t) /\ (\A p \in Pings : before[p] = t[p]) =>
      ~Above(before, t)
===============================================================================
