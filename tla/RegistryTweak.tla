----------------------------- MODULE RegistryTweak -----------------------------
(***************************************************************************)
(* A tweak of one registry value, through the one class that writes the     *)
(* registry.  The value may be a string of flag=value pairs that several    *)
(* Settings pages share, of which the tweak wants one pair changed.  A      *)
(* value may be missing, which is not the same as being empty, and may be   *)
(* of a kind PGM cannot write back.                                         *)
(***************************************************************************)
EXTENDS TweakStudy

CONSTANTS
  Flags,      \* the pairs of the string; one for a value that is not shared
  Mine,       \* the pair this tweak is about
  Values,     \* what a pair can hold
  Unset,      \* a pair that is not in the string
  Wanted,     \* the value of the chosen option
  Kinds,      \* the registry types the value may be found with
  Writable,   \* those PGM can write
  Kind,       \* the type the tweak writes
  Absent,     \* there is no such value
  Refused,    \* the key is not one a tweak may write to
  PairsUnderRow \* bound: may others change their pairs while a change is in place?

RegistryAssumption ==
  /\ Mine \in Flags /\ Wanted \in Values /\ Unset \notin Values
  /\ Kind \in Writable /\ Writable \subseteq Kinds /\ Refused \in BOOLEAN
  /\ PairsUnderRow \in BOOLEAN

Data == [Flags -> Values \cup {Unset}]
Present == [data : Data, kind : Kinds]

VARIABLE value    \* what the registry holds

vars == <<value, plan, row, others, faults, steps>>
\* The plan: what the scan saw and what it would write.
NoPlan == [seen |-> Absent, desired |-> Absent]

TypeOK ==
  /\ value \in Present \cup {Absent}
  /\ plan \in [seen : Data \cup {Absent}, desired : Data \cup {Absent}]
  /\ row \in Present \cup {Absent, NoRow}
  /\ at \in Reached /\ said \in Answers
  /\ others \in 0..MaxOthers /\ faults \in 0..MaxFaults

Init ==
  /\ StepsInit /\ value \in Present \cup {Absent}
  /\ plan = NoPlan /\ row = NoRow /\ Undisturbed

-----------------------------------------------------------------------------
(* RegistryManager.                                                         *)

\* read: the data, or that there is none.
Observed == IF value = Absent THEN Absent ELSE value.data

Writes(kind) == ~Refused /\ kind \in Writable

\* write, which creates the key if it has to; refused kinds and keys raise.
WriteValue(data, kind, ok) ==
  /\ ok => Writes(kind)
  /\ value' = IF ok THEN [data |-> data, kind |-> kind] ELSE value

\* delete_value: nothing to delete is fine.
DeleteValue(ok) ==
  /\ ok => ~Refused
  /\ value' = IF ok THEN Absent ELSE value

-----------------------------------------------------------------------------
Nothing == [f \in Flags |-> Unset]

\* Mutant: the string is replaced by the tweak's own pair.
OnlyOwnPair(data) == [Nothing EXCEPT ![Mine] = Wanted]

\* The string with the tweak's own pair replaced or added, the rest untouched.
WithFlag(data) == [(IF data = Absent THEN Nothing ELSE data) EXCEPT ![Mine] = Wanted]

\* The fresh scan merges into what is there now, and compares with the plan.
SameAsPlanned ==
  /\ Observed = plan.seen
  /\ WithFlag(Observed) = plan.desired

-----------------------------------------------------------------------------
Scan ==
  /\ WithFlag(Observed) # Observed
  /\ PlanStep /\ row' = NoRow
  /\ plan' = [seen |-> Observed, desired |-> WithFlag(Observed)]
  /\ UNCHANGED <<value, others, faults>>

\* The value moved, or cannot be read.
Drift ==
  /\ StandDown
  /\ \/ ~SameAsPlanned /\ NoFault
     \/ SameAsPlanned /\ Fault
  /\ plan' = NoPlan /\ UNCHANGED <<value, row, others>>

\* The backup reads the value again, with its type.
Backup ==
  /\ SameAsPlanned /\ BackupStep /\ row' = value
  /\ UNCHANGED <<value, plan, others, faults>>

Apply ==
  /\ at = "backed"
  /\ \E ok \in BOOLEAN :
       /\ WriteValue(plan.desired, Kind, ok) /\ ApplyStep(ok)
       /\ IF ok \/ ~Writes(Kind) THEN NoFault ELSE Fault
  /\ UNCHANGED <<plan, row, others>>

Verify ==
  /\ \/ VerifyStep(Observed = plan.desired) /\ NoFault
     \/ VerifyStep(FALSE) /\ Fault
  /\ UNCHANGED <<value, plan, row, others>>

\* The row holds something PGM can put back.
Restorable == IF row = Absent THEN ~Refused ELSE Writes(row.kind)

\* A value that was not there is deleted, never written back as zero; then the
\* result is read back.
Rollback ==
  /\ at \in {"rollback", "kept"}
  /\ \E ok, readable \in BOOLEAN :
       /\ IF row = Absent THEN DeleteValue(ok) ELSE WriteValue(row.data, row.kind, ok)
       /\ RollbackStep(ok /\ readable)
       /\ IF readable /\ (ok \/ ~Restorable) THEN NoFault ELSE Fault
  /\ UNCHANGED <<plan, row, others>>

\* What a pair holds: one of a string that is not there is not set.
PairOf(v, f) == IF v = Absent THEN Unset ELSE v.data[f]
SameOtherPairs(v, w) == \A f \in Flags \ {Mine} : PairOf(v, f) = PairOf(w, f)

\* The player's Settings page, a game, an update.
OtherSets ==
  /\ Other
  /\ value' \in Present \cup {Absent}
  /\ at \in {"written", "kept"} /\ ~PairsUnderRow => SameOtherPairs(value', value)
  /\ UNCHANGED <<plan, row, faults, steps>>

Next ==
  \/ Scan \/ Drift \/ Backup \/ Apply \/ Verify \/ Rollback \/ OtherSets

Spec == Init /\ [][Next]_vars
-----------------------------------------------------------------------------
\* "Rewrites only its own pair and keeps the rest byte for byte": no step of the
\* program, the undo included, changes what the pairs of other pages hold.  The
\* undo writes the whole string of the row back, so this is so only while others
\* leave their pairs alone until then (PairsUnderRow).
OthersPairsKept == others' = others => SameOtherPairs(value', value)
===============================================================================
