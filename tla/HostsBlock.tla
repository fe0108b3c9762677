------------------------------- MODULE HostsBlock -------------------------------
(***************************************************************************)
(* The block of entries PGM owns in the hosts file, and the tweak that puts *)
(* two names of one game into it.  Everything outside the two markers       *)
(* belongs to others, who edit the file as well.                            *)
(***************************************************************************)
EXTENDS TweakStudy

CONSTANTS
  Names,      \* host names an entry of the block can have
  DotaHosts,  \* those the tweak blocks
  Lines,      \* the entries of other programs
  Blocks,     \* the name another program's entry blocks
  NoBlock,    \* the file has no begin marker
  NoText,     \* nothing is read
  TornWrites, \* may a write empty the file and then fail?
  HostsRaced  \* bound: may others edit the file between its reading and its writing?

HostsAssumption ==
  /\ DotaHosts \subseteq Names /\ Blocks \in [Lines -> Names]
  /\ TornWrites \in BOOLEAN /\ HostsRaced \in BOOLEAN

VARIABLES
  file,     \* the lines before and after the block, and the block
  text      \* what set_block read of it, until it is written

hostsVars == <<file, text, plan, row, others, faults, steps>>

\* `ended` is FALSE when somebody took our end marker away.
File == [before : SUBSET Lines, block : (SUBSET Names) \cup {NoBlock},
         ended : BOOLEAN, after : SUBSET Lines]

HostsTypeOK ==
  /\ file \in File /\ text \in File \cup {NoText} /\ plan \in SUBSET Names /\ row \in (SUBSET Names) \cup {NoRow}
  /\ at \in Reached /\ said \in Answers
  /\ others \in 0..MaxOthers /\ faults \in 0..MaxFaults

HostsInit ==
  /\ StepsInit
  /\ \E l \in SUBSET Lines, b \in {NoBlock, {}} \cup {{n} : n \in Names} :
       file = [before |-> l, block |-> b, ended |-> TRUE, after |-> {}]
  /\ text = NoText /\ plan = {} /\ row = NoRow /\ Undisturbed

-----------------------------------------------------------------------------
(* hosts.py.                                                                *)

\* Around our markers.  A begin without an end: everything behind it is ours.
Around(f) ==
  [before |-> f.before,
   after |-> IF f.block = NoBlock \/ f.ended THEN f.after ELSE {},
   ours |-> (IF f.block = NoBlock THEN {} ELSE f.block) \cup
            (IF f.block = NoBlock \/ f.ended THEN {}
             ELSE {Blocks[l] : l \in f.after})]

Split == Around(file)
BlockedHosts == Split.ours

\* Our block replaced, or removed when the list is empty; the others' lines put
\* around it as they were when the file was read.
Rebuilt(names) ==
  LET read == Around(text)
      all == read.before \cup read.after
  IN  IF names = {}
        THEN [before |-> all, block |-> NoBlock, ended |-> TRUE, after |-> {}]
        ELSE [before |-> read.before, block |-> names, ended |-> TRUE, after |-> read.after]

Emptied == [before |-> {}, block |-> NoBlock, ended |-> TRUE, after |-> {}]

\* set_block reads the whole file first.
ReadText ==
  /\ at \in {"backed", "rollback", "kept"} /\ text = NoText /\ text' = file
  /\ UNCHANGED <<file, plan, row, others, faults, steps>>

\* Then the file is opened for writing, and so emptied, and written.
SetBlock(names, ok) ==
  /\ text # NoText /\ text' = NoText
  /\ \/ ok /\ file' = Rebuilt(names)
     \/ ~ok /\ file' \in {file} \cup (IF TornWrites THEN {Emptied} ELSE {})

-----------------------------------------------------------------------------
(* The tweak.                                                               *)

Missing == DotaHosts \ BlockedHosts

HostsScan ==
  /\ Missing # {} /\ PlanStep
  /\ plan' = BlockedHosts /\ row' = NoRow
  /\ UNCHANGED <<file, text, others, faults>>

HostsDrift ==
  /\ StandDown
  /\ \/ BlockedHosts # plan /\ NoFault
     \/ BlockedHosts = plan /\ Fault
  /\ plan' = {} /\ UNCHANGED <<file, text, row, others>>

\* The block's contents, not the whole file.
HostsBackup ==
  /\ BlockedHosts = plan /\ BackupStep /\ row' = plan
  /\ UNCHANGED <<file, text, plan, others, faults>>

\* What the block has is kept in it; a block that could not be read has nothing.
HostsApply ==
  /\ at = "backed"
  /\ \E ok, readable \in BOOLEAN :
       /\ SetBlock((IF readable THEN Around(text).ours ELSE {}) \cup DotaHosts, ok)
       /\ ApplyStep(ok)
       /\ IF ok /\ readable THEN NoFault ELSE Fault
  /\ UNCHANGED <<plan, row, others>>

HostsVerify ==
  /\ \/ VerifyStep(Missing = {}) /\ NoFault
     \/ VerifyStep(FALSE) /\ Fault
  /\ UNCHANGED <<file, text, plan, row, others>>

\* Then the file is read again: our block must not hold the names any more.
\* A block that held one of them before counts as not restored.
HostsRollback ==
  /\ at \in {"rollback", "kept"}
  /\ \E ok, readable \in BOOLEAN :
       /\ SetBlock(row, ok)
       /\ RollbackStep(ok /\ readable /\ row \cap DotaHosts = {})
       /\ IF ok /\ readable THEN NoFault ELSE Fault
  /\ UNCHANGED <<plan, row, others>>

-----------------------------------------------------------------------------
\* Others edit the file while the program is not in the middle of a change.
Edit == OtherStep /\ IF text = NoText THEN Calm ELSE HostsRaced

\* An ad blocker, an agent, a person with Notepad, outside our block.
OtherEdits ==
  /\ Edit
  /\ \E l \in Lines, place \in {"before", "after"} :
       file' = [file EXCEPT ![place] = IF l \in @ THEN @ \ {l} ELSE @ \cup {l}]
  /\ UNCHANGED <<text, plan, row, faults, steps>>

\* Somebody edits inside our block: an entry, or the end marker.
OtherEditsBlock ==
  /\ Edit /\ file.block # NoBlock
  /\ \/ \E n \in Names : file' = [file EXCEPT !.block =
          IF n \in @ THEN @ \ {n} ELSE @ \cup {n}]
     \/ file' = [file EXCEPT !.ended = FALSE]
  /\ UNCHANGED <<text, plan, row, faults, steps>>

HostsNext ==
  \/ HostsScan \/ HostsDrift \/ HostsBackup \/ ReadText \/ HostsApply \/ HostsVerify \/ HostsRollback
  \/ OtherEdits \/ OtherEditsBlock

HostsSpec == HostsInit /\ [][HostsNext]_hostsVars
-----------------------------------------------------------------------------
\* "Leaves every other byte where it was": the entries outside our markers
\* survive whatever the tweak writes, as long as nobody adds one between its
\* reading and its writing of the file (HostsRaced).
OthersEntriesKept ==
  others' = others => Split'.before \cup Split'.after = Split.before \cup Split.after
===============================================================================
