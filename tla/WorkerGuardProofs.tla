-------------------------- MODULE WorkerGuardProofs --------------------------
(***************************************************************************)
(* Proofs about WorkerGuard, for any number of controllers, in any order   *)
(* of shutting down, and any number of jobs.                               *)
(***************************************************************************)
EXTENDS WorkerGuard, SequenceTheorems, TLAPS

\* The runners are told apart by name.
LEMMA RunnerNames ==
  /\ PlainOrder \in Seq(Plain)
  /\ {"scan", "system", "monitor"} \subseteq Runners
  /\ Flagged \subseteq Runners /\ Writers \subseteq Runners
  /\ "system" \notin Writers /\ "monitor" \notin Flagged /\ "scan" \notin Flagged
  /\ "system" \in Flagged /\ Writers \subseteq Flagged
  /\ MaxJobs \in Nat \ {0} /\ MonitorFails \in BOOLEAN
<1>1. PlainOrder \in Seq(STRING)
  BY RunnersAssumption
<1>2. \A i \in 1..Len(PlainOrder) : PlainOrder[i] \in Plain
  BY <1>1 DEF Plain, ToSet
<1>3. PlainOrder \in Seq(Plain)
  BY <1>1, <1>2
<1>4. QED
  BY <1>3, RunnersAssumption DEF Runners, Special, Flagged

-----------------------------------------------------------------------------
(* Types: the values of every variable, the inbox apart.                    *)

ValuesOK ==
  /\ phase \in [Runners -> {"none", "running", "returned"}]
  /\ job \in [Runners -> {"none", "other", "write"}]
  /\ serial \in [Runners -> 0..MaxJobs]
  /\ inbox \in Seq(Completion)
  /\ flag \in [Flagged -> BOOLEAN] /\ stop \in BOOLEAN
  /\ window \in {"open", "closing", "closed", "aborted"}
  /\ left \in Seq(Runners \cup {"stop"})

LEMMA ValuesInit == Init => ValuesOK
<1> SUFFICES ASSUME Init PROVE ValuesOK
  OBVIOUS
<1>1. serial \in [Runners -> 0..MaxJobs]
  BY RunnerNames DEF Init
<1>2. inbox \in Seq(Completion) /\ left \in Seq(Runners \cup {"stop"})
  BY DEF Init
<1>3. QED
  BY <1>1, <1>2 DEF Init, ValuesOK

LEMMA ValuesStep == ValuesOK /\ [Next]_vars => ValuesOK'
<1> SUFFICES ASSUME ValuesOK, [Next]_vars PROVE ValuesOK'
  OBVIOUS
<1>1. CASE UNCHANGED vars
  BY <1>1 DEF vars, closing, ValuesOK
<1>2. ASSUME NEW r \in Runners, NEW kind \in {"other", "write"}, Begin(r, kind)
      PROVE  /\ phase' \in [Runners -> {"none", "running", "returned"}]
             /\ job' \in [Runners -> {"none", "other", "write"}]
             /\ serial' \in [Runners -> 0..MaxJobs]
  BY <1>2, RunnerNames DEF Begin, ValuesOK
<1>3. ASSUME NEW r \in Runners, StartOther(r) PROVE ValuesOK'
  BY <1>2, <1>3 DEF StartOther, closing, ValuesOK
<1>4. ASSUME NEW c \in Writers, StartWrite(c) PROVE ValuesOK'
  <2>1. c \in Runners /\ c \in Flagged /\ Begin(c, "write")
    BY <1>4, RunnerNames DEF StartWrite
  <2>2. QED
    BY <1>2, <1>4, <2>1 DEF StartWrite, FlagWhenStarted, closing, ValuesOK
<1>5. CASE SystemWrite
  BY <1>2, <1>5, RunnerNames DEF SystemWrite, FlagWhenStarted, closing, ValuesOK
<1>6. CASE StartMonitor
  BY <1>2, <1>6, RunnerNames DEF StartMonitor, closing, ValuesOK
<1>7. ASSUME NEW r \in Runners, JobReturns(r) PROVE ValuesOK'
  <2>1. PICK ok \in BOOLEAN : inbox' = Append(inbox, [runner |-> r, serial |-> serial[r], ok |-> ok])
    BY <1>7 DEF JobReturns
  <2>2. [runner |-> r, serial |-> serial[r], ok |-> ok] \in Completion
    BY DEF Completion, ValuesOK
  <2>3. inbox' \in Seq(Completion)
    BY <2>1, <2>2 DEF ValuesOK
  <2>4. QED
    BY <1>7, <2>3 DEF JobReturns, closing, ValuesOK
<1>8. CASE Deliver
  <2>1. inbox' \in Seq(Completion)
    BY <1>8, HeadTailProperties DEF Deliver, ValuesOK
  <2>2. flag' \in [Flagged -> BOOLEAN]
    BY <1>8 DEF Deliver, FlagsAfter, FlagAfterFailure, ValuesOK
  <2>3. QED
    BY <1>8, <2>1, <2>2 DEF Deliver, closing, ValuesOK
<1>9. CASE StopMonitor \/ Closed \/ DropScan
  BY <1>9 DEF StopMonitor, Closed, DropScan, closing, ValuesOK
<1>10. CASE CloseEvent
  <2>1. <<"scan">> \o PlainOrder \o SystemShutdown \in Seq(Runners \cup {"stop"})
    <3>1. PlainOrder \in Seq(Runners \cup {"stop"})
      BY RunnerNames DEF Runners
    <3>2. <<"scan">> \in Seq(Runners \cup {"stop"}) /\ SystemShutdown \in Seq(Runners \cup {"stop"})
      BY RunnerNames DEF SystemShutdown
    <3>3. QED
      BY <3>1, <3>2, ConcatProperties
  <2>2. QED
    BY <1>10, <2>1 DEF CloseEvent, ValuesOK
<1>11. CASE TellMonitor \/ Join
  <2>1. left' \in Seq(Runners \cup {"stop"})
    <3>1. left # << >> /\ left' = Tail(left) /\ left \in Seq(Runners \cup {"stop"})
      BY <1>11 DEF TellMonitor, Join, ValuesOK
    <3>2. QED
      BY <3>1, HeadTailProperties
  <2>2. QED
    BY <1>11, <2>1 DEF TellMonitor, Join, ValuesOK
<1>12. QED
  BY <1>1, <1>3, <1>4, <1>5, <1>6, <1>7, <1>8, <1>9, <1>10, <1>11 DEF Next

-----------------------------------------------------------------------------
(* Completions: which of them may wait for which runner.                    *)

\* While the window is open, a completion that waits is that of its runner's one job,
\* which has returned; so no runner can be started under it.
Waiting(i) ==
  LET e == inbox[i] IN
  /\ \/ phase[e.runner] = "none"
     \/ phase[e.runner] = "returned" /\ e.serial = serial[e.runner]
  /\ window = "open" => phase[e.runner] = "returned"

InboxInv ==
  /\ \A i \in DOMAIN inbox : Waiting(i)
  /\ \A i, j \in DOMAIN inbox : inbox[i].runner = inbox[j].runner => i = j

LEMMA InboxRunner ==
  ASSUME ValuesOK, NEW i \in DOMAIN inbox
  PROVE  inbox[i] \in Completion /\ inbox[i].runner \in Runners
<1>1. inbox[i] \in Completion
  BY DEF ValuesOK
<1>2. QED
  BY <1>1 DEF Completion

LEMMA InboxInit == Init => InboxInv
BY DEF Init, InboxInv

\* Starting a runner that is free leaves the completions of the others alone.
LEMMA BeginInbox ==
  ASSUME ValuesOK, InboxInv, NEW r \in Runners, NEW kind \in {"other", "write"},
         ~Busy(r), Begin(r, kind), window = "open", UNCHANGED <<inbox, window>>
  PROVE  InboxInv'
<1>1. \A i \in DOMAIN inbox : inbox[i].runner \in Runners /\ inbox[i].runner # r
  BY InboxRunner DEF InboxInv, Waiting, Busy
<1>2. \A i \in DOMAIN inbox :
        LET s == inbox[i].runner IN phase'[s] = phase[s] /\ serial'[s] = serial[s]
  BY <1>1 DEF Begin, ValuesOK
<1>3. QED
  BY <1>2 DEF InboxInv, Waiting

\* A job that returns is a running one, so no completion of its runner waits yet.
LEMMA ReturnInbox ==
  ASSUME ValuesOK, InboxInv, NEW r \in Runners, JobReturns(r)
  PROVE  InboxInv'
<1>1. PICK ok \in BOOLEAN : inbox' = Append(inbox, [runner |-> r, serial |-> serial[r], ok |-> ok])
  BY DEF JobReturns
<1> DEFINE e == [runner |-> r, serial |-> serial[r], ok |-> ok]
<1>2. /\ e \in Completion /\ inbox \in Seq(Completion)
      /\ DOMAIN inbox = 1..Len(inbox) /\ Len(inbox) \in Nat
  BY DEF Completion, ValuesOK
<1>3. /\ DOMAIN inbox' = 1..(Len(inbox) + 1)
      /\ \A i \in 1..Len(inbox) : inbox'[i] = inbox[i]
      /\ inbox'[Len(inbox) + 1] = e
  BY <1>1, <1>2
<1>4. \A i \in 1..Len(inbox) : inbox[i].runner # r
  BY <1>2 DEF InboxInv, Waiting, JobReturns
<1>5. /\ phase' = [phase EXCEPT ![r] = "returned"] /\ serial' = serial /\ window' = window
      /\ phase \in [Runners -> {"none", "running", "returned"}]
  BY DEF JobReturns, closing, ValuesOK
<1>6. ASSUME NEW i \in 1..(Len(inbox) + 1) PROVE Waiting(i)'
  <2>1. CASE i = Len(inbox) + 1
    BY <1>3, <1>5, <2>1 DEF Waiting
  <2>2. CASE i # Len(inbox) + 1
    <3>1. i \in 1..Len(inbox) /\ inbox'[i] = inbox[i] /\ Waiting(i)
      BY <1>2, <1>3, <2>2 DEF InboxInv
    <3>2. inbox[i].runner # r /\ inbox[i].runner \in Runners
      BY <1>2, <1>4, <3>1, InboxRunner
    <3>3. QED
      BY <1>5, <3>1, <3>2 DEF Waiting
  <2>3. QED
    BY <2>1, <2>2
<1>7. \A i, j \in 1..(Len(inbox) + 1) : inbox'[i].runner = inbox'[j].runner => i = j
  BY <1>2, <1>3, <1>4 DEF InboxInv
<1>8. QED
  BY <1>3, <1>6, <1>7 DEF InboxInv

\* The completion that is handled is gone, and it was the only one of its runner.
LEMMA DeliverInbox == ASSUME ValuesOK, InboxInv, Deliver PROVE InboxInv'
<1> DEFINE r == Head(inbox).runner
<1>1. /\ inbox \in Seq(Completion) /\ inbox # << >> /\ inbox' = Tail(inbox)
      /\ Len(inbox) \in Nat \ {0} /\ DOMAIN inbox = 1..Len(inbox)
  BY DEF Deliver, ValuesOK
<1>2. /\ DOMAIN inbox' = 1..(Len(inbox) - 1)
      /\ \A i \in 1..(Len(inbox) - 1) : inbox'[i] = inbox[i + 1]
      /\ Head(inbox) = inbox[1]
  BY <1>1
<1>3. \A i \in 1..(Len(inbox) - 1) : i + 1 \in DOMAIN inbox /\ inbox[i + 1].runner # r
  BY <1>1, <1>2 DEF InboxInv
<1>4. \A s \in Runners \ {r} : phase'[s] = phase[s]
  BY DEF Deliver, ValuesOK
<1>5. serial' = serial /\ window' = window
  BY DEF Deliver, closing
<1>6. ASSUME NEW i \in 1..(Len(inbox) - 1) PROVE Waiting(i)'
  <2>1. inbox'[i] = inbox[i + 1] /\ Waiting(i + 1) /\ inbox[i + 1].runner # r
    BY <1>2, <1>3 DEF InboxInv
  <2>2. inbox[i + 1].runner \in Runners
    BY <1>1, <1>3, InboxRunner
  <2>3. QED
    BY <1>4, <1>5, <2>1, <2>2 DEF Waiting
<1>7. \A i, j \in 1..(Len(inbox) - 1) : inbox'[i].runner = inbox'[j].runner => i = j
  <2> SUFFICES ASSUME NEW i \in 1..(Len(inbox) - 1), NEW j \in 1..(Len(inbox) - 1),
                      inbox'[i].runner = inbox'[j].runner
               PROVE  i = j
    OBVIOUS
  <2>1. i + 1 = j + 1
    BY <1>2, <1>3 DEF InboxInv
  <2>2. QED
    BY <2>1
<1>8. QED
  BY <1>2, <1>6, <1>7 DEF InboxInv

\* Closing joins threads, but handles no completion and starts nothing.
LEMMA CloseInbox ==
  ASSUME ValuesOK, InboxInv, window' # "open", UNCHANGED <<inbox, serial>>,
         phase' = phase \/ Join
  PROVE  InboxInv'
<1>1. \A i \in DOMAIN inbox : inbox[i].runner \in Runners
  BY InboxRunner
<1>2. ASSUME NEW i \in DOMAIN inbox
      PROVE  phase'[inbox[i].runner] \in {"none", phase[inbox[i].runner]}
  BY <1>1 DEF Join, ValuesOK
<1>3. ASSUME NEW i \in DOMAIN inbox PROVE Waiting(i)'
  BY <1>2, <1>3 DEF InboxInv, Waiting
<1>4. QED
  BY <1>3 DEF InboxInv

LEMMA InboxStep == ValuesOK /\ InboxInv /\ [Next]_vars => InboxInv'
<1> SUFFICES ASSUME ValuesOK, InboxInv, [Next]_vars PROVE InboxInv'
  OBVIOUS
<1>1. CASE UNCHANGED vars
  BY <1>1 DEF vars, closing, InboxInv, Waiting
<1>2. ASSUME NEW r \in Runners, StartOther(r) PROVE InboxInv'
  BY <1>2, BeginInbox DEF StartOther, closing
<1>3. ASSUME NEW c \in Writers, StartWrite(c) PROVE InboxInv'
  BY <1>3, BeginInbox, RunnerNames DEF StartWrite, closing
<1>4. CASE SystemWrite
  BY <1>4, BeginInbox, RunnerNames DEF SystemWrite, closing, InboxInv, Waiting
<1>5. CASE StartMonitor
  BY <1>5, BeginInbox, RunnerNames DEF StartMonitor, closing
<1>6. CASE StopMonitor
  BY <1>6 DEF StopMonitor, closing, InboxInv, Waiting
<1>7. CASE CloseEvent \/ TellMonitor \/ Join \/ DropScan \/ Closed
  BY <1>7, CloseInbox DEF CloseEvent, TellMonitor, Join, DropScan, Closed
<1>8. QED
  BY <1>1, <1>2, <1>3, <1>4, <1>5, <1>6, <1>7, ReturnInbox, DeliverInbox DEF Next

LEMMA InboxSuffices == ValuesOK /\ InboxInv => TypeOK /\ CompletionIsOwn
BY DEF ValuesOK, InboxInv, Waiting, TypeOK, CompletionIsOwn

\* Every variable holds a value of its kind, and no runner ever has two completions
\* waiting (app/controllers/background.py).
THEOREM GuardTypeCorrect == Spec => []TypeOK
BY ValuesInit, ValuesStep, InboxInit, InboxStep, InboxSuffices, PTL DEF Spec

\* A completion is handled for the job that posted it: the next job of a runner
\* cannot start before the last one's completion was handled.
THEOREM CompletionAlwaysOwn == Spec => []CompletionIsOwn
BY ValuesInit, ValuesStep, InboxInit, InboxStep, InboxSuffices, PTL DEF Spec

-----------------------------------------------------------------------------
(* The flags: what they say of the jobs while the window is open.           *)

\* A controller's flag is up only for a write of its own that is not yet answered.
FlagInv ==
  window = "open" => \A c \in Writers : flag[c] => phase[c] # "none" /\ job[c] = "write"

\* Delivering a completion changes its runner alone, and of the flags its owner's.
LEMMA DeliverOne ==
  ASSUME ValuesOK, Deliver
  PROVE  \E r \in Runners :
           /\ r = Head(inbox).runner
           /\ \A s \in Runners \ {r} : phase'[s] = phase[s] /\ job'[s] = job[s]
           /\ \A c \in Flagged \ {OwnerOf(r)} : flag'[c] = flag[c]
           /\ phase'[r] = "none"
           /\ \/ phase[r] = "none" /\ UNCHANGED <<phase, job, flag>>
              \/ phase[r] = "returned" /\ job'[r] = "none" /\ flag' = FlagsAfter(Head(inbox))
<1>1. PICK r \in Runners : r = Head(inbox).runner
  <2>1. inbox # << >> /\ inbox \in Seq(Completion)
    BY DEF Deliver, ValuesOK
  <2>2. Head(inbox) \in Completion
    BY <2>1
  <2>3. QED
    BY <2>2 DEF Completion
<1>2. \/ phase[r] = "none" /\ UNCHANGED <<phase, job, flag>>
      \/ /\ phase[r] = "returned"
         /\ phase' = [phase EXCEPT ![r] = "none"] /\ job' = [job EXCEPT ![r] = "none"]
         /\ flag' = FlagsAfter(Head(inbox))
  BY <1>1 DEF Deliver
<1>3. \A c \in Flagged \ {OwnerOf(r)} : FlagsAfter(Head(inbox))[c] = flag[c]
  BY <1>1 DEF FlagsAfter, ValuesOK
<1>4. QED
  BY <1>1, <1>2, <1>3 DEF ValuesOK

LEMMA FlagInit == Init => FlagInv
BY RunnerNames DEF Init, FlagInv

LEMMA FlagStep == ValuesOK /\ FlagInv /\ [Next]_vars => FlagInv'
<1> SUFFICES ASSUME ValuesOK, FlagInv, [Next]_vars, window' = "open",
                    NEW c \in Writers, flag'[c]
             PROVE  phase'[c] # "none" /\ job'[c] = "write"
  BY DEF FlagInv
<1> USE RunnerNames
<1>1. window = "open"
  BY DEF Next, vars, StartOther, StartWrite, SystemWrite, StartMonitor, StopMonitor, JobReturns,
     Deliver, CloseEvent, TellMonitor, Join, DropScan, Closed, closing
<1>2. flag[c] => phase[c] # "none" /\ job[c] = "write"
  BY <1>1 DEF FlagInv
<1>3. CASE UNCHANGED vars
  BY <1>2, <1>3 DEF vars
<1>4. ASSUME NEW r \in Runners, StartOther(r) PROVE phase'[c] # "none" /\ job'[c] = "write"
  BY <1>2, <1>4 DEF StartOther, Begin, Busy, ValuesOK
<1>5. ASSUME NEW d \in Writers, StartWrite(d) PROVE phase'[c] # "none" /\ job'[c] = "write"
  BY <1>2, <1>5 DEF StartWrite, Begin, ValuesOK
<1>6. CASE SystemWrite \/ StartMonitor \/ StopMonitor
  BY <1>2, <1>6 DEF SystemWrite, StartMonitor, StopMonitor, Begin, ValuesOK
<1>7. ASSUME NEW r \in Runners, JobReturns(r) PROVE phase'[c] # "none" /\ job'[c] = "write"
  BY <1>2, <1>7 DEF JobReturns, ValuesOK
<1>8. CASE Deliver
  <2>1. PICK r \in Runners :
           /\ r = Head(inbox).runner
           /\ \A s \in Runners \ {r} : phase'[s] = phase[s] /\ job'[s] = job[s]
           /\ \A d \in Flagged \ {OwnerOf(r)} : flag'[d] = flag[d]
           /\ phase'[r] = "none"
           /\ \/ phase[r] = "none" /\ UNCHANGED <<phase, job, flag>>
              \/ phase[r] = "returned" /\ job'[r] = "none" /\ flag' = FlagsAfter(Head(inbox))
    BY <1>8, DeliverOne
  <2>2. CASE r # c
    <3>1. OwnerOf(r) # c
      BY <2>2 DEF OwnerOf
    <3>2. QED
      BY <1>2, <2>1, <2>2, <3>1
  <2>3. CASE r = c
    <3>1. CASE phase[r] = "none"
      BY <1>2, <2>1, <2>3, <3>1
    <3>2. CASE phase[r] # "none"
      <4>1. flag' = FlagsAfter(Head(inbox)) /\ OwnerOf(r) = c
        BY <2>1, <2>3, <3>2 DEF OwnerOf
      <4>2. ~flag'[c]
        BY <1>2, <2>1, <2>3, <4>1 DEF FlagsAfter, FlagAfterFailure, ValuesOK
      <4>3. QED
        BY <4>2
    <3>3. QED
      BY <3>1, <3>2
  <2>4. QED
    BY <2>2, <2>3
<1>9. CASE CloseEvent \/ TellMonitor \/ Join \/ DropScan \/ Closed
  BY <1>1, <1>9 DEF CloseEvent, TellMonitor, Join, DropScan, Closed
<1>10. QED
  BY <1>3, <1>4, <1>5, <1>6, <1>7, <1>8, <1>9 DEF Next

LEMMA FlagSuffices == FlagInv => NeverUnclosable
BY RunnerNames DEF FlagInv, NeverUnclosable, Blocks, Busy, Flagged

\* No flag outlives the job it was raised for, so the window can always be closed again
\* (app/gui/dashboard.py, closeEvent), whatever fails and in whatever order.
THEOREM AlwaysClosable == Spec => []NeverUnclosable
BY ValuesInit, ValuesStep, FlagInit, FlagStep, FlagSuffices, PTL DEF Spec

-----------------------------------------------------------------------------
(* No write is cut off, as long as a load recording does not fail: a failed *)
(* one takes the flag of the system controller's own write down.            *)

\* While the window is open a write that runs has its flag up; afterwards none runs.
GuardInv ==
  /\ \A r \in Runners : job[r] = "write" => r \in Flagged
  /\ \A i \in DOMAIN inbox : inbox[i].runner = "monitor" => inbox[i].ok
  /\ window = "open" =>
       \A c \in Flagged : phase[c] # "none" /\ job[c] = "write" => flag[c]
  /\ window # "open" => \A r \in Runners : ~Writing(r)

LEMMA GuardInit == Init => GuardInv
BY RunnerNames DEF Init, GuardInv, Writing

\* No write runs when a close is accepted.
LEMMA AcceptedClose ==
  ASSUME GuardInv, CloseEvent PROVE \A r \in Runners : ~Writing(r)
BY DEF GuardInv, CloseEvent, Blocks, Busy, Writing

\* Starting a job while the window is open.
LEMMA BeginGuard ==
  ASSUME ValuesOK, GuardInv, NEW r \in Runners, NEW kind \in {"other", "write"},
         Begin(r, kind), window = "open", UNCHANGED <<inbox, window>>,
         kind = "write" => r \in Flagged /\ flag'[r],
         \A c \in Flagged : flag[c] => flag'[c]
  PROVE  GuardInv'
BY DEF Begin, GuardInv, Writing, ValuesOK

LEMMA ReturnGuard ==
  ASSUME ValuesOK, GuardInv, ~MonitorFails, NEW r \in Runners, JobReturns(r)
  PROVE  GuardInv'
<1>1. PICK ok \in BOOLEAN :
        /\ r = "monitor" => ok
        /\ inbox' = Append(inbox, [runner |-> r, serial |-> serial[r], ok |-> ok])
  BY DEF JobReturns
<1>2. \A i \in DOMAIN inbox' : inbox'[i].runner = "monitor" => inbox'[i].ok
  <2>1. inbox \in Seq(Completion)
    BY DEF ValuesOK
  <2>2. ASSUME NEW i \in DOMAIN inbox'
        PROVE  \/ i \in DOMAIN inbox /\ inbox'[i] = inbox[i]
               \/ inbox'[i] = [runner |-> r, serial |-> serial[r], ok |-> ok]
    BY <1>1, <2>1, <2>2
  <2>3. QED
    BY <1>1, <2>2 DEF GuardInv
<1>3. /\ phase' = [phase EXCEPT ![r] = "returned"] /\ UNCHANGED <<job, flag, window>>
      /\ phase[r] = "running"
  BY DEF JobReturns, closing
<1>4. QED
  BY <1>2, <1>3 DEF GuardInv, Writing, ValuesOK

LEMMA DeliverGuard ==
  ASSUME ValuesOK, GuardInv, Deliver
  PROVE  GuardInv'
<1> USE RunnerNames
<1>1. PICK r \in Runners :
         /\ r = Head(inbox).runner
         /\ \A s \in Runners \ {r} : phase'[s] = phase[s] /\ job'[s] = job[s]
         /\ \A d \in Flagged \ {OwnerOf(r)} : flag'[d] = flag[d]
         /\ phase'[r] = "none"
         /\ \/ phase[r] = "none" /\ UNCHANGED <<phase, job, flag>>
            \/ phase[r] = "returned" /\ job'[r] = "none" /\ flag' = FlagsAfter(Head(inbox))
  BY DeliverOne
<1>2. /\ inbox \in Seq(Completion) /\ inbox # << >> /\ inbox' = Tail(inbox)
      /\ window' = window
  BY DEF Deliver, ValuesOK, closing
<1>3. Head(inbox) = inbox[1] /\ 1 \in DOMAIN inbox
  BY <1>2
<1>4. \A i \in DOMAIN inbox' : i + 1 \in DOMAIN inbox /\ inbox'[i] = inbox[i + 1]
  BY <1>2
<1>5. \A i \in DOMAIN inbox' : inbox'[i].runner = "monitor" => inbox'[i].ok
  BY <1>4 DEF GuardInv
<1>6. \A s \in Runners : job'[s] = "write" => s \in Flagged
  BY <1>1 DEF GuardInv
<1>7. \A s \in Runners : Writing(s)' => Writing(s)
  BY <1>1 DEF Writing
<1>8. ASSUME window = "open", NEW c \in Flagged, phase'[c] # "none", job'[c] = "write"
      PROVE  flag'[c]
  <2>1. c # r /\ phase[c] # "none" /\ job[c] = "write"
    BY <1>1, <1>8
  <2>2. flag[c]
    BY <1>8, <2>1 DEF GuardInv
  <2>3. CASE OwnerOf(r) # c
    BY <1>1, <2>2, <2>3
  <2>4. CASE OwnerOf(r) = c
    <3>1. r = "monitor" /\ c = "system"
      BY <2>1, <2>4 DEF OwnerOf
    <3>2. Head(inbox).ok /\ job[r] # "write"
      BY <1>1, <1>3, <3>1 DEF GuardInv
    <3>3. FlagsAfter(Head(inbox)) = flag
      BY <1>1, <3>1, <3>2 DEF FlagsAfter
    <3>4. QED
      BY <1>1, <2>2, <3>3
  <2>5. QED
    BY <2>3, <2>4
<1>9. QED
  BY <1>2, <1>5, <1>6, <1>7, <1>8 DEF GuardInv

LEMMA GuardStep == ~MonitorFails /\ ValuesOK /\ GuardInv /\ [Next]_vars => GuardInv'
<1> SUFFICES ASSUME ~MonitorFails, ValuesOK, GuardInv, [Next]_vars PROVE GuardInv'
  OBVIOUS
<1>1. CASE UNCHANGED vars
  BY <1>1 DEF vars, closing, GuardInv, Writing
<1>2. ASSUME NEW r \in Runners, StartOther(r) PROVE GuardInv'
  BY <1>2, BeginGuard DEF StartOther, closing
<1>3. ASSUME NEW c \in Writers, StartWrite(c) PROVE GuardInv'
  <2>1. c \in Runners /\ c \in Flagged /\ flag' = [flag EXCEPT ![c] = TRUE]
    BY <1>3, RunnerNames DEF StartWrite, FlagWhenStarted
  <2>2. flag'[c] /\ \A d \in Flagged : flag[d] => flag'[d]
    BY <2>1 DEF ValuesOK
  <2>3. QED
    BY <1>3, <2>1, <2>2, BeginGuard DEF StartWrite, closing
<1>4. CASE SystemWrite
  <2>1. /\ flag' = [flag EXCEPT !["system"] = TRUE] /\ "system" \in Flagged
        /\ "system" \in Runners
    BY <1>4, RunnerNames DEF SystemWrite, FlagWhenStarted
  <2>2. flag'["system"] /\ \A d \in Flagged : flag[d] => flag'[d]
    BY <2>1 DEF ValuesOK
  <2>3. CASE Begin("system", "write")
    BY <1>4, <2>1, <2>2, <2>3, BeginGuard DEF SystemWrite, closing
  <2>4. CASE UNCHANGED <<phase, job, serial>>
    BY <1>4, <2>2, <2>4 DEF SystemWrite, closing, GuardInv, Writing
  <2>5. QED
    BY <1>4, <2>3, <2>4 DEF SystemWrite
<1>5. CASE StartMonitor
  BY <1>5, BeginGuard, RunnerNames DEF StartMonitor, closing
<1>6. CASE StopMonitor \/ TellMonitor \/ DropScan \/ Closed
  BY <1>6 DEF StopMonitor, TellMonitor, DropScan, Closed, closing, GuardInv, Writing
<1>7. CASE Join
  BY <1>7 DEF Join, GuardInv, Writing, ValuesOK
<1>8. CASE CloseEvent
  BY <1>8, AcceptedClose DEF CloseEvent, GuardInv, Writing
<1>9. QED
  BY <1>1, <1>2, <1>3, <1>4, <1>5, <1>6, <1>7, <1>8, ReturnGuard, DeliverGuard DEF Next

LEMMA GuardSuffices == GuardInv => NoWriteCutOff
BY DEF GuardInv, NoWriteCutOff

\* If a load recording never fails, the process never ends in the middle of a write,
\* not even when a scan overruns and Qt ends it.
THEOREM WritesNeverCutOff ==
  ASSUME ~MonitorFails
  PROVE  Spec => []NoWriteCutOff
BY ValuesInit, ValuesStep, GuardInit, GuardStep, GuardSuffices, PTL DEF Spec

\* Nor does the guard leave a write to the joins: no close is accepted during one.
THEOREM CloseAlwaysWaits ==
  ASSUME ~MonitorFails
  PROVE  Spec => CloseWaits
<1>1. GuardInv /\ [Next]_vars =>
        [window = "open" /\ window' = "closing" => \A r \in Runners : ~Writing(r)]_vars
  <2> SUFFICES ASSUME GuardInv, Next, window = "open", window' = "closing"
               PROVE  \A r \in Runners : ~Writing(r)
    OBVIOUS
  <2>1. CloseEvent
    BY DEF Next, StartOther, StartWrite, SystemWrite, StartMonitor, StopMonitor, JobReturns,
       Deliver, TellMonitor, Join, DropScan, Closed, closing
  <2>2. QED
    BY <2>1, AcceptedClose
<1>2. QED
  BY <1>1, ValuesInit, ValuesStep, GuardInit, GuardStep, PTL DEF Spec, CloseWaits
=============================================================================
