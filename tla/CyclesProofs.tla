---------------------------- MODULE CyclesProofs ----------------------------
(***************************************************************************)
(* Proofs about what runs once per cycle.                                  *)
(*                                                                         *)
(* CommitBarrier, for any set of sessions and any counter width: its type, *)
(* and that it implements CommitWait.  Its inductive invariant IInv: at    *)
(* most one commit is open, and a waiting session is fewer than half the   *)
(* range of the counters behind the commits that began, so that            *)
(* sequence_is_before orders its target correctly.                         *)
(*                                                                         *)
(* AsioDriver, for any set of host threads and any number of starts: the   *)
(* host is left alone once the driver has stopped, a stop that succeeds    *)
(* has drained, and the stream is where its owner looks for it.  Its       *)
(* inductive invariant DriverInv says who may be where (Mutex, Handle,     *)
(* Purposes), what a call may rely on at its place (Bound), what the gate  *)
(* says of the driver's state (Commands), and what an acknowledged stop    *)
(* means for the worker (Silence).                                         *)
(*                                                                         *)
(* CycleWake, for any number of slots and any ages told apart: no wake is  *)
(* lost in either direction, and wait_period finds the block it returned   *)
(* last gone.  Its inductive invariant WakesInv says that one block is     *)
(* published per cycle (Distinct, NoneYet), what has become of the block   *)
(* returned at each place of the client (Returned), and who has been told  *)
(* of what is there (CaptureIsHeard, CycleIsHeard).                        *)
(***************************************************************************)
EXTENDS MCCycles, TLAPS

-----------------------------------------------------------------------------
(* The commit barrier                                                      *)


(* The commit open at any time is the last that began.                     *)
OneOpen == started = completed \/ started = Advance(completed, 1)

(* A session polled when its target's commit was open, or never since it   *)
(* loaded the target.                                                      *)
PolledAtTarget == \A s \in waiting : polled[s] = target[s]

(* No target is in the future, nor half a turn in the past.                *)
InWindow == \A s \in waiting : Distance(target[s], started) < Half

IInv == TypeOK /\ OneOpen /\ PolledAtTarget /\ InWindow

(* The counters' arithmetic: one step forward adds one to the distance     *)
(* from anything fewer than a full turn behind.                            *)
LEMMA AdvanceType ==
  ASSUME NEW a \in Sequence
  PROVE  Advance(a, 1) \in Sequence /\ Advance(a, 1) # a
BY HalfAssumption, SMT DEF Sequence, Advance, Range2

LEMMA DistanceStep ==
  ASSUME NEW a \in Sequence, NEW b \in Sequence, Distance(a, b) < Range2 - 1
  PROVE  Distance(a, Advance(b, 1)) = Distance(a, b) + 1
BY HalfAssumption, SMT DEF Sequence, Advance, Distance, Range2

LEMMA DistanceSelf ==
  ASSUME NEW a \in Sequence
  PROVE  Distance(a, a) = 0
BY HalfAssumption, SMT DEF Sequence, Distance

(* Within half a turn, sequence_is_before says exactly that the target is  *)
(* the commit still open.                                                  *)
LEMMA BeforeIsOpen ==
  ASSUME NEW c \in Sequence, NEW t \in Sequence, NEW b \in Sequence,
         b = c \/ b = Advance(c, 1), Distance(t, b) < Half
  PROVE  IsBefore(c, t) <=> (b # c /\ t = b)
BY HalfAssumption, SMT DEF Sequence, Advance, Distance, IsBefore, Range2

LEMMA InitIInv == Init => IInv
BY DistanceSelf, HalfAssumption DEF Init, IInv, TypeOK, OneOpen, PolledAtTarget, InWindow

LEMMA StepIInv == IInv /\ [Next]_vars => IInv'
<1> SUFFICES ASSUME IInv, [Next]_vars PROVE IInv'
  OBVIOUS
<1> USE DEF IInv, TypeOK, OneOpen, PolledAtTarget, InWindow
<1>1. CASE Begin
  <2>1. started' \in Sequence /\ OneOpen'
    BY <1>1, AdvanceType DEF Begin
  <2>2. InWindow'
    <3> SUFFICES ASSUME NEW s \in waiting PROVE Distance(target[s], started') < Half
      BY <1>1 DEF Begin
    <3>1. Distance(target[s], started) < Half - 1
      BY <1>1 DEF Begin, Prompt
    <3>2. Distance(target[s], Advance(started, 1)) = Distance(target[s], started) + 1
      <4>1. Half - 1 <= Range2 - 1
        BY HalfAssumption DEF Range2
      <4>2. Distance(target[s], started) \in Int /\ target[s] \in Sequence
        BY HalfAssumption DEF Distance, Sequence, Range2
      <4>3. Distance(target[s], started) < Range2 - 1
        BY <3>1, <4>1, <4>2, HalfAssumption DEF Range2
      <4> QED BY <4>2, <4>3, DistanceStep
    <3>3. Distance(target[s], started) \in Int
      BY HalfAssumption DEF Distance, Sequence, Range2
    <3> QED BY <3>1, <3>2, <3>3, <1>1, HalfAssumption DEF Begin
  <2> QED BY <1>1, <2>1, <2>2 DEF Begin
<1>2. CASE End
  <2>1. completed' \in Sequence /\ OneOpen'
    BY <1>2, AdvanceType DEF End
  <2> QED BY <1>2, <2>1 DEF End
<1>3. CASE \E s \in Sessions : Look(s)
  <2> PICK s \in Sessions : Look(s)
    BY <1>3
  <2>1. InWindow'
    BY DistanceSelf, HalfAssumption DEF Look
  <2> QED BY <2>1 DEF Look
<1>4. CASE \E s \in Sessions : Poll(s)
  <2> PICK s \in Sessions : Poll(s)
    BY <1>4
  <2>1. IsBefore(completed, target[s]) => started = target[s]
    BY BeforeIsOpen DEF Poll
  <2>2. PolledAtTarget'
    BY <2>1 DEF Poll
  <2> QED BY <2>2 DEF Poll
<1>5. CASE UNCHANGED vars
  BY <1>5 DEF vars
<1> QED BY <1>1, <1>2, <1>3, <1>4, <1>5 DEF Next

LEMMA SpecIInv == Spec => []IInv
BY InitIInv, StepIInv, PTL DEF Spec

(* The counters keep their width.                                          *)
THEOREM BarrierTypeCorrect == Spec => []TypeOK
BY SpecIInv, PTL DEF IInv

-----------------------------------------------------------------------------
(* The refinement                                                          *)

Pending == {s \in waiting : IsBefore(completed, target[s])}

LEMMA PendingIsOpen ==
  ASSUME IInv
  PROVE  Pending = {s \in waiting : started # completed /\ target[s] = started}
<1>1. ASSUME NEW s \in waiting
      PROVE  IsBefore(completed, target[s]) <=> (started # completed /\ target[s] = started)
  BY BeforeIsOpen DEF IInv, TypeOK, OneOpen, InWindow
<1> QED BY <1>1 DEF Pending

LEMMA InitWait == Init => Wait!WInit
BY DEF Init, Wait!WInit

LEMMA StepWait == IInv /\ IInv' /\ [Next]_vars => [Wait!WNext]_(Wait!wVars)
<1> SUFFICES ASSUME IInv, IInv', [Next]_vars PROVE [Wait!WNext]_(Wait!wVars)
  OBVIOUS
<1> DEFINE P == {s \in waiting : IsBefore(completed, target[s])}
<1>p. /\ P = {s \in waiting : started # completed /\ target[s] = started}
      /\ P' = {s \in waiting' : started' # completed' /\ target'[s] = started'}
  <2>1. Pending = {s \in waiting : started # completed /\ target[s] = started}
    BY PendingIsOpen
  <2>2. Pending' = {s \in waiting' : started' # completed' /\ target'[s] = started'}
    <3>1. ASSUME NEW s \in waiting'
          PROVE  IsBefore(completed', target'[s])
                   <=> (started' # completed' /\ target'[s] = started')
      BY BeforeIsOpen DEF IInv, TypeOK, OneOpen, InWindow
    <3> QED BY <3>1 DEF Pending
  <2> QED BY <2>1, <2>2 DEF Pending
<1> USE DEF IInv, TypeOK
<1>1. CASE Begin
  <2>1. (started # completed) = FALSE /\ (started' # completed') = TRUE
    BY <1>1, AdvanceType DEF Begin
  <2>2. P = {}
    BY <1>p, <1>1 DEF Begin
  <2>3. P' = {}
    <3> SUFFICES ASSUME NEW s \in waiting PROVE target[s] # started'
      BY <1>p, <1>1 DEF Begin
    <3>1. Distance(target[s], started) < Half - 1
      BY <1>1 DEF Begin, Prompt, PolledAtTarget
    <3> QED BY <3>1, <1>1, HalfAssumption, SMT DEF Begin, Distance, Advance, Sequence, Range2
  <2>4. Wait!BeginCommit
    BY <2>1, <2>2, <2>3, <1>1 DEF Wait!BeginCommit, Begin
  <2> QED BY <2>4 DEF Wait!WNext
<1>2. CASE End
  <2>1. started' = completed'
    BY <1>2 DEF End, OneOpen
  <2>2. P' = {}
    BY <1>p, <2>1
  <2>3. Wait!EndCommit
    BY <2>1, <2>2, <1>2 DEF Wait!EndCommit, End
  <2> QED BY <2>3 DEF Wait!WNext
<1>3. CASE \E s \in Sessions : Look(s)
  <2> PICK s \in Sessions : Look(s)
    BY <1>3
  <2>1. P' = IF started # completed THEN P \union {s} ELSE P
    <3>1. \A r \in waiting : r # s /\ target'[r] = target[r]
      BY DEF Look
    <3>2. target'[s] = started /\ waiting' = waiting \union {s}
          /\ started' = started /\ completed' = completed
      BY DEF Look
    <3> HIDE DEF P
    <3> QED BY <1>p, <3>1, <3>2
  <2>2. Wait!Look(s)
    BY <2>1 DEF Wait!Look, Look
  <2> QED BY <2>2 DEF Wait!WNext
<1>4. CASE \E s \in Sessions : Poll(s)
  <2> PICK s \in Sessions : Poll(s)
    BY <1>4
  <2>1. CASE IsBefore(completed, target[s])
    BY <2>1 DEF Poll, Wait!wVars
  <2>2. CASE ~IsBefore(completed, target[s])
    <3>1. Wait!Return(s)
      BY <2>2 DEF Wait!Return, Poll
    <3> QED BY <3>1 DEF Wait!WNext
  <2> QED BY <2>1, <2>2
<1>5. CASE UNCHANGED vars
  BY <1>5 DEF vars, Wait!wVars
<1> QED BY <1>1, <1>2, <1>3, <1>4, <1>5 DEF Next

(* STOP and CLOSE wait for the commit that was open and for no other, for  *)
(* any number of sessions and wherever the counters wrap.                  *)
THEOREM BarrierRefinement == Spec => ImplementsCommitWait
<1>1. Init => Wait!WInit
  BY InitWait
<1>2. IInv /\ IInv' /\ [Next]_vars => [Wait!WNext]_(Wait!wVars)
  BY StepWait
<1> QED BY <1>1, <1>2, SpecIInv, PTL DEF Spec, ImplementsCommitWait, Wait!WSpec

-----------------------------------------------------------------------------
(* The ASIO driver                                                         *)


Held == {"entered", "awaitStop", "reap", "join", "joining", "act", "awaitStart", "closing"}
Ended == {"none", "ending", "exited"}
Leaving == {"exit", "report", "notify", "dying"}

(* The calls.  One of them at a time holds the lifecycle mutex, and each    *)
(* place of a call belongs to certain operations.                           *)
Mutex == \A c \in Asio!Callers : call[c].pc \in Held <=> lifecycle = c

Purposes ==
    \A c \in Asio!Callers :
        /\ call[c].pc = "awaitStart" => call[c].op = "start"
        /\ call[c].pc \in {"entered", "awaitStop"} =>
             call[c].op \in {"start", "stop", "dispose", "close"}
        /\ call[c].pc = "reap" => call[c].op \in {"start", "stop"}
        /\ call[c].pc = "closing" => call[c].op \in {"dispose", "close"}
        /\ call[c].pc \in {"join", "joining"} => call[c].op \notin {"none", "create"}
        /\ call[c].pc = "act" => call[c].op \in {"start", "stop", "dispose", "close"}

Threads ==
    /\ worker = "none" <=> w.pc = "none"
    /\ gate.alive <=> w.pc \notin Ended

(* What a call may rely on at its place.                                    *)
Entry(c) ==
    /\ call[c].pc = "joining" => worker = "taken"
    /\ call[c].pc \in Held \ {"joining"} => worker # "taken"
    /\ call[c].pc = "act" /\ call[c].op \in {"dispose", "close"} => worker = "none"
    /\ call[c].pc = "join" /\ call[c].op = "failed" => worker = "kept"
    /\ call[c].pc = "closing" => worker = "none" /\ state # "Freed"
    /\ call[c].pc = "closing" /\ call[c].op = "close" => state = "Destroying"
    /\ call[c].pc = "awaitStop" =>
         worker = "kept" /\ state = "Stopping" /\ call[c].want = gate.generation
    /\ call[c].pc = "awaitStart" => worker = "kept" /\ state \in Asio!Running

Bound == \A c \in Asio!Callers : Entry(c)

Commands ==
    /\ gate.running <=> state = "Running"
    /\ quiesce = IF state = "Stopping" THEN gate.generation ELSE None
    /\ state \in Asio!Running => worker # "none"
    /\ gate.generation <= MaxGeneration + (IF gate.running THEN 1 ELSE 2)
    /\ gate.runAck # None => gate.runAck <= gate.generation
    /\ gate.stopAck # None => gate.stopAck <= gate.generation
    /\ w.run # None => w.run <= gate.generation
    /\ w.pc \notin Ended \cup Leaving \cup {"boot", "loop"} => w.run # None

Silence ==
    /\ w.pc \in {"callback", "submit", "resync"} /\ w.run = gate.generation => gate.running
    /\ w.run = gate.generation /\ ~gate.running => w.after = w.last
    /\ ~gate.running /\ gate.stopAck = gate.generation =>
         /\ w.run = gate.generation
         /\ playback => w.last # "pending"
    /\ w.pc = "none" => w.last = "none"
    /\ w.pc = "notify" => gate.failure
    /\ state = "Prepared" /\ worker # "none" => gate.stopAck = gate.generation /\ w.pc # "notify"

(* The worker's handle is taken only while a call joins it.                 *)
Handle == lifecycle = None => worker # "taken"

DriverInv == Asio!TypeOK /\ Mutex /\ Handle /\ Purposes /\ Threads /\ Bound /\ Commands
        /\ Silence /\ Asio!HostIsLeftAlone /\ Asio!StreamIsKept

Ops == {"none", "create", "start", "stop", "dispose", "close", "failed"}
Places == {"idle", "asked"} \cup Held
CallTypes == call \in [Asio!Callers -> [op : Ops, pc : Places, want : Asio!Generations]]

(* What a step of a call changes in its own record.                         *)
Moved(c, op, pc, want) ==
    /\ call'[c].op = op /\ call'[c].pc = pc /\ call'[c].want = want
    /\ \A d \in Asio!Callers : d # c => call'[d] = call[d]
    /\ CallTypes'

LEMMA MovedGoto ==
  ASSUME CallTypes, NEW c \in Asio!Callers, NEW pc \in Places, Asio!Goto(c, pc)
  PROVE  Moved(c, call[c].op, pc, call[c].want)
<1> DEFINE R == [op : Ops, pc : Places, want : Asio!Generations]
<1>1. call[c] \in R /\ [call[c] EXCEPT !.pc = pc] \in R
  BY DEF CallTypes
<1>2. call' = [call EXCEPT ![c] = [call[c] EXCEPT !.pc = pc]]
  BY DEF Asio!Goto
<1> QED BY <1>1, <1>2 DEF CallTypes, Moved

LEMMA MovedAwait ==
  ASSUME CallTypes, NEW c \in Asio!Callers, NEW pc \in Places, NEW g \in Asio!Generations, Asio!Await(c, pc, g)
  PROVE  Moved(c, call[c].op, pc, g)
<1> DEFINE R == [op : Ops, pc : Places, want : Asio!Generations]
<1>1. call[c] \in R /\ [call[c] EXCEPT !.pc = pc, !.want = g] \in R
  BY DEF CallTypes
<1>2. call' = [call EXCEPT ![c] = [call[c] EXCEPT !.pc = pc, !.want = g]]
  BY DEF Asio!Await
<1> QED BY <1>1, <1>2 DEF CallTypes, Moved

LEMMA MovedReturn ==
  ASSUME CallTypes, NEW c \in Asio!Callers, Asio!Return(c), 0 \in Asio!Generations
  PROVE  Moved(c, "none", "idle", 0) /\ released' = released
         /\ lifecycle' = IF lifecycle = c THEN None ELSE lifecycle
BY DEF CallTypes, Moved, Asio!Return, Ops, Places

LEMMA MovedJoin ==
  ASSUME CallTypes, NEW c \in Asio!Callers, Asio!JoinAfterFailure(c)
  PROVE  Moved(c, IF call[c].op \in {"start", "stop"} THEN "failed" ELSE call[c].op, "join",
               call[c].want)
         /\ released' = released /\ lifecycle' = lifecycle
<1> DEFINE R == [op : Ops, pc : Places, want : Asio!Generations]
           x == IF call[c].op \in {"start", "stop"} THEN "failed" ELSE call[c].op
<1>1. call[c] \in R /\ [call[c] EXCEPT !.pc = "join", !.op = x] \in R
  BY DEF CallTypes, Places, Held, Ops
<1>2. call' = [call EXCEPT ![c] = [call[c] EXCEPT !.pc = "join", !.op = x]]
  BY DEF Asio!JoinAfterFailure
<1> QED BY <1>1, <1>2 DEF CallTypes, Moved, Asio!JoinAfterFailure

LEMMA MovedAsk ==
  ASSUME CallTypes, NEW c \in Asio!Callers, NEW op \in Ops, NEW pc \in Places,
         call' = [call EXCEPT ![c].op = op, ![c].pc = pc]
  PROVE  Moved(c, op, pc, call[c].want)
<1> DEFINE R == [op : Ops, pc : Places, want : Asio!Generations]
<1>1. call[c] \in R /\ [call[c] EXCEPT !.op = op, !.pc = pc] \in R
  BY DEF CallTypes
<1>2. call' = [call EXCEPT ![c] = [call[c] EXCEPT !.op = op, !.pc = pc]]
  OBVIOUS
<1> QED BY <1>1, <1>2 DEF CallTypes, Moved

Marks == Asio!Generations \cup {None}
Stages == {"none", "boot", "loop", "peek", "wait", "acquired", "callback", "submit",
           "recover", "resync", "exit", "report", "notify", "dying", "ending", "exited"}
GateTypes == [generation : Asio!Generations, running : BOOLEAN, runAck : Marks, stopAck : Marks,
              signal : BOOLEAN, failure : BOOLEAN, alive : BOOLEAN]
WorkerTypes == [pc : Stages, run : Marks, acq : Marks, block : Asio!Blocks, last : Asio!Blocks,
                after : Asio!Blocks, error : BOOLEAN]

DriverTypes ==
    /\ state \in {"Loaded", "Initialized", "Prepared", "Running", "Stopping",
                  "Destroying", "Freed"}
    /\ stream \in {"none", "driver", "worker"}
    /\ playback \in BOOLEAN
    /\ worker \in {"none", "kept", "taken"}
    /\ quiesce \in Marks
    /\ observed \in BOOLEAN
    /\ lifecycle \in Asio!Callers \cup {None}
    /\ released \in BOOLEAN
    /\ stop \in BOOLEAN
    /\ period \in BOOLEAN
    /\ link \in {"up", "rebased", "down"}

LEMMA TypesSplit == Asio!TypeOK <=> CallTypes /\ gate \in GateTypes /\ w \in WorkerTypes /\ DriverTypes
BY DEF Asio!TypeOK, CallTypes, Ops, Places, Held, GateTypes, WorkerTypes, Marks, Stages,
   DriverTypes

LEMMA MarksAndBlocks ==
  /\ "none" \in Asio!Blocks /\ "pending" \in Asio!Blocks /\ "taken" \in Asio!Blocks
  /\ None \in Marks /\ Asio!Generations \subseteq Marks
BY DEF Asio!Blocks, Marks

LEMMA CallsStay ==
  ASSUME CallTypes, UNCHANGED call PROVE CallTypes'
BY DEF CallTypes

-----------------------------------------------------------------------------
(* The worker thread and the daemon leave the calls and the driver alone.   *)
ThreadStep == Asio!WorkerStep \/ Asio!EngineCycle \/ Asio!DaemonFails

LEMMA ThreadFrame ==
  ASSUME ThreadStep
  PROVE  /\ state' = state /\ stream' = stream /\ playback' = playback /\ worker' = worker
         /\ quiesce' = quiesce /\ observed' = observed
         /\ lifecycle' = lifecycle /\ call' = call /\ released' = released /\ stop' = stop
BY DEF ThreadStep, Asio!WorkerStep, Asio!WorkerBoot, Asio!WorkerLoop, Asio!WorkerPeek,
   Asio!WorkerWait, Asio!WorkerAcquired, Asio!CallbackReturns, Asio!WorkerSubmit,
   Asio!WorkerRecover, Asio!ResyncReturns, Asio!WorkerExit, Asio!WorkerReport,
   Asio!NotifyReturns, Asio!WorkerDies, Asio!EngineCycle, Asio!DaemonFails, Asio!driverSide,
   Asio!driverVars, Asio!callVars

-----------------------------------------------------------------------------
(* What the worker thread's steps make of its state and of the gate.        *)
Turn(pc, run, seen, after) ==
    /\ w' \in WorkerTypes
    /\ w'.pc = pc /\ w'.run = run /\ w'.last = seen /\ w'.after = after

Goes(pc) == Turn(pc, w.run, w.last, w.after)

Acks(run, stopped) ==
    /\ gate' \in GateTypes
    /\ gate'.generation = gate.generation /\ gate'.running = gate.running
    /\ gate'.failure = gate.failure /\ gate'.alive = gate.alive
    /\ gate'.runAck = run /\ gate'.stopAck = stopped

SameAcks == Acks(gate.runAck, gate.stopAck)

LEMMA LeaveIs ==
  ASSUME NEW t \in WorkerTypes, NEW pc \in Stages
  PROVE  /\ Asio!Leave(t, pc) \in WorkerTypes
         /\ Asio!Leave(t, pc).pc = pc /\ Asio!Leave(t, pc).run = t.run
         /\ Asio!Leave(t, pc).last = t.last /\ Asio!Leave(t, pc).after = t.after
BY MarksAndBlocks DEF Asio!Leave, WorkerTypes

LEMMA FailIs ==
  ASSUME w \in WorkerTypes, Asio!Fail PROVE Goes("exit")
<1>1. /\ Asio!Leave(w, "exit") \in WorkerTypes
      /\ Asio!Leave(w, "exit").pc = "exit" /\ Asio!Leave(w, "exit").run = w.run
      /\ Asio!Leave(w, "exit").last = w.last /\ Asio!Leave(w, "exit").after = w.after
  BY LeaveIs DEF Stages
<1> QED BY <1>1 DEF Asio!Fail, WorkerTypes, Goes, Turn

LEMMA AdoptedIs ==
  ASSUME w \in WorkerTypes, gate \in GateTypes
  PROVE  /\ Asio!Adopted \in WorkerTypes
         /\ Asio!Adopted.pc = w.pc /\ Asio!Adopted.run = gate.generation
         /\ Asio!Adopted.last = IF gate.generation = w.run \/ ~gate.running THEN w.last ELSE "none"
         /\ Asio!Adopted.after = IF gate.generation = w.run THEN w.after
                            ELSE IF gate.running THEN "none" ELSE w.last
<1>1. gate.generation \in Marks /\ gate.running \in BOOLEAN
  BY MarksAndBlocks DEF GateTypes
<1>2. CASE gate.generation = w.run
  BY <1>2 DEF Asio!Adopted
<1>3. CASE gate.generation # w.run /\ gate.running
  BY <1>3, <1>1, MarksAndBlocks DEF Asio!Adopted, WorkerTypes
<1>4. CASE gate.generation # w.run /\ ~gate.running
  BY <1>4, <1>1, MarksAndBlocks DEF Asio!Adopted, WorkerTypes
<1> QED BY <1>2, <1>3, <1>4

LEMMA AcknowledgeIs ==
  ASSUME gate \in GateTypes, NEW g \in Marks, NEW r \in BOOLEAN, gate' = Asio!Acknowledge(g, r)
  PROVE  Acks(IF r THEN g ELSE gate.runAck, IF r THEN gate.stopAck ELSE g)
<1>1. CASE r
  BY <1>1 DEF Asio!Acknowledge, GateTypes, Acks
<1>2. CASE ~r
  BY <1>2 DEF Asio!Acknowledge, GateTypes, Acks
<1> QED BY <1>1, <1>2

LEMMA ApplyGateIs ==
  ASSUME w \in WorkerTypes, gate \in GateTypes, gate' = Asio!ApplyGate
  PROVE  Acks(IF gate.generation # w.run /\ gate.running THEN gate.generation ELSE gate.runAck,
              IF gate.generation # w.run /\ ~gate.running /\ w.last = "none"
              THEN gate.generation ELSE gate.stopAck)
<1>1. gate.generation \in Marks /\ gate.running \in BOOLEAN
  BY MarksAndBlocks DEF GateTypes
<1>2. CASE gate.generation # w.run /\ gate.running
  BY <1>1, <1>2, AcknowledgeIs DEF Asio!ApplyGate
<1>3. CASE gate.generation # w.run /\ ~gate.running /\ w.last = "none"
  BY <1>1, <1>3, AcknowledgeIs DEF Asio!ApplyGate
<1>4. CASE gate.generation = w.run \/ (~gate.running /\ w.last # "none")
  BY <1>4 DEF Asio!ApplyGate, Acks
<1> QED BY <1>2, <1>3, <1>4

LEMMA SameGate == ASSUME gate \in GateTypes, gate' = gate PROVE SameAcks
BY DEF SameAcks, Acks

LEMMA WorkerBootEffect ==
  ASSUME w \in WorkerTypes, gate \in GateTypes, Asio!WorkerBoot
  PROVE  (Goes("loop") \/ Goes("exit")) /\ SameAcks /\ w.pc = "boot"
BY SameGate, FailIs DEF Asio!WorkerBoot, WorkerTypes, Goes, Turn, Stages

LEMMA WorkerLoopEffect ==
  ASSUME w \in WorkerTypes, gate \in GateTypes, Asio!WorkerLoop
  PROVE
    \/ Goes("exit") /\ SameAcks /\ w.pc = "loop"
    \/ /\ Turn("peek", gate.generation, Asio!Adopted.last, Asio!Adopted.after) /\ w.pc = "loop"
       /\ gate' = Asio!ApplyGate
<1>1. CASE stop
  BY <1>1, SameGate DEF Asio!WorkerLoop, WorkerTypes, Goes, Turn, Stages
<1>2. CASE ~stop
  BY <1>2, AdoptedIs DEF Asio!WorkerLoop, WorkerTypes, Turn, Stages
<1> QED BY <1>1, <1>2

LEMMA WorkerPeekEffect ==
  ASSUME w \in WorkerTypes, gate \in GateTypes, Asio!WorkerPeek
  PROVE  /\ Goes("wait") /\ w.pc = "peek"
         /\ SameAcks \/ (~playback /\ ~gate.running /\ Acks(gate.runAck, w.run))
<1>1. Goes("wait")
  BY DEF Asio!WorkerPeek, WorkerTypes, Goes, Turn, Stages
<1>2. w.run \in Marks
  BY DEF WorkerTypes
<1>3. CASE ~playback /\ ~gate.running
  BY <1>1, <1>2, <1>3, AcknowledgeIs DEF Asio!WorkerPeek
<1>4. CASE ~(~playback /\ ~gate.running)
  BY <1>1, <1>4, SameGate DEF Asio!WorkerPeek
<1> QED BY <1>1, <1>3, <1>4 DEF Asio!WorkerPeek

LEMMA WorkerWaitEffect ==
  ASSUME w \in WorkerTypes, gate \in GateTypes, Asio!WorkerWait
  PROVE  (Goes("exit") \/ Goes("recover") \/ Goes("acquired") \/ Goes("loop")) /\ SameAcks
         /\ w.pc = "wait"
<1>1. SameAcks
  BY SameGate DEF Asio!WorkerWait, SameAcks, Acks, GateTypes
<1>2. w' = [w EXCEPT !.pc = "acquired", !.block = "pending"] => Goes("acquired")
  BY MarksAndBlocks DEF WorkerTypes, Goes, Turn, Stages
<1>3. /\ w' = Asio!Leave(w, "exit") => Goes("exit")
      /\ w' = Asio!Leave(w, "recover") => Goes("recover")
      /\ w' = Asio!Leave(w, "loop") => Goes("loop")
  BY LeaveIs DEF Goes, Turn, Stages
<1> QED BY <1>1, <1>2, <1>3, FailIs DEF Asio!WorkerWait

LEMMA WorkerAcquiredEffect ==
  ASSUME w \in WorkerTypes, gate \in GateTypes, Asio!WorkerAcquired
  PROVE
    /\ w.pc = "acquired"
    /\ \/ Goes("exit") /\ SameAcks
       \/ \E pc \in {"loop", "recover"} :
            /\ Turn(pc, gate.generation, Asio!Adopted.last, Asio!Adopted.after)
            /\ \/ gate' = Asio!ApplyGate
               \/ /\ Acks(gate.runAck, gate.generation)
                  /\ ~gate.running /\ (~playback \/ Asio!Adopted.after = "taken")
       \/ /\ gate.running /\ gate' = Asio!ApplyGate
          /\ Turn("callback", gate.generation, Asio!Adopted.last, Asio!Adopted.after)
<1> DEFINE away == IF playback /\ link = "rebased" THEN "recover" ELSE "loop"
<1>1. \A pc \in {"loop", "recover"} :
        w' = Asio!Leave(Asio!Adopted, pc) => Turn(pc, gate.generation, Asio!Adopted.last, Asio!Adopted.after)
  BY AdoptedIs, LeaveIs DEF Turn, Stages
<1>2. w' = [Asio!Adopted EXCEPT !.pc = "callback"]
        => Turn("callback", gate.generation, Asio!Adopted.last, Asio!Adopted.after)
  BY AdoptedIs DEF WorkerTypes, Turn, Stages
<1>3. CASE Asio!Fail /\ gate' = gate
  BY <1>3, FailIs, SameGate DEF Asio!WorkerAcquired
<1>4. CASE ~gate.running /\ w' = Asio!Leave(Asio!Adopted, away)
           /\ gate' = IF w'.pc = "loop" /\ (~playback \/ w'.after = "taken")
                      THEN Asio!Acknowledge(w'.run, FALSE) ELSE Asio!ApplyGate
  <2>1. away \in {"loop", "recover"}
        /\ Turn(away, gate.generation, Asio!Adopted.last, Asio!Adopted.after)
    BY <1>1, <1>4
  <2>2. gate.generation \in Marks
    BY MarksAndBlocks DEF GateTypes
  <2>3. CASE gate' = Asio!ApplyGate
    BY <2>1, <2>3 DEF Asio!WorkerAcquired
  <2>4. CASE gate' = Asio!Acknowledge(w'.run, FALSE) /\ (~playback \/ w'.after = "taken")
    <3>1. Acks(gate.runAck, gate.generation)
      BY <2>1, <2>2, <2>4, AcknowledgeIs DEF Turn
    <3>2. ~playback \/ Asio!Adopted.after = "taken"
      BY <2>1, <2>4 DEF Turn
    <3> QED BY <3>1, <3>2, <2>1, <1>4 DEF Asio!WorkerAcquired
  <2> QED BY <2>3, <2>4, <1>4
<1>5. CASE gate.running /\ gate' = Asio!ApplyGate
           /\ (\/ w' = Asio!Leave(Asio!Adopted, away) \/ w' = [Asio!Adopted EXCEPT !.pc = "callback"]
               \/ w' = Asio!Leave(Asio!Adopted, "recover"))
  BY <1>1, <1>2, <1>5 DEF Asio!WorkerAcquired
<1> QED BY <1>3, <1>4, <1>5 DEF Asio!WorkerAcquired

LEMMA CallbackReturnsEffect ==
  ASSUME w \in WorkerTypes, gate \in GateTypes, Asio!CallbackReturns
  PROVE  /\ w.pc = "callback" /\ SameAcks
         /\ \/ Goes("submit") \/ Goes("exit")
            \/ ~playback /\ Turn("loop", w.run, w.block, w.after)
<1>1. SameAcks
  BY SameGate DEF Asio!CallbackReturns
<1>2. w' = [w EXCEPT !.pc = "submit"] => Goes("submit")
  BY DEF WorkerTypes, Goes, Turn, Stages
<1>3. [w EXCEPT !.last = w.block] \in WorkerTypes
  BY DEF WorkerTypes
<1>4. w' = Asio!Leave([w EXCEPT !.last = w.block], "loop") => Turn("loop", w.run, w.block, w.after)
  BY <1>3, LeaveIs DEF WorkerTypes, Turn, Stages
<1> QED BY <1>1, <1>2, <1>4, FailIs DEF Asio!CallbackReturns

LEMMA WorkerSubmitEffect ==
  ASSUME w \in WorkerTypes, gate \in GateTypes, Asio!WorkerSubmit
  PROVE  /\ w.pc = "submit" /\ SameAcks
         /\ \/ Goes("loop") \/ Goes("recover") \/ Goes("exit")
            \/ Turn("loop", w.run, w.block, w.after)
<1>1. SameAcks
  BY SameGate DEF Asio!WorkerSubmit
<1>2. /\ w' = Asio!Leave(w, "loop") => Goes("loop")
      /\ w' = Asio!Leave(w, "recover") => Goes("recover")
  BY LeaveIs DEF Goes, Turn, Stages
<1>3. [w EXCEPT !.last = w.block] \in WorkerTypes
  BY DEF WorkerTypes
<1>4. w' = Asio!Leave([w EXCEPT !.last = w.block], "loop") => Turn("loop", w.run, w.block, w.after)
  BY <1>3, LeaveIs DEF WorkerTypes, Turn, Stages
<1> QED BY <1>1, <1>2, <1>4, FailIs DEF Asio!WorkerSubmit

LEMMA WorkerRecoverEffect ==
  ASSUME w \in WorkerTypes, gate \in GateTypes, Asio!WorkerRecover
  PROVE
    /\ w.pc = "recover"
    /\ \/ Goes("exit") /\ SameAcks
       \/ gate.running /\ Turn("resync", gate.generation, "none", "none")
          /\ Acks(gate.generation, gate.stopAck)
       \/ ~gate.running /\ Turn("loop", gate.generation, "none", "none")
          /\ Acks(gate.runAck, gate.generation)
<1>1. gate.generation \in Marks /\ gate.running \in BOOLEAN
  BY MarksAndBlocks DEF GateTypes
<1>2. CASE Asio!Fail /\ gate' = gate
  BY <1>2, FailIs, SameGate DEF Asio!WorkerRecover
<1>3. CASE gate.running /\ gate' = Asio!Acknowledge(gate.generation, gate.running)
           /\ w' = [w EXCEPT !.pc = "resync", !.run = gate.generation,
                             !.last = "none", !.after = "none"]
  <2>1. Turn("resync", gate.generation, "none", "none")
    BY <1>1, <1>3, MarksAndBlocks DEF WorkerTypes, Turn, Stages
  <2> QED BY <1>1, <1>3, <2>1, AcknowledgeIs DEF Asio!WorkerRecover
<1>4. CASE ~gate.running /\ gate' = Asio!Acknowledge(gate.generation, gate.running)
           /\ w' = [w EXCEPT !.pc = "loop", !.run = gate.generation,
                             !.last = "none", !.after = "none"]
  <2>1. Turn("loop", gate.generation, "none", "none")
    BY <1>1, <1>4, MarksAndBlocks DEF WorkerTypes, Turn, Stages
  <2> QED BY <1>1, <1>4, <2>1, AcknowledgeIs DEF Asio!WorkerRecover
<1> QED BY <1>2, <1>3, <1>4 DEF Asio!WorkerRecover

LEMMA ResyncReturnsEffect ==
  ASSUME w \in WorkerTypes, gate \in GateTypes, Asio!ResyncReturns
  PROVE  w.pc = "resync" /\ Goes("loop") /\ SameAcks
BY SameGate DEF Asio!ResyncReturns, WorkerTypes, Goes, Turn, Stages

LEMMA WorkerExitEffect ==
  ASSUME w \in WorkerTypes, gate \in GateTypes, Asio!WorkerExit
  PROVE  w.pc = "exit" /\ Goes("report") /\ SameAcks
BY SameGate DEF Asio!WorkerExit, WorkerTypes, Goes, Turn, Stages

LEMMA WorkerReportEffect ==
  ASSUME w \in WorkerTypes, gate \in GateTypes, Asio!WorkerReport
  PROVE
    /\ w.pc = "report" /\ (Goes("dying") \/ (Goes("notify") /\ gate.running /\ gate'.failure))
    /\ gate' \in GateTypes
    /\ gate'.generation = gate.generation /\ gate'.running = gate.running
    /\ gate'.runAck = gate.runAck /\ gate'.stopAck = gate.stopAck /\ gate'.alive = gate.alive
    /\ gate.failure => gate'.failure
<1>1. CASE w.error /\ gate.running /\ ~stop
  BY <1>1 DEF Asio!WorkerReport, WorkerTypes, GateTypes, Goes, Turn, Stages
<1>2. CASE ~(w.error /\ gate.running /\ ~stop)
  <2>1. Goes("dying")
    BY <1>2 DEF Asio!WorkerReport, WorkerTypes, Goes, Turn, Stages
  <2> QED BY <2>1 DEF Asio!WorkerReport, GateTypes
<1> QED BY <1>1, <1>2

LEMMA NotifyReturnsEffect ==
  ASSUME w \in WorkerTypes, gate \in GateTypes, Asio!NotifyReturns
  PROVE  w.pc = "notify" /\ Goes("dying") /\ SameAcks
BY SameGate DEF Asio!NotifyReturns, WorkerTypes, Goes, Turn, Stages

LEMMA WorkerDiesEffect ==
  ASSUME w \in WorkerTypes, gate \in GateTypes, Asio!WorkerDies
  PROVE
    /\ w.pc \in {"dying", "ending"} /\ (Goes("ending") \/ Goes("exited"))
    /\ gate' \in GateTypes /\ ~gate'.alive
    /\ gate'.generation = gate.generation /\ gate'.running = gate.running
    /\ gate'.runAck = gate.runAck /\ gate'.stopAck = gate.stopAck
    /\ gate'.failure = gate.failure
BY DEF Asio!WorkerDies, WorkerTypes, GateTypes, Goes, Turn, Stages

LEMMA EngineCycleEffect ==
  ASSUME w \in WorkerTypes, gate \in GateTypes, Asio!EngineCycle
  PROVE
    /\ SameAcks
    /\ Turn(w.pc, w.run, Asio!Passed(w.last), Asio!Passed(w.after))
<1>1. \A x \in Asio!Blocks : Asio!Passed(x) \in Asio!Blocks
  BY DEF Asio!Passed, Asio!Blocks
<1> QED BY <1>1, SameGate DEF Asio!EngineCycle, WorkerTypes, Turn

LEMMA DaemonFailsEffect ==
  ASSUME w \in WorkerTypes, gate \in GateTypes, Asio!DaemonFails
  PROVE  Goes(w.pc) /\ SameAcks
BY SameGate DEF Asio!DaemonFails, Goes, Turn

LEMMA FieldsOfGate ==
  ASSUME w \in WorkerTypes, gate \in GateTypes, Asio!AsioAssumption
  PROVE  /\ gate.generation \in Nat /\ gate.running \in BOOLEAN /\ gate.alive \in BOOLEAN
         /\ gate.failure \in BOOLEAN /\ gate.runAck \in Nat \cup {None}
         /\ gate.stopAck \in Nat \cup {None}
         /\ w.run \in Nat \cup {None} /\ None \notin Nat
BY DEF WorkerTypes, GateTypes, Marks, Asio!Generations, Asio!AsioAssumption

LEMMA ThreadDaemon ==
  ASSUME DriverInv, ThreadStep
  PROVE  period' \in BOOLEAN /\ link' \in {"up", "rebased", "down"}
<1>t. period \in BOOLEAN /\ link \in {"up", "rebased", "down"}
  BY DEF DriverInv, Asio!TypeOK
<1> QED BY <1>t DEF ThreadStep, Asio!WorkerStep, Asio!WorkerBoot, Asio!WorkerLoop,
       Asio!WorkerPeek, Asio!WorkerWait, Asio!WorkerAcquired, Asio!CallbackReturns,
       Asio!WorkerSubmit, Asio!WorkerRecover, Asio!ResyncReturns, Asio!WorkerExit,
       Asio!WorkerReport, Asio!NotifyReturns, Asio!WorkerDies, Asio!EngineCycle,
       Asio!DaemonFails

LEMMA ThreadTypes ==
  ASSUME DriverInv, Asio!AsioAssumption, ThreadStep
  PROVE  gate' \in GateTypes /\ w' \in WorkerTypes
<1> USE ThreadFrame DEF Ended, Goes, Turn, SameAcks, Acks
<1>t. (w \in WorkerTypes /\ gate \in GateTypes)
  BY TypesSplit DEF DriverInv
<1>1. CASE Asio!WorkerBoot
  BY <1>1, <1>t, WorkerBootEffect, AdoptedIs, ApplyGateIs
<1>2. CASE Asio!WorkerLoop
  BY <1>2, <1>t, WorkerLoopEffect, AdoptedIs, ApplyGateIs
<1>3. CASE Asio!WorkerPeek
  BY <1>3, <1>t, WorkerPeekEffect, AdoptedIs, ApplyGateIs
<1>4. CASE Asio!WorkerWait
  BY <1>4, <1>t, WorkerWaitEffect, AdoptedIs, ApplyGateIs
<1>5. CASE Asio!WorkerAcquired
  BY <1>5, <1>t, WorkerAcquiredEffect, AdoptedIs, ApplyGateIs
<1>6. CASE Asio!CallbackReturns
  BY <1>6, <1>t, CallbackReturnsEffect, AdoptedIs, ApplyGateIs
<1>7. CASE Asio!WorkerSubmit
  BY <1>7, <1>t, WorkerSubmitEffect, AdoptedIs, ApplyGateIs
<1>8. CASE Asio!WorkerRecover
  BY <1>8, <1>t, WorkerRecoverEffect, AdoptedIs, ApplyGateIs
<1>9. CASE Asio!ResyncReturns
  BY <1>9, <1>t, ResyncReturnsEffect, AdoptedIs, ApplyGateIs
<1>10. CASE Asio!WorkerExit
  BY <1>10, <1>t, WorkerExitEffect, AdoptedIs, ApplyGateIs
<1>11. CASE Asio!WorkerReport
  BY <1>11, <1>t, WorkerReportEffect, AdoptedIs, ApplyGateIs
<1>12. CASE Asio!NotifyReturns
  BY <1>12, <1>t, NotifyReturnsEffect, AdoptedIs, ApplyGateIs
<1>13. CASE Asio!WorkerDies
  BY <1>13, <1>t, WorkerDiesEffect, AdoptedIs, ApplyGateIs
<1>14. CASE Asio!EngineCycle
  BY <1>14, <1>t, EngineCycleEffect, AdoptedIs, ApplyGateIs
<1>15. CASE Asio!DaemonFails
  BY <1>15, <1>t, DaemonFailsEffect, AdoptedIs, ApplyGateIs
<1> QED BY <1>1, <1>2, <1>3, <1>4, <1>5, <1>6, <1>7, <1>8, <1>9, <1>10, <1>11, <1>12, <1>13,
     <1>14, <1>15 DEF ThreadStep, Asio!WorkerStep

LEMMA ThreadThreads ==
  ASSUME DriverInv, Asio!AsioAssumption, ThreadStep
  PROVE  Threads'
<1> USE ThreadFrame DEF Threads, Ended, Goes, Turn, SameAcks, Acks
<1>t. (w \in WorkerTypes /\ gate \in GateTypes) /\ Threads
  BY TypesSplit DEF DriverInv
<1>1. CASE Asio!WorkerBoot
  BY <1>1, <1>t, WorkerBootEffect, AdoptedIs, ApplyGateIs
<1>2. CASE Asio!WorkerLoop
  BY <1>2, <1>t, WorkerLoopEffect, AdoptedIs, ApplyGateIs
<1>3. CASE Asio!WorkerPeek
  BY <1>3, <1>t, WorkerPeekEffect, AdoptedIs, ApplyGateIs
<1>4. CASE Asio!WorkerWait
  BY <1>4, <1>t, WorkerWaitEffect, AdoptedIs, ApplyGateIs
<1>5. CASE Asio!WorkerAcquired
  BY <1>5, <1>t, WorkerAcquiredEffect, AdoptedIs, ApplyGateIs
<1>6. CASE Asio!CallbackReturns
  BY <1>6, <1>t, CallbackReturnsEffect, AdoptedIs, ApplyGateIs
<1>7. CASE Asio!WorkerSubmit
  BY <1>7, <1>t, WorkerSubmitEffect, AdoptedIs, ApplyGateIs
<1>8. CASE Asio!WorkerRecover
  BY <1>8, <1>t, WorkerRecoverEffect, AdoptedIs, ApplyGateIs
<1>9. CASE Asio!ResyncReturns
  BY <1>9, <1>t, ResyncReturnsEffect, AdoptedIs, ApplyGateIs
<1>10. CASE Asio!WorkerExit
  BY <1>10, <1>t, WorkerExitEffect, AdoptedIs, ApplyGateIs
<1>11. CASE Asio!WorkerReport
  BY <1>11, <1>t, WorkerReportEffect, AdoptedIs, ApplyGateIs
<1>12. CASE Asio!NotifyReturns
  BY <1>12, <1>t, NotifyReturnsEffect, AdoptedIs, ApplyGateIs
<1>13. CASE Asio!WorkerDies
  BY <1>13, <1>t, WorkerDiesEffect, AdoptedIs, ApplyGateIs
<1>14. CASE Asio!EngineCycle
  BY <1>14, <1>t, EngineCycleEffect, AdoptedIs, ApplyGateIs
<1>15. CASE Asio!DaemonFails
  BY <1>15, <1>t, DaemonFailsEffect, AdoptedIs, ApplyGateIs
<1> QED BY <1>1, <1>2, <1>3, <1>4, <1>5, <1>6, <1>7, <1>8, <1>9, <1>10, <1>11, <1>12, <1>13,
     <1>14, <1>15 DEF ThreadStep, Asio!WorkerStep

LEMMA ThreadBound ==
  ASSUME DriverInv, Asio!AsioAssumption, ThreadStep
  PROVE  Bound'
<1> USE ThreadFrame DEF Bound, Entry, Ended, Goes, Turn, SameAcks, Acks
<1>t. (w \in WorkerTypes /\ gate \in GateTypes) /\ Bound
  BY TypesSplit DEF DriverInv
<1>1. CASE Asio!WorkerBoot
  BY <1>1, <1>t, WorkerBootEffect, AdoptedIs, ApplyGateIs
<1>2. CASE Asio!WorkerLoop
  BY <1>2, <1>t, WorkerLoopEffect, AdoptedIs, ApplyGateIs
<1>3. CASE Asio!WorkerPeek
  BY <1>3, <1>t, WorkerPeekEffect, AdoptedIs, ApplyGateIs
<1>4. CASE Asio!WorkerWait
  BY <1>4, <1>t, WorkerWaitEffect, AdoptedIs, ApplyGateIs
<1>5. CASE Asio!WorkerAcquired
  BY <1>5, <1>t, WorkerAcquiredEffect, AdoptedIs, ApplyGateIs
<1>6. CASE Asio!CallbackReturns
  BY <1>6, <1>t, CallbackReturnsEffect, AdoptedIs, ApplyGateIs
<1>7. CASE Asio!WorkerSubmit
  BY <1>7, <1>t, WorkerSubmitEffect, AdoptedIs, ApplyGateIs
<1>8. CASE Asio!WorkerRecover
  BY <1>8, <1>t, WorkerRecoverEffect, AdoptedIs, ApplyGateIs
<1>9. CASE Asio!ResyncReturns
  BY <1>9, <1>t, ResyncReturnsEffect, AdoptedIs, ApplyGateIs
<1>10. CASE Asio!WorkerExit
  BY <1>10, <1>t, WorkerExitEffect, AdoptedIs, ApplyGateIs
<1>11. CASE Asio!WorkerReport
  BY <1>11, <1>t, WorkerReportEffect, AdoptedIs, ApplyGateIs
<1>12. CASE Asio!NotifyReturns
  BY <1>12, <1>t, NotifyReturnsEffect, AdoptedIs, ApplyGateIs
<1>13. CASE Asio!WorkerDies
  BY <1>13, <1>t, WorkerDiesEffect, AdoptedIs, ApplyGateIs
<1>14. CASE Asio!EngineCycle
  BY <1>14, <1>t, EngineCycleEffect, AdoptedIs, ApplyGateIs
<1>15. CASE Asio!DaemonFails
  BY <1>15, <1>t, DaemonFailsEffect, AdoptedIs, ApplyGateIs
<1> QED BY <1>1, <1>2, <1>3, <1>4, <1>5, <1>6, <1>7, <1>8, <1>9, <1>10, <1>11, <1>12, <1>13,
     <1>14, <1>15 DEF ThreadStep, Asio!WorkerStep

LEMMA ThreadCommands ==
  ASSUME DriverInv, Asio!AsioAssumption, ThreadStep
  PROVE  Commands'
<1> USE ThreadFrame DEF Commands, Ended, Leaving, Goes, Turn, SameAcks, Acks
<1>t. (w \in WorkerTypes /\ gate \in GateTypes) /\ Commands /\ Threads
  BY TypesSplit DEF DriverInv
<1> USE FieldsOfGate
<1>1. CASE Asio!WorkerBoot
  BY <1>1, <1>t, WorkerBootEffect, AdoptedIs, ApplyGateIs
<1>2. CASE Asio!WorkerLoop
  BY <1>2, <1>t, WorkerLoopEffect, AdoptedIs, ApplyGateIs
<1>3. CASE Asio!WorkerPeek
  BY <1>3, <1>t, WorkerPeekEffect, AdoptedIs, ApplyGateIs
<1>4. CASE Asio!WorkerWait
  BY <1>4, <1>t, WorkerWaitEffect, AdoptedIs, ApplyGateIs
<1>5. CASE Asio!WorkerAcquired
  BY <1>5, <1>t, WorkerAcquiredEffect, AdoptedIs, ApplyGateIs
<1>6. CASE Asio!CallbackReturns
  BY <1>6, <1>t, CallbackReturnsEffect, AdoptedIs, ApplyGateIs
<1>7. CASE Asio!WorkerSubmit
  BY <1>7, <1>t, WorkerSubmitEffect, AdoptedIs, ApplyGateIs
<1>8. CASE Asio!WorkerRecover
  BY <1>8, <1>t, WorkerRecoverEffect, AdoptedIs, ApplyGateIs
<1>9. CASE Asio!ResyncReturns
  BY <1>9, <1>t, ResyncReturnsEffect, AdoptedIs, ApplyGateIs
<1>10. CASE Asio!WorkerExit
  BY <1>10, <1>t, WorkerExitEffect, AdoptedIs, ApplyGateIs
<1>11. CASE Asio!WorkerReport
  BY <1>11, <1>t, WorkerReportEffect, AdoptedIs, ApplyGateIs
<1>12. CASE Asio!NotifyReturns
  BY <1>12, <1>t, NotifyReturnsEffect, AdoptedIs, ApplyGateIs
<1>13. CASE Asio!WorkerDies
  BY <1>13, <1>t, WorkerDiesEffect, AdoptedIs, ApplyGateIs
<1>14. CASE Asio!EngineCycle
  BY <1>14, <1>t, EngineCycleEffect, AdoptedIs, ApplyGateIs
<1>15. CASE Asio!DaemonFails
  BY <1>15, <1>t, DaemonFailsEffect, AdoptedIs, ApplyGateIs
<1> QED BY <1>1, <1>2, <1>3, <1>4, <1>5, <1>6, <1>7, <1>8, <1>9, <1>10, <1>11, <1>12, <1>13,
     <1>14, <1>15 DEF ThreadStep, Asio!WorkerStep

LEMMA ThreadSilence ==
  ASSUME DriverInv, Asio!AsioAssumption, ThreadStep
  PROVE  Silence' /\ Asio!HostIsLeftAlone'
<1> USE ThreadFrame DEF Silence, Asio!HostIsLeftAlone, Asio!HostIsCalled, Commands,
     Asio!Running, Ended, Leaving, Asio!Passed, Goes, Turn, SameAcks, Acks
<1>t. (w \in WorkerTypes /\ gate \in GateTypes) /\ Commands /\ Threads /\ Silence
      /\ Asio!HostIsLeftAlone
  BY TypesSplit DEF DriverInv
<1> USE FieldsOfGate
<1>1. CASE Asio!WorkerBoot
  BY <1>1, <1>t, WorkerBootEffect, AdoptedIs, ApplyGateIs
<1>2. CASE Asio!WorkerLoop
  BY <1>2, <1>t, WorkerLoopEffect, AdoptedIs, ApplyGateIs
<1>3. CASE Asio!WorkerPeek
  BY <1>3, <1>t, WorkerPeekEffect, AdoptedIs, ApplyGateIs
<1>4. CASE Asio!WorkerWait
  BY <1>4, <1>t, WorkerWaitEffect, AdoptedIs, ApplyGateIs
<1>5. CASE Asio!WorkerAcquired
  BY <1>5, <1>t, WorkerAcquiredEffect, AdoptedIs, ApplyGateIs
<1>6. CASE Asio!CallbackReturns
  BY <1>6, <1>t, CallbackReturnsEffect, AdoptedIs, ApplyGateIs
<1>7. CASE Asio!WorkerSubmit
  BY <1>7, <1>t, WorkerSubmitEffect, AdoptedIs, ApplyGateIs
<1>8. CASE Asio!WorkerRecover
  BY <1>8, <1>t, WorkerRecoverEffect, AdoptedIs, ApplyGateIs
<1>9. CASE Asio!ResyncReturns
  BY <1>9, <1>t, ResyncReturnsEffect, AdoptedIs, ApplyGateIs
<1>10. CASE Asio!WorkerExit
  BY <1>10, <1>t, WorkerExitEffect, AdoptedIs, ApplyGateIs
<1>11. CASE Asio!WorkerReport
  BY <1>11, <1>t, WorkerReportEffect, AdoptedIs, ApplyGateIs
<1>12. CASE Asio!NotifyReturns
  BY <1>12, <1>t, NotifyReturnsEffect, AdoptedIs, ApplyGateIs
<1>13. CASE Asio!WorkerDies
  BY <1>13, <1>t, WorkerDiesEffect, AdoptedIs, ApplyGateIs
<1>14. CASE Asio!EngineCycle
  BY <1>14, <1>t, EngineCycleEffect, AdoptedIs, ApplyGateIs
<1>15. CASE Asio!DaemonFails
  BY <1>15, <1>t, DaemonFailsEffect, AdoptedIs, ApplyGateIs
<1> QED BY <1>1, <1>2, <1>3, <1>4, <1>5, <1>6, <1>7, <1>8, <1>9, <1>10, <1>11, <1>12, <1>13,
     <1>14, <1>15 DEF ThreadStep, Asio!WorkerStep

-----------------------------------------------------------------------------
(* The calls.                                                               *)
LEMMA SetRunningIs ==
  ASSUME gate \in GateTypes, NEW r \in BOOLEAN, Asio!AsioAssumption, gate' = Asio!SetRunning(r),
         gate.generation <= MaxGeneration + (IF gate.running THEN 1 ELSE 2),
         r => gate.generation <= MaxGeneration
  PROVE  /\ gate' \in GateTypes
         /\ gate'.generation = (IF gate.running = r THEN gate.generation ELSE gate.generation + 1)
         /\ gate'.generation \in Asio!Generations
         /\ gate'.running = r /\ gate'.failure = gate.failure /\ gate'.alive = gate.alive
         /\ gate'.runAck = gate.runAck /\ gate'.stopAck = gate.stopAck
<1>1. gate.generation \in Nat /\ gate.generation \in Asio!Generations
      /\ gate.running \in BOOLEAN
  BY FieldsOfGate DEF GateTypes, Asio!Generations
<1>2. CASE gate.running = r
  BY <1>1, <1>2 DEF Asio!SetRunning
<1>3. CASE gate.running # r
  <2>1. gate.generation + 1 \in Asio!Generations
    BY <1>1, <1>3 DEF Asio!Generations, Asio!AsioAssumption
  <2>2. gate' = [gate EXCEPT !.generation = gate.generation + 1, !.running = r, !.signal = TRUE]
    BY <1>3 DEF Asio!SetRunning
  <2> QED BY <1>3, <2>1, <2>2 DEF GateTypes
<1> QED BY <1>2, <1>3

LEMMA FreshIs ==
  ASSUME Asio!AsioAssumption
  PROVE  /\ Asio!NewGate \in GateTypes /\ Asio!NewWorker \in WorkerTypes
         /\ Asio!NoWorker.gate \in GateTypes /\ Asio!NoWorker.w \in WorkerTypes
         /\ Asio!NewGate.generation = 0 /\ Asio!NewGate.running /\ Asio!NewGate.runAck = None
         /\ Asio!NewGate.stopAck = None /\ ~Asio!NewGate.failure /\ Asio!NewGate.alive
         /\ Asio!NoWorker.gate.generation = 0 /\ ~Asio!NoWorker.gate.running
         /\ Asio!NoWorker.gate.runAck = None /\ Asio!NoWorker.gate.stopAck = None
         /\ ~Asio!NoWorker.gate.failure /\ ~Asio!NoWorker.gate.alive
         /\ Asio!NewWorker.pc = "boot" /\ Asio!NewWorker.run = None
         /\ Asio!NewWorker.last = "none"
         /\ Asio!NewWorker.after = "none"
         /\ Asio!NoWorker.w.pc = "none" /\ Asio!NoWorker.w.run = None
         /\ Asio!NoWorker.w.last = "none"
         /\ Asio!NoWorker.w.after = "none"
<1>1. 0 \in Asio!Generations
  BY DEF Asio!Generations, Asio!AsioAssumption
<1>2. Asio!NewGate \in GateTypes /\ Asio!NewWorker \in WorkerTypes
  BY <1>1, MarksAndBlocks DEF Asio!NewGate, Asio!NewWorker, GateTypes, WorkerTypes, Stages
<1> QED BY <1>1, <1>2 DEF Asio!NewGate, Asio!NewWorker, Asio!NoWorker, GateTypes, WorkerTypes,
       Stages

(* The ways a call goes on.                                                 *)
Moves(c, pc) ==
    Moved(c, call[c].op, pc, call[c].want) /\ lifecycle' = lifecycle /\ released' = released
Awaits(c, pc, g) ==
    Moved(c, call[c].op, pc, g) /\ lifecycle' = lifecycle /\ released' = released
Ends(c) ==
    /\ Moved(c, "none", "idle", 0) /\ released' = released
    /\ lifecycle' = IF lifecycle = c THEN None ELSE lifecycle
Joins(c) ==
    /\ Moved(c, IF call[c].op \in {"start", "stop"} THEN "failed" ELSE call[c].op, "join",
             call[c].want)
    /\ lifecycle' = lifecycle /\ released' = released

LEMMA GotoMoves ==
  ASSUME CallTypes, NEW c \in Asio!Callers, NEW pc \in Places, Asio!Goto(c, pc),
         lifecycle' = lifecycle, released' = released
  PROVE  Moves(c, pc)
BY MovedGoto DEF Moves

LEMMA ReturnEnds ==
  ASSUME CallTypes, Asio!AsioAssumption, NEW c \in Asio!Callers, Asio!Return(c) PROVE Ends(c)
<1>1. 0 \in Asio!Generations
  BY DEF Asio!Generations, Asio!AsioAssumption
<1> QED BY <1>1, MovedReturn DEF Ends

LEMMA FailureJoins ==
  ASSUME CallTypes, NEW c \in Asio!Callers, Asio!JoinAfterFailure(c) PROVE Joins(c)
BY MovedJoin DEF Joins

SameDriver == UNCHANGED Asio!driverVars

(* What is told to the thread, and what a new or a joined one leaves.       *)
ToldStop ==
    /\ gate' \in GateTypes /\ gate'.generation \in Asio!Generations
    /\ gate.running => gate'.generation = gate.generation + 1
    /\ ~gate.running => gate'.generation = gate.generation
    /\ ~gate'.running /\ gate'.failure = gate.failure /\ gate'.alive = gate.alive
    /\ gate'.runAck = gate.runAck /\ gate'.stopAck = gate.stopAck

ToldRun ==
    /\ gate' \in GateTypes /\ gate'.generation \in Asio!Generations
    /\ ~gate.running => gate'.generation = gate.generation + 1
    /\ gate.running => gate'.generation = gate.generation
    /\ gate'.running /\ gate'.failure = gate.failure /\ gate'.alive = gate.alive
    /\ gate'.runAck = gate.runAck /\ gate'.stopAck = gate.stopAck

Blank(alive, pc) ==
    /\ gate' \in GateTypes /\ w' \in WorkerTypes
    /\ gate'.generation = 0 /\ gate'.running = alive /\ gate'.alive = alive /\ ~gate'.failure
    /\ gate'.runAck = None /\ gate'.stopAck = None
    /\ w'.pc = pc /\ w'.run = None /\ w'.last = "none" /\ w'.after = "none"

LEMMA StopTold ==
  ASSUME DriverInv, Asio!AsioAssumption, gate' = Asio!SetRunning(FALSE) PROVE ToldStop
<1>1. w \in WorkerTypes /\ gate \in GateTypes
      /\ gate.generation <= MaxGeneration + (IF gate.running THEN 1 ELSE 2)
  BY TypesSplit DEF DriverInv, Commands
<1> QED BY <1>1, SetRunningIs, FieldsOfGate DEF ToldStop

LEMMA RunTold ==
  ASSUME DriverInv, Asio!AsioAssumption, gate' = Asio!SetRunning(TRUE), gate.generation <= MaxGeneration
  PROVE  ToldRun
<1>1. w \in WorkerTypes /\ gate \in GateTypes
      /\ gate.generation <= MaxGeneration + (IF gate.running THEN 1 ELSE 2)
  BY TypesSplit DEF DriverInv, Commands
<1> QED BY <1>1, SetRunningIs, FieldsOfGate DEF ToldRun

LEMMA JoinedBlank ==
  ASSUME Asio!AsioAssumption, gate' = Asio!NoWorker.gate, w' = Asio!NoWorker.w PROVE Blank(FALSE, "none")
BY FreshIs DEF Blank

LEMMA SpawnedBlank ==
  ASSUME Asio!AsioAssumption, gate' = Asio!NewGate, w' = Asio!NewWorker PROVE Blank(TRUE, "boot")
BY FreshIs DEF Blank

SameThread == UNCHANGED <<gate, stop, w>>
SameDaemon == UNCHANGED <<period, link>>

LEMMA IdleEntry == ASSUME NEW c \in Asio!Callers, Ends(c) PROVE Entry(c)'
BY DEF Ends, Moved, Entry, Held

(* A command to stop, given while the driver ran or was stopping.           *)
StopIsTold ==
    /\ state \in Asio!Running /\ ToldStop /\ quiesce' = gate'.generation /\ state' = "Stopping"
    /\ UNCHANGED <<stream, playback, worker, w>>

LEMMA StopCommands ==
  ASSUME DriverInv, Asio!AsioAssumption, StopIsTold
  PROVE  Commands' /\ Threads'
<1>t. w \in WorkerTypes /\ gate \in GateTypes /\ Commands /\ Threads
  BY TypesSplit DEF DriverInv
<1>1. Threads'
  BY <1>t DEF Threads, Ended, StopIsTold, ToldStop
<1>2. /\ gate'.generation \in Nat /\ gate.generation <= gate'.generation
      /\ gate'.generation <= MaxGeneration + 2
      /\ gate'.runAck = gate.runAck /\ gate'.stopAck = gate.stopAck /\ w' = w
      /\ ~gate'.running /\ state' = "Stopping" /\ quiesce' = gate'.generation
      /\ worker' = worker /\ worker # "none"
  BY <1>t, FieldsOfGate DEF Commands, StopIsTold, ToldStop, Asio!AsioAssumption
<1> QED BY <1>1, <1>2, <1>t, FieldsOfGate DEF Commands, Asio!Running, Asio!AsioAssumption

LEMMA StopSilence ==
  ASSUME DriverInv, Asio!AsioAssumption, StopIsTold
  PROVE  Silence' /\ Asio!HostIsLeftAlone'
<1>t. w \in WorkerTypes /\ gate \in GateTypes /\ Commands /\ Silence
  BY TypesSplit DEF DriverInv
<1> QED BY <1>t, FieldsOfGate DEF Commands, Silence, Asio!HostIsLeftAlone, Asio!HostIsCalled,
       StopIsTold, ToldStop, Asio!Running, Asio!AsioAssumption

(* A joined worker leaves nothing behind, a new one begins with nothing.    *)
LEMMA JoinedCommands ==
  ASSUME Asio!AsioAssumption, Blank(FALSE, "none"), state' = "Prepared", quiesce' = None,
         worker' = "none"
  PROVE  Commands' /\ Threads' /\ Silence' /\ Asio!HostIsLeftAlone'
BY DEF Commands, Threads, Silence, Asio!HostIsLeftAlone, Asio!HostIsCalled, Blank, Ended,
   Asio!Running, Asio!AsioAssumption

LEMMA SpawnedCommands ==
  ASSUME Asio!AsioAssumption, Blank(TRUE, "boot"), state' = "Running", quiesce' = None,
         worker' = "kept"
  PROVE  Commands' /\ Threads' /\ Silence' /\ Asio!HostIsLeftAlone'
BY DEF Commands, Threads, Silence, Asio!HostIsLeftAlone, Asio!HostIsCalled, Blank, Ended,
   Leaving, Asio!Running, Asio!AsioAssumption

LEMMA RunCommands ==
  ASSUME DriverInv, Asio!AsioAssumption, ToldRun, state = "Prepared", state' = "Running",
         worker = "kept", gate.generation <= MaxGeneration,
         UNCHANGED <<worker, stream, quiesce, w>>
  PROVE  Commands' /\ Threads'
<1>t. w \in WorkerTypes /\ gate \in GateTypes /\ Commands /\ Threads
  BY TypesSplit DEF DriverInv
<1>1. Threads'
  BY <1>t DEF Threads, Ended, ToldRun
<1>2. /\ gate'.generation \in Nat /\ gate'.generation = gate.generation + 1
      /\ gate'.generation <= MaxGeneration + 1
      /\ gate'.runAck = gate.runAck /\ gate'.stopAck = gate.stopAck /\ w' = w
      /\ gate'.running /\ state' = "Running" /\ quiesce' = None
      /\ worker' = "kept"
  BY <1>t, FieldsOfGate DEF Commands, ToldRun, Asio!AsioAssumption
<1> QED BY <1>1, <1>2, <1>t, FieldsOfGate DEF Commands, Asio!Running, Asio!AsioAssumption

LEMMA CreateBuffersEffect ==
  ASSUME DriverInv, Asio!AsioAssumption, NEW c \in Asio!Callers, Asio!CreateBuffers(c)
  PROVE
    /\ call[c].pc = "asked" /\ Ends(c)
    /\ \/ /\ state = "Initialized" /\ state' = "Prepared" /\ stream' = "driver"
          /\ playback' \in BOOLEAN
          /\ UNCHANGED <<worker, quiesce, observed>> /\ period' = FALSE /\ link' = "up"
       \/ SameDriver /\ SameDaemon
    /\ SameThread
<1>t. CallTypes /\ gate \in GateTypes /\ DriverTypes
  BY TypesSplit DEF DriverInv
<1> QED BY <1>t, ReturnEnds DEF Asio!CreateBuffers, Asio!At, SameDriver, SameThread, SameDaemon,
       Asio!driverVars, Asio!callVars, Asio!driverSide

LEMMA BeginStopEffect ==
  ASSUME DriverInv, Asio!AsioAssumption, NEW c \in Asio!Callers, Asio!BeginStop(c)
  PROVE
    /\ call[c].pc = "entered"
    /\ \/ Ends(c) /\ UNCHANGED <<state, quiesce, gate>>
       \/ /\ state' = "Stopping" /\ Awaits(c, "awaitStop", quiesce') /\ worker # "none"
          /\ \/ state = "Running" /\ ToldStop /\ quiesce' = gate'.generation
             \/ state = "Stopping" /\ UNCHANGED <<gate, quiesce>>
       \/ /\ UNCHANGED <<state, quiesce, gate>>
          /\ \/ call[c].op = "start" /\ Moves(c, "reap")
             \/ call[c].op = "stop" /\ Moves(c, "act")
             \/ call[c].op \notin {"start", "stop"} /\ Moves(c, "join")
    /\ UNCHANGED <<stream, playback, worker, observed, stop, w>> /\ SameDaemon
<1>t. CallTypes /\ gate \in GateTypes /\ DriverTypes
  BY TypesSplit DEF DriverInv
<1>1. /\ call[c].pc = "entered"
      /\ UNCHANGED <<stream, playback, worker, observed, stop, w>> /\ SameDaemon
  BY DEF Asio!BeginStop, SameDaemon
<1>2. CASE Asio!Return(c) /\ UNCHANGED <<state, quiesce, gate>>
  BY <1>1, <1>2, <1>t, ReturnEnds
<1>3. CASE Asio!Stopping(c) /\ UNCHANGED <<lifecycle, released>>
           /\ state \in Asio!Running /\ worker # "none" /\ (state = "Stopping" => quiesce # None)
  <2>1. quiesce' \in Asio!Generations
    <3>1. CASE state = "Running"
      BY <1>3, <3>1, StopTold DEF Asio!Stopping, ToldStop
    <3>2. CASE state # "Running"
      BY <1>3, <3>2, <1>t DEF Asio!Stopping, DriverTypes, Marks, Asio!Running
    <3> QED BY <3>1, <3>2
  <2>2. Awaits(c, "awaitStop", quiesce')
    BY <2>1, <1>3, <1>t, MovedAwait DEF Asio!Stopping, Awaits, Places, Held
  <2> QED BY <1>1, <1>3, <2>2, StopTold DEF Asio!Stopping, Asio!Running
<1>4. CASE \E pc \in Places : /\ Asio!Goto(c, pc) /\ UNCHANGED <<state, quiesce, gate, lifecycle, released>>
             /\ pc = CASE call[c].op = "start" -> "reap" [] call[c].op = "stop" -> "act"
                       [] OTHER -> "join"
  <2> PICK pc \in Places : /\ Asio!Goto(c, pc) /\ UNCHANGED <<state, quiesce, gate, lifecycle, released>>
             /\ pc = CASE call[c].op = "start" -> "reap" [] call[c].op = "stop" -> "act"
                       [] OTHER -> "join"
    BY <1>4
  <2>1. Moves(c, pc)
    BY <1>t, GotoMoves
  <2> QED BY <2>1, <1>1
<1> QED
  <2> DEFINE pc == CASE call[c].op = "start" -> "reap" [] call[c].op = "stop" -> "act"
                     [] OTHER -> "join"
  <2>1. pc \in Places
    BY DEF Places, Held
  <2> QED BY <1>2, <1>3, <1>4, <2>1 DEF Asio!BeginStop, Asio!Running

LEMMA StopAcknowledgedEffect ==
  ASSUME DriverInv, Asio!AsioAssumption, NEW c \in Asio!Callers, Asio!StopAcknowledged(c)
  PROVE
    /\ call[c].pc = "awaitStop" /\ state' = "Prepared" /\ quiesce' = None
    /\ gate.stopAck = gate.generation /\ ~gate.failure
    /\ \/ call[c].op = "stop" /\ Ends(c)
       \/ call[c].op = "start" /\ Moves(c, "reap")
       \/ call[c].op \notin {"start", "stop"} /\ Moves(c, "join")
    /\ UNCHANGED <<stream, playback, worker, observed>> /\ SameThread /\ SameDaemon
<1>t. CallTypes /\ gate \in GateTypes /\ DriverTypes
  BY TypesSplit DEF DriverInv
<1>1. call[c].pc = "awaitStop" /\ state = "Stopping" /\ call[c].want = gate.generation
      /\ quiesce = gate.generation
  BY DEF Asio!StopAcknowledged, DriverInv, Bound, Entry, Commands
<1>2. gate.stopAck = gate.generation /\ ~gate.failure
  BY <1>1 DEF Asio!StopAcknowledged, Asio!WaitSucceeds, Asio!Acknowledged
<1>3. \/ call[c].op = "stop" /\ Ends(c)
      \/ call[c].op = "start" /\ Moves(c, "reap")
      \/ call[c].op \notin {"start", "stop"} /\ Moves(c, "join")
  <2>1. {"reap", "join"} \subseteq Places
    BY DEF Places, Held
  <2>2. CASE call[c].op = "stop"
    BY <2>2, <1>t, ReturnEnds DEF Asio!StopAcknowledged
  <2>3. CASE call[c].op = "start"
    BY <2>1, <2>3, <1>t, GotoMoves DEF Asio!StopAcknowledged
  <2>4. CASE call[c].op \notin {"start", "stop"}
    BY <2>1, <2>4, <1>t, GotoMoves DEF Asio!StopAcknowledged
  <2> QED BY <2>2, <2>3, <2>4
<1> QED BY <1>1, <1>2, <1>3 DEF Asio!StopAcknowledged, SameDriver, SameThread, SameDaemon,
       Asio!driverVars, Asio!callVars, Asio!driverSide

LEMMA StopUnacknowledgedEffect ==
  ASSUME DriverInv, Asio!AsioAssumption, NEW c \in Asio!Callers, Asio!StopUnacknowledged(c)
  PROVE
    /\ call[c].pc = "awaitStop" /\ (Ends(c) \/ (Joins(c) /\ worker = "kept"))
    /\ SameDriver /\ SameThread /\ SameDaemon
<1>t. CallTypes /\ gate \in GateTypes /\ DriverTypes
  BY TypesSplit DEF DriverInv
<1>1. CASE Asio!HasExited
  BY <1>1, <1>t, FailureJoins DEF Asio!StopUnacknowledged, Asio!HasExited, SameDriver,
     SameThread, SameDaemon, Asio!driverVars, Asio!callVars, Asio!driverSide
<1>2. CASE ~Asio!HasExited
  <2>1. Asio!Return(c)
    BY <1>2, Zenon DEF Asio!StopUnacknowledged
  <2>2. Ends(c)
    BY <2>1, <1>t, ReturnEnds
  <2> QED BY <2>2 DEF Asio!StopUnacknowledged, SameDriver, SameThread, SameDaemon,
         Asio!driverVars, Asio!callVars, Asio!driverSide
<1> QED BY <1>1, <1>2

LEMMA ReapEffect ==
  ASSUME DriverInv, Asio!AsioAssumption, NEW c \in Asio!Callers, Asio!Reap(c)
  PROVE
    /\ call[c].pc = "reap"
    /\ \/ Moves(c, "join") /\ observed' = observed
       \/ Ends(c) /\ observed' = TRUE
       \/ call[c].op = "stop" /\ Moves(c, "entered") /\ observed' = observed
       \/ call[c].op # "stop" /\ Moves(c, "act") /\ observed' = observed
    /\ UNCHANGED <<state, stream, playback, worker, quiesce>> /\ SameThread /\ SameDaemon
<1>t. CallTypes /\ gate \in GateTypes /\ DriverTypes
  BY TypesSplit DEF DriverInv
<1>p. {"join", "entered", "act"} \subseteq Places
  BY DEF Places, Held
<1>1. CASE Asio!Goto(c, "join") /\ UNCHANGED <<observed, lifecycle, released>>
  BY <1>1, <1>p, <1>t, GotoMoves DEF Asio!Reap, SameDriver, SameThread, SameDaemon,
     Asio!driverVars, Asio!callVars, Asio!driverSide
<1>2. CASE Asio!Return(c) /\ observed' = TRUE
  BY <1>2, <1>t, ReturnEnds DEF Asio!Reap, SameDriver, SameThread, SameDaemon, Asio!driverVars,
     Asio!callVars, Asio!driverSide
<1>3. CASE call[c].op = "stop" /\ Asio!Goto(c, "entered")
      /\ UNCHANGED <<observed, lifecycle, released>>
  BY <1>3, <1>p, <1>t, GotoMoves DEF Asio!Reap, SameDriver, SameThread, SameDaemon,
     Asio!driverVars, Asio!callVars, Asio!driverSide
<1>4. CASE call[c].op # "stop" /\ Asio!Goto(c, "act")
      /\ UNCHANGED <<observed, lifecycle, released>>
  BY <1>4, <1>p, <1>t, GotoMoves DEF Asio!Reap, SameDriver, SameThread, SameDaemon,
     Asio!driverVars, Asio!callVars, Asio!driverSide
<1> QED BY <1>1, <1>2, <1>3, <1>4 DEF Asio!Reap

LEMMA BeginJoinEffect ==
  ASSUME DriverInv, Asio!AsioAssumption, NEW c \in Asio!Callers, Asio!BeginJoin(c)
  PROVE
    /\ call[c].pc = "join"
    /\ \/ worker = "kept" /\ worker' = "taken" /\ stop' = TRUE /\ Moves(c, "joining")
          /\ UNCHANGED <<state, quiesce>>
       \/ worker = "none" /\ worker' = "none" /\ stop' = stop /\ quiesce' = None /\ Moves(c, "act")
          /\ state' = state
    /\ UNCHANGED <<stream, playback, observed, gate, w>> /\ SameDaemon
<1>t. CallTypes /\ gate \in GateTypes /\ DriverTypes
  BY TypesSplit DEF DriverInv
<1>p. {"joining", "act"} \subseteq Places
  BY DEF Places, Held
<1>1. CASE worker = "kept"
  BY <1>1, <1>p, <1>t, GotoMoves DEF Asio!BeginJoin, SameDriver, SameThread, SameDaemon,
     Asio!driverVars, Asio!callVars, Asio!driverSide
<1>2. CASE worker # "kept"
  <2>1. worker = "none" /\ state # "Stopping"
    BY <1>2, <1>t DEF Asio!BeginJoin, DriverInv, Bound, Entry, Commands, DriverTypes, Held,
       Asio!Running
  <2> QED BY <2>1, <1>p, <1>t, GotoMoves DEF Asio!BeginJoin, SameDriver, SameThread, SameDaemon,
         Asio!driverVars, Asio!callVars, Asio!driverSide
<1> QED BY <1>1, <1>2

LEMMA JoinedEffect ==
  ASSUME DriverInv, Asio!AsioAssumption, NEW c \in Asio!Callers, Asio!Joined(c)
  PROVE
    /\ call[c].pc = "joining"
    /\ worker' = "none" /\ stream' = "driver" /\ state' = "Prepared" /\ quiesce' = None
    /\ observed' \in BOOLEAN /\ Blank(FALSE, "none") /\ stop' = FALSE
    /\ Ends(c) \/ (call[c].op \in {"start", "dispose", "close"} /\ Moves(c, "act"))
    /\ playback' = playback /\ SameDaemon
<1>t. CallTypes /\ gate \in GateTypes /\ DriverTypes
  BY TypesSplit DEF DriverInv
<1>p. "act" \in Places /\ (observed \/ w.error) \in BOOLEAN
  BY DEF Places, Held
<1>1. CASE Asio!Return(c)
  BY <1>1, <1>p, <1>t, ReturnEnds, JoinedBlank DEF Asio!Joined, SameDriver, SameThread,
     SameDaemon, Asio!driverVars, Asio!callVars, Asio!driverSide
<1>2. CASE call[c].op \in {"start", "dispose", "close"} /\ Asio!Goto(c, "act")
           /\ UNCHANGED <<lifecycle, released>>
  BY <1>2, <1>p, <1>t, GotoMoves, JoinedBlank DEF Asio!Joined, SameDriver, SameThread,
     SameDaemon, Asio!driverVars, Asio!callVars, Asio!driverSide
<1> QED BY <1>1, <1>2 DEF Asio!Joined

LEMMA JoinTimesOutEffect ==
  ASSUME DriverInv, Asio!AsioAssumption, NEW c \in Asio!Callers, Asio!JoinTimesOut(c)
  PROVE
    /\ call[c].pc = "joining" /\ Ends(c) /\ worker' = "kept"
    /\ UNCHANGED <<state, stream, playback, quiesce, observed>> /\ SameThread /\ SameDaemon
<1>t. CallTypes /\ gate \in GateTypes /\ DriverTypes
  BY TypesSplit DEF DriverInv
<1> QED BY <1>t, ReturnEnds DEF Asio!JoinTimesOut, SameDriver, SameThread, SameDaemon,
       Asio!driverVars, Asio!callVars, Asio!driverSide

LEMMA StartWorkerEffect ==
  ASSUME DriverInv, Asio!AsioAssumption, NEW c \in Asio!Callers, Asio!StartWorker(c)
  PROVE
    /\ call[c].pc = "act" /\ call[c].op = "start" /\ state = "Prepared" /\ state' = "Running"
    /\ gate.generation <= MaxGeneration
    /\ \/ /\ worker = "kept" /\ ToldRun
          /\ Awaits(c, "awaitStart", gate'.generation)
          /\ UNCHANGED <<worker, stream, quiesce, stop, w>>
       \/ /\ stream = "driver" /\ Blank(TRUE, "boot") /\ stop' = FALSE
          /\ worker' = "kept" /\ stream' = "worker" /\ quiesce' = None
          /\ Awaits(c, "awaitStart", 0)
    /\ UNCHANGED <<playback, observed>> /\ SameDaemon
<1>t. CallTypes /\ gate \in GateTypes /\ DriverTypes
  BY TypesSplit DEF DriverInv
<1>p. "awaitStart" \in Places /\ 0 \in Asio!Generations
  BY DEF Places, Held, Asio!Generations, Asio!AsioAssumption
<1>1. CASE worker = "kept"
  <2>1. ToldRun /\ gate'.generation \in Asio!Generations
    BY <1>1, RunTold DEF Asio!StartWorker, ToldRun
  <2> QED BY <1>1, <2>1, <1>p, <1>t, MovedAwait, SpawnedBlank DEF Asio!StartWorker, Asio!At,
         Awaits, SameDriver, SameThread, SameDaemon, Asio!driverVars, Asio!callVars,
         Asio!driverSide
<1>2. CASE worker # "kept"
  BY <1>2, <1>p, <1>t, MovedAwait, SpawnedBlank DEF Asio!StartWorker, Asio!At, Awaits,
     SameDriver, SameThread, SameDaemon, Asio!driverVars, Asio!callVars, Asio!driverSide
<1> QED BY <1>1, <1>2

LEMMA StartRefusedEffect ==
  ASSUME DriverInv, Asio!AsioAssumption, NEW c \in Asio!Callers, Asio!StartRefused(c)
  PROVE
    /\ call[c].pc = "act" /\ Ends(c) /\ observed' \in BOOLEAN
    /\ UNCHANGED <<state, stream, playback, worker, quiesce>> /\ SameThread /\ SameDaemon
<1>t. CallTypes /\ gate \in GateTypes /\ DriverTypes
  BY TypesSplit DEF DriverInv
<1> QED BY <1>t, ReturnEnds DEF Asio!StartRefused, Asio!At, Asio!Failing, DriverTypes,
       GateTypes, SameDriver, SameThread, SameDaemon, Asio!driverVars, Asio!callVars,
       Asio!driverSide

LEMMA StartedEffect ==
  ASSUME DriverInv, Asio!AsioAssumption, NEW c \in Asio!Callers, Asio!Started(c)
  PROVE
    /\ call[c].pc = "awaitStart" /\ Ends(c) /\ SameDriver /\ SameThread /\ SameDaemon
<1>t. CallTypes /\ gate \in GateTypes /\ DriverTypes
  BY TypesSplit DEF DriverInv
<1> QED BY <1>t, ReturnEnds DEF Asio!Started, SameDriver, SameThread, SameDaemon,
       Asio!driverVars, Asio!callVars, Asio!driverSide

LEMMA StartFailsEffect ==
  ASSUME DriverInv, Asio!AsioAssumption, NEW c \in Asio!Callers, Asio!StartFails(c)
  PROVE
    /\ call[c].pc = "awaitStart" /\ (Ends(c) \/ (Joins(c) /\ worker = "kept"))
    /\ ToldStop /\ quiesce' = gate'.generation /\ state' = "Stopping"
    /\ UNCHANGED <<stream, playback, worker, observed, stop, w>> /\ SameDaemon
<1>t. CallTypes /\ gate \in GateTypes /\ DriverTypes
  BY TypesSplit DEF DriverInv
<1>1. CASE Asio!HasExited
  BY <1>1, <1>t, FailureJoins, StopTold DEF Asio!StartFails, Asio!HasExited, SameDriver,
     SameThread, SameDaemon, Asio!driverVars, Asio!callVars, Asio!driverSide
<1>2. CASE ~Asio!HasExited
  <2>1. Asio!Return(c)
    BY <1>2, Zenon DEF Asio!StartFails
  <2>2. Ends(c)
    BY <2>1, <1>t, ReturnEnds
  <2> QED BY <2>2, StopTold DEF Asio!StartFails, SameDriver, SameThread, SameDaemon,
         Asio!driverVars, Asio!callVars, Asio!driverSide
<1> QED BY <1>1, <1>2

LEMMA StopIdleEffect ==
  ASSUME DriverInv, Asio!AsioAssumption, NEW c \in Asio!Callers, Asio!StopIdle(c)
  PROVE
    /\ call[c].pc = "act" /\ Ends(c) /\ SameDriver /\ SameThread /\ SameDaemon
<1>t. CallTypes /\ gate \in GateTypes /\ DriverTypes
  BY TypesSplit DEF DriverInv
<1> QED BY <1>t, ReturnEnds DEF Asio!StopIdle, Asio!At, SameDriver, SameThread, SameDaemon,
       Asio!driverVars, Asio!callVars, Asio!driverSide

LEMMA DisposeBuffersEffect ==
  ASSUME DriverInv, Asio!AsioAssumption, NEW c \in Asio!Callers, Asio!DisposeBuffers(c)
  PROVE
    /\ call[c].pc = "act" /\ call[c].op = "dispose"
    /\ \/ /\ state = "Prepared" /\ state' = "Initialized" /\ stream' = "none" /\ observed' = FALSE
          /\ Moves(c, "closing")
       \/ Ends(c) /\ UNCHANGED <<state, observed, stream>>
    /\ UNCHANGED <<playback, worker, quiesce>> /\ SameThread /\ SameDaemon
<1>t. CallTypes /\ gate \in GateTypes /\ DriverTypes
  BY TypesSplit DEF DriverInv
<1>p. "closing" \in Places
  BY DEF Places, Held
<1> QED BY <1>t, <1>p, ReturnEnds, GotoMoves DEF Asio!DisposeBuffers, Asio!At, SameDriver,
       SameThread, SameDaemon, Asio!driverVars, Asio!callVars, Asio!driverSide

LEMMA CloseEffect ==
  ASSUME DriverInv, Asio!AsioAssumption, NEW c \in Asio!Callers, Asio!Close(c)
  PROVE
    /\ call[c].pc = "act" /\ call[c].op = "close"
    /\ \/ state' = "Freed" /\ Ends(c) /\ UNCHANGED stream
          /\ (state \in {"Destroying", "Loaded"} \/ stream = "none")
       \/ /\ state' = "Destroying" /\ stream' = "none" /\ Moves(c, "closing")
    /\ UNCHANGED <<playback, worker, quiesce, observed>> /\ SameThread /\ SameDaemon
<1>t. CallTypes /\ gate \in GateTypes /\ DriverTypes
  BY TypesSplit DEF DriverInv
<1>p. "closing" \in Places
  BY DEF Places, Held
<1> QED BY <1>t, <1>p, ReturnEnds, GotoMoves DEF Asio!Close, Asio!At, SameDriver, SameThread,
       SameDaemon, Asio!driverVars, Asio!callVars, Asio!driverSide

LEMMA CloseStreamEffect ==
  ASSUME DriverInv, Asio!AsioAssumption, NEW c \in Asio!Callers, Asio!CloseStream(c)
  PROVE
    /\ call[c].pc = "closing" /\ Ends(c)
    /\ state' = state \/ (call[c].op = "close" /\ state' = "Freed")
    /\ UNCHANGED <<stream, playback, worker, quiesce, observed>> /\ SameThread /\ SameDaemon
<1>t. CallTypes /\ gate \in GateTypes /\ DriverTypes
  BY TypesSplit DEF DriverInv
<1> QED BY <1>t, ReturnEnds DEF Asio!CloseStream, SameDriver, SameThread, SameDaemon,
       Asio!driverVars, Asio!callVars, Asio!driverSide

LEMMA StartFailsTold ==
  ASSUME DriverInv, Asio!AsioAssumption, NEW c \in Asio!Callers, Asio!StartFails(c)
  PROVE  StopIsTold
<1>1. state \in Asio!Running
  BY StartFailsEffect DEF DriverInv, Bound, Entry
<1> QED BY <1>1, StartFailsEffect DEF StopIsTold

LEMMA BeginStopTold ==
  ASSUME DriverInv, Asio!AsioAssumption, NEW c \in Asio!Callers, Asio!BeginStop(c)
  PROVE  StopIsTold \/ UNCHANGED <<state, stream, playback, worker, quiesce, gate, w>>
<1>1. StopIsTold \/ UNCHANGED <<state, quiesce, gate>>
  BY BeginStopEffect DEF StopIsTold, Asio!Running
<1> QED BY <1>1, BeginStopEffect

LEMMA CallMutex ==
  ASSUME DriverInv, Asio!AsioAssumption, NEW c \in Asio!Callers, Asio!CallStep(c)
  PROVE  Mutex'
<1> USE DEF Mutex, Held, Asio!AsioAssumption, Moves, Awaits, Ends, Joins, Moved, ToldStop,
     ToldRun, Blank, SameDriver, SameThread, SameDaemon, Asio!driverVars
<1>t. Asio!AsioAssumption /\ Mutex
  BY TypesSplit DEF DriverInv
<1>1. CASE Asio!CreateBuffers(c)
  BY <1>1, <1>t, CreateBuffersEffect
<1>2. CASE Asio!BeginStop(c)
  BY <1>2, <1>t, BeginStopEffect
<1>3. CASE Asio!StopAcknowledged(c)
  BY <1>3, <1>t, StopAcknowledgedEffect
<1>4. CASE Asio!StopUnacknowledged(c)
  BY <1>4, <1>t, StopUnacknowledgedEffect
<1>5. CASE Asio!Reap(c)
  <2>1. CASE Ends(c)
    BY <1>5, <2>1, <1>t, ReapEffect
  <2>2. CASE Moves(c, "join") \/ Moves(c, "entered") \/ Moves(c, "act")
    BY <1>5, <2>2, <1>t, ReapEffect
  <2> QED BY <1>5, <2>1, <2>2, ReapEffect
<1>6. CASE Asio!BeginJoin(c)
  BY <1>6, <1>t, BeginJoinEffect
<1>7. CASE Asio!Joined(c)
  BY <1>7, <1>t, JoinedEffect
<1>8. CASE Asio!JoinTimesOut(c)
  BY <1>8, <1>t, JoinTimesOutEffect
<1>9. CASE Asio!StartWorker(c)
  BY <1>9, <1>t, StartWorkerEffect
<1>10. CASE Asio!StartRefused(c)
  BY <1>10, <1>t, StartRefusedEffect
<1>11. CASE Asio!Started(c)
  BY <1>11, <1>t, StartedEffect
<1>12. CASE Asio!StartFails(c)
  BY <1>12, <1>t, StartFailsEffect
<1>13. CASE Asio!StopIdle(c)
  BY <1>13, <1>t, StopIdleEffect
<1>14. CASE Asio!DisposeBuffers(c)
  BY <1>14, <1>t, DisposeBuffersEffect
<1>15. CASE Asio!Close(c)
  BY <1>15, <1>t, CloseEffect
<1>16. CASE Asio!CloseStream(c)
  BY <1>16, <1>t, CloseStreamEffect
<1> QED BY <1>1, <1>2, <1>3, <1>4, <1>5, <1>6, <1>7, <1>8, <1>9, <1>10, <1>11, <1>12, <1>13,
     <1>14, <1>15, <1>16 DEF Asio!CallStep

LEMMA CallPurposes ==
  ASSUME DriverInv, Asio!AsioAssumption, NEW c \in Asio!Callers, Asio!CallStep(c)
  PROVE  Purposes'
<1> USE DEF Purposes, Moves, Awaits, Ends, Joins, Moved
<1>t. Purposes
  BY TypesSplit DEF DriverInv
<1>w. worker # "kept" /\ call[c].pc = "join" => call[c].op \in {"start", "stop", "dispose", "close"}
  BY TypesSplit DEF DriverInv, Bound, Entry, Purposes, CallTypes, Ops
<1>1. CASE Asio!CreateBuffers(c)
  BY <1>1, <1>t, CreateBuffersEffect
<1>2. CASE Asio!BeginStop(c)
  BY <1>2, <1>t, BeginStopEffect
<1>3. CASE Asio!StopAcknowledged(c)
  BY <1>3, <1>t, StopAcknowledgedEffect
<1>4. CASE Asio!StopUnacknowledged(c)
  BY <1>4, <1>t, StopUnacknowledgedEffect
<1>5. CASE Asio!Reap(c)
  BY <1>5, <1>t, ReapEffect
<1>6. CASE Asio!BeginJoin(c)
  BY <1>6, <1>t, BeginJoinEffect, <1>w
<1>7. CASE Asio!Joined(c)
  <2>1. CASE Ends(c)
    BY <1>7, <2>1, <1>t, JoinedEffect
  <2>2. CASE call[c].op \in {"start", "dispose", "close"} /\ Moves(c, "act")
    BY <1>7, <2>2, <1>t, JoinedEffect
  <2> QED BY <1>7, <2>1, <2>2, JoinedEffect
<1>8. CASE Asio!JoinTimesOut(c)
  BY <1>8, <1>t, JoinTimesOutEffect
<1>9. CASE Asio!StartWorker(c)
  BY <1>9, <1>t, StartWorkerEffect
<1>10. CASE Asio!StartRefused(c)
  BY <1>10, <1>t, StartRefusedEffect
<1>11. CASE Asio!Started(c)
  BY <1>11, <1>t, StartedEffect
<1>12. CASE Asio!StartFails(c)
  BY <1>12, <1>t, StartFailsEffect
<1>13. CASE Asio!StopIdle(c)
  BY <1>13, <1>t, StopIdleEffect
<1>14. CASE Asio!DisposeBuffers(c)
  BY <1>14, <1>t, DisposeBuffersEffect
<1>15. CASE Asio!Close(c)
  BY <1>15, <1>t, CloseEffect
<1>16. CASE Asio!CloseStream(c)
  BY <1>16, <1>t, CloseStreamEffect
<1> QED BY <1>1, <1>2, <1>3, <1>4, <1>5, <1>6, <1>7, <1>8, <1>9, <1>10, <1>11, <1>12, <1>13,
     <1>14, <1>15, <1>16 DEF Asio!CallStep

LEMMA CallTypesKept ==
  ASSUME DriverInv, Asio!AsioAssumption, NEW c \in Asio!Callers, Asio!CallStep(c)
  PROVE  CallTypes' /\ gate' \in GateTypes /\ w' \in WorkerTypes
<1> USE DEF Asio!Running, Moves, Awaits, Ends, Joins, Moved, ToldStop, ToldRun, Blank,
     SameDriver, SameThread, SameDaemon, Asio!driverVars
<1>t. Asio!AsioAssumption /\ w \in WorkerTypes /\ gate \in GateTypes
  BY TypesSplit DEF DriverInv
<1>1. CASE Asio!CreateBuffers(c)
  BY <1>1, <1>t, CreateBuffersEffect
<1>2. CASE Asio!BeginStop(c)
  BY <1>2, <1>t, BeginStopEffect
<1>3. CASE Asio!StopAcknowledged(c)
  BY <1>3, <1>t, StopAcknowledgedEffect
<1>4. CASE Asio!StopUnacknowledged(c)
  BY <1>4, <1>t, StopUnacknowledgedEffect
<1>5. CASE Asio!Reap(c)
  BY <1>5, <1>t, ReapEffect
<1>6. CASE Asio!BeginJoin(c)
  BY <1>6, <1>t, BeginJoinEffect
<1>7. CASE Asio!Joined(c)
  BY <1>7, <1>t, JoinedEffect
<1>8. CASE Asio!JoinTimesOut(c)
  BY <1>8, <1>t, JoinTimesOutEffect
<1>9. CASE Asio!StartWorker(c)
  BY <1>9, <1>t, StartWorkerEffect
<1>10. CASE Asio!StartRefused(c)
  BY <1>10, <1>t, StartRefusedEffect
<1>11. CASE Asio!Started(c)
  BY <1>11, <1>t, StartedEffect
<1>12. CASE Asio!StartFails(c)
  BY <1>12, <1>t, StartFailsEffect
<1>13. CASE Asio!StopIdle(c)
  BY <1>13, <1>t, StopIdleEffect
<1>14. CASE Asio!DisposeBuffers(c)
  BY <1>14, <1>t, DisposeBuffersEffect
<1>15. CASE Asio!Close(c)
  BY <1>15, <1>t, CloseEffect
<1>16. CASE Asio!CloseStream(c)
  BY <1>16, <1>t, CloseStreamEffect
<1> QED BY <1>1, <1>2, <1>3, <1>4, <1>5, <1>6, <1>7, <1>8, <1>9, <1>10, <1>11, <1>12, <1>13,
     <1>14, <1>15, <1>16 DEF Asio!CallStep

LEMMA CallThreads ==
  ASSUME DriverInv, Asio!AsioAssumption, NEW c \in Asio!Callers, Asio!CallStep(c)
  PROVE  Threads'
<1> USE DEF Threads, Bound, Entry, Entry, Ended, Moves, Awaits, Ends, Joins, Moved, ToldStop,
     ToldRun, Blank, SameDriver, SameThread, SameDaemon, Asio!driverVars
<1>t. Asio!AsioAssumption /\ w \in WorkerTypes /\ gate \in GateTypes /\ Threads /\ Bound
  BY TypesSplit DEF DriverInv
<1>1. CASE Asio!CreateBuffers(c)
  BY <1>1, <1>t, CreateBuffersEffect, FieldsOfGate
<1>2. CASE Asio!BeginStop(c)
  <2>1. CASE StopIsTold
    BY <2>1, StopCommands
  <2>2. CASE UNCHANGED <<state, stream, playback, worker, quiesce, gate, w>>
    BY <2>2, <1>t
  <2> QED BY <1>2, <2>1, <2>2, BeginStopTold
<1>3. CASE Asio!StopAcknowledged(c)
  BY <1>3, <1>t, StopAcknowledgedEffect, FieldsOfGate
<1>4. CASE Asio!StopUnacknowledged(c)
  BY <1>4, <1>t, StopUnacknowledgedEffect, FieldsOfGate
<1>5. CASE Asio!Reap(c)
  BY <1>5, <1>t, ReapEffect, FieldsOfGate
<1>6. CASE Asio!BeginJoin(c)
  BY <1>6, <1>t, BeginJoinEffect, FieldsOfGate
<1>7. CASE Asio!Joined(c)
  BY <1>7, JoinedEffect, JoinedCommands
<1>8. CASE Asio!JoinTimesOut(c)
  BY <1>8, <1>t, JoinTimesOutEffect, FieldsOfGate
<1>9. CASE Asio!StartWorker(c)
  BY <1>9, StartWorkerEffect, RunCommands, SpawnedCommands
<1>10. CASE Asio!StartRefused(c)
  BY <1>10, <1>t, StartRefusedEffect, FieldsOfGate
<1>11. CASE Asio!Started(c)
  BY <1>11, <1>t, StartedEffect, FieldsOfGate
<1>12. CASE Asio!StartFails(c)
  <2>1. StopIsTold
    BY <1>12, <1>t, StartFailsTold
  <2> QED BY <2>1, StopCommands
<1>13. CASE Asio!StopIdle(c)
  BY <1>13, <1>t, StopIdleEffect, FieldsOfGate
<1>14. CASE Asio!DisposeBuffers(c)
  BY <1>14, <1>t, DisposeBuffersEffect, FieldsOfGate
<1>15. CASE Asio!Close(c)
  BY <1>15, <1>t, CloseEffect, FieldsOfGate
<1>16. CASE Asio!CloseStream(c)
  BY <1>16, <1>t, CloseStreamEffect, FieldsOfGate
<1> QED BY <1>1, <1>2, <1>3, <1>4, <1>5, <1>6, <1>7, <1>8, <1>9, <1>10, <1>11, <1>12, <1>13,
     <1>14, <1>15, <1>16 DEF Asio!CallStep

LEMMA RestBound ==
  ASSUME DriverInv, NEW c \in Asio!Callers, call[c].pc \in Held, NEW d \in Asio!Callers, d # c,
         call'[d] = call[d]
  PROVE  Entry(d)'
<1>1. call[d].pc \notin Held
  BY DEF DriverInv, Mutex
<1> QED BY <1>1 DEF Entry, Held

LEMMA CallBound ==
  ASSUME DriverInv, Asio!AsioAssumption, NEW c \in Asio!Callers, Asio!CallStep(c)
  PROVE  Bound'
<1> USE DEF Moves, Awaits, Ends, Joins, Moved
<1>t. Asio!AsioAssumption /\ w \in WorkerTypes /\ gate \in GateTypes /\ Mutex /\ Purposes
      /\ Threads /\ Bound /\ Commands
  BY TypesSplit DEF DriverInv
<1>e. Entry(c)
  BY <1>t DEF Bound
<1>1. CASE Asio!CreateBuffers(c)
  <2> SUFFICES ASSUME NEW d \in Asio!Callers PROVE Entry(d)'
    BY DEF Bound
  <2>1. CASE d = c
    BY <2>1, <1>1, CreateBuffersEffect, IdleEntry
  <2>2. CASE d # c
    <3>1. Entry(d) /\ call'[d] = call[d]
      BY <2>2, <1>t, <1>1, CreateBuffersEffect DEF Bound
    <3>2. /\ gate' = gate /\ worker' = worker
          /\ state' = state \/ (state = "Initialized" /\ state' = "Prepared")
      BY <1>1, CreateBuffersEffect DEF SameThread, SameDriver, Asio!driverVars
    <3> QED BY <3>1, <3>2 DEF Entry, Asio!Running
  <2> QED BY <2>1, <2>2
<1>2. CASE Asio!BeginStop(c)
  <2>1. call[c].pc \in Held /\ \A d \in Asio!Callers : d # c => call'[d] = call[d]
    BY <1>2, BeginStopEffect DEF Held
  <2>2. CASE Ends(c)
    BY <2>1, <2>2, IdleEntry, RestBound DEF Bound
  <2>3. CASE state' = "Stopping" /\ Awaits(c, "awaitStop", quiesce') /\ worker # "none"
             /\ quiesce' = gate'.generation
    <3>1. worker = "kept"
      BY <2>3, <1>2, <1>e, <1>t, TypesSplit, BeginStopEffect DEF DriverInv, Entry, Held,
         DriverTypes
    <3>2. Entry(c)'
      BY <3>1, <2>3, <1>2, BeginStopEffect DEF Entry
    <3> QED BY <2>1, <3>2, RestBound DEF Bound
  <2>4. CASE UNCHANGED <<state, gate>> /\ (Moves(c, "reap") \/ Moves(c, "join")
                                              \/ (call[c].op = "stop" /\ Moves(c, "act")))
    <3>1. worker' = worker /\ call[c].pc = "entered" /\ call[c].op # "failed"
      BY <1>2, <1>t, BeginStopEffect DEF Purposes
    <3>2. Entry(c)'
      BY <3>1, <2>4, <1>e DEF Entry, Held
    <3> QED BY <2>1, <3>2, RestBound DEF Bound
  <2>5. state = "Stopping" => quiesce = gate.generation
    BY <1>t DEF Commands
  <2> QED BY <2>2, <2>3, <2>4, <2>5, <1>2, BeginStopEffect
<1>3. CASE Asio!StopAcknowledged(c)
  <2>1. call[c].pc \in Held /\ \A d \in Asio!Callers : d # c => call'[d] = call[d]
    BY <1>3, StopAcknowledgedEffect DEF Held
  <2>2. Entry(c)'
    BY <1>3, <1>t, <1>e, StopAcknowledgedEffect, FieldsOfGate DEF Entry, Commands, Threads,
       Purposes, Asio!Running, ToldStop, ToldRun, Blank, SameDriver, SameThread, Asio!driverVars
  <2> QED BY <2>1, <2>2, RestBound DEF Bound
<1>4. CASE Asio!StopUnacknowledged(c)
  <2>1. call[c].pc \in Held /\ \A d \in Asio!Callers : d # c => call'[d] = call[d]
    BY <1>4, StopUnacknowledgedEffect DEF Held
  <2>2. Entry(c)'
    BY <1>4, <1>t, <1>e, StopUnacknowledgedEffect, FieldsOfGate DEF Entry, Commands, Threads,
       Purposes, Asio!Running, ToldStop, ToldRun, Blank, SameDriver, SameThread, Asio!driverVars
  <2> QED BY <2>1, <2>2, RestBound DEF Bound
<1>5. CASE Asio!Reap(c)
  <2>1. call[c].pc \in Held /\ \A d \in Asio!Callers : d # c => call'[d] = call[d]
    BY <1>5, ReapEffect DEF Held
  <2>2. CASE Ends(c)
    BY <2>1, <2>2, IdleEntry, RestBound DEF Bound
  <2>3. CASE Moves(c, "join") \/ Moves(c, "entered")
             \/ (call[c].op # "stop" /\ Moves(c, "act"))
    <3>1. worker' = worker /\ call[c].pc = "reap" /\ call[c].op \in {"start", "stop"}
      BY <1>5, <1>t, ReapEffect DEF Purposes
    <3>2. Entry(c)'
      BY <3>1, <2>3, <1>e DEF Entry, Held
    <3> QED BY <2>1, <3>2, RestBound DEF Bound
  <2> QED BY <2>2, <2>3, <1>5, ReapEffect
<1>6. CASE Asio!BeginJoin(c)
  <2>1. call[c].pc \in Held /\ \A d \in Asio!Callers : d # c => call'[d] = call[d]
    BY <1>6, BeginJoinEffect DEF Held
  <2>2. Entry(c)'
    BY <1>6, <1>t, <1>e, BeginJoinEffect, FieldsOfGate DEF Entry, Commands, Threads, Purposes,
       Asio!Running, ToldStop, ToldRun, Blank, SameDriver, SameThread, Asio!driverVars
  <2> QED BY <2>1, <2>2, RestBound DEF Bound
<1>7. CASE Asio!Joined(c)
  <2>1. call[c].pc \in Held /\ \A d \in Asio!Callers : d # c => call'[d] = call[d]
    BY <1>7, JoinedEffect DEF Held
  <2>2. Entry(c)'
    BY <1>7, <1>t, <1>e, JoinedEffect, FieldsOfGate DEF Entry, Commands, Threads, Purposes,
       Asio!Running, ToldStop, ToldRun, Blank, SameDriver, SameThread, Asio!driverVars
  <2> QED BY <2>1, <2>2, RestBound DEF Bound
<1>8. CASE Asio!JoinTimesOut(c)
  <2>1. call[c].pc \in Held /\ \A d \in Asio!Callers : d # c => call'[d] = call[d]
    BY <1>8, JoinTimesOutEffect DEF Held
  <2> QED BY <1>8, <2>1, JoinTimesOutEffect, IdleEntry, RestBound DEF Bound
<1>9. CASE Asio!StartWorker(c)
  <2>1. call[c].pc \in Held /\ \A d \in Asio!Callers : d # c => call'[d] = call[d]
    BY <1>9, StartWorkerEffect DEF Held
  <2>2. Entry(c)'
    BY <1>9, <1>t, <1>e, StartWorkerEffect, FieldsOfGate DEF Entry, Commands, Threads, Purposes,
       Asio!Running, ToldStop, ToldRun, Blank, SameDriver, SameThread, Asio!driverVars
  <2> QED BY <2>1, <2>2, RestBound DEF Bound
<1>10. CASE Asio!StartRefused(c)
  <2>1. call[c].pc \in Held /\ \A d \in Asio!Callers : d # c => call'[d] = call[d]
    BY <1>10, StartRefusedEffect DEF Held
  <2> QED BY <1>10, <2>1, StartRefusedEffect, IdleEntry, RestBound DEF Bound
<1>11. CASE Asio!Started(c)
  <2>1. call[c].pc \in Held /\ \A d \in Asio!Callers : d # c => call'[d] = call[d]
    BY <1>11, StartedEffect DEF Held
  <2> QED BY <1>11, <2>1, StartedEffect, IdleEntry, RestBound DEF Bound
<1>12. CASE Asio!StartFails(c)
  <2>1. call[c].pc \in Held /\ \A d \in Asio!Callers : d # c => call'[d] = call[d]
    BY <1>12, StartFailsEffect DEF Held
  <2>2. Entry(c)'
    BY <1>12, <1>t, <1>e, StartFailsEffect, FieldsOfGate DEF Entry, Commands, Threads, Purposes,
       Asio!Running, ToldStop, ToldRun, Blank, SameDriver, SameThread, Asio!driverVars
  <2> QED BY <2>1, <2>2, RestBound DEF Bound
<1>13. CASE Asio!StopIdle(c)
  <2>1. call[c].pc \in Held /\ \A d \in Asio!Callers : d # c => call'[d] = call[d]
    BY <1>13, StopIdleEffect DEF Held
  <2> QED BY <1>13, <2>1, StopIdleEffect, IdleEntry, RestBound DEF Bound
<1>14. CASE Asio!DisposeBuffers(c)
  <2>1. call[c].pc \in Held /\ \A d \in Asio!Callers : d # c => call'[d] = call[d]
    BY <1>14, DisposeBuffersEffect DEF Held
  <2>2. Entry(c)'
    BY <1>14, <1>t, <1>e, DisposeBuffersEffect, FieldsOfGate DEF Entry, Commands, Threads,
       Purposes, Asio!Running, ToldStop, ToldRun, Blank, SameDriver, SameThread, Asio!driverVars
  <2> QED BY <2>1, <2>2, RestBound DEF Bound
<1>15. CASE Asio!Close(c)
  <2>1. call[c].pc \in Held /\ \A d \in Asio!Callers : d # c => call'[d] = call[d]
    BY <1>15, CloseEffect DEF Held
  <2>2. Entry(c)'
    BY <1>15, <1>t, <1>e, CloseEffect, FieldsOfGate DEF Entry, Commands, Threads, Purposes,
       Asio!Running, ToldStop, ToldRun, Blank, SameDriver, SameThread, Asio!driverVars
  <2> QED BY <2>1, <2>2, RestBound DEF Bound
<1>16. CASE Asio!CloseStream(c)
  <2>1. call[c].pc \in Held /\ \A d \in Asio!Callers : d # c => call'[d] = call[d]
    BY <1>16, CloseStreamEffect DEF Held
  <2> QED BY <1>16, <2>1, CloseStreamEffect, IdleEntry, RestBound DEF Bound
<1> QED BY <1>1, <1>2, <1>3, <1>4, <1>5, <1>6, <1>7, <1>8, <1>9, <1>10, <1>11, <1>12, <1>13,
     <1>14, <1>15, <1>16 DEF Asio!CallStep

LEMMA CallCommands ==
  ASSUME DriverInv, Asio!AsioAssumption, NEW c \in Asio!Callers, Asio!CallStep(c)
  PROVE  Commands'
<1> USE DEF Threads, Bound, Entry, Commands, Held, Ended, Leaving, Asio!Running, Moves, Awaits,
     Ends, Joins, Moved, ToldStop, ToldRun, Blank, SameDriver, SameThread, SameDaemon,
     Asio!driverVars
<1>t. Asio!AsioAssumption /\ w \in WorkerTypes /\ gate \in GateTypes /\ Threads /\ Bound
      /\ Commands
  BY TypesSplit DEF DriverInv
<1>1. CASE Asio!CreateBuffers(c)
  BY <1>1, <1>t, CreateBuffersEffect, FieldsOfGate
<1>2. CASE Asio!BeginStop(c)
  <2>1. CASE StopIsTold
    BY <2>1, StopCommands
  <2>2. CASE UNCHANGED <<state, stream, playback, worker, quiesce, gate, w>>
    BY <2>2, <1>t
  <2> QED BY <1>2, <2>1, <2>2, BeginStopTold
<1>3. CASE Asio!StopAcknowledged(c)
  BY <1>3, <1>t, StopAcknowledgedEffect, FieldsOfGate
<1>4. CASE Asio!StopUnacknowledged(c)
  BY <1>4, <1>t, StopUnacknowledgedEffect, FieldsOfGate
<1>5. CASE Asio!Reap(c)
  BY <1>5, <1>t, ReapEffect, FieldsOfGate
<1>6. CASE Asio!BeginJoin(c)
  BY <1>6, <1>t, BeginJoinEffect, FieldsOfGate
<1>7. CASE Asio!Joined(c)
  BY <1>7, JoinedEffect, JoinedCommands
<1>8. CASE Asio!JoinTimesOut(c)
  BY <1>8, <1>t, JoinTimesOutEffect, FieldsOfGate
<1>9. CASE Asio!StartWorker(c)
  BY <1>9, StartWorkerEffect, RunCommands, SpawnedCommands
<1>10. CASE Asio!StartRefused(c)
  BY <1>10, <1>t, StartRefusedEffect, FieldsOfGate
<1>11. CASE Asio!Started(c)
  BY <1>11, <1>t, StartedEffect, FieldsOfGate
<1>12. CASE Asio!StartFails(c)
  <2>1. StopIsTold
    BY <1>12, <1>t, StartFailsTold
  <2> QED BY <2>1, StopCommands
<1>13. CASE Asio!StopIdle(c)
  BY <1>13, <1>t, StopIdleEffect, FieldsOfGate
<1>14. CASE Asio!DisposeBuffers(c)
  BY <1>14, <1>t, DisposeBuffersEffect, FieldsOfGate
<1>15. CASE Asio!Close(c)
  BY <1>15, <1>t, CloseEffect, FieldsOfGate
<1>16. CASE Asio!CloseStream(c)
  BY <1>16, <1>t, CloseStreamEffect, FieldsOfGate
<1> QED BY <1>1, <1>2, <1>3, <1>4, <1>5, <1>6, <1>7, <1>8, <1>9, <1>10, <1>11, <1>12, <1>13,
     <1>14, <1>15, <1>16 DEF Asio!CallStep

LEMMA CallSilence ==
  ASSUME DriverInv, Asio!AsioAssumption, NEW c \in Asio!Callers, Asio!CallStep(c)
  PROVE  Silence' /\ Asio!HostIsLeftAlone'
<1> USE DEF Threads, Bound, Entry, Commands, Silence, Asio!HostIsLeftAlone, Asio!HostIsCalled,
     Held, Ended, Leaving, Asio!Running, Moves, Awaits, Ends, Joins, Moved, ToldStop, ToldRun,
     Blank, SameDriver, SameThread, SameDaemon, Asio!driverVars
<1>t. Asio!AsioAssumption /\ w \in WorkerTypes /\ gate \in GateTypes /\ Threads /\ Bound
      /\ Commands /\ Silence /\ Asio!HostIsLeftAlone
  BY TypesSplit DEF DriverInv
<1>k. state = "Initialized" => worker = "none"
  BY TypesSplit DEF DriverInv, Asio!StreamIsKept
<1>1. CASE Asio!CreateBuffers(c)
  <2>1. CASE SameDriver
    BY <1>1, <2>1, <1>t, CreateBuffersEffect, FieldsOfGate
  <2>2. CASE state = "Initialized"
    BY <1>1, <2>2, <1>t, <1>k, CreateBuffersEffect, FieldsOfGate
  <2> QED BY <1>1, <2>1, <2>2, CreateBuffersEffect
<1>2. CASE Asio!BeginStop(c)
  <2>1. CASE StopIsTold
    BY <2>1, StopSilence
  <2>2. CASE UNCHANGED <<state, stream, playback, worker, quiesce, gate, w>>
    BY <2>2, <1>t
  <2> QED BY <1>2, <2>1, <2>2, BeginStopTold
<1>3. CASE Asio!StopAcknowledged(c)
  BY <1>3, <1>t, StopAcknowledgedEffect, FieldsOfGate
<1>4. CASE Asio!StopUnacknowledged(c)
  BY <1>4, <1>t, StopUnacknowledgedEffect, FieldsOfGate
<1>5. CASE Asio!Reap(c)
  BY <1>5, <1>t, ReapEffect, FieldsOfGate
<1>6. CASE Asio!BeginJoin(c)
  BY <1>6, <1>t, BeginJoinEffect, FieldsOfGate
<1>7. CASE Asio!Joined(c)
  BY <1>7, JoinedEffect, JoinedCommands
<1>8. CASE Asio!JoinTimesOut(c)
  BY <1>8, <1>t, JoinTimesOutEffect, FieldsOfGate
<1>9. CASE Asio!StartWorker(c)
  BY <1>9, <1>t, StartWorkerEffect, FieldsOfGate
<1>10. CASE Asio!StartRefused(c)
  BY <1>10, <1>t, StartRefusedEffect, FieldsOfGate
<1>11. CASE Asio!Started(c)
  BY <1>11, <1>t, StartedEffect, FieldsOfGate
<1>12. CASE Asio!StartFails(c)
  <2>1. StopIsTold
    BY <1>12, <1>t, StartFailsTold
  <2> QED BY <2>1, StopSilence
<1>13. CASE Asio!StopIdle(c)
  BY <1>13, <1>t, StopIdleEffect, FieldsOfGate
<1>14. CASE Asio!DisposeBuffers(c)
  BY <1>14, <1>t, DisposeBuffersEffect, FieldsOfGate
<1>15. CASE Asio!Close(c)
  BY <1>15, <1>t, CloseEffect, FieldsOfGate
<1>16. CASE Asio!CloseStream(c)
  BY <1>16, <1>t, CloseStreamEffect, FieldsOfGate
<1> QED BY <1>1, <1>2, <1>3, <1>4, <1>5, <1>6, <1>7, <1>8, <1>9, <1>10, <1>11, <1>12, <1>13,
     <1>14, <1>15, <1>16 DEF Asio!CallStep

OneClosing == \A c, d \in Asio!Callers : {call[c].pc, call[d].pc} = {"closing"} => c = d

LEMMA OneCloses == Mutex => OneClosing
<1> SUFFICES ASSUME Mutex, NEW c \in Asio!Callers, NEW d \in Asio!Callers,
                    {call[c].pc, call[d].pc} = {"closing"}
             PROVE  c = d
  BY DEF OneClosing
<1>1. call[c].pc = "closing" /\ call[d].pc = "closing"
  OBVIOUS
<1> QED BY <1>1 DEF Mutex, Held

Owned == /\ stream = "worker" <=> worker # "none"
         /\ state \in {"Prepared", "Running", "Stopping"} <=> stream # "none"

LEMMA CallOwned ==
  ASSUME DriverInv, Asio!AsioAssumption, NEW c \in Asio!Callers, Asio!CallStep(c)
  PROVE  Owned'
<1> USE DEF Owned, SameDriver, SameThread, SameDaemon, Asio!driverVars
<1>t. Owned /\ Entry(c) /\ DriverTypes
  BY TypesSplit DEF DriverInv, Asio!StreamIsKept, Bound
<1>1. CASE Asio!CreateBuffers(c)
  BY <1>1, <1>t, CreateBuffersEffect DEF Entry, Held
<1>2. CASE Asio!BeginStop(c)
  BY <1>2, <1>t, BeginStopEffect DEF Entry, Held
<1>3. CASE Asio!StopAcknowledged(c)
  BY <1>3, <1>t, StopAcknowledgedEffect DEF Entry, Held
<1>4. CASE Asio!StopUnacknowledged(c)
  BY <1>4, <1>t, StopUnacknowledgedEffect DEF Entry, Held
<1>5. CASE Asio!Reap(c)
  BY <1>5, <1>t, ReapEffect DEF Entry, Held
<1>6. CASE Asio!BeginJoin(c)
  BY <1>6, <1>t, BeginJoinEffect DEF Entry, Held
<1>7. CASE Asio!Joined(c)
  BY <1>7, <1>t, JoinedEffect DEF Entry, Held
<1>8. CASE Asio!JoinTimesOut(c)
  BY <1>8, <1>t, JoinTimesOutEffect DEF Entry, Held
<1>9. CASE Asio!StartWorker(c)
  BY <1>9, <1>t, StartWorkerEffect DEF Entry, Held
<1>10. CASE Asio!StartRefused(c)
  BY <1>10, <1>t, StartRefusedEffect DEF Entry, Held
<1>11. CASE Asio!Started(c)
  BY <1>11, <1>t, StartedEffect DEF Entry, Held
<1>12. CASE Asio!StartFails(c)
  BY <1>12, <1>t, StartFailsEffect DEF Entry, Held
<1>13. CASE Asio!StopIdle(c)
  BY <1>13, <1>t, StopIdleEffect DEF Entry, Held
<1>14. CASE Asio!DisposeBuffers(c)
  BY <1>14, <1>t, DisposeBuffersEffect DEF Entry, Held
<1>15. CASE Asio!Close(c)
  BY <1>15, <1>t, CloseEffect DEF Entry, Held
<1>16. CASE Asio!CloseStream(c)
  BY <1>16, <1>t, CloseStreamEffect DEF Entry, Held
<1> QED BY <1>1, <1>2, <1>3, <1>4, <1>5, <1>6, <1>7, <1>8, <1>9, <1>10, <1>11, <1>12, <1>13,
     <1>14, <1>15, <1>16 DEF Asio!CallStep

LEMMA CallFreed ==
  ASSUME DriverInv, Asio!AsioAssumption, NEW c \in Asio!Callers, Asio!CallStep(c), state' = "Freed",
         NEW d \in Asio!Callers
  PROVE  call'[d].pc # "closing"
<1> USE DEF SameDriver, SameThread, SameDaemon, Asio!driverVars, Moves, Awaits, Ends, Joins,
     Moved
<1>t. state = "Freed" => call[c].pc # "closing" /\ call[d].pc # "closing"
  BY DEF DriverInv, Asio!StreamIsKept
<1>o. call[c].pc \in Held /\ d # c => call[d].pc # "closing"
  BY DEF DriverInv, Mutex, Held
<1>1. CASE Asio!CreateBuffers(c)
  BY <1>1, <1>t, <1>o, CreateBuffersEffect DEF Held
<1>2. CASE Asio!BeginStop(c)
  BY <1>2, <1>t, <1>o, BeginStopEffect DEF Held
<1>3. CASE Asio!StopAcknowledged(c)
  BY <1>3, <1>t, <1>o, StopAcknowledgedEffect DEF Held
<1>4. CASE Asio!StopUnacknowledged(c)
  BY <1>4, <1>t, <1>o, StopUnacknowledgedEffect DEF Held
<1>5. CASE Asio!Reap(c)
  BY <1>5, <1>t, <1>o, ReapEffect DEF Held
<1>6. CASE Asio!BeginJoin(c)
  BY <1>6, <1>t, <1>o, BeginJoinEffect DEF Held
<1>7. CASE Asio!Joined(c)
  BY <1>7, <1>t, <1>o, JoinedEffect DEF Held
<1>8. CASE Asio!JoinTimesOut(c)
  BY <1>8, <1>t, <1>o, JoinTimesOutEffect DEF Held
<1>9. CASE Asio!StartWorker(c)
  BY <1>9, <1>t, <1>o, StartWorkerEffect DEF Held
<1>10. CASE Asio!StartRefused(c)
  BY <1>10, <1>t, <1>o, StartRefusedEffect DEF Held
<1>11. CASE Asio!Started(c)
  BY <1>11, <1>t, <1>o, StartedEffect DEF Held
<1>12. CASE Asio!StartFails(c)
  BY <1>12, <1>t, <1>o, StartFailsEffect DEF Held
<1>13. CASE Asio!StopIdle(c)
  BY <1>13, <1>t, <1>o, StopIdleEffect DEF Held
<1>14. CASE Asio!DisposeBuffers(c)
  BY <1>14, <1>t, <1>o, DisposeBuffersEffect DEF Held
<1>15. CASE Asio!Close(c)
  BY <1>15, <1>t, <1>o, CloseEffect DEF Held
<1>16. CASE Asio!CloseStream(c)
  BY <1>16, <1>t, <1>o, CloseStreamEffect DEF Held
<1> QED BY <1>1, <1>2, <1>3, <1>4, <1>5, <1>6, <1>7, <1>8, <1>9, <1>10, <1>11, <1>12, <1>13,
     <1>14, <1>15, <1>16 DEF Asio!CallStep

LEMMA CallStream ==
  ASSUME DriverInv, Asio!AsioAssumption, NEW c \in Asio!Callers, Asio!CallStep(c)
  PROVE  Asio!StreamIsKept'
<1>1. Mutex'
  BY CallMutex
<1>2. OneClosing'
  BY <1>1, OneCloses, PTL
<1>3. Owned'
  BY CallOwned
<1>4. state' = "Freed" => \A d \in Asio!Callers : call'[d].pc # "closing"
  BY CallFreed
<1> QED BY <1>2, <1>3, <1>4 DEF Asio!StreamIsKept, OneClosing, Owned

LEMMA CallTypeOK ==
  ASSUME DriverInv, Asio!AsioAssumption, NEW c \in Asio!Callers, Asio!CallStep(c)
  PROVE  DriverTypes'
<1>t. DriverTypes /\ CallTypes /\ w \in WorkerTypes /\ gate \in GateTypes
  BY TypesSplit DEF DriverInv
<1> USE DEF DriverTypes, Marks, Moves, Awaits, Ends, Joins, SameDriver, SameThread, SameDaemon,
            Asio!driverVars, ToldStop, Blank
<1>1. CASE Asio!CreateBuffers(c)
  <2>1. CASE SameDriver /\ SameDaemon
    BY <2>1, <1>1, <1>t, CreateBuffersEffect
  <2>2. CASE state' = "Prepared"
    BY <2>2, <1>1, <1>t, CreateBuffersEffect
  <2> QED BY <1>1, <2>1, <2>2, CreateBuffersEffect
<1>2. CASE Asio!BeginStop(c)
  BY <1>2, <1>t, BeginStopEffect
<1>3. CASE Asio!StopAcknowledged(c)
  BY <1>3, <1>t, StopAcknowledgedEffect
<1>4. CASE Asio!StopUnacknowledged(c)
  BY <1>4, <1>t, StopUnacknowledgedEffect
<1>5. CASE Asio!Reap(c)
  <2>1. lifecycle' \in Asio!Callers \cup {None} /\ observed' \in BOOLEAN /\ released' = released
    BY <1>5, <1>t, ReapEffect
  <2>2. UNCHANGED <<state, stream, playback, worker, quiesce, stop, period, link>>
    BY <1>5, ReapEffect
  <2> QED BY <2>1, <2>2, <1>t
<1>6. CASE Asio!BeginJoin(c)
  <2>1. CASE worker = "kept"
    BY <2>1, <1>6, <1>t, BeginJoinEffect
  <2>2. CASE worker # "kept"
    BY <2>2, <1>6, <1>t, BeginJoinEffect
  <2> QED BY <2>1, <2>2
<1>7. CASE Asio!Joined(c)
  BY <1>7, <1>t, JoinedEffect
<1>8. CASE Asio!JoinTimesOut(c)
  BY <1>8, <1>t, JoinTimesOutEffect
<1>9. CASE Asio!StartWorker(c)
  BY <1>9, <1>t, StartWorkerEffect
<1>10. CASE Asio!StartRefused(c)
  BY <1>10, <1>t, StartRefusedEffect
<1>11. CASE Asio!Started(c)
  BY <1>11, <1>t, StartedEffect
<1>12. CASE Asio!StartFails(c)
  BY <1>12, <1>t, StartFailsEffect
<1>13. CASE Asio!StopIdle(c)
  BY <1>13, <1>t, StopIdleEffect
<1>14. CASE Asio!DisposeBuffers(c)
  <2>1. lifecycle' \in Asio!Callers \cup {None} /\ observed' \in BOOLEAN /\ released' = released
    BY <1>14, <1>t, DisposeBuffersEffect
  <2>2. (state' = state \/ state' = "Initialized") /\ (stream' = stream \/ stream' = "none")
        /\ UNCHANGED <<playback, worker, quiesce, stop, period, link>>
    BY <1>14, DisposeBuffersEffect
  <2> QED BY <2>1, <2>2, <1>t
<1>15. CASE Asio!Close(c)
  BY <1>15, <1>t, CloseEffect
<1>16. CASE Asio!CloseStream(c)
  BY <1>16, <1>t, CloseStreamEffect
<1> QED BY <1>1, <1>2, <1>3, <1>4, <1>5, <1>6, <1>7, <1>8, <1>9, <1>10, <1>11, <1>12, <1>13,
     <1>14, <1>15, <1>16 DEF Asio!CallStep

LEMMA CallHandle ==
  ASSUME DriverInv, Asio!AsioAssumption, NEW c \in Asio!Callers, Asio!CallStep(c)
  PROVE  Handle'
<1>t. Handle /\ Entry(c) /\ (call[c].pc \in Held <=> lifecycle = c)
  BY DEF DriverInv, Bound, Mutex
<1>n. None \notin Asio!Callers
  BY DEF Asio!AsioAssumption
<1> USE DEF Handle, Moves, Awaits, Ends, Joins, SameDriver, SameThread, Asio!driverVars
<1>1. CASE Asio!CreateBuffers(c)
  BY <1>1, <1>t, CreateBuffersEffect DEF Entry, Held
<1>2. CASE Asio!BeginStop(c)
  BY <1>2, <1>t, BeginStopEffect DEF Entry, Held
<1>3. CASE Asio!StopAcknowledged(c)
  BY <1>3, <1>t, StopAcknowledgedEffect DEF Entry, Held
<1>4. CASE Asio!StopUnacknowledged(c)
  BY <1>4, <1>t, StopUnacknowledgedEffect DEF Entry, Held
<1>5. CASE Asio!Reap(c)
  BY <1>5, <1>t, ReapEffect DEF Entry, Held
<1>6. CASE Asio!BeginJoin(c)
  BY <1>6, <1>t, <1>n, BeginJoinEffect DEF Entry, Held
<1>7. CASE Asio!Joined(c)
  BY <1>7, <1>t, JoinedEffect DEF Entry, Held
<1>8. CASE Asio!JoinTimesOut(c)
  BY <1>8, <1>t, JoinTimesOutEffect DEF Entry, Held
<1>9. CASE Asio!StartWorker(c)
  BY <1>9, <1>t, StartWorkerEffect DEF Entry, Held
<1>10. CASE Asio!StartRefused(c)
  BY <1>10, <1>t, StartRefusedEffect DEF Entry, Held
<1>11. CASE Asio!Started(c)
  BY <1>11, <1>t, StartedEffect DEF Entry, Held
<1>12. CASE Asio!StartFails(c)
  BY <1>12, <1>t, StartFailsEffect DEF Entry, Held
<1>13. CASE Asio!StopIdle(c)
  BY <1>13, <1>t, StopIdleEffect DEF Entry, Held
<1>14. CASE Asio!DisposeBuffers(c)
  BY <1>14, <1>t, DisposeBuffersEffect DEF Entry, Held
<1>15. CASE Asio!Close(c)
  BY <1>15, <1>t, CloseEffect DEF Entry, Held
<1>16. CASE Asio!CloseStream(c)
  BY <1>16, <1>t, CloseStreamEffect DEF Entry, Held
<1> QED BY <1>1, <1>2, <1>3, <1>4, <1>5, <1>6, <1>7, <1>8, <1>9, <1>10, <1>11, <1>12, <1>13,
     <1>14, <1>15, <1>16 DEF Asio!CallStep

LEMMA CallKeeps ==
  ASSUME DriverInv, Asio!AsioAssumption, NEW c \in Asio!Callers, Asio!CallStep(c)
  PROVE  DriverInv'
<1>1. Asio!TypeOK'
  <2>1. CallTypes' /\ gate' \in GateTypes /\ w' \in WorkerTypes /\ DriverTypes'
    BY CallTypesKept, CallTypeOK
  <2>2. (CallTypes /\ gate \in GateTypes /\ w \in WorkerTypes /\ DriverTypes)' => Asio!TypeOK'
    BY TypesSplit, PTL
  <2> QED BY <2>1, <2>2
<1> QED BY <1>1, CallHandle, CallMutex, CallPurposes, CallThreads, CallBound, CallCommands,
       CallSilence, CallStream DEF DriverInv

LEMMA ThreadKeeps ==
  ASSUME DriverInv, Asio!AsioAssumption, ThreadStep
  PROVE  DriverInv'
<1>f. /\ UNCHANGED <<state, stream, playback, worker, quiesce, observed>>
      /\ UNCHANGED <<lifecycle, call, released, stop>>
  BY ThreadFrame
<1>1. Asio!TypeOK'
  <2>1. CallTypes' /\ gate' \in GateTypes /\ w' \in WorkerTypes /\ DriverTypes'
    BY <1>f, ThreadTypes, CallsStay, ThreadDaemon, TypesSplit DEF DriverInv, DriverTypes
  <2>2. (CallTypes /\ gate \in GateTypes /\ w \in WorkerTypes /\ DriverTypes)' => Asio!TypeOK'
    BY TypesSplit, PTL
  <2> QED BY <2>1, <2>2
<1>2. Mutex' /\ Handle' /\ Purposes' /\ Asio!StreamIsKept'
  BY <1>f DEF DriverInv, Mutex, Handle, Purposes, Asio!StreamIsKept
<1> QED BY <1>1, <1>2, ThreadThreads, ThreadBound, ThreadCommands, ThreadSilence DEF DriverInv

(* A host's call that begins, or that only looks at the driver.             *)
LEMMA OpsAndPlaces ==
  /\ {"start", "stop", "dispose", "close", "create"} \subseteq Ops
  /\ {"reap", "entered", "asked"} \subseteq Places
BY DEF Ops, Places, Held

LEMMA TypesGiven ==
  ASSUME CallTypes', gate' \in GateTypes, w' \in WorkerTypes, DriverTypes' PROVE Asio!TypeOK'
<1>1. (CallTypes /\ gate \in GateTypes /\ w \in WorkerTypes /\ DriverTypes => Asio!TypeOK)'
  BY TypesSplit, PTL
<1> QED BY <1>1

(* A step that leaves the driver, the gate and the thread alone.            *)
Aside == UNCHANGED <<state, stream, playback, worker, quiesce, gate, stop, w, period, link>>

LEMMA AsideKeeps ==
  ASSUME DriverInv, Aside
  PROVE  /\ Threads' /\ Commands' /\ Silence' /\ Asio!HostIsLeftAlone' /\ Owned'
         /\ gate' \in GateTypes /\ w' \in WorkerTypes
BY TypesSplit DEF DriverInv, Aside, Threads, Commands, Silence, Asio!HostIsLeftAlone,
   Asio!HostIsCalled, Owned, Asio!StreamIsKept

LEMMA InitDriverKeeps ==
  ASSUME DriverInv, Asio!AsioAssumption, NEW h \in Hosts, Asio!InitDriver(h)
  PROVE  DriverInv'
<1>f. /\ state = "Loaded" /\ state' = "Initialized" /\ observed' = FALSE
      /\ UNCHANGED <<stream, playback, worker, quiesce, gate, stop, w, period, link>>
      /\ UNCHANGED <<lifecycle, call, released>>
  BY DEF Asio!InitDriver, Asio!callVars
<1>t. CallTypes /\ DriverTypes /\ gate \in GateTypes /\ w \in WorkerTypes
  BY TypesSplit DEF DriverInv
<1>1. Asio!TypeOK'
  BY <1>f, <1>t, TypesGiven, CallsStay DEF DriverTypes
<1>2. Mutex' /\ Handle' /\ Purposes' /\ Threads'
  BY <1>f DEF DriverInv, Mutex, Handle, Purposes, Threads
<1>3. Bound'
  BY <1>f DEF DriverInv, Bound, Entry, Asio!Running
<1>4. Commands' /\ Silence' /\ Asio!HostIsLeftAlone'
  BY <1>f DEF DriverInv, Commands, Silence, Asio!HostIsLeftAlone, Asio!HostIsCalled,
     Asio!Running
<1>5. Asio!StreamIsKept'
  BY <1>f DEF DriverInv, Asio!StreamIsKept
<1> QED BY <1>1, <1>2, <1>3, <1>4, <1>5 DEF DriverInv

LEMMA AloneKeeps ==
  ASSUME DriverInv, Aside, UNCHANGED <<lifecycle, call>>, observed' \in BOOLEAN,
         released' \in BOOLEAN
  PROVE  DriverInv'
<1>t. CallTypes /\ DriverTypes
  BY TypesSplit DEF DriverInv
<1>1. Asio!TypeOK'
  BY <1>t, AsideKeeps, TypesGiven, CallsStay DEF DriverTypes, Aside
<1>2. Mutex' /\ Handle' /\ Purposes' /\ Bound' /\ Asio!StreamIsKept'
  BY DEF Aside, DriverInv, Mutex, Handle, Purposes, Bound, Entry, Asio!StreamIsKept
<1> QED BY <1>1, <1>2, AsideKeeps DEF DriverInv

LEMMA GetterKeeps ==
  ASSUME DriverInv, NEW h \in Hosts, Asio!Getter(h)
  PROVE  DriverInv'
<1>1. Aside /\ UNCHANGED <<lifecycle, call>> /\ observed' \in BOOLEAN /\ released' \in BOOLEAN
  BY TypesSplit DEF DriverInv, DriverTypes, Asio!Getter, Asio!Failing, Aside, Asio!callVars
<1> QED BY <1>1, AloneKeeps

LEMMA ReleaseKeeps ==
  ASSUME DriverInv, Asio!Release
  PROVE  DriverInv'
<1>1. Aside /\ UNCHANGED <<lifecycle, call>> /\ observed' \in BOOLEAN /\ released' \in BOOLEAN
  BY TypesSplit DEF DriverInv, DriverTypes, Asio!Release, Aside, Asio!driverVars
<1> QED BY <1>1, AloneKeeps

LEMMA StutterKeeps ==
  ASSUME DriverInv, UNCHANGED Asio!vars
  PROVE  DriverInv'
<1>1. Aside /\ UNCHANGED <<lifecycle, call>> /\ observed' \in BOOLEAN /\ released' \in BOOLEAN
  BY TypesSplit DEF DriverInv, DriverTypes, Aside, Asio!vars, Asio!driverVars, Asio!callVars
<1> QED BY <1>1, AloneKeeps

(* A call begins: it asks the host, or takes the lifecycle mutex.           *)
LEMMA CreateAskKeeps ==
  ASSUME DriverInv, Asio!AsioAssumption, NEW h \in Hosts, Asio!CreateAsk(h)
  PROVE  DriverInv'
<1>c. h \in Asio!Callers
  BY DEF Asio!Callers
<1>t. CallTypes /\ DriverTypes
  BY TypesSplit DEF DriverInv
<1>f. /\ Aside /\ UNCHANGED <<lifecycle, released, observed>> /\ call[h].pc = "idle"
      /\ Moved(h, "create", "asked", call[h].want)
  BY <1>c, <1>t, MovedAsk, OpsAndPlaces DEF Asio!CreateAsk, Aside, Asio!driverVars
<1>1. Asio!TypeOK'
  BY <1>t, <1>f, AsideKeeps, TypesGiven DEF DriverTypes, Aside, Moved
<1>2. Mutex' /\ Handle' /\ Purposes'
  BY <1>f, <1>c DEF Aside, Moved, DriverInv, Mutex, Handle, Purposes, Held
<1>3. Bound'
  <2> SUFFICES ASSUME NEW d \in Asio!Callers PROVE Entry(d)'
    BY DEF Bound
  <2>1. CASE d = h
    BY <2>1, <1>f DEF Moved, Entry, Held
  <2>2. CASE d # h
    BY <2>2, <1>f DEF Moved, Entry, Aside, DriverInv, Bound
  <2> QED BY <2>1, <2>2
<1>4. Asio!StreamIsKept'
  <2>1. OneClosing'
    BY <1>2, OneCloses, PTL
  <2>2. state' = "Freed" => \A d \in Asio!Callers : call'[d].pc # "closing"
    BY <1>f DEF Aside, Moved, DriverInv, Asio!StreamIsKept
  <2> QED BY <2>1, <2>2, <1>f, AsideKeeps DEF Asio!StreamIsKept, OneClosing, Owned
<1> QED BY <1>1, <1>2, <1>3, <1>4, <1>f, AsideKeeps DEF DriverInv

LEMMA EnterKeeps ==
  ASSUME DriverInv, Asio!AsioAssumption, NEW c \in Asio!Callers,
         NEW op \in {"start", "stop", "dispose", "close"}, Asio!Enter(c, op)
  PROVE  DriverInv'
<1>t. CallTypes /\ DriverTypes
  BY TypesSplit DEF DriverInv
<1> DEFINE pc == IF op = "stop" THEN "reap" ELSE "entered"
<1>f. /\ Aside /\ UNCHANGED <<released, observed>> /\ call[c].pc = "idle"
      /\ lifecycle = None /\ lifecycle' = c /\ state # "Freed"
      /\ Moved(c, op, pc, call[c].want)
  BY <1>t, MovedAsk, OpsAndPlaces DEF Asio!Enter, Aside, Asio!driverVars
<1>p. pc \in {"reap", "entered"} /\ (pc = "reap" => op = "stop")
  OBVIOUS
<1>n. None \notin Asio!Callers
  BY DEF Asio!AsioAssumption
<1> HIDE DEF pc
<1>1. Asio!TypeOK'
  BY <1>t, <1>f, AsideKeeps, TypesGiven DEF DriverTypes, Aside, Moved
<1>2. Mutex' /\ Handle' /\ Purposes'
  BY <1>f, <1>p, <1>n DEF Aside, Moved, DriverInv, Mutex, Handle, Purposes, Held
<1>3. Bound'
  <2> SUFFICES ASSUME NEW d \in Asio!Callers PROVE Entry(d)'
    BY DEF Bound
  <2>1. CASE d = c
    BY <2>1, <1>f, <1>p DEF Moved, Entry, Held, Aside, DriverInv, Handle
  <2>2. CASE d # c
    BY <2>2, <1>f DEF Moved, Entry, Aside, DriverInv, Bound
  <2> QED BY <2>1, <2>2
<1>4. Asio!StreamIsKept'
  <2>1. OneClosing'
    BY <1>2, OneCloses, PTL
  <2>2. state' # "Freed"
    BY <1>f DEF Aside
  <2> QED BY <2>1, <2>2, <1>f, AsideKeeps DEF Asio!StreamIsKept, OneClosing, Owned
<1> QED BY <1>1, <1>2, <1>3, <1>4, <1>f, AsideKeeps DEF DriverInv

(* Stop from within a callback.                                             *)
LEMMA StopFromCallbackKeeps ==
  ASSUME DriverInv, Asio!AsioAssumption, Asio!StopFromCallback
  PROVE  DriverInv'
<1>f. /\ StopIsTold /\ state = "Running" /\ worker = "kept"
      /\ UNCHANGED <<playback, observed, lifecycle, call, released, stop, period, link>>
  BY StopTold DEF Asio!StopFromCallback, StopIsTold, Asio!Running, Asio!callVars
<1>t. CallTypes /\ DriverTypes /\ w \in WorkerTypes
  BY TypesSplit DEF DriverInv
<1>1. Asio!TypeOK'
  BY <1>f, <1>t, TypesGiven, CallsStay, MarksAndBlocks DEF DriverTypes, StopIsTold, ToldStop
<1>2. Mutex' /\ Handle' /\ Purposes'
  BY <1>f DEF StopIsTold, DriverInv, Mutex, Handle, Purposes
<1>3. Bound'
  BY <1>f DEF StopIsTold, DriverInv, Bound, Entry, Asio!Running
<1>4. Asio!StreamIsKept'
  BY <1>f DEF StopIsTold, DriverInv, Asio!StreamIsKept
<1> QED BY <1>1, <1>2, <1>3, <1>4, <1>f, StopCommands, StopSilence DEF DriverInv

LEMMA DriverStep ==
  ASSUME DriverInv, Asio!AsioAssumption, [Asio!Next]_(Asio!vars)
  PROVE  DriverInv'
<1>1. ASSUME NEW h \in Hosts, Asio!HostStep(h) PROVE DriverInv'
  <2>1. h \in Asio!Callers
    BY DEF Asio!Callers
  <2> QED BY <1>1, <2>1, InitDriverKeeps, GetterKeeps, CreateAskKeeps, EnterKeeps DEF
         Asio!HostStep
<1>2. CASE Asio!Enter(Asio!Cleanup, "close")
  BY <1>2, EnterKeeps DEF Asio!Callers
<1>3. ASSUME NEW c \in Asio!Callers, Asio!CallStep(c) PROVE DriverInv'
  BY <1>3, CallKeeps
<1>4. CASE ThreadStep
  BY <1>4, ThreadKeeps
<1> QED BY <1>1, <1>2, <1>3, <1>4, ReleaseKeeps, StopFromCallbackKeeps, StutterKeeps DEF
       Asio!Next, ThreadStep

LEMMA DriverInit ==
  ASSUME Asio!AsioAssumption, Asio!Init
  PROVE  DriverInv
<1>z. 0 \in Asio!Generations
  BY DEF Asio!Generations, Asio!AsioAssumption
<1>c. \A c \in Asio!Callers : call[c].op = "none" /\ call[c].pc = "idle"
  BY DEF Asio!Init
<1>f. /\ gate \in GateTypes /\ w \in WorkerTypes
      /\ gate.generation = 0 /\ ~gate.running /\ ~gate.alive
      /\ gate.runAck = None /\ gate.stopAck = None
      /\ w.pc = "none" /\ w.run = None /\ w.last = "none" /\ w.after = "none"
  BY FreshIs DEF Asio!Init
<1>1. Asio!TypeOK
  BY <1>z, <1>f, TypesSplit, MarksAndBlocks DEF Asio!Init, CallTypes, Ops, Places, DriverTypes
<1>2. Mutex /\ Handle /\ Purposes /\ Bound
  BY <1>c DEF Asio!Init, Mutex, Handle, Purposes, Bound, Entry, Held, Asio!AsioAssumption
<1>3. Threads /\ Commands /\ Silence
  BY <1>f DEF Asio!Init, Threads, Commands, Silence, Ended, Asio!Running, Asio!AsioAssumption
<1>4. Asio!HostIsLeftAlone /\ Asio!StreamIsKept
  BY <1>f, <1>c DEF Asio!Init, Asio!HostIsLeftAlone, Asio!HostIsCalled, Asio!StreamIsKept
<1> QED BY <1>1, <1>2, <1>3, <1>4 DEF DriverInv

-----------------------------------------------------------------------------
(* A step of the composition is a step of the driver, or leaves it alone.  *)
LEMMA DriverPart ==
  /\ CyclesInit => Asio!Init
  /\ [CyclesNext]_allVars => [Asio!Next]_(Asio!vars)
<1>1. CyclesInit => Asio!Init
  BY DEF CyclesInit
<1>2. UNCHANGED asioVars => UNCHANGED Asio!vars
  BY DEF asioVars, Asio!vars, Asio!driverVars, Asio!callVars
<1> QED BY <1>1, <1>2 DEF CyclesNext, BarrierNext, WakesNext, AsioNext, BarrierRuns, WakesRun,
       allVars

LEMMA DriverAlways == CyclesSpec => []DriverInv
<1>1. Asio!Init => DriverInv
  BY DriverInit, CyclesAssumption
<1>2. DriverInv /\ [Asio!Next]_(Asio!vars) => DriverInv'
  BY DriverStep, CyclesAssumption
<1> QED BY <1>1, <1>2, DriverPart, PTL DEF CyclesSpec

(* For any number of host threads and starts: the host is called only      *)
(* while the driver runs or a stop is on its way, never by a period        *)
(* acquired before the stop, a resynchronisation or a reset request        *)
(* (lib.rs, stop_locked, worker_loop, wait_worker_event).                   *)
THEOREM StoppedHostIsLeftAlone == CyclesSpec => []HostIsLeftAlone
<1>1. DriverInv => HostIsLeftAlone
  BY DEF DriverInv, HostIsLeftAlone
<1> QED BY <1>1, DriverAlways, PTL

(* For any number of host threads and starts: the driver has its type, a   *)
(* stop that succeeded has let the engine pass the last block, and the     *)
(* stream is with the worker, with the driver or with the one call that    *)
(* closes it (lib.rs, stop_locked, finish_worker, dispose_buffers).        *)
THEOREM StopsDrainAndKeepTheStream == CyclesSpec => []StreamStops
<1>1. DriverInv => StreamStops
  BY DEF DriverInv, StreamStops, Asio!StopDrains, Commands, Silence
<1> QED BY <1>1, DriverAlways, PTL

-----------------------------------------------------------------------------
(* The wakes                                                               *)

(* A client is where its way of waiting takes it, or has been stopped.     *)
WaitsAt == {"minimum", "scan", "clear", "more", "asleep", "read minimum", "read", "check",
            "again", "submit", "answer"}
PollsAt == {"asleep", "clear", "read minimum", "read", "check", "again", "next minimum",
            "next", "submit", "answer"}
PlaysAt == {"clear", "look", "discard", "accept", "asleep", "submit", "answer"}
Ways ==
  /\ kind \in Wakes!AllKinds
  /\ \/ cpc \in {"restart", "gone"}
     \/ kind = "wait" /\ cpc \in WaitsAt
     \/ kind = "poll" /\ cpc \in PollsAt
     \/ kind = "playback" /\ cpc \in PlaysAt

(* The hardware's cycle is the newest from SetCycle to Advance.            *)
CycleIsSet == cycle = IF hpc \in {"prepare", "cycle"} THEN 1 ELSE 0

(* One block is published per cycle, and none of a cycle before its time.  *)
Distinct ==
  \A b, c \in Wakes!Blocks : b # c /\ captures[b] = captures[c] => captures[b] >= Old
NoneYet ==
  hpc \in {"prepare", "cycle", "publish"} =>
    /\ ~Wakes!Holds(captures, 0)
    /\ kind # "playback" => last # 0 /\ got # 0

(* Nothing of age a is READY; nothing older is.                            *)
Gone(a) == a < Old => ~Wakes!Holds(captures, a)
Upto(a) == \A b \in Wakes!Blocks : captures[b] = Wakes!Never \/ captures[b] <= a

(* What becomes of the block that wait_period returned: it is the oldest   *)
(* until capture_buffer takes it or passes it over.                        *)
Returned ==
  kind = "wait" =>
    /\ cpc \in {"minimum", "scan", "asleep", "check", "again", "submit", "answer"} => Gone(last)
    /\ cpc = "check" => Gone(got)
    /\ cpc \in {"clear", "more"} => Upto(got)
    /\ cpc \in {"read minimum", "read"} => Gone(last) \/ Upto(last)

(* A client that listens for capture, and one that listens for cycles.     *)
Listens ==
  \/ kind = "wait" /\ cpc = "asleep"
  \/ kind = "poll" /\ cpc \in {"submit", "answer", "asleep"}
CaptureIsHeard == Listens /\ Wakes!Holds(captures, 0) => heard \/ hpc = "notify"

Due == /\ hpc # "publish" /\ cycle # last
       /\ start # Wakes!Never /\ start > cycle /\ (last # Wakes!Never \/ cycle = 0)
CycleIsHeard ==
  /\ kind = "playback" /\ cpc \in {"discard", "accept", "asleep"}
  /\ live /\ ~overrun /\ Due
  => heard \/ hpc = "notify" \/ (cpc # "asleep" /\ got = cycle)

WakesInv ==
  /\ Wakes!TypeOK /\ Ways /\ CycleIsSet /\ Distinct /\ NoneYet /\ Returned
  /\ CaptureIsHeard /\ CycleIsHeard /\ Wakes!HardwareIsWoken

LEMMA WakesInit ==
  ASSUME Wakes!WakeAssumption, Wakes!Init
  PROVE  WakesInv
<1>f. /\ live = TRUE /\ start = Wakes!Never /\ overrun = FALSE /\ spc = "none" /\ cycle = 1
      /\ captures = [b \in Wakes!Blocks |-> Wakes!Never] /\ playbacks = captures
      /\ heard = FALSE /\ ready = FALSE /\ late = FALSE /\ hpc = "prepare"
      /\ kind \in Kinds /\ cpc \in {"minimum", "asleep", "clear"}
      /\ cpc = IF kind = "wait" THEN "minimum" ELSE IF kind = "poll" THEN "asleep" ELSE "clear"
      /\ least = 0 /\ last = Wakes!Never /\ got = Wakes!Never
      /\ Old \in Nat /\ Old >= 2 /\ kind \in {"wait", "poll", "playback"} /\ Wakes!Never = Old + 1
  BY DEF Wakes!Init, Wakes!Top, Wakes!Empty, Wakes!WakeAssumption, Wakes!AllKinds, Wakes!Never
<1>1. Wakes!TypeOK
  <2>1. cpc \in Wakes!Labels /\ 0 \in Wakes!Ages
    BY <1>f DEF Wakes!Labels, Wakes!Ages
  <2>2. /\ captures \in [Wakes!Blocks -> Wakes!Ages \union {Wakes!Never}]
        /\ playbacks \in [Wakes!Blocks -> Wakes!Ages \union {Wakes!Never}]
    BY <1>f
  <2> QED BY <1>f, <2>1, <2>2 DEF Wakes!TypeOK
<1>2. Ways /\ CycleIsSet
  BY <1>f DEF Ways, CycleIsSet, Wakes!AllKinds, WaitsAt, PollsAt, PlaysAt
<1>3. Distinct /\ NoneYet /\ Returned
  BY <1>f DEF Distinct, NoneYet, Returned, Gone, Wakes!Holds
<1>4. CaptureIsHeard /\ CycleIsHeard /\ Wakes!HardwareIsWoken
  BY <1>f DEF CaptureIsHeard, Listens, CycleIsHeard, Due, Wakes!HardwareIsWoken, Wakes!Holds
<1> QED BY <1>1, <1>2, <1>3, <1>4 DEF WakesInv

(* The sizes, and what becomes of an age when a cycle ends.                *)
LEMMA AgesAre ==
  ASSUME Wakes!WakeAssumption
  PROVE  /\ Old \in Nat /\ Old >= 2 /\ Slots \in Nat
         /\ Wakes!Never = Old + 1 /\ Wakes!Ages = 0..Old /\ 0 \in Wakes!Ages
BY DEF Wakes!WakeAssumption, Wakes!Never, Wakes!Ages

LEMMA AgingIs ==
  ASSUME Wakes!WakeAssumption, NEW a \in Wakes!Ages \union {Wakes!Never}
  PROVE  /\ Wakes!Aged(a) \in Wakes!Ages \union {Wakes!Never}
         /\ Wakes!Aged(a) # 0
         /\ a \in Wakes!Ages => Wakes!Aged(a) \in Wakes!Ages
         /\ a < Old => Wakes!Aged(a) = a + 1
         /\ a >= Old => Wakes!Aged(a) = a
BY DEF Wakes!WakeAssumption, Wakes!Never, Wakes!Ages, Wakes!Aged

LEMMA WaysAreLabels ==
  /\ Ways => cpc \in Wakes!Labels
  /\ Ways' => cpc' \in Wakes!Labels
<1>1. WaitsAt \cup PollsAt \cup PlaysAt \cup {"restart", "gone"} \subseteq Wakes!Labels
  BY DEF WaitsAt, PollsAt, PlaysAt, Wakes!Labels
<1> QED BY <1>1 DEF Ways

(* What is left once a slot is emptied.                                    *)
LEMMA LeftAre ==
  ASSUME NEW bs, NEW c \in Wakes!Blocks
  PROVE  /\ Wakes!Without(captures, bs)[c] \in {captures[c], Wakes!Never}
         /\ Wakes!Without(captures, bs)[c] = IF c \in bs THEN Wakes!Never ELSE captures[c]
BY DEF Wakes!Without

(* One lemma per action.                                                  *)
LEMMA PrepareKeeps ==
  ASSUME WakesInv, Wakes!WakeAssumption, Wakes!Prepare
  PROVE  WakesInv'
<1> USE AgesAre DEF Wakes!Prepare, Wakes!rings, Wakes!session, Wakes!hardwareVars,
       Wakes!clientVars
<1>1. Ways' /\ CycleIsSet' /\ Distinct' /\ NoneYet' /\ Returned'
  BY DEF WakesInv, Wakes!TypeOK, Ways, Wakes!AllKinds, WaitsAt, PollsAt, PlaysAt,
         CycleIsSet, Distinct, NoneYet, Returned, Gone, Upto, Wakes!Holds
<1>2. Wakes!TypeOK'
  BY DEF WakesInv, Wakes!TypeOK
<1>3. CaptureIsHeard' /\ CycleIsHeard' /\ Wakes!HardwareIsWoken'
  BY DEF WakesInv, Wakes!TypeOK, Ways, WaitsAt, PollsAt, PlaysAt, CycleIsSet, NoneYet,
         Returned, Gone, CaptureIsHeard, Listens, CycleIsHeard, Due, Wakes!HardwareIsWoken,
         Wakes!Answered, Wakes!Holds
<1> QED BY <1>1, <1>2, <1>3 DEF WakesInv

LEMMA SetCycleKeeps ==
  ASSUME WakesInv, Wakes!WakeAssumption, Wakes!SetCycle
  PROVE  WakesInv'
<1> USE AgesAre DEF Wakes!SetCycle, Wakes!rings, Wakes!session, Wakes!hardwareVars,
       Wakes!clientVars
<1>1. Ways' /\ CycleIsSet' /\ Distinct' /\ NoneYet' /\ Returned'
  BY DEF WakesInv, Wakes!TypeOK, Ways, Wakes!AllKinds, WaitsAt, PollsAt, PlaysAt,
         CycleIsSet, Distinct, NoneYet, Returned, Gone, Upto, Wakes!Holds
<1>2. Wakes!TypeOK'
  BY DEF WakesInv, Wakes!TypeOK
<1>3. CaptureIsHeard' /\ CycleIsHeard' /\ Wakes!HardwareIsWoken'
  BY DEF WakesInv, Wakes!TypeOK, Ways, WaitsAt, PollsAt, PlaysAt, CycleIsSet, NoneYet,
         Returned, Gone, CaptureIsHeard, Listens, CycleIsHeard, Due, Wakes!HardwareIsWoken,
         Wakes!Answered, Wakes!Holds
<1> QED BY <1>1, <1>2, <1>3 DEF WakesInv

LEMMA ActivateKeeps ==
  ASSUME WakesInv, Wakes!WakeAssumption, Wakes!Activate
  PROVE  WakesInv'
<1> USE AgesAre DEF Wakes!Activate, Wakes!rings, Wakes!session, Wakes!hardwareVars,
       Wakes!clientVars
<1>1. Ways' /\ CycleIsSet' /\ Distinct' /\ NoneYet' /\ Returned'
  BY DEF WakesInv, Wakes!TypeOK, Ways, Wakes!AllKinds, WaitsAt, PollsAt, PlaysAt,
         CycleIsSet, Distinct, NoneYet, Returned, Gone, Upto, Wakes!Holds
<1>2. Wakes!TypeOK'
  BY DEF WakesInv, Wakes!TypeOK
<1>3. CaptureIsHeard'
  BY DEF WakesInv, Wakes!TypeOK, CaptureIsHeard, Listens, NoneYet, Returned, Gone,
         Wakes!Holds
<1>4. CycleIsHeard'
  BY DEF WakesInv, Wakes!TypeOK, Ways, PollsAt, WaitsAt, PlaysAt, CycleIsHeard, Due,
         CycleIsSet
<1>5. Wakes!HardwareIsWoken'
  BY DEF WakesInv, Wakes!TypeOK, Wakes!HardwareIsWoken, Wakes!Answered, Wakes!Holds
<1> QED BY <1>1, <1>2, <1>3, <1>4, <1>5 DEF WakesInv

LEMMA PublishKeeps ==
  ASSUME WakesInv, Wakes!WakeAssumption, Wakes!Publish
  PROVE  WakesInv'
<1>f. /\ hpc = "publish" /\ hpc' = "notify" /\ live
      /\ UNCHANGED <<Wakes!session, Wakes!clientVars, playbacks, heard, ready, cycle, late, spc>>
  BY DEF Wakes!Publish
<1>1. PICK b \in Wakes!Blocks : captures[b] = Wakes!Never /\ captures' = [captures EXCEPT ![b] = 0]
  BY DEF Wakes!Publish, Wakes!Put, Wakes!Free
<1>2. \A c \in Wakes!Blocks : captures'[c] = IF c = b THEN 0 ELSE captures[c]
  BY <1>1 DEF WakesInv, Wakes!TypeOK
<1>3. Ways' /\ CycleIsSet' /\ NoneYet'
  BY <1>f DEF WakesInv, Ways, CycleIsSet, NoneYet, Wakes!clientVars
<1>4. Distinct'
  BY <1>f, <1>2 DEF WakesInv, Distinct, NoneYet, Wakes!Holds
<1>5. Returned'
  <2>1. \A a \in {last, got} : kind = "wait" /\ Gone(a) => Gone(a)'
    BY <1>f, <1>2 DEF WakesInv, NoneYet, Gone, Wakes!Holds, Wakes!clientVars
  <2>2. \A a \in {last, got} : Upto(a) => Upto(a)'
    BY <1>f, <1>2, AgesAre DEF WakesInv, Wakes!TypeOK, Upto, Wakes!clientVars
  <2> QED BY <1>f, <2>1, <2>2 DEF WakesInv, Returned, Gone, Upto, Wakes!clientVars
<1>6. Wakes!TypeOK'
  BY <1>f, <1>1, AgesAre DEF WakesInv, Wakes!TypeOK, Wakes!clientVars, Wakes!session
<1>7. CaptureIsHeard' /\ CycleIsHeard' /\ Wakes!HardwareIsWoken'
  BY <1>f DEF CaptureIsHeard, CycleIsHeard, Wakes!HardwareIsWoken
<1> QED BY <1>3, <1>4, <1>5, <1>6, <1>7 DEF WakesInv

LEMMA OverrunKeeps ==
  ASSUME WakesInv, Wakes!WakeAssumption, Wakes!Overrun
  PROVE  WakesInv'
<1> USE AgesAre DEF Wakes!Overrun, Wakes!Free, Wakes!rings, Wakes!session,
       Wakes!hardwareVars, Wakes!clientVars
<1>1. Ways' /\ CycleIsSet' /\ Distinct' /\ NoneYet' /\ Returned'
  BY DEF WakesInv, Wakes!TypeOK, Ways, Wakes!AllKinds, WaitsAt, PollsAt, PlaysAt,
         CycleIsSet, Distinct, NoneYet, Returned, Gone, Upto, Wakes!Holds
<1>2. Wakes!TypeOK'
  BY DEF WakesInv, Wakes!TypeOK
<1>3. CaptureIsHeard' /\ CycleIsHeard' /\ Wakes!HardwareIsWoken'
  BY DEF WakesInv, Wakes!TypeOK, Ways, WaitsAt, PollsAt, PlaysAt, CycleIsSet, NoneYet,
         Returned, Gone, CaptureIsHeard, Listens, CycleIsHeard, Due, Wakes!HardwareIsWoken,
         Wakes!Answered, Wakes!Holds
<1> QED BY <1>1, <1>2, <1>3 DEF WakesInv

LEMMA PublishNothingKeeps ==
  ASSUME WakesInv, Wakes!WakeAssumption, Wakes!PublishNothing
  PROVE  WakesInv'
<1> USE AgesAre DEF Wakes!PublishNothing, Wakes!rings, Wakes!session, Wakes!hardwareVars,
       Wakes!clientVars
<1>1. Ways' /\ CycleIsSet' /\ Distinct' /\ NoneYet' /\ Returned'
  BY DEF WakesInv, Wakes!TypeOK, Ways, Wakes!AllKinds, WaitsAt, PollsAt, PlaysAt,
         CycleIsSet, Distinct, NoneYet, Returned, Gone, Upto, Wakes!Holds
<1>2. Wakes!TypeOK'
  BY DEF WakesInv, Wakes!TypeOK
<1>3. CaptureIsHeard' /\ CycleIsHeard' /\ Wakes!HardwareIsWoken'
  BY DEF WakesInv, Wakes!TypeOK, Ways, WaitsAt, PollsAt, PlaysAt, CycleIsSet, NoneYet,
         Returned, Gone, CaptureIsHeard, Listens, CycleIsHeard, Due, Wakes!HardwareIsWoken,
         Wakes!Answered, Wakes!Holds
<1> QED BY <1>1, <1>2, <1>3 DEF WakesInv

LEMMA NotifyCaptureKeeps ==
  ASSUME WakesInv, Wakes!WakeAssumption, Wakes!NotifyCapture
  PROVE  WakesInv'
<1> USE AgesAre DEF Wakes!NotifyCapture, Wakes!rings, Wakes!session, Wakes!hardwareVars,
       Wakes!clientVars
<1>1. Ways' /\ CycleIsSet' /\ Distinct' /\ NoneYet' /\ Returned'
  BY DEF WakesInv, Wakes!TypeOK, Ways, Wakes!AllKinds, WaitsAt, PollsAt, PlaysAt,
         CycleIsSet, Distinct, NoneYet, Returned, Gone, Upto, Wakes!Holds
<1>2. Wakes!TypeOK'
  BY DEF WakesInv, Wakes!TypeOK
<1>3. CaptureIsHeard' /\ CycleIsHeard' /\ Wakes!HardwareIsWoken'
  BY DEF WakesInv, Wakes!TypeOK, Ways, WaitsAt, PollsAt, PlaysAt, CycleIsSet, NoneYet,
         Returned, Gone, CaptureIsHeard, Listens, CycleIsHeard, Due, Wakes!HardwareIsWoken,
         Wakes!Answered, Wakes!Holds
<1> QED BY <1>1, <1>2, <1>3 DEF WakesInv

LEMMA CheckKeeps ==
  ASSUME WakesInv, Wakes!WakeAssumption, Wakes!Check
  PROVE  WakesInv'
<1> USE AgesAre DEF Wakes!Check, Wakes!Answered, Wakes!rings, Wakes!session,
       Wakes!hardwareVars, Wakes!clientVars
<1>1. Ways' /\ CycleIsSet' /\ Distinct' /\ NoneYet' /\ Returned'
  BY DEF WakesInv, Wakes!TypeOK, Ways, Wakes!AllKinds, WaitsAt, PollsAt, PlaysAt,
         CycleIsSet, Distinct, NoneYet, Returned, Gone, Upto, Wakes!Holds
<1>2. Wakes!TypeOK'
  BY DEF WakesInv, Wakes!TypeOK
<1>3. CaptureIsHeard' /\ CycleIsHeard' /\ Wakes!HardwareIsWoken'
  BY DEF WakesInv, Wakes!TypeOK, Ways, WaitsAt, PollsAt, PlaysAt, CycleIsSet, NoneYet,
         Returned, Gone, CaptureIsHeard, Listens, CycleIsHeard, Due, Wakes!HardwareIsWoken,
         Wakes!Answered, Wakes!Holds
<1> QED BY <1>1, <1>2, <1>3 DEF WakesInv

LEMMA DrainReadyKeeps ==
  ASSUME WakesInv, Wakes!WakeAssumption, Wakes!DrainReady
  PROVE  WakesInv'
<1> USE AgesAre DEF Wakes!DrainReady, Wakes!rings, Wakes!session, Wakes!hardwareVars,
       Wakes!clientVars
<1>1. Ways' /\ CycleIsSet' /\ Distinct' /\ NoneYet' /\ Returned'
  BY DEF WakesInv, Wakes!TypeOK, Ways, Wakes!AllKinds, WaitsAt, PollsAt, PlaysAt,
         CycleIsSet, Distinct, NoneYet, Returned, Gone, Upto, Wakes!Holds
<1>2. Wakes!TypeOK'
  BY DEF WakesInv, Wakes!TypeOK
<1>3. CaptureIsHeard' /\ CycleIsHeard' /\ Wakes!HardwareIsWoken'
  BY DEF WakesInv, Wakes!TypeOK, Ways, WaitsAt, PollsAt, PlaysAt, CycleIsSet, NoneYet,
         Returned, Gone, CaptureIsHeard, Listens, CycleIsHeard, Due, Wakes!HardwareIsWoken,
         Wakes!Answered, Wakes!Holds
<1> QED BY <1>1, <1>2, <1>3 DEF WakesInv

LEMMA RecheckKeeps ==
  ASSUME WakesInv, Wakes!WakeAssumption, Wakes!Recheck
  PROVE  WakesInv'
<1> USE AgesAre DEF Wakes!Recheck, Wakes!Answered, Wakes!rings, Wakes!session,
       Wakes!hardwareVars, Wakes!clientVars
<1>1. Ways' /\ CycleIsSet' /\ Distinct' /\ NoneYet' /\ Returned'
  BY DEF WakesInv, Wakes!TypeOK, Ways, Wakes!AllKinds, WaitsAt, PollsAt, PlaysAt,
         CycleIsSet, Distinct, NoneYet, Returned, Gone, Upto, Wakes!Holds
<1>2. Wakes!TypeOK'
  BY DEF WakesInv, Wakes!TypeOK
<1>3. CaptureIsHeard' /\ CycleIsHeard' /\ Wakes!HardwareIsWoken'
  BY DEF WakesInv, Wakes!TypeOK, Ways, WaitsAt, PollsAt, PlaysAt, CycleIsSet, NoneYet,
         Returned, Gone, CaptureIsHeard, Listens, CycleIsHeard, Due, Wakes!HardwareIsWoken,
         Wakes!Answered, Wakes!Holds
<1> QED BY <1>1, <1>2, <1>3 DEF WakesInv

LEMMA WakeKeeps ==
  ASSUME WakesInv, Wakes!WakeAssumption, Wakes!Wake
  PROVE  WakesInv'
<1> USE AgesAre DEF Wakes!Wake, Wakes!rings, Wakes!session, Wakes!hardwareVars,
       Wakes!clientVars
<1>1. Ways' /\ CycleIsSet' /\ Distinct' /\ NoneYet' /\ Returned'
  BY DEF WakesInv, Wakes!TypeOK, Ways, Wakes!AllKinds, WaitsAt, PollsAt, PlaysAt,
         CycleIsSet, Distinct, NoneYet, Returned, Gone, Upto, Wakes!Holds
<1>2. Wakes!TypeOK'
  BY DEF WakesInv, Wakes!TypeOK
<1>3. CaptureIsHeard' /\ CycleIsHeard' /\ Wakes!HardwareIsWoken'
  BY DEF WakesInv, Wakes!TypeOK, Ways, WaitsAt, PollsAt, PlaysAt, CycleIsSet, NoneYet,
         Returned, Gone, CaptureIsHeard, Listens, CycleIsHeard, Due, Wakes!HardwareIsWoken,
         Wakes!Answered, Wakes!Holds
<1> QED BY <1>1, <1>2, <1>3 DEF WakesInv

LEMMA ConsumeKeeps ==
  ASSUME WakesInv, Wakes!WakeAssumption, Wakes!Consume
  PROVE  WakesInv'
<1> USE AgesAre DEF Wakes!Consume, Wakes!Empty, Wakes!rings, Wakes!session,
       Wakes!hardwareVars, Wakes!clientVars
<1>1. Ways' /\ CycleIsSet' /\ Distinct' /\ NoneYet' /\ Returned'
  BY DEF WakesInv, Wakes!TypeOK, Ways, Wakes!AllKinds, WaitsAt, PollsAt, PlaysAt,
         CycleIsSet, Distinct, NoneYet, Returned, Gone, Upto, Wakes!Holds
<1>2. Wakes!TypeOK'
  BY DEF WakesInv, Wakes!TypeOK
<1>3. CaptureIsHeard' /\ CycleIsHeard' /\ Wakes!HardwareIsWoken'
  BY DEF WakesInv, Wakes!TypeOK, Ways, WaitsAt, PollsAt, PlaysAt, CycleIsSet, NoneYet,
         Returned, Gone, CaptureIsHeard, Listens, CycleIsHeard, Due, Wakes!HardwareIsWoken,
         Wakes!Answered, Wakes!Holds
<1> QED BY <1>1, <1>2, <1>3 DEF WakesInv

LEMMA AdvanceKeeps ==
  ASSUME WakesInv, Wakes!WakeAssumption, Wakes!Advance
  PROVE  WakesInv'
<1>f. /\ hpc = "advance" /\ hpc' = "prepare"
      /\ start' = Wakes!Aged(start) /\ cycle' = Wakes!Aged(cycle)
      /\ least' = Wakes!Aged(least) /\ last' = Wakes!Aged(last) /\ got' = Wakes!Aged(got)
      /\ UNCHANGED <<live, overrun, heard, ready, kind, cpc, spc>> /\ late' = FALSE
  BY DEF Wakes!Advance
<1>t. /\ \A a \in {start, last, got} : a \in Wakes!Ages \union {Wakes!Never}
      /\ \A b \in Wakes!Blocks : captures[b] \in Wakes!Ages \union {Wakes!Never}
      /\ \A b \in Wakes!Blocks : playbacks[b] \in Wakes!Ages \union {Wakes!Never}
      /\ least \in Wakes!Ages
  BY DEF WakesInv, Wakes!TypeOK
<1>c. cycle = 0 /\ cycle' = 1
  BY <1>f, AgesAre DEF WakesInv, CycleIsSet, Wakes!Aged
<1>b. /\ captures' = [b \in Wakes!Blocks |-> Wakes!Aged(captures[b])]
      /\ playbacks' = [b \in Wakes!Blocks |-> Wakes!Aged(playbacks[b])]
      /\ \A b \in Wakes!Blocks : captures'[b] = Wakes!Aged(captures[b])
  BY DEF Wakes!Advance, Wakes!AgedRing
<1>1. Ways' /\ CycleIsSet'
  BY <1>f, <1>c DEF WakesInv, Ways, CycleIsSet
<1>2. Distinct'
  BY <1>t, <1>b, AgingIs, AgesAre DEF WakesInv, Distinct
<1>3. NoneYet'
  BY <1>f, <1>t, <1>b, AgingIs DEF NoneYet, Wakes!Holds
<1>4. Returned'
  <2>1. ASSUME NEW a \in Wakes!Ages \union {Wakes!Never}, Gone(a)
        PROVE  Wakes!Aged(a) < Old => \A b \in Wakes!Blocks : captures'[b] # Wakes!Aged(a)
    <3> SUFFICES ASSUME Wakes!Aged(a) < Old, NEW b \in Wakes!Blocks,
                        Wakes!Aged(captures[b]) = Wakes!Aged(a)
                 PROVE  FALSE
      BY <1>b
    <3>1. a < Old /\ captures[b] < Old
      BY <1>t, AgingIs, AgesAre
    <3>2. a = captures[b]
      BY <3>1, <1>t, AgingIs, AgesAre
    <3> QED BY <2>1, <3>1, <3>2 DEF Gone, Wakes!Holds
  <2>2. ASSUME NEW a \in Wakes!Ages \union {Wakes!Never}, Upto(a)
        PROVE  \A b \in Wakes!Blocks : captures'[b] = Wakes!Never \/ captures'[b] <= Wakes!Aged(a)
    BY <2>2, <1>t, <1>b, AgingIs, AgesAre DEF Upto
  <2>3. /\ Gone(last) => Gone(last)'
        /\ Gone(got) => Gone(got)'
        /\ Upto(last) => Upto(last)'
        /\ Upto(got) => Upto(got)'
    BY <1>f, <1>t, <2>1, <2>2 DEF Gone, Upto, Wakes!Holds
  <2> QED BY <1>f, <2>3 DEF WakesInv, Returned
<1>5. Wakes!TypeOK'
  <2>1. /\ captures' \in [Wakes!Blocks -> Wakes!Ages \union {Wakes!Never}]
        /\ playbacks' \in [Wakes!Blocks -> Wakes!Ages \union {Wakes!Never}]
    BY <1>t, <1>b, AgingIs
  <2>2. /\ start' \in Wakes!Ages \union {Wakes!Never} /\ last' \in Wakes!Ages \union {Wakes!Never}
        /\ got' \in Wakes!Ages \union {Wakes!Never} /\ least' \in Wakes!Ages
    BY <1>f, <1>t, AgingIs
  <2> QED BY <1>f, <1>c, <2>1, <2>2 DEF WakesInv, Wakes!TypeOK
<1>6. CaptureIsHeard'
  BY <1>f, <1>3 DEF CaptureIsHeard, NoneYet
<1>7. CycleIsHeard'
  <2>1. Due' => Due
    BY <1>f, <1>t, <1>c, AgingIs, AgesAre DEF Due
  <2>2. got = cycle => got' = cycle'
    BY <1>f
  <2> QED BY <1>f, <2>1, <2>2 DEF WakesInv, CycleIsHeard
<1>8. Wakes!HardwareIsWoken'
  BY <1>f DEF Wakes!HardwareIsWoken
<1> QED BY <1>1, <1>2, <1>3, <1>4, <1>5, <1>6, <1>7, <1>8 DEF WakesInv

LEMMA DeadlineKeeps ==
  ASSUME WakesInv, Wakes!WakeAssumption, Wakes!Deadline
  PROVE  WakesInv'
<1> USE AgesAre DEF Wakes!Deadline, Wakes!rings, Wakes!session, Wakes!hardwareVars,
       Wakes!clientVars
<1>1. Ways' /\ CycleIsSet' /\ Distinct' /\ NoneYet' /\ Returned'
  BY DEF WakesInv, Wakes!TypeOK, Ways, Wakes!AllKinds, WaitsAt, PollsAt, PlaysAt,
         CycleIsSet, Distinct, NoneYet, Returned, Gone, Upto, Wakes!Holds
<1>2. Wakes!TypeOK'
  BY DEF WakesInv, Wakes!TypeOK
<1>3. CaptureIsHeard' /\ CycleIsHeard' /\ Wakes!HardwareIsWoken'
  BY DEF WakesInv, Wakes!TypeOK, Ways, WaitsAt, PollsAt, PlaysAt, CycleIsSet, NoneYet,
         Returned, Gone, CaptureIsHeard, Listens, CycleIsHeard, Due, Wakes!HardwareIsWoken,
         Wakes!Answered, Wakes!Holds
<1> QED BY <1>1, <1>2, <1>3 DEF WakesInv

LEMMA ReadMinimumKeeps ==
  ASSUME WakesInv, Wakes!WakeAssumption, NEW from, NEW to,
         \/ from = "minimum" /\ to = "scan"
         \/ from \in {"read minimum", "again"} /\ to = "read"
         \/ from = "next minimum" /\ to = "next",
         Wakes!ReadMinimum(from, to)
  PROVE  WakesInv'
<1> USE AgesAre DEF Wakes!ReadMinimum, Wakes!Goto, Wakes!ClientOnly, Wakes!rings,
       Wakes!session, Wakes!hardwareVars, Wakes!clientVars
<1>1. Ways' /\ CycleIsSet' /\ Distinct' /\ NoneYet' /\ Returned'
  BY DEF WakesInv, Wakes!TypeOK, Ways, Wakes!AllKinds, WaitsAt, PollsAt, PlaysAt,
         CycleIsSet, Distinct, NoneYet, Returned, Gone, Upto, Wakes!Holds
<1>2. cpc' \in Wakes!Labels
  BY <1>1, WaysAreLabels
<1>3. UNCHANGED <<live, start, overrun, hpc, cycle, late, kind, spc, captures, playbacks, heard,
                 ready, last, got>> /\ least' \in Wakes!Ages
  BY Zenon
<1>4. Wakes!TypeOK'
  BY ONLY WakesInv, <1>2, <1>3 DEF WakesInv, Wakes!TypeOK
<1>5. CaptureIsHeard' /\ CycleIsHeard' /\ Wakes!HardwareIsWoken'
  BY DEF WakesInv, Wakes!TypeOK, Ways, WaitsAt, PollsAt, PlaysAt, CycleIsSet, NoneYet,
         Returned, Gone, CaptureIsHeard, Listens, CycleIsHeard, Due, Wakes!HardwareIsWoken,
         Wakes!Answered, Wakes!Holds
<1> QED BY <1>1, <1>2, <1>3, <1>4, <1>5 DEF WakesInv

LEMMA WaitFindsKeeps ==
  ASSUME WakesInv, Wakes!WakeAssumption, Wakes!WaitFinds
  PROVE  WakesInv'
<1> USE AgesAre DEF Wakes!WaitFinds, Wakes!Reclaimed, Wakes!Without, Wakes!Valid,
       Wakes!Oldest, Wakes!Differ, Wakes!Goto, Wakes!ClientOnly, Wakes!rings, Wakes!session,
       Wakes!hardwareVars, Wakes!clientVars
<1>1. Ways' /\ CycleIsSet' /\ Distinct' /\ NoneYet' /\ Returned'
  BY DEF WakesInv, Wakes!TypeOK, Ways, Wakes!AllKinds, WaitsAt, PollsAt, PlaysAt,
         CycleIsSet, Distinct, NoneYet, Returned, Gone, Upto, Wakes!Holds
<1>2. cpc' \in Wakes!Labels
  BY <1>1, WaysAreLabels
<1>3. Wakes!TypeOK'
  BY <1>2 DEF WakesInv, Wakes!TypeOK, Wakes!Ages
<1>4. CaptureIsHeard' /\ CycleIsHeard' /\ Wakes!HardwareIsWoken'
  BY DEF WakesInv, Wakes!TypeOK, Ways, WaitsAt, PollsAt, PlaysAt, CycleIsSet, NoneYet,
         Returned, Gone, CaptureIsHeard, Listens, CycleIsHeard, Due, Wakes!HardwareIsWoken,
         Wakes!Answered, Wakes!Holds
<1> QED BY <1>1, <1>2, <1>3, <1>4 DEF WakesInv

LEMMA WaitFindsNothingKeeps ==
  ASSUME WakesInv, Wakes!WakeAssumption, Wakes!WaitFindsNothing
  PROVE  WakesInv'
<1> USE AgesAre DEF Wakes!WaitFindsNothing, Wakes!Reclaimed, Wakes!Without, Wakes!Valid,
       Wakes!Oldest, Wakes!Differ, Wakes!Goto, Wakes!ClientOnly, Wakes!rings, Wakes!session,
       Wakes!hardwareVars, Wakes!clientVars
<1>1. Ways' /\ CycleIsSet' /\ Distinct' /\ NoneYet' /\ Returned'
  BY DEF WakesInv, Wakes!TypeOK, Ways, Wakes!AllKinds, WaitsAt, PollsAt, PlaysAt,
         CycleIsSet, Distinct, NoneYet, Returned, Gone, Upto, Wakes!Holds
<1>2. cpc' \in Wakes!Labels
  BY <1>1, WaysAreLabels
<1>3. Wakes!TypeOK'
  BY <1>2 DEF WakesInv, Wakes!TypeOK, Wakes!Ages
<1>4. CaptureIsHeard' /\ CycleIsHeard' /\ Wakes!HardwareIsWoken'
  BY DEF WakesInv, Wakes!TypeOK, Ways, WaitsAt, PollsAt, PlaysAt, CycleIsSet, NoneYet,
         Returned, Gone, CaptureIsHeard, Listens, CycleIsHeard, Due, Wakes!HardwareIsWoken,
         Wakes!Answered, Wakes!Holds
<1> QED BY <1>1, <1>2, <1>3, <1>4 DEF WakesInv

LEMMA ClearHintKeeps ==
  ASSUME WakesInv, Wakes!WakeAssumption, Wakes!ClearHint
  PROVE  WakesInv'
<1> USE AgesAre DEF Wakes!ClearHint, Wakes!Goto, Wakes!ClientOnly, Wakes!rings,
       Wakes!session, Wakes!hardwareVars, Wakes!clientVars
<1>1. Ways' /\ CycleIsSet' /\ Distinct' /\ NoneYet' /\ Returned'
  BY DEF WakesInv, Wakes!TypeOK, Ways, Wakes!AllKinds, WaitsAt, PollsAt, PlaysAt,
         CycleIsSet, Distinct, NoneYet, Returned, Gone, Upto, Wakes!Holds
<1>2. cpc' \in Wakes!Labels
  BY <1>1, WaysAreLabels
<1>3. UNCHANGED <<live, start, overrun, hpc, cycle, late, kind, spc, captures, playbacks, ready,
                 least, last, got>> /\ heard' \in BOOLEAN
  OBVIOUS
<1>4. Wakes!TypeOK'
  BY ONLY WakesInv, <1>2, <1>3 DEF WakesInv, Wakes!TypeOK
<1>5. CaptureIsHeard' /\ CycleIsHeard' /\ Wakes!HardwareIsWoken'
  BY DEF WakesInv, Wakes!TypeOK, Ways, WaitsAt, PollsAt, PlaysAt, CycleIsSet, NoneYet,
         Returned, Gone, CaptureIsHeard, Listens, CycleIsHeard, Due, Wakes!HardwareIsWoken,
         Wakes!Answered, Wakes!Holds
<1> QED BY <1>1, <1>2, <1>3, <1>4, <1>5 DEF WakesInv

LEMMA KeepHintKeeps ==
  ASSUME WakesInv, Wakes!WakeAssumption, Wakes!KeepHint
  PROVE  WakesInv'
<1> USE AgesAre DEF Wakes!KeepHint, Wakes!Free, Wakes!Goto, Wakes!ClientOnly, Wakes!rings,
       Wakes!session, Wakes!hardwareVars, Wakes!clientVars
<1>1. Ways' /\ CycleIsSet' /\ Distinct' /\ NoneYet' /\ Returned'
  BY DEF WakesInv, Wakes!TypeOK, Ways, Wakes!AllKinds, WaitsAt, PollsAt, PlaysAt,
         CycleIsSet, Distinct, NoneYet, Returned, Gone, Upto, Wakes!Holds
<1>2. cpc' \in Wakes!Labels
  BY <1>1, WaysAreLabels
<1>3. UNCHANGED <<live, start, overrun, hpc, cycle, late, kind, spc, captures, playbacks,
                 ready, least, got>> /\ last' = got /\ heard' \in BOOLEAN
  OBVIOUS
<1>4. Wakes!TypeOK'
  BY ONLY WakesInv, <1>2, <1>3 DEF WakesInv, Wakes!TypeOK
<1>5. CaptureIsHeard' /\ CycleIsHeard' /\ Wakes!HardwareIsWoken'
  BY DEF WakesInv, Wakes!TypeOK, Ways, WaitsAt, PollsAt, PlaysAt, CycleIsSet, NoneYet,
         Returned, Gone, CaptureIsHeard, Listens, CycleIsHeard, Due, Wakes!HardwareIsWoken,
         Wakes!Answered, Wakes!Holds
<1> QED BY <1>1, <1>4, <1>5 DEF WakesInv

LEMMA AwakeKeeps ==
  ASSUME WakesInv, Wakes!WakeAssumption, Wakes!Awake
  PROVE  WakesInv'
<1> USE AgesAre DEF Wakes!Awake, Wakes!Goto, Wakes!ClientOnly, Wakes!rings, Wakes!session,
       Wakes!hardwareVars, Wakes!clientVars
<1>1. Ways' /\ CycleIsSet' /\ Distinct' /\ NoneYet' /\ Returned'
  BY DEF WakesInv, Wakes!TypeOK, Ways, Wakes!AllKinds, WaitsAt, PollsAt, PlaysAt,
         CycleIsSet, Distinct, NoneYet, Returned, Gone, Upto, Wakes!Holds
<1>2. cpc' \in Wakes!Labels
  BY <1>1, WaysAreLabels
<1>3. Wakes!TypeOK'
  BY <1>2 DEF WakesInv, Wakes!TypeOK, Wakes!Ages
<1>4. CaptureIsHeard' /\ CycleIsHeard' /\ Wakes!HardwareIsWoken'
  BY DEF WakesInv, Wakes!TypeOK, Ways, WaitsAt, PollsAt, PlaysAt, CycleIsSet, NoneYet,
         Returned, Gone, CaptureIsHeard, Listens, CycleIsHeard, Due, Wakes!HardwareIsWoken,
         Wakes!Answered, Wakes!Holds
<1> QED BY <1>1, <1>2, <1>3, <1>4 DEF WakesInv

LEMMA ReadCaptureKeeps ==
  ASSUME WakesInv, Wakes!WakeAssumption, Wakes!ReadCapture
  PROVE  WakesInv'
<1>f. /\ cpc = "read" /\ cpc' = "check"
      /\ UNCHANGED <<live, start, overrun, cycle, late, hpc, kind, spc, playbacks, heard, ready,
                     least, last>>
  BY DEF Wakes!ReadCapture, Wakes!Goto, Wakes!ClientOnly, Wakes!session, Wakes!hardwareVars
<1>1. PICK b \in Wakes!Blocks :
        /\ Wakes!Oldest(b)
        /\ captures' = [Wakes!Reclaimed EXCEPT ![b] = Wakes!Never]
        /\ got' = captures[b]
  BY DEF Wakes!ReadCapture
<1>2. /\ captures' \in [Wakes!Blocks -> Wakes!Ages \union {Wakes!Never}]
      /\ got' \in Wakes!Ages \union {Wakes!Never}
  BY <1>1 DEF WakesInv, Wakes!TypeOK, Wakes!Reclaimed, Wakes!Without
<1>3. \A c \in Wakes!Blocks :
        captures'[c] = IF c = b \/ c \notin Wakes!Valid THEN Wakes!Never ELSE captures[c]
  BY <1>1 DEF Wakes!Reclaimed, Wakes!Without
<1>4. captures[b] <= least /\ \A c \in Wakes!Valid : captures[c] <= captures[b]
  BY <1>1 DEF Wakes!Oldest, Wakes!Valid
<1>t. \A c \in Wakes!Blocks : captures[c] \in 0..(Old + 1)
  BY AgesAre DEF WakesInv, Wakes!TypeOK
<1>5. Ways' /\ CycleIsSet'
  BY <1>f DEF WakesInv, Ways, WaitsAt, PollsAt, PlaysAt, CycleIsSet
<1>6. Distinct'
  BY <1>3, AgesAre DEF WakesInv, Distinct
<1>7. NoneYet'
  BY <1>f, <1>1, <1>3, AgesAre DEF WakesInv, NoneYet, Wakes!Holds
<1>8. Returned'
  <2>1. Gone(got)'
    <3> SUFFICES ASSUME captures[b] < Old, NEW c \in Wakes!Blocks, captures'[c] = captures[b]
                 PROVE  FALSE
      BY <1>1 DEF Gone, Wakes!Holds
    <3>1. c # b /\ captures[c] = captures[b]
      BY <1>3, <1>t, AgesAre
    <3> QED BY <3>1, <1>t, AgesAre DEF WakesInv, Distinct
  <2>2. Gone(last) => Gone(last)'
    BY <1>f, <1>3, AgesAre DEF Gone, Wakes!Holds
  <2>3. Upto(last) => Gone(last)'
    <3> SUFFICES ASSUME Upto(last), last < Old, NEW c \in Wakes!Blocks, captures'[c] = last
                 PROVE  FALSE
      BY <1>f DEF Gone, Wakes!Holds
    <3>1. c # b /\ c \in Wakes!Valid /\ captures[c] = last
      BY <1>3, AgesAre
    <3>2. last <= captures[b] /\ captures[b] # Wakes!Never
      BY <3>1, <1>4, <1>t, AgesAre DEF WakesInv, Wakes!TypeOK
    <3>3. captures[b] = last
      BY <3>2, <1>t, AgesAre DEF Upto, WakesInv, Wakes!TypeOK
    <3> QED BY <3>1, <3>3, AgesAre DEF WakesInv, Distinct, Wakes!TypeOK
  <2> QED BY <1>f, <2>1, <2>2, <2>3 DEF WakesInv, Returned
<1>9. cpc' \in Wakes!Labels
  BY <1>5, WaysAreLabels
<1>10. Wakes!TypeOK'
  BY <1>f, <1>2, <1>9 DEF WakesInv, Wakes!TypeOK
<1>11. CaptureIsHeard' /\ CycleIsHeard' /\ Wakes!HardwareIsWoken'
  BY <1>f DEF WakesInv, CaptureIsHeard, Listens, CycleIsHeard, Wakes!HardwareIsWoken,
       Wakes!Answered, Wakes!Holds
<1> QED BY <1>5, <1>6, <1>7, <1>8, <1>10, <1>11 DEF WakesInv

LEMMA ReadNothingKeeps ==
  ASSUME WakesInv, Wakes!WakeAssumption, Wakes!ReadNothing
  PROVE  WakesInv'
<1>f. /\ cpc = "read" /\ got' = Wakes!Never
      /\ UNCHANGED <<live, start, overrun, cycle, late, hpc, kind, spc, playbacks, heard, ready,
                     least, last>>
  BY DEF Wakes!ReadNothing, Wakes!Goto, Wakes!ClientOnly, Wakes!session, Wakes!hardwareVars
<1>g. cpc' = CASE kind = "wait" -> "minimum" [] kind = "poll" -> "next minimum" [] OTHER -> "clear"
  BY DEF Wakes!ReadNothing, Wakes!Goto, Wakes!Top
<1>1. /\ captures' \in [Wakes!Blocks -> {Wakes!Never}]
      /\ \A b \in Wakes!Blocks : captures'[b] = Wakes!Never
  BY DEF Wakes!ReadNothing, Wakes!Reclaimed, Wakes!Without
<1>2. Ways' /\ CycleIsSet'
  BY <1>f, <1>g DEF WakesInv, Ways, Wakes!AllKinds, WaitsAt, PollsAt, PlaysAt, CycleIsSet
<1>3. Distinct'
  BY <1>1, AgesAre DEF Distinct
<1>4. NoneYet'
  BY <1>f, <1>1, AgesAre DEF WakesInv, NoneYet, Wakes!Holds
<1>5. Returned'
  BY <1>f, <1>g, <1>1, AgesAre DEF WakesInv, Wakes!TypeOK, Returned, Gone, Wakes!Holds
<1>6. cpc' \in Wakes!Labels
  BY <1>2, WaysAreLabels
<1>7. Wakes!TypeOK'
  BY <1>f, <1>1, <1>6 DEF WakesInv, Wakes!TypeOK
<1>8. CaptureIsHeard' /\ CycleIsHeard' /\ Wakes!HardwareIsWoken'
  BY <1>f, <1>g DEF WakesInv, Ways, WaitsAt, PollsAt, PlaysAt, CaptureIsHeard, Listens,
       CycleIsHeard, Wakes!HardwareIsWoken, Wakes!Answered, Wakes!Holds
<1> QED BY <1>2, <1>3, <1>4, <1>5, <1>7, <1>8 DEF WakesInv

LEMMA CheckExpiredKeeps ==
  ASSUME WakesInv, Wakes!WakeAssumption, Wakes!CheckExpired
  PROVE  WakesInv'
<1> USE AgesAre DEF Wakes!CheckExpired, Wakes!Goto, Wakes!ClientOnly, Wakes!rings,
       Wakes!session, Wakes!hardwareVars, Wakes!clientVars
<1>1. Ways' /\ CycleIsSet' /\ Distinct' /\ NoneYet' /\ Returned'
  BY DEF WakesInv, Wakes!TypeOK, Ways, Wakes!AllKinds, WaitsAt, PollsAt, PlaysAt,
         CycleIsSet, Distinct, NoneYet, Returned, Gone, Upto, Wakes!Holds
<1>2. cpc' \in Wakes!Labels
  BY <1>1, WaysAreLabels
<1>3. UNCHANGED <<live, start, overrun, hpc, cycle, late, kind, spc, captures, playbacks, heard,
                 ready, least, got>> /\ last' \in {last, got}
  OBVIOUS
<1>4. Wakes!TypeOK'
  BY ONLY WakesInv, <1>2, <1>3 DEF WakesInv, Wakes!TypeOK
<1>5. CaptureIsHeard' /\ CycleIsHeard' /\ Wakes!HardwareIsWoken'
  BY DEF WakesInv, Wakes!TypeOK, Ways, WaitsAt, PollsAt, PlaysAt, CycleIsSet, NoneYet,
         Returned, Gone, CaptureIsHeard, Listens, CycleIsHeard, Due, Wakes!HardwareIsWoken,
         Wakes!Answered, Wakes!Holds
<1> QED BY <1>1, <1>2, <1>3, <1>4, <1>5 DEF WakesInv

LEMMA LookForNextKeeps ==
  ASSUME WakesInv, Wakes!WakeAssumption, Wakes!LookForNext
  PROVE  WakesInv'
<1>f. /\ cpc = "next" /\ cpc' \in {"asleep", "submit"}
      /\ heard' = (heard \/ Wakes!Valid # {})
      /\ UNCHANGED <<live, start, overrun, cycle, late, hpc, kind, spc, playbacks, ready, least,
                     last, got>>
  BY DEF Wakes!LookForNext, Wakes!Goto, Wakes!ClientOnly, Wakes!session, Wakes!hardwareVars
<1>k. kind = "poll"
  BY <1>f DEF WakesInv, Ways, WaitsAt, PollsAt, PlaysAt
<1>1. /\ captures' \in [Wakes!Blocks -> Wakes!Ages \union {Wakes!Never}]
      /\ \A b \in Wakes!Blocks :
           captures'[b] = IF b \in Wakes!Valid THEN captures[b] ELSE Wakes!Never
  BY DEF WakesInv, Wakes!TypeOK, Wakes!LookForNext, Wakes!Reclaimed, Wakes!Without
<1>2. Ways' /\ CycleIsSet'
  BY <1>f, <1>k DEF WakesInv, Ways, PollsAt, CycleIsSet
<1>3. Distinct' /\ NoneYet'
  BY <1>f, <1>1, AgesAre DEF WakesInv, Distinct, NoneYet, Wakes!Holds
<1>4. Returned'
  BY <1>f, <1>k DEF Returned
<1>5. cpc' \in Wakes!Labels
  BY <1>2, WaysAreLabels
<1>6. Wakes!TypeOK'
  BY <1>f, <1>1, <1>5 DEF WakesInv, Wakes!TypeOK
<1>7. CaptureIsHeard'
  <2>1. Wakes!Holds(captures', 0) => Wakes!Valid # {}
    BY <1>1, AgesAre DEF Wakes!Holds
  <2> QED BY <1>f, <2>1 DEF CaptureIsHeard, Wakes!Holds
<1>8. CycleIsHeard' /\ Wakes!HardwareIsWoken'
  BY <1>f, <1>k DEF WakesInv, CycleIsHeard, Wakes!HardwareIsWoken, Wakes!Answered, Wakes!Holds
<1> QED BY <1>2, <1>3, <1>4, <1>6, <1>7, <1>8 DEF WakesInv

LEMMA LookAtCycleKeeps ==
  ASSUME WakesInv, Wakes!WakeAssumption, Wakes!LookAtCycle
  PROVE  WakesInv'
<1> USE AgesAre DEF Wakes!LookAtCycle, Wakes!Goto, Wakes!ClientOnly, Wakes!rings,
       Wakes!session, Wakes!hardwareVars, Wakes!clientVars
<1>1. Ways' /\ CycleIsSet' /\ Distinct' /\ NoneYet' /\ Returned'
  BY DEF WakesInv, Wakes!TypeOK, Ways, Wakes!AllKinds, WaitsAt, PollsAt, PlaysAt,
         CycleIsSet, Distinct, NoneYet, Returned, Gone, Upto, Wakes!Holds
<1>2. cpc' \in Wakes!Labels
  BY <1>1, WaysAreLabels
<1>3. Wakes!TypeOK'
  BY <1>2 DEF WakesInv, Wakes!TypeOK, Wakes!Ages
<1>4. CaptureIsHeard' /\ CycleIsHeard' /\ Wakes!HardwareIsWoken'
  BY DEF WakesInv, Wakes!TypeOK, Ways, WaitsAt, PollsAt, PlaysAt, CycleIsSet, NoneYet,
         Returned, Gone, CaptureIsHeard, Listens, CycleIsHeard, Due, Wakes!HardwareIsWoken,
         Wakes!Answered, Wakes!Holds
<1> QED BY <1>1, <1>2, <1>3, <1>4 DEF WakesInv

LEMMA DiscardCaptureKeeps ==
  ASSUME WakesInv, Wakes!WakeAssumption, Wakes!DiscardCapture
  PROVE  WakesInv'
<1> USE AgesAre DEF Wakes!DiscardCapture, Wakes!Without, Wakes!Goto, Wakes!ClientOnly,
       Wakes!rings, Wakes!session, Wakes!hardwareVars, Wakes!clientVars
<1>1. Ways' /\ CycleIsSet' /\ Distinct' /\ NoneYet' /\ Returned'
  BY DEF WakesInv, Wakes!TypeOK, Ways, Wakes!AllKinds, WaitsAt, PollsAt, PlaysAt,
         CycleIsSet, Distinct, NoneYet, Returned, Gone, Upto, Wakes!Holds
<1>2. cpc' \in Wakes!Labels
  BY <1>1, WaysAreLabels
<1>3. Wakes!TypeOK'
  BY <1>2 DEF WakesInv, Wakes!TypeOK, Wakes!Ages
<1>4. CaptureIsHeard' /\ CycleIsHeard' /\ Wakes!HardwareIsWoken'
  BY DEF WakesInv, Wakes!TypeOK, Ways, WaitsAt, PollsAt, PlaysAt, CycleIsSet, NoneYet,
         Returned, Gone, CaptureIsHeard, Listens, CycleIsHeard, Due, Wakes!HardwareIsWoken,
         Wakes!Answered, Wakes!Holds
<1> QED BY <1>1, <1>2, <1>3, <1>4 DEF WakesInv

LEMMA AcceptCycleKeeps ==
  ASSUME WakesInv, Wakes!WakeAssumption, Wakes!AcceptCycle
  PROVE  WakesInv'
<1> USE AgesAre DEF Wakes!AcceptCycle, Wakes!Acceptable, Wakes!Started, Wakes!Differ,
       Wakes!Goto, Wakes!ClientOnly, Wakes!rings, Wakes!session, Wakes!hardwareVars,
       Wakes!clientVars
<1>1. Ways' /\ CycleIsSet' /\ Distinct' /\ NoneYet' /\ Returned'
  BY DEF WakesInv, Wakes!TypeOK, Ways, Wakes!AllKinds, WaitsAt, PollsAt, PlaysAt,
         CycleIsSet, Distinct, NoneYet, Returned, Gone, Upto, Wakes!Holds
<1>2. cpc' \in Wakes!Labels
  BY <1>1, WaysAreLabels
<1>3. Wakes!TypeOK'
  BY <1>2 DEF WakesInv, Wakes!TypeOK, Wakes!Ages
<1>4. CaptureIsHeard' /\ CycleIsHeard' /\ Wakes!HardwareIsWoken'
  BY DEF WakesInv, Wakes!TypeOK, Ways, WaitsAt, PollsAt, PlaysAt, CycleIsSet, NoneYet,
         Returned, Gone, CaptureIsHeard, Listens, CycleIsHeard, Due, Wakes!HardwareIsWoken,
         Wakes!Answered, Wakes!Holds
<1> QED BY <1>1, <1>2, <1>3, <1>4 DEF WakesInv

LEMMA PassCycleOverKeeps ==
  ASSUME WakesInv, Wakes!WakeAssumption, Wakes!PassCycleOver
  PROVE  WakesInv'
<1> USE AgesAre DEF Wakes!PassCycleOver, Wakes!Acceptable, Wakes!Started, Wakes!Differ,
       Wakes!Goto, Wakes!ClientOnly, Wakes!rings, Wakes!session, Wakes!hardwareVars,
       Wakes!clientVars
<1>1. Ways' /\ CycleIsSet' /\ Distinct' /\ NoneYet' /\ Returned'
  BY DEF WakesInv, Wakes!TypeOK, Ways, Wakes!AllKinds, WaitsAt, PollsAt, PlaysAt,
         CycleIsSet, Distinct, NoneYet, Returned, Gone, Upto, Wakes!Holds
<1>2. cpc' \in Wakes!Labels
  BY <1>1, WaysAreLabels
<1>3. Wakes!TypeOK'
  BY <1>2 DEF WakesInv, Wakes!TypeOK, Wakes!Ages
<1>4. CaptureIsHeard' /\ CycleIsHeard' /\ Wakes!HardwareIsWoken'
  BY DEF WakesInv, Wakes!TypeOK, Ways, WaitsAt, PollsAt, PlaysAt, CycleIsSet, NoneYet,
         Returned, Gone, CaptureIsHeard, Listens, CycleIsHeard, Due, Wakes!HardwareIsWoken,
         Wakes!Answered, Wakes!Holds
<1> QED BY <1>1, <1>2, <1>3, <1>4 DEF WakesInv

LEMMA SubmitKeeps ==
  ASSUME WakesInv, Wakes!WakeAssumption, Wakes!Submit
  PROVE  WakesInv'
<1> USE AgesAre DEF Wakes!Submit, Wakes!Put, Wakes!Free, Wakes!Goto, Wakes!ClientOnly,
       Wakes!rings, Wakes!session, Wakes!hardwareVars, Wakes!clientVars
<1>1. Ways' /\ CycleIsSet' /\ Distinct' /\ NoneYet' /\ Returned'
  BY DEF WakesInv, Wakes!TypeOK, Ways, Wakes!AllKinds, WaitsAt, PollsAt, PlaysAt,
         CycleIsSet, Distinct, NoneYet, Returned, Gone, Upto, Wakes!Holds
<1>2. cpc' \in Wakes!Labels
  BY <1>1, WaysAreLabels
<1>3. Wakes!TypeOK'
  BY <1>2 DEF WakesInv, Wakes!TypeOK, Wakes!Ages
<1>4. CaptureIsHeard' /\ CycleIsHeard' /\ Wakes!HardwareIsWoken'
  BY DEF WakesInv, Wakes!TypeOK, Ways, WaitsAt, PollsAt, PlaysAt, CycleIsSet, NoneYet,
         Returned, Gone, CaptureIsHeard, Listens, CycleIsHeard, Due, Wakes!HardwareIsWoken,
         Wakes!Answered, Wakes!Holds
<1> QED BY <1>1, <1>2, <1>3, <1>4 DEF WakesInv

LEMMA RefuseKeeps ==
  ASSUME WakesInv, Wakes!WakeAssumption, Wakes!Refuse
  PROVE  WakesInv'
<1> USE AgesAre DEF Wakes!Refuse, Wakes!Top, Wakes!Goto, Wakes!ClientOnly, Wakes!rings,
       Wakes!session, Wakes!hardwareVars, Wakes!clientVars
<1>1. Ways' /\ CycleIsSet' /\ Distinct' /\ NoneYet' /\ Returned'
  BY DEF WakesInv, Wakes!TypeOK, Ways, Wakes!AllKinds, WaitsAt, PollsAt, PlaysAt,
         CycleIsSet, Distinct, NoneYet, Returned, Gone, Upto, Wakes!Holds
<1>2. cpc' \in Wakes!Labels
  BY <1>1, WaysAreLabels
<1>3. Wakes!TypeOK'
  BY <1>2 DEF WakesInv, Wakes!TypeOK, Wakes!Ages
<1>4. CaptureIsHeard' /\ CycleIsHeard' /\ Wakes!HardwareIsWoken'
  BY DEF WakesInv, Wakes!TypeOK, Ways, WaitsAt, PollsAt, PlaysAt, CycleIsSet, NoneYet,
         Returned, Gone, CaptureIsHeard, Listens, CycleIsHeard, Due, Wakes!HardwareIsWoken,
         Wakes!Answered, Wakes!Holds
<1> QED BY <1>1, <1>2, <1>3, <1>4 DEF WakesInv

LEMMA AnswerKeeps ==
  ASSUME WakesInv, Wakes!WakeAssumption, Wakes!Answer
  PROVE  WakesInv'
<1> USE AgesAre DEF Wakes!Answer, Wakes!Top, Wakes!Goto, Wakes!ClientOnly, Wakes!rings,
       Wakes!session, Wakes!hardwareVars, Wakes!clientVars
<1>1. Ways' /\ CycleIsSet' /\ Distinct' /\ NoneYet' /\ Returned'
  BY DEF WakesInv, Wakes!TypeOK, Ways, Wakes!AllKinds, WaitsAt, PollsAt, PlaysAt,
         CycleIsSet, Distinct, NoneYet, Returned, Gone, Upto, Wakes!Holds
<1>2. cpc' \in Wakes!Labels
  BY <1>1, WaysAreLabels
<1>3. Wakes!TypeOK'
  BY <1>2 DEF WakesInv, Wakes!TypeOK, Wakes!Ages
<1>4. CaptureIsHeard' /\ CycleIsHeard' /\ Wakes!HardwareIsWoken'
  BY DEF WakesInv, Wakes!TypeOK, Ways, WaitsAt, PollsAt, PlaysAt, CycleIsSet, NoneYet,
         Returned, Gone, CaptureIsHeard, Listens, CycleIsHeard, Due, Wakes!HardwareIsWoken,
         Wakes!Answered, Wakes!Holds
<1> QED BY <1>1, <1>2, <1>3, <1>4 DEF WakesInv

LEMMA StopKeeps ==
  ASSUME WakesInv, Wakes!WakeAssumption, Wakes!Stop
  PROVE  WakesInv'
<1> USE AgesAre DEF Wakes!Stop, Wakes!rings, Wakes!session, Wakes!hardwareVars,
       Wakes!clientVars
<1>1. Ways' /\ CycleIsSet' /\ Distinct' /\ NoneYet' /\ Returned'
  BY DEF WakesInv, Wakes!TypeOK, Ways, Wakes!AllKinds, WaitsAt, PollsAt, PlaysAt,
         CycleIsSet, Distinct, NoneYet, Returned, Gone, Upto, Wakes!Holds
<1>2. cpc' \in Wakes!Labels
  BY <1>1, WaysAreLabels
<1>3. Wakes!TypeOK'
  BY <1>2 DEF WakesInv, Wakes!TypeOK, Wakes!Ages
<1>4. CaptureIsHeard' /\ CycleIsHeard' /\ Wakes!HardwareIsWoken'
  BY DEF WakesInv, Wakes!TypeOK, Ways, WaitsAt, PollsAt, PlaysAt, CycleIsSet, NoneYet,
         Returned, Gone, CaptureIsHeard, Listens, CycleIsHeard, Due, Wakes!HardwareIsWoken,
         Wakes!Answered, Wakes!Holds
<1> QED BY <1>1, <1>2, <1>3, <1>4 DEF WakesInv

LEMMA WakeHardwareKeeps ==
  ASSUME WakesInv, Wakes!WakeAssumption, Wakes!WakeHardware
  PROVE  WakesInv'
<1> USE AgesAre DEF Wakes!WakeHardware, Wakes!rings, Wakes!session, Wakes!hardwareVars,
       Wakes!clientVars
<1>1. Ways' /\ CycleIsSet' /\ Distinct' /\ NoneYet' /\ Returned'
  BY DEF WakesInv, Wakes!TypeOK, Ways, Wakes!AllKinds, WaitsAt, PollsAt, PlaysAt,
         CycleIsSet, Distinct, NoneYet, Returned, Gone, Upto, Wakes!Holds
<1>2. Wakes!TypeOK'
  BY DEF WakesInv, Wakes!TypeOK
<1>3. CaptureIsHeard' /\ CycleIsHeard' /\ Wakes!HardwareIsWoken'
  BY DEF WakesInv, Wakes!TypeOK, Ways, WaitsAt, PollsAt, PlaysAt, CycleIsSet, NoneYet,
         Returned, Gone, CaptureIsHeard, Listens, CycleIsHeard, Due, Wakes!HardwareIsWoken,
         Wakes!Answered, Wakes!Holds
<1> QED BY <1>1, <1>2, <1>3 DEF WakesInv

LEMMA RestartKeeps ==
  ASSUME WakesInv, Wakes!WakeAssumption, Wakes!Restart
  PROVE  WakesInv'
<1> USE AgesAre DEF Wakes!Restart, Wakes!Empty, Wakes!Top, Wakes!rings, Wakes!session,
       Wakes!hardwareVars, Wakes!clientVars
<1>1. Ways' /\ CycleIsSet'
  BY DEF WakesInv, Wakes!TypeOK, Wakes!AllKinds, Ways, WaitsAt, PollsAt, PlaysAt, CycleIsSet
<1>2. Distinct'
  BY DEF WakesInv, Wakes!TypeOK, Distinct, NoneYet, Wakes!Holds
<1>3. NoneYet'
  BY DEF WakesInv, Wakes!TypeOK, CycleIsSet, NoneYet, Wakes!Holds
<1>4. Returned'
  BY DEF WakesInv, Wakes!TypeOK, Ways, WaitsAt, PollsAt, PlaysAt, CycleIsSet, Distinct,
         NoneYet, Returned, Gone, Upto, Wakes!Holds
<1>5. cpc' \in Wakes!Labels
  BY <1>1, WaysAreLabels
<1>6. Wakes!TypeOK'
  BY <1>5 DEF WakesInv, Wakes!TypeOK, Wakes!Ages
<1>7. CaptureIsHeard' /\ CycleIsHeard' /\ Wakes!HardwareIsWoken'
  BY DEF WakesInv, Wakes!TypeOK, Ways, WaitsAt, PollsAt, PlaysAt, CycleIsSet, NoneYet,
         Returned, Gone, CaptureIsHeard, Listens, CycleIsHeard, Due, Wakes!HardwareIsWoken,
         Wakes!Answered, Wakes!Holds
<1> QED BY <1>1, <1>2, <1>3, <1>4, <1>5, <1>6, <1>7 DEF WakesInv

LEMMA WakesStutter ==
  ASSUME WakesInv, UNCHANGED Wakes!vars
  PROVE  WakesInv'
<1>1. /\ UNCHANGED <<live, start, overrun, cycle, late, hpc, kind, cpc, least, last, got, spc>>
      /\ UNCHANGED <<captures, playbacks, heard, ready>>
  BY DEF Wakes!vars, Wakes!session, Wakes!rings, Wakes!hardwareVars, Wakes!clientVars
<1>2. Wakes!TypeOK'
  BY <1>1 DEF WakesInv, Wakes!TypeOK
<1>3. Ways' /\ CycleIsSet' /\ Distinct' /\ NoneYet' /\ Returned'
  BY <1>1 DEF WakesInv, Ways, CycleIsSet, Distinct, NoneYet, Returned, Gone, Upto, Wakes!Holds
<1>4. CaptureIsHeard' /\ CycleIsHeard' /\ Wakes!HardwareIsWoken'
  BY <1>1 DEF WakesInv, CaptureIsHeard, Listens, CycleIsHeard, Due, Wakes!HardwareIsWoken,
       Wakes!Answered, Wakes!Holds
<1> QED BY <1>2, <1>3, <1>4 DEF WakesInv

LEMMA WakesStep ==
  ASSUME WakesInv, Wakes!WakeAssumption, [Wakes!Next]_(Wakes!vars)
  PROVE  WakesInv'
<1>1. CASE Wakes!HardwareStep
  BY <1>1, PrepareKeeps, SetCycleKeeps, ActivateKeeps, PublishKeeps, OverrunKeeps,
     PublishNothingKeeps, NotifyCaptureKeeps, CheckKeeps, DrainReadyKeeps, RecheckKeeps,
     WakeKeeps, ConsumeKeeps, AdvanceKeeps
     DEF Wakes!HardwareStep
<1>2. CASE Wakes!ClientStep
  <2>1. Wakes!ReadMinimum("minimum", "scan") => WakesInv'
    BY ReadMinimumKeeps, Zenon
  <2>2. Wakes!ReadMinimum("read minimum", "read") => WakesInv'
    BY ReadMinimumKeeps, Zenon
  <2>3. Wakes!ReadMinimum("again", "read") => WakesInv'
    BY ReadMinimumKeeps, Zenon
  <2>4. Wakes!ReadMinimum("next minimum", "next") => WakesInv'
    BY ReadMinimumKeeps, Zenon
  <2> QED BY <1>2, <2>1, <2>2, <2>3, <2>4, WaitFindsKeeps, WaitFindsNothingKeeps,
      ClearHintKeeps, KeepHintKeeps, AwakeKeeps,
     ReadCaptureKeeps, ReadNothingKeeps, CheckExpiredKeeps, LookForNextKeeps,
     LookAtCycleKeeps, DiscardCaptureKeeps, AcceptCycleKeeps, PassCycleOverKeeps,
     SubmitKeeps, RefuseKeeps, AnswerKeeps
        DEF Wakes!ClientStep
<1> QED BY <1>1, <1>2, DeadlineKeeps, StopKeeps, WakeHardwareKeeps, RestartKeeps, WakesStutter
     DEF Wakes!Next

(* A step of the composition is a step of the wakes, or leaves them alone. *)
LEMMA WakesPart ==
  /\ CyclesInit => Wakes!Init
  /\ [CyclesNext]_allVars => [Wakes!Next]_(Wakes!vars)
<1>1. CyclesInit => Wakes!Init
  BY DEF CyclesInit
<1>2. UNCHANGED wakeVars => UNCHANGED Wakes!vars
  BY DEF wakeVars, Wakes!vars, Wakes!session, Wakes!rings, Wakes!hardwareVars, Wakes!clientVars
<1> QED BY <1>1, <1>2 DEF CyclesNext, BarrierNext, WakesNext, AsioNext, BarrierRuns, AsioRuns,
       allVars

LEMMA WakesAlways == CyclesSpec => []WakesInv
<1>1. Wakes!Init => WakesInv
  BY WakesInit, CyclesAssumption
<1>2. WakesInv /\ [Wakes!Next]_(Wakes!vars) => WakesInv'
  BY WakesStep, CyclesAssumption
<1> QED BY <1>1, <1>2, WakesPart, PTL DEF CyclesSpec

(* For any number of slots and any ages told apart: a client that listens  *)
(* for a period that is there has its hint raised or about to be, whichever *)
(* way it waits; the hardware does not sleep on an answer that is there,   *)
(* nor on a session that has ended; and wait_period finds the block that   *)
(* it returned last gone (lib.rs, wait_period, try_capture_buffer,         *)
(* wait_pro_playback_period; state.rs, wait_for_playback_before).          *)
THEOREM NoWakeIsLost == CyclesSpec => []WakesAreKept
<1>1. WakesInv => Wakes!ClientIsWoken
  BY DEF WakesInv, Ways, Wakes!AllKinds, CaptureIsHeard, Listens, CycleIsHeard, Due,
         Wakes!ClientIsWoken, Wakes!Work
<1>2. WakesInv => Wakes!PeriodsAreFresh
  <2>1. WakesInv /\ cpc = "scan" => Gone(last)
    BY DEF WakesInv, Ways, PollsAt, PlaysAt, Returned
  <2> QED BY <2>1 DEF Gone, Wakes!PeriodsAreFresh
<1>3. WakesInv => WakesAreKept
  BY <1>1, <1>2 DEF WakesInv, WakesAreKept
<1> QED BY <1>3, WakesAlways, PTL
=============================================================================
