------------------------------ MODULE AsioDriver ------------------------------
(*****************************************************************************)
(* The ASIO driver: the calls a host makes (crates/sidealsa-asio/src/lib.rs,  *)
(* AsioDriver), the worker thread that runs the host's callbacks, the gate by *)
(* which the calls start and stop those callbacks, and the clean-up thread    *)
(* that closes the driver after the last COM reference is gone                *)
(* (wine_shim.c).                                                             *)
(*                                                                           *)
(* Sequence numbers are kept relative to the engine: a block is "pending"     *)
(* until the engine's playback sequence has moved past it and "taken" after.  *)
(*****************************************************************************)
EXTENDS Naturals

CONSTANTS
    Hosts,          \* threads of the host that call the driver
    MaxGeneration,  \* bound: no Start once the gate's generation exceeds this
    None            \* Option::None; also u64::MAX, the generation of no command

Cleanup == "cleanup"          \* the thread of asio_deferred_release
Callers == Hosts \cup {Cleanup}

AsioAssumption ==
    /\ MaxGeneration \in Nat \ {0}
    /\ Cleanup \notin Hosts
    /\ None \notin Nat \cup Callers

VARIABLES
    state,      \* inner.state, and "Freed" once the box is dropped
    stream,     \* inner.stream, or the one of the worker's context: none, driver or worker
    playback,   \* the stream has a playback direction
    worker,     \* inner.worker: none, kept, or taken by the call that joins it
    quiesce,    \* inner.quiesce_generation
    observed,   \* inner.worker_failure is Some
    lifecycle,  \* owner of the lifecycle mutex
    call,       \* what each caller is doing: [op, pc, want]
    released,   \* the host has dropped its last COM reference
    gate,       \* WorkerGate: [generation, running, runAck, stopAck, signal, failure, alive]
    stop,       \* StopSignal.requested
    w,          \* the worker thread: [pc, run, acq, block, last, after, error]
    cycle,      \* a captured period is waiting in the region
    link        \* what the daemon has done: up, rebased (discontinuity), down

driverVars == <<state, stream, playback, worker, quiesce, observed>>
callVars == <<lifecycle, call, released>>
vars == <<driverVars, callVars, gate, stop, w, cycle, link>>

Generations == 0 .. MaxGeneration + 3
Blocks == {"none", "pending", "taken"}
HostIsCalled == w.pc \in {"callback", "resync", "notify"}
Running == {"Running", "Stopping"}

TypeOK ==
    /\ state \in {"Loaded", "Initialized", "Prepared", "Running", "Stopping",
                  "Destroying", "Freed"}
    /\ stream \in {"none", "driver", "worker"}
    /\ playback \in BOOLEAN
    /\ worker \in {"none", "kept", "taken"}
    /\ quiesce \in Generations \cup {None}
    /\ observed \in BOOLEAN
    /\ lifecycle \in Callers \cup {None}
    /\ call \in [Callers -> [op : {"none", "create", "start", "stop", "dispose", "close", "failed"},
                             pc : {"idle", "asked", "entered", "awaitStop", "reap", "join",
                                   "joining", "act", "awaitStart", "closing"},
                             want : Generations]]
    /\ released \in BOOLEAN
    /\ gate \in [generation : Generations, running : BOOLEAN,
                 runAck : Generations \cup {None}, stopAck : Generations \cup {None},
                 signal : BOOLEAN, failure : BOOLEAN, alive : BOOLEAN]
    /\ stop \in BOOLEAN
    /\ w \in [pc : {"none", "boot", "loop", "peek", "wait", "acquired", "callback", "submit",
                    "recover", "resync", "exit", "report", "notify", "dying", "ending",
                    "exited"},
              run : Generations \cup {None}, acq : Generations \cup {None},
              block : Blocks, last : Blocks, after : Blocks, error : BOOLEAN]
    /\ cycle \in BOOLEAN
    /\ link \in {"up", "rebased", "down"}

NewGate == [generation |-> 0, running |-> TRUE, runAck |-> None, stopAck |-> None,
            signal |-> FALSE, failure |-> FALSE, alive |-> TRUE]
NewWorker == [pc |-> "boot", run |-> None, acq |-> None, block |-> "none",
              last |-> "none", after |-> "none", error |-> FALSE]

NoWorker == [w |-> [NewWorker EXCEPT !.pc = "none"],
             gate |-> [NewGate EXCEPT !.running = FALSE, !.alive = FALSE]]

Init ==
    /\ state = "Loaded" /\ stream = "none" /\ playback = FALSE /\ worker = "none"
    /\ quiesce = None /\ observed = FALSE /\ lifecycle = None /\ released = FALSE
    /\ call = [c \in Callers |-> [op |-> "none", pc |-> "idle", want |-> 0]]
    /\ gate = NoWorker.gate /\ w = NoWorker.w /\ stop = FALSE
    /\ cycle = FALSE /\ link = "up"

-----------------------------------------------------------------------------
(* The gate between the calls and the worker.                                *)

\* A command that is already in force keeps its generation.
SetRunning(running) ==
    IF gate.running = running THEN gate
    ELSE [gate EXCEPT !.generation = @ + 1, !.running = running, !.signal = TRUE]

Acknowledge(generation, running) ==
    IF running THEN [gate EXCEPT !.runAck = generation]
               ELSE [gate EXCEPT !.stopAck = generation]

Acknowledged(c, running) ==
    (IF running THEN gate.runAck ELSE gate.stopAck) = call[c].want

\* The three ways a wait for an acknowledgement ends.
WaitSucceeds(c, running) == Acknowledged(c, running) /\ ~gate.failure /\ gate.alive
WaitFails(c, running) ==
    \/ gate.failure
    \/ ~gate.alive
    \/ ~Acknowledged(c, running)      \* the deadline passes

HasExited == worker = "kept" /\ ~gate.alive
Failing == observed \/ (worker = "kept" /\ gate.failure)

-----------------------------------------------------------------------------
(* The calls.                                                                *)

At(c, op, pc) == call[c].op = op /\ call[c].pc = pc
Goto(c, pc) == call' = [call EXCEPT ![c].pc = pc]
Await(c, pc, generation) == call' = [call EXCEPT ![c].pc = pc, ![c].want = generation]

\* Every call ends by dropping its guard of the lifecycle mutex.
Return(c) ==
    /\ call' = [call EXCEPT ![c] = [op |-> "none", pc |-> "idle", want |-> 0]]
    /\ lifecycle' = IF lifecycle = c THEN None ELSE lifecycle
    /\ UNCHANGED released

\* sidealsa_asio_init: only discovers the device.
InitDriver(h) ==
    /\ ~released /\ call[h].pc = "idle" /\ state = "Loaded"
    /\ state' = "Initialized" /\ observed' = FALSE
    /\ UNCHANGED <<stream, playback, worker, quiesce, callVars, gate, stop, w, cycle, link>>

\* Every getter first adopts the failure the worker has published.
Getter(h) ==
    /\ ~released /\ call[h].pc = "idle"
    /\ observed' = Failing
    /\ UNCHANGED <<state, stream, playback, worker, quiesce, callVars, gate, stop, w, cycle, link>>

\* CreateBuffers drops the inner mutex to ask the host whether it wants time info ...
CreateAsk(h) ==
    /\ ~released /\ call[h].pc = "idle" /\ state = "Initialized" /\ ~Failing
    /\ call' = [call EXCEPT ![h].op = "create", ![h].pc = "asked"]
    /\ UNCHANGED <<driverVars, lifecycle, released, gate, stop, w, cycle, link>>

\* ... and takes it again to check the state and open the PRO stream.
CreateBuffers(h) ==
    /\ At(h, "create", "asked")
    /\ Return(h)
    /\ \/ /\ state = "Initialized" /\ ~Failing /\ link # "down"
          /\ state' = "Prepared" /\ stream' = "driver"
          /\ playback' \in BOOLEAN
          /\ cycle' = FALSE /\ link' = "up"
          /\ UNCHANGED <<worker, quiesce, observed>>
       \/ UNCHANGED <<driverVars, cycle, link>>     \* a check or the open failed
    /\ UNCHANGED <<gate, stop, w>>

\* Start, Stop, Dispose and Close are refused on the worker's thread and take the
\* lifecycle mutex on any other; the clean-up thread closes until it succeeds.
Enter(c, op) ==
    /\ call[c].pc = "idle" /\ lifecycle = None /\ state # "Freed"
    /\ IF c = Cleanup
       THEN op = "close" /\ released /\ \A h \in Hosts : call[h].pc = "idle"
       ELSE op # "close" /\ ~released
    /\ lifecycle' = c
    /\ call' = [call EXCEPT ![c].op = op, ![c].pc = IF op = "stop" THEN "reap" ELSE "entered"]
    /\ UNCHANGED <<driverVars, released, gate, stop, w, cycle, link>>

\* stop_locked, first half: command the worker to stop, or rejoin the stop in progress.
Stopping(c) ==
    /\ state' = "Stopping"
    /\ IF state = "Running"
       THEN /\ gate' = SetRunning(FALSE)
            /\ quiesce' = gate'.generation
       ELSE UNCHANGED <<gate, quiesce>>
    /\ Await(c, "awaitStop", quiesce')

BeginStop(c) ==
    /\ call[c].pc = "entered"
    /\ IF (IF call[c].op = "start" THEN state = "Stopping" ELSE state \in Running)
       THEN IF worker = "none" \/ (state = "Stopping" /\ quiesce = None)
            THEN Return(c) /\ UNCHANGED <<state, quiesce, gate>>
            ELSE Stopping(c) /\ UNCHANGED <<lifecycle, released>>
       ELSE /\ Goto(c, CASE call[c].op = "start" -> "reap"
                         [] call[c].op = "stop" -> "act"
                         [] OTHER -> "join")
            /\ UNCHANGED <<state, quiesce, gate, lifecycle, released>>
    /\ UNCHANGED <<stream, playback, worker, observed, stop, w, cycle, link>>

\* stop_locked, second half.
StopAcknowledged(c) ==
    /\ call[c].pc = "awaitStop" /\ WaitSucceeds(c, FALSE)
    /\ IF state = "Stopping" /\ quiesce = call[c].want
       THEN state' = "Prepared" /\ quiesce' = None
       ELSE UNCHANGED <<state, quiesce>>
    /\ IF call[c].op = "stop" THEN Return(c)
       ELSE /\ Goto(c, IF call[c].op = "start" THEN "reap" ELSE "join")
            /\ UNCHANGED <<lifecycle, released>>
    /\ UNCHANGED <<stream, playback, worker, observed, gate, stop, w, cycle, link>>

\* complete_worker_wait: a worker that has exited is joined, a live one is left alone;
\* Start and Stop report the failure after the join, Dispose and Close carry on.
JoinAfterFailure(c) ==
    /\ call' = [call EXCEPT ![c].pc = "join",
                           ![c].op = IF @ \in {"start", "stop"} THEN "failed" ELSE @]
    /\ UNCHANGED <<lifecycle, released>>

StopUnacknowledged(c) ==
    /\ call[c].pc = "awaitStop" /\ WaitFails(c, FALSE)
    /\ IF HasExited THEN JoinAfterFailure(c) ELSE Return(c)
    /\ UNCHANGED <<driverVars, gate, stop, w, cycle, link>>

\* reap_finished_worker; Start also ends a worker that was told to terminate.
Reap(c) ==
    /\ call[c].pc = "reap"
    /\ IF HasExited \/ (worker = "kept" /\ stop /\ call[c].op = "start")
       THEN Goto(c, "join") /\ UNCHANGED <<observed, lifecycle, released>>
       ELSE IF call[c].op = "stop" /\ Failing
       THEN observed' = TRUE /\ Return(c)
       ELSE /\ Goto(c, IF call[c].op = "stop" THEN "entered" ELSE "act")
            /\ UNCHANGED <<observed, lifecycle, released>>
    /\ UNCHANGED <<state, stream, playback, worker, quiesce, gate, stop, w, cycle, link>>

\* terminate_worker: take the handle and ask the thread to stop.
BeginJoin(c) ==
    /\ call[c].pc = "join"
    /\ IF worker = "kept"
       THEN /\ worker' = "taken" /\ stop' = TRUE
            /\ Goto(c, "joining")
            /\ UNCHANGED <<state, quiesce>>
       ELSE /\ quiesce' = None
            /\ state' = IF state = "Stopping" THEN "Prepared" ELSE state
            /\ Goto(c, "act")
            /\ UNCHANGED <<worker, stop>>
    /\ UNCHANGED <<stream, playback, observed, lifecycle, released, gate, w, cycle, link>>

\* finish_worker: the context is freed once the thread has ended, its stream kept.
Joined(c) ==
    /\ call[c].pc = "joining" /\ w.pc = "exited"
    /\ worker' = "none" /\ stream' = "driver" /\ state' = "Prepared" /\ quiesce' = None
    /\ observed' = (observed \/ w.error)
    /\ w' = NoWorker.w /\ gate' = NoWorker.gate /\ stop' = FALSE
    /\ IF call[c].op \in {"dispose", "close"} \/ (call[c].op = "start" /\ ~w.error)
       THEN Goto(c, "act") /\ UNCHANGED <<lifecycle, released>>
       ELSE Return(c)
    /\ UNCHANGED <<playback, cycle, link>>

JoinTimesOut(c) ==
    /\ call[c].pc = "joining" /\ w.pc # "exited"
    /\ worker' = "kept"
    /\ Return(c)
    /\ UNCHANGED <<state, stream, playback, quiesce, observed, gate, stop, w, cycle, link>>

\* Start resumes a worker that waits at its gate, or spawns one.
StartWorker(c) ==
    /\ At(c, "start", "act") /\ ~Failing /\ state = "Prepared"
    /\ gate.generation <= MaxGeneration
    /\ state' = "Running"
    /\ IF worker = "kept"
       THEN /\ gate' = SetRunning(TRUE)
            /\ Await(c, "awaitStart", gate'.generation)
            /\ UNCHANGED <<worker, stream, quiesce, stop, w>>
       ELSE /\ stream = "driver"
            /\ gate' = NewGate /\ stop' = FALSE /\ w' = NewWorker
            /\ worker' = "kept" /\ stream' = "worker" /\ quiesce' = None
            /\ Await(c, "awaitStart", 0)
    /\ UNCHANGED <<playback, observed, lifecycle, released, cycle, link>>

\* The driver is not healthy or not prepared, or no thread could be created.
StartRefused(c) ==
    /\ At(c, "start", "act")
    /\ Failing \/ state # "Prepared" \/ worker = "none" \/ gate.generation > MaxGeneration
    /\ observed' = Failing
    /\ Return(c)
    /\ UNCHANGED <<state, stream, playback, worker, quiesce, gate, stop, w, cycle, link>>

Started(c) ==
    /\ call[c].pc = "awaitStart" /\ WaitSucceeds(c, TRUE)
    /\ Return(c)
    /\ UNCHANGED <<driverVars, gate, stop, w, cycle, link>>

\* cancel_failed_start: the start is turned into a stop that a later call waits for.
StartFails(c) ==
    /\ call[c].pc = "awaitStart" /\ WaitFails(c, TRUE)
    /\ gate' = SetRunning(FALSE)
    /\ quiesce' = gate'.generation /\ state' = "Stopping"
    /\ IF HasExited THEN JoinAfterFailure(c) ELSE Return(c)
    /\ UNCHANGED <<stream, playback, worker, observed, stop, w, cycle, link>>

\* Stop on a driver that does not run.
StopIdle(c) ==
    /\ At(c, "stop", "act")
    /\ Return(c)
    /\ UNCHANGED <<driverVars, gate, stop, w, cycle, link>>

\* Dispose hands the buffers back and takes the PRO stream out of the driver, and closes
\* it once the inner mutex is dropped.
DisposeBuffers(c) ==
    /\ At(c, "dispose", "act")
    /\ IF state = "Prepared"
       THEN /\ state' = "Initialized" /\ observed' = FALSE /\ stream' = "none"
            /\ Goto(c, "closing")
            /\ UNCHANGED <<lifecycle, released>>
       ELSE Return(c) /\ UNCHANGED <<state, observed, stream>>
    /\ UNCHANGED <<playback, worker, quiesce, gate, stop, w, cycle, link>>

Close(c) ==
    /\ At(c, "close", "act")
    /\ IF state \in {"Destroying", "Loaded"} \/ stream = "none"
       THEN state' = "Freed" /\ Return(c) /\ UNCHANGED stream
       ELSE /\ state' = "Destroying" /\ stream' = "none"
            /\ Goto(c, "closing") /\ UNCHANGED <<lifecycle, released>>
    /\ UNCHANGED <<playback, worker, quiesce, observed, gate, stop, w, cycle, link>>

\* A close the daemon does not confirm also ends the stream: its socket is shut down.
CloseStream(c) ==
    /\ call[c].pc = "closing"
    /\ \/ state' = IF call[c].op = "close" THEN "Freed" ELSE state
       \/ UNCHANGED state                                \* CLOSE fails: closed again later
    /\ Return(c)
    /\ UNCHANGED <<stream, playback, worker, quiesce, observed, gate, stop, w, cycle, link>>

\* The last reference may go while CreateBuffers holds one of its own.
Release ==
    /\ ~released /\ \A h \in Hosts : call[h].pc \in {"idle", "asked"}
    /\ released' = TRUE
    /\ UNCHANGED <<driverVars, lifecycle, call, gate, stop, w, cycle, link>>

-----------------------------------------------------------------------------
(* What the host does inside its callbacks.                                  *)

\* mutant: the generation to wait for is not recorded
StopFromCallbackUnrecorded ==
    /\ HostIsCalled /\ state = "Running" /\ worker = "kept"
    /\ gate' = SetRunning(FALSE)
    /\ state' = "Stopping"
    /\ UNCHANGED <<stream, playback, worker, quiesce, observed, callVars, stop, w, cycle, link>>

\* Stop inside a callback cannot wait: it leaves the driver in Stopping.
StopFromCallback ==
    /\ HostIsCalled /\ state = "Running" /\ worker = "kept"
    /\ gate' = SetRunning(FALSE)
    /\ quiesce' = gate'.generation
    /\ state' = "Stopping"
    /\ UNCHANGED <<stream, playback, worker, observed, callVars, stop, w, cycle, link>>

-----------------------------------------------------------------------------
(* The worker thread.                                                        *)

\* The locals of one iteration are gone when the next one begins.
Leave(thread, pc) == [thread EXCEPT !.pc = pc, !.acq = None, !.block = "none"]
Fail == w' = [Leave(w, "exit") EXCEPT !.error = TRUE]
driverSide == <<driverVars, callVars, stop>>

\* The control socket hung up, failed or received what nobody asked for.
DaemonGone == link = "down"

\* run_worker up to the loop: the stream is started.
WorkerBoot ==
    /\ w.pc = "boot"
    /\ \/ ~DaemonGone /\ w' = [w EXCEPT !.pc = "loop"]
       \/ Fail
    /\ UNCHANGED <<driverSide, gate, cycle, link>>

\* apply_gate_transition: adopt the command; a stop with host audio still pending
\* is acknowledged only after the engine has passed it.
Adopted ==
    IF gate.generation = w.run THEN w
    ELSE IF gate.running
         THEN [w EXCEPT !.run = gate.generation, !.last = "none", !.after = "none"]
         ELSE [w EXCEPT !.run = gate.generation, !.after = w.last]

\* mutant: a stop is acknowledged at once
ApplyGateAtOnce ==
    IF gate.generation = w.run THEN gate ELSE Acknowledge(gate.generation, gate.running)

ApplyGate ==
    IF gate.generation = w.run THEN gate
    ELSE IF gate.running THEN Acknowledge(gate.generation, TRUE)
    ELSE IF w.last = "none" THEN Acknowledge(gate.generation, FALSE)
    ELSE gate

WorkerLoop ==
    /\ w.pc = "loop"
    /\ IF stop THEN w' = [w EXCEPT !.pc = "exit"] /\ UNCHANGED gate
       ELSE w' = [Adopted EXCEPT !.pc = "peek"] /\ gate' = ApplyGate
    /\ UNCHANGED <<driverSide, cycle, link>>

\* A capture-only stream has nothing to drain; the gate is read a second time.
WorkerPeek ==
    /\ w.pc = "peek"
    /\ gate' = IF ~playback /\ ~gate.running THEN Acknowledge(w.run, FALSE) ELSE gate
    /\ w' = [w EXCEPT !.pc = "wait", !.acq = w.run]
    /\ UNCHANGED <<driverSide, cycle, link>>

\* wait_worker_event: a period first, then the stop signal, the gate and the daemon.
WorkerWait ==
    /\ w.pc = "wait"
    /\ \/ stop /\ w' = Leave(w, "exit") /\ UNCHANGED <<gate, cycle>>
       \/ ~stop /\ link = "rebased" /\ w' = Leave(w, "recover") /\ UNCHANGED <<gate, cycle>>
       \/ ~stop /\ cycle /\ link = "up"
          /\ cycle' = FALSE /\ w' = [w EXCEPT !.pc = "acquired", !.block = "pending"]
          /\ UNCHANGED gate
       \/ ~cycle /\ gate.signal
          /\ gate' = [gate EXCEPT !.signal = FALSE] /\ w' = Leave(w, "loop")
          /\ UNCHANGED cycle
       \/ DaemonGone /\ Fail /\ UNCHANGED <<gate, cycle>>
    /\ UNCHANGED <<driverSide, link>>

\* After acquisition the gate is applied again: a period acquired for another run,
\* or while stopped, is answered with silence.
WorkerAcquired ==
    /\ w.pc = "acquired"
    /\ LET onward == Leave(Adopted, IF playback /\ link = "rebased" THEN "recover" ELSE "loop") IN
       \/ DaemonGone /\ Fail /\ UNCHANGED gate
       \/ /\ ~DaemonGone /\ ~gate.running
          /\ w' = onward
          /\ gate' = IF w'.pc = "loop" /\ (~playback \/ w'.after = "taken")
                     THEN Acknowledge(w'.run, FALSE)
                     ELSE ApplyGate
       \/ /\ ~DaemonGone /\ gate.running
          /\ gate' = ApplyGate
          /\ \/ Adopted.run # w.acq /\ w' = onward
             \/ Adopted.run = w.acq /\ w' = [Adopted EXCEPT !.pc = "callback"]
             \/ Adopted.run = w.acq /\ link = "rebased"      \* the sequence went backward
                /\ w' = Leave(Adopted, "recover")
    /\ UNCHANGED <<driverSide, cycle, link>>

\* The host's buffer switch returns, or panics.
CallbackReturns ==
    /\ w.pc = "callback"
    /\ \/ playback /\ w' = [w EXCEPT !.pc = "submit"]
       \/ ~playback /\ w' = Leave([w EXCEPT !.last = w.block], "loop")
       \/ Fail
    /\ UNCHANGED <<driverSide, gate, cycle, link>>

\* submit_playback: published, refused by a full ring, or met by a rebase or an error.
WorkerSubmit ==
    /\ w.pc = "submit"
    /\ \/ link # "rebased" /\ w' = Leave([w EXCEPT !.last = w.block], "loop")
       \/ link # "rebased" /\ w' = Leave(w, "loop")
       \/ link = "rebased" /\ w' = Leave(w, "recover")
       \/ Fail
    /\ UNCHANGED <<driverSide, gate, cycle, link>>

\* recover_worker_discontinuity: prepare and start the stream again, answer the
\* gate at once and ask a running host to resynchronise.
WorkerRecover ==
    /\ w.pc = "recover"
    /\ \/ /\ ~DaemonGone
          /\ w' = [w EXCEPT !.pc = IF gate.running THEN "resync" ELSE "loop",
                            !.run = gate.generation,
                            !.last = "none", !.after = "none"]
          /\ gate' = Acknowledge(gate.generation, gate.running)
          /\ link' = "up" /\ cycle' = FALSE
       \/ Fail /\ UNCHANGED <<gate, cycle, link>>
    /\ UNCHANGED driverSide

ResyncReturns ==
    /\ w.pc = "resync"
    /\ w' = [w EXCEPT !.pc = "loop"]
    /\ UNCHANGED <<driverSide, gate, cycle, link>>

\* run_worker after the loop: the stream is stopped, which may fail too.
WorkerExit ==
    /\ w.pc = "exit"
    /\ \E fails \in BOOLEAN : w' = [w EXCEPT !.pc = "report", !.error = @ \/ fails]
    /\ UNCHANGED <<driverSide, gate, cycle, link>>

\* mutant: the host is told of a failure whether or not its callbacks run
WorkerReportAlways ==
    /\ w.pc = "report"
    /\ gate' = IF w.error THEN [gate EXCEPT !.failure = TRUE, !.signal = TRUE] ELSE gate
    /\ w' = [w EXCEPT !.pc = IF w.error /\ ~stop THEN "notify" ELSE "dying"]
    /\ UNCHANGED <<driverSide, cycle, link>>

\* sidealsa_asio_worker_entry: the failure is published before the host, if its
\* callbacks run, is asked to reset the driver.
WorkerReport ==
    /\ w.pc = "report"
    /\ gate' = IF w.error THEN [gate EXCEPT !.failure = TRUE, !.signal = TRUE] ELSE gate
    /\ w' = [w EXCEPT !.pc = IF w.error /\ gate.running /\ ~stop THEN "notify" ELSE "dying"]
    /\ UNCHANGED <<driverSide, cycle, link>>

NotifyReturns ==
    /\ w.pc = "notify"
    /\ w' = [w EXCEPT !.pc = "dying"]
    /\ UNCHANGED <<driverSide, gate, cycle, link>>

WorkerDies ==
    /\ w.pc \in {"dying", "ending"}
    /\ w' = [w EXCEPT !.pc = IF w.pc = "dying" THEN "ending" ELSE "exited"]
    /\ gate' = [gate EXCEPT !.alive = FALSE]
    /\ UNCHANGED <<driverSide, cycle, link>>

-----------------------------------------------------------------------------
(* The daemon.                                                               *)

Passed(block) == IF block = "pending" THEN "taken" ELSE block

\* One period: every block labelled before it is taken or expired, a new one is ready.
EngineCycle ==
    /\ link # "down" /\ stream = "worker"
    /\ cycle' = TRUE
    /\ w' = [w EXCEPT !.block = Passed(@), !.last = Passed(@), !.after = Passed(@)]
    /\ UNCHANGED <<driverSide, gate, link>>

DaemonFails ==
    /\ stream = "worker" /\ link = "up"
    /\ link' \in {"rebased", "down"}
    /\ UNCHANGED <<driverSide, gate, w, cycle>>

-----------------------------------------------------------------------------
HostStep(h) ==
    \/ InitDriver(h) \/ Getter(h) \/ CreateAsk(h)
    \/ \E op \in {"start", "stop", "dispose"} : Enter(h, op)

CallStep(c) ==
    \/ CreateBuffers(c) \/ BeginStop(c) \/ StopAcknowledged(c) \/ StopUnacknowledged(c)
    \/ Reap(c) \/ BeginJoin(c) \/ Joined(c) \/ JoinTimesOut(c)
    \/ StartWorker(c) \/ StartRefused(c) \/ Started(c) \/ StartFails(c)
    \/ StopIdle(c) \/ DisposeBuffers(c) \/ Close(c) \/ CloseStream(c)

WorkerStep ==
    \/ WorkerBoot \/ WorkerLoop \/ WorkerPeek \/ WorkerWait \/ WorkerAcquired
    \/ CallbackReturns \/ WorkerSubmit \/ WorkerRecover \/ ResyncReturns
    \/ WorkerExit \/ WorkerReport \/ NotifyReturns \/ WorkerDies

Next ==
    \/ \E h \in Hosts : HostStep(h)
    \/ Enter(Cleanup, "close")
    \/ \E c \in Callers : CallStep(c)
    \/ Release \/ StopFromCallback
    \/ WorkerStep \/ EngineCycle \/ DaemonFails

\* Calls in progress proceed, the clean-up thread retries, the worker thread is
\* scheduled (the host's callbacks return) and the engine keeps its periods.
Fairness ==
    /\ \A c \in Callers : WF_vars(CallStep(c))
    /\ WF_vars(Enter(Cleanup, "close"))
    /\ WF_vars(WorkerStep)
    /\ WF_vars(EngineCycle)

Spec == Init /\ [][Next]_vars /\ Fairness

-----------------------------------------------------------------------------
\* Once Stop or Dispose has put the driver back to Prepared (or further), the
\* host is not called again before the next Start: not by a period already
\* acquired, not by a resynchronisation or a reset request (lib.rs, stop_locked,
\* worker_loop, sidealsa_asio_worker_entry).
HostIsLeftAlone == HostIsCalled => state \in Running

\* A stop that succeeds has let the engine pass the last block the host filled:
\* nothing of it is still to be played (lib.rs, apply_gate_transition).
StopDrains ==
    (state = "Prepared" /\ worker = "kept" /\ playback /\ gate.alive /\ ~gate.failure)
        => w.last # "pending"

\* The PRO stream is always where its owner looks for it: with the worker while
\* one exists, with the driver while it is prepared, and taken out of the driver,
\* by the one call that closes it, when it is not; and the driver is not freed
\* before it is closed.
StreamIsKept ==
    /\ stream = "worker" <=> worker # "none"
    /\ state \in {"Prepared", "Running", "Stopping"} <=> stream # "none"
    /\ \A c, d \in Callers : {call[c].pc, call[d].pc} = {"closing"} => c = d
    /\ state = "Freed" => \A c \in Callers : call[c].pc # "closing"

\* The clean-up started by the last Release, even one inside a callback, ends
\* with the driver freed (wine_shim.c, asio_deferred_release).
ReleaseEnds == released ~> state = "Freed"

=============================================================================
