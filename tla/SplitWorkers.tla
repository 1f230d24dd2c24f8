----------------------------- MODULE SplitWorkers -----------------------------
(***************************************************************************)
(* run_split_workers of crates/sidealsa-core/src/engine.rs: a capture and  *)
(* a playback worker, one thread for each PCM, that start their streams    *)
(* together through DuplexStartGate, cycle on their own, recover on their  *)
(* own, and must end together whatever happens to either of them.          *)
(*                                                                         *)
(* They share the flags of WorkerControl, the hardware generation, and     *)
(* ProClock, which numbers the periods.  Numbers of periods are kept       *)
(* relative: `next` and `published` are how far the capture sequence is    *)
(* ahead of the one playback writes next, lead deducted, and 0 where it is *)
(* behind, since it then takes playback's; `queue` periods wait to be      *)
(* played and `backlog` periods wait to be read.                           *)
(*                                                                         *)
(* What the callbacks of a cycle do is SessionLifecycle's; here they may   *)
(* panic.  The run has no period limit.                                    *)
(***************************************************************************)
EXTENDS Integers

CONSTANTS
  Start,        \* periods of silence a stream starts with (start_frames)
  Buffer,       \* periods a buffer holds
  MaxRestarts,  \* bound on the hardware generation, for TLC
  MaxLag        \* bound on the periods captured while playback stands, for TLC

ASSUME SplitAssumption ==
  /\ {Start, Buffer, MaxRestarts, MaxLag} \subseteq Nat
  /\ 0 < Start /\ Start <= Buffer

VARIABLES
  mode,                 \* how the streams start; "started" once both have
  run,                  \* where the engine's thread is
  failed,               \* whether it returns an error
  started,              \* DuplexEngine.started
  stop, done, gate,     \* WorkerControl; the flags of the gate that are raised
  pc, result,           \* of the workers
  pcm, wired,           \* the state of each PCM; whether ALSA has them linked
  queue, backlog,
  commitOpen,           \* PlaybackCommitGuard
  generation, captureCycle,          \* what publish_hardware_ready looks at
  seenGen,              \* the generation the playback worker read
  next, published,      \* next_pro_sequence and ProClock.capture_next
  whole                 \* history: a whole period was captured since the last restart

engineVars == <<run, failed, started>>
workerVars == <<pc, result, done>>
deviceVars == <<pcm, wired, queue, backlog>>
clockVars == <<next, published>>
readyVars == <<captureCycle, seenGen, whole>>
gateVars == <<mode, gate>>
vars == <<gateVars, engineVars, stop, workerVars, deviceVars, commitOpen,
          generation, readyVars, clockVars>>

Workers == {"capture", "playback"}
None == -1                                  \* u64::MAX: no capture cycle yet
Larger(a, b) == IF a < b THEN b ELSE a
linked == mode = "linked"
deferred == mode # "started"

(* prepare_worker_start has prepared the PCMs, primed playback and, when   *)
(* duplex_link says so, linked them; or start() has started them before.   *)
Init ==
  /\ mode \in {"linked", "unlinked", "started"}
  /\ run = "spawnCapture" /\ failed = FALSE /\ started = TRUE
  /\ stop = FALSE /\ done = FALSE /\ gate = {}
  /\ pc = [w \in Workers |-> "new"] /\ result = [w \in Workers |-> "none"]
  /\ pcm = [w \in Workers |-> IF deferred THEN "prepared" ELSE "running"]
  /\ wired = linked
  /\ queue = Start /\ backlog = 0
  /\ commitOpen = FALSE
  /\ generation = 0 /\ captureCycle = None /\ seenGen = 0
  /\ next = 0 /\ published = 0
  /\ whole = FALSE

-----------------------------------------------------------------------------
(* The engine's thread and the device                                      *)

SpawnCapture ==
  /\ run = "spawnCapture"
  /\ \/ run' = "spawnPlayback" /\ pc' = [pc EXCEPT !["capture"] = "schedule"] /\ UNCHANGED failed
     \/ run' = "cleanup" /\ failed' = TRUE /\ UNCHANGED pc
  /\ UNCHANGED <<started, done, result, deviceVars>>

(* Mutant: the capture worker is joined without being told.                *)
SpawnPlaybackSilently ==
  /\ run = "spawnPlayback"
  /\ \/ run' = "joinPlayback" /\ pc' = [pc EXCEPT !["playback"] = "schedule"]
        /\ UNCHANGED <<failed, done>>
     \/ run' = "joinCapture" /\ failed' = TRUE /\ UNCHANGED <<pc, done>>
  /\ UNCHANGED <<started, result, deviceVars>>

SpawnPlayback ==
  /\ run = "spawnPlayback"
  /\ \/ run' = "joinPlayback" /\ pc' = [pc EXCEPT !["playback"] = "schedule"]
        /\ UNCHANGED <<failed, done>>
     \/ run' = "joinCapture" /\ failed' = TRUE /\ done' = TRUE /\ UNCHANGED pc
  /\ UNCHANGED <<started, result, deviceVars>>

Join ==
  /\ \/ run = "joinPlayback" /\ pc["playback"] = "ended" /\ run' = "joinCapture"
        /\ failed' = (result["playback"] = "error")
     \/ run = "joinCapture" /\ pc["capture"] = "ended"
        /\ failed' = (failed \/ result["capture"] = "error")
        /\ run' = IF failed' THEN "cleanup" ELSE "returned"
  /\ UNCHANGED <<started, workerVars, deviceVars>>

(* cleanup_startup_failure                                                 *)
Cleanup ==
  /\ run = "cleanup" /\ run' = "returned"
  /\ wired' = FALSE
  /\ pcm' = [w \in Workers |-> "prepared"]
  /\ started' = FALSE
  /\ UNCHANGED <<failed, workerVars, queue, backlog>>

EngineStep ==
  /\ SpawnCapture \/ SpawnPlayback \/ Join \/ Cleanup
  /\ UNCHANGED <<gateVars, stop, commitOpen, generation, readyVars, clockVars>>

Shutdown ==
  /\ ~stop /\ stop' = TRUE
  /\ UNCHANGED <<gateVars, engineVars, workerVars, deviceVars, commitOpen, generation,
                 readyVars, clockVars>>

(* A period passes: each running stream has one more to read or one less   *)
(* to play, or is at the end of its buffer and stops.                      *)
Running(w) == pcm[w] = "running"
Ends(w) == Running(w) /\ IF w = "playback" THEN queue = 0 ELSE backlog = Buffer
Tick ==
  /\ \E w \in Workers : Running(w)
  /\ (\E w \in Workers : Ends(w)) => generation < MaxRestarts
  /\ pcm' = [w \in Workers |-> IF Ends(w) THEN "xrun" ELSE pcm[w]]
  /\ queue' = IF Running("playback") THEN Larger(queue - 1, 0) ELSE queue
  /\ backlog' = IF Running("capture") /\ backlog < Buffer THEN backlog + 1 ELSE backlog
  /\ UNCHANGED wired

Suspend(w) ==
  /\ Running(w) /\ generation < MaxRestarts
  /\ pcm' = [pcm EXCEPT ![w] = "suspended"]
  /\ UNCHANGED <<wired, queue, backlog>>

DeviceStep ==
  /\ Tick \/ \E w \in Workers : Suspend(w)
  /\ UNCHANGED <<gateVars, engineVars, stop, workerVars, commitOpen, generation,
                 readyVars, clockVars>>

-----------------------------------------------------------------------------
(* The start of both workers                                               *)

Stopping == stop \/ done
At(w, l) == pc[w] = l
Goto(w, l) == pc' = [pc EXCEPT ![w] = l] /\ UNCHANGED <<result, done>>
Raise(flag) == gate' = gate \union {flag} /\ UNCHANGED mode
End(w, r) ==
  /\ pc' = [pc EXCEPT ![w] = "ended"]
  /\ result' = [result EXCEPT ![w] = r]
  /\ done' = TRUE

(* The worker's priority can be refused.                                   *)
Schedule(w) ==
  /\ At(w, "schedule")
  /\ Goto(w, IF deferred THEN "announce" ELSE "top") \/ End(w, "error")
  /\ UNCHANGED <<gateVars, deviceVars>>

Announce(w) ==
  /\ At(w, "announce") /\ Goto(w, "await")
  /\ Raise(w)
  /\ UNCHANGED deviceVars

(* A playback worker that ends before the start takes the link away.       *)
Quit(r) == End("playback", r) /\ wired' = FALSE

AwaitCapture ==
  /\ \/ At("playback", "await")
        /\ IF "capture" \in gate
             THEN Goto("playback", IF linked THEN "starting" ELSE "awaitStart") /\ UNCHANGED wired
             ELSE Stopping /\ Quit("ok")
     \/ At("playback", "awaitStart")
        /\ IF "captureStarted" \in gate
             THEN Goto("playback", "starting") /\ UNCHANGED wired
             ELSE Stopping /\ Quit("ok")
  /\ UNCHANGED <<gateVars, pcm, queue, backlog>>

(* Raising the priority, starting and unlinking may each fail.             *)
StartPlayback ==
  /\ At("playback", "starting")
  /\ \/ Stopping /\ Quit("ok") /\ UNCHANGED pcm
     \/ ~Stopping /\ Quit("error") /\ UNCHANGED pcm
     \/ ~Stopping /\ End("playback", "error") /\ UNCHANGED <<wired, pcm>>
     \/ /\ ~Stopping
        /\ pcm' = [w \in Workers |-> IF linked \/ w = "playback" THEN "running" ELSE pcm[w]]
        /\ \/ wired' = FALSE /\ Goto("playback", "opened")
           \/ linked /\ UNCHANGED wired /\ End("playback", "error")
  /\ UNCHANGED <<gateVars, queue, backlog>>

OpenGate ==
  /\ At("playback", "opened") /\ Goto("playback", "top")
  /\ Raise("started")
  /\ UNCHANGED deviceVars

(* Capture is the last to look at the gate, which is forgotten then.       *)
AwaitPlayback ==
  /\ \/ /\ At("capture", "await")
        /\ IF "playback" \in gate
             THEN Goto("capture", IF linked THEN "awaitStarted" ELSE "starting")
             ELSE Stopping /\ End("capture", "ok")
        /\ UNCHANGED gateVars
     \/ /\ At("capture", "awaitStarted") /\ "started" \in gate
        /\ Goto("capture", "top")
        /\ mode' = "started" /\ gate' = {}
     \/ /\ At("capture", "awaitStarted") /\ "started" \notin gate /\ Stopping
        /\ End("capture", "ok") /\ UNCHANGED gateVars
  /\ UNCHANGED deviceVars

StartCapture ==
  /\ At("capture", "starting")
  /\ \/ Stopping /\ End("capture", "ok") /\ UNCHANGED <<gateVars, pcm>>
     \/ ~Stopping /\ End("capture", "error") /\ UNCHANGED <<gateVars, pcm>>
     \/ /\ ~Stopping /\ Goto("capture", "awaitStarted")
        /\ pcm' = [pcm EXCEPT !["capture"] = "running"]
        /\ Raise("captureStarted")
  /\ UNCHANGED <<wired, queue, backlog>>

StartStep(w) ==
  /\ \/ Schedule(w) \/ Announce(w)
     \/ w = "playback" /\ (AwaitCapture \/ StartPlayback \/ OpenGate)
     \/ w = "capture" /\ (AwaitPlayback \/ StartCapture)
  /\ UNCHANGED <<commitOpen, generation, readyVars, clockVars>>

-----------------------------------------------------------------------------
(* The cycles.  A transfer waits until the device is ready, fails, or the  *)
(* worker is told to stop; an error is recovered from or ends the worker.  *)

(* prepare_playback may panic; the loops catch it and end with an error.   *)
Top(w) ==
  /\ At(w, "top")
  /\ \/ Stopping /\ End(w, "ok")
     \/ ~Stopping /\ Goto(w, IF w = "capture" THEN "read" ELSE "wait")
     \/ ~Stopping /\ w = "playback" /\ End(w, "error")
  /\ UNCHANGED <<deviceVars, commitOpen, generation, readyVars, clockVars>>

StopOrFail(w) == (Stopping /\ End(w, "ok")) \/ End(w, "error")
Broken(w) == pcm[w] \in {"xrun", "suspended"}

(* The commit begins when there is room for a period.                      *)
WaitAndBegin ==
  /\ At("playback", "wait")
  /\ \/ /\ Running("playback") /\ queue < Buffer
        /\ Goto("playback", IF Stopping THEN "top" ELSE "render")
        /\ commitOpen' = ~Stopping
     \/ /\ \/ Broken("playback") /\ Goto("playback", "recover")
           \/ (Stopping \/ Running("playback")) /\ StopOrFail("playback")
        /\ UNCHANGED commitOpen
  /\ UNCHANGED <<deviceVars, generation, readyVars, clockVars>>

(* process_playback and commit_playback; the guard ends the commit when    *)
(* they panic.                                                             *)
Render ==
  /\ At("playback", "render")
  /\ \/ Goto("playback", "recheck") /\ UNCHANGED commitOpen
     \/ End("playback", "error") /\ commitOpen' = FALSE
  /\ seenGen' = generation
  /\ UNCHANGED <<deviceVars, generation, captureCycle, whole, clockVars>>

(* The output is dropped when the generation, or the playback epoch, which *)
(* is not modelled here, has changed.                                      *)
Recheck ==
  /\ At("playback", "recheck")
  /\ \/ generation = seenGen /\ Goto("playback", "write") /\ UNCHANGED commitOpen
     \/ Goto("playback", "top") /\ commitOpen' = FALSE
  /\ seenGen' = 0
  /\ UNCHANGED <<deviceVars, generation, captureCycle, whole, clockVars>>

(* The commit ends with the write, whatever became of it.                  *)
Write ==
  /\ At("playback", "write")
  /\ \/ Running("playback") /\ queue < Buffer /\ queue' = queue + 1 /\ Goto("playback", "advance")
     \/ Broken("playback") /\ Goto("playback", "recover") /\ UNCHANGED queue
     \/ (Stopping \/ Running("playback")) /\ StopOrFail("playback") /\ UNCHANGED queue
  /\ commitOpen' = FALSE
  /\ UNCHANGED <<pcm, wired, backlog, generation, readyVars, clockVars>>

(* The next sequence, published to the capture worker.                     *)
Advance ==
  /\ At("playback", "advance") /\ Goto("playback", "publish")
  /\ next' = Larger(next - 1, 0) /\ published' = Larger(published - 1, 0)
  /\ UNCHANGED <<deviceVars, commitOpen, generation, readyVars>>

(* publish_hardware_ready: stop and done and the generation, the           *)
(* generation of the last capture cycle, and the generation once more;     *)
(* hardware_ready, which is then raised, is the daemon's to read.          *)
PublishReady ==
  /\ \/ At("playback", "publish") /\ Goto("playback", IF Stopping THEN "top" ELSE "publishCapture")
        /\ seenGen' = generation
     \/ At("playback", "publishCapture")
        /\ Goto("playback", IF captureCycle = seenGen THEN "publishConfirm" ELSE "top")
        /\ UNCHANGED seenGen
     \/ At("playback", "publishConfirm") /\ Goto("playback", "top")
        /\ seenGen' = 0
  /\ UNCHANGED <<deviceVars, commitOpen, generation, captureCycle, whole, clockVars>>

(* wait_for_transfer and the read, with take_pro_capture_sequence: never   *)
(* behind what playback asks for next.                                     *)
ReadAndTake ==
  /\ At("capture", "read")
  /\ \/ Running("capture") /\ backlog > 0 /\ next < MaxLag /\ ~Stopping
        /\ backlog' = backlog - 1 /\ next' = next + 1 /\ Goto("capture", "deliver")
     \/ /\ \/ Broken("capture") /\ Goto("capture", "recover")
           \/ (Stopping \/ Running("capture")) /\ StopOrFail("capture")
        /\ UNCHANGED <<backlog, next>>
  /\ UNCHANGED <<pcm, wired, queue, commitOpen, generation, readyVars, published>>

Deliver ==
  /\ At("capture", "deliver")
  /\ Goto("capture", "mark") \/ End("capture", "error")
  /\ published' = next
  /\ UNCHANGED <<deviceVars, commitOpen, generation, readyVars, next>>

(* mark_capture_cycle_ready                                                *)
Mark ==
  /\ At("capture", "mark") /\ Goto("capture", "top")
  /\ captureCycle' = generation
  /\ whole' = TRUE
  /\ UNCHANGED <<deviceVars, commitOpen, generation, seenGen, clockVars>>

-----------------------------------------------------------------------------
(* recover_stream, on the worker's own thread                              *)

(* A suspended stream may go on where it was, without a reset.             *)
Recover(w) ==
  /\ At(w, "recover")
  /\ \/ StopOrFail(w) /\ UNCHANGED pcm
     \/ ~Stopping /\ Goto(w, "restart") /\ UNCHANGED pcm
     \/ /\ ~Stopping /\ pcm[w] = "suspended"
        /\ pcm' = [pcm EXCEPT ![w] = "running"]
        /\ Goto(w, IF w = "playback" THEN "realign" ELSE "top")
  /\ UNCHANGED <<wired, queue, backlog, commitOpen, generation, readyVars, clockVars>>

(* Dropped, prepared, primed with silence and started again.               *)
Restart(w) ==
  /\ At(w, "restart")
  /\ \/ StopOrFail(w) /\ UNCHANGED <<pcm, queue, backlog, whole>>
     \/ /\ ~Stopping /\ Goto(w, "reset")
        /\ pcm' = [pcm EXCEPT ![w] = "running"]
        /\ IF w = "playback" THEN queue' = Start /\ UNCHANGED <<backlog, whole>>
                             ELSE backlog' = 0 /\ whole' = FALSE /\ UNCHANGED queue
  /\ UNCHANGED <<wired, commitOpen, generation, captureCycle, seenGen, clockVars>>

(* reset_after_stream_restart                                              *)
Reset(w) ==
  /\ At(w, "reset") /\ Goto(w, IF w = "playback" THEN "realign" ELSE "top")
  /\ generation' = generation + 1
  /\ UNCHANGED <<deviceVars, commitOpen, readyVars, clockVars>>

(* Mutant: playback takes up where it was.                                 *)
RealignNothing ==
  /\ At("playback", "realign") /\ Goto("playback", "top")
  /\ UNCHANGED <<deviceVars, commitOpen, generation, readyVars, clockVars>>

(* realign_playback_after_recovery: skip what capture went ahead with, but *)
(* for one period.  Its load and its store are taken as one step.          *)
Realign ==
  /\ At("playback", "realign") /\ Goto("playback", "top")
  /\ LET lost == Larger(published - 1, 0)
     IN next' = next - lost /\ published' = published - lost
  /\ UNCHANGED <<deviceVars, commitOpen, generation, readyVars>>

CycleStep(w) ==
  /\ \/ Top(w) \/ Recover(w) \/ Restart(w) \/ Reset(w)
     \/ w = "playback" /\ (WaitAndBegin \/ Render \/ Recheck \/ Write \/ Advance
                             \/ PublishReady \/ Realign)
     \/ w = "capture" /\ (ReadAndTake \/ Deliver \/ Mark)
  /\ UNCHANGED gateVars

WorkerStep(w) ==
  /\ StartStep(w) \/ CycleStep(w)
  /\ UNCHANGED <<engineVars, stop>>

Next == EngineStep \/ Shutdown \/ DeviceStep \/ \E w \in Workers : WorkerStep(w)

(* The threads run; the device need not deliver anything, and a call of    *)
(* ALSA need not fail for a worker to go on.                               *)
Fairness ==
  /\ WF_vars(EngineStep)
  /\ \A w \in Workers : WF_vars(WorkerStep(w) /\ result'[w] # "error")

Spec == Init /\ [][Next]_vars
FairSpec == Spec /\ Fairness

-----------------------------------------------------------------------------
(* Properties                                                              *)

StartPlaces == {"new", "schedule", "announce", "await", "awaitStart", "starting",
                "opened", "awaitStarted"}
RecoverPlaces == {"recover", "restart", "reset", "realign"}
CyclePlaces == {"top", "wait", "render", "recheck", "write", "advance", "publish",
                "publishCapture", "publishConfirm", "read", "deliver", "mark"}

TypeOK ==
  /\ mode \in {"linked", "unlinked", "started"}
  /\ {failed, started, stop, done, wired, commitOpen, whole}
       \subseteq BOOLEAN
  /\ run \in {"spawnCapture", "spawnPlayback", "joinPlayback", "joinCapture", "cleanup", "returned"}
  /\ gate \subseteq {"capture", "playback", "captureStarted", "started"}
  /\ pc \in [Workers -> StartPlaces \union RecoverPlaces \union CyclePlaces \union {"ended"}]
  /\ result \in [Workers -> {"none", "ok", "error"}]
  /\ pcm \in [Workers -> {"prepared", "running", "xrun", "suspended"}]
  /\ {queue, backlog} \subseteq 0..Buffer
  /\ {generation, seenGen} \subseteq Nat /\ captureCycle \in Nat \union {None}
  /\ {next, published} \subseteq Nat

(* hardware_ready is published only when a whole period was captured since *)
(* capture last restarted.                                                 *)
ReadyIsFresh ==
  At("playback", "publishConfirm") /\ generation = seenGen /\ ~At("capture", "reset") => whole

(* "otherwise every playback XRUN permanently adds that many periods of    *)
(* round-trip latency": from the period capture reads next to the one that *)
(* playback writes under the same number there are never more periods than *)
(* both buffers and the one period of slack.                               *)
RoundTrip == queue + backlog + next
RoundTripIsKept ==
  Running("playback") /\ pc["playback"] \in CyclePlaces \ {"advance"} =>
    RoundTrip <= 2 * Buffer + 2

(* A recovery can take seconds and an end is for good: neither leaves a    *)
(* commit open that STOP would wait for.  When the engine returns, the     *)
(* PCMs are not linked; after an error they are ready for another start.   *)
LeavesNothingBehind ==
  /\ pc["playback"] \in RecoverPlaces \union {"ended"} => ~commitOpen
  /\ run = "returned" =>
       /\ ~wired
       /\ failed => ~started /\ \A w \in Workers : pcm[w] = "prepared"

(* Between the two workers nothing drifts and nothing is left behind.      *)
WorkersAgree == TypeOK /\ RoundTripIsKept /\ LeavesNothingBehind

(* When the daemon is told to stop, a worker cannot be spawned or one of   *)
(* them has ended, the other one ends too and the engine returns, whatever *)
(* the device does.                                                        *)
WorkersEnd ==
  (stop \/ failed \/ \E w \in Workers : pc[w] = "ended") ~> run = "returned"
=============================================================================
