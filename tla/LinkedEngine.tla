---------------------------- MODULE LinkedEngine ----------------------------
(***************************************************************************)
(* run_pro_linked of crates/sidealsa-core/src/engine.rs: one thread that   *)
(* drives a capture and a playback PCM ALSA has linked.  It starts them    *)
(* with silence queued, qualifies the start (a loopback probe for the      *)
(* direct loop, a phase calibration for the others), cycles, and after an  *)
(* XRUN restarts both and qualifies again.                                 *)
(*                                                                         *)
(* `mode` is the loop the configuration selects: "direct" and "loopback"   *)
(* (direct with startup_loopback) wait for events, "handoff" is the timed  *)
(* loop of lead zero, "ahead" and "packet" have a lead of one period, and  *)
(* "packet" moves a period in hardware packets.  Frames are counted in     *)
(* hardware periods.  What the callbacks do, the commit barrier and the    *)
(* playback epoch are SessionLifecycle's.                                  *)
(***************************************************************************)
EXTENDS Integers

CONSTANTS
  Modes,         \* the loops to run
  Buffer,        \* buffer_size of both PCMs
  Chunks,        \* hardware periods in a client period of the packet loop
  QueuePeriods,  \* playback_queue_periods
  Guard,         \* effective_linked_playback_guard_frames
  Handoff,       \* the frames of pro_handoff_nanos
  MaxAttempts,   \* linked_phase_max_attempts
  Warmup,        \* cycles a calibration attempt lasts
  Target,        \* startup_loopback.target_frames
  Paths,         \* delays of the digital loop outside the two buffers
  MaxTries,      \* probe periods after which the marker is missing
  Limit,         \* max_periods
  MaxXruns       \* bound on XRUNs and latency rebases, for TLC

LinkedAssumption ==
  /\ Modes \subseteq {"direct", "loopback", "handoff", "ahead", "packet"}
  /\ {Buffer, Chunks, QueuePeriods, Guard, Handoff, MaxAttempts, Warmup, Target,
      MaxTries, Limit, MaxXruns} \subseteq Nat
  /\ Paths \subseteq Nat /\ Paths # {}
  /\ 0 < QueuePeriods /\ 1 < Chunks /\ Chunks < Buffer

VARIABLES
  mode,
  pc, result,              \* of run_pro_linked
  stop,
  started, streamsLinked,  \* of DuplexEngine
  pcm, wired,              \* the state of both PCMs; whether ALSA has them linked
  queue, backlog,          \* frames to be played, frames to be read
  path,                    \* delay of the loop since the last start
  trip,                    \* history: frames under way since the last start
  stage, attempt, tries,   \* what is qualified, and how far that is
  qualified,               \* history: how the last start was qualified
  ready, wasReady,         \* hardware_ready; was_ready of the normalization
  shown,                   \* history: the hardware has been ready
  sequence, periods, chunk,
  scratch, pending,        \* whose audio capture_scratch holds; pending_capture
  xruns

flagVars == <<started, streamsLinked>>
streamVars == <<pcm, wired, queue, backlog, path, trip>>
qualVars == <<stage, attempt, tries, qualified>>
readyVars == <<ready, wasReady, shown>>
cycleVars == <<sequence, periods, chunk, scratch, pending>>
vars == <<mode, pc, result, stop, flagVars, streamVars, qualVars, readyVars,
          cycleVars, xruns>>

Junk == -1                      \* not the whole period of one cycle
None == [hardware |-> Junk, playback |-> Junk]
Least(a, b) == IF a < b THEN a ELSE b

Direct == mode \in {"direct", "loopback"}
Period == IF mode = "packet" THEN Chunks ELSE 1
Lead == IF mode \in {"ahead", "packet"} THEN 1 ELSE 0

(* linked_zero_lead_playback_floor keeps three hardware periods more       *)
Floor == IF mode = "handoff" THEN Least(Buffer - Period, Guard + 3) ELSE Guard

StartFrames ==
  CASE Direct           -> Least(Buffer, Period * QueuePeriods)
    [] mode = "handoff" -> Least(Buffer, Period + Floor + Handoff)
    [] OTHER            -> Least(Buffer, Period + 1)

Init ==
  /\ mode \in Modes
  /\ pc = "off" /\ result = "none" /\ stop = FALSE
  /\ started = FALSE /\ streamsLinked = FALSE
  /\ pcm = "setup" /\ wired = FALSE /\ queue = 0 /\ backlog = 0
  /\ path \in Paths /\ trip = 0
  /\ stage = "startup" /\ attempt = 0 /\ tries = 0 /\ qualified = "none"
  /\ ready = FALSE /\ wasReady = FALSE /\ shown = FALSE
  /\ sequence = 0 /\ periods = 0 /\ chunk = 0 /\ scratch = Junk /\ pending = None
  /\ xruns = 0

-----------------------------------------------------------------------------
(* Starting, and starting again                                            *)

Fail(r) == pc' = "cleanup" /\ result' = r

(* Both streams stand where a start leaves them; the loop may have any of  *)
(* the delays a USB phase gives it.                                        *)
StreamsStart ==
  /\ pcm' = "running" /\ wired' = TRUE
  /\ queue' = StartFrames /\ backlog' = 0 /\ trip' = StartFrames
  /\ path' \in Paths

(* What follows a start: normalize_startup_loopback takes the hardware's   *)
(* readiness back while it probes; an attempt of the calibration, unless   *)
(* recovery has used up the last one; or nothing.                          *)
Qualify ==
  /\ attempt' = attempt + 1 /\ tries' = 0
  /\ \/ /\ mode = "loopback"
        /\ pc' = "probe" /\ qualified' = "none"
        /\ wasReady' = ready /\ ready' = FALSE
     \/ /\ ~Direct /\ attempt < MaxAttempts
        /\ pc' = "calRead" /\ qualified' = "none"
        /\ UNCHANGED <<ready, wasReady>>
     \/ /\ mode = "direct" \/ (~Direct /\ attempt >= MaxAttempts)
        /\ pc' = "top"
        /\ qualified' = IF Direct \/ stage = "startup" THEN "full" ELSE "short"
        /\ UNCHANGED <<ready, wasReady>>
  /\ UNCHANGED <<stage, shown>>

(* prepare_linked_pro_start                                                *)
StartStreams ==
  /\ pc = "off"
  /\ \/ /\ StreamsStart /\ Qualify
        /\ started' = TRUE /\ streamsLinked' = TRUE
        /\ UNCHANGED result
     \/ Fail("failed") /\ UNCHANGED <<flagVars, streamVars, qualVars, readyVars>>
  /\ UNCHANGED <<mode, stop, cycleVars, xruns>>

(* recover_linked_streams and rebase_linked_streams, on both PCMs and      *)
(* checking `stop` as they go.  An XRUN while the latency guard rebases is *)
(* recovered from like any other.                                          *)
Restart ==
  /\ pc \in {"recover", "rebase"}
  /\ \/ stop /\ Fail("stopped") /\ UNCHANGED <<streamVars, qualVars, readyVars>>
     \/ ~stop /\ wired /\ StreamsStart /\ Qualify /\ UNCHANGED result
     \/ ~stop /\ Fail("failed") /\ UNCHANGED <<streamVars, qualVars, readyVars>>
     \/ /\ ~stop /\ pc = "rebase" /\ stage = "guard"
        /\ IF ready
             THEN pc' = "recover" /\ stage' = "recovery" /\ UNCHANGED result
             ELSE Fail("interrupted") /\ UNCHANGED stage
        /\ UNCHANGED <<streamVars, attempt, tries, qualified, readyVars>>
  /\ UNCHANGED <<mode, stop, flagVars, cycleVars, xruns>>

-----------------------------------------------------------------------------
(* normalize_startup_loopback: marked periods go round in step until their *)
(* delay is measured, the missing frames are padded, and a second measure  *)
(* must find the target.                                                   *)

(* startup_loopback_padding                                                *)
Padding == Target - (trip + path)
PaddingFits == 0 <= Padding /\ Padding <= Buffer - StartFrames - Period

Normalized ==
  /\ pc' = "top" /\ qualified' = "full"
  /\ ready' = wasReady
  /\ UNCHANGED <<result, stage, attempt, wasReady, shown>>

Probe ==
  /\ pc \in {"probe", "verify"} /\ pcm = "running" /\ ~stop
  /\ backlog >= Period /\ queue + Period <= Buffer
  /\ backlog' = backlog - Period /\ queue' = queue + Period
  /\ tries' = tries + 1
  /\ \/ /\ tries < MaxTries /\ UNCHANGED <<pc, result, stage, attempt, qualified, readyVars>>
     \/ /\ pc = "probe"
        /\ IF PaddingFits THEN pc' = "pad" /\ UNCHANGED result ELSE Fail("loopback")
        /\ UNCHANGED <<stage, attempt, qualified, readyVars>>
     \/ /\ pc = "verify" /\ Padding = 0 /\ Normalized
     \/ /\ (tries = MaxTries \/ Padding # 0)
        /\ Fail("loopback") /\ UNCHANGED <<stage, attempt, qualified, readyVars>>
  /\ UNCHANGED <<mode, stop, flagVars, pcm, wired, path, trip, cycleVars, xruns>>

Pad ==
  /\ pc = "pad" /\ pcm = "running" /\ ~stop
  /\ queue + Padding <= Buffer
  /\ queue' = queue + Padding /\ trip' = trip + Padding
  /\ pc' = "verify" /\ tries' = 0
  /\ UNCHANGED <<mode, result, stop, flagVars, pcm, wired, backlog, path, stage, attempt,
                 qualified, readyVars, cycleVars, xruns>>

(* Whatever goes wrong in it is a StartupLoopback error; only a stop is    *)
(* not: startup_loopback_error.                                            *)
ProbeFails ==
  /\ pc \in {"probe", "pad", "verify"}
  /\ \/ pcm = "xrun" /\ Fail("loopback")
     \/ stop /\ Fail("stopped")
  /\ UNCHANGED <<mode, stop, flagVars, streamVars, qualVars, readyVars, cycleVars, xruns>>

-----------------------------------------------------------------------------
(* calibrate_linked_phase and recalibrate_linked_phase                     *)

(* After its last attempt the startup gives up, and a recovery goes on     *)
(* with the phase it has.                                                  *)
AttemptMissed ==
  IF attempt < MaxAttempts
    THEN pc' = "rebase" /\ UNCHANGED <<result, qualified>>
  ELSE IF stage = "startup"
    THEN Fail("unstable") /\ UNCHANGED qualified
  ELSE pc' = "top" /\ qualified' = "short" /\ UNCHANGED result

CalibrationRead ==
  /\ pc = "calRead" /\ pcm = "running" /\ backlog >= Period
  /\ backlog' = backlog - Period
  /\ scratch' = Junk
  /\ pc' = IF stop THEN "top" ELSE "calWrite"
  /\ UNCHANGED <<mode, result, stop, flagVars, pcm, wired, queue, path, trip, qualVars,
                 readyVars, sequence, periods, chunk, pending, xruns>>

CalibrationWrite ==
  /\ pc = "calWrite" /\ pcm = "running" /\ ~stop
  /\ queue <= Floor /\ queue + Period <= Buffer
  /\ queue' = queue + Period
  /\ tries' = tries + 1
  /\ \/ AttemptMissed
     \/ tries + 1 < Warmup /\ pc' = "calRead" /\ UNCHANGED <<result, qualified>>
     \/ /\ tries + 1 >= Warmup
        /\ pc' = "top" /\ UNCHANGED result
        /\ qualified' = IF stage = "startup" THEN "full" ELSE "short"
  /\ UNCHANGED <<mode, stop, flagVars, pcm, wired, backlog, path, trip, stage, attempt,
                 readyVars, cycleVars, xruns>>

CalibrationFails ==
  /\ pc \in {"calRead", "calWrite"}
  /\ \/ stop /\ pc' = "top" /\ UNCHANGED result
     \/ /\ pcm = "xrun"
        /\ IF stage = "startup" /\ attempt = MaxAttempts
             THEN Fail("unstable")
             ELSE pc' = "recover" /\ UNCHANGED result
  /\ UNCHANGED <<mode, stop, flagVars, streamVars, qualVars, readyVars, cycleVars, xruns>>

-----------------------------------------------------------------------------
(* The cycle loops                                                         *)

Done(r) == pc' = "ended" /\ result' = r

Stays == UNCHANGED <<mode, stop, flagVars, qualVars, xruns>>
StreamStays == UNCHANGED <<pcm, wired, path, trip>>
ReadyStays == UNCHANGED readyVars

(* The top of every loop; a stop seen while a transfer waits ends the loop *)
(* the same way, and leaves the streams as they are.                       *)
EndLoop ==
  /\ \/ pc = "top" /\ (stop \/ periods >= Limit)
     \/ stop /\ \/ pc = "write" /\ ~Direct /\ mode # "handoff"
                \/ pc \in {"readAhead", "refill", "stage", "chunk"}
  /\ Done("ok")
  /\ Stays /\ ReadyStays /\ UNCHANGED <<streamVars, cycleVars>>

(* ... and ends it with Stopped while the handoff or the guard waits.      *)
StopAhead ==
  /\ mode = "ahead" /\ stop /\ pc \in {"top", "write"}
  /\ Fail("stopped")
  /\ Stays /\ ReadyStays /\ UNCHANGED <<streamVars, cycleVars>>

(* publish_hardware_ready at the end of a cycle                            *)
CycleDone ==
  /\ sequence' = sequence + 1 /\ periods' = periods + 1
  /\ ready' = (ready \/ ~stop) /\ shown' = (shown \/ ready')
  /\ pc' = "top"
  /\ UNCHANGED <<result, wasReady>>

Enter == pc = "top" /\ ~stop /\ periods < Limit

(* The two loops of lead zero.  The direct one waits for both streams.     *)
Read ==
  /\ Lead = 0 /\ Enter /\ pcm = "running"
  /\ backlog >= Period /\ (Direct => queue + Period <= Buffer)
  /\ backlog' = backlog - Period /\ scratch' = sequence
  /\ pc' = "read"
  /\ Stays /\ StreamStays /\ ReadyStays
  /\ UNCHANGED <<result, queue, sequence, periods, chunk, pending>>

(* The latency guard found added buffering after a stall: the streams are  *)
(* rebased before this capture is published.                               *)
GuardRebases ==
  /\ Direct /\ pc = "read" /\ ~stop /\ xruns < MaxXruns
  /\ pc' = "rebase" /\ stage' = "guard" /\ attempt' = 0 /\ xruns' = xruns + 1
  /\ ReadyStays
  /\ UNCHANGED <<mode, result, stop, flagVars, streamVars, tries, qualified, cycleVars>>

(* The capture is published, the client waited for and its block rendered. *)
Publish ==
  /\ pc = "read"
  /\ pc' = IF stop THEN "top" ELSE "write"
  /\ Stays /\ ReadyStays /\ UNCHANGED <<result, streamVars, cycleVars>>

(* commit_playback, the write, and process_deferred_capture                *)
Write ==
  /\ Lead = 0 /\ pc = "write" /\ pcm = "running"
  /\ IF stop
       THEN pc' = "top" /\ ReadyStays /\ UNCHANGED <<result, queue, sequence, periods>>
       ELSE /\ mode = "handoff" => queue <= Floor
            /\ queue + Period <= Buffer
            /\ queue' = queue + Period
            /\ CycleDone
  /\ Stays /\ StreamStays /\ UNCHANGED <<backlog, scratch, pending, chunk>>

(* take_pending_pro_capture; the render publishes the capture it takes     *)
Taken == pending.playback = sequence
TakePending == pending' = IF Taken THEN None ELSE pending

(* linked_pro_ahead_cycle_loop writes a period, then reads one.            *)
RenderAhead ==
  /\ mode = "ahead" /\ Enter
  /\ TakePending /\ pc' = "write"
  /\ Stays /\ ReadyStays
  /\ UNCHANGED <<result, streamVars, sequence, periods, chunk, scratch>>

WriteAhead ==
  /\ mode = "ahead" /\ pc = "write" /\ pcm = "running" /\ ~stop
  /\ queue <= Floor /\ queue + Period <= Buffer
  /\ queue' = queue + Period
  /\ pc' = "readAhead"
  /\ Stays /\ StreamStays /\ ReadyStays /\ UNCHANGED <<result, backlog, cycleVars>>

(* process_capture_for_playback and the PendingProCapture of this period   *)
Defer ==
  pending' = [hardware |-> sequence, playback |-> sequence + Lead]

ReadAhead ==
  /\ mode = "ahead" /\ pc = "readAhead" /\ pcm = "running"
  /\ backlog >= Period
  /\ backlog' = backlog - Period /\ scratch' = sequence
  /\ Defer /\ CycleDone
  /\ Stays /\ StreamStays /\ UNCHANGED <<queue, chunk>>

(* linked_pro_packet_cycle: the last packet staged by the cycle before is  *)
(* written first, the others each before a capture packet is read.         *)
StagePacket ==
  /\ mode = "packet" /\ Enter
  /\ pc' = "refill"
  /\ Stays /\ ReadyStays /\ UNCHANGED <<result, streamVars, cycleVars>>

WritePacket ==
  /\ pc \in {"refill", "stage"} /\ pcm = "running" /\ ~stop
  /\ queue <= Floor /\ queue < Buffer
  /\ queue' = queue + 1
  /\ pc' = "chunk"
  /\ IF pc = "refill" THEN TakePending /\ chunk' = 0 ELSE UNCHANGED <<pending, chunk>>
  /\ Stays /\ StreamStays /\ ReadyStays
  /\ UNCHANGED <<result, backlog, sequence, periods, scratch>>

ReadPacket ==
  /\ pc = "chunk" /\ pcm = "running" /\ backlog > 0
  /\ backlog' = backlog - 1
  /\ IF chunk + 1 < Chunks
       THEN /\ scratch' = Junk /\ chunk' = chunk + 1
            /\ IF stop THEN Done("ok") ELSE pc' = "stage" /\ UNCHANGED result
            /\ ReadyStays /\ UNCHANGED <<sequence, periods, pending>>
       ELSE /\ scratch' = sequence /\ Defer /\ UNCHANGED chunk
            /\ IF stop
                 THEN Done("ok") /\ ReadyStays /\ UNCHANGED <<sequence, periods>>
                 ELSE CycleDone
  /\ Stays /\ StreamStays /\ UNCHANGED queue

(* Where a loop asks ALSA                                                  *)
Asks ==
  \/ pc = "top" /\ Lead = 0 /\ periods < Limit
  \/ pc \in {"write", "readAhead", "refill", "chunk", "stage"}

(* Mutant: a start that was never qualified is replaced by another.        *)
RecoverAlways ==
  /\ Asks /\ pcm = "xrun"
  /\ pc' = "recover" /\ stage' = "recovery" /\ attempt' = 0 /\ pending' = None
  /\ sequence' = IF pc = "top" THEN sequence ELSE sequence + 1
  /\ ReadyStays
  /\ UNCHANGED <<mode, result, stop, flagVars, streamVars, tries, qualified, periods, chunk,
                 scratch, xruns>>

(* recover_linked_streams_during_cycle, and what the loops drop for it     *)
RecoverDuringCycle ==
  /\ Asks /\ pcm = "xrun"
  /\ IF ready
       THEN /\ pc' = "recover" /\ stage' = "recovery" /\ attempt' = 0 /\ pending' = None
            /\ sequence' = IF pc = "top" THEN sequence ELSE sequence + 1
            /\ UNCHANGED result
       ELSE /\ Fail("interrupted") /\ UNCHANGED <<stage, attempt, pending, sequence>>
  /\ ReadyStays
  /\ UNCHANGED <<mode, stop, flagVars, streamVars, tries, qualified, periods, chunk,
                 scratch, xruns>>

-----------------------------------------------------------------------------
(* The end, the device and the daemon                                      *)

(* cleanup_startup_failure                                                 *)
Cleanup ==
  /\ pc = "cleanup"
  /\ wired' = FALSE /\ pcm' = "prepared"
  /\ started' = FALSE /\ streamsLinked' = FALSE
  /\ pc' = "ended"
  /\ UNCHANGED <<mode, result, stop, queue, backlog, path, trip, qualVars, readyVars,
                 cycleVars, xruns>>

(* DuplexEngine.stop, which Drop calls again: where ALSA refuses to drop   *)
(* the linked pair the streams are unlinked and dropped one by one.        *)
StopEngine ==
  /\ pc = "ended"
  /\ \/ /\ pc' = "closed"
        /\ wired' = FALSE
        /\ pcm' = IF started THEN "setup" ELSE pcm
        /\ started' = FALSE /\ streamsLinked' = FALSE
     \/ /\ started /\ streamsLinked
        /\ wired' = FALSE /\ streamsLinked' = FALSE
        /\ UNCHANGED <<pc, pcm, started>>
  /\ UNCHANGED <<mode, result, stop, queue, backlog, path, trip, qualVars, readyVars,
                 cycleVars, xruns>>

Shutdown ==
  /\ ~stop /\ stop' = TRUE
  /\ UNCHANGED <<mode, pc, result, flagVars, streamVars, qualVars, readyVars, cycleVars,
                 xruns>>

(* A hardware period passes.  A stream at the end of its buffer stops, and *)
(* its linked peer with it.                                                *)
AtEnd == queue = 0 \/ backlog = Buffer

Tick ==
  /\ pcm = "running" /\ pc # "closed"
  /\ AtEnd => xruns < MaxXruns
  /\ IF AtEnd
       THEN pcm' = "xrun" /\ xruns' = xruns + 1 /\ UNCHANGED <<queue, backlog>>
       ELSE queue' = queue - 1 /\ backlog' = backlog + 1 /\ UNCHANGED <<pcm, xruns>>
  /\ UNCHANGED <<mode, pc, result, stop, flagVars, wired, path, trip, qualVars, readyVars,
                 cycleVars>>

Qualification ==
  \/ Probe \/ Pad \/ ProbeFails
  \/ CalibrationRead \/ CalibrationWrite \/ CalibrationFails

Cycle ==
  \/ EndLoop \/ StopAhead
  \/ Read \/ GuardRebases \/ Publish \/ Write
  \/ RenderAhead \/ WriteAhead \/ ReadAhead
  \/ StagePacket \/ WritePacket \/ ReadPacket
  \/ RecoverDuringCycle

Step == StartStreams \/ Restart \/ Qualification \/ Cycle \/ Cleanup \/ StopEngine

Next == Step \/ Shutdown \/ Tick

Spec == Init /\ [][Next]_vars
(* The engine's thread runs at real-time priority and the device's clock   *)
(* does not stop.                                                          *)
Fairness == WF_vars(Step) /\ WF_vars(Tick)
FairSpec == Spec /\ Fairness

-----------------------------------------------------------------------------
(* Properties                                                              *)

InCycle == {"read", "write", "readAhead", "refill", "stage", "chunk"}

TypeOK ==
  /\ mode \in Modes
  /\ pc \in InCycle \cup {"off", "recover", "rebase", "probe", "pad", "verify", "calRead",
                          "calWrite", "top", "cleanup", "ended", "closed"}
  /\ result \in {"none", "ok", "stopped", "unstable", "interrupted", "loopback", "failed"}
  /\ pcm \in {"setup", "prepared", "running", "xrun"}
  /\ {stop, started, streamsLinked, wired, ready, wasReady, shown} \subseteq BOOLEAN
  /\ {queue, backlog} \subseteq 0..Buffer
  /\ path \in Paths /\ trip \in 0..(2 * Buffer)
  /\ stage \in {"startup", "recovery", "guard"} /\ {attempt, tries} \subseteq Nat
  /\ qualified \in {"none", "full", "short"}
  /\ {sequence, periods, chunk, xruns} \subseteq Nat
  /\ scratch \in Nat \cup {Junk}
  /\ pending \in [hardware : Nat \cup {Junk}, playback : Nat \cup {Junk}]

(* Only a qualified start reaches the clients, and the one that makes the  *)
(* hardware ready went through the whole startup qualification: "Never     *)
(* publish a replacement start that skipped startup qualification".  Once  *)
(* ready, the hardware stays so through every requalification, so that no  *)
(* later XRUN is taken for an interrupted startup.                         *)
ReadyIsQualified ==
  /\ pc \in InCycle => qualified # "none" /\ (~ready => qualified = "full")
  /\ pc \in InCycle \cup {"top"} /\ shown => ready
  /\ result = "interrupted" => ~shown

(* What is under way between the two streams is what the last start queued *)
(* and padded, whatever was restarted: so the round trip clients measured  *)
(* stays, and with a digital loopback it is the configured target.         *)
Held ==
  CASE pc \in {"calWrite", "read"} \/ (pc = "write" /\ Lead = 0) -> Period
    [] pc = "readAhead" -> 0 - Period
    [] pc = "chunk"     -> 0 - 1
    [] OTHER            -> 0

Going ==
  \/ pc \in InCycle \cup {"calRead", "calWrite", "probe", "pad", "verify"}
  \/ pc = "top" /\ ~stop

RoundTripIsKept ==
  /\ pcm = "running" /\ Going => queue + backlog + Held = trip
  /\ mode = "loopback" /\ pc \in InCycle => trip + path = Target

(* The capture a render publishes is the audio of the cycle it is named    *)
(* after, though the calibration of a recovery and the reads of the next   *)
(* cycle use the same buffer.                                              *)
PendingIsCurrent ==
  /\ pc \in {"top", "refill"} /\ Taken => scratch = pending.hardware
  /\ pc = "write" /\ Lead = 0 => scratch = sequence

(* However the run ends, the streams end stopped and unlinked, and         *)
(* DuplexEngine never takes a running stream for one that is not.          *)
StreamsAreReleased ==
  /\ pcm \in {"running", "xrun"} => started
  /\ wired => streamsLinked
  /\ pc = "closed" => ~wired /\ pcm \in {"setup", "prepared"} /\ ~started /\ ~streamsLinked

LinkedAgree == RoundTripIsKept /\ PendingIsCurrent /\ StreamsAreReleased

(* A run ends: at its limit or when it is stopped, however many XRUNs and  *)
(* failed attempts it goes through, and nothing in it waits forever.       *)
LinkedEnds == <>(pc = "closed")
=============================================================================
