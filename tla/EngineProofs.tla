----------------------------- MODULE EngineProofs ----------------------------
(***************************************************************************)
(* Proofs about the engine: its two ways to run the streams (SplitWorkers  *)
(* and LinkedEngine, as MCWorkers names their variables), for buffers of   *)
(* any size and any number of restarts.                                    *)
(***************************************************************************)
EXTENDS MCWorkers, TLAPS

-----------------------------------------------------------------------------
(* The linked engine                                                       *)

Over == {"cleanup", "ended", "closed"}
Probing == {"probe", "pad", "verify"}
Calibrating == {"calRead", "calWrite"}

LinkedTypes ==
  /\ loop \in Modes /\ outcome \in {"none", "ok", "stopped", "unstable", "interrupted",
                                      "loopback", "failed"}
  /\ lpc \in Linked!InCycle \cup Probing \cup Calibrating \cup Over
               \cup {"off", "recover", "rebase", "top"}
  /\ lpcm \in {"setup", "prepared", "running", "xrun"}
  /\ lqueue \in 0 .. LinkedBuffer /\ lbacklog \in 0 .. LinkedBuffer
  /\ path \in Paths /\ trip \in 0 .. (2 * LinkedBuffer)
  /\ stage \in {"startup", "recovery", "guard"} /\ qualified \in {"none", "full", "short"}
  /\ attempt \in Nat /\ tries \in Nat /\ sequence \in Nat /\ periods \in Nat
  /\ chunk \in Nat /\ xruns \in Nat /\ scratch \in Nat \cup {Linked!Junk}
  /\ pending \in [hardware : Nat \cup {Linked!Junk}, playback : Nat \cup {Linked!Junk}]

Flags ==
  /\ lstop \in BOOLEAN /\ lwired \in BOOLEAN /\ lstarted \in BOOLEAN
  /\ streamsLinked \in BOOLEAN
  /\ ready \in BOOLEAN /\ wasReady \in BOOLEAN /\ shown \in BOOLEAN

(* Which loop is where.                                                    *)
Places ==
  /\ lpc \in Calibrating => ~Linked!Direct
  /\ lpc \in Probing => loop = "loopback"
  /\ lpc = "read" => Linked!Lead = 0
  /\ lpc = "write" => loop # "packet"
  /\ lpc = "readAhead" => loop = "ahead"
  /\ lpc \in {"refill", "stage", "chunk"} => loop = "packet"
  /\ lpc \notin Over => outcome = "none"
  /\ lpc = "off" => ~lwired /\ lpcm = "setup"

(* A start that is requalified while clients use the hardware is a         *)
(* recovery; only a probe takes the readiness back, and remembers it.      *)
Readiness ==
  /\ lpc \in Probing => (shown => wasReady)
  /\ lpc \notin Probing \cup Over => (shown => ready)
  /\ ~Linked!Direct => stage # "guard" /\ (stage # "startup" => ready)
  /\ outcome = "interrupted" => ~shown

(* What a cycle may rely on.                                               *)
Cycling == lpc \in Linked!InCycle \/ (lpc = "top" /\ ~lstop)
Earned ==
  /\ Cycling => qualified # "none" /\ (~ready => qualified = "full")
  /\ loop = "loopback" /\ lpc \in Linked!InCycle \cup {"top"} => trip + path = Target
  /\ lpc = "pad" => Linked!Padding >= 0

Trips == lpcm = "running" /\ Linked!Going => lqueue + lbacklog + Linked!Held = trip

(* Deferred capture is taken by the next render, or dropped by a recovery. *)
Deferred ==
  /\ lpc \notin Over /\ pending # Linked!None =>
       /\ lpc \in {"top", "refill"}
       /\ pending.playback = sequence /\ scratch = pending.hardware
  /\ Linked!Lead = 0 => pending = Linked!None
  /\ lpc = "read" \/ (lpc = "write" /\ Linked!Lead = 0) => scratch = sequence

Released ==
  /\ lpcm \in {"running", "xrun"} \/ lwired => lstarted
  /\ lwired => streamsLinked
  /\ lpc = "closed" => ~lwired /\ lpcm \in {"setup", "prepared"} /\ ~lstarted /\ ~streamsLinked

LinkedInv ==
  LinkedTypes /\ Flags /\ Places /\ Readiness /\ Earned /\ Trips /\ Deferred /\ Released

-----------------------------------------------------------------------------
(* The two workers                                                         *)

(* Where a worker may be before the start of its stream.                   *)
Before == {"new", "schedule", "announce", "await", "awaitStart", "starting"}

SplitTypes ==
  /\ mode \in {"linked", "unlinked", "started"}
  /\ run \in {"spawnCapture", "spawnPlayback", "joinPlayback", "joinCapture", "cleanup",
              "returned"}
  /\ gate \subseteq {"capture", "playback", "captureStarted", "started"}
  /\ pc \in [Workers -> StartPlaces \cup RecoverPlaces \cup CyclePlaces \cup {"ended"}]
  /\ result \in [Workers -> {"none", "ok", "error"}]
  /\ pcm \in [Workers -> {"prepared", "running", "xrun", "suspended"}]
  /\ queue \in 0 .. Buffer /\ backlog \in 0 .. Buffer
  /\ generation \in Nat /\ seenGen \in Nat /\ captureCycle \in Nat \cup {None}
  /\ next \in Nat /\ published \in Nat

SplitFlags ==
  /\ failed \in BOOLEAN /\ started \in BOOLEAN /\ stop \in BOOLEAN /\ done \in BOOLEAN
  /\ wired \in BOOLEAN /\ commitOpen \in BOOLEAN /\ whole \in BOOLEAN

(* Until playback has opened the gate, capture has read nothing.           *)
Gated ==
  /\ pc["playback"] \in {"announce", "await", "awaitStart", "starting", "opened"} => deferred
  /\ deferred /\ pc["playback"] \in Before \cup {"opened"} =>
       /\ pc["capture"] \in StartPlaces \cup {"ended"} /\ "started" \notin gate
       /\ next = 0 /\ published = 0

(* ALSA keeps the streams linked only where a start fails on the way.      *)
Unlinked ==
  wired => \/ mode = "linked" /\ pc["playback"] \in Before
           \/ pc["playback"] = "ended" /\ result["playback"] = "error"

(* What the engine's thread has started and joined.                        *)
Joined ==
  /\ run = "spawnCapture" => pc["capture"] = "new"
  /\ run \in {"spawnCapture", "spawnPlayback"} => pc["playback"] = "new"
  /\ run = "joinPlayback" => pc["playback"] # "new"
  /\ run = "joinCapture" =>
       \/ pc["playback"] = "ended" /\ failed = (result["playback"] = "error")
       \/ pc["playback"] = "new" /\ failed
  /\ run \in {"cleanup", "returned"} => \A w \in Workers : pc[w] \in {"new", "ended"}
  /\ run = "cleanup" => failed

(* Capture is at most the period it is delivering ahead of its clock.      *)
Clock == IF pc["capture"] = "deliver" THEN published <= next /\ next <= published + 1
                                      ELSE published = next

(* A playback that has no recovery to realign it is within the bound; the  *)
(* period just written is counted twice until the sequence advances.       *)
Bounded ==
  Running("playback") /\ pc["playback"] \notin RecoverPlaces \cup {"ended"} =>
    RoundTrip <= 2 * Buffer + 2 + (IF pc["playback"] = "advance" THEN 1 ELSE 0)

(* A capture cycle of the present generation is a whole period.            *)
Fresh ==
  /\ captureCycle <= generation
  /\ captureCycle = generation /\ pc["capture"] # "reset" => whole
  /\ pc["playback"] \in {"publishCapture", "publishConfirm"} => seenGen <= generation
  /\ pc["playback"] = "publishConfirm" => seenGen <= captureCycle

Committing == commitOpen => pc["playback"] \in {"render", "recheck", "write"}

Returned ==
  run = "returned" =>
    /\ ~wired
    /\ failed => ~started /\ \A w \in Workers : pcm[w] = "prepared"

SplitInv ==
  /\ SplitTypes /\ SplitFlags /\ Gated /\ Unlinked /\ Joined
  /\ Clock /\ Bounded /\ Fresh /\ Committing /\ Returned

-----------------------------------------------------------------------------
(* Each step of the linked engine keeps its invariant.  The Boolean parts  *)
(* have a leaf of their own.                                               *)

(* What the assumptions say of the sizes, whichever loop runs.             *)
LEMMA Sizes ==
  /\ LinkedBuffer \in Nat /\ Guard \in Nat /\ MaxAttempts \in Nat /\ Warmup \in Nat
  /\ Target \in Nat /\ MaxTries \in Nat /\ Limit \in Nat /\ MaxXruns \in Nat
  /\ Paths \subseteq Nat /\ Chunks \in Nat \ {0}
  /\ Linked!Period \in 1 .. LinkedBuffer
  /\ loop # "packet" => Linked!Period = 1
  /\ loop = "packet" => Linked!Period = Chunks
  /\ Linked!StartFrames \in 0 .. LinkedBuffer
  /\ Linked!Floor \in Nat
  BY WorkersAssumption DEF Linked!LinkedAssumption, Linked!Period, Linked!StartFrames,
     Linked!Floor, Linked!Least, Linked!Direct

LEMMA SamePeriod == UNCHANGED loop => Linked!Period' = Linked!Period
  BY DEF Linked!Period

USE DEF LinkedInv, LinkedTypes, Flags, Places, Over, Probing, Calibrating, Readiness,
   Earned, Cycling, Trips, Deferred, Released, Linked!InCycle, Linked!Junk, Linked!Direct,
   Linked!Lead, Linked!Padding, Linked!Going, Linked!Held, Linked!None, Linked!flagVars,
   Linked!streamVars, Linked!qualVars, Linked!readyVars, Linked!cycleVars, Linked!Stays,
   Linked!StreamStays, Linked!ReadyStays, Linked!Fail, Linked!Done

LEMMA StartStreamsInv == ASSUME LinkedInv, Linked!StartStreams PROVE LinkedInv'
  <1>1. Flags'
    BY Sizes, SamePeriod DEF Linked!Qualify, Linked!StartStreams, Linked!StreamsStart
  <1>2. /\ LinkedTypes' /\ Places' /\ Readiness' /\ Earned'
        /\ Trips' /\ Deferred' /\ Released'
    BY Sizes, SamePeriod DEF Linked!Qualify, Linked!StartStreams, Linked!StreamsStart
  <1> QED BY <1>1, <1>2

LEMMA RestartInv == ASSUME LinkedInv, Linked!Restart PROVE LinkedInv'
  <1>1. Flags'
    BY Sizes, SamePeriod DEF Linked!Qualify, Linked!Restart, Linked!StreamsStart
  <1>2. /\ LinkedTypes' /\ Places' /\ Readiness' /\ Earned'
        /\ Trips' /\ Deferred' /\ Released'
    BY Sizes, SamePeriod DEF Linked!Qualify, Linked!Restart, Linked!StreamsStart
  <1> QED BY <1>1, <1>2

LEMMA ProbeInv == ASSUME LinkedInv, Linked!Probe PROVE LinkedInv'
  <1>1. Flags'
    BY Sizes, SamePeriod DEF Linked!Normalized, Linked!PaddingFits, Linked!Probe
  <1>2. LinkedTypes' /\ Places' /\ Readiness'
    BY Sizes, SamePeriod DEF Linked!Normalized, Linked!PaddingFits, Linked!Probe
  <1>3. loop' = loop /\ trip' = trip /\ path' = path /\ UNCHANGED Linked!Padding
    BY DEF Linked!Probe
  <1>4. Earned'
    BY <1>2, <1>3, Sizes DEF Linked!Normalized, Linked!PaddingFits, Linked!Probe
  <1>5. Trips'
    BY Sizes, SamePeriod DEF Linked!Normalized, Linked!PaddingFits, Linked!Probe
  <1>6. Deferred' /\ Released'
    BY Sizes, SamePeriod DEF Linked!Normalized, Linked!PaddingFits, Linked!Probe
  <1> QED BY <1>1, <1>2, <1>4, <1>5, <1>6

LEMMA PadInv == ASSUME LinkedInv, Linked!Pad PROVE LinkedInv'
  <1>1. Flags'
    BY Sizes, SamePeriod DEF Linked!Pad
  <1>2. /\ LinkedTypes' /\ Places' /\ Readiness' /\ Earned'
        /\ Trips' /\ Deferred' /\ Released'
    BY Sizes, SamePeriod DEF Linked!Pad
  <1> QED BY <1>1, <1>2

LEMMA ProbeFailsInv == ASSUME LinkedInv, Linked!ProbeFails PROVE LinkedInv'
  <1>1. Flags'
    BY Sizes, SamePeriod DEF Linked!ProbeFails
  <1>2. /\ LinkedTypes' /\ Places' /\ Readiness' /\ Earned'
        /\ Trips' /\ Deferred' /\ Released'
    BY Sizes, SamePeriod DEF Linked!ProbeFails
  <1> QED BY <1>1, <1>2

LEMMA CalibrationReadInv ==
  ASSUME LinkedInv, Linked!CalibrationRead
  PROVE  LinkedInv'
  <1>1. Flags'
    BY Sizes, SamePeriod DEF Linked!CalibrationRead
  <1>2. /\ LinkedTypes' /\ Places' /\ Readiness' /\ Earned'
        /\ Trips' /\ Deferred' /\ Released'
    BY Sizes, SamePeriod DEF Linked!CalibrationRead
  <1> QED BY <1>1, <1>2

LEMMA CalibrationWriteInv ==
  ASSUME LinkedInv, Linked!CalibrationWrite
  PROVE  LinkedInv'
  <1>1. Flags'
    BY Sizes, SamePeriod DEF Linked!AttemptMissed, Linked!CalibrationWrite
  <1>2. /\ LinkedTypes' /\ Places' /\ Readiness' /\ Earned'
        /\ Trips' /\ Deferred' /\ Released'
    BY Sizes, SamePeriod DEF Linked!AttemptMissed, Linked!CalibrationWrite
  <1> QED BY <1>1, <1>2

LEMMA CalibrationFailsInv ==
  ASSUME LinkedInv, Linked!CalibrationFails
  PROVE  LinkedInv'
  <1>1. Flags'
    BY Sizes, SamePeriod DEF Linked!CalibrationFails
  <1>2. /\ LinkedTypes' /\ Places' /\ Readiness' /\ Earned'
        /\ Trips' /\ Deferred' /\ Released'
    BY Sizes, SamePeriod DEF Linked!CalibrationFails
  <1> QED BY <1>1, <1>2

LEMMA EndLoopInv == ASSUME LinkedInv, Linked!EndLoop PROVE LinkedInv'
  <1>1. Flags'
    BY Sizes, SamePeriod DEF Linked!EndLoop
  <1>2. /\ LinkedTypes' /\ Places' /\ Readiness' /\ Earned'
        /\ Trips' /\ Deferred' /\ Released'
    BY Sizes, SamePeriod DEF Linked!EndLoop
  <1> QED BY <1>1, <1>2

LEMMA StopAheadInv == ASSUME LinkedInv, Linked!StopAhead PROVE LinkedInv'
  <1>1. Flags'
    BY Sizes, SamePeriod DEF Linked!StopAhead
  <1>2. /\ LinkedTypes' /\ Places' /\ Readiness' /\ Earned'
        /\ Trips' /\ Deferred' /\ Released'
    BY Sizes, SamePeriod DEF Linked!StopAhead
  <1> QED BY <1>1, <1>2

LEMMA ReadInv == ASSUME LinkedInv, Linked!Read PROVE LinkedInv'
  <1>1. Flags'
    BY Sizes, SamePeriod DEF Linked!Enter, Linked!Read
  <1>2. /\ LinkedTypes' /\ Places' /\ Readiness' /\ Earned'
        /\ Trips' /\ Deferred' /\ Released'
    BY Sizes, SamePeriod DEF Linked!Enter, Linked!Read
  <1> QED BY <1>1, <1>2

LEMMA GuardRebasesInv == ASSUME LinkedInv, Linked!GuardRebases PROVE LinkedInv'
  <1>1. Flags'
    BY Sizes, SamePeriod DEF Linked!GuardRebases
  <1>2. /\ LinkedTypes' /\ Places' /\ Readiness' /\ Earned'
        /\ Trips' /\ Deferred' /\ Released'
    BY Sizes, SamePeriod DEF Linked!GuardRebases
  <1> QED BY <1>1, <1>2

LEMMA PublishInv == ASSUME LinkedInv, Linked!Publish PROVE LinkedInv'
  <1>1. Flags'
    BY Sizes, SamePeriod DEF Linked!Publish
  <1>2. /\ LinkedTypes' /\ Places' /\ Readiness' /\ Earned'
        /\ Trips' /\ Deferred' /\ Released'
    BY Sizes, SamePeriod DEF Linked!Publish
  <1> QED BY <1>1, <1>2

LEMMA WriteInv == ASSUME LinkedInv, Linked!Write PROVE LinkedInv'
  <1>1. Flags'
    BY Sizes, SamePeriod DEF Linked!CycleDone, Linked!Write
  <1>2. /\ LinkedTypes' /\ Places' /\ Readiness' /\ Earned'
        /\ Trips' /\ Deferred' /\ Released'
    BY Sizes, SamePeriod DEF Linked!CycleDone, Linked!Write
  <1> QED BY <1>1, <1>2

LEMMA RenderAheadInv == ASSUME LinkedInv, Linked!RenderAhead PROVE LinkedInv'
  <1>1. Flags'
    BY Sizes, SamePeriod DEF Linked!Enter, Linked!RenderAhead, Linked!TakePending, Linked!Taken
  <1>2. /\ LinkedTypes' /\ Places' /\ Readiness' /\ Earned'
        /\ Trips' /\ Deferred' /\ Released'
    BY Sizes, SamePeriod DEF Linked!Enter, Linked!RenderAhead, Linked!TakePending, Linked!Taken
  <1> QED BY <1>1, <1>2

LEMMA WriteAheadInv == ASSUME LinkedInv, Linked!WriteAhead PROVE LinkedInv'
  <1>1. Flags'
    BY Sizes, SamePeriod DEF Linked!WriteAhead
  <1>2. /\ LinkedTypes' /\ Places' /\ Readiness' /\ Earned'
        /\ Trips' /\ Deferred' /\ Released'
    BY Sizes, SamePeriod DEF Linked!WriteAhead
  <1> QED BY <1>1, <1>2

LEMMA ReadAheadInv == ASSUME LinkedInv, Linked!ReadAhead PROVE LinkedInv'
  <1>1. Flags'
    BY Sizes, SamePeriod DEF Linked!CycleDone, Linked!Defer, Linked!ReadAhead
  <1>2. /\ LinkedTypes' /\ Places' /\ Readiness' /\ Earned'
        /\ Trips' /\ Deferred' /\ Released'
    BY Sizes, SamePeriod DEF Linked!CycleDone, Linked!Defer, Linked!ReadAhead
  <1> QED BY <1>1, <1>2

LEMMA StagePacketInv == ASSUME LinkedInv, Linked!StagePacket PROVE LinkedInv'
  <1>1. Flags'
    BY Sizes, SamePeriod DEF Linked!Enter, Linked!StagePacket
  <1>2. /\ LinkedTypes' /\ Places' /\ Readiness' /\ Earned'
        /\ Trips' /\ Deferred' /\ Released'
    BY Sizes, SamePeriod DEF Linked!Enter, Linked!StagePacket
  <1> QED BY <1>1, <1>2

LEMMA WritePacketInv == ASSUME LinkedInv, Linked!WritePacket PROVE LinkedInv'
  <1>1. Flags'
    BY Sizes, SamePeriod DEF Linked!TakePending, Linked!Taken, Linked!WritePacket
  <1>2. /\ LinkedTypes' /\ Places' /\ Readiness' /\ Earned'
        /\ Trips' /\ Deferred' /\ Released'
    BY Sizes, SamePeriod DEF Linked!TakePending, Linked!Taken, Linked!WritePacket
  <1> QED BY <1>1, <1>2

LEMMA ReadPacketInv == ASSUME LinkedInv, Linked!ReadPacket PROVE LinkedInv'
  <1>1. Flags'
    BY Sizes, SamePeriod DEF Linked!CycleDone, Linked!Defer, Linked!ReadPacket
  <1>2. /\ LinkedTypes' /\ Places' /\ Readiness' /\ Earned'
        /\ Trips' /\ Deferred' /\ Released'
    BY Sizes, SamePeriod DEF Linked!CycleDone, Linked!Defer, Linked!ReadPacket
  <1> QED BY <1>1, <1>2

LEMMA RecoverDuringCycleInv ==
  ASSUME LinkedInv, Linked!RecoverDuringCycle
  PROVE  LinkedInv'
  <1>1. Flags'
    BY Sizes, SamePeriod DEF Linked!Asks, Linked!RecoverDuringCycle
  <1>2. /\ LinkedTypes' /\ Places' /\ Readiness' /\ Earned'
        /\ Trips' /\ Deferred' /\ Released'
    BY Sizes, SamePeriod DEF Linked!Asks, Linked!RecoverDuringCycle
  <1> QED BY <1>1, <1>2

LEMMA CleanupInv == ASSUME LinkedInv, Linked!Cleanup PROVE LinkedInv'
  <1>1. Flags'
    BY Sizes, SamePeriod DEF Linked!Cleanup
  <1>2. /\ LinkedTypes' /\ Places' /\ Readiness' /\ Earned'
        /\ Trips' /\ Deferred' /\ Released'
    BY Sizes, SamePeriod DEF Linked!Cleanup
  <1> QED BY <1>1, <1>2

LEMMA StopEngineInv == ASSUME LinkedInv, Linked!StopEngine PROVE LinkedInv'
  <1>1. Flags'
    BY Sizes, SamePeriod DEF Linked!StopEngine
  <1>2. /\ LinkedTypes' /\ Places' /\ Readiness' /\ Earned'
        /\ Trips' /\ Deferred' /\ Released'
    BY Sizes, SamePeriod DEF Linked!StopEngine
  <1> QED BY <1>1, <1>2

LEMMA ShutdownInv == ASSUME LinkedInv, Linked!Shutdown PROVE LinkedInv'
  <1>1. Flags'
    BY Sizes, SamePeriod DEF Linked!Shutdown
  <1>2. /\ LinkedTypes' /\ Places' /\ Readiness' /\ Earned'
        /\ Trips' /\ Deferred' /\ Released'
    BY Sizes, SamePeriod DEF Linked!Shutdown
  <1> QED BY <1>1, <1>2

LEMMA TickInv == ASSUME LinkedInv, Linked!Tick PROVE LinkedInv'
  <1>1. Flags'
    BY Sizes, SamePeriod DEF Linked!AtEnd, Linked!Tick
  <1>2. /\ LinkedTypes' /\ Places' /\ Readiness' /\ Earned'
        /\ Trips' /\ Deferred' /\ Released'
    BY Sizes, SamePeriod DEF Linked!AtEnd, Linked!Tick
  <1> QED BY <1>1, <1>2

HIDE DEF LinkedInv, LinkedTypes, Flags, Places, Over, Probing, Calibrating, Readiness,
   Earned, Cycling, Trips, Deferred, Released, Linked!InCycle, Linked!Junk, Linked!Direct,
   Linked!Lead, Linked!Padding, Linked!Going, Linked!Held, Linked!None, Linked!flagVars,
   Linked!streamVars, Linked!qualVars, Linked!readyVars, Linked!cycleVars, Linked!Stays,
   Linked!StreamStays, Linked!ReadyStays, Linked!Fail, Linked!Done

-----------------------------------------------------------------------------
(* Each step of the two workers keeps theirs.                              *)

(* What the steps of each thread leave alone.                              *)
ThreadFrame == UNCHANGED <<gateVars, stop, commitOpen, generation, readyVars, clockVars>>
DeviceFrame ==
  UNCHANGED <<gateVars, engineVars, stop, workerVars, commitOpen, generation, readyVars,
              clockVars>>
StartFrame == UNCHANGED <<engineVars, stop, commitOpen, generation, readyVars, clockVars>>
CycleFrame == UNCHANGED <<gateVars, engineVars, stop>>

USE DEF SplitInv, SplitTypes, SplitFlags, Before, Gated, Unlinked, Joined, Clock, Bounded,
   Fresh, Committing, Returned, ThreadFrame, DeviceFrame, StartFrame, CycleFrame,
   StartPlaces, RecoverPlaces, CyclePlaces, Workers, deferred, linked, None, Running,
   RoundTrip, gateVars, engineVars, workerVars, deviceVars, clockVars, readyVars, At, Goto,
   End, Stopping

LEMMA SpawnCaptureInv ==
  ASSUME SplitInv, SpawnCapture, ThreadFrame
  PROVE  SplitInv'
  <1>1. SplitFlags'
    BY SplitAssumption DEF SpawnCapture
  <1>2. /\ SplitTypes' /\ Gated' /\ Unlinked' /\ Joined'
        /\ Clock' /\ Bounded' /\ Fresh' /\ Committing' /\ Returned'
    BY SplitAssumption DEF SpawnCapture
  <1> QED BY <1>1, <1>2

LEMMA SpawnPlaybackInv ==
  ASSUME SplitInv, SpawnPlayback, ThreadFrame
  PROVE  SplitInv'
  <1>1. SplitFlags'
    BY SplitAssumption DEF SpawnPlayback
  <1>2. /\ SplitTypes' /\ Gated' /\ Unlinked' /\ Joined'
        /\ Clock' /\ Bounded' /\ Fresh' /\ Committing' /\ Returned'
    BY SplitAssumption DEF SpawnPlayback
  <1> QED BY <1>1, <1>2

LEMMA JoinInv ==
  ASSUME SplitInv, Join, ThreadFrame
  PROVE  SplitInv'
  <1>1. SplitFlags'
    BY SplitAssumption DEF Join
  <1>2. /\ SplitTypes' /\ Gated' /\ Unlinked' /\ Joined'
        /\ Clock' /\ Bounded' /\ Fresh' /\ Committing' /\ Returned'
    BY SplitAssumption DEF Join
  <1> QED BY <1>1, <1>2

LEMMA SplitCleanupInv ==
  ASSUME SplitInv, Cleanup, ThreadFrame
  PROVE  SplitInv'
  <1>1. SplitFlags'
    BY SplitAssumption DEF Cleanup
  <1>2. /\ SplitTypes' /\ Gated' /\ Unlinked' /\ Joined'
        /\ Clock' /\ Bounded' /\ Fresh' /\ Committing' /\ Returned'
    BY SplitAssumption DEF Cleanup
  <1> QED BY <1>1, <1>2

LEMMA SplitShutdownInv ==
  ASSUME SplitInv, Shutdown
  PROVE  SplitInv'
  <1>1. SplitFlags'
    BY SplitAssumption DEF Shutdown
  <1>2. /\ SplitTypes' /\ Gated' /\ Unlinked' /\ Joined'
        /\ Clock' /\ Bounded' /\ Fresh' /\ Committing' /\ Returned'
    BY SplitAssumption DEF Shutdown
  <1> QED BY <1>1, <1>2

LEMMA SplitTickInv ==
  ASSUME SplitInv, Tick, DeviceFrame
  PROVE  SplitInv'
  <1>1. SplitFlags'
    BY SplitAssumption DEF Ends, Larger, Tick
  <1>2. /\ SplitTypes' /\ Gated' /\ Unlinked' /\ Joined'
        /\ Clock' /\ Bounded' /\ Fresh' /\ Committing' /\ Returned'
    BY SplitAssumption DEF Ends, Larger, Tick
  <1> QED BY <1>1, <1>2

LEMMA SuspendInv ==
  ASSUME SplitInv, NEW w \in Workers, Suspend(w), DeviceFrame
  PROVE  SplitInv'
  <1>1. SplitFlags'
    BY SplitAssumption DEF Suspend
  <1>2. /\ SplitTypes' /\ Gated' /\ Unlinked' /\ Joined'
        /\ Clock' /\ Bounded' /\ Fresh' /\ Committing' /\ Returned'
    BY SplitAssumption DEF Suspend
  <1> QED BY <1>1, <1>2

LEMMA ScheduleInv ==
  ASSUME SplitInv, NEW w \in Workers, Schedule(w), StartFrame
  PROVE  SplitInv'
  <1>1. SplitFlags'
    BY SplitAssumption DEF Schedule
  <1>2. /\ SplitTypes' /\ Gated' /\ Unlinked' /\ Joined'
        /\ Clock' /\ Bounded' /\ Fresh' /\ Committing' /\ Returned'
    BY SplitAssumption DEF Schedule
  <1> QED BY <1>1, <1>2

LEMMA AnnounceInv ==
  ASSUME SplitInv, NEW w \in Workers, Announce(w), StartFrame
  PROVE  SplitInv'
  <1>1. SplitFlags'
    BY SplitAssumption DEF Announce, Raise
  <1>2. /\ SplitTypes' /\ Gated' /\ Unlinked' /\ Joined'
        /\ Clock' /\ Bounded' /\ Fresh' /\ Committing' /\ Returned'
    BY SplitAssumption DEF Announce, Raise
  <1> QED BY <1>1, <1>2

LEMMA AwaitCaptureInv ==
  ASSUME SplitInv, AwaitCapture, StartFrame
  PROVE  SplitInv'
  <1>1. SplitFlags'
    BY SplitAssumption DEF AwaitCapture, Quit
  <1>2. /\ SplitTypes' /\ Gated' /\ Unlinked' /\ Joined'
        /\ Clock' /\ Bounded' /\ Fresh' /\ Committing' /\ Returned'
    BY SplitAssumption DEF AwaitCapture, Quit
  <1> QED BY <1>1, <1>2

LEMMA StartPlaybackInv ==
  ASSUME SplitInv, StartPlayback, StartFrame
  PROVE  SplitInv'
  <1>1. SplitFlags'
    BY SplitAssumption DEF Quit, StartPlayback
  <1>2. /\ SplitTypes' /\ Gated' /\ Unlinked' /\ Joined'
        /\ Clock' /\ Bounded' /\ Fresh' /\ Committing' /\ Returned'
    BY SplitAssumption DEF Quit, StartPlayback
  <1> QED BY <1>1, <1>2

LEMMA OpenGateInv ==
  ASSUME SplitInv, OpenGate, StartFrame
  PROVE  SplitInv'
  <1>1. SplitFlags'
    BY SplitAssumption DEF OpenGate, Raise
  <1>2. /\ SplitTypes' /\ Gated' /\ Unlinked' /\ Joined'
        /\ Clock' /\ Bounded' /\ Fresh' /\ Committing' /\ Returned'
    BY SplitAssumption DEF OpenGate, Raise
  <1> QED BY <1>1, <1>2

LEMMA AwaitPlaybackInv ==
  ASSUME SplitInv, AwaitPlayback, StartFrame
  PROVE  SplitInv'
  <1>1. SplitFlags'
    BY SplitAssumption DEF AwaitPlayback
  <1>2. (gate \subseteq {"capture", "playback", "captureStarted", "started"})'
    BY SplitAssumption DEF AwaitPlayback
  <1>3. SplitTypes'
    BY <1>2, SplitAssumption DEF AwaitPlayback
  <1>4. Gated' /\ Unlinked' /\ Joined' /\ Clock'
    BY SplitAssumption DEF AwaitPlayback
  <1>5. Bounded' /\ Fresh' /\ Committing' /\ Returned'
    BY SplitAssumption DEF AwaitPlayback
  <1> QED BY <1>1, <1>3, <1>4, <1>5

LEMMA StartCaptureInv ==
  ASSUME SplitInv, StartCapture, StartFrame
  PROVE  SplitInv'
  <1>1. SplitFlags'
    BY SplitAssumption DEF Raise, StartCapture
  <1>2. (gate \subseteq {"capture", "playback", "captureStarted", "started"})'
    BY SplitAssumption DEF Raise, StartCapture
  <1>3. SplitTypes'
    BY <1>2, SplitAssumption DEF Raise, StartCapture
  <1>4. Gated' /\ Unlinked' /\ Joined' /\ Clock'
    BY SplitAssumption DEF Raise, StartCapture
  <1>5. Bounded' /\ Fresh' /\ Committing' /\ Returned'
    BY SplitAssumption DEF Raise, StartCapture
  <1> QED BY <1>1, <1>3, <1>4, <1>5

LEMMA TopInv ==
  ASSUME SplitInv, NEW w \in Workers, Top(w), CycleFrame
  PROVE  SplitInv'
  <1>1. SplitFlags'
    BY SplitAssumption DEF Top
  <1>2. /\ SplitTypes' /\ Gated' /\ Unlinked' /\ Joined'
        /\ Clock' /\ Bounded' /\ Fresh' /\ Committing' /\ Returned'
    BY SplitAssumption DEF Top
  <1> QED BY <1>1, <1>2

LEMMA RecoverInv ==
  ASSUME SplitInv, NEW w \in Workers, Recover(w), CycleFrame
  PROVE  SplitInv'
  <1>1. SplitFlags'
    BY SplitAssumption DEF Recover, StopOrFail
  <1>2. /\ SplitTypes' /\ Gated' /\ Unlinked' /\ Joined'
        /\ Clock' /\ Bounded' /\ Fresh' /\ Committing' /\ Returned'
    BY SplitAssumption DEF Recover, StopOrFail
  <1> QED BY <1>1, <1>2

LEMMA SplitRestartInv ==
  ASSUME SplitInv, NEW w \in Workers, Restart(w), CycleFrame
  PROVE  SplitInv'
  <1>1. SplitFlags'
    BY SplitAssumption DEF Restart, StopOrFail
  <1>2. /\ SplitTypes' /\ Gated' /\ Unlinked' /\ Joined'
        /\ Clock' /\ Bounded' /\ Fresh' /\ Committing' /\ Returned'
    BY SplitAssumption DEF Restart, StopOrFail
  <1> QED BY <1>1, <1>2

LEMMA ResetInv ==
  ASSUME SplitInv, NEW w \in Workers, Reset(w), CycleFrame
  PROVE  SplitInv'
  <1>1. SplitFlags'
    BY SplitAssumption DEF Reset
  <1>2. /\ SplitTypes' /\ Gated' /\ Unlinked' /\ Joined'
        /\ Clock' /\ Bounded' /\ Fresh' /\ Committing' /\ Returned'
    BY SplitAssumption DEF Reset
  <1> QED BY <1>1, <1>2

LEMMA WaitAndBeginInv ==
  ASSUME SplitInv, WaitAndBegin, CycleFrame
  PROVE  SplitInv'
  <1>1. SplitFlags'
    BY SplitAssumption DEF Broken, StopOrFail, WaitAndBegin
  <1>2. /\ SplitTypes' /\ Gated' /\ Unlinked' /\ Joined'
        /\ Clock' /\ Bounded' /\ Fresh' /\ Committing' /\ Returned'
    BY SplitAssumption DEF Broken, StopOrFail, WaitAndBegin
  <1> QED BY <1>1, <1>2

LEMMA RenderInv ==
  ASSUME SplitInv, Render, CycleFrame
  PROVE  SplitInv'
  <1>1. SplitFlags'
    BY SplitAssumption DEF Render
  <1>2. /\ SplitTypes' /\ Gated' /\ Unlinked' /\ Joined'
        /\ Clock' /\ Bounded' /\ Fresh' /\ Committing' /\ Returned'
    BY SplitAssumption DEF Render
  <1> QED BY <1>1, <1>2

LEMMA RecheckInv ==
  ASSUME SplitInv, Recheck, CycleFrame
  PROVE  SplitInv'
  <1>1. SplitFlags'
    BY SplitAssumption DEF Recheck
  <1>2. /\ SplitTypes' /\ Gated' /\ Unlinked' /\ Joined'
        /\ Clock' /\ Bounded' /\ Fresh' /\ Committing' /\ Returned'
    BY SplitAssumption DEF Recheck
  <1> QED BY <1>1, <1>2

LEMMA SplitWriteInv ==
  ASSUME SplitInv, Write, CycleFrame
  PROVE  SplitInv'
  <1>1. SplitFlags'
    BY SplitAssumption DEF Broken, StopOrFail, Write
  <1>2. /\ SplitTypes' /\ Gated' /\ Unlinked' /\ Joined'
        /\ Clock' /\ Bounded' /\ Fresh' /\ Committing' /\ Returned'
    BY SplitAssumption DEF Broken, StopOrFail, Write
  <1> QED BY <1>1, <1>2

LEMMA AdvanceInv ==
  ASSUME SplitInv, Advance, CycleFrame
  PROVE  SplitInv'
  <1>1. SplitFlags'
    BY SplitAssumption DEF Advance, Larger
  <1>2. /\ SplitTypes' /\ Gated' /\ Unlinked' /\ Joined'
        /\ Clock' /\ Bounded' /\ Fresh' /\ Committing' /\ Returned'
    BY SplitAssumption DEF Advance, Larger
  <1> QED BY <1>1, <1>2

LEMMA PublishReadyInv ==
  ASSUME SplitInv, PublishReady, CycleFrame
  PROVE  SplitInv'
  <1>1. SplitFlags'
    BY SplitAssumption DEF PublishReady
  <1>2. /\ SplitTypes' /\ Gated' /\ Unlinked' /\ Joined'
        /\ Clock' /\ Bounded' /\ Fresh' /\ Committing' /\ Returned'
    BY SplitAssumption DEF PublishReady
  <1> QED BY <1>1, <1>2

LEMMA RealignInv ==
  ASSUME SplitInv, Realign, CycleFrame
  PROVE  SplitInv'
  <1>1. SplitFlags'
    BY SplitAssumption DEF Larger, Realign
  <1>2. /\ SplitTypes' /\ Gated' /\ Unlinked' /\ Joined'
        /\ Clock' /\ Bounded' /\ Fresh' /\ Committing' /\ Returned'
    BY SplitAssumption DEF Larger, Realign
  <1> QED BY <1>1, <1>2

LEMMA ReadAndTakeInv ==
  ASSUME SplitInv, ReadAndTake, CycleFrame
  PROVE  SplitInv'
  <1>1. SplitFlags'
    BY SplitAssumption DEF Broken, ReadAndTake, StopOrFail
  <1>2. /\ SplitTypes' /\ Gated' /\ Unlinked' /\ Joined'
        /\ Clock' /\ Bounded' /\ Fresh' /\ Committing' /\ Returned'
    BY SplitAssumption DEF Broken, ReadAndTake, StopOrFail
  <1> QED BY <1>1, <1>2

LEMMA DeliverInv ==
  ASSUME SplitInv, Deliver, CycleFrame
  PROVE  SplitInv'
  <1>1. SplitFlags'
    BY SplitAssumption DEF Deliver
  <1>2. /\ SplitTypes' /\ Gated' /\ Unlinked' /\ Joined'
        /\ Clock' /\ Bounded' /\ Fresh' /\ Committing' /\ Returned'
    BY SplitAssumption DEF Deliver
  <1> QED BY <1>1, <1>2

LEMMA MarkInv ==
  ASSUME SplitInv, Mark, CycleFrame
  PROVE  SplitInv'
  <1>1. SplitFlags'
    BY SplitAssumption DEF Mark
  <1>2. /\ SplitTypes' /\ Gated' /\ Unlinked' /\ Joined'
        /\ Clock' /\ Bounded' /\ Fresh' /\ Committing' /\ Returned'
    BY SplitAssumption DEF Mark
  <1> QED BY <1>1, <1>2

HIDE DEF SplitInv, SplitTypes, SplitFlags, Before, Gated, Unlinked, Joined, Clock, Bounded,
   Fresh, Committing, Returned, ThreadFrame, DeviceFrame, StartFrame, CycleFrame,
   StartPlaces, RecoverPlaces, CyclePlaces, Workers, deferred, linked, None, Running,
   RoundTrip, gateVars, engineVars, workerVars, deviceVars, clockVars, readyVars, At, Goto,
   End, Stopping

-----------------------------------------------------------------------------
(* The invariants of both, and what follows from them.                     *)

LEMMA SplitInit == ASSUME Init PROVE SplitInv
  <1>1. SplitFlags
    BY DEF Init, SplitFlags, linked
  <1>2. pc \in [Workers -> {"new"}]
    BY DEF Init
  <1>3. SplitTypes
    BY <1>2, SplitAssumption DEF Init, SplitTypes, Workers, None, StartPlaces
  <1>4. pc["capture"] = "new" /\ pc["playback"] = "new"
    BY DEF Init, Workers
  <1>5. Gated /\ Unlinked /\ Joined /\ Clock /\ Committing /\ Returned
    BY <1>4 DEF Init, Gated, Unlinked, Joined, Clock, Committing, Returned, Before, Workers,
       deferred, linked, StartPlaces
  <1>6. Bounded
    BY <1>4, SplitAssumption DEF Init, Bounded, RoundTrip
  <1>7. Fresh
    BY <1>4 DEF Init, Fresh, None
  <1> QED BY <1>1, <1>3, <1>5, <1>6, <1>7 DEF SplitInv

LEMMA SplitStep == SplitInv /\ [Next]_vars => SplitInv'
  <1> SUFFICES ASSUME SplitInv, [Next]_vars PROVE SplitInv'
    OBVIOUS
  <1>1. CASE EngineStep
    BY <1>1, SpawnCaptureInv, SpawnPlaybackInv, JoinInv, SplitCleanupInv DEF EngineStep,
       ThreadFrame
  <1>2. CASE Shutdown
    BY <1>2, SplitShutdownInv
  <1>3. CASE DeviceStep
    BY <1>3, SplitTickInv, SuspendInv DEF DeviceStep, DeviceFrame
  <1>4. ASSUME NEW w \in Workers, WorkerStep(w) PROVE SplitInv'
    <2>1. CASE StartStep(w)
      BY <1>4, <2>1, ScheduleInv, AnnounceInv, AwaitCaptureInv, StartPlaybackInv, OpenGateInv,
         AwaitPlaybackInv, StartCaptureInv DEF WorkerStep, StartStep, StartFrame
    <2>2. CASE CycleStep(w)
      BY <1>4, <2>2, TopInv, RecoverInv, SplitRestartInv, ResetInv, WaitAndBeginInv, RenderInv,
         RecheckInv, SplitWriteInv, AdvanceInv, PublishReadyInv, RealignInv, ReadAndTakeInv,
         DeliverInv, MarkInv DEF WorkerStep, CycleStep, CycleFrame
    <2> QED BY <1>4, <2>1, <2>2 DEF WorkerStep
  <1>5. CASE UNCHANGED vars
    BY <1>5 DEF vars, gateVars, engineVars, workerVars, deviceVars, readyVars, clockVars,
       SplitInv, SplitTypes, SplitFlags, Gated, Unlinked, Joined, Clock, Bounded, Fresh,
       Committing, Returned, deferred, linked, Running, RoundTrip
  <1> QED BY <1>1, <1>2, <1>3, <1>4, <1>5 DEF Next

(* What the run checks of the two workers.                                 *)
LEMMA SplitImplies ==
  ASSUME SplitInv
  PROVE  ReadyIsFresh /\ WorkersAgree
  <1>1. TypeOK
    BY DEF SplitInv, SplitTypes, SplitFlags, TypeOK
  <1>2. ReadyIsFresh
    BY DEF SplitInv, SplitTypes, Fresh, ReadyIsFresh, At, None
  <1>3. RoundTripIsKept
    BY SplitAssumption DEF SplitInv, SplitTypes, Bounded, RoundTripIsKept, RoundTrip,
       CyclePlaces, RecoverPlaces
  <1>4. LeavesNothingBehind
    BY DEF SplitInv, Committing, Returned, LeavesNothingBehind, RecoverPlaces
  <1> QED BY <1>1, <1>2, <1>3, <1>4 DEF WorkersAgree

LEMMA LinkedInit == ASSUME Linked!Init PROVE LinkedInv
  <1>1. Flags
    BY DEF Linked!Init, Flags
  <1>2. LinkedTypes
    BY Sizes DEF Linked!Init, LinkedTypes, Linked!None, Linked!Junk
  <1>3. Places /\ Readiness /\ Earned /\ Trips /\ Deferred /\ Released
    BY DEF Linked!Init, Places, Over, Probing, Calibrating, Readiness, Earned, Cycling, Trips,
       Deferred, Released, Linked!InCycle
  <1> QED BY <1>1, <1>2, <1>3 DEF LinkedInv

LEMMA LinkedStep == LinkedInv /\ [Linked!Next]_(Linked!vars) => LinkedInv'
  <1> SUFFICES ASSUME LinkedInv, [Linked!Next]_(Linked!vars) PROVE LinkedInv'
    OBVIOUS
  <1>1. CASE Linked!Qualification
    BY <1>1, ProbeInv, PadInv, ProbeFailsInv, CalibrationReadInv, CalibrationWriteInv,
       CalibrationFailsInv DEF Linked!Qualification
  <1>2. CASE Linked!Cycle
    BY <1>2, EndLoopInv, StopAheadInv, ReadInv, GuardRebasesInv, PublishInv, WriteInv,
       RenderAheadInv, WriteAheadInv, ReadAheadInv, StagePacketInv, WritePacketInv,
       ReadPacketInv, RecoverDuringCycleInv DEF Linked!Cycle
  <1>3. CASE UNCHANGED Linked!vars
    BY <1>3, SamePeriod DEF Linked!vars, Linked!flagVars, Linked!streamVars, Linked!qualVars,
       Linked!readyVars, Linked!cycleVars, LinkedInv, LinkedTypes, Flags, Places, Readiness,
       Earned, Cycling, Trips, Deferred, Released, Linked!Direct, Linked!Lead, Linked!Going,
       Linked!Held, Linked!Padding
  <1> QED BY <1>1, <1>2, <1>3, StartStreamsInv, RestartInv, CleanupInv, StopEngineInv,
         ShutdownInv, TickInv DEF Linked!Next, Linked!Step

(* What the run checks of the linked engine.                               *)
LEMMA LinkedImplies ==
  ASSUME LinkedInv
  PROVE  Linked!TypeOK /\ Linked!ReadyIsQualified /\ Linked!LinkedAgree
  <1>1. Linked!TypeOK
    BY DEF LinkedInv, LinkedTypes, Flags, Over, Probing, Calibrating, Linked!TypeOK
  <1>2. Linked!ReadyIsQualified
    BY DEF LinkedInv, Readiness, Earned, Cycling, Over, Probing, Linked!InCycle,
       Linked!ReadyIsQualified
  <1>3. Linked!RoundTripIsKept
    BY DEF LinkedInv, Trips, Earned, Linked!RoundTripIsKept
  <1>4. Linked!PendingIsCurrent
    BY DEF LinkedInv, LinkedTypes, Deferred, Over, Linked!PendingIsCurrent, Linked!Taken,
       Linked!None, Linked!Junk
  <1>5. Linked!StreamsAreReleased
    BY DEF LinkedInv, Released, Linked!StreamsAreReleased
  <1> QED BY <1>1, <1>2, <1>3, <1>4, <1>5 DEF Linked!LinkedAgree

-----------------------------------------------------------------------------
(* Both                                                                    *)
LEMMA EnginesInv == WorkersSpec => [](SplitInv /\ LinkedInv)
  <1>1. WorkersInit => SplitInv /\ LinkedInv
    BY SplitInit, LinkedInit DEF WorkersInit
  <1>2. [WorkersNext]_allVars => [Next]_vars /\ [Linked!Next]_(Linked!vars)
    BY DEF WorkersNext, SplitNext, LinkedNext, SplitRuns, LinkedRuns, allVars, linkedVars, vars,
       Linked!vars, Linked!flagVars, Linked!streamVars, Linked!qualVars, Linked!readyVars,
       Linked!cycleVars
  <1> QED BY <1>1, <1>2, SplitStep, LinkedStep, PTL DEF WorkersSpec

(* Whichever way the engine runs its streams, hardware_ready is published  *)
(* for streams that earned it: after a whole period of the present start   *)
(* of capture (publish_hardware_ready), and for linked streams after the   *)
(* whole startup qualification, however many XRUNs, rebases and attempts   *)
(* there were (run_pro_linked).                                            *)
THEOREM ReadinessIsEarned == WorkersSpec => []ReadyIsEarned
  <1>1. SplitInv /\ LinkedInv => ReadyIsEarned
    BY SplitImplies, LinkedImplies DEF ReadyIsEarned
  <1> QED BY <1>1, EnginesInv, PTL

(* A restart of either stream keeps the round trip: two workers stay       *)
(* within their two buffers and a period of slack, linked streams keep     *)
(* exactly what the start queued.  No commit stays open over a recovery,   *)
(* no capture is published under another cycle's name, and an engine that  *)
(* returned has left its streams unlinked and ready for another start.     *)
THEOREM RestartsKeepTheRoundTrip == WorkersSpec => []StreamsAgree
  <1>1. SplitInv /\ LinkedInv => StreamsAgree
    BY SplitImplies, LinkedImplies DEF StreamsAgree
  <1> QED BY <1>1, EnginesInv, PTL
=============================================================================
