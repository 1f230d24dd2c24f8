------------------------------ MODULE MCStreams ------------------------------
(* The streams an application plays and captures, one part at a time: the two *)
(* directions of the ALSA plugin, the records the threads read without a      *)
(* lock, two connections to the control socket, one of a program without the  *)
(* library, and the queue of the engine under every kind of profile.          *)
EXTENDS Integers, Sequences, TLC

CONSTANTS c1, c2, w1, w2, r1, None,
          Modes, P, Buffer, Latency, MaxCycle, MaxFrames, MaxExtra, MaxPeriods,
          Kinds, Writers, Readers, Fields, MaxEpoch,
          Profiles,     \* the profiles somebody may write
          Connections, Raw, RawRequests, Timed, Forking, UidOf, MaxClients, MaxPerUid, MaxQueue

VARIABLE part    \* the one that runs
VARIABLES mode, pcm, seen, s, heard, engine, call, sent
VARIABLES source, expected, capture, retired, ring, daemon, reading, read
VARIABLES kind, epoch, field, stored, writing, reader
VARIABLES profile, run
VARIABLES up, slots, handler, sessions, running, toDaemon, toClient, client, shut, child

playbackVars == <<mode, pcm, seen, s, heard, engine, call, sent>>
captureVars == <<source, expected, capture, retired, ring, daemon, reading, read>>
recordVars == <<kind, epoch, field, stored, writing, reader>>
controlVars == <<up, slots, handler, sessions, running, toDaemon, toClient, client, shut, child>>
frameVars == <<profile, run>>
vars == <<part, playbackVars, captureVars, recordVars, controlVars, frameVars>>

TwoUsers == (c1 :> "alice") @@ (c2 :> "root")

Playback == INSTANCE AlsaPlayback
Capture == INSTANCE AlsaCapture WITH pcm <- source, s <- capture, call <- reading
Records == INSTANCE Snapshots
Two == INSTANCE ControlConnection

\* Profiles of four frames a period: a split engine, a linked one, and what ports and
\* priorities somebody may ask for.
Small == [rate |-> 48000, period |-> 4, hardware |-> None, buffer |-> 8, shared |-> None,
          queue |-> None, timer |-> FALSE, link |-> TRUE, guard |-> None, attempts |-> 0,
          lead |-> 0, handoff |-> 1, auto |-> TRUE, sharedLatency |-> 4, realtime |-> TRUE,
          priority |-> 50, proPriority |-> None, loopback |-> None]
SmallProfiles ==
    {[Small EXCEPT !.link = FALSE, !.lead = l, !.hardware = h, !.buffer = b, !.queue = q, !.timer = t] :
       l \in 0..1, h \in {None, 1, 2, 3}, b \in 3..9, q \in {None, 0, 1, 2}, t \in BOOLEAN}
    \cup {[Small EXCEPT !.lead = l, !.timer = t, !.hardware = h, !.buffer = b, !.queue = q,
                        !.guard = g, !.handoff = w, !.auto = a] :
       l \in 0..1, t \in BOOLEAN, h \in {None, 1, 2}, b \in {4, 6, 8, 9}, q \in {None, 1},
       g \in {None, 2, 5, 8}, w \in {1, 4, 6}, a \in BOOLEAN}
    \cup {[Small EXCEPT !.shared = m, !.sharedLatency = l, !.buffer = b] :
       m \in {None, 4, 8, 12, 14, 20, 24, 32, 36}, l \in {0, 1, 7, 8}, b \in {4, 20, 40}}
    \cup {[Small EXCEPT !.priority = p, !.proPriority = c, !.realtime = r] :
       p \in {0, 1, 2, 3, 50, 100}, c \in {None, 0, 1, 48, 49}, r \in BOOLEAN}
    \cup {[Small EXCEPT !.timer = t, !.attempts = n, !.loopback = c] :
       t \in BOOLEAN, n \in {0, 1, 65}, c \in {None, 0, 4800, 4801}}
Frames == INSTANCE FrameBudget

ASSUME StreamsAssumption ==
       /\ Playback!PlaybackGeometry /\ Capture!CaptureGeometry
       /\ Two!ControlAssumption /\ Frames!ProfilesAreSettings

Init ==
    /\ part \in {"playback", "capture", "records", "control", "frames"}
    /\ Playback!Init /\ Capture!Init /\ Records!Init /\ Two!Init
    /\ IF part = "frames" THEN Frames!Init ELSE profile = Small /\ run = Frames!Opened
    /\ part # "playback" => mode = "pro"
    /\ part # "records" => kind = "timing"

PlaybackRuns == part = "playback" /\ UNCHANGED <<part, captureVars, recordVars, controlVars, frameVars>>
CaptureRuns == part = "capture" /\ UNCHANGED <<part, playbackVars, recordVars, controlVars, frameVars>>
RecordsRun == part = "records" /\ UNCHANGED <<part, playbackVars, captureVars, controlVars, frameVars>>
ControlRuns == part = "control" /\ UNCHANGED <<part, playbackVars, captureVars, recordVars, frameVars>>
FramesRun == part = "frames"
    /\ UNCHANGED <<part, playbackVars, captureVars, recordVars, controlVars>>

PlaybackNext == PlaybackRuns /\ Playback!Next
CaptureNext == CaptureRuns /\ Capture!Next
RecordsNext == RecordsRun /\ Records!Next
ControlNext == ControlRuns /\ Two!Next
FramesNext == FramesRun /\ Frames!Next
Next == PlaybackNext \/ CaptureNext \/ RecordsNext \/ ControlNext \/ FramesNext

Spec == Init /\ [][Next]_vars

-----------------------------------------------------------------------------
\* The plugin's FIFO and libasound agree.
FifoFollowsAlsa == part = "playback" => Playback!TypeOK /\ Playback!FifoFollowsAlsa

\* No pointer passes what the engine has taken, and a drain leaves nothing behind.
PlayedIsTaken == part = "playback" => Playback!PointerIsSafe /\ Playback!DrainIsComplete

\* Nothing that happens to the queue adds latency to the frames of a run.
LatencyIsKept == Playback!LatencyIsKept

\* The application reads the frames that were captured, where they belong, and the
\* pointer promises no other.
CaptureIsExact ==
    part = "capture" => Capture!TypeOK /\ Capture!CaptureIsExact /\ Capture!PointerIsProduced

\* No reader returns a mixture of two records.
SnapshotsAreWhole == part = "records" => Records!TypeOK /\ Records!SnapshotsAreWhole

\* The two ends of both connections agree.
EndsAgree == part = "control" => Two!TypeOK /\ Two!EndsAgree

\* Every valid profile gives the engine room for what it writes, and gives clients and
\* ports what they can use; one with some headroom starves neither stream.
ValidProfilesRun ==
    part = "frames" =>
        Frames!TypeOK /\ Frames!WritesFit /\ Frames!NeverStarves /\ Frames!ClientsFit

\* A session ends only by its own program.
OnlyTheCreatorCloses == Two!OnlyTheCreatorCloses
=============================================================================
