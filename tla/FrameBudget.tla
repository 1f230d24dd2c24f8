---------------------------- MODULE FrameBudget ----------------------------
(*****************************************************************************)
(* From a profile to frames: which profiles validate (crates/sidealsa-config), *)
(* which cycle loop the engine chooses for one, how much it queues before the  *)
(* start and before each write (crates/sidealsa-core/src/engine.rs), and what  *)
(* becomes of the queue when the engine is never late and only the client      *)
(* takes the time it is given.  Handoffs are counted in frames.  The hardware  *)
(* moves both pointers by a hardware period at once; an XRUN is a stream that  *)
(* stops because its buffer is empty, or full.                                *)
(*****************************************************************************)
EXTENDS Integers

CONSTANTS
    Profiles,     \* profiles somebody may write
    None

Settings == [rate : Nat, period : Nat, hardware : Nat \cup {None}, buffer : Nat,
             shared : Nat \cup {None}, queue : Nat \cup {None}, timer : BOOLEAN,
             link : BOOLEAN, guard : Nat \cup {None}, attempts : Nat, lead : Nat,
             handoff : Nat, auto : BOOLEAN, sharedLatency : Nat, realtime : BOOLEAN,
             priority : Nat, proPriority : Nat \cup {None}, loopback : Nat \cup {None}]

ProfilesAreSettings == Profiles \subseteq Settings /\ None \notin Int

VARIABLES
    profile,
    run       \* the engine and its streams, see Opened

vars == <<profile, run>>

Least(a, b) == IF a < b THEN a ELSE b
Most(a, b) == IF a < b THEN b ELSE a
Divided(a, b) == (a + b - 1) \div b      \* div_ceil
Or(value, default) == IF value = None THEN default ELSE value

-----------------------------------------------------------------------------
(* HardwareConfig.  link stands for effective_duplex_link().                 *)

HardwarePeriod(p) == Or(p.hardware, p.period)
EventDriven(p) == p.link /\ p.lead = 0 /\ ~p.timer
Guard(p) == Or(p.guard, HardwarePeriod(p))
StagedPackets(p) ==
    /\ p.link /\ p.lead = 1 /\ HardwarePeriod(p) < p.period
    /\ p.buffer >= p.period + HardwarePeriod(p)

MaxLead == 7
MaxSharedLatency == 7
MaxSharedBuffer == 8
MaxAttempts == 64
MaxPriority == 99

ValidSizes(p) ==
    /\ p.rate # 0 /\ p.period # 0 /\ HardwarePeriod(p) # 0
    /\ HardwarePeriod(p) <= p.period /\ p.period % HardwarePeriod(p) = 0
    /\ p.buffer >= p.period
    /\ EventDriven(p) => p.buffer % HardwarePeriod(p) = 0
    /\ p.shared # None =>
         /\ p.shared \in 2 * p.period..MaxSharedBuffer * p.period /\ p.shared % p.period = 0
    /\ p.queue # 0

\* mutant: a lead of one period needs no room for the next write
ValidGuardWithoutRoom(p) ==
    p.guard # None =>
        /\ p.link /\ ~EventDriven(p) /\ p.lead <= 1
        /\ p.lead = 1 => p.buffer >= p.period + HardwarePeriod(p)
        /\ p.guard >= HardwarePeriod(p)
        /\ p.lead = 0 => p.guard <= p.buffer - p.period
        /\ p.lead = 0 /\ HardwarePeriod(p) < p.period => p.guard < p.period

ValidGuard(p) ==
    p.guard # None =>
        /\ p.link /\ ~EventDriven(p) /\ p.lead <= 1
        /\ p.lead = 1 => p.buffer >= p.period + HardwarePeriod(p)
        /\ p.guard >= HardwarePeriod(p)
        /\ p.guard <= p.buffer - (IF p.lead = 0 THEN p.period ELSE HardwarePeriod(p))
        /\ p.lead = 0 /\ HardwarePeriod(p) < p.period => p.guard < p.period

ValidTuning(p) ==
    /\ p.lead <= MaxLead /\ (p.lead = 0 => p.link)
    /\ p.attempts <= MaxAttempts
    /\ p.attempts > 0 => p.link /\ p.lead = 0 /\ ~EventDriven(p)
    /\ p.sharedLatency <= MaxSharedLatency
    /\ p.priority \in 1..MaxPriority
    /\ p.proPriority # None =>
         /\ p.proPriority \in 1..MaxPriority
         /\ p.realtime => p.proPriority <= Most(p.priority - 2, 0)
    /\ p.loopback # None => EventDriven(p) /\ p.loopback \in 1..(p.rate \div 10)

Valid(p) == ValidSizes(p) /\ ValidGuard(p) /\ ValidTuning(p)

\* direct_pro_write_reserve_frames
Reserve(p) == Least(Divided(p.period, 4), Divided(p.rate, 3000))
Handoff(p) == IF p.auto /\ EventDriven(p) THEN Most(p.period - Reserve(p), 0) ELSE p.handoff
ProPriority(p) ==
    IF ~p.realtime \/ p.priority <= 2 THEN 0 ELSE Or(p.proPriority, p.priority - 2)
SharedBuffer(p) ==
    Or(p.shared, p.period * Least(Most(Divided(p.buffer, p.period), 2), MaxSharedBuffer))

-----------------------------------------------------------------------------
(* What the engine makes of it.                                              *)

Lead(p) ==
    CASE p.link /\ p.lead = 0 -> 0
      [] p.link /\ p.lead = 1 /\ p.buffer >= p.period + HardwarePeriod(p) -> 1
      [] OTHER -> None

Loop(p) ==
    CASE Lead(p) = 0 -> IF EventDriven(p) THEN "direct" ELSE "scheduled"
      [] Lead(p) = 1 -> IF HardwarePeriod(p) < p.period THEN "packet" ELSE "ahead"
      [] OTHER -> IF p.timer THEN "timer" ELSE "split"

Queue(p) == Least(IF p.queue = None THEN p.buffer ELSE p.queue * p.period, p.buffer)
AvailMin(p) == IF EventDriven(p) \/ p.timer THEN p.period ELSE p.buffer - Queue(p) + p.period

\* linked_zero_lead_playback_floor, and the floor of the other linked loops
Floor(p) ==
    IF p.lead = 0 THEN Least(p.buffer - p.period, Guard(p) + 3 * HardwarePeriod(p)) ELSE Guard(p)

StartFrames(p) ==
    Least(p.buffer,
          CASE Loop(p) = "direct" -> p.period * Or(p.queue, 2)
            [] Loop(p) = "scheduled" -> p.period + Floor(p) + Handoff(p)
            [] Loop(p) \in {"ahead", "packet"} -> p.period + HardwarePeriod(p)
            [] Loop(p) = "timer" -> 2 * p.period
            [] OTHER -> p.buffer)

\* The loop writes when no more than this is queued.
Enough(p) ==
    CASE Loop(p) \in {"scheduled", "ahead", "packet"} -> Floor(p)
      [] Loop(p) = "timer" -> p.period
      [] OTHER -> p.buffer - AvailMin(p)

Piece(p) == IF Loop(p) = "packet" THEN HardwarePeriod(p) ELSE p.period

-----------------------------------------------------------------------------
(* What its clients are given.                                               *)

Slots == 8                      \* SHARED_SLOT_COUNT
CaptureSlots(p) == Least(Most(2 * (SharedBuffer(p) \div p.period), 4), 16)

\* plugin_buffer_size, plugin_period_size, plugin_stream_geometry and
\* minimum_plugin_buffer_size of crates/sidealsa-alsa, for a SHARED port
WholePeriods(period, frames) == period * Most(Divided(frames, period), 2)
PluginPeriod(p) ==
    LET n == WholePeriods(p.period, SharedBuffer(p)) \div p.period
        parts == {k \in 1..Most(n \div 2, 1) : n % k = 0} IN
    p.period * (CHOOSE k \in parts : \A j \in parts : j <= k)
PluginBuffer(p, direction) ==
    IF direction = "capture" THEN p.period * CaptureSlots(p)
    ELSE Most(WholePeriods(PluginPeriod(p), WholePeriods(p.period, SharedBuffer(p))), 3 * PluginPeriod(p))
PluginMinimum(p, direction) ==
    IF direction = "capture" THEN PluginBuffer(p, direction)
    ELSE Least(WholePeriods(PluginPeriod(p), Most(p.period * Most(p.sharedLatency + 1, 2),
                                                  3 * PluginPeriod(p))),
               PluginBuffer(p, direction))

-----------------------------------------------------------------------------
(* The run.                                                                  *)

Opened == [pc |-> "closed", queued |-> 0, captured |-> 0, phase |-> 0, wait |-> 0,
           got |-> 0, left |-> 0, chunk |-> 0]

Init == profile \in Profiles /\ run = Opened

\* Where a cycle begins.
Top == CASE Loop(profile) = "direct" -> "ready"
         [] Loop(profile) = "scheduled" -> "capture"
         [] Loop(profile) = "ahead" -> "client"
         [] OTHER -> "target"

Step(r) == run' = r /\ UNCHANGED profile

\* The profile validates, and the card takes it as it is.
Open ==
    /\ run.pc = "closed"
    /\ \/ Valid(profile) /\ Step([run EXCEPT !.pc = Top, !.queued = StartFrames(profile)])
       \/ Step([run EXCEPT !.pc = "refused"])

\* wait_for_linked_duplex_period, and the read; see direct_pro_cutoff_nanos.
Ready ==
    /\ run.pc = "ready"
    /\ profile.buffer - run.queued >= profile.period /\ run.captured >= profile.period
    /\ Step([run EXCEPT !.pc = "client", !.captured = @ - profile.period,
             !.wait = Least(Handoff(profile), Most(run.queued - Reserve(profile), 0))])

\* read_capture_samples; see bounded_pro_handoff_target.
Capture ==
    LET n == Least(run.captured, Piece(profile) - run.got)
        read == [run EXCEPT !.captured = @ - n, !.got = @ + n]
        whole == [read EXCEPT !.got = 0] IN
    /\ run.pc = "capture" /\ run.captured > 0
    /\ CASE read.got < Piece(profile) -> Step(read)
         [] read.got = Piece(profile) /\ Loop(profile) = "scheduled" ->
              Step([whole EXCEPT !.pc = "client",
                    !.wait = Least(Handoff(profile), Most(run.queued - profile.period, 0))])
         [] read.got = Piece(profile) /\ Loop(profile) = "ahead" ->
              Step([whole EXCEPT !.pc = "client", !.wait = Handoff(profile)])
         [] OTHER ->
              IF (run.chunk + 1) * Piece(profile) < profile.period
              THEN Step([whole EXCEPT !.pc = "target", !.chunk = @ + 1])
              ELSE Step([whole EXCEPT !.pc = "target", !.chunk = 0, !.wait = Handoff(profile)])

\* The client submits, or its time is up.
Answer ==
    /\ run.pc = "client"
    /\ Step(CASE Loop(profile) = "direct" -> [run EXCEPT !.pc = "write", !.left = profile.period, !.wait = 0]
              [] Loop(profile) = "packet" -> [run EXCEPT !.pc = "capture", !.wait = 0]
              [] OTHER -> [run EXCEPT !.pc = "target", !.wait = 0])

\* wait_for_playback_target; wait_for_transfer in a split engine.
Target ==
    /\ run.pc = "target" /\ run.queued <= Enough(profile)
    /\ Step([run EXCEPT !.pc = "write", !.left = Piece(profile)])

\* write_playback_samples: without room it waits until avail_min frames are free.
Write ==
    LET n == Least(run.left, profile.buffer - run.queued) IN
    /\ run.pc = "write"
    /\ CASE n = 0 -> Step([run EXCEPT !.pc = "room"])
         [] n > 0 /\ n < run.left -> Step([run EXCEPT !.queued = @ + n, !.left = @ - n])
         [] OTHER ->
              Step([run EXCEPT !.queued = @ + n, !.left = 0,
                    !.pc = CASE Loop(profile) = "packet" -> IF run.chunk = 0 THEN "client" ELSE "capture"
                             [] Loop(profile) = "ahead" -> "capture"
                             [] OTHER -> Top])
Room ==
    /\ run.pc = "room" /\ profile.buffer - run.queued >= AvailMin(profile)
    /\ Step([run EXCEPT !.pc = "write"])

\* A frame's time passes, while the engine has nothing to do.
Idle ==
    \/ run.pc = "ready" /\ ~(profile.buffer - run.queued >= profile.period
                             /\ run.captured >= profile.period)
    \/ run.pc = "capture" /\ run.captured = 0
    \/ run.pc = "client" /\ run.wait > 0
    \/ run.pc = "target" /\ run.queued > Enough(profile)
    \/ run.pc = "room" /\ profile.buffer - run.queued < AvailMin(profile)

Tick ==
    LET moves == run.phase + 1 = HardwarePeriod(profile)
        played == IF moves THEN HardwarePeriod(profile) ELSE 0
        later == [run EXCEPT !.phase = IF moves THEN 0 ELSE @ + 1, !.queued = @ - played,
                             !.captured = @ + played, !.wait = Most(@ - 1, 0)] IN
    /\ Idle
    /\ IF later.queued <= 0 \/ later.captured >= profile.buffer
       THEN Step([run EXCEPT !.pc = "xrun"])
       ELSE Step(IF Loop(profile) \in {"split", "timer"} THEN [later EXCEPT !.captured = 0] ELSE later)

Next == Open \/ Ready \/ Capture \/ Answer \/ Target \/ Write \/ Room \/ Tick

Spec == Init /\ [][Next]_vars

-----------------------------------------------------------------------------
TypeOK ==
    /\ profile \in Settings
    /\ run.pc \in {"closed", "refused", "ready", "capture", "client", "target", "write", "room", "xrun"}
    /\ {run.queued, run.captured, run.phase, run.wait, run.got, run.left, run.chunk} \subseteq Nat

\* The engine waits for its deadline and never for room: what it has waited to write fits
\* into the buffer, whatever valid profile it runs.  Only a split engine with timer
\* scheduling and a buffer below two periods may sleep within a write.
WritesFit ==
    run.pc \in {"write", "room"} /\ ~(Loop(profile) = "timer" /\ profile.buffer < 2 * profile.period) =>
        run.queued + run.left <= profile.buffer

\* Profiles whose queue outlasts a period, and whose client gives the output back before
\* what is left is played.  A loop that bounds the handoff itself asks for no more.
Headroom(p) ==
    CASE Loop(p) \in {"scheduled", "timer"} -> p.buffer > p.period
      [] Loop(p) = "direct" -> StartFrames(p) > p.period /\ Handoff(p) <= p.period
      [] Loop(p) = "ahead" -> Handoff(p) <= p.period
      [] Loop(p) = "packet" -> Handoff(p) <= Least(Least(Guard(p), p.period), p.buffer - p.period)
      [] OTHER -> AvailMin(p) < p.buffer

\* An engine that is never late stops neither stream, however late its client.
NeverStarves == run.pc = "xrun" => ~Headroom(profile)

\* The client and the engine agree about the loop, the client runs below both workers,
\* the SHARED target fits into the ring, and what the plugin offers to ALSA can be taken.
ClientsFit ==
    Valid(profile) =>
        /\ StagedPackets(profile) <=> Loop(profile) = "packet"
        /\ ProPriority(profile) < Most(profile.priority - 1, 1)
        /\ profile.sharedLatency < Slots
        /\ SharedBuffer(profile) % profile.period = 0
        /\ \A direction \in {"playback", "capture"} :
             LET period == PluginPeriod(profile)
                 least == PluginMinimum(profile, direction)
                 most == PluginBuffer(profile, direction) IN
             /\ least <= most /\ least >= 2 * period
             /\ period % profile.period = 0 /\ least % period = 0 /\ most % period = 0
             /\ least >= Least((profile.sharedLatency + 1) * profile.period, most)
=============================================================================
