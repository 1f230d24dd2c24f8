---------------------------- MODULE AlsaPlayback ----------------------------
(*****************************************************************************)
(* A playback PCM of the ALSA plugin: the callbacks libasound makes under the *)
(* plugin's lock (crates/sidealsa-alsa/src/plugin.c), the FIFO that cuts the  *)
(* application's writes into periods labelled with engine sequences           *)
(* (src/lib.rs) and the pointer it reports.  libasound, which moves its own   *)
(* cursors for rewind, forward and reset without a callback, is external.     *)
(*                                                                           *)
(* A frame in the FIFO is its place in what the engine plays: its ALSA index, *)
(* plus the frames hidden from the pointer when it was queued, plus those     *)
(* that writes which failed have left in the FIFO (extra).  A write that      *)
(* times out fails with what it has copied still queued, while ALSA's cursor  *)
(* stays: tried again, it queues those frames a second time.                  *)
(*****************************************************************************)
EXTENDS Naturals, Sequences, SequencesExt

CONSTANTS
    Modes,        \* "pro", "shared": the streams to consider
    P,            \* period_frames
    Buffer,       \* buffer_frames
    Latency,      \* shared_latency_periods
    MaxCycle,     \* bound: the engine runs this many cycles
    MaxFrames,    \* bound: the application moves appl_ptr no further
    MaxExtra,     \* bound: writes that time out leave no more frames queued in a run
    None          \* Option::None

PlaybackGeometry ==
    /\ P \in Nat \ {0} /\ Latency \in Nat \ {0}
    /\ Buffer % P = 0 /\ Buffer >= P

VARIABLES
    mode,     \* the stream is PRO (directional) or SHARED
    pcm,      \* libasound: [state, appl, hw, nonblock]
    seen,     \* the cursors the plugin saw last: [appl, hw]
    s,        \* SideAlsaStream, and
              \*   extra  history: frames queued by writes that timed out
    heard,    \* AudioStream.last_sequence
    engine,   \* the region: its cycle, playback and activation sequences, and a rebase
    call,     \* the callback in progress: [op, pc, left, done, full, progressed]
    sent      \* the last block submitted in this run, and whether a reset came after it

vars == <<mode, pcm, seen, s, heard, engine, call, sent>>
Pro == mode = "pro"
Size == Len(s.fifo)

NewTransfer == [fifo |-> << >>, next |-> None, cycle |-> None, last |-> None, origin |-> None,
                position |-> 0, hidden |-> 0, extra |-> 0, locked |-> 0, running |-> FALSE]
FirstCycle == [cycle |-> 1, play |-> 1, start |-> None, rebased |-> FALSE]
Idle == [op |-> "none", pc |-> "idle", left |-> 0, done |-> 0, full |-> FALSE, progressed |-> FALSE]

Init ==
    /\ mode \in Modes
    /\ pcm = [state |-> "setup", appl |-> 0, hw |-> 0, nonblock |-> FALSE]
    /\ seen = [appl |-> 0, hw |-> 0]
    /\ s = NewTransfer /\ heard = None /\ sent = None
    /\ engine = FirstCycle
    /\ call = Idle

\* Truncated subtraction (saturating_sub).
Minus(a, b) == IF a > b THEN a - b ELSE 0
Least(a, b) == IF a < b THEN a ELSE b
Run(from, n) == [i \in 1 .. n |-> from + i - 1]

-----------------------------------------------------------------------------
(* Labels: which engine sequence the next queued period gets.                 *)

Newest(observed) == IF Pro THEN observed ELSE observed + 1
LatestPublishable(observed) == observed + 1
Earliest(observed) == IF Pro THEN observed ELSE Minus(observed + 1, Latency)

\* The label, and how many periods of the queue are too late for it.
Plan(observed) ==
    LET aligned == Minus(Newest(observed) + 1, Size \div P)
        first == IF s.next # None THEN s.next
                 ELSE IF aligned < Earliest(observed) THEN Earliest(observed) ELSE aligned
        floor == IF Pro /\ engine.play > Earliest(observed) THEN engine.play
                 ELSE Earliest(observed)
    IN  IF first < floor THEN [sequence |-> floor, expired |-> floor - first]
        ELSE [sequence |-> first, expired |-> 0]

\* mutant: every block is over as soon as its cycle is observed
ConsumedAtOnce(label, observed) == observed >= label

Consumed(label, observed) == observed >= label + (IF Pro THEN 1 ELSE Latency)

Cleared(t) == [t EXCEPT !.fifo = << >>, !.locked = 0, !.next = None, !.cycle = None, !.last = None]

Discard(t, periods) ==
    [t EXCEPT !.fifo = SubSeq(@, Least(periods * P, Len(@)) + 1, Len(@)),
              !.locked = Minus(@, periods * P)]

\* mutant: the padding is counted by the pointer
PaddedInSight(t) ==
    LET pad == (P - (Len(t.fifo) % P)) % P IN
    IF pad = 0 THEN t
    ELSE [t EXCEPT !.fifo = @ \o Run(Last(@) + 1, pad), !.locked = Len(t.fifo) + pad]

\* pad_final_playback_period; the silence is hidden from the pointer.
Padded(t) ==
    LET pad == (P - (Len(t.fifo) % P)) % P IN
    IF pad = 0 THEN t
    ELSE [t EXCEPT !.fifo = @ \o Run(Last(@) + 1, pad), !.hidden = @ + pad,
                   !.locked = Len(t.fifo) + pad]

-----------------------------------------------------------------------------
(* The pointer.                                                              *)

RunningPosition ==
    IF Pro THEN IF s.origin # None /\ engine.play >= s.origin
                THEN (engine.play - s.origin) * P ELSE s.position
    ELSE IF engine.start # None /\ engine.cycle >= engine.start
         THEN (engine.cycle - engine.start) * P
         ELSE s.position

Position == IF s.running THEN Minus(RunningPosition, s.hidden) ELSE s.position

-----------------------------------------------------------------------------
(* libasound moves its cursors without telling the plugin.                    *)

Quiet == call.pc = "idle"
SeenNow == [appl |-> pcm.appl, hw |-> pcm.hw]
Keep == UNCHANGED <<mode, seen, s, heard, engine, call, sent>>

Rewind(n) ==
    /\ Quiet /\ pcm.state \in {"prepared", "running"} /\ pcm.hw = seen.hw
    /\ pcm.appl >= pcm.hw + n
    /\ pcm' = [pcm EXCEPT !.appl = @ - n] /\ Keep

Forward(n) ==
    /\ Quiet /\ pcm.state \in {"prepared", "running"} /\ pcm.hw = seen.hw
    /\ pcm.appl + n <= pcm.hw + Buffer /\ pcm.appl + n <= MaxFrames
    /\ pcm' = [pcm EXCEPT !.appl = @ + n] /\ Keep

Reset ==
    /\ Quiet /\ pcm.state \in {"prepared", "running"} /\ SeenNow = seen
    /\ pcm' = [pcm EXCEPT !.appl = 0, !.hw = 0] /\ Keep

-----------------------------------------------------------------------------
(* sidealsa_playback_sync: the moves are applied before the next callback.    *)

Moved == IF pcm.hw # seen.hw THEN "reset"
         ELSE IF pcm.appl > seen.appl THEN "forward"
         ELSE IF pcm.appl < seen.appl THEN "rewind" ELSE "no"

Rewound(n) == [s EXCEPT !.fifo = SubSeq(@, 1, Len(@) - n)]

ResetPlayback ==
    LET submitted == Minus(Minus(seen.appl, seen.hw), Size)
        dropped == [s EXCEPT !.fifo = << >>, !.locked = 0]
    IN  IF s.running THEN [dropped EXCEPT !.hidden = RunningPosition + submitted]
        ELSE [dropped EXCEPT !.position = 0, !.hidden = 0]

Synced ==
    CASE Moved = "reset" -> ResetPlayback
      [] Moved = "forward" ->
           [s EXCEPT !.fifo = @ \o Run(seen.appl + s.hidden + s.extra, pcm.appl - seen.appl)]
      [] Moved = "rewind" -> Rewound(seen.appl - pcm.appl)
      [] OTHER -> s

\* What every callback does first when the moves can be applied.
Sync ==
    /\ s' = Synced /\ seen' = SeenNow
    /\ sent' = IF Moved = "reset" /\ sent # None THEN [sent EXCEPT !.reset = TRUE] ELSE sent

SyncFails ==
    \/ Moved = "forward" /\ Size + pcm.appl - seen.appl > Buffer
    \/ Moved = "rewind" /\ seen.appl - pcm.appl > Minus(Size, s.locked)

\* A move that cannot be applied is an XRUN; a rewind into sent audio also
\* empties the FIFO.
SyncXrun ==
    /\ SyncFails
    /\ s' = IF Moved = "rewind" THEN Cleared(s) ELSE s
    /\ seen' = SeenNow
    /\ pcm' = [pcm EXCEPT !.state = "xrun"]
    /\ UNCHANGED <<mode, heard, engine, call, sent>>

-----------------------------------------------------------------------------
(* The callbacks.                                                            *)

Stopped(position) == [NewTransfer EXCEPT !.position = position]

\* No label of the run is kept, so the sequences of the next one may begin again.
Forget == heard' = None /\ sent' = None /\ engine' = FirstCycle

\* snd_pcm_prepare: libasound resets its cursors, then calls the plugin.
Prepare ==
    /\ Quiet
    /\ \E nonblock \in BOOLEAN :
         pcm' = [state |-> "prepared", appl |-> 0, hw |-> 0, nonblock |-> nonblock]
    /\ seen' = [appl |-> 0, hw |-> 0]
    /\ s' = NewTransfer /\ Forget
    /\ UNCHANGED <<mode, call>>

\* snd_pcm_drop, and the end of a drain.
Drop ==
    /\ (Quiet /\ pcm.state \in {"prepared", "running", "draining"}) \/ call.pc = "drained"
    /\ pcm' = [pcm EXCEPT !.state = "setup"]
    /\ s' = Stopped(Position) /\ Forget /\ call' = Idle
    /\ UNCHANGED <<mode, seen>>

\* START is acknowledged; a partial period in the FIFO is padded and what can be
\* published is.
Began(op, t) ==
    /\ s' = [IF Len(t.fifo) < P THEN Padded(t) ELSE t EXCEPT !.position = 0]
    /\ call' = [Idle EXCEPT !.op = op, !.pc = "flush"]

Start ==
    /\ Quiet /\ pcm.state = "prepared" /\ SeenNow = seen
    /\ Began("start", s)
    /\ UNCHANGED <<mode, pcm, seen, heard, engine, sent>>

\* The application writes n frames into the space ALSA reports.
Write(n) ==
    /\ Quiet /\ pcm.state \in {"prepared", "running"}
    /\ pcm.appl + n <= MaxFrames /\ pcm.appl + n <= pcm.hw + Buffer
    /\ IF SyncFails THEN SyncXrun
       ELSE /\ Sync
            /\ call' = [Idle EXCEPT !.op = "write", !.pc = "copy", !.left = n]
            /\ UNCHANGED <<mode, pcm, heard, engine>>

\* snd_pcm_avail, status and poll ask for the pointer.
Pointer ==
    /\ Quiet /\ pcm.state \in {"prepared", "running", "draining"}
    /\ IF SyncFails THEN SyncXrun
       ELSE /\ Sync
            /\ call' = [Idle EXCEPT !.op = "pointer",
                                    !.pc = IF Pro /\ s.running THEN "flush" ELSE "report"]
            /\ UNCHANGED <<mode, pcm, heard, engine>>

\* A drain starts a stream that was only prepared, then pads the last period.
Drain ==
    /\ Quiet /\ pcm.state \in {"prepared", "running", "draining"} /\ SeenNow = seen
    /\ pcm' = [pcm EXCEPT !.state = "draining"]
    /\ IF s.running
       THEN call' = [Idle EXCEPT !.op = "drain", !.pc = "pad"] /\ UNCHANGED s
       ELSE Began("begin", s)
    /\ UNCHANGED <<mode, seen, heard, engine, sent>>

-----------------------------------------------------------------------------
(* flush_playback_blocks: one observation and one period at a time.           *)

\* A PRO stream waits for a cycle only while its FIFO is full.
Nonblock == pcm.nonblock \/ (Pro /\ ~call.full /\ call.op # "drain")

\* What a flush returns to: the copy loop, the report, the drain, or the caller;
\* libasound advances appl_ptr by what a write accepted.
FlushReturns ==
    IF \/ call.op = "write" /\ IF call.full THEN ~call.progressed ELSE call.left = 0
       \/ call.op = "start"
    THEN /\ call' = Idle
         /\ pcm' = [pcm EXCEPT !.appl = @ + call.done,
                               !.state = IF call.op = "start" THEN "running" ELSE @]
         /\ seen' = [seen EXCEPT !.appl = @ + call.done]
    ELSE /\ call' = CASE call.op = "write" -> [call EXCEPT !.pc = "copy"]
                      [] call.op = "pointer" -> [call EXCEPT !.pc = "report"]
                      [] call.op = "drain" -> [call EXCEPT !.pc = "drain"]
                      [] call.op = "begin" -> [call EXCEPT !.op = "drain", !.pc = "pad"]
         /\ UNCHANGED <<pcm, seen>>
Running == s.running \/ call.op \in {"start", "begin"}

\* The call fails with EPIPE; a failing start also stops the stream again.
Fails(t) ==
    /\ pcm' = [pcm EXCEPT !.state = "xrun"] /\ call' = Idle
    /\ IF call.op \in {"start", "begin"} THEN s' = NewTransfer /\ Forget
       ELSE s' = t /\ UNCHANGED <<heard, engine, sent>>
    /\ UNCHANGED <<mode, seen>>

Flushing == call.pc = "flush"

\* A cycle observed earlier is used again while it is current and its labels fit.
Reuses == s.cycle = engine.cycle /\ s.next # None /\ s.next <= LatestPublishable(s.cycle)

\* wait_period and wait_pro_playback_period have a cycle for this stream.
CycleReady ==
    /\ engine.start # None /\ heard # engine.cycle
    /\ Pro => /\ engine.start < engine.cycle
              /\ heard # None \/ engine.cycle >= engine.play

\* Less than a period is queued, or no cycle is ready and the stream may not wait.
FlushEnds ==
    /\ Flushing
    /\ Size < P \/ (~Reuses /\ ~CycleReady /\ Nonblock)
    /\ s' = [s EXCEPT !.running = Running]
    /\ FlushReturns
    /\ UNCHANGED <<mode, heard, engine, sent>>

Observe ==
    /\ Flushing /\ Size >= P
    /\ \/ Reuses /\ UNCHANGED <<s, heard>>
       \/ /\ ~Reuses /\ CycleReady
          /\ heard' = engine.cycle
          /\ s' = [s EXCEPT !.cycle = engine.cycle]
    /\ call' = [call EXCEPT !.pc = "publish"]
    /\ UNCHANGED <<mode, pcm, seen, engine, sent>>

\* mutant: the labels restart at the newest cycle when everything queued is late
ExpiredRealigns ==
    LET plan == Plan(s.cycle) IN
    /\ call.pc = "publish" /\ plan.expired > 0
    /\ IF Pro THEN Fails([Discard(s, plan.expired) EXCEPT !.next = plan.sequence])
       ELSE /\ s' = [Discard(s, plan.expired) EXCEPT !.next = plan.sequence]
            /\ call' = [call EXCEPT !.pc = "flush", !.progressed = TRUE]
            /\ UNCHANGED <<mode, pcm, seen, heard, engine, sent>>

\* A period too late for its label: an XRUN for PRO; SHARED drops what is too late
\* and keeps the labels of the rest.
Expired ==
    LET plan == Plan(s.cycle)
        dropped == Least(plan.expired, Size \div P)
    IN  /\ call.pc = "publish" /\ plan.expired > 0
        /\ IF Pro THEN Fails([Discard(s, plan.expired) EXCEPT !.next = plan.sequence])
           ELSE /\ s' = [Discard(s, plan.expired)
                            EXCEPT !.next = Minus(plan.sequence + dropped, plan.expired)]
                /\ call' = [call EXCEPT !.pc = "flush", !.progressed = TRUE]
                /\ UNCHANGED <<mode, pcm, seen, heard, engine, sent>>

\* The label is more than one cycle ahead: wait for the next cycle.
TooEarly ==
    LET plan == Plan(s.cycle) IN
    /\ call.pc = "publish" /\ plan.expired = 0
    /\ plan.sequence > LatestPublishable(s.cycle)
    /\ s' = [s EXCEPT !.next = plan.sequence, !.cycle = None]
    /\ call' = [call EXCEPT !.pc = "flush"]
    /\ UNCHANGED <<mode, pcm, seen, heard, engine, sent>>

Publish ==
    LET plan == Plan(s.cycle) IN
    /\ call.pc = "publish" /\ plan.expired = 0
    /\ plan.sequence <= LatestPublishable(s.cycle)
    /\ sent' = [label |-> plan.sequence, frames |-> SubSeq(s.fifo, 1, P), reset |-> FALSE]
    /\ s' = [Discard(s, 1) EXCEPT !.next = plan.sequence + 1, !.last = plan.sequence,
                 !.origin = IF Pro /\ @ = None THEN plan.sequence ELSE @,
                 !.position = IF Pro THEN @ ELSE Minus(plan.sequence, engine.start) * P]
    /\ call' = [call EXCEPT !.pc = "flush", !.progressed = TRUE]
    /\ UNCHANGED <<mode, pcm, seen, heard, engine>>

\* The daemon still holds every slot of the ring.
RingFull ==
    LET plan == Plan(s.cycle) IN
    /\ call.pc = "publish" /\ plan.expired = 0
    /\ plan.sequence <= LatestPublishable(s.cycle)
    /\ s' = [s EXCEPT !.next = plan.sequence, !.cycle = None,
                      !.running = Running]
    /\ FlushReturns
    /\ UNCHANGED <<mode, heard, engine, sent>>

\* The engine has passed the last label, as far as the stream has observed.
Passed == s.last = None \/ (s.cycle # None /\ Consumed(s.last, s.cycle))

\* wait_period: for a flush, and at the end of a drain.
Waits == (Flushing /\ Size >= P /\ ~Reuses) \/ (call.pc = "drain" /\ Size < P /\ ~Passed)

\* Every wait first looks for a restart of the hardware, which ends a PRO run.
Discontinuity == Pro /\ engine.rebased /\ Waits /\ Fails(s)

\* Ten blocking waits of a second have passed without a cycle: EIO, which changes
\* neither the PCM's state nor its cursors, and leaves what a write has copied in the
\* FIFO.  A start that fails stops the stream again.
TimesOut ==
    /\ Waits /\ ~CycleReady /\ ~Nonblock
    /\ call' = Idle
    /\ IF call.op \in {"start", "begin"} THEN s' = NewTransfer /\ Forget
       ELSE /\ s.extra + call.done <= MaxExtra
            /\ s' = [s EXCEPT !.extra = @ + call.done] /\ UNCHANGED <<heard, engine, sent>>
    /\ UNCHANGED <<mode, pcm, seen>>

-----------------------------------------------------------------------------
(* The rest of the callbacks.                                                *)

\* transfer_playback: copy what fits and flush; before START only copy.
Copy ==
    LET n == Least(call.left, Buffer - Size) IN
    /\ call.pc = "copy"
    /\ IF n = 0 /\ s.running
       THEN /\ call' = [call EXCEPT !.pc = "flush", !.full = TRUE, !.progressed = FALSE]
            /\ UNCHANGED <<pcm, seen, s>>
       ELSE /\ s' = [s EXCEPT !.fifo = @ \o Run(pcm.appl + call.done + s.hidden + s.extra, n)]
            /\ IF s.running
               THEN /\ call' = [call EXCEPT !.pc = "flush", !.full = FALSE,
                                            !.left = @ - n, !.done = @ + n]
                    /\ UNCHANGED <<pcm, seen>>
               ELSE /\ call' = Idle
                    /\ pcm' = [pcm EXCEPT !.appl = @ + n]
                    /\ seen' = [seen EXCEPT !.appl = pcm.appl + n]
    /\ UNCHANGED <<mode, heard, engine, sent>>

\* A pointer that has passed the application's cursor is an XRUN.
Report ==
    /\ call.pc = "report"
    /\ IF pcm.state = "running" /\ Position > pcm.appl
       THEN pcm' = [pcm EXCEPT !.state = "xrun"] /\ UNCHANGED seen
       ELSE /\ pcm' = [pcm EXCEPT !.hw = Position]
            /\ seen' = [seen EXCEPT !.hw = Position]
    /\ call' = Idle
    /\ UNCHANGED <<mode, s, heard, engine, sent>>

\* drain: the last period is padded, the FIFO flushed until no period is left, and
\* the engine awaited until it has passed the last label.
DrainPads ==
    /\ call.pc = "pad"
    /\ s' = Padded(s)
    /\ call' = [call EXCEPT !.pc = "flush", !.progressed = FALSE]
    /\ UNCHANGED <<mode, pcm, seen, heard, engine, sent>>

DrainFlushes ==
    /\ call.pc = "drain" /\ Size >= P
    /\ call' = IF pcm.nonblock /\ ~call.progressed THEN Idle        \* EAGAIN
               ELSE [call EXCEPT !.pc = "flush", !.progressed = FALSE]
    /\ UNCHANGED <<mode, pcm, seen, s, heard, engine, sent>>

DrainWaits ==
    /\ call.pc = "drain" /\ Size < P
    /\ IF Passed
       THEN call' = [call EXCEPT !.pc = "drained"] /\ UNCHANGED <<s, heard>>
       ELSE IF CycleReady
       THEN /\ heard' = engine.cycle
            /\ s' = [s EXCEPT !.cycle = engine.cycle]
            /\ UNCHANGED call
       ELSE pcm.nonblock /\ call' = Idle /\ UNCHANGED <<s, heard>>
    /\ UNCHANGED <<mode, pcm, seen, engine, sent>>

-----------------------------------------------------------------------------
(* The engine: a cycle publishes capture, then takes the playback labelled so. *)

Tick ==
    /\ Running /\ engine.cycle < MaxCycle
    /\ Pro => engine.play = engine.cycle + 1
    /\ engine' = [engine EXCEPT !.cycle = @ + 1]
    /\ UNCHANGED <<mode, pcm, seen, s, heard, call, sent>>

Take ==
    /\ Pro /\ engine.play = engine.cycle
    /\ engine' = [engine EXCEPT !.play = @ + 1]
    /\ UNCHANGED <<mode, pcm, seen, s, heard, call, sent>>

\* The first cycle after START activates the session.
Activate ==
    /\ Running /\ engine.start = None
    /\ engine' = [engine EXCEPT !.start = engine.cycle]
    /\ UNCHANGED <<mode, pcm, seen, s, heard, call, sent>>

\* A restart of the hardware; SHARED sequences continue, and the next wait only
\* forgets which cycle it returned last.
Rebase ==
    /\ Running /\ ~engine.rebased
    /\ engine' = [engine EXCEPT !.rebased = TRUE]
    /\ heard' = IF Pro THEN heard ELSE None
    /\ UNCHANGED <<mode, pcm, seen, s, call, sent>>

-----------------------------------------------------------------------------
Application ==
    \/ Prepare \/ Drop \/ Start \/ Pointer \/ Drain \/ Reset
    \/ \E n \in 1 .. Buffer : Write(n) \/ Rewind(n) \/ Forward(n)

Plugin ==
    \/ FlushEnds \/ Observe \/ Expired \/ TooEarly \/ Publish \/ RingFull \/ Discontinuity
    \/ TimesOut
    \/ Copy \/ Report \/ DrainPads \/ DrainFlushes \/ DrainWaits

Next == Application \/ Plugin \/ Tick \/ Take \/ Activate \/ Rebase

Spec == Init /\ [][Next]_vars

-----------------------------------------------------------------------------
TypeOK ==
    /\ mode \in Modes
    /\ Size <= Buffer /\ s.locked <= Size
    /\ call.pc \in {"idle", "copy", "flush", "publish", "report", "pad", "drain", "drained"}

\* The FIFO holds what libasound believes is queued last, in order and once: no
\* rewind, forward, reset, padding or partial write leaves it out of step with
\* appl_ptr (plugin.c:54-58, "instead of silently desynchronising"), but for the
\* frames of writes that timed out, by which it is out of step until the stream is
\* prepared again (lib.rs:717-753 returns the error and keeps them).
FifoFollowsAlsa ==
    pcm.state \in {"prepared", "running", "draining"} /\ s.fifo # << >> =>
        /\ \A i \in 1 .. Size - 1 : s.fifo[i + 1] = s.fifo[i] + 1
        /\ Last(s.fifo) + 1 = seen.appl + call.done + s.hidden + s.extra

\* The pointer of a PRO stream never counts a frame the engine has not taken: the
\* frame at place f carries a label the engine passes no later than the pointer gets
\* to f.  After a write that timed out it counts an ALSA index up to extra frames
\* before the engine has taken that one, and no more than that.
PointerIsSafe ==
    Pro /\ sent # None /\ pcm.state \in {"running", "draining"} =>
        (sent.label - s.origin) * P <= sent.frames[1]

\* Within a run, up to a reset, the distance between a frame's label and its place
\* never grows: audio that is padded, rewound, skipped or expires adds no latency to
\* what comes after it.  Between periods with consecutive labels, and in a PRO stream
\* always, it stays what it was.  Counted from its ALSA index a frame waits longer
\* after a write that timed out: by extra, the frames that are in its way.
Delay(block) == block.label * P - block.frames[1]
LatencyIsKept ==
    [][sent # None /\ sent' # None /\ ~sent.reset =>
         /\ Delay(sent') <= Delay(sent)
         /\ Pro \/ sent'.label = sent.label + 1 => Delay(sent') = Delay(sent)]_sent

\* A drain that succeeds has left nothing in the FIFO, and the engine has passed
\* the last period that was submitted.
DrainIsComplete ==
    call.pc = "drained" =>
        /\ s.fifo = << >>
        /\ sent # None => IF Pro THEN engine.play > sent.label
                          ELSE engine.cycle >= sent.label + Latency

=============================================================================
