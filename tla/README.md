# A verification of SideALSA

SideALSA shares one audio device between one low-latency PRO client and
several SHARED clients.  A daemon owns the device; clients exchange audio with
it through shared memory, are woken by eventfds, and are started and stopped
over a control socket.  ALSA applications reach it through a plugin, Windows
programs through an ASIO driver under Wine, and an administrator changes its
timing while it runs.  This directory models the parts whose correctness
depends on what several threads, processes and calls do in which order, checks
them with TLC and proves the central ones with TLAPS.

Paths below are relative to the repository; `state.rs`, `control.rs`, `main.rs`,
`diagnostics.rs` and `daemon/shared.rs` are in `crates/sidealsa-daemon/src`,
`engine.rs` and `timeline.rs` in `crates/sidealsa-core/src`, `shared.rs` and
`lib.rs` in `crates/sidealsa-client/src`.

## The system

| Part | State it keeps | Operations | Interacts with |
|---|---|---|---|
| **Endpoint slot** (`state.rs`, `EndpointSlot`) | pointer to the published endpoint, reader epoch, two activity counters | `load`, `replace`, `wait_for_idle`, guards | hardware threads read it in every cycle, control threads replace it |
| **Commit barrier** (`PlaybackCommitBarrier`) | two wrapping counters | `begin`, `end`, `wait_for_preexisting` | hardware thread commits, control threads wait |
| **Session** (`SessionState`) | owner, active, armed, outage, lifecycle generation, playback epoch | open, start, stop, close | control threads against all hardware threads |
| **PRO ownership** (`DaemonState`) | `pro_ownership`, `pro_pair_start` | open_pro, open_pro_direction, start, start_pro_aligned, stop, close | control threads; `activate_pair` of the capture thread |
| **Bridges** (`DaemonCaptureBridge`, `DaemonPlaybackBridge`, `SharedAudioPortBridge`) | what the last cycle left: prepared block, last valid block, repeats | the callbacks of a cycle | engine, endpoint, timeline |
| **Engine** (`engine.rs`) | the PCM pair, workers, start gate, calibration | start, five cycle loops, recovery, qualification, stop | ALSA, the bridges |
| **Slot ring** (`shared.rs`) | slots FREE, WRITING, READY, READING with a sequence each | publish, consume, scan, reclaim, reset | one producer and one consumer in different processes |
| **Client stream** (`lib.rs`) | last sequence, generations, indices, control socket | start, stop, wait, acquire, submit, fork, drop | ring, eventfds, control socket |
| **Control** (`control.rs`) | one session per connection, slots per uid, the socket file | accept, HELLO, OPEN, START, STOP, CLOSE, leave | `DaemonState`, clients |
| **Daemon process** (`main.rs`, `packaging/sidealsad.service.in`) | main, hardware and listener threads, exit code | start-up, signals, shutdown | card, socket, systemd |
| **Records** (`timeline.rs`, `diagnostics.rs`, ASIO position) | an epoch or label and fields | record, read | writers never wait for readers |
| **ALSA plugin** (`crates/sidealsa-alsa`) | FIFO, labels, pointer offsets, scratch block | the callbacks of an ioplug | client stream, libasound |
| **ASIO driver** (`crates/sidealsa-asio`) | driver state, worker, gate, stop signal | the calls of a host, its callbacks, deferred release | client stream, Wine |
| **Profile** (`crates/sidealsa-config`) | the settings of a device and what follows from them | validate, merge a timing | engine, clients, administration |
| **Administration** (`crates/sidealsa-admin`) | lock, revision, original text | show, apply with rollback | profile file, systemd, control socket |
| **Link refresh** (`sidealsa-reconnect`) | plan, removed links, attempts | watch, take down, put up | control socket, PipeWire |

What is hard here: control threads change a session while hardware threads are
in the middle of a cycle and may not be blocked (epochs, activity counters and
a wrapping barrier instead of locks); counters wrap; shared memory is scanned
while the other side publishes; eventfds are hints that are cleared and raised
around a look at the ring; a recovery changes the hardware generation under
everybody; a host stops the driver inside the driver's own callback; libasound
moves its cursors without telling the plugin; a request times out and its answer
comes later; an apply crashes between replacing the profile and restarting the
service; PipeWire reuses ids.  `PROJECT.json` lists each of these hazards at its
line.

What makes each part correct:

* a reader never uses a freed endpoint, and a replacement never waits forever;
* STOP and CLOSE return only when no sample of the session can still reach the
  device, and they do return;
* a slot is never written while it is read, a block is played in the cycle it
  was submitted for or not at all, and stale blocks do not fill the ring;
* the device belongs to one process, and nobody's ownership outlives its
  connection; both halves of a pair start in one cycle, and no request is lost;
* no wake is lost;
* what is repeated for a missing block was heard just before, under the same
  lifecycle and the same hardware, and an interruption is counted once;
* `hardware_ready` is published for streams that were qualified, a restart keeps
  the round trip and leaves no old capture behind, and an engine that is to end ends;
* both ends of a control connection agree on the session, and its slot comes back;
* a host that was told so is not called again, and its release frees the driver;
* an ALSA application hears and reads its frames in order, and once unless it repeats a
  write that timed out, and the pointer never passes what the engine took or captured;
* no reader of a record returns a mixture of two;
* the service comes back while systemd is to restart it, and a daemon does not remove
  the socket that another one serves;
* what an apply reports is so, and its user's text is the one it replaces;
* a refresh puts up what it took down, and overrides nobody's choice;
* every profile that validates can be run: what is written fits into the buffer.

## Modules

| Module | Models | Notes |
|---|---|---|
| `GracePeriod` | what `EndpointSlot` promises | abstract: an object is freed only when every reader that might hold it left |
| `EndpointSlot` | `EndpointSlot`, its readers and the session operations that replace the endpoint | implements `GracePeriod` |
| `CommitWait` | what the barrier promises | abstract: a wait ends when the commit that was open at its look has ended |
| `CommitBarrier` | the counters of `PlaybackCommitBarrier` | implements `CommitWait`; `WrappingSequence` is `sequence_order` |
| `SessionLifecycle` | `SessionState` against the cycles of the engine | one step per shared access; the cycle loops are the values of `mode` |
| `BlockChannel` | what a ring promises | abstract: blocks are delivered unaltered, at most once |
| `SlotRing` | `SharedRegion`'s rings | implements `BlockChannel` |
| `ProPair` | ownership of the PRO device and `activate_pair` | control threads serialised by `pro_ownership`, the capture thread lock-free |
| `CycleWake` | the event-driven cycle and the client's waits | sequences by age |
| `PlaybackFallback` | what a cycle plays of a SHARED port or of the PRO stream when the block is there, and when it is not | `prepare_playback`, `commit_prepared`, `process_pro_playback`, `ProPlaybackGate` |
| `SplitWorkers` | `run_split_workers` and its two workers | the start gate, both loops, recovery, ProClock, clean-up |
| `LinkedEngine` | `run_pro_linked`: qualification, the direct, handoff, ahead and packet loops, restarts | one thread, two linked PCMs; frames in hardware periods |
| `FrameBudget` | validation of a device, the sizes derived from it, and the queue of every loop | frames one by one |
| `ControlConnection` | the listener, one handler per connection, and the client that asks | a client that times out, forks, is dropped or killed; a program without the library |
| `DaemonProcess` | the daemon's threads, its socket file, its unit | several daemons of one card |
| `AlsaPlayback`, `AlsaCapture` | the two directions of the ALSA plugin | libasound's cursors are external |
| `AsioDriver` | the host's calls, the worker thread, the deferred release | sequences relative to the engine |
| `Snapshots` | the four records that are read without a lock | the kind of a record is a variable |
| `ProfileApply` | `sidealsa-admin apply` against systemd, editors, crashes and power losses | texts are timing and rest |
| `LinkRefresh` | `sidealsa-reconnect` against a graph that changes | serial numbers, reused ids, the cookie |

`MC*.tla` give the constants their values.  `MCBridges`, `MCCycles`, `MCWorkers`,
`MCControl` and `MCStreams` hold several modules, of which a behaviour runs one:
the first step belongs to the part that `part` (`program`) names, all later ones
too, the other parts' variables stand still, and an invariant asks of the part
that runs.  Fairness is each module's own.  `*Proofs.tla` hold the theorems.
Every operator that a comment calls a mutant is a plausible bug in the definition
beside it, kept to show that the property it breaks depends on that definition.

### How they correspond to the code

* **Steps.** An access to a variable another thread writes is a step of its own,
  except where accesses that cannot be told apart are joined, which the comment of
  the action says.  Thread-local work is part of the step before it.  Atomics are
  modelled as sequentially consistent; the code uses SeqCst where the order of
  accesses to different variables matters (epochs, `active`, the barrier), and
  release/acquire pairs elsewhere.  In `Snapshots` the fields are relaxed and come in
  any order between the accesses of the epoch, where the fences keep them.
* **Endpoint guards.** `SessionLifecycle`, `ProPair` and `CycleWake` use what
  `EndpointSlot` is shown to provide: a drain waits for the guards taken before it.
* **Commit barrier.** `SessionLifecycle` holds the commit as one flag and lets a
  waiting operation go on when the commit that was open at its look has ended: this
  is `CommitWait`, which `CommitBarrier` implements for counters of any range.
* **Slots.** In `SlotRing` every slot visit is one step: the state of a slot is one
  atomic, its sequence is only read in states where nobody writes it.  Sequences
  are integers modulo `2 * Half`; `Half` stands for 2^63, and `InReach` limits how
  far apart live blocks are, which in the code is the number of slots.  `ring` says
  which of the two rings a behaviour is about; both have the same slots.
* **Cycle loops.** The split mode prepares and commits port after port; the model
  prepares all and then commits all, which is the same with the one port the runs
  have.  Capture runs beside playback in every mode, although the linked loops run
  both on one thread: this only adds interleavings.
* **ProPair.** A region is its activation and its client state; the activation's
  CLAIMED state is left out because only the capture thread claims; of the drains
  only the capture guards matter; a refusal changes nothing but `next_session`.
  `peer` is the process behind a connection, and `MaxEvents` bounds the STARTs and
  recoveries of a behaviour together.
* **CycleWake.** A sequence is how many cycles it is old, with `Old` and older taken
  together; the time-out of a client's wait is left out on purpose, so that a lost
  wake shows as a client that sleeps; a deadline of the hardware's wait may pass at
  any moment.  A slot is free or holds a READY block of some age; the states between, and
  which free slot is taken, are `SlotRing`'s.
* **PlaybackFallback.** One stream, SHARED or PRO, and one hardware thread.  A block
  is known by the cycle it is for; the late and the early ones are `SlotRing`'s.  A
  drain waits for the guard that was held when it began; the commit barrier is left
  out, so the model has every behaviour of the code and some that the barrier
  excludes.  Warm-up counts and statistics are left out, and `repeat_on_underrun` is
  on.  `scratch` and `heard` are history.
* **SplitWorkers.** Sequences are kept relative: how far capture is ahead of the
  period playback writes next, 0 when it is behind, since `take_pro_capture_sequence`
  then jumps forward.  A read and the sequence it takes are one step, and so are the
  load and the store of `realign_playback_after_recovery`.  Without a period limit.
* **LinkedEngine.** A restart is one step; one that fails goes to the clean-up.  When
  the latency guard asks for a rebase is a free choice, and so is what a probe of the
  loopback measures, in hardware periods along one of `Paths`.  `pcm_drop` may fail
  only in `DuplexEngine::stop`.  `trip` is history: what the last start queued.
* **FrameBudget.** The engine is never late and the client uses the time it is given,
  or less.  Handoffs are counted in frames and pointers move by a hardware period.
  What the model says of starvation is for profiles with `Headroom`: a profile whose
  buffer is one period, or whose handoff is longer than a period, validates and
  cannot keep its streams running, which the code leaves to the user.
* **ControlConnection.** A session carries the name of the connection that opened it;
  a second one on the same connection, which a child and its parent may open, carries
  the same name.  `get_info` and `get_stats` do not poison a connection whose answer
  timed out, as every request of a stream does.  A child that is forked from a stream
  is refused every call and closes nothing.  One that is forked from a client, before
  OPEN, goes on as a client of its own on the shared socket: only
  `open_pro_direction` asks who made the connection (`lib.rs:283`).  It may ask, open,
  start and close; each of the two takes whatever answer comes next, or parts of one.
  `used` is history: a child has asked something.  What both ends agree on is claimed
  of the connections that no child has used (`Unshared`); the rest of `EndsAgree`, slots
  and sessions held by their threads, of all.  The children of raw programs are part of
  what those send.  A connection without a session keeps its slot as long as it sends
  requests.
* **DaemonProcess.** A card opens for one process at a time.  Reading arguments and
  profile is one step that may fail.  Each system call of a listener on the path is a
  step: the look, the connection attempt, the removal of a stale file, bind, listen,
  the metadata, the comparison and the removal.  The listener remembers the file that
  is at the path when it asks for the metadata (`control.rs:103`), which may be another
  daemon's by then; `kept` says that the file at the path is the one it remembers.  A
  file that is gone is nobody's any more: the model gives no inode number out again.
  Somebody may remove the file at any moment.  Nothing keeps the listeners of two
  daemons apart that start or end together, so a socket in use may be taken away;
  `SocketsStand` is about a listener that began to listen while no other one was
  `Unsettled` (`alone`, history).
* **ALSA plugin.** A frame in the FIFO is the place at which it is due: its ALSA index,
  plus what was hidden from the pointer, plus `extra`.  That is history: the frames that
  writes which timed out have left queued.  Such a write returns EIO, with which the
  PCM stays in its state and ALSA's cursor where it was, while what it has copied stays
  in the FIFO (`alsa/src/lib.rs:747`, `plugin.c:68`); tried again it queues those frames
  a second time.  `FifoFollowsAlsa`, `PlayedIsTaken` and `LatencyIsKept` hold of places:
  the FIFO is out of step with ALSA by `extra` and nothing else, and counted from its
  ALSA index a frame is heard so much later.  `MaxExtra` bounds it per run.  The
  engine takes a period per cycle.  libasound's rewind, forward and reset move its
  cursor only; at most one reset comes between two callbacks, and a reset starts from
  the pointer last reported.  The boundary at which ALSA's pointers wrap is left out.
  Capture is the SHARED path; PRO capture of a duplex stream that is not split
  (`alsa/src/lib.rs:971`) is not modelled.
* **AsioDriver.** A block is pending until the engine has passed it and taken after.
  The calls of a host hold the lifecycle mutex as in the code; `asio_deferred_release`
  is a caller of its own, which retries.
* **ProfileApply.** Different texts have different hashes.  One round of
  `wait_until_ready` is one step, and a process id the run remembers is not given
  again.  A run that reports "unchanged" promises nothing about the disk.  Editors do
  not take the lock: what they write between two reads and the rename is lost, and
  `EditsAreKept` excuses it.
* **LinkRefresh.** A port stands for its node.  A look at the graph and the command
  that follows are one step, as PipeWire offers nothing that does both; so is each
  `pw-dump`.  `--once` is left out, and so is a worker killed between taking down and
  putting up: what it had removed is in its memory only.  It may fail there, and exit.
  A command that takes a link down and then reports a failure, or is timed out, may
  have taken effect: the worker does not count the link as removed and never puts it up
  again (`sidealsa-reconnect.rs:204`), and `RefreshIsWhole` is about what it counted.

## Runs

| Run | Question | Bounds |
|---|---|---|
| `endpoint` | is a freed endpoint ever used, is it a grace period, does every drain end? | one realtime and one diagnostics reader, two sessions, three addresses, epoch of four values |
| `lifecycle` | are slots reset only when nobody is in them, and do OPEN, START, STOP and CLOSE return? | one session that starts twice on the PRO stream, a SHARED port or the PRO input, every loop, capture running |
| `bridges` | is STOP silent, and only the live session armed? is what is repeated what was heard, and each interruption counted once? | two sessions that take a stream over from each other, every loop; SHARED or PRO, two lifecycles, one recovery, one repeat |
| `lifecycle_ahead` | finding: the ahead loop recovers inside its commit | expected to be violated |
| `ring` | late, early, duplicate and refused blocks against the cycle; capture against every scan, up to a full ring | three slots, sequences modulo 8, two played and four captured blocks |
| `ring_fifo` | finding: a scan can deliver out of order | expected to be violated |
| `pair_start` | opening, starting, stopping and closing two directions, with a recovery between any two steps | two connections of one process; two sessions; capture starts twice |
| `pair_answer` | does the device belong to one process, and is every aligned request answered? | two connections, of one process or of two, each direction starts once |
| `cycles` | is the wait for exactly one commit; are wakes lost; is an ASIO host left alone, its stream stopped and its driver freed? | two waiters, counters modulo 8; two slots, three kinds of client; one host thread and the deferred release, one start after the first |
| `workers` | do split workers and the linked engine qualify what they publish, keep streams together and end? | split: buffers of two periods, one recovery; linked: buffers of four hardware periods, two chunks a period, two XRUNs or rebases, two attempts, three paths of the loopback |
| `control` | do both ends of a connection agree, are reports true, are others left alone, does everything come back? | one connection, of the library with one child at a time or of a program that sends any request; two daemons, three faults; two applies, two faults, two settings of two values; two ports on one side, one on the other, two changes of the graph, two daemons, two failures, two attempts |
| `streams` | the ALSA plugin's FIFO, pointer and capture; records; two users' connections; the queue under every kind of profile | periods of two frames, buffer of four, latency one, four cycles, seven frames, one frame left by writes that time out; two writers, one reader, two fields, two records; two connections, one of them without the library, no children; some 2,900 profiles of four frames a period |

`bridges` and `pair_start` take states that differ only in the names of the two
sessions or connections for one; neither asks for liveness.

The bounds are the smallest at which every action and every branch is taken and
counters wrap.  What could need more: a third waiter adds nothing to the barrier
since waiters do not interact; a fourth slot adds to `ring` only more blocks
between the oldest and the newest, which three slots have; more sessions than two
per stream repeat the reuse of a stream, which two show.  A bridge repeats once where
the code repeats four times, and both the repeat and the end of the repeats are
reached.  A split engine needs one recovery to fall behind by more than the bound if
it did not realign.  Seven frames are three periods and a half, so a write ends
inside a period, the buffer wraps, and a period expires with a part of another behind it.  Two faults of an apply are enough for a step and its
rollback to fail, three of a daemon for a second daemon, a kill or a removed file, and a failure besides.
`Profiles` cover each loop, each optional setting absent and present, and both sides of
each limit of `validate`.

Where no run names a type invariant of a module with theorems, it is part of the proved
inductive invariant; the other modules have theirs in an invariant of their run.

**Fairness.** Weak fairness of a thread means it is scheduled.

* Hardware threads (`lifecycle`, `ring`, `pair_answer`, `cycles`) are SCHED_FIFO and
  their waits are bounded by deadlines: they keep cycling.
* Control threads (`endpoint`, `lifecycle`, `cycles`, `pair_answer`) finish an
  operation they began; they spin with `yield_now`.  Nobody has to begin one.
* A guard lives for one bounded call, so a reader of `endpoint` leaves, and a commit
  ends on every path of its guard.  A client that is awake runs.
* In `cycles` the calls of an ASIO host proceed, its callbacks return, the deferred
  release retries every so often, and the engine keeps its periods.
* In `workers` the threads of an engine run; fairness is of steps that do not fail,
  and time passes.  Nothing is assumed of the device of a split engine.
* In `control` the listener, a handler and every thread of a daemon run, and a
  hardware thread that was told to stop does; an apply goes on, its clock runs out and
  the kernel hands its lock on; the refreshing worker polls, and its commands end since
  each runs under `timeout`.  `ServiceReturns` says that what each fault leads to holds
  in the end: faults, starts and changes are bounded, so it asks for `Settled` again and
  again.
* `bridges`, `pair_start` and `streams` check safety only and assume nothing.

## Findings

1. `lifecycle_ahead`: `engine.rs:2435` recovers the streams inside an open commit,
   although `engine.rs:1895` says "Stream recovery can take seconds; client
   STOP/CLOSE must not spin on the barrier meanwhile."
2. `ring_fifo`: a scan of `shared.rs:698` overtaken by two publications returns a
   newer block before an older one, although `docs/milestone-3.md:26` promises
   "SHARED capture clients retain ordered FIFO delivery."

## Proofs

TLC shows a property for one small instance; the theorems below hold for every value
of the constants, under the assumption that the module names.  Every inductive
invariant was first checked by TLC on the run of its module.  Where several parts
share a harness (`MCBridges`, `MCCycles`, `MCStreams`, `MCControl`), a theorem is about the
harness's specification: a step of the harness is a step of the part or leaves the
part's variables alone.

| Module | Theorems | Assumed of the constants |
|---|---|---|
| `DaemonProofs` | `TypeCorrect`, `MemorySafety`, `EndpointsAreKept`, `Refinement` | `SlotAssumption`: finitely many readers; the epoch has an even number of values |
| | `ReportsHold`, `NeighboursAreSafe` | `ProgramsAssumption`: finitely many runs of an apply, at least one attempt to restore links, bounds are numbers |
| `CyclesProofs` | `BarrierTypeCorrect`, `BarrierRefinement` | `HalfAssumption` |
| | `StoppedHostIsLeftAlone`, `StopsDrainAndKeepTheStream` | `CyclesAssumption` |
| | `NoWakeIsLost` | `CyclesAssumption`: there is a slot, and ages 0 and 1 are told from older ones |
| `SlotRingProofs` | `RingTypeCorrect`, `RingBlocksAreSound` and its parts `RingExclusion`, `RingExactCycle`, `RingReadyIsRunning`; `RingOrderIsKept`, `RingIsAChannel` | `RingAssumption`: live blocks are less than half the range apart; at most half the range is captured |
| `BridgesProofs` | `LifecycleTypes`, `ResetsAreExclusive`, `StopsAreSilent`, `ArmedStaysLive`, `OnlyAheadRecoversInCommit` | `LifecycleAssumption` |
| | `RepeatsWereHeard`, `MissesCount` | `BridgesAssumption`: the hardware has at least one generation |
| `ProPairProofs` | `OneOwner`, `Agreement`, `PairsStartTogether`, `RequestsServed` | `PairAssumption` |
| `StreamsProofs` | `RecordsAreWhole`, `CaptureStaysExact`, `BothEndsAgree`, `CreatorsClose` | `StreamsAssumption`: period, buffer and bounds are numbers; finitely many connections |
| `QueueProofs` | `QueueFollowsAlsa`, `PointerNeverLeads`, `LatencyStays` | `StreamsAssumption`: the buffer is a whole number of periods |
| | `ProfilesRun` | `StreamsAssumption`: profiles have their types |
| | `FrameTypes`, `FrameWritesFit`, `FramesLast`, `FrameClientsFit` | `ProfilesAreSettings`: profiles have their types |
| `EngineProofs` | `ReadinessIsEarned`, `RestartsKeepTheRoundTrip` | `WorkersAssumption`: buffers, bounds and the paths of the loopback are numbers |

The arguments, and why the property alone is not inductive:

* **Endpoint slot.** The invariant says which counter each reader is counted in, that
  a reader that passed its second look is counted under the parity of the epoch it
  saw, and that a retired endpoint waits until that counter was seen zero.
  `NoUseAfterFree` says nothing of a reader between its two looks.
* **Commit barrier.** The counters are at most one commit apart, and a waiter's target
  is the `started` of its look; hence the wrapping comparison is the comparison of
  the commits themselves as long as fewer than half the range of commits pass between
  two polls (`Prompt`).
* **ASIO driver.** `DriverInv` says which thread may be where (`Mutex`, `Handle`,
  `Purposes`), what a call may rely on at its place (`Bound`), what the gate says of
  the driver's state (`Commands`), and that after an acknowledged stop the worker is
  quiet (`Silence`).  The stream leaves the driver's record before it is closed
  (`crates/sidealsa-asio/src/lib.rs:757`), so for a while only the closing call has
  it: with more host threads than the run's one, the invariant fails for a model that
  closes it in place, and `AsioDriver` follows the code there.
* **Wakes.** `WakesInv` says who has been told of what: a READY block of this cycle
  raises the hint of a client that listens (`CaptureIsHeard`), and a client that looks
  at cycles has the hint or has this cycle in hand (`CycleIsHeard`).  That a block
  counts once needs `Distinct` and `NoneYet`: one is published per cycle, and none
  before its time.  `PeriodsAreFresh` speaks of the next look; `Returned` follows the
  block that `wait_period` returned up to there: it is the oldest READY one until
  `capture_buffer` takes it, and if a cycle ends in between it is passed over.
* **Slot ring.** The place of each side is tied to the state of the slot it works on,
  and what a slot holds to its label, from its labelling until its consumer leaves it.
  Exclusion follows because only the owner of WRITING or READING leaves that state.
  For `RingIsAChannel` a block is in flight while a slot holds it, and each call of
  the ring is one step of `BlockChannel` at the access that decides, or a stutter.
  For `RingOrderIsKept` the invariant also keeps what a scan under way has passed.
* **Session lifecycle.** A stream has one session at a time.  What a hardware thread
  picked up under a guard belongs to a live lifecycle, or its session still has to
  drain that guard; what lies in an open commit belongs to a lifecycle whose session
  has not passed the barrier of that commit; what is staged for a later commit is
  played under the epoch it was made under only, and who stops advances the epoch
  first.  `StoppedIsSilent` speaks of returned calls and says nothing of these places.
* **PRO pair.** `pro_ownership`, the owners of the streams and the sessions that the
  connections hold differ only while the operation that changes them runs, and the
  invariant says by how much at each place of each operation.  What the capture thread
  has seen active behind a guard stays active or is being stopped by an operation
  that waits for that guard, so a request bit is never another lifecycle's.
* **Fallback.** The same guard keeps session and lifecycle from changing under the
  hardware thread, which lets it arm, and lets STOP disarm for good after the drain; a
  lifecycle that is starting has published nothing, so disarming at the end of START
  takes nothing from it that was heard.
* **Records.** A writer alone makes the epoch odd; at an even epoch every field holds
  the record of that epoch; a reader whose first look still is the epoch has read
  fields of that record only.
* **Plugin capture.** The scratch block and then the ring hold the frames from the first
  one not yet retired to the last one captured, without a gap as long as no period was
  lost (`Aligned`); the pointer never passes them (`Produced`).  Between callbacks as
  many frames are retired as the application was told of; within a read the two differ
  by what was copied (`Counted`), which `CaptureIsExact` cannot tell.
* **Plugin playback.** The frames queued are due one after the other, up to where the
  plugin last saw the application's pointer and `extra` beyond it (`Ordered`), which is
  `FifoFollowsAlsa`.
  `PlayedIsTaken` needs more: what a callback may rely on at its place (`Called`,
  `Begun`), that on PRO neither the queue nor the block sent last is due before its
  label, and that a pointer that was reported lies behind the cycle the engine plays
  (`Pointed`); and that a drain pads to whole periods and ends behind the last label
  (`Drained`).  `LatencyIsKept` compares two blocks that were sent, so the invariant
  says the same of the first frame queued and the label it will get (`Labelled`).
  `Span` names the frames of some periods: products stay out of most steps.
* **Linked engine.** `LinkedInv` says which loop is where (`Places`), that what the
  start queued is what lies in playback, capture and the engine's own hands while the
  streams run (`Trips`), and that deferred capture is the next period's (`Deferred`).
  `ReadyIsQualified` speaks of the moment of publication only; that readiness shown to
  clients was qualified for this run of the streams needs `Earned`, and that a probe
  takes it back and remembers it needs `Readiness`.
* **Split engine.** Until playback has opened the gate capture has read nothing
  (`Gated`), and the engine's thread joins what it started (`Joined`).  Playback that
  owes no realignment is within the bound, with the period just written counted twice
  until the sequence advances (`Bounded`); the last capture cycle, if it
  is of the present generation, was a whole period, except between a restart and the
  reset that counts it as a generation (`Fresh`).
* **Control.** `ControlInv` relates, for each connection, the daemon's thread, the
  requests and answers on their way, and the client (`InStep`): what a client waits
  for is asked once, answered once and in order, and until then the session stands as
  the client last knew it or as the request makes it.  The relation is proved for
  values first and for a step of one connection then; every other connection is left
  alone.  Nothing is assumed of a program without the library, nor of a connection that
  a child has used, except that its session is its own thread's.  Any client may fork.
* **Daemons.** A listener takes a file away after it found it unused or remembered it.
  The file of a listener that began alone was found by nobody before that, it is not
  found unused while it is listened on, and what others remembered before is another
  file: nobody else is unsettled as long as that file stands (`OthersAreSettled`).
* **Apply.** Only the holder of the lock writes the profile, so the invariant says for
  each place of a run what its user, its memory (`Remembers`), the file and the disk
  (`Finds`) have in common, unless the file was edited by hand.  `ReportStands` speaks
  of finished runs only.  That there is a process id nobody remembers is the
  pigeonhole principle.
* **Links.** While one PipeWire runs, the serial number of an id only grows, so an id
  whose serial number is the planned one still is the planned link or none
  (`Remembered`); what was taken down is among what is to be restored until it is
  settled (`Owed`).
* **Frames.** `EnoughFits` shows for each loop that what it may find queued when it
  decides to write and what it then writes fit into the buffer, from the limits of
  `validate`; `Fits` carries this over the client's time in the direct loop, which
  decides before it waits, and over the pieces of a write.  For starvation each loop
  has an invariant of its own (`SplitLasts` to `PacketLasts`); they share that the
  frames queued, captured and in the engine's hand have a sum that depends on the
  place only, so the client's time runs out while a bounded part of the sum is
  captured.  The margins are whole hardware periods (`InStep`): a split engine with a
  buffer of one and a half periods lasts because it can never find a fraction of a
  hardware period free.  The loop of packets needs most: between two packets the
  queue holds those written so far, or has only just fallen to the guard.  What
  `Headroom` asks is used in each of the proofs, and nothing else is assumed of the
  profile but that it validates.  The plugin's period is the largest divisor of the
  SHARED buffer, which is two to eight periods, so it exists and divides.

The proofs corrected the models in three places besides the ASIO stream.  In
`ControlConnection` and `DaemonProcess` a CASE had guards that overlap, which means
either branch in TLA+ where the code takes the first; they are IF now.  `LatencyIsKept`
said that the latency of a run stays the same, and the run agreed because it had five
frames only.  For SHARED streams it does not: when periods expire,
`flush_playback_blocks` discards up to that many periods of frames, a partial period
behind them included (`crates/sidealsa-alsa/src/lib.rs:875`, as the test at line 2037
has it when more is queued), but labels advance by the whole periods only (line 1198), so what follows
is heard up to a period less a frame earlier.  The code asks that no latency is added
(line 1202); the property says this now, with equality where no label is skipped, and
the run has seven frames.

Only model-checked:

* liveness (`DrainEnds`, `OperationsReturn`, `StaleBlocksLeave`, `RequestsAreAnswered`,
  `WaitsEnd`, `EnginesEnd`, `ConnectionsLeave`, `ServiceReturns`), which is outside
  the prover's reach;
* `EndsAgree` and `OnlyTheCreatorCloses` for the one connection of `control`, whose
  program forks; `BothEndsAgree` and `CreatorsClose` prove them for the connections of
  `streams`, any of which may fork (`Forking` is any set of clients there).

## Not modelled, and the plan

Not modelled for good: signal work on samples (detecting loopback markers, mixing,
conversion of sample formats), the values of statistics, the graphical interface,
installation scripts and test tools, and ALSA, Wine, PipeWire and systemd themselves.
Rust and C code that only formats, parses or maps memory (TOML, frames of the wire
protocol, descriptors) is represented by whether it succeeds.

Planned, in this order:

1. `SessionLifecycle` shown to implement an abstract session whose STOP is silent:
   `StopsAreSilent` has the invariant that this needs.
2. The latency guard, routing and the selection of profiles as functions checked
   against reference definitions over bounded inputs.
3. PRO capture of an unsplit duplex stream in the ALSA plugin, and the waits of SHARED
   streams in the client.
