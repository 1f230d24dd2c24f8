-------------------------- MODULE SessionLifecycle --------------------------
(***************************************************************************)
(* START, STOP and CLOSE of sessions while the hardware threads run:       *)
(* SessionState of crates/sidealsa-daemon/src/state.rs against the         *)
(* playback cycle loops of crates/sidealsa-core/src/engine.rs, which call  *)
(* back into DaemonPlaybackBridge and DaemonCaptureBridge.                 *)
(*                                                                         *)
(* A session thread stops a lifecycle by clearing `active`, advancing the  *)
(* playback epoch all playback sessions share, draining the guards on its  *)
(* endpoint and waiting for the hardware commit that was open at that      *)
(* time.  The playback thread picks a lifecycle's audio up under a guard,  *)
(* and writes it to the hardware much later, inside a commit.              *)
(*                                                                         *)
(* EndpointSlot is used through its abstract specification GracePeriod,    *)
(* and PlaybackCommitBarrier through CommitBarrier's: a waiter waits for   *)
(* the commit that was open when it looked.                                *)
(***************************************************************************)
EXTENDS Naturals, FiniteSets

CONSTANTS
  Pro,         \* the PRO session state
  Ports,       \* SHARED playback ports
  Inputs,      \* capture-only session states: no epoch, no commit barrier
  Sessions,    \* session ids; next_session never repeats one
  Modes,       \* which cycle loops the hardware may run
  CaptureRuns, \* whether the capture bridge runs concurrently
  MaxStarts,   \* bound on lifecycle_generation, for TLC
  None

Playbacks == {Pro} \union Ports
Streams == Playbacks \union Inputs

(* The endpoints the capture bridge visits: Classic PRO sessions capture   *)
(* through the PRO endpoint.                                               *)
Captured == IF CaptureRuns THEN {Pro} \union Inputs ELSE {}

(* The cycle loops of engine.rs:                                           *)
(*   direct   linked_pro_cycle_loop, event driven                          *)
(*   handoff  linked_pro_cycle_loop, timer driven                          *)
(*   ahead    linked_pro_ahead_cycle_loop                                  *)
(*   packet   linked_pro_packet_cycle_loop                                 *)
(*   split    playback_worker_loop                                         *)
AllModes == {"direct", "handoff", "ahead", "packet", "split"}

Closing == "closing"                       \* SESSION_CLOSING

ASSUME LifecycleAssumption ==
  /\ Pro \notin Ports /\ Playbacks \intersect Inputs = {}
  /\ None \notin Streams \union Sessions \union Nat
  /\ Closing \notin Sessions \union {None}
  /\ Modes \subseteq AllModes
  /\ CaptureRuns \in BOOLEAN
  /\ MaxStarts \in Nat

VARIABLES
  owner,       \* SessionState.owner; Closing while CLOSE runs
  active,      \* SessionState.active: the session whose audio is live
  generation,  \* SessionState.lifecycle_generation
  armed,       \* SessionState.armed
  cell,        \* session_id of the published SessionEndpoint
  epoch,       \* DaemonState.playback_epoch, shared by the playback streams
  mutex,       \* holder of DaemonState.pro_ownership
  pc, at,      \* where each session thread is, and on which stream
  draining,    \* hardware threads whose guards the session waits for
  barrier,     \* whether the session waits for an open commit
  retired,     \* history: last generation whose STOP or CLOSE returned
  mode,        \* the cycle loop the hardware runs
  rpc, todo,   \* where the playback thread is; ports left in its phase
  pos,         \* where each hardware thread is in its visit to a stream
  guard,       \* the stream whose endpoint guard it holds
  seen,        \* the session_id it found in that endpoint
  picked,      \* the lifecycle it picks audio up from
  prepared,    \* SharedAudioPortBridge.prepared
  buffer,      \* generations mixed into playback_scratch; 0 is silence
  commitOpen,  \* PlaybackCommitBarrier: started # completed
  cycleEpoch,  \* playback_epoch as read inside the commit
  announced,   \* split: epoch of announced_output
  madeUnder    \* packet: staged_playback_epoch; split: epoch of prepared_output

sessionVars == <<owner, active, generation, cell, epoch, mutex, pc, at, retired>>
cycleVars == <<rpc, todo, prepared, buffer, commitOpen, cycleEpoch, announced, madeUnder>>
visitVars == <<pos, guard, seen, picked>>
vars == <<sessionVars, armed, draining, barrier, mode, visitVars, cycleVars>>

Threads == {"playback", "capture"}
NoPick == [session |-> None, gen |-> 0]
Silence == [st \in Playbacks |-> 0]
Locked(st) == st \notin Ports              \* opened and started under pro_ownership

Init ==
  /\ owner = [st \in Streams |-> None]
  /\ active = [st \in Streams |-> None]
  /\ generation = [st \in Streams |-> 0]
  /\ armed = [st \in Streams |-> None]
  /\ cell = [st \in Streams |-> None]
  /\ epoch = 0
  /\ mutex = None
  /\ pc = [s \in Sessions |-> "new"]
  /\ at = [s \in Sessions |-> None]
  /\ draining = [s \in Sessions |-> {}]
  /\ barrier = [s \in Sessions |-> FALSE]
  /\ retired = [st \in Streams |-> 0]
  /\ mode \in Modes
  /\ rpc = "idle"
  /\ todo = {}
  /\ pos = [t \in Threads |-> "out"]
  /\ guard = [t \in Threads |-> None]
  /\ seen = [t \in Threads |-> None]
  /\ picked = [t \in Threads |-> NoPick]
  /\ prepared = [p \in Ports |-> NoPick]
  /\ buffer = Silence
  /\ commitOpen = FALSE
  /\ cycleEpoch = 0
  /\ announced = None
  /\ madeUnder = None

-----------------------------------------------------------------------------
(* Session threads: OPEN, START, STOP and CLOSE of the connection.         *)

Goto(s, l) == pc' = [pc EXCEPT ![s] = l]
Acquire(s) == mutex = None /\ mutex' = s
Release(s) == mutex' = IF mutex = s THEN None ELSE mutex

(* try_open_layout: the owner CAS; Busy sessions never become sessions.    *)
Open(s, st) ==
  /\ pc[s] = "new"
  /\ owner[st] = None
  /\ owner' = [owner EXCEPT ![st] = s]
  /\ at' = [at EXCEPT ![s] = st]
  /\ IF Locked(st) THEN Acquire(s) ELSE UNCHANGED mutex
  /\ Goto(s, "swap")
  /\ UNCHANGED <<active, generation, cell, epoch, retired, armed, draining, barrier,
                 mode, visitVars, cycleVars>>

(* EndpointSlot::replace: publish the new endpoint, ...                    *)
Publish(s) ==
  /\ pc[s] = "swap"
  /\ cell' = [cell EXCEPT ![at[s]] = s]
  /\ Goto(s, "openDrain")
  /\ UNCHANGED <<owner, active, generation, epoch, mutex, at, retired, armed, draining,
                 barrier, mode, visitVars, cycleVars>>

(* Mutant: only the playback thread is waited for.                         *)
BeginDrainOfPlayback(s) ==
  /\ \/ pc[s] = "openDrain" /\ Goto(s, "openWait")
     \/ pc[s] = "drain" /\ Goto(s, "drainWait")
  /\ draining' = [draining EXCEPT ![s] = {t \in {"playback"} : guard[t] = at[s]}]
  /\ UNCHANGED <<owner, active, generation, cell, epoch, mutex, at, retired, armed,
                 barrier, mode, visitVars, cycleVars>>

(* ... and EndpointSlot::wait_for_idle, for OPEN as for STOP and CLOSE.    *)
BeginDrain(s) ==
  /\ \/ pc[s] = "openDrain" /\ Goto(s, "openWait")
     \/ pc[s] = "drain" /\ Goto(s, "drainWait")
  /\ draining' = [draining EXCEPT ![s] = {t \in Threads : guard[t] = at[s]}]
  /\ UNCHANGED <<owner, active, generation, cell, epoch, mutex, at, retired, armed,
                 barrier, mode, visitVars, cycleVars>>

EndDrain(s) ==
  /\ draining[s] = {}
  /\ \/ pc[s] = "openWait" /\ Goto(s, "open") /\ Release(s)
     \/ /\ pc[s] = "drainWait"
        /\ Goto(s, IF at[s] \in Playbacks THEN "barrier" ELSE "disarm")
        /\ UNCHANGED mutex
  /\ UNCHANGED <<owner, active, generation, cell, epoch, at, retired, armed, draining,
                 barrier, mode, visitVars, cycleVars>>

(* SessionState::start: the checks, then reset_slots while "starting".     *)
Start(s) ==
  /\ pc[s] = "open"
  /\ active[at[s]] = None
  /\ generation[at[s]] < MaxStarts
  /\ IF Locked(at[s]) THEN Acquire(s) ELSE UNCHANGED mutex
  /\ Goto(s, "starting")
  /\ UNCHANGED <<owner, active, generation, cell, epoch, at, retired, armed, draining,
                 barrier, mode, visitVars, cycleVars>>

NextGeneration(s) ==
  /\ pc[s] = "starting"
  /\ generation' = [generation EXCEPT ![at[s]] = @ + 1]
  /\ Goto(s, "activate")
  /\ UNCHANGED <<owner, active, cell, epoch, mutex, at, retired, armed, draining,
                 barrier, mode, visitVars, cycleVars>>

Activate(s) ==
  /\ pc[s] = "activate"
  /\ active' = [active EXCEPT ![at[s]] = s]
  /\ Goto(s, "startDisarm")
  /\ UNCHANGED <<owner, generation, cell, epoch, mutex, at, retired, armed, draining,
                 barrier, mode, visitVars, cycleVars>>

StartDisarm(s) ==
  /\ pc[s] = "startDisarm"
  /\ armed' = [armed EXCEPT ![at[s]] = None]
  /\ Release(s)
  /\ Goto(s, "running")
  /\ UNCHANGED <<owner, active, generation, cell, epoch, at, retired, draining,
                 barrier, mode, visitVars, cycleVars>>

(* SessionState::stop                                                      *)
Stop(s) ==
  /\ pc[s] = "running"
  /\ Acquire(s)
  /\ armed' = [armed EXCEPT ![at[s]] = None]
  /\ Goto(s, "deactivate")
  /\ UNCHANGED <<owner, active, generation, cell, epoch, at, retired, draining,
                 barrier, mode, visitVars, cycleVars>>

(* SessionState::close, of a running or of a stopped session               *)
Close(s) ==
  /\ pc[s] \in {"open", "running"}
  /\ Acquire(s)
  /\ owner' = [owner EXCEPT ![at[s]] = Closing]
  /\ IF pc[s] = "running"
     THEN armed' = [armed EXCEPT ![at[s]] = None] /\ Goto(s, "deactivate")
     ELSE UNCHANGED armed /\ Goto(s, "drain")
  /\ UNCHANGED <<active, generation, cell, epoch, at, retired, draining, barrier,
                 mode, visitVars, cycleVars>>

Deactivate(s) ==
  /\ pc[s] = "deactivate"
  /\ active' = [active EXCEPT ![at[s]] = None]
  /\ Goto(s, "bump")
  /\ UNCHANGED <<owner, generation, cell, epoch, mutex, at, retired, armed, draining,
                 barrier, mode, visitVars, cycleVars>>

(* Mutant: the playback epoch does not move.                               *)
BumpEpochMissing(s) ==
  /\ pc[s] = "bump"
  /\ Goto(s, "drain")
  /\ UNCHANGED <<owner, active, generation, cell, epoch, mutex, at, retired, armed, draining,
                 barrier, mode, visitVars, cycleVars>>

(* bump_playback_epoch; capture-only sessions have none                    *)
BumpEpoch(s) ==
  /\ pc[s] = "bump"
  /\ epoch' = IF at[s] \in Playbacks THEN epoch + 1 ELSE epoch
  /\ Goto(s, "drain")
  /\ UNCHANGED <<owner, active, generation, cell, mutex, at, retired, armed, draining,
                 barrier, mode, visitVars, cycleVars>>

(* wait_for_preexisting: load the target, ...                              *)
LookAtBarrier(s) ==
  /\ pc[s] = "barrier"
  /\ barrier' = [barrier EXCEPT ![s] = commitOpen]
  /\ Goto(s, "barrierWait")
  /\ UNCHANGED <<owner, active, generation, cell, epoch, mutex, at, retired, armed,
                 draining, mode, visitVars, cycleVars>>

(* ... spin until it is completed.                                         *)
PassBarrier(s) ==
  /\ pc[s] = "barrierWait"
  /\ ~barrier[s]
  /\ Goto(s, "disarm")
  /\ UNCHANGED <<owner, active, generation, cell, epoch, mutex, at, retired, armed,
                 draining, barrier, mode, visitVars, cycleVars>>

(* Mutant: armed is cleared only before active is.                         *)
DisarmOnlyOnce(s) ==
  /\ pc[s] = "disarm"
  /\ Goto(s, "resetting")
  /\ UNCHANGED <<owner, active, generation, cell, epoch, mutex, at, retired, armed, draining,
                 barrier, mode, visitVars, cycleVars>>

(* The second disarm: a commit that was under way may have armed again.    *)
Disarm(s) ==
  /\ pc[s] = "disarm"
  /\ armed' = [armed EXCEPT ![at[s]] = None]
  /\ Goto(s, "resetting")
  /\ UNCHANGED <<owner, active, generation, cell, epoch, mutex, at, retired, draining,
                 barrier, mode, visitVars, cycleVars>>

(* reset_slots ends, and with it STOP or CLOSE.                            *)
FinishStop(s) ==
  /\ pc[s] = "resetting"
  /\ retired' = [retired EXCEPT ![at[s]] = generation[at[s]]]
  /\ IF owner[at[s]] = Closing
     THEN owner' = [owner EXCEPT ![at[s]] = None] /\ Goto(s, "closed")
     ELSE UNCHANGED owner /\ Goto(s, "open")
  /\ Release(s)
  /\ UNCHANGED <<active, generation, cell, epoch, at, armed, draining, barrier,
                 mode, visitVars, cycleVars>>

SessionStep(s) ==
  \/ Publish(s) \/ BeginDrain(s) \/ EndDrain(s)
  \/ NextGeneration(s) \/ Activate(s) \/ StartDisarm(s)
  \/ Deactivate(s) \/ BumpEpoch(s) \/ LookAtBarrier(s) \/ PassBarrier(s)
  \/ Disarm(s) \/ FinishStop(s)

-----------------------------------------------------------------------------
(* A hardware thread's visit to a stream: what prepare_playback,           *)
(* process_pro_playback, commit_prepared and the capture publishers do     *)
(* under one EndpointGuard.                                                *)

Leave(t) ==
  /\ guard' = [guard EXCEPT ![t] = None]
  /\ seen' = [seen EXCEPT ![t] = None]
  /\ picked' = [picked EXCEPT ![t] = NoPick]
  /\ pos' = [pos EXCEPT ![t] = "out"]
  /\ draining' = [s \in Sessions |->
                    IF at[s] = guard[t] THEN draining[s] \ {t} ELSE draining[s]]

Enter(t, st) ==
  /\ pos[t] = "out"
  /\ guard' = [guard EXCEPT ![t] = st]
  /\ seen' = [seen EXCEPT ![t] = cell[st]]
  /\ pos' = [pos EXCEPT ![t] = "in"]
  /\ UNCHANGED <<sessionVars, armed, draining, barrier, mode, picked, cycleVars>>

(* active == endpoint.session_id: the slots of that lifecycle are used     *)
(* from here on.  The generation is loaded next; it cannot move while the  *)
(* guard is held and the session was active.                               *)
Look(t) ==
  /\ pos[t] = "in"
  /\ IF active[guard[t]] # None /\ active[guard[t]] = seen[t]
     THEN /\ picked' = [picked EXCEPT ![t] = [session |-> seen[t],
                                              gen |-> generation[guard[t]]]]
          /\ pos' = [pos EXCEPT ![t] = "copying"]
     ELSE /\ pos' = [pos EXCEPT ![t] = "done"]
          /\ UNCHANGED picked
  /\ UNCHANGED <<sessionVars, armed, draining, barrier, mode, guard, seen, cycleVars>>

(* session_is_current, identity_is_current                                 *)
Current(t) ==
  /\ active[guard[t]] = picked[t].session
  /\ generation[guard[t]] = picked[t].gen

(* The consume fails or hits; a block of a lifecycle that is no longer     *)
(* current is discarded.  A SHARED port that was armed is disarmed by a    *)
(* miss, which may repeat the last block of the lifecycle.                 *)
Recheck(t) ==
  /\ pos[t] = "copying"
  /\ \/ Current(t) /\ UNCHANGED <<picked, armed>>
     \/ picked' = [picked EXCEPT ![t] = NoPick] /\ UNCHANGED armed
     \/ /\ Current(t) /\ guard[t] \in Ports
        /\ armed[guard[t]] = picked[t].session
        /\ armed' = [armed EXCEPT ![guard[t]] = None]
        /\ picked' \in {picked, [picked EXCEPT ![t] = NoPick]}
  /\ pos' = [pos EXCEPT ![t] = IF t = "playback" /\ guard[t] = Pro /\ picked'[t] # NoPick
                               THEN "arming" ELSE "done"]
  /\ UNCHANGED <<sessionVars, draining, barrier, mode, guard, seen, cycleVars>>

(* armed.compare_exchange(0, session)                                      *)
Arm(t) ==
  /\ pos[t] = "arming"
  /\ armed' = [armed EXCEPT ![guard[t]] = IF @ = None THEN picked[t].session ELSE @]
  /\ pos' = [pos EXCEPT ![t] = "done"]
  /\ UNCHANGED <<sessionVars, draining, barrier, mode, guard, seen, picked, cycleVars>>

-----------------------------------------------------------------------------
(* The capture bridge on its own thread                                    *)

CaptureStep ==
  \/ \E st \in Captured : Enter("capture", st)
  \/ Look("capture")
  \/ Recheck("capture")
  \/ /\ pos["capture"] = "done"
     /\ Leave("capture")
     /\ UNCHANGED <<sessionVars, armed, barrier, mode, cycleVars>>

-----------------------------------------------------------------------------
(* The playback thread                                                     *)

P == "playback"
playSession == <<sessionVars, armed, barrier, mode>>

(* prepare_playback_mix runs before the commit opens in two of the loops.  *)
EarlyMix == mode \in {"handoff", "ahead"}

StartCycle ==
  /\ rpc = "idle"
  /\ rpc' = IF EarlyMix THEN "prepare" ELSE "begin"
  /\ todo' = IF EarlyMix THEN Ports ELSE {}
  /\ announced' = IF mode = "split" /\ announced = None THEN epoch ELSE announced
  /\ UNCHANGED <<playSession, draining, visitVars, prepared, buffer, commitOpen,
                 cycleEpoch, madeUnder>>

BeginCommit ==
  /\ rpc = "begin"
  /\ commitOpen' = TRUE
  /\ IF mode \in {"packet", "split"}
     THEN rpc' = "epoch" /\ UNCHANGED buffer
     ELSE rpc' = "process" /\ buffer' = Silence
  /\ UNCHANGED <<playSession, draining, visitVars, todo, prepared, cycleEpoch, announced,
                 madeUnder>>

(* packet: audio staged under another epoch is silenced before its tail is *)
(* written.                                                                *)
PacketEpoch ==
  /\ rpc = "epoch" /\ mode = "packet"
  /\ cycleEpoch' = epoch
  /\ buffer' = IF madeUnder # None /\ madeUnder # epoch THEN Silence ELSE buffer
  /\ rpc' = "prepare"
  /\ todo' = Ports
  /\ UNCHANGED <<playSession, draining, visitVars, prepared, commitOpen, announced, madeUnder>>

(* split: output prepared under this epoch is reused; otherwise it is made *)
(* again, or left silent when the cycle was announced under another epoch  *)
(* or another hardware generation.                                         *)
SplitEpoch ==
  /\ rpc = "epoch" /\ mode = "split"
  /\ cycleEpoch' = epoch
  /\ \/ /\ madeUnder = epoch
        /\ rpc' = "recheck"
        /\ UNCHANGED buffer
     \/ /\ buffer' = Silence
        /\ rpc' \in IF announced = epoch THEN {"process", "settle"} ELSE {"settle"}
  /\ UNCHANGED <<playSession, draining, visitVars, todo, prepared, commitOpen, announced,
                 madeUnder>>

(* SharedAudioPortBridge::prepare_playback, port by port                   *)
PreparePort ==
  /\ rpc = "prepare"
  /\ \/ /\ pos[P] = "out"
        /\ \E p \in todo : Enter(P, p)
     \/ Look(P)
     \/ Recheck(P)
     \/ /\ pos[P] = "done"
        /\ prepared' = [prepared EXCEPT ![guard[P]] = picked[P]]
        /\ todo' = todo \ {guard[P]}
        /\ Leave(P)
        /\ UNCHANGED <<playSession, rpc, buffer, commitOpen, cycleEpoch, announced, madeUnder>>

PreparedAll ==
  /\ rpc = "prepare" /\ todo = {} /\ pos[P] = "out"
  /\ rpc' = CASE EarlyMix -> "begin"
              [] mode = "packet" -> "tail"
              [] OTHER -> "commit"
  /\ todo' = IF mode \in {"direct", "split"} THEN Ports ELSE {}
  /\ UNCHANGED <<playSession, draining, visitVars, prepared, buffer, commitOpen,
                 cycleEpoch, announced, madeUnder>>

(* packet: the previous cycle's last chunk has been written.               *)
TailWritten ==
  /\ rpc = "tail"
  /\ buffer' = Silence
  /\ rpc' = "process"
  /\ UNCHANGED <<playSession, draining, visitVars, todo, prepared, commitOpen,
                 cycleEpoch, announced, madeUnder>>

(* process_pro_playback                                                    *)
ProcessPro ==
  /\ rpc = "process"
  /\ \/ Enter(P, Pro)
     \/ Look(P)
     \/ Recheck(P)
     \/ Arm(P)
     \/ /\ pos[P] = "done"
        /\ buffer' = [buffer EXCEPT ![Pro] = picked[P].gen]
        /\ rpc' = IF mode \in {"direct", "split"} THEN "prepare" ELSE "commit"
        /\ todo' = Ports
        /\ Leave(P)
        /\ UNCHANGED <<playSession, prepared, commitOpen, cycleEpoch, announced, madeUnder>>

(* commit_prepared checks the identity the block was prepared for.  A      *)
(* repeated block does not arm the port.                                   *)
CheckPrepared(p) ==
  /\ prepared' = [prepared EXCEPT ![p] = NoPick]
  /\ IF /\ seen[P] = prepared[p].session
        /\ active[p] = prepared[p].session
        /\ generation[p] = prepared[p].gen
     THEN /\ picked' = [picked EXCEPT ![P] = prepared[p]]
          /\ \E next \in {"arming", "done"} : pos' = [pos EXCEPT ![P] = next]
     ELSE /\ pos' = [pos EXCEPT ![P] = "done"]
          /\ UNCHANGED picked

CommitPort ==
  /\ rpc = "commit"
  /\ \/ /\ pos[P] = "out"
        /\ \E p \in todo :
             \/ prepared[p] # NoPick /\ Enter(P, p)
             \/ /\ prepared[p] = NoPick
                /\ todo' = todo \ {p}
                /\ UNCHANGED <<playSession, draining, visitVars, rpc, prepared, buffer,
                               commitOpen, cycleEpoch, announced, madeUnder>>
     \/ /\ pos[P] = "in"
        /\ CheckPrepared(guard[P])
        /\ UNCHANGED <<playSession, draining, guard, seen, rpc, todo, buffer, commitOpen,
                       cycleEpoch, announced, madeUnder>>
     \/ Arm(P)
     \/ /\ pos[P] = "done"
        /\ buffer' = [buffer EXCEPT ![guard[P]] = picked[P].gen]
        /\ todo' = todo \ {guard[P]}
        /\ Leave(P)
        /\ UNCHANGED <<playSession, rpc, prepared, commitOpen, cycleEpoch, announced, madeUnder>>

CommittedAll ==
  /\ rpc = "commit" /\ todo = {} /\ pos[P] = "out"
  /\ rpc' = CASE EarlyMix -> "target"
              [] mode = "split" -> "settle"
              [] OTHER -> "write"
  /\ UNCHANGED <<playSession, draining, visitVars, todo, prepared, buffer, commitOpen,
                 cycleEpoch, announced, madeUnder>>

(* split: an epoch or generation that moved meanwhile abandons the cycle.  *)
Settle ==
  /\ rpc = "settle"
  /\ \/ /\ epoch = cycleEpoch
        /\ madeUnder' = cycleEpoch
        /\ rpc' = "recheck"
     \/ /\ madeUnder' = None
        /\ rpc' = "abandon"
  /\ UNCHANGED <<playSession, draining, visitVars, todo, prepared, buffer, commitOpen,
                 cycleEpoch, announced>>

(* split: the last look at the epoch before the write                      *)
RecheckEpoch ==
  /\ rpc = "recheck"
  /\ \/ /\ rpc' = "write"
        /\ buffer' = IF madeUnder = epoch THEN buffer ELSE Silence
        /\ madeUnder' = epoch
     \/ /\ rpc' = "abandon"
        /\ madeUnder' = None
        /\ UNCHANGED buffer
  /\ UNCHANGED <<playSession, draining, visitVars, todo, prepared, commitOpen,
                 cycleEpoch, announced>>

(* Mutant: the end of the commit is not published to who waits for it.     *)
EndCommitUnseen ==
  /\ commitOpen' = FALSE
  /\ UNCHANGED barrier

(* PlaybackCommitBarrier::end                                              *)
EndCommit ==
  /\ commitOpen' = FALSE
  /\ barrier' = [s \in Sessions |-> FALSE]

(* The guard drops at `continue`.                                          *)
Abandon ==
  /\ rpc = "abandon"
  /\ EndCommit
  /\ rpc' = "idle"
  /\ UNCHANGED <<sessionVars, armed, mode, draining, visitVars, todo, prepared, buffer,
                 cycleEpoch, announced, madeUnder>>

(* wait_for_playback_target: handoff releases the commit before it         *)
(* recovers, ahead recovers with the commit open.                          *)
ReachTarget ==
  /\ rpc = "target"
  /\ \/ /\ rpc' = "write"
        /\ UNCHANGED <<commitOpen, barrier>>
     \/ /\ rpc' = "recover"
        /\ IF mode = "handoff" THEN EndCommit ELSE UNCHANGED <<commitOpen, barrier>>
  /\ UNCHANGED <<sessionVars, armed, mode, draining, visitVars, todo, prepared, buffer,
                 cycleEpoch, announced, madeUnder>>

(* The hardware write returns, and the commit ends with it.                *)
Written ==
  /\ rpc = "write"
  /\ EndCommit
  /\ rpc' = "idle"
  /\ madeUnder' = IF mode = "packet" THEN cycleEpoch ELSE None
  /\ announced' = None
  /\ UNCHANGED <<sessionVars, armed, mode, draining, visitVars, todo, prepared, buffer,
                 cycleEpoch>>

(* A recoverable write error.  Packet forgets what it staged.  Split keeps *)
(* its prepared output when the stream resumes where it stopped.           *)
WriteFails ==
  /\ rpc \in {"tail", "write"}
  /\ EndCommit
  /\ rpc' = "recover"
  /\ IF mode = "packet"
     THEN buffer' = Silence /\ madeUnder' = None /\ UNCHANGED announced
     ELSE /\ UNCHANGED buffer
          /\ \/ UNCHANGED <<announced, madeUnder>>
             \/ announced' = None /\ madeUnder' = None
  /\ UNCHANGED <<sessionVars, armed, mode, draining, visitVars, todo, prepared, cycleEpoch>>

Recovered ==
  /\ rpc = "recover"
  /\ rpc' = "idle"
  /\ IF commitOpen THEN EndCommit ELSE UNCHANGED <<commitOpen, barrier>>
  /\ UNCHANGED <<sessionVars, armed, mode, draining, visitVars, todo, prepared, buffer,
                 cycleEpoch, announced, madeUnder>>

CycleStep ==
  \/ StartCycle \/ BeginCommit \/ PacketEpoch \/ SplitEpoch
  \/ PreparePort \/ PreparedAll \/ TailWritten \/ ProcessPro
  \/ CommitPort \/ CommittedAll \/ Settle \/ RecheckEpoch \/ Abandon
  \/ ReachTarget \/ Written \/ WriteFails \/ Recovered

Next ==
  \/ \E s \in Sessions :
       \/ \E st \in Streams : Open(s, st)
       \/ Start(s) \/ Stop(s) \/ Close(s) \/ SessionStep(s)
  \/ CaptureStep
  \/ CycleStep

(* The hardware threads keep cycling, and a session thread finishes the    *)
(* operation it began.  Clients need not do anything.                      *)
Fairness ==
  /\ WF_vars(CycleStep)
  /\ WF_vars(CaptureStep)
  /\ \A s \in Sessions : WF_vars(SessionStep(s))

Spec == Init /\ [][Next]_vars
FairSpec == Spec /\ Fairness

-----------------------------------------------------------------------------
(* Properties                                                              *)

SessionStates ==
  {"new", "swap", "openDrain", "openWait", "open", "starting", "activate", "startDisarm",
   "running", "deactivate", "bump", "drain", "drainWait", "barrier", "barrierWait",
   "disarm", "resetting", "closed"}
CycleStates ==
  {"idle", "begin", "epoch", "prepare", "tail", "process", "commit", "settle", "recheck",
   "target", "write", "abandon", "recover"}
Picks == [session : Sessions \union {None}, gen : 0..MaxStarts]

SessionTypes ==
  /\ owner \in [Streams -> Sessions \union {None, Closing}]
  /\ active \in [Streams -> Sessions \union {None}]
  /\ generation \in [Streams -> 0..MaxStarts]
  /\ armed \in [Streams -> Sessions \union {None}]
  /\ cell \in [Streams -> Sessions \union {None}]
  /\ epoch \in Nat
  /\ mutex \in Sessions \union {None}
  /\ pc \in [Sessions -> SessionStates]
  /\ at \in [Sessions -> Streams \union {None}]
  /\ draining \in [Sessions -> SUBSET Threads]
  /\ barrier \in [Sessions -> BOOLEAN]
  /\ retired \in [Streams -> 0..MaxStarts]
VisitTypes ==
  /\ pos \in [Threads -> {"out", "in", "copying", "arming", "done"}]
  /\ guard \in [Threads -> Streams \union {None}]
  /\ seen \in [Threads -> Sessions \union {None}]
  /\ picked \in [Threads -> Picks]
CycleTypes ==
  /\ mode \in Modes
  /\ rpc \in CycleStates
  /\ todo \subseteq Ports
  /\ prepared \in [Ports -> Picks]
  /\ buffer \in [Playbacks -> 0..MaxStarts]
  /\ commitOpen \in BOOLEAN
  /\ cycleEpoch \in Nat
  /\ announced \in Nat \union {None}
  /\ madeUnder \in Nat \union {None}
TypeOK == SessionTypes /\ VisitTypes /\ CycleTypes

(* Once STOP or CLOSE has returned to the client, no hardware write        *)
(* carries audio of the lifecycle it ended.                                *)
StoppedIsSilent ==
  rpc \in {"write", "tail"} =>
    \A st \in Playbacks : buffer[st] # 0 => buffer[st] > retired[st]

(* reset_slots frees every slot of both rings unconditionally, so it must  *)
(* never overlap a hardware thread's use of the region.                    *)
ResetIsExclusive ==
  \A s \in Sessions : pc[s] \in {"starting", "resetting"} =>
    \A t \in Threads : ~(pos[t] = "copying" /\ guard[t] = at[s])

(* A stream nobody is starting or stopping is armed for the live session   *)
(* only: the next session's first miss is never charged to a dead one.     *)
ArmedIsLive ==
  \A st \in Streams :
    \/ armed[st] \in {None, active[st]}
    \/ \E s \in Sessions :
         at[s] = st /\ pc[s] \in {"deactivate", "bump", "drain", "drainWait", "barrier",
                                  "barrierWait", "disarm"}

(* Stream recovery can take seconds: STOP must not wait for it.            *)
RecoveryReleasesCommit == rpc = "recover" => ~commitOpen

(* OPEN, START, STOP and CLOSE return although the hardware threads keep   *)
(* cycling: none of them waits for a cycle that starts after it looked.    *)
OperationsReturn ==
  \A s \in Sessions :
    pc[s] \notin {"new", "open", "running", "closed"} ~> pc[s] \in {"open", "running", "closed"}
=============================================================================
