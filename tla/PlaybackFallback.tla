-------------------------- MODULE PlaybackFallback --------------------------
(***************************************************************************)
(* What a hardware cycle plays of a client, and what it plays when the     *)
(* client's block is missing: SharedAudioPortBridge of a SHARED playback   *)
(* port and process_pro_playback with its ProPlaybackGate, in              *)
(* crates/sidealsa-daemon/src/state.rs.                                    *)
(*                                                                         *)
(* A SHARED cycle takes the block in prepare_playback and mixes it later,  *)
(* in commit_prepared; a cycle that is abandoned never commits.  The PRO   *)
(* cycle does both at once, behind a gate that asks whether the session    *)
(* was started for the present hardware generation.  Both repeat the last  *)
(* block a few times, and count a missing block only of a session that is  *)
(* armed.  Arming is shared with the threads that START, STOP and CLOSE.   *)
(*                                                                         *)
(* A block is known by the cycle it is for: 0 is the cycle that runs, 1    *)
(* the next one.  Older blocks are SlotRing's.  repeat_on_underrun is on.  *)
(***************************************************************************)
EXTENDS Naturals

CONSTANTS
  Bridges,        \* which of "shared" and "pro" are looked at
  MaxSessions,    \* bound on the sessions, for TLC
  MaxGeneration,  \* bound on lifecycle_generation, for TLC
  MaxHardware,    \* bound on the hardware generation, for TLC
  MaxRepeats      \* MAX_REPEATED_PLAYBACK_PERIODS

FallbackAssumption ==
  /\ Bridges \subseteq {"shared", "pro"}
  /\ {MaxSessions, MaxGeneration, MaxHardware, MaxRepeats} \subseteq Nat
  /\ MaxHardware >= 1                   \* the timeline begins at generation 1

VARIABLES
  bridge,       \* whose cycles these are
  session,      \* the session that owns the stream, or the last one; 0 is none
  cell,         \* session_id of the published endpoint
  active, generation, lifecycleHw,   \* SessionState
  armed, outage,                     \* SessionState: session ids, 0 is none
  pc,           \* where the session thread is
  startHw,      \* the hardware generation START was called with
  drains,       \* whether it waits for the hardware thread's guard
  regions,      \* per session: client state, activation, READY blocks
  hardware,     \* HardwareTimeline.generation
  hpc,          \* where the hardware thread is
  guard, seen,  \* whether it holds a guard, and whose endpoint that is
  id,           \* the identity it reads step by step
  blocked, got, \* the gate's answer; whether a block was consumed
  prepared,     \* what this cycle will play, or has prepared
  lastValid, repeated, observed,     \* what the bridge remembers
  scratch,      \* history: whose block the buffer holds, and whether it was heard
  heard         \* history: a block was heard since START or the last underrun

endpointVars == <<session, cell>>
lifeVars == <<active, generation, lifecycleHw>>
waitVars == <<startHw, drains>>
sessionVars == <<endpointVars, lifeVars, waitVars, pc>>
ledger == <<armed, outage, heard>>
readVars == <<guard, seen, id, blocked, got>>
visitVars == <<hpc, readVars>>
memoryVars == <<prepared, lastValid, repeated, observed, scratch>>
vars == <<bridge, sessionVars, ledger, regions, hardware, visitVars, memoryVars>>

Ids == 0..MaxSessions
NoIdentity == [session |-> 0, gen |-> 0, hw |-> 0]
Nothing == [of |-> NoIdentity, fresh |-> FALSE]
NewRegion == [client |-> "IDLE", ready |-> FALSE, blocks |-> {}]
Cleared(old, s) == IF old = s THEN 0 ELSE old     \* a compare_exchange from s to 0
Claimed(old, s) == IF old = 0 THEN s ELSE old     \* a compare_exchange from 0 to s

Init ==
  /\ bridge \in Bridges
  /\ session = 0 /\ cell = 0 /\ active = 0 /\ generation = 0 /\ lifecycleHw = 0
  /\ armed = 0 /\ outage = 0
  /\ pc = "closed" /\ startHw = 0 /\ drains = FALSE
  /\ regions = [s \in Ids |-> NewRegion]
  /\ hardware = 1
  /\ hpc = "idle" /\ guard = FALSE /\ seen = 0
  /\ id = NoIdentity /\ blocked = FALSE /\ got = FALSE
  /\ prepared = Nothing /\ lastValid = NoIdentity /\ repeated = 0 /\ observed = 0
  /\ scratch = [of |-> NoIdentity, played |-> FALSE]
  /\ heard = FALSE

-----------------------------------------------------------------------------
(* The session thread: the operations of the connection that owns the      *)
(* stream, and the client it answers.                                      *)

Goto(l) == pc' = l
Mine == regions[session]

Open ==
  /\ pc = "closed" /\ session < MaxSessions
  /\ session' = session + 1
  /\ cell' = session'
  /\ Goto("openDrain")
  /\ UNCHANGED <<lifeVars, waitVars, ledger, regions>>

(* EndpointSlot::wait_for_idle, for OPEN as for STOP and CLOSE.            *)
BeginDrain ==
  /\ \/ pc = "openDrain" /\ Goto("openWait")
     \/ pc = "stopDrain" /\ Goto("stopWait")
     \/ pc = "closeDrain" /\ Goto("closeWait")
  /\ drains' = guard
  /\ UNCHANGED <<endpointVars, lifeVars, startHw, ledger, regions>>

(* Mutant: STOP and CLOSE disarm only before the drain.                    *)
EndDrainAndReset ==
  /\ ~drains
  /\ \/ pc = "openWait" /\ Goto("open")
     \/ pc = "stopWait" /\ Goto("stopReset")
     \/ pc = "closeWait" /\ Goto("closeReset")
  /\ UNCHANGED <<endpointVars, lifeVars, waitVars, ledger, regions>>

EndDrain ==
  /\ ~drains
  /\ \/ pc = "openWait" /\ Goto("open")
     \/ pc = "stopWait" /\ Goto("stopDisarm")
     \/ pc = "closeWait" /\ Goto("closeDisarm")
  /\ UNCHANGED <<endpointVars, lifeVars, waitVars, ledger, regions>>

(* DaemonState::start reads the hardware generation before it starts.      *)
BeginStart ==
  /\ pc = "open" /\ generation < MaxGeneration
  /\ startHw' = hardware
  /\ Goto("start")
  /\ UNCHANGED <<endpointVars, lifeVars, drains, ledger, regions>>

(* No hardware thread looks at the region of a session that is not active. *)
Rebase ==
  /\ pc = "start"
  /\ generation' = generation + 1
  /\ lifecycleHw' = startHw
  /\ regions' = [regions EXCEPT ![session] = [NewRegion EXCEPT !.client = "STARTING"]]
  /\ Goto("activate")
  /\ UNCHANGED <<endpointVars, active, waitVars, ledger>>

Activate ==
  /\ pc = "activate"
  /\ active' = session
  /\ heard' = FALSE
  /\ Goto("startDisarm")
  /\ UNCHANGED <<endpointVars, generation, lifecycleHw, waitVars, armed, outage, regions>>

(* The client says IDLE before it asks for a STOP.                         *)
Quiet ==
  /\ pc = "running"
  /\ regions' = [regions EXCEPT ![session].client = "IDLE"]
  /\ Goto("quiet")
  /\ UNCHANGED <<endpointVars, lifeVars, waitVars, ledger>>

(* CLOSE comes without a STOP when the client has gone away.               *)
BeginStop ==
  /\ \/ pc = "quiet" /\ Goto("stopArmed")
     \/ pc \in {"running", "quiet"} /\ Goto("closeArmed")
     \/ pc = "open" /\ Goto("closeActive")
  /\ UNCHANGED <<endpointVars, lifeVars, waitVars, ledger, regions>>

(* Each disarming is two stores: at the end of START, and before and after *)
(* the drain of STOP and CLOSE.                                            *)
Disarm ==
  /\ \/ pc = "startDisarm" /\ Goto("startOutage")
     \/ pc = "stopArmed" /\ Goto("stopOutage")
     \/ pc = "closeArmed" /\ Goto("closeOutage")
     \/ pc = "stopDisarm" /\ Goto("stopSettle")
     \/ pc = "closeDisarm" /\ Goto("closeSettle")
  /\ armed' = 0
  /\ UNCHANGED <<endpointVars, lifeVars, waitVars, outage, regions, heard>>

EndOutage ==
  /\ \/ pc = "startOutage" /\ Goto("running")
     \/ pc = "stopOutage" /\ Goto("stopActive")
     \/ pc = "closeOutage" /\ Goto("closeActive")
     \/ pc = "stopSettle" /\ Goto("stopReset")
     \/ pc = "closeSettle" /\ Goto("closeReset")
  /\ outage' = 0
  /\ UNCHANGED <<endpointVars, lifeVars, waitVars, armed, regions, heard>>

Deactivate ==
  /\ \/ pc = "stopActive" /\ Goto("stopDrain")
     \/ pc = "closeActive" /\ Goto("closeDrain")
  /\ active' = 0
  /\ UNCHANGED <<endpointVars, generation, lifecycleHw, waitVars, ledger, regions>>

ResetSlots ==
  /\ \/ pc = "stopReset" /\ Goto("open")
     \/ pc = "closeReset" /\ Goto("closed")
  /\ regions' = [regions EXCEPT ![session].client = "IDLE", ![session].blocks = {}]
  /\ UNCHANGED <<endpointVars, lifeVars, waitVars, ledger>>

(* A client publishes in two steps: it says RUNNING, then a slot is READY. *)
Announce ==
  /\ pc = "running" /\ Mine.client # "RUNNING"
  /\ regions' = [regions EXCEPT ![session].client = "RUNNING"]
  /\ UNCHANGED <<sessionVars, ledger>>

Publish(block) ==
  /\ pc = "running" /\ Mine.client = "RUNNING" /\ block \notin Mine.blocks
  /\ regions' = [regions EXCEPT ![session].blocks = @ \union {block}]
  /\ UNCHANGED <<sessionVars, ledger>>

(* The capture thread activates a PRO session.                             *)
Establish ==
  /\ bridge = "pro" /\ active # 0
  /\ regions' = [regions EXCEPT ![active].ready = TRUE]
  /\ UNCHANGED <<sessionVars, ledger>>

SessionStep ==
  /\ \/ Open \/ BeginDrain \/ EndDrain \/ BeginStart \/ Rebase \/ Activate \/ Quiet
     \/ BeginStop \/ Disarm \/ EndOutage \/ Deactivate \/ ResetSlots
     \/ Announce \/ (\E block \in {0, 1} : Publish(block)) \/ Establish
  /\ UNCHANGED <<bridge, hardware, visitVars, memoryVars>>

(* A recovery of the streams, by whichever thread found the error.         *)
Recover ==
  /\ hardware < MaxHardware
  /\ hardware' = hardware + 1
  /\ UNCHANGED <<bridge, sessionVars, ledger, regions, visitVars, memoryVars>>

-----------------------------------------------------------------------------
(* The hardware thread                                                     *)

At(l) == hpc = l
Go(l) == hpc' = l
Region == regions[seen]
Current == active = id.session /\ generation = id.gen /\ hardware = id.hw
Forget == lastValid' = NoIdentity
Take == guard' = TRUE /\ seen' = cell /\ id' = NoIdentity /\ blocked' = FALSE /\ got' = FALSE

(* A new cycle: the blocks of the last one are gone.                       *)
NextCycle ==
  regions' = [s \in Ids |-> [regions[s] EXCEPT !.blocks = {b - 1 : b \in @ \ {0}}]]

(* Mutant: an uncommitted block in the buffer is not noticed.              *)
BeginPrepareAnyway ==
  /\ At("idle") /\ bridge = "shared" /\ Go("hardware")
  /\ Take /\ NextCycle
  /\ prepared' = Nothing
  /\ UNCHANGED <<ledger, lastValid, repeated, observed, scratch>>

(* prepare_playback: a block that was taken and not committed is in the    *)
(* buffer, so the buffer no longer holds what was heard last.              *)
BeginPrepare ==
  /\ At("idle") /\ bridge = "shared" /\ Go("hardware")
  /\ Take /\ NextCycle
  /\ prepared' = Nothing
  /\ IF prepared.fresh THEN Forget ELSE UNCHANGED lastValid
  /\ UNCHANGED <<ledger, repeated, observed, scratch>>

(* The PRO gate is asked before the wait for the client's block ...        *)
BeginGate ==
  /\ At("idle") /\ bridge = "pro" /\ Go("waitHardware")
  /\ Take /\ NextCycle
  /\ prepared' = Nothing
  /\ UNCHANGED <<ledger, lastValid, repeated, observed, scratch>>

(* ... and again when the cycle picks up the block.                        *)
BeginSelect ==
  /\ At("waited") /\ Go("hardware")
  /\ Take
  /\ UNCHANGED <<ledger, regions, memoryVars>>

ReadHardware ==
  /\ \/ At("hardware") /\ Go(IF bridge = "shared" THEN "session" ELSE "gateSession")
     \/ At("waitHardware") /\ Go("waitSession")
  /\ id' = [id EXCEPT !.hw = hardware]
  /\ IF bridge = "shared"
       THEN /\ observed' = hardware
            /\ IF observed \notin {0, hardware} THEN Forget ELSE UNCHANGED lastValid
       ELSE UNCHANGED <<observed, lastValid>>
  /\ UNCHANGED <<guard, seen, blocked, got, ledger, regions, prepared, repeated, scratch>>

ReadGateSession ==
  /\ \/ At("gateSession") /\ Go("gate")
     \/ At("waitSession") /\ Go("waitGate")
  /\ id' = [id EXCEPT !.session = active]
  /\ UNCHANGED <<guard, seen, blocked, got, ledger, regions, memoryVars>>

(* ProPlaybackGate::synchronize                                            *)
Synchronize ==
  /\ \/ At("gate") /\ Go("session")
     \/ At("waitGate") /\ Go("leaveWait")
  /\ blocked' = (id.session # 0 /\ seen = id.session /\ lifecycleHw # id.hw)
  /\ armed' = IF blocked' THEN Cleared(armed, id.session) ELSE armed
  /\ UNCHANGED <<guard, seen, id, got, outage, heard, regions, memoryVars>>

(* SHARED leaves at once when the endpoint is not the live session's.      *)
ReadSession ==
  /\ At("session")
  /\ id' = [id EXCEPT !.session = active]
  /\ IF bridge = "shared" /\ (active = 0 \/ seen # active)
       THEN Go("leave") /\ Forget
       ELSE Go("generation") /\ UNCHANGED lastValid
  /\ UNCHANGED <<guard, seen, blocked, got, ledger, regions, prepared, repeated, observed, scratch>>

ReadGeneration ==
  /\ At("generation") /\ Go("region")
  /\ id' = [id EXCEPT !.gen = generation]
  /\ IF bridge = "pro" /\ lastValid # id' THEN Forget ELSE UNCHANGED lastValid
  /\ UNCHANGED <<guard, seen, blocked, got, ledger, regions, prepared, repeated, observed, scratch>>

(* establish_activation, then the client's state.                          *)
MayMix == Region.ready /\ Region.client = "RUNNING"
LookAtPort ==
  /\ At("region") /\ bridge = "shared"
  /\ IF MayMix THEN Go("consume") /\ UNCHANGED lastValid ELSE Go("leave") /\ Forget
  /\ regions' = [regions EXCEPT ![seen].ready = TRUE]
  /\ UNCHANGED <<readVars, ledger, prepared, repeated, observed, scratch>>

MaySelect ==
  ~blocked /\ id.session # 0 /\ seen = id.session /\ Region.ready /\ Region.client # "IDLE"
LookAtPro ==
  /\ At("region") /\ bridge = "pro"
  /\ IF MaySelect THEN Go("consume") /\ UNCHANGED lastValid ELSE Go("leave") /\ Forget
  /\ UNCHANGED <<readVars, ledger, regions, prepared, repeated, observed, scratch>>

(* A PRO block that was published after the cutoff is released unread.     *)
Consume(late) ==
  /\ At("consume") /\ Go("check")
  /\ LET found == IF bridge = "shared" THEN 0 \in Region.blocks
                  ELSE active = id.session /\ Region.client = "RUNNING" /\ 0 \in Region.blocks
     IN /\ late => found /\ bridge = "pro"
        /\ got' = (found /\ ~late)
        /\ regions' = IF found THEN [regions EXCEPT ![seen].blocks = @ \ {0}] ELSE regions
  /\ scratch' = IF got' /\ bridge = "shared" THEN [of |-> id, played |-> FALSE] ELSE scratch
  /\ UNCHANGED <<guard, seen, id, blocked, ledger, prepared, lastValid, repeated, observed>>

(* A session that is still current keeps the block it got; the three reads *)
(* are of values that do not come back while the guard is held.            *)
KeepBlock ==
  /\ At("check") /\ got /\ Current
  /\ prepared' = [of |-> id, fresh |-> TRUE]
  /\ IF bridge = "shared"
       THEN Go("leave") /\ UNCHANGED <<lastValid, repeated, scratch>>
       ELSE /\ Go("arm")
            /\ lastValid' = id
            /\ repeated' = 0
            /\ scratch' = [of |-> id, played |-> TRUE]
  /\ UNCHANGED <<readVars, ledger, regions, observed>>

DropBlock ==
  /\ At("check") /\ ~Current /\ Go("leave")
  /\ IF got \/ bridge = "shared" \/ Region.client = "STARTING"
       THEN Forget ELSE UNCHANGED lastValid
  /\ UNCHANGED <<readVars, ledger, regions, prepared, repeated, observed, scratch>>

Miss ==
  /\ At("check") /\ ~got /\ Current /\ Go("miss")
  /\ UNCHANGED <<readVars, ledger, regions, memoryVars>>

(* What a missing block is replaced with.                                  *)
Repeat ==
  IF lastValid = id /\ repeated < MaxRepeats
    THEN /\ repeated' = repeated + 1
         /\ prepared' = [of |-> id, fresh |-> FALSE]
         /\ UNCHANGED lastValid
    ELSE /\ UNCHANGED <<repeated, prepared>>
         /\ IF bridge = "shared" /\ lastValid # id THEN Forget ELSE UNCHANGED lastValid

(* A miss counts when the session is armed; SHARED goes on repeating in    *)
(* the outage that follows without counting again.                         *)
MissWhileArmed ==
  /\ At("miss") /\ armed = id.session
  /\ bridge = "pro" => Region.client = "RUNNING"
  /\ Go("count")
  /\ UNCHANGED <<readVars, ledger, regions, memoryVars>>

MissUnarmed ==
  /\ At("miss")
  /\ armed # id.session \/ (bridge = "pro" /\ Region.client # "RUNNING")
  /\ Go(IF bridge = "shared" THEN "readOutage" ELSE "leave")
  /\ IF bridge = "pro" /\ Region.client = "STARTING" THEN Forget ELSE UNCHANGED lastValid
  /\ UNCHANGED <<readVars, ledger, regions, prepared, repeated, observed, scratch>>

MissInOutage ==
  /\ At("readOutage") /\ Go("leave")
  /\ IF outage = id.session THEN Repeat ELSE UNCHANGED <<prepared, lastValid, repeated>>
  /\ UNCHANGED <<readVars, ledger, regions, observed, scratch>>

Count ==
  /\ At("count")
  /\ IF bridge = "shared"
       THEN /\ Go("beginOutage")
            /\ armed' = Cleared(armed, id.session)
            /\ heard' = FALSE
            /\ UNCHANGED <<prepared, lastValid, repeated>>
       ELSE Go("leave") /\ Repeat /\ UNCHANGED <<armed, heard>>
  /\ UNCHANGED <<readVars, outage, regions, observed, scratch>>

BeginOutage ==
  /\ At("beginOutage") /\ Go("leave")
  /\ outage' = id.session
  /\ Repeat
  /\ UNCHANGED <<readVars, armed, heard, regions, observed, scratch>>

ArmPro ==
  /\ At("arm") /\ Go("leave")
  /\ armed' = Claimed(armed, id.session)
  /\ heard' = TRUE
  /\ UNCHANGED <<readVars, outage, regions, memoryVars>>

Leave ==
  /\ \/ At("leave") /\ Go(IF bridge = "shared" THEN "prepared" ELSE "idle")
     \/ At("leaveWait") /\ Go("waited")
     \/ At("leaveCommit") /\ Go("idle")
  /\ guard' = FALSE
  /\ UNCHANGED <<seen, id, blocked, got, ledger, regions, memoryVars>>

(* The cycle ends without a commit: nothing was prepared, or the playback  *)
(* epoch has changed, or the hardware failed.                              *)
Abandon ==
  /\ hpc \in {"prepared", "waited"} /\ Go("idle")
  /\ UNCHANGED <<readVars, ledger, regions, memoryVars>>

(* commit_prepared                                                         *)
BeginCommit ==
  /\ At("prepared") /\ prepared # Nothing /\ Go("committing")
  /\ guard' = TRUE /\ seen' = cell /\ id' = prepared.of
  /\ UNCHANGED <<blocked, got, ledger, regions, memoryVars>>

Commits == seen = id.session /\ Current /\ Region.client = "RUNNING"

RefuseCommit ==
  /\ At("committing") /\ ~Commits /\ Go("leaveCommit")
  /\ prepared' = Nothing
  /\ Forget
  /\ UNCHANGED <<readVars, ledger, regions, repeated, observed, scratch>>

CommitRepeat ==
  /\ At("committing") /\ Commits /\ ~prepared.fresh /\ Go("leaveCommit")
  /\ prepared' = Nothing
  /\ UNCHANGED <<readVars, ledger, regions, lastValid, repeated, observed, scratch>>

CommitFresh ==
  /\ At("committing") /\ Commits /\ prepared.fresh /\ Go("armPort")
  /\ UNCHANGED <<readVars, ledger, regions, memoryVars>>

(* The outage ends, ...                                                    *)
Heal ==
  /\ At("armPort") /\ Go("rearm")
  /\ outage' = Cleared(outage, id.session)
  /\ UNCHANGED <<readVars, armed, heard, regions, memoryVars>>

(* ... the session is armed, and the block is mixed.                       *)
Mix ==
  /\ At("rearm") /\ Go("leaveCommit")
  /\ armed' = Claimed(armed, id.session)
  /\ lastValid' = id
  /\ repeated' = 0
  /\ prepared' = Nothing
  /\ scratch' = [scratch EXCEPT !.played = TRUE]
  /\ heard' = TRUE
  /\ UNCHANGED <<readVars, outage, regions, observed>>

CycleStep ==
  \/ BeginPrepare \/ BeginGate \/ BeginSelect
  \/ ReadHardware \/ ReadGateSession \/ Synchronize \/ ReadSession \/ ReadGeneration
  \/ LookAtPort \/ LookAtPro \/ (\E late \in BOOLEAN : Consume(late))
  \/ KeepBlock \/ DropBlock \/ Miss \/ MissWhileArmed \/ MissUnarmed \/ MissInOutage
  \/ Count \/ BeginOutage \/ ArmPro \/ Leave \/ Abandon
  \/ BeginCommit \/ RefuseCommit \/ CommitRepeat \/ CommitFresh \/ Heal \/ Mix

(* A guard that is dropped releases the session thread that waits for it.  *)
HardwareStep ==
  /\ CycleStep
  /\ drains' = (drains /\ guard')
  /\ UNCHANGED <<bridge, endpointVars, lifeVars, pc, startHw, hardware>>

Next == SessionStep \/ Recover \/ HardwareStep

Spec == Init /\ [][Next]_vars

-----------------------------------------------------------------------------
(* Properties                                                              *)

Identities == [session : Ids, gen : 0..MaxGeneration, hw : 0..MaxHardware]

(* The types of the variables; of a bridge's memory, that blocks repeat at *)
(* most MAX_REPEATED_PLAYBACK_PERIODS times in a row.                      *)
TypeOK ==
  /\ bridge \in Bridges
  /\ {session, cell, active, armed, outage, seen} \subseteq Ids
  /\ generation \in 0..MaxGeneration
  /\ {lifecycleHw, startHw, hardware, observed} \subseteq 0..MaxHardware
  /\ regions \in [Ids -> [client : {"IDLE", "STARTING", "RUNNING"}, ready : BOOLEAN,
                          blocks : SUBSET {0, 1}]]
  /\ {drains, guard, blocked, got, heard} \subseteq BOOLEAN
  /\ {id, lastValid} \subseteq Identities
  /\ prepared \in [of : Identities, fresh : BOOLEAN]
  /\ scratch \in [of : Identities, played : BOOLEAN]
  /\ repeated \in 0..MaxRepeats

(* A repeated block is the one that was heard last, in the same lifecycle  *)
(* under the same hardware generation: a block that was taken for a cycle  *)
(* and never committed is not played later as if it had been heard.        *)
RepeatsWhatWasHeard ==
  prepared # Nothing /\ ~prepared.fresh => scratch = [of |-> prepared.of, played |-> TRUE]

(* A miss is counted only of a session of which something was heard since  *)
(* it started, and on a SHARED port once for each interruption.            *)
CountedOnce == hpc = "count" => heard

(* Between operations and cycles, armed and outage name the live session   *)
(* or nobody, never both; and a bridge that would repeat a block for the   *)
(* live session has it armed or in an outage, so that the miss is counted. *)
(* A PRO session started under an older hardware generation is behind its  *)
(* gate and repeats nothing.                                               *)
Gated == bridge = "pro" /\ lifecycleHw # hardware
MissesAreTracked ==
  pc \in {"closed", "open", "running", "quiet"} /\ hpc \in {"idle", "prepared", "waited"} =>
    /\ {armed, outage} \subseteq {0, active}
    /\ armed = outage => armed = 0
    /\ active # 0 /\ ~Gated /\ lastValid = [session |-> active, gen |-> generation, hw |-> hardware] =>
         active \in {armed, outage}
=============================================================================
