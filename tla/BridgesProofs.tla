-------------------------- MODULE BridgesProofs --------------------------
(***************************************************************************)
(* The two parts of MCBridges: the lifecycle of sessions under the running *)
(* cycle loops (SessionLifecycle), then what a bridge plays and counts     *)
(* when a block is missing (PlaybackFallback).                             *)
(***************************************************************************)
EXTENDS MCBridges, TLAPS

(***************************************************************************)
(* For every number of sessions, ports and inputs, every set of cycle      *)
(* loops and every number of lifecycles: a STOP or CLOSE that returned     *)
(* leaves silence, slots are never reset under a hardware thread, and      *)
(* nothing stays armed for a session that is gone.                         *)
(*                                                                         *)
(* The argument.  A stream has one session at a time.  What a hardware     *)
(* thread picked up under a guard belongs to a lifecycle that is live, or  *)
(* whose session still has to drain that guard.  What lies in the buffer   *)
(* of an open commit belongs to a lifecycle whose session has not passed   *)
(* the barrier of that commit.  What is staged from one commit to the next *)
(* is played only under the epoch it was made under, and every session     *)
(* that stops advances the epoch first.                                    *)
(***************************************************************************)

(* Where a session is on a stream, and where its audio is live.            *)
Live == SessionStates \ {"new", "closed"}
Running == {"startDisarm", "running", "deactivate"}
Fresh == Running \union {"bump"}

(* One session owns a stream from OPEN to the end of CLOSE.                *)
SingleSession ==
  /\ \A s \in Sessions : pc[s] \in Live =>
       at[s] \in Streams /\ owner[at[s]] \in {s, Closing}
  /\ \A s, o \in Sessions :
       pc[s] \in Live /\ pc[o] \in Live /\ at[s] = at[o] => s = o

(* A stream is active for the session that runs on it, under a lifecycle   *)
(* that has not been stopped.                                              *)
Lifecycles ==
  /\ \A st \in Streams : active[st] # None =>
       at[active[st]] = st /\ pc[active[st]] \in Running
  /\ \A s \in Sessions : pc[s] \in Running => active[at[s]] = s
  /\ \A s \in Sessions : pc[s] \in Fresh \union {"activate"} =>
       generation[at[s]] > retired[at[s]]
  /\ \A s \in Sessions : pc[s] = "starting" => generation[at[s]] < MaxStarts
  /\ \A st \in Streams : retired[st] <= generation[st]

(* A hardware thread's place, its guard and its pick belong together.      *)
VisitShape(t) ==
  /\ pos[t] = "out" <=> guard[t] = None
  /\ pos[t] \in {"out", "in"} => picked[t] = NoPick
  /\ pos[t] = "copying" => picked[t] # NoPick
  /\ picked[t] # NoPick => picked[t].session # None

PreparedShape == \A p \in Ports : prepared[p] # NoPick => prepared[p].session # None

(* The playback thread visits one kind of stream in each of its phases.    *)
VisitPlace ==
  /\ pos[P] # "out" => rpc \in {"prepare", "process", "commit"}
  /\ pos[P] # "out" /\ rpc \in {"prepare", "commit"} => guard[P] \in Ports
  /\ pos[P] # "out" /\ rpc = "process" => guard[P] = Pro

Visits == (\A t \in Threads : VisitShape(t)) /\ PreparedShape /\ VisitPlace

(* Where the playback thread's buffer is the one of an open commit.        *)
InCommit ==
  \/ rpc \in {"tail", "process", "commit", "settle", "recheck", "target", "write"}
  \/ rpc = "prepare" /\ ~EarlyMix

Phases ==
  /\ InCommit \/ rpc = "epoch" => commitOpen
  /\ rpc \in {"settle", "recheck", "abandon"} => mode = "split"
  /\ rpc = "abandon" => madeUnder = None
  /\ rpc = "target" => EarlyMix
  /\ rpc = "tail" => mode = "packet"
  /\ cycleEpoch <= epoch
  /\ madeUnder # None => madeUnder <= epoch
  /\ mode = "split" /\ rpc = "recheck" => madeUnder = cycleEpoch
  /\ mode = "split" /\ rpc = "write" => madeUnder = cycleEpoch \/ buffer = Silence
  /\ mode = "packet" /\ madeUnder = None /\ rpc \in {"idle", "begin", "epoch", "recover"}
       => buffer = Silence

(* What a thread picked up is of a lifecycle that is live, or whose        *)
(* session waits for this thread's guard; the playback thread's is live as *)
(* long as the epoch of its commit stands.                                 *)
PickIsHeld(t) ==
  LET s == picked[t].session
      st == guard[t]
  IN picked[t] # NoPick =>
       /\ s \in Sessions /\ at[s] = st
       /\ picked[t].gen = generation[st] /\ picked[t].gen > retired[st]
       /\ \/ pc[s] \in Fresh \union {"drain"}
          \/ pc[s] = "drainWait" /\ t \in draining[s]
       /\ t = P /\ cycleEpoch = epoch => pc[s] \in Fresh

PicksAreHeld == \A t \in Threads : PickIsHeld(t)

(* What the buffer holds of a stream is of the lifecycle of a session that *)
(* has yet to wait for the commit, or waits for it.                        *)
Awaited(s) ==
  \/ pc[s] \in Fresh \union {"drain", "drainWait", "barrier"}
  \/ pc[s] = "barrierWait" /\ barrier[s]

Holds(s, st) ==
  at[s] = st /\ buffer[st] = generation[st] /\ buffer[st] > retired[st]

CommitIsAwaited ==
  InCommit => \A st \in Playbacks : buffer[st] # 0 =>
    \E s \in Sessions :
      /\ Holds(s, st) /\ Awaited(s)
      /\ cycleEpoch = epoch => pc[s] \in Fresh

(* Audio staged between two commits is live while its epoch stands.        *)
StagedIsFresh ==
  mode \in {"packet", "split"} /\ rpc \in {"idle", "begin", "epoch", "recover"}
    /\ madeUnder = epoch =>
    \A st \in Playbacks : buffer[st] # 0 =>
      \E s \in Sessions : Holds(s, st) /\ pc[s] \in Fresh

LifecycleInv ==
  /\ TypeOK /\ SingleSession /\ Lifecycles /\ Visits /\ Phases /\ PicksAreHeld
  /\ CommitIsAwaited /\ StagedIsFresh /\ ArmedIsLive

-----------------------------------------------------------------------------
LEMMA PickTypes ==
  /\ NoPick \in Picks
  /\ Silence \in [Playbacks -> 0..MaxStarts]
  /\ \A s \in Sessions, g \in 0..MaxStarts : [session |-> s, gen |-> g] \in Picks
  /\ \A k \in Picks : k.session \in Sessions \union {None} /\ k.gen \in 0..MaxStarts
BY LifecycleAssumption DEF NoPick, Silence, Picks

LEMMA InitLifecycle == Init => LifecycleInv
<1> SUFFICES ASSUME Init PROVE LifecycleInv
  OBVIOUS
<1> USE LifecycleAssumption DEF Init
<1>1. SessionTypes
  BY DEF SessionTypes, SessionStates
<1>2. VisitTypes /\ CycleTypes
  BY PickTypes DEF VisitTypes, CycleTypes, CycleStates
<1>3. SingleSession /\ Lifecycles
  BY DEF SingleSession, Lifecycles, Live, Running, Fresh, SessionStates
<1>4. Visits /\ Phases /\ PicksAreHeld
  BY DEF Visits, VisitShape, PreparedShape, VisitPlace, Phases, PicksAreHeld, PickIsHeld, InCommit, EarlyMix, Silence, P, Threads
<1>5. CommitIsAwaited /\ StagedIsFresh /\ ArmedIsLive
  BY DEF CommitIsAwaited, StagedIsFresh, InCommit, EarlyMix, Silence, ArmedIsLive
<1>6. QED
  BY <1>1, <1>2, <1>3, <1>4, <1>5 DEF LifecycleInv, TypeOK

-----------------------------------------------------------------------------
(* What the hardware threads leave alone.                                  *)

LEMMA VisitKeeps ==
  ASSUME NEW t, (\E st : Enter(t, st)) \/ Look(t) \/ Recheck(t) \/ Arm(t)
  PROVE  /\ UNCHANGED <<sessionVars, barrier, mode, draining, cycleVars>>
         /\ UNCHANGED armed \/ Recheck(t) \/ Arm(t)
<1>1. CASE \E st : Enter(t, st)
  BY <1>1 DEF Enter
<1>2. CASE Look(t)
  BY <1>2 DEF Look
<1>3. CASE Recheck(t)
  <2>1. UNCHANGED <<sessionVars, barrier, mode, draining, cycleVars>>
    BY <1>3 DEF Recheck
  <2>2. QED
    BY <1>3, <2>1
<1>4. CASE Arm(t)
  <2>1. UNCHANGED <<sessionVars, barrier, mode, draining, cycleVars>>
    BY <1>4 DEF Arm
  <2>2. QED
    BY <1>4, <2>1
<1>5. QED
  BY <1>1, <1>2, <1>3, <1>4

LEMMA CaptureFrame ==
  ASSUME CaptureStep
  PROVE  /\ UNCHANGED <<sessionVars, barrier, mode, cycleVars>>
         /\ UNCHANGED draining \/ Leave("capture")
         /\ UNCHANGED armed \/ Recheck("capture") \/ Arm("capture")
<1>1. CASE pos["capture"] = "done" /\ Leave("capture")
              /\ UNCHANGED <<sessionVars, armed, barrier, mode, cycleVars>>
  BY <1>1
<1>2. QED
  BY <1>1, VisitKeeps DEF CaptureStep

LEMMA VisitFrame ==
  ASSUME PreparePort \/ ProcessPro \/ CommitPort
  PROVE  /\ UNCHANGED <<sessionVars, barrier, mode, commitOpen, cycleEpoch, announced, madeUnder>>
         /\ UNCHANGED draining \/ Leave(P)
         /\ UNCHANGED armed \/ Recheck(P) \/ Arm(P)
<1>1. CASE (\E st : Enter(P, st)) \/ Look(P) \/ Recheck(P) \/ Arm(P)
  BY <1>1, VisitKeeps DEF cycleVars
<1>2. CASE /\ Leave(P) \/ UNCHANGED draining
           /\ UNCHANGED <<sessionVars, armed, barrier, mode, commitOpen, cycleEpoch, announced,
                          madeUnder>>
  BY <1>2
<1>3. CASE PreparePort
  BY <1>1, <1>2, <1>3 DEF PreparePort, playSession
<1>4. CASE ProcessPro
  BY <1>1, <1>2, <1>4 DEF ProcessPro, playSession
<1>5. CASE CommitPort
  BY <1>1, <1>2, <1>5 DEF CommitPort, playSession
<1>6. QED
  BY <1>3, <1>4, <1>5

LEMMA LoopFrame ==
  ASSUME CycleStep
  PROVE  /\ UNCHANGED <<sessionVars, mode>>
         /\ UNCHANGED draining \/ Leave(P)
         /\ UNCHANGED armed \/ Recheck(P) \/ Arm(P)
         /\ \/ UNCHANGED barrier
            \/ barrier' = [s \in Sessions |-> FALSE] /\ UNCHANGED <<armed, draining>>
<1>1. CASE PreparePort \/ ProcessPro \/ CommitPort
  BY <1>1, VisitFrame
<1>2. CASE ~(PreparePort \/ ProcessPro \/ CommitPort)
  BY <1>2 DEF CycleStep, StartCycle, BeginCommit, PacketEpoch, SplitEpoch,
     PreparedAll, TailWritten, CommittedAll, Settle, RecheckEpoch, Abandon, ReachTarget,
     Written, WriteFails, Recovered, EndCommit, playSession
<1>3. QED
  BY <1>1, <1>2

(* One lemma per conjunct of the inductive invariant.                      *)

(* What a step of the visits does to the variables of the visits.          *)
LEMMA VisitTypesKept ==
  ASSUME TypeOK, Visits, NEW t \in Threads
  PROVE  /\ \A st \in Streams : Enter(t, st) => VisitTypes'
         /\ Look(t) \/ Recheck(t) \/ Arm(t) \/ Leave(t) => VisitTypes'
<1> USE LifecycleAssumption DEF TypeOK, VisitTypes
<1>1. ASSUME NEW st \in Streams, Enter(t, st)
      PROVE  VisitTypes'
  BY <1>1 DEF Enter, SessionTypes
<1>2. CASE Look(t)
  <2>1. CASE UNCHANGED picked
    BY <1>2, <2>1 DEF Look
  <2>2. CASE picked' = [picked EXCEPT ![t] = [session |-> seen[t], gen |-> generation[guard[t]]]]
              /\ active[guard[t]] # None /\ active[guard[t]] = seen[t]
    <3>1. guard[t] \in Streams
      BY <1>2 DEF Look, Visits, VisitShape
    <3>2. picked'[t] \in Picks
      BY <2>2, <3>1, PickTypes DEF SessionTypes
    <3>3. QED
      BY <1>2, <2>2, <3>2 DEF Look
  <2>3. QED
    BY <1>2, <2>1, <2>2 DEF Look
<1>3. CASE Recheck(t)
  BY <1>3, PickTypes DEF Recheck
<1>4. CASE Arm(t)
  BY <1>4 DEF Arm
<1>5. CASE Leave(t)
  BY <1>5, PickTypes DEF Leave
<1>6. QED
  BY <1>1, <1>2, <1>3, <1>4, <1>5

LEMMA StepSessionTypes == LifecycleInv /\ [Next]_vars => SessionTypes'
<1> SUFFICES ASSUME LifecycleInv, [Next]_vars PROVE SessionTypes'
  OBVIOUS
<1> USE LifecycleAssumption DEF LifecycleInv, TypeOK, SessionTypes
<1>1. ASSUME NEW s \in Sessions, NEW st \in Streams, Open(s, st)
      PROVE  SessionTypes'
  BY <1>1 DEF Open, Acquire, Goto, SessionStates
<1>2. ASSUME NEW s \in Sessions, Start(s) \/ Stop(s) \/ Close(s)
      PROVE  SessionTypes'
  BY <1>2 DEF Start, Stop, Close, Acquire, Goto, SessionStates
<1>3. ASSUME NEW s \in Sessions, SessionStep(s)
      PROVE  SessionTypes'
  <2>1. CASE Publish(s) \/ BeginDrain(s) \/ EndDrain(s)
    BY <2>1 DEF Publish, BeginDrain, EndDrain, Goto, Release, SessionStates, Threads
  <2>2. CASE NextGeneration(s)
    <3>1. at[s] \in Streams /\ generation[at[s]] + 1 \in 0..MaxStarts
      BY <2>2 DEF NextGeneration, Lifecycles, SingleSession, Live, SessionStates
    <3>2. generation' \in [Streams -> 0..MaxStarts]
      BY <2>2, <3>1 DEF NextGeneration
    <3>3. QED
      BY <2>2, <3>2 DEF NextGeneration, Goto, SessionStates
  <2>3. CASE Activate(s) \/ StartDisarm(s) \/ Deactivate(s) \/ BumpEpoch(s)
    BY <2>3 DEF Activate, StartDisarm, Deactivate, BumpEpoch, Goto, Release, SessionStates
  <2>4. CASE LookAtBarrier(s) \/ PassBarrier(s) \/ Disarm(s)
    BY <2>4 DEF LookAtBarrier, PassBarrier, Disarm, Goto, SessionStates, CycleTypes
  <2>5. CASE FinishStop(s)
    BY <2>5 DEF FinishStop, Goto, Release, SessionStates
  <2>6. QED
    BY <1>3, <2>1, <2>2, <2>3, <2>4, <2>5 DEF SessionStep
<1>4. ASSUME NEW t \in Threads, UNCHANGED sessionVars, UNCHANGED barrier,
             UNCHANGED draining \/ Leave(t),
             UNCHANGED armed \/ Recheck(t) \/ Arm(t)
      PROVE  SessionTypes'
  <2>1. picked[t].session \in Sessions \union {None}
    BY PickTypes DEF VisitTypes
  <2>2. armed' \in [Streams -> Sessions \union {None}]
    BY <1>4, <2>1 DEF Recheck, Arm
  <2>3. draining' \in [Sessions -> SUBSET Threads]
    BY <1>4 DEF Leave
  <2>4. QED
    BY <1>4, <2>2, <2>3 DEF sessionVars
<1> HIDE DEF SessionTypes
<1>5. CASE CaptureStep
  BY <1>4, <1>5, CaptureFrame DEF Threads
<1>6. CASE CycleStep
  <2>1. P \in Threads
    BY DEF P, Threads
  <2>2. CASE UNCHANGED barrier
    BY <1>4, <1>6, <2>1, <2>2, LoopFrame
  <2>3. CASE barrier' = [s \in Sessions |-> FALSE] /\ UNCHANGED <<armed, draining>>
    BY <1>6, <2>3, LoopFrame DEF sessionVars, SessionTypes
  <2>4. QED
    BY <1>6, <2>2, <2>3, LoopFrame
<1>7. CASE UNCHANGED vars
  BY <1>7 DEF vars, sessionVars, SessionTypes
<1>8. QED
  BY <1>1, <1>2, <1>3, <1>5, <1>6, <1>7 DEF Next

LEMMA StepVisitTypes == LifecycleInv /\ [Next]_vars => VisitTypes'
<1> SUFFICES ASSUME LifecycleInv, [Next]_vars PROVE VisitTypes'
  OBVIOUS
<1> USE DEF LifecycleInv
<1>1. CASE UNCHANGED visitVars
  BY <1>1 DEF TypeOK, VisitTypes, visitVars
<1>2. ASSUME NEW s \in Sessions, SessionStep(s) \/ Start(s) \/ Stop(s) \/ Close(s)
      PROVE  VisitTypes'
  BY <1>1, <1>2 DEF SessionStep, Publish, BeginDrain, EndDrain, NextGeneration, Activate,
     StartDisarm, Deactivate, BumpEpoch, LookAtBarrier, PassBarrier, Disarm, FinishStop,
     Start, Stop, Close
<1>3. CASE \E s \in Sessions, st \in Streams : Open(s, st)
  BY <1>1, <1>3 DEF Open
<1>4. CASE CaptureStep
  BY <1>4, VisitTypesKept DEF CaptureStep, Captured, Streams, Playbacks, Threads
<1>5. CASE CycleStep
  <2>1. CASE PreparePort \/ ProcessPro
    BY <2>1, VisitTypesKept DEF PreparePort, ProcessPro, Streams, Playbacks, Threads, P,
       TypeOK, CycleTypes
  <2>2. CASE CommitPort
    <3>1. CASE pos[P] = "in" /\ CheckPrepared(guard[P]) /\ UNCHANGED <<guard, seen>>
      <4>1. guard[P] \in Ports /\ P \in Threads
        BY <2>2, <3>1 DEF CommitPort, Visits, VisitShape, VisitPlace, P, Threads
      <4>2. picked' \in [Threads -> Picks]
        BY <3>1, <4>1 DEF CheckPrepared, TypeOK, VisitTypes, CycleTypes
      <4>3. pos' \in [Threads -> {"out", "in", "copying", "arming", "done"}]
        BY <3>1, <4>1 DEF CheckPrepared, TypeOK, VisitTypes
      <4>4. QED
        BY <3>1, <4>2, <4>3 DEF TypeOK, VisitTypes
    <3>2. QED
      BY <1>1, <2>2, <3>1, VisitTypesKept DEF CommitPort, Streams, Playbacks, Threads, P,
         TypeOK, CycleTypes
  <2>3. CASE ~(PreparePort \/ ProcessPro \/ CommitPort)
    BY <1>1, <1>5, <2>3 DEF CycleStep, StartCycle, BeginCommit, PacketEpoch, SplitEpoch,
       PreparedAll, TailWritten, CommittedAll, Settle, RecheckEpoch, Abandon, ReachTarget,
       Written, WriteFails, Recovered
  <2>4. QED
    BY <2>1, <2>2, <2>3
<1>6. QED
  BY <1>1, <1>2, <1>3, <1>4, <1>5 DEF Next, vars

LEMMA StepCycleTypes == LifecycleInv /\ [Next]_vars => CycleTypes'
<1> SUFFICES ASSUME LifecycleInv, [Next]_vars PROVE CycleTypes'
  OBVIOUS
<1> USE PickTypes DEF LifecycleInv
<1>1. CASE UNCHANGED <<mode, cycleVars>>
  BY <1>1 DEF TypeOK, CycleTypes, cycleVars
<1>2. ASSUME NEW s \in Sessions, SessionStep(s) \/ Start(s) \/ Stop(s) \/ Close(s)
      PROVE  CycleTypes'
  BY <1>1, <1>2 DEF SessionStep, Publish, BeginDrain, EndDrain, NextGeneration, Activate,
     StartDisarm, Deactivate, BumpEpoch, LookAtBarrier, PassBarrier, Disarm, FinishStop,
     Start, Stop, Close
<1>3. CASE \E s \in Sessions, st \in Streams : Open(s, st)
  BY <1>1, <1>3 DEF Open
<1>4. CASE CaptureStep
  BY <1>1, <1>4, CaptureFrame
<1>5. CASE CycleStep
  <2> USE DEF TypeOK, CycleTypes
  <2>1. CASE StartCycle \/ BeginCommit \/ PacketEpoch \/ SplitEpoch
    BY <2>1 DEF StartCycle, BeginCommit, PacketEpoch, SplitEpoch, CycleStates, SessionTypes,
       playSession
  <2>2. CASE PreparedAll \/ TailWritten \/ CommittedAll \/ Settle \/ RecheckEpoch
    BY <2>2 DEF PreparedAll, TailWritten, CommittedAll, Settle, RecheckEpoch, CycleStates,
       SessionTypes, playSession
  <2>3. CASE Abandon \/ ReachTarget \/ Written \/ WriteFails \/ Recovered
    BY <2>3 DEF Abandon, ReachTarget, Written, WriteFails, Recovered, EndCommit, CycleStates,
       playSession
  <2>4. CASE PreparePort \/ ProcessPro \/ CommitPort
    <3>1. CASE UNCHANGED cycleVars
      BY <1>1, <2>4, <3>1, VisitFrame
    <3>2. CASE /\ prepared' \in {prepared, [prepared EXCEPT ![guard[P]] = picked[P]],
                                 [prepared EXCEPT ![guard[P]] = NoPick]}
               /\ buffer' \in {buffer, [buffer EXCEPT ![guard[P]] = picked[P].gen],
                               [buffer EXCEPT ![Pro] = picked[P].gen]}
               /\ todo' \subseteq Ports
               /\ rpc' \in {rpc, "prepare", "commit"}
      <4>1. picked[P] \in Picks
        BY DEF VisitTypes, P, Threads
      <4>2. prepared' \in [Ports -> Picks] /\ buffer' \in [Playbacks -> 0..MaxStarts]
        BY <3>2, <4>1
      <4>3. QED
        BY <2>4, <3>2, <4>2, VisitFrame DEF CycleStates
    <3>3. QED
      BY <2>4, <3>1, <3>2, VisitKeeps DEF PreparePort, ProcessPro, CommitPort, CheckPrepared
  <2>5. QED
    BY <1>5, <2>1, <2>2, <2>3, <2>4 DEF CycleStep
<1>6. QED
  BY <1>1, <1>2, <1>3, <1>4, <1>5 DEF Next, vars

LEMMA StepTypeOK == LifecycleInv /\ [Next]_vars => TypeOK'
BY StepSessionTypes, StepVisitTypes, StepCycleTypes DEF TypeOK

LEMMA HardwareKeepsSessions ==
  ASSUME CaptureStep \/ CycleStep
  PROVE  UNCHANGED sessionVars
BY CaptureFrame, LoopFrame

LEMMA StepOneSession == LifecycleInv /\ [Next]_vars => SingleSession'
<1> SUFFICES ASSUME LifecycleInv, [Next]_vars PROVE SingleSession'
  OBVIOUS
<1> USE LifecycleAssumption DEF LifecycleInv, TypeOK, SessionTypes, SingleSession, Live, SessionStates
<1>1. ASSUME NEW s \in Sessions, NEW st \in Streams, Open(s, st)
      PROVE  SingleSession'
  <2>1. \A o \in Sessions : pc[o] \in Live => at[o] # st
    BY <1>1 DEF Open
  <2>2. QED
    BY <1>1, <2>1 DEF Open, Goto
<1>2. ASSUME NEW s \in Sessions, Start(s) \/ Stop(s) \/ Close(s)
      PROVE  SingleSession'
  BY <1>2 DEF Start, Stop, Close, Goto
<1>3. ASSUME NEW s \in Sessions, SessionStep(s)
      PROVE  SingleSession'
  <2>1. CASE FinishStop(s)
    BY <2>1 DEF FinishStop, Goto
  <2>2. CASE ~FinishStop(s)
    BY <1>3, <2>2 DEF SessionStep, Publish, BeginDrain, EndDrain, NextGeneration, Activate,
       StartDisarm, Deactivate, BumpEpoch, LookAtBarrier, PassBarrier, Disarm, Goto
  <2>3. QED
    BY <2>1, <2>2
<1>4. CASE CaptureStep \/ CycleStep \/ UNCHANGED vars
  BY <1>4, HardwareKeepsSessions DEF vars, sessionVars
<1>5. QED
  BY <1>1, <1>2, <1>3, <1>4 DEF Next

LEMMA StepLifecycles == LifecycleInv /\ [Next]_vars => Lifecycles'
<1> SUFFICES ASSUME LifecycleInv, [Next]_vars PROVE Lifecycles'
  OBVIOUS
<1> USE LifecycleAssumption
    DEF LifecycleInv, TypeOK, SessionTypes, SingleSession, Lifecycles, Live, Running, Fresh, SessionStates
<1>1. ASSUME NEW s \in Sessions, NEW st \in Streams, Open(s, st)
      PROVE  Lifecycles'
  BY <1>1 DEF Open, Goto
<1>2. ASSUME NEW s \in Sessions, Start(s) \/ Stop(s) \/ Close(s)
      PROVE  Lifecycles'
  BY <1>2 DEF Start, Stop, Close, Goto
<1>3. ASSUME NEW s \in Sessions, SessionStep(s)
      PROVE  Lifecycles'
  <2>1. CASE NextGeneration(s)
    BY <2>1 DEF NextGeneration, Goto
  <2>2. CASE Activate(s)
    BY <2>2 DEF Activate, Goto
  <2>3. CASE Deactivate(s)
    BY <2>3 DEF Deactivate, Goto
  <2>4. CASE FinishStop(s)
    BY <2>4 DEF FinishStop, Goto
  <2>5. CASE Publish(s) \/ BeginDrain(s) \/ EndDrain(s) \/ StartDisarm(s)
    BY <2>5 DEF Publish, BeginDrain, EndDrain, StartDisarm, Goto
  <2>6. CASE BumpEpoch(s) \/ LookAtBarrier(s) \/ PassBarrier(s) \/ Disarm(s)
    BY <2>6 DEF BumpEpoch, LookAtBarrier, PassBarrier, Disarm, Goto
  <2>7. QED
    BY <1>3, <2>1, <2>2, <2>3, <2>4, <2>5, <2>6 DEF SessionStep
<1>4. CASE CaptureStep \/ CycleStep \/ UNCHANGED vars
  BY <1>4, HardwareKeepsSessions DEF vars, sessionVars
<1>5. QED
  BY <1>1, <1>2, <1>3, <1>4 DEF Next

LEMMA SessionKeepsCycle ==
  ASSUME NEW s \in Sessions,
         (\E st \in Streams : Open(s, st)) \/ Start(s) \/ Stop(s) \/ Close(s) \/ SessionStep(s)
  PROVE  UNCHANGED <<mode, visitVars, cycleVars>>
BY DEF Open, Start, Stop, Close, SessionStep, Publish, BeginDrain, EndDrain, NextGeneration,
   Activate, StartDisarm, Deactivate, BumpEpoch, LookAtBarrier, PassBarrier, Disarm, FinishStop

LEMMA VisitShapeKept ==
  ASSUME LifecycleInv, NEW t \in Threads,
         (\E st \in Streams : Enter(t, st)) \/ Look(t) \/ Recheck(t) \/ Arm(t) \/ Leave(t)
  PROVE  \A u \in Threads : VisitShape(u)'
<1> USE LifecycleAssumption DEF LifecycleInv, TypeOK, VisitTypes, Visits, VisitShape
<1>1. CASE \E st \in Streams : Enter(t, st)
  BY <1>1 DEF Enter
<1>2. CASE Look(t)
  <2>1. picked'[t] # NoPick => picked'[t].session = seen[t] /\ seen[t] # None
    BY <1>2 DEF Look
  <2>2. pos'[t] = "copying" => picked'[t].session # None
    BY <1>2 DEF Look
  <2>3. \A u \in Threads : u # t => picked'[u] = picked[u] /\ pos'[u] = pos[u]
    BY <1>2 DEF Look
  <2>4. QED
    BY <1>2, <2>1, <2>2, <2>3 DEF Look, NoPick
<1>3. CASE Recheck(t)
  BY <1>3 DEF Recheck
<1>4. CASE Arm(t)
  BY <1>4 DEF Arm
<1>5. CASE Leave(t)
  BY <1>5 DEF Leave
<1>6. QED
  BY <1>1, <1>2, <1>3, <1>4, <1>5

LEMMA StepVisits == LifecycleInv /\ [Next]_vars => Visits'
<1> SUFFICES ASSUME LifecycleInv, [Next]_vars PROVE Visits'
  OBVIOUS
<1> USE LifecycleAssumption DEF LifecycleInv, TypeOK, VisitTypes, CycleTypes, Visits, VisitShape, PreparedShape, VisitPlace
<1>1. CASE UNCHANGED <<mode, visitVars, cycleVars>>
  BY <1>1 DEF visitVars, cycleVars
<1>2. CASE CaptureStep
  <2>1. \A u \in Threads : VisitShape(u)'
    BY <1>2, VisitShapeKept DEF CaptureStep, Captured, Streams, Playbacks, Threads
  <2>2. pos'[P] = pos[P] /\ guard'[P] = guard[P]
    BY <1>2 DEF CaptureStep, Enter, Look, Recheck, Leave, Threads, P
  <2>3. QED
    BY <1>2, <2>1, <2>2, CaptureFrame DEF cycleVars, PreparedShape, VisitPlace
<1>3. CASE CycleStep
  <2>1. P \in Threads
    BY DEF P, Threads
  <2>2. CASE PreparePort
    <3>1. CASE pos[P] = "out" /\ \E p \in todo : Enter(P, p)
      BY <2>1, <2>2, <3>1, VisitKeeps, VisitShapeKept
      DEF PreparePort, Enter, cycleVars, Streams, Playbacks
    <3>2. CASE Look(P) \/ Recheck(P)
      <4>1. UNCHANGED <<guard, cycleVars>> /\ pos[P] # "out" /\ (\A u \in Threads : VisitShape(u)')
        BY <2>1, <3>2, VisitKeeps, VisitShapeKept DEF Look, Recheck
      <4>2. QED
        BY <2>1, <2>2, <4>1 DEF PreparePort, cycleVars
    <3>3. CASE Leave(P) /\ rpc' = rpc /\ prepared' = [prepared EXCEPT ![guard[P]] = picked[P]]
      <4>1. \A u \in Threads : VisitShape(u)'
        BY <2>1, <3>3, VisitShapeKept
      <4>2. PreparedShape' /\ pos'[P] = "out"
        BY <2>1, <3>3 DEF Leave
      <4>3. QED
        BY <4>1, <4>2
    <3>4. QED
      BY <2>2, <3>1, <3>2, <3>3 DEF PreparePort
  <2>3. CASE ProcessPro
    <3>1. CASE Enter(P, Pro)
      BY <2>1, <2>3, <3>1, VisitKeeps, VisitShapeKept
      DEF ProcessPro, Enter, cycleVars, Streams, Playbacks
    <3>2. CASE Look(P) \/ Recheck(P) \/ Arm(P)
      <4>1. UNCHANGED <<guard, cycleVars>> /\ pos[P] # "out" /\ (\A u \in Threads : VisitShape(u)')
        BY <2>1, <3>2, VisitKeeps, VisitShapeKept DEF Look, Recheck, Arm
      <4>2. QED
        BY <2>1, <2>3, <4>1 DEF ProcessPro, cycleVars
    <3>3. CASE Leave(P) /\ UNCHANGED prepared
      <4>1. \A u \in Threads : VisitShape(u)'
        BY <2>1, <3>3, VisitShapeKept
      <4>2. PreparedShape' /\ pos'[P] = "out"
        BY <2>1, <3>3 DEF Leave
      <4>3. QED
        BY <4>1, <4>2
    <3>4. QED
      BY <2>3, <3>1, <3>2, <3>3 DEF ProcessPro
  <2>4. CASE CommitPort
    <3>1. CASE \E p \in todo : Enter(P, p)
      BY <2>1, <2>4, <3>1, VisitKeeps, VisitShapeKept
      DEF CommitPort, Enter, cycleVars, Streams, Playbacks
    <3>2. CASE UNCHANGED <<visitVars, rpc, prepared>>
      BY <3>2 DEF visitVars
    <3>3. CASE pos[P] = "in" /\ CheckPrepared(guard[P]) /\ UNCHANGED <<guard, seen, rpc>>
      <4>1. guard[P] \in Ports /\ picked[P] = NoPick
        BY <2>1, <2>4, <3>3 DEF CommitPort
      <4>2. PreparedShape'
        BY <3>3, <4>1 DEF CheckPrepared
      <4>3. picked'[P] \in {NoPick, prepared[guard[P]]} /\ pos'[P] \in {"arming", "done"}
        BY <2>1, <3>3, <4>1 DEF CheckPrepared
      <4>4. \A u \in Threads : u # P => picked'[u] = picked[u] /\ pos'[u] = pos[u]
        BY <3>3 DEF CheckPrepared
      <4>5. \A u \in Threads : VisitShape(u)'
        BY <2>1, <3>3, <4>1, <4>3, <4>4
      <4>6. QED
        BY <2>4, <3>3, <4>1, <4>2, <4>5 DEF CommitPort
    <3>4. CASE Arm(P)
      <4>1. UNCHANGED <<guard, cycleVars>> /\ pos[P] # "out" /\ (\A u \in Threads : VisitShape(u)')
        BY <2>1, <3>4, VisitKeeps, VisitShapeKept DEF Arm
      <4>2. QED
        BY <2>1, <2>4, <4>1 DEF CommitPort, cycleVars
    <3>5. CASE Leave(P) /\ UNCHANGED prepared
      <4>1. \A u \in Threads : VisitShape(u)'
        BY <2>1, <3>5, VisitShapeKept
      <4>2. PreparedShape' /\ pos'[P] = "out"
        BY <2>1, <3>5 DEF Leave
      <4>3. QED
        BY <4>1, <4>2
    <3>6. QED
      BY <2>4, <3>1, <3>2, <3>3, <3>4, <3>5 DEF CommitPort
  <2>5. CASE ~(PreparePort \/ ProcessPro \/ CommitPort)
    BY <1>3, <2>5 DEF CycleStep, StartCycle, BeginCommit, PacketEpoch, SplitEpoch,
       PreparedAll, TailWritten, CommittedAll, Settle, RecheckEpoch, Abandon, ReachTarget,
       Written, WriteFails, Recovered, visitVars
  <2>6. QED
    BY <2>2, <2>3, <2>4, <2>5
<1>4. QED
  BY <1>1, <1>2, <1>3, SessionKeepsCycle DEF Next, vars

(* A session that stops goes from Fresh to the barrier in this order; no   *)
(* step of another session touches its stream meanwhile.                   *)
LEMMA StoppingOrder ==
  ASSUME LifecycleInv, NEW s \in Sessions,
         (\E st \in Streams : Open(s, st)) \/ Start(s) \/ Stop(s) \/ Close(s) \/ SessionStep(s),
         NEW k \in Sessions, NEW st \in Streams, at[k] = st,
         pc[k] \in Fresh \union {"drain", "drainWait", "barrier", "barrierWait"}
  PROVE  /\ at'[k] = st /\ generation'[st] = generation[st] /\ retired'[st] = retired[st]
         /\ \/ pc'[k] = pc[k] /\ draining'[k] = draining[k] /\ barrier'[k] = barrier[k]
            \/ pc[k] \in Fresh /\ pc'[k] \in Fresh
            \/ pc[k] = "bump" /\ pc'[k] = "drain" /\ (st \in Playbacks => epoch' = epoch + 1)
            \/ /\ pc[k] = "drain" /\ pc'[k] = "drainWait"
               /\ draining'[k] = {t \in Threads : guard[t] = st}
            \/ pc[k] = "drainWait" /\ draining[k] = {} /\ (st \in Playbacks => pc'[k] = "barrier")
            \/ pc[k] = "barrier" /\ pc'[k] = "barrierWait" /\ barrier'[k] = commitOpen
            \/ pc[k] = "barrierWait" /\ ~barrier[k]
         /\ epoch' = epoch \/ epoch' = epoch + 1
<1> USE DEF LifecycleInv, TypeOK, SessionTypes, SingleSession, Live, Running, Fresh, SessionStates
<1>1. CASE \E p \in Streams : Open(s, p)
  BY <1>1 DEF Open, Goto
<1>2. CASE Start(s) \/ Stop(s) \/ Close(s)
  BY <1>2 DEF Start, Stop, Close, Goto
<1>3. CASE SessionStep(s)
  <2>1. CASE Publish(s) \/ BeginDrain(s) \/ EndDrain(s)
    BY <2>1 DEF Publish, BeginDrain, EndDrain, Goto
  <2>2. CASE NextGeneration(s) \/ Activate(s) \/ StartDisarm(s)
    BY <2>2 DEF NextGeneration, Activate, StartDisarm, Goto
  <2>3. CASE Deactivate(s) \/ BumpEpoch(s)
    BY <2>3 DEF Deactivate, BumpEpoch, Goto
  <2>4. CASE LookAtBarrier(s) \/ PassBarrier(s)
    BY <2>4 DEF LookAtBarrier, PassBarrier, Goto
  <2>5. CASE Disarm(s) \/ FinishStop(s)
    BY <2>5 DEF Disarm, FinishStop, Goto
  <2>6. QED
    BY <1>3, <2>1, <2>2, <2>3, <2>4, <2>5 DEF SessionStep
<1>4. QED
  BY <1>1, <1>2, <1>3

LEMMA EpochAdvances ==
  ASSUME LifecycleInv, NEW s \in Sessions,
         (\E st \in Streams : Open(s, st)) \/ Start(s) \/ Stop(s) \/ Close(s) \/ SessionStep(s)
  PROVE  epoch' = epoch \/ epoch' = epoch + 1
BY DEF Open, Start, Stop, Close, SessionStep, Publish, BeginDrain, EndDrain, NextGeneration,
   Activate, StartDisarm, Deactivate, BumpEpoch, LookAtBarrier, PassBarrier, Disarm, FinishStop

LEMMA StepPhases == LifecycleInv /\ [Next]_vars => Phases'
<1> SUFFICES ASSUME LifecycleInv, [Next]_vars PROVE Phases'
  OBVIOUS
<1> USE LifecycleAssumption
    DEF LifecycleInv, TypeOK, CycleTypes, CycleStates, Phases, InCommit, EarlyMix
<1> epoch \in Nat
  BY DEF SessionTypes
<1>1. CASE UNCHANGED <<mode, cycleVars>> /\ (epoch' = epoch \/ epoch' = epoch + 1)
  BY <1>1 DEF cycleVars
<1>2. CASE CaptureStep
  BY <1>1, <1>2, CaptureFrame DEF sessionVars
<1>3. CASE CycleStep
  <2>1. epoch' = epoch /\ mode' = mode
    BY <1>3, LoopFrame DEF sessionVars
  <2>2. CASE PreparePort \/ ProcessPro \/ CommitPort
    <3>1. UNCHANGED <<commitOpen, cycleEpoch, madeUnder>>
      BY <2>2, VisitFrame
    <3>2. \/ rpc' = rpc /\ rpc \in {"prepare", "process", "commit"}
          \/ rpc = "process" /\ rpc' = "commit"
          \/ rpc = "process" /\ rpc' = "prepare" /\ mode \in {"direct", "split"}
      BY <2>2, VisitKeeps DEF PreparePort, ProcessPro, CommitPort, cycleVars
    <3>3. QED
      BY <2>1, <3>1, <3>2
  <2>3. CASE StartCycle \/ BeginCommit \/ PacketEpoch \/ SplitEpoch
    BY <2>1, <2>3 DEF StartCycle, BeginCommit, PacketEpoch, SplitEpoch
  <2>4. CASE PreparedAll \/ TailWritten \/ CommittedAll
    BY <2>1, <2>4 DEF PreparedAll, TailWritten, CommittedAll
  <2>5. CASE Settle \/ RecheckEpoch \/ Abandon
    BY <2>1, <2>5 DEF Settle, RecheckEpoch, Abandon, EndCommit
  <2>6. CASE ReachTarget \/ Written \/ WriteFails \/ Recovered
    BY <2>1, <2>6 DEF ReachTarget, Written, WriteFails, Recovered, EndCommit
  <2>7. QED
    BY <1>3, <2>2, <2>3, <2>4, <2>5, <2>6 DEF CycleStep
<1>4. QED
  BY <1>1, <1>2, <1>3, SessionKeepsCycle, EpochAdvances DEF Next, vars, sessionVars

(* What is picked up, and what becomes of it.                              *)

LEMMA LookPicksLive ==
  ASSUME LifecycleInv, NEW t \in Threads, Look(t)
  PROVE  UNCHANGED picked \/ (picked' = [picked EXCEPT ![t] = picked'[t]] /\ PickIsHeld(t)')
<1> USE DEF LifecycleInv, TypeOK, SessionTypes, VisitTypes
<1>1. CASE UNCHANGED picked
  BY <1>1
<1>2. CASE /\ picked' = [picked EXCEPT ![t] = [session |-> seen[t], gen |-> generation[guard[t]]]]
           /\ active[guard[t]] # None /\ active[guard[t]] = seen[t]
  <2>1. guard[t] \in Streams /\ seen[t] \in Sessions
    BY <1>2 DEF Look, Visits, VisitShape
  <2>2. at[seen[t]] = guard[t] /\ pc[seen[t]] \in Running
    BY <1>2, <2>1 DEF Lifecycles
  <2>3. generation[guard[t]] > retired[guard[t]]
    BY <2>1, <2>2 DEF Lifecycles, Fresh
  <2>4. UNCHANGED <<guard, generation, retired, at, pc, draining>>
    BY <1>2 DEF Look, sessionVars
  <2>5. picked'[t] = [session |-> seen[t], gen |-> generation[guard[t]]]
    BY <1>2
  <2>6. picked' = [picked EXCEPT ![t] = picked'[t]]
    BY <1>2, <2>5
  <2>7. QED
    BY <2>1, <2>2, <2>3, <2>4, <2>5, <2>6 DEF PickIsHeld, Fresh
<1>3. QED
  BY <1>1, <1>2 DEF Look

LEMMA CheckPicksLive ==
  ASSUME LifecycleInv, rpc = "commit", pos[P] = "in", CheckPrepared(guard[P]),
         UNCHANGED <<sessionVars, guard>>
  PROVE  PickIsHeld(P)' /\ \A u \in Threads : u # P => picked'[u] = picked[u]
<1> USE DEF LifecycleInv, TypeOK, SessionTypes, VisitTypes, CycleTypes
<1> DEFINE p == guard[P]
<1>1. P \in Threads /\ \A u \in Threads : u # P => picked'[u] = picked[u]
  BY DEF CheckPrepared, P, Threads
<1>2. p \in Ports /\ picked[P] = NoPick
  BY <1>1 DEF Visits, VisitPlace, VisitShape
<1>3. CASE picked'[P] = NoPick
  BY <1>1, <1>3 DEF PickIsHeld
<1>4. CASE picked'[P] = prepared[p] /\ prepared[p] # NoPick
  <2>1. /\ prepared[p].session # None /\ active[p] = prepared[p].session
        /\ generation[p] = prepared[p].gen
    BY <1>1, <1>2, <1>4 DEF CheckPrepared, Visits, PreparedShape
  <2>2. p \in Streams /\ active[p] \in Sessions
    BY <1>2, <2>1 DEF Streams, Playbacks
  <2>3. at[active[p]] = p /\ pc[active[p]] \in Running
    BY <2>1, <2>2 DEF Lifecycles
  <2>4. generation[p] > retired[p]
    BY <2>2, <2>3 DEF Lifecycles, Fresh
  <2>5. UNCHANGED <<guard, generation, retired, at, pc>>
    BY DEF sessionVars
  <2>6. QED
    BY <1>1, <1>4, <2>1, <2>2, <2>3, <2>4, <2>5 DEF PickIsHeld, Fresh
<1>5. QED
  BY <1>1, <1>2, <1>3, <1>4 DEF CheckPrepared

(* What a thread picked up stays held while the thread stays in its visit. *)
LEMMA PickStaysHeld ==
  ASSUME LifecycleInv, NEW u \in Threads, UNCHANGED <<sessionVars, cycleEpoch>>,
         picked'[u] \in {picked[u], NoPick}, guard'[u] = guard[u],
         \A s \in Sessions : u \in draining[s] => u \in draining'[s]
  PROVE  PickIsHeld(u)'
BY DEF LifecycleInv, PicksAreHeld, PickIsHeld, sessionVars

LEMMA StepPicksAreHeld == LifecycleInv /\ [Next]_vars => PicksAreHeld'
<1> SUFFICES ASSUME LifecycleInv, [Next]_vars, NEW u \in Threads PROVE PickIsHeld(u)'
  BY DEF PicksAreHeld
<1> USE DEF LifecycleInv
<1>1. ASSUME NEW s \in Sessions,
             (\E st \in Streams : Open(s, st)) \/ Start(s) \/ Stop(s) \/ Close(s) \/ SessionStep(s)
      PROVE  PickIsHeld(u)'
  <2> DEFINE k == picked[u].session
             st == guard[u]
  <2>1. UNCHANGED <<picked, guard, cycleEpoch>>
    BY <1>1, SessionKeepsCycle DEF visitVars, cycleVars
  <2>2. CASE picked[u] = NoPick
    BY <2>1, <2>2 DEF PickIsHeld
  <2>3. CASE picked[u] # NoPick
    <3>1. /\ k \in Sessions /\ at[k] = st /\ picked[u].gen = generation[st]
          /\ picked[u].gen > retired[st]
          /\ pc[k] \in Fresh \union {"drain"} \/ (pc[k] = "drainWait" /\ u \in draining[k])
          /\ u = P /\ cycleEpoch = epoch => pc[k] \in Fresh
      BY <2>3 DEF PicksAreHeld, PickIsHeld
    <3>2. st \in Streams
      BY <2>3 DEF TypeOK, VisitTypes, Visits, VisitShape
    <3>3. u = P => st \in Playbacks
      BY <2>3 DEF Visits, VisitShape, VisitPlace, Playbacks
    <3>4. cycleEpoch \in Nat /\ epoch \in Nat /\ cycleEpoch <= epoch
      BY DEF TypeOK, SessionTypes, CycleTypes, Phases
    <3>5. /\ at'[k] = st /\ generation'[st] = generation[st] /\ retired'[st] = retired[st]
          /\ \/ pc'[k] = pc[k] /\ draining'[k] = draining[k]
             \/ pc[k] \in Fresh /\ pc'[k] \in Fresh
             \/ pc[k] = "bump" /\ pc'[k] = "drain" /\ (st \in Playbacks => epoch' = epoch + 1)
             \/ /\ pc[k] = "drain" /\ pc'[k] = "drainWait"
                /\ draining'[k] = {t \in Threads : guard[t] = st}
             \/ pc[k] = "drainWait" /\ draining[k] = {}
          /\ epoch' = epoch \/ epoch' = epoch + 1
      <4>1. pc[k] \in Fresh \union {"drain", "drainWait", "barrier", "barrierWait"}
        BY <3>1
      <4>2. pc[k] \notin {"barrier", "barrierWait"}
        BY <3>1 DEF Fresh, Running
      <4> HIDE DEF k, st, LifecycleInv
      <4>3. QED
        BY <1>1, <3>1, <3>2, <4>1, <4>2, StoppingOrder DEF LifecycleInv
    <3>6. pc'[k] \in Fresh \union {"drain"} \/ (pc'[k] = "drainWait" /\ u \in draining'[k])
      BY <3>1, <3>5 DEF Fresh, Running
    <3>7. u = P /\ cycleEpoch = epoch' => pc'[k] \in Fresh
      BY <3>1, <3>3, <3>4, <3>5 DEF Fresh, Running
    <3>8. QED
      BY <2>1, <3>1, <3>5, <3>6, <3>7 DEF PickIsHeld
  <2>4. QED
    BY <2>2, <2>3
<1>2. CASE UNCHANGED <<sessionVars, draining, visitVars, cycleEpoch>>
  BY <1>2, PickStaysHeld DEF visitVars
<1>3. ASSUME NEW t \in Threads, UNCHANGED <<sessionVars, cycleEpoch>>,
             \/ \E st \in Streams : Enter(t, st)
             \/ Look(t) \/ Recheck(t) \/ Arm(t) \/ Leave(t)
      PROVE  PickIsHeld(u)'
  <2>1. CASE u # t
    <3>1. picked'[u] = picked[u] /\ guard'[u] = guard[u]
      BY <1>3, <2>1 DEF Enter, Look, Recheck, Arm, Leave, TypeOK, VisitTypes
    <3>2. \A s \in Sessions : u \in draining[s] => u \in draining'[s]
      BY <1>3, <2>1, VisitKeeps DEF Leave
    <3>3. QED
      BY <1>3, <3>1, <3>2, PickStaysHeld
  <2>2. CASE u = t /\ \E st \in Streams : Enter(t, st)
    BY <2>2 DEF Enter, Visits, VisitShape, PickIsHeld
  <2>3. CASE u = t /\ Look(t)
    <3>1. UNCHANGED <<guard, draining>>
      BY <2>3 DEF Look
    <3>2. QED
      BY <1>3, <2>3, <3>1, LookPicksLive, PickStaysHeld
  <2>4. CASE u = t /\ (Recheck(t) \/ Arm(t))
    <3>1. UNCHANGED <<guard, draining>> /\ picked'[u] \in {picked[u], NoPick}
      BY <2>4 DEF Recheck, Arm, TypeOK, VisitTypes
    <3>2. QED
      BY <1>3, <3>1, PickStaysHeld
  <2>5. CASE u = t /\ Leave(t)
    BY <2>5 DEF Leave, PickIsHeld, TypeOK, VisitTypes
  <2>6. QED
    BY <1>3, <2>1, <2>2, <2>3, <2>4, <2>5
<1>4. CASE CaptureStep
  BY <1>3, <1>4, CaptureFrame DEF CaptureStep, Threads, cycleVars, Captured, Streams, Playbacks
<1>5. CASE CycleStep
  <2>1. P \in Threads
    BY DEF P, Threads
  <2>2. CASE PreparePort \/ ProcessPro \/ CommitPort
    <3>1. UNCHANGED <<sessionVars, cycleEpoch>>
      BY <2>2, VisitFrame
    <3>2. CASE (\E st \in Streams : Enter(P, st)) \/ Look(P) \/ Recheck(P) \/ Arm(P) \/ Leave(P)
      BY <1>3, <2>1, <3>1, <3>2
    <3>3. CASE UNCHANGED <<draining, visitVars>>
      BY <1>2, <3>1, <3>3
    <3>4. CASE /\ rpc = "commit" /\ pos[P] = "in" /\ CheckPrepared(guard[P])
               /\ UNCHANGED <<guard, draining>>
      BY <3>1, <3>4, CheckPicksLive, PickStaysHeld
    <3>5. QED
      BY <2>2, <3>2, <3>3, <3>4
      DEF PreparePort, ProcessPro, CommitPort, TypeOK, CycleTypes, Streams, Playbacks
  <2>3. CASE PacketEpoch \/ SplitEpoch
    <3>1. rpc = "epoch" /\ UNCHANGED <<sessionVars, draining, visitVars>>
      BY <2>3 DEF PacketEpoch, SplitEpoch, playSession
    <3>2. picked[P] = NoPick
      BY <2>1, <3>1 DEF Visits, VisitShape, VisitPlace
    <3>3. CASE u = P
      BY <3>1, <3>2, <3>3 DEF PickIsHeld, visitVars
    <3>4. CASE u # P
      BY <3>1, <3>4 DEF PicksAreHeld, PickIsHeld, visitVars, sessionVars
    <3>5. QED
      BY <3>3, <3>4
  <2>4. CASE ~(PreparePort \/ ProcessPro \/ CommitPort \/ PacketEpoch \/ SplitEpoch)
    <3>1. UNCHANGED <<draining, visitVars, cycleEpoch>>
      BY <1>5, <2>4 DEF CycleStep, StartCycle, BeginCommit, PreparedAll, TailWritten,
         CommittedAll, Settle, RecheckEpoch, Abandon, ReachTarget, Written, WriteFails, Recovered
    <3>2. QED
      BY <1>2, <1>5, <3>1, LoopFrame
  <2>5. QED
    BY <2>2, <2>3, <2>4
<1>6. QED
  BY <1>1, <1>2, <1>4, <1>5 DEF Next, vars, cycleVars

(* What the buffer holds of a stream stays held by the same session: it    *)
(* advances the epoch as it stops, and then waits for the open commit.     *)
LEMMA HolderStays ==
  ASSUME LifecycleInv, NEW s \in Sessions,
         (\E st \in Streams : Open(s, st)) \/ Start(s) \/ Stop(s) \/ Close(s) \/ SessionStep(s),
         NEW k \in Sessions, NEW st \in Playbacks, Holds(k, st), Awaited(k)
  PROVE  /\ Holds(k, st)'
         /\ commitOpen => Awaited(k)'
         /\ pc[k] \in Fresh => pc'[k] \in Fresh \/ epoch' = epoch + 1
         /\ epoch' = epoch \/ epoch' = epoch + 1
<1>1. at[k] = st /\ st \in Streams
  BY DEF Holds, Streams
<1>2. pc[k] \in Fresh \union {"drain", "drainWait", "barrier", "barrierWait"}
  BY DEF Awaited
<1>3. UNCHANGED buffer
  BY SessionKeepsCycle DEF cycleVars
<1>4. /\ at'[k] = st /\ generation'[st] = generation[st] /\ retired'[st] = retired[st]
      /\ \/ pc'[k] = pc[k] /\ draining'[k] = draining[k] /\ barrier'[k] = barrier[k]
         \/ pc[k] \in Fresh /\ pc'[k] \in Fresh
         \/ pc[k] = "bump" /\ pc'[k] = "drain" /\ (st \in Playbacks => epoch' = epoch + 1)
         \/ /\ pc[k] = "drain" /\ pc'[k] = "drainWait"
            /\ draining'[k] = {t \in Threads : guard[t] = st}
         \/ pc[k] = "drainWait" /\ draining[k] = {} /\ (st \in Playbacks => pc'[k] = "barrier")
         \/ pc[k] = "barrier" /\ pc'[k] = "barrierWait" /\ barrier'[k] = commitOpen
         \/ pc[k] = "barrierWait" /\ ~barrier[k]
      /\ epoch' = epoch \/ epoch' = epoch + 1
  BY <1>1, <1>2, StoppingOrder
<1>5. pc[k] = "barrierWait" => barrier[k]
  BY DEF Awaited, Fresh, Running
<1>6. Holds(k, st)'
  BY <1>1, <1>3, <1>4 DEF Holds
<1>7. commitOpen => Awaited(k)'
  BY <1>2, <1>4, <1>5 DEF Awaited, Fresh, Running
<1>8. pc[k] \in Fresh => pc'[k] \in Fresh \/ epoch' = epoch + 1
  BY <1>4 DEF Fresh, Running
<1>9. QED
  BY <1>4, <1>6, <1>7, <1>8

(* A buffer that keeps what it held, or part of it, is awaited as before.  *)
LEMMA CommitStaysAwaited ==
  ASSUME CommitIsAwaited, InCommit, UNCHANGED <<sessionVars, barrier, cycleEpoch>>,
         \A st \in Playbacks : buffer'[st] \in {buffer[st], 0}
  PROVE  CommitIsAwaited'
BY DEF CommitIsAwaited, Holds, Awaited, sessionVars

(* A pick enters the buffer while its session still has to drain the guard.*)
LEMMA PickIsAwaited ==
  ASSUME LifecycleInv, InCommit, pos[P] # "out", guard[P] \in Playbacks,
         UNCHANGED <<sessionVars, barrier, cycleEpoch>>,
         buffer' = [buffer EXCEPT ![guard[P]] = picked[P].gen]
  PROVE  CommitIsAwaited'
<1> USE DEF LifecycleInv
<1> SUFFICES ASSUME NEW st \in Playbacks, buffer'[st] # 0
             PROVE  \E s \in Sessions :
                      /\ Holds(s, st)' /\ Awaited(s)'
                      /\ cycleEpoch' = epoch' => pc'[s] \in Fresh
  BY DEF CommitIsAwaited
<1>1. buffer \in [Playbacks -> 0..MaxStarts] /\ P \in Threads
  BY DEF TypeOK, CycleTypes, P, Threads
<1>2. CASE st # guard[P]
  BY <1>1, <1>2 DEF CommitIsAwaited, Holds, Awaited, sessionVars
<1>3. CASE st = guard[P]
  <2>1. buffer'[st] = picked[P].gen
    BY <1>1, <1>3
  <2>2. picked[P] # NoPick
    BY <2>1 DEF NoPick
  <2>3. PickIsHeld(P)
    BY <1>1 DEF PicksAreHeld
  <2> PICK s \in Sessions : s = picked[P].session
    BY <2>2, <2>3 DEF PickIsHeld
  <2>4. Holds(s, st)'
    BY <1>3, <2>1, <2>2, <2>3 DEF PickIsHeld, Holds, sessionVars
  <2>5. Awaited(s)' /\ (cycleEpoch' = epoch' => pc'[s] \in Fresh)
    BY <2>2, <2>3 DEF PickIsHeld, Awaited, sessionVars
  <2>6. QED
    BY <2>4, <2>5
<1>4. QED
  BY <1>2, <1>3

LEMMA SilenceIsAwaited ==
  ASSUME buffer' = Silence \/ ~InCommit'
  PROVE  CommitIsAwaited'
BY DEF CommitIsAwaited, Silence

LEMMA StepCommitIsAwaited == LifecycleInv /\ [Next]_vars => CommitIsAwaited'
<1> SUFFICES ASSUME LifecycleInv, [Next]_vars PROVE CommitIsAwaited'
  OBVIOUS
<1> USE DEF LifecycleInv
<1>1. ASSUME NEW s \in Sessions,
             (\E st \in Streams : Open(s, st)) \/ Start(s) \/ Stop(s) \/ Close(s) \/ SessionStep(s)
      PROVE  CommitIsAwaited'
  <2>1. UNCHANGED <<mode, rpc, buffer, commitOpen, cycleEpoch>>
    BY <1>1, SessionKeepsCycle DEF cycleVars
  <2> SUFFICES ASSUME InCommit, NEW st \in Playbacks, buffer[st] # 0
               PROVE  \E k \in Sessions :
                        /\ Holds(k, st)' /\ Awaited(k)'
                        /\ cycleEpoch' = epoch' => pc'[k] \in Fresh
    BY <2>1 DEF CommitIsAwaited, InCommit, EarlyMix
  <2>2. PICK k \in Sessions : /\ Holds(k, st) /\ Awaited(k)
                              /\ cycleEpoch = epoch => pc[k] \in Fresh
    BY DEF CommitIsAwaited
  <2>3. /\ Holds(k, st)' /\ (commitOpen => Awaited(k)')
        /\ pc[k] \in Fresh => pc'[k] \in Fresh \/ epoch' = epoch + 1
        /\ epoch' = epoch \/ epoch' = epoch + 1
    BY <1>1, <2>2, HolderStays
  <2>4. commitOpen /\ cycleEpoch \in Nat /\ epoch \in Nat /\ cycleEpoch <= epoch
    BY DEF Phases, TypeOK, SessionTypes, CycleTypes
  <2>5. QED
    BY <2>1, <2>2, <2>3, <2>4
<1>2. CASE CaptureStep \/ UNCHANGED vars
  <2>1. UNCHANGED <<sessionVars, barrier, mode, cycleVars>>
    BY <1>2, CaptureFrame DEF vars
  <2>2. QED
    BY <2>1 DEF CommitIsAwaited, InCommit, EarlyMix, Holds, Awaited, sessionVars, cycleVars
<1>3. CASE CycleStep
  <2>1. UNCHANGED <<sessionVars, mode>>
    BY <1>3, LoopFrame
  <2>2. CASE PreparePort \/ ProcessPro \/ CommitPort
    <3>1. UNCHANGED <<sessionVars, mode, barrier, cycleEpoch>>
      BY <2>2, VisitFrame
    <3>2. CASE UNCHANGED buffer /\ (PreparePort \/ CommitPort)
      <4>1. UNCHANGED rpc
        BY <3>2, VisitKeeps DEF PreparePort, CommitPort, cycleVars
      <4>2. CASE InCommit
        BY <3>1, <3>2, <4>2, CommitStaysAwaited
      <4>3. CASE ~InCommit
        BY <3>1, <4>1, <4>3, SilenceIsAwaited DEF InCommit, EarlyMix
      <4>4. QED
        BY <4>2, <4>3
    <3>3. CASE UNCHANGED buffer /\ ProcessPro
      BY <3>1, <3>3, CommitStaysAwaited DEF ProcessPro, InCommit
    <3>4. CASE /\ pos[P] = "done"
               /\ \/ CommitPort /\ buffer' = [buffer EXCEPT ![guard[P]] = picked[P].gen]
                  \/ ProcessPro /\ buffer' = [buffer EXCEPT ![Pro] = picked[P].gen]
      <4>1. rpc \in {"commit", "process"} /\ InCommit
        BY <3>4 DEF CommitPort, ProcessPro, InCommit
      <4>2. /\ CommitPort => guard[P] \in Ports
            /\ ProcessPro => guard[P] = Pro
        BY <3>4 DEF CommitPort, ProcessPro, Visits, VisitPlace
      <4>3. guard[P] \in Playbacks /\ buffer' = [buffer EXCEPT ![guard[P]] = picked[P].gen]
        BY <3>4, <4>2 DEF Playbacks
      <4>4. QED
        BY <3>1, <3>4, <4>1, <4>3, PickIsAwaited
    <3>5. QED
      BY <2>2, <3>2, <3>3, <3>4, VisitKeeps DEF PreparePort, ProcessPro, CommitPort, cycleVars
  <2>3. CASE StartCycle \/ BeginCommit \/ TailWritten \/ Abandon \/ Written \/ WriteFails \/ Recovered
    <3>1. buffer' = Silence \/ ~InCommit'
      BY <2>1, <2>3 DEF StartCycle, BeginCommit, TailWritten, Abandon, Written, WriteFails,
         Recovered, InCommit, EarlyMix
    <3>2. QED
      BY <3>1, SilenceIsAwaited
  <2>4. CASE PacketEpoch \/ SplitEpoch
    <3>1. rpc = "epoch" /\ mode \in {"packet", "split"} /\ cycleEpoch' = epoch
      BY <2>4 DEF PacketEpoch, SplitEpoch
    <3>2. CASE buffer' = Silence
      BY <3>2, SilenceIsAwaited
    <3>3. CASE UNCHANGED buffer /\ madeUnder = epoch
      <4>1. \A st \in Playbacks : buffer[st] # 0 =>
              \E s \in Sessions : Holds(s, st) /\ pc[s] \in Fresh
        BY <3>1, <3>3 DEF StagedIsFresh
      <4>2. QED
        BY <2>1, <3>3, <4>1 DEF CommitIsAwaited, Holds, Awaited, sessionVars
    <3>4. CASE UNCHANGED buffer /\ mode = "packet" /\ madeUnder = None
      BY <3>1, <3>2, <3>4 DEF Phases
    <3>5. QED
      BY <2>4, <3>2, <3>3, <3>4 DEF PacketEpoch, SplitEpoch
  <2>5. CASE PreparedAll \/ CommittedAll \/ Settle \/ RecheckEpoch
    <3>1. UNCHANGED <<barrier, cycleEpoch>> /\ (InCommit' => InCommit)
      BY <2>1, <2>5 DEF PreparedAll, CommittedAll, Settle, RecheckEpoch, playSession, InCommit,
         EarlyMix
    <3>2. buffer' \in {buffer, Silence}
      BY <2>5 DEF PreparedAll, CommittedAll, Settle, RecheckEpoch
    <3>3. QED
      BY <2>1, <3>1, <3>2, CommitStaysAwaited, SilenceIsAwaited
  <2>6. CASE ReachTarget
    <3>1. CASE rpc' = "recover"
      BY <3>1, SilenceIsAwaited DEF InCommit
    <3>2. CASE UNCHANGED <<barrier, buffer, cycleEpoch>>
      BY <2>1, <2>6, <3>2, CommitStaysAwaited DEF ReachTarget, InCommit
    <3>3. QED
      BY <2>6, <3>1, <3>2 DEF ReachTarget
  <2>7. QED
    BY <1>3, <2>2, <2>3, <2>4, <2>5, <2>6 DEF CycleStep
<1>4. QED
  BY <1>1, <1>2, <1>3 DEF Next

LEMMA StepStagedIsFresh == LifecycleInv /\ [Next]_vars => StagedIsFresh'
<1> SUFFICES ASSUME LifecycleInv, [Next]_vars PROVE StagedIsFresh'
  OBVIOUS
<1> USE DEF LifecycleInv
<1> DEFINE Between == mode \in {"packet", "split"} /\ rpc \in {"idle", "begin", "epoch", "recover"}
           Staged == \A st \in Playbacks : buffer[st] # 0 =>
                       \E k \in Sessions : Holds(k, st) /\ pc[k] \in Fresh
<1>1. ASSUME NEW s \in Sessions,
             (\E st \in Streams : Open(s, st)) \/ Start(s) \/ Stop(s) \/ Close(s) \/ SessionStep(s)
      PROVE  StagedIsFresh'
  <2>1. UNCHANGED <<mode, rpc, buffer, madeUnder>>
    BY <1>1, SessionKeepsCycle DEF cycleVars
  <2>2. epoch \in Nat /\ (madeUnder = epoch' => madeUnder <= epoch)
    BY LifecycleAssumption, <1>1, EpochAdvances DEF Phases, TypeOK, SessionTypes, CycleTypes
  <2> SUFFICES ASSUME Between, madeUnder = epoch', NEW st \in Playbacks, buffer[st] # 0
               PROVE  \E k \in Sessions : Holds(k, st)' /\ pc'[k] \in Fresh
    BY <2>1 DEF StagedIsFresh
  <2>3. epoch' = epoch
    BY <1>1, <2>2, EpochAdvances
  <2>4. PICK k \in Sessions : Holds(k, st) /\ pc[k] \in Fresh
    BY <2>3 DEF StagedIsFresh
  <2>5. Awaited(k)
    BY <2>4 DEF Awaited
  <2>6. Holds(k, st)' /\ pc'[k] \in Fresh
    BY <1>1, <2>2, <2>3, <2>4, <2>5, HolderStays
  <2>7. QED
    BY <2>6
<1>2. CASE CaptureStep \/ UNCHANGED vars
  <2>1. UNCHANGED <<sessionVars, mode, cycleVars>>
    BY <1>2, CaptureFrame DEF vars
  <2>2. QED
    BY <2>1 DEF StagedIsFresh, Holds, sessionVars, cycleVars
<1>3. CASE CycleStep
  <2>1. UNCHANGED <<sessionVars, mode>> /\ epoch' = epoch
    BY <1>3, LoopFrame DEF sessionVars
  <2>2. CASE PreparePort \/ ProcessPro \/ CommitPort
    <3>1. rpc' \notin {"idle", "begin", "epoch", "recover"}
      BY <2>2, VisitKeeps DEF PreparePort, ProcessPro, CommitPort, cycleVars
    <3>2. QED
      BY <3>1 DEF StagedIsFresh
  <2>3. CASE PacketEpoch \/ SplitEpoch \/ PreparedAll \/ TailWritten \/ CommittedAll \/ Settle
               \/ RecheckEpoch \/ ReachTarget
    <3>1. ~Between'
      BY <2>1, <2>3 DEF PacketEpoch, SplitEpoch, PreparedAll, TailWritten, CommittedAll, Settle,
         RecheckEpoch, ReachTarget, Phases, EarlyMix
    <3>2. QED
      BY <3>1 DEF StagedIsFresh
  <2>4. CASE StartCycle \/ BeginCommit \/ Recovered
    <3>1. UNCHANGED <<madeUnder, mode>> /\ (Between' => Between /\ UNCHANGED buffer)
      BY <2>1, <2>4 DEF StartCycle, BeginCommit, Recovered, EarlyMix
    <3>2. QED
      BY <2>1, <3>1 DEF StagedIsFresh, Holds, sessionVars
  <2>5. CASE Written \/ WriteFails
    <3>1. SUFFICES ASSUME Between', madeUnder' = epoch PROVE Staged'
      BY <2>1 DEF StagedIsFresh
    <3>2. InCommit /\ rpc \in {"tail", "write"}
      BY <2>5 DEF Written, WriteFails, InCommit
    <3>3. CASE cycleEpoch = epoch /\ UNCHANGED buffer
      BY <2>1, <3>2, <3>3 DEF CommitIsAwaited, Holds, sessionVars
    <3>4. CASE buffer' = Silence
      BY <3>4 DEF Silence
    <3>5. epoch # None
      BY LifecycleAssumption DEF TypeOK, SessionTypes
    <3>6. QED
      BY <2>1, <2>5, <3>1, <3>2, <3>3, <3>4, <3>5 DEF Written, WriteFails, Phases
  <2>6. CASE Abandon
    <3>1. madeUnder' = None /\ epoch # None
      BY LifecycleAssumption, <2>6 DEF Abandon, Phases, TypeOK, SessionTypes
    <3>2. QED
      BY <2>1, <3>1 DEF StagedIsFresh
  <2>7. QED
    BY <1>3, <2>2, <2>3, <2>4, <2>5, <2>6 DEF CycleStep
<1>4. QED
  BY <1>1, <1>2, <1>3 DEF Next

LEMMA StepArmedIsLive == LifecycleInv /\ [Next]_vars => ArmedIsLive'
<1> SUFFICES ASSUME LifecycleInv, [Next]_vars PROVE ArmedIsLive'
  OBVIOUS
<1>1. ASSUME NEW s \in Sessions, NEW st \in Streams, Open(s, st)
      PROVE  ArmedIsLive'
  BY <1>1 DEF Open, Goto, LifecycleInv, ArmedIsLive, SingleSession, Live, SessionStates, TypeOK, SessionTypes
<1>2. ASSUME NEW s \in Sessions, Start(s) \/ Stop(s) \/ Close(s)
      PROVE  ArmedIsLive'
  BY <1>2 DEF Start, Stop, Close, Goto, LifecycleInv, ArmedIsLive, SingleSession, Live, SessionStates,
     TypeOK, SessionTypes
<1>3. ASSUME NEW s \in Sessions, SessionStep(s)
      PROVE  ArmedIsLive'
  <2> USE DEF LifecycleInv, ArmedIsLive, SingleSession, Live, SessionStates, TypeOK, SessionTypes
  <2>1. CASE Publish(s) \/ BeginDrain(s) \/ EndDrain(s)
    BY <2>1 DEF Publish, BeginDrain, EndDrain, Goto
  <2>2. CASE NextGeneration(s) \/ StartDisarm(s)
    BY <2>2 DEF NextGeneration, StartDisarm, Goto
  <2>3. CASE Activate(s)
    <3>1. active[at[s]] = None
      BY <2>3 DEF Activate, Lifecycles, Running
    <3>2. QED
      BY <2>3, <3>1 DEF Activate, Goto
  <2>4. CASE Deactivate(s)
    BY <2>4 DEF Deactivate, Goto
  <2>5. CASE BumpEpoch(s) \/ LookAtBarrier(s) \/ PassBarrier(s)
    BY <2>5 DEF BumpEpoch, LookAtBarrier, PassBarrier, Goto
  <2>6. CASE Disarm(s) \/ FinishStop(s)
    BY <2>6 DEF Disarm, FinishStop, Goto
  <2>7. QED
    BY <1>3, <2>1, <2>2, <2>3, <2>4, <2>5, <2>6 DEF SessionStep
<1>4. ASSUME NEW t \in Threads, UNCHANGED sessionVars, UNCHANGED armed \/ Recheck(t) \/ Arm(t)
      PROVE  ArmedIsLive'
  <2>1. CASE UNCHANGED armed
    BY <1>4, <2>1 DEF LifecycleInv, ArmedIsLive, sessionVars
  <2>2. CASE armed' = [armed EXCEPT ![guard[t]] = None]
    BY <1>4, <2>2 DEF LifecycleInv, ArmedIsLive, sessionVars, TypeOK, SessionTypes
  <2>3. CASE armed' = [armed EXCEPT ![guard[t]] = IF @ = None THEN picked[t].session ELSE @]
    <3>1. armed \in [Streams -> Sessions \union {None}]
      BY DEF LifecycleInv, TypeOK, SessionTypes
    <3>2. CASE picked[t] = NoPick
      BY <1>4, <2>3, <3>1, <3>2 DEF LifecycleInv, ArmedIsLive, sessionVars, NoPick
    <3>3. CASE picked[t] # NoPick
      <4>1. PICK k \in Sessions : /\ k = picked[t].session /\ at[k] = guard[t]
                                  /\ pc[k] \in Fresh \union {"drain", "drainWait"}
        BY <3>3 DEF LifecycleInv, PicksAreHeld, PickIsHeld
      <4>2. pc[k] \in {"startDisarm", "running"} => active[guard[t]] = k
        BY <4>1 DEF LifecycleInv, Lifecycles, Running
      <4>3. QED
        BY <1>4, <2>3, <3>1, <4>1, <4>2 DEF LifecycleInv, ArmedIsLive, sessionVars, Fresh, Running
    <3>4. QED
      BY <3>2, <3>3
  <2>4. QED
    BY <1>4, <2>1, <2>2, <2>3 DEF Recheck, Arm
<1>5. CASE CaptureStep
  BY <1>4, <1>5, CaptureFrame DEF Threads
<1>6. CASE CycleStep
  BY <1>4, <1>6, LoopFrame DEF Threads, P
<1>7. CASE UNCHANGED vars
  BY <1>7 DEF LifecycleInv, ArmedIsLive, vars, sessionVars
<1>8. QED
  BY <1>1, <1>2, <1>3, <1>5, <1>6, <1>7 DEF Next

-----------------------------------------------------------------------------
THEOREM LifecycleInductive == Spec => []LifecycleInv
<1>1. LifecycleInv /\ [Next]_vars => LifecycleInv'
  BY StepTypeOK, StepOneSession, StepLifecycles, StepVisits, StepPhases, StepPicksAreHeld,
     StepCommitIsAwaited, StepStagedIsFresh, StepArmedIsLive DEF LifecycleInv
<1>2. QED
  BY <1>1, InitLifecycle, PTL DEF Spec

(* The sessions, the visits and the cycle stay within their types.         *)
THEOREM LifecycleTypes == Spec => []TypeOK
<1>1. LifecycleInv => TypeOK
  BY DEF LifecycleInv
<1>2. QED
  BY <1>1, LifecycleInductive, PTL

(* START, STOP and CLOSE reset the slots of a stream only while no hardware*)
(* thread works on them: reset_slots runs after wait_for_idle, and a thread*)
(* that arrives later finds the stream inactive.                           *)
THEOREM ResetsAreExclusive == Spec => []ResetIsExclusive
<1>1. LifecycleInv => ResetIsExclusive
  <2> SUFFICES ASSUME LifecycleInv, NEW s \in Sessions, pc[s] \in {"starting", "resetting"},
                      NEW t \in Threads, pos[t] = "copying", guard[t] = at[s]
               PROVE  FALSE
    BY DEF ResetIsExclusive
  <2>1. picked[t] # NoPick
    BY DEF LifecycleInv, Visits, VisitShape
  <2>2. PICK k \in Sessions : /\ at[k] = guard[t]
                              /\ pc[k] \in Fresh \union {"drain", "drainWait"}
    BY <2>1 DEF LifecycleInv, PicksAreHeld, PickIsHeld
  <2>3. k = s
    BY <2>2 DEF LifecycleInv, SingleSession, Live, Fresh, Running, SessionStates
  <2>4. QED
    BY <2>2, <2>3 DEF Fresh, Running
<1>2. QED
  BY <1>1, LifecycleInductive, PTL

(* After STOP or CLOSE has answered, nothing of the lifecycle it ended is  *)
(* written to the hardware: prepare_playback, process and commit_prepared  *)
(* of every cycle loop against the drain, the epoch and the commit barrier.*)
THEOREM StopsAreSilent == Spec => []StoppedIsSilent
<1>1. LifecycleInv => StoppedIsSilent
  BY DEF LifecycleInv, CommitIsAwaited, InCommit, Holds, StoppedIsSilent
<1>2. QED
  BY <1>1, LifecycleInductive, PTL

(* A stream is armed for the session that is live on it, or its session is *)
(* on the way to the second disarm.                                        *)
THEOREM ArmedStaysLive == Spec => []ArmedIsLive
<1>1. LifecycleInv => ArmedIsLive
  BY DEF LifecycleInv
<1>2. QED
  BY <1>1, LifecycleInductive, PTL

(* STOP never waits for a stream recovery, except in the timer-driven ahead*)
(* loop: every other loop drops its PlaybackCommitGuard before it recovers.*)
THEOREM OnlyAheadRecoversInCommit ==
  Spec => [](mode # "ahead" => RecoveryReleasesCommit)
<1> DEFINE Released == mode # "ahead" => RecoveryReleasesCommit
<1>1. Init => Released
  BY DEF Init, RecoveryReleasesCommit
<1>2. LifecycleInv /\ Released /\ [Next]_vars => Released'
  <2> SUFFICES ASSUME LifecycleInv, Released, [Next]_vars PROVE Released'
    OBVIOUS
  <2> USE DEF RecoveryReleasesCommit
  <2>1. CASE UNCHANGED <<mode, cycleVars>>
    BY <2>1 DEF cycleVars
  <2>2. CASE CaptureStep
    BY <2>1, <2>2, CaptureFrame
  <2>3. CASE CycleStep
    <3>1. mode' = mode
      BY <2>3, LoopFrame
    <3>2. CASE PreparePort \/ ProcessPro \/ CommitPort
      <4>1. rpc' # "recover"
        BY <3>2, VisitKeeps DEF PreparePort, ProcessPro, CommitPort, cycleVars
      <4>2. QED
        BY <4>1
    <3>3. CASE ReachTarget \/ WriteFails \/ Recovered \/ Written
      BY <3>1, <3>3 DEF ReachTarget, WriteFails, Recovered, Written, EndCommit, LifecycleInv, Phases,
         EarlyMix
    <3>4. QED
      BY <2>3, <3>1, <3>2, <3>3 DEF CycleStep, StartCycle, BeginCommit, PacketEpoch, SplitEpoch,
         PreparedAll, TailWritten, CommittedAll, Settle, RecheckEpoch, Abandon
  <2>4. QED
    BY <2>1, <2>2, <2>3, SessionKeepsCycle DEF Next, vars
<1>3. QED
  BY <1>1, <1>2, LifecycleInductive, PTL DEF Spec

-----------------------------------------------------------------------------
(***************************************************************************)
(* For any number of sessions, lifecycles, recoveries and repeats: what a  *)
(* bridge repeats was heard last, and every miss of a stream that was      *)
(* heard is counted, once.                                                 *)
(*                                                                         *)
(* The argument.  A hardware thread that works for a live session holds a  *)
(* guard on its endpoint, and that session cannot get past its drain, so   *)
(* neither the session nor its lifecycle changes under that thread: this   *)
(* is what lets it arm, and lets STOP disarm for good after the drain.  A  *)
(* lifecycle that is only starting has published nothing yet, so the       *)
(* disarming at the end of START takes nothing from it that was heard.     *)
(*                                                                         *)
(* F is PlaybackFallback as MCBridges names its variables: shown is cell,  *)
(* live is active, lifecycle is generation, alert is armed, spc is pc,     *)
(* held is guard, visited is seen and offered is prepared.                 *)
(***************************************************************************)

(* Where the session thread is: its session is active; it may still have   *)
(* to drain the hardware thread; armed or outage may name its session.     *)
ActivePlaces == {"startDisarm", "startOutage", "running", "quiet", "stopArmed", "stopOutage",
                 "closeArmed", "closeOutage", "stopActive"}
Waiting == {"stopWait", "closeWait"}
Undrained == ActivePlaces \union {"closeActive", "stopDrain", "closeDrain"} \union Waiting
ArmedPlaces == Undrained \union {"stopDisarm", "closeDisarm"}
OutagePlaces == ArmedPlaces \union {"stopSettle", "closeSettle"}
Starting == {"activate", "startDisarm", "startOutage"}
SessionPlaces == OutagePlaces \union {"closed", "openDrain", "openWait", "open", "start",
                                      "activate", "stopReset", "closeReset"}

(* Where the hardware thread is: without a guard; between its look at      *)
(* `active` and the end of its work for the session it found; in the gate. *)
Unguarded == {"idle", "prepared", "waited"}
Settled == {"consume", "check", "miss", "count", "readOutage", "beginOutage", "arm", "armPort",
            "rearm"}
Working == {"generation", "region"} \union Settled
Gating == {"waitSession", "waitGate", "gateSession", "gate"}
SharedPlaces == {"prepared", "readOutage", "beginOutage", "committing", "leaveCommit", "armPort", "rearm"}
ProPlaces == {"waitHardware", "waited", "arm", "leaveWait"} \union Gating
CyclePlaces == Working \union SharedPlaces \union ProPlaces \union {"idle", "hardware", "session", "leave"}
BeforeChoice == {"hardware", "session", "generation", "region", "consume", "check", "miss", "count",
                 "readOutage", "beginOutage"} \union Gating \union {"waitHardware", "waited", "leaveWait"}

Types ==
  /\ bridge \in Bridges
  /\ session \in F!Ids /\ shown \in F!Ids /\ live \in F!Ids /\ alert \in F!Ids
  /\ outage \in F!Ids
  /\ visited \in F!Ids
  /\ lifecycle \in 0..MaxGeneration
  /\ lifecycleHw \in 0..MaxHardware /\ startHw \in 0..MaxHardware
  /\ hardware \in 0..MaxHardware /\ observed \in 0..MaxHardware
  /\ repeated \in 0..MaxRepeats
  /\ spc \in SessionPlaces /\ hpc \in CyclePlaces
FlagTypes ==
  /\ drains \in BOOLEAN /\ held \in BOOLEAN /\ blocked \in BOOLEAN /\ got \in BOOLEAN
  /\ heard \in BOOLEAN
Regions == [client : {"IDLE", "STARTING", "RUNNING"}, ready : BOOLEAN, blocks : SUBSET {0, 1}]
RegionTypes == regions \in [F!Ids -> Regions]
Choices == [of : F!Identities, fresh : BOOLEAN]
Buffers == [of : F!Identities, played : BOOLEAN]
MemoryTypes ==
  /\ id \in F!Identities /\ lastValid \in F!Identities
  /\ offered \in Choices /\ scratch \in Buffers

(* One session at a time, and it is active from START to STOP.             *)
OneSession ==
  /\ shown = session
  /\ spc # "closed" => session # 0
  /\ spc \in ActivePlaces => live = session
  /\ live # 0 => live = session /\ spc \in ActivePlaces \union {"closeActive"}
  /\ spc = "start" => lifecycle < MaxGeneration

(* Each bridge has places of its own.                                      *)
OwnPlaces ==
  /\ hpc \in SharedPlaces => bridge = "shared"
  /\ hpc \in ProPlaces => bridge = "pro"
  /\ Bridges \subseteq {"shared", "pro"}

(* The hardware thread holds a guard while it works for a session, and     *)
(* that session has not drained it.                                        *)
Guarded ==
  /\ hpc \notin Unguarded => held
  /\ hpc \in Settled \/ (bridge = "shared" /\ hpc \in Working) => id.session # 0 /\ visited = id.session
  /\ hpc \in Working /\ id.session # 0 =>
       /\ id.session = session
       /\ spc \in Undrained
       /\ spc \in Waiting => drains
       /\ hpc # "generation" => id.gen = lifecycle

(* Identities are of the present or the past.                              *)
Past ==
  /\ id.gen <= lifecycle /\ lastValid.gen <= lifecycle /\ offered.of.gen <= lifecycle
  /\ id.hw <= hardware /\ lastValid.hw <= hardware /\ offered.of.hw <= hardware
  /\ startHw <= hardware /\ lifecycleHw <= hardware

(* A lifecycle that starts has published nothing, and nothing was heard.   *)
StartsEmpty ==
  spc \in Starting =>
    /\ regions[session].blocks = {}
    /\ lastValid.gen < lifecycle /\ offered.of.gen < lifecycle
    /\ hpc = "check" => ~got
    /\ hpc \notin {"arm", "armPort", "rearm"}

(* What the buffer holds.                                                  *)
Buffer ==
  /\ hpc \in BeforeChoice => offered = F!Nothing
  /\ offered # F!Nothing => offered.of.session # 0
  /\ hpc \in {"committing", "armPort", "rearm"} => offered # F!Nothing /\ id = offered.of
  /\ hpc \in {"armPort", "rearm"} => offered.fresh
  /\ bridge = "shared" /\ offered.fresh => scratch = [of |-> offered.of, played |-> FALSE]
  /\ bridge = "shared" /\ hpc = "check" /\ got => scratch = [of |-> id, played |-> FALSE]
  /\ lastValid # F!NoIdentity =>
       \/ scratch = [of |-> lastValid, played |-> TRUE]
       \/ bridge = "shared" /\ (offered.fresh \/ (hpc = "check" /\ got))

(* Who may be armed or in an outage.                                       *)
Ledger ==
  /\ alert # 0 => alert = session /\ heard /\ spc \in ArmedPlaces
  /\ outage # 0 => outage = session /\ spc \in OutagePlaces
  /\ bridge = "pro" => outage = 0
  /\ alert = 0 \/ outage = 0
  /\ hpc = "beginOutage" => alert = 0
  /\ hpc = "rearm" => outage = 0
  /\ hpc = "count" => heard

(* A session whose last block may be repeated is armed or in an outage,    *)
(* but for the moment in which the hardware thread is about to say so.     *)
Present == [session |-> live, gen |-> lifecycle, hw |-> hardware]
Tracked ==
  /\ spc \in {"running", "quiet"} /\ ~F!Gated /\ lastValid = Present =>
       session \in {alert, outage} \/ hpc \in {"arm", "beginOutage", "rearm"}
  /\ hpc \in Gating /\ lastValid.session # 0 /\ lastValid.gen = lifecycle => lifecycleHw <= id.hw

IInv ==
  /\ Types /\ FlagTypes /\ RegionTypes /\ MemoryTypes
  /\ OneSession /\ OwnPlaces /\ Guarded /\ Past /\ StartsEmpty /\ Buffer /\ Ledger /\ Tracked
  /\ F!RepeatsWhatWasHeard

-----------------------------------------------------------------------------
(* The regions.                                                            *)

LEMMA FieldUpdate ==
  ASSUME NEW x \in Regions
  PROVE  /\ \A client \in {"IDLE", "STARTING", "RUNNING"} :
              LET y == [x EXCEPT !.client = client]
              IN  y \in Regions /\ y.client = client /\ y.blocks = x.blocks
         /\ \A ready \in BOOLEAN :
              LET y == [x EXCEPT !.ready = ready]
              IN  y \in Regions /\ y.client = x.client /\ y.blocks = x.blocks
         /\ \A blocks \in SUBSET {0, 1} :
              LET y == [x EXCEPT !.blocks = blocks]
              IN  y \in Regions /\ y.client = x.client /\ y.blocks = blocks
BY DEF Regions

LEMMA BlocksUpdate ==
  ASSUME NEW x \in Regions, NEW bs \in SUBSET {0, 1}
  PROVE  [x EXCEPT !.blocks = bs] \in Regions /\ [x EXCEPT !.blocks = bs].blocks = bs
BY FieldUpdate

(* Nothing but a client that runs puts a block into a region without any.  *)
Emptied == \A i \in F!Ids : regions[i].blocks = {} => regions'[i].blocks = {}

LEMMA RebasedRegions ==
  ASSUME RegionTypes, session \in F!Ids, F!Rebase
  PROVE  RegionTypes' /\ Emptied /\ regions'[session].blocks = {}
<1>1. [F!NewRegion EXCEPT !.client = "STARTING"] \in Regions
  BY DEF F!NewRegion, Regions
<1>2. [F!NewRegion EXCEPT !.client = "STARTING"].blocks = {}
  BY DEF F!NewRegion
<1>3. /\ regions' \in [F!Ids -> Regions] /\ regions'[session].blocks = {}
      /\ \A i \in F!Ids : i # session => regions'[i] = regions[i]
  BY <1>1, <1>2, Zenon DEF F!Rebase, RegionTypes
<1> QED
  BY <1>3, Zenon DEF Emptied, RegionTypes

LEMMA SaidRegions ==
  ASSUME RegionTypes, session \in F!Ids, F!Quiet \/ F!Announce
  PROVE  RegionTypes' /\ Emptied
<1>1. PICK c \in {"IDLE", "STARTING", "RUNNING"} : regions' = [regions EXCEPT ![session].client = c]
  BY Zenon DEF F!Quiet, F!Announce
<1>2. regions \in [F!Ids -> Regions]
  BY DEF RegionTypes
<1>3. /\ [regions[session] EXCEPT !.client = c] \in Regions
      /\ [regions[session] EXCEPT !.client = c].blocks = regions[session].blocks
  BY <1>2, FieldUpdate, regions[session] \in Regions, Zenon
<1>4. /\ regions' \in [F!Ids -> Regions] /\ regions'[session].blocks = regions[session].blocks
      /\ \A j \in F!Ids : j # session => regions'[j] = regions[j]
  BY <1>1, <1>2, <1>3, Zenon
<1> QED
  BY <1>4, Zenon DEF Emptied, RegionTypes

LEMMA PublishedRegions ==
  ASSUME RegionTypes, session \in F!Ids, NEW block \in {0, 1}, F!Publish(block)
  PROVE  RegionTypes'
<1> DEFINE bs == regions[session].blocks \union {block}
<1>1. regions' = [regions EXCEPT ![session].blocks = bs]
  BY Zenon DEF F!Publish, F!Mine
<1>2. bs \in SUBSET {0, 1}
  <2>1. regions[session] \in Regions
    BY DEF RegionTypes
  <2> QED
    BY <2>1 DEF Regions
<1>3. regions \in [F!Ids -> Regions]
  BY DEF RegionTypes
<1> HIDE DEF bs
<1>4. [regions[session] EXCEPT !.blocks = bs] \in Regions
  BY <1>2, <1>3, FieldUpdate, regions[session] \in Regions, Zenon
<1> QED
  BY <1>1, <1>3, <1>4, Zenon DEF RegionTypes

LEMMA ReadyRegions ==
  ASSUME RegionTypes, NEW i \in F!Ids, regions' = [regions EXCEPT ![i].ready = TRUE]
  PROVE  RegionTypes' /\ Emptied
<1>1. regions \in [F!Ids -> Regions]
  BY DEF RegionTypes
<1>2. /\ [regions[i] EXCEPT !.ready = TRUE] \in Regions
      /\ [regions[i] EXCEPT !.ready = TRUE].blocks = regions[i].blocks
  BY <1>1, FieldUpdate, regions[i] \in Regions, Zenon
<1>3. /\ regions' \in [F!Ids -> Regions] /\ regions'[i].blocks = regions[i].blocks
      /\ \A j \in F!Ids : j # i => regions'[j] = regions[j]
  BY <1>1, <1>2, Zenon
<1> QED
  BY <1>3, Zenon DEF Emptied, RegionTypes

LEMMA EstablishedRegions ==
  /\ RegionTypes /\ live \in F!Ids /\ F!Establish => RegionTypes' /\ Emptied
  /\ RegionTypes /\ visited \in F!Ids /\ F!LookAtPort => RegionTypes' /\ Emptied
<1>1. ASSUME RegionTypes, live \in F!Ids, F!Establish PROVE RegionTypes' /\ Emptied
  BY <1>1, ReadyRegions, Zenon DEF F!Establish
<1>2. ASSUME RegionTypes, visited \in F!Ids, F!LookAtPort PROVE RegionTypes' /\ Emptied
  BY <1>2, ReadyRegions, Zenon DEF F!LookAtPort
<1> QED
  BY <1>1, <1>2

LEMMA ResetRegions ==
  ASSUME RegionTypes, session \in F!Ids, F!ResetSlots
  PROVE  RegionTypes' /\ Emptied
<1> DEFINE quiet == [regions EXCEPT ![session].client = "IDLE"]
<1>1. regions' = [quiet EXCEPT ![session].blocks = {}]
  BY Zenon DEF F!ResetSlots
<1>2. regions \in [F!Ids -> Regions]
  BY DEF RegionTypes
<1>3. [regions[session] EXCEPT !.client = "IDLE"] \in Regions
  BY <1>2, FieldUpdate, regions[session] \in Regions, Zenon
<1>4. quiet \in [F!Ids -> Regions] /\ \A j \in F!Ids : j # session => quiet[j] = regions[j]
  BY <1>2, <1>3, Zenon
<1> HIDE DEF quiet
<1>5. /\ [quiet[session] EXCEPT !.blocks = {}] \in Regions
      /\ [quiet[session] EXCEPT !.blocks = {}].blocks = {}
  <2>1. quiet[session] \in Regions /\ {} \in SUBSET {0, 1}
    BY <1>4
  <2> QED
    BY <2>1, BlocksUpdate, Zenon
<1>6. /\ regions' \in [F!Ids -> Regions] /\ regions'[session].blocks = {}
      /\ \A j \in F!Ids : j # session => regions'[j] = quiet[j]
  BY <1>1, <1>4, <1>5, Zenon
<1> QED
  BY <1>4, <1>6, Zenon DEF Emptied, RegionTypes

LEMMA AgedRegions ==
  ASSUME RegionTypes, F!NextCycle
  PROVE  RegionTypes' /\ Emptied
<1>1. ASSUME NEW i \in F!Ids
      PROVE  /\ regions'[i] \in Regions
             /\ regions[i].blocks = {} => regions'[i].blocks = {}
  <2> DEFINE bs == {j - 1 : j \in regions[i].blocks \ {0}}
  <2>1. regions[i] \in Regions
    BY DEF RegionTypes
  <2>2. bs \in SUBSET {0, 1} /\ (regions[i].blocks = {} => bs = {})
    BY <2>1 DEF Regions
  <2>3. regions'[i] = [regions[i] EXCEPT !.blocks = bs]
    BY Zenon DEF F!NextCycle
  <2> HIDE DEF bs
  <2>4. /\ [regions[i] EXCEPT !.blocks = bs] \in Regions
        /\ [regions[i] EXCEPT !.blocks = bs].blocks = bs
    BY <2>1, <2>2, FieldUpdate, Zenon
  <2> QED
    BY <2>2, <2>3, <2>4, Zenon
<1>2. regions' = [i \in F!Ids |-> regions'[i]]
  BY Zenon DEF F!NextCycle
<1> QED
  BY <1>1, <1>2, Zenon DEF Emptied, RegionTypes

LEMMA ConsumedRegions ==
  ASSUME RegionTypes, visited \in F!Ids, NEW late, F!Consume(late)
  PROVE  RegionTypes' /\ Emptied
<1> DEFINE bs == regions[visited].blocks \ {0}
<1>1. regions' = regions \/ regions' = [regions EXCEPT ![visited].blocks = bs]
  BY Zenon DEF F!Consume, F!Region
<1>2. CASE regions' = [regions EXCEPT ![visited].blocks = bs]
  <2>1. regions[visited] \in Regions /\ regions \in [F!Ids -> Regions]
    BY DEF RegionTypes
  <2>2. bs \in SUBSET {0, 1} /\ (regions[visited].blocks = {} => bs = {})
    BY <2>1 DEF Regions
  <2> HIDE DEF bs
  <2>3. /\ regions' \in [F!Ids -> Regions] /\ regions'[visited].blocks = bs
        /\ \A j \in F!Ids : j # visited => regions'[j] = regions[j]
    <3>1. /\ [regions[visited] EXCEPT !.blocks = bs] \in Regions
          /\ [regions[visited] EXCEPT !.blocks = bs].blocks = bs
      BY <2>1, <2>2, BlocksUpdate, Zenon
    <3> QED
      BY <1>2, <2>1, <3>1, Zenon
  <2> QED
    BY <2>2, <2>3, Zenon DEF Emptied, RegionTypes
<1>3. CASE regions' = regions
  BY <1>3, Zenon DEF Emptied, RegionTypes
<1> QED
  BY <1>1, <1>2, <1>3

LEMMA RegionsAfterSession ==
  ASSUME RegionTypes, session \in F!Ids, live \in F!Ids, F!SessionStep
  PROVE  RegionTypes' /\ (Emptied \/ spc = "running") /\ (F!Rebase => regions'[session].blocks = {})
<1>1. UNCHANGED regions => RegionTypes' /\ Emptied
  BY Zenon DEF Emptied, RegionTypes
<1>2. ASSUME NEW block \in {0, 1}, F!Publish(block) PROVE RegionTypes' /\ spc = "running"
  BY <1>2, PublishedRegions DEF F!Publish
<1>3. \/ F!Open \/ F!BeginDrain \/ F!EndDrain \/ F!BeginStart \/ F!Activate \/ F!BeginStop \/ F!Disarm
      \/ F!EndOutage \/ F!Deactivate
      => UNCHANGED regions
  BY DEF F!Open, F!BeginDrain, F!EndDrain, F!BeginStart, F!Activate, F!BeginStop, F!Disarm,
     F!EndOutage, F!Deactivate
<1> QED
  BY <1>1, <1>2, <1>3, RebasedRegions, SaidRegions, EstablishedRegions, ResetRegions DEF
     F!SessionStep

LEMMA RegionsAfterCycle ==
  ASSUME RegionTypes, visited \in F!Ids, F!CycleStep
  PROVE  RegionTypes' /\ Emptied
<1>1. UNCHANGED regions => RegionTypes' /\ Emptied
  BY Zenon DEF Emptied, RegionTypes
<1>2. F!BeginPrepare \/ F!BeginGate => F!NextCycle
  BY DEF F!BeginPrepare, F!BeginGate
<1>3. \/ F!BeginSelect \/ F!ReadHardware \/ F!ReadGateSession \/ F!Synchronize \/ F!ReadSession
      \/ F!ReadGeneration \/ F!LookAtPro \/ F!KeepBlock \/ F!DropBlock \/ F!Miss \/ F!MissWhileArmed
      \/ F!MissUnarmed \/ F!MissInOutage \/ F!Count \/ F!BeginOutage \/ F!ArmPro \/ F!Leave \/ F!Abandon
      \/ F!BeginCommit \/ F!RefuseCommit \/ F!CommitRepeat \/ F!CommitFresh \/ F!Heal \/ F!Mix
      => UNCHANGED regions
  BY DEF F!BeginSelect, F!ReadHardware, F!ReadGateSession, F!Synchronize, F!ReadSession,
     F!ReadGeneration, F!LookAtPro, F!KeepBlock, F!DropBlock, F!Miss, F!MissWhileArmed,
     F!MissUnarmed, F!MissInOutage, F!Count, F!BeginOutage, F!ArmPro, F!Leave, F!Abandon,
     F!BeginCommit, F!RefuseCommit, F!CommitRepeat, F!CommitFresh, F!Heal, F!Mix, F!ledger,
     F!readVars, F!memoryVars
<1> QED
  BY <1>1, <1>2, <1>3, AgedRegions, EstablishedRegions, ConsumedRegions DEF F!CycleStep

-----------------------------------------------------------------------------
(* The session thread.                                                     *)

LEMMA SessionFrame ==
  ASSUME F!SessionStep
  PROVE  /\ bridge' = bridge /\ hardware' = hardware
         /\ hpc' = hpc /\ held' = held /\ visited' = visited /\ id' = id /\ blocked' = blocked
         /\ got' = got
         /\ offered' = offered /\ lastValid' = lastValid /\ repeated' = repeated
         /\ observed' = observed /\ scratch' = scratch
BY DEF F!SessionStep, F!visitVars, F!readVars, F!memoryVars

LEMMA SessionCases ==
  ASSUME F!SessionStep
  PROVE  \/ F!Open \/ F!BeginDrain \/ F!EndDrain \/ F!BeginStart \/ F!Rebase \/ F!Activate \/ F!Quiet
         \/ F!BeginStop \/ F!Disarm \/ F!EndOutage \/ F!Deactivate \/ F!ResetSlots
         \/ UNCHANGED <<F!sessionVars, F!ledger>>
BY DEF F!SessionStep, F!Announce, F!Publish, F!Establish

LEMMA TypesAfterSession ==
  ASSUME F!FallbackAssumption, IInv, F!SessionStep
  PROVE  Types'
<1> USE SessionFrame DEF Types, F!FallbackAssumption, OneSession, F!Ids, ActivePlaces, Waiting,
     Undrained, ArmedPlaces, OutagePlaces, Starting, SessionPlaces
<1>t. Types /\ OneSession
  BY DEF IInv
<1>1. CASE F!Open
  BY <1>1, <1>t, F!FallbackAssumption DEF F!Open, F!sessionVars, F!endpointVars, F!lifeVars,
     F!waitVars, F!ledger, F!Goto
<1>2. CASE F!BeginDrain
  BY <1>2, <1>t, F!FallbackAssumption DEF F!BeginDrain, F!sessionVars, F!endpointVars,
     F!lifeVars, F!waitVars, F!ledger, F!Goto
<1>3. CASE F!EndDrain
  BY <1>3, <1>t, F!FallbackAssumption DEF F!EndDrain, F!sessionVars, F!endpointVars, F!lifeVars,
     F!waitVars, F!ledger, F!Goto
<1>4. CASE F!BeginStart
  BY <1>4, <1>t, F!FallbackAssumption DEF F!BeginStart, F!sessionVars, F!endpointVars,
     F!lifeVars, F!waitVars, F!ledger, F!Goto
<1>5. CASE F!Rebase
  BY <1>5, <1>t, F!FallbackAssumption DEF F!Rebase, F!sessionVars, F!endpointVars, F!lifeVars,
     F!waitVars, F!ledger, F!Goto
<1>6. CASE F!Activate
  BY <1>6, <1>t, F!FallbackAssumption DEF F!Activate, F!sessionVars, F!endpointVars, F!lifeVars,
     F!waitVars, F!ledger, F!Goto
<1>7. CASE F!Quiet
  BY <1>7, <1>t, F!FallbackAssumption DEF F!Quiet, F!sessionVars, F!endpointVars, F!lifeVars,
     F!waitVars, F!ledger, F!Goto
<1>8. CASE F!BeginStop
  BY <1>8, <1>t, F!FallbackAssumption DEF F!BeginStop, F!sessionVars, F!endpointVars,
     F!lifeVars, F!waitVars, F!ledger, F!Goto
<1>9. CASE F!Disarm
  BY <1>9, <1>t, F!FallbackAssumption DEF F!Disarm, F!sessionVars, F!endpointVars, F!lifeVars,
     F!waitVars, F!ledger, F!Goto
<1>10. CASE F!EndOutage
  BY <1>10, <1>t, F!FallbackAssumption DEF F!EndOutage, F!sessionVars, F!endpointVars,
     F!lifeVars, F!waitVars, F!ledger, F!Goto
<1>11. CASE F!Deactivate
  BY <1>11, <1>t, F!FallbackAssumption DEF F!Deactivate, F!sessionVars, F!endpointVars,
     F!lifeVars, F!waitVars, F!ledger, F!Goto
<1>12. CASE F!ResetSlots
  BY <1>12, <1>t, F!FallbackAssumption DEF F!ResetSlots, F!sessionVars, F!endpointVars,
     F!lifeVars, F!waitVars, F!ledger, F!Goto
<1>13. CASE UNCHANGED <<F!sessionVars, F!ledger>>
  BY <1>13, <1>t, F!FallbackAssumption DEF F!sessionVars, F!endpointVars, F!lifeVars,
     F!waitVars, F!ledger, F!Goto
<1> QED
  BY <1>1, <1>2, <1>3, <1>4, <1>5, <1>6, <1>7, <1>8, <1>9, <1>10, <1>11, <1>12, <1>13,
     SessionCases

LEMMA FlagsAfterSession ==
  ASSUME IInv, F!SessionStep
  PROVE  FlagTypes'
<1> USE SessionFrame DEF FlagTypes, ActivePlaces, Waiting, Undrained, ArmedPlaces, OutagePlaces,
     Starting, SessionPlaces
<1>t. FlagTypes
  BY DEF IInv
<1>1. CASE F!Open
  BY <1>1, <1>t DEF F!Open, F!sessionVars, F!endpointVars, F!lifeVars, F!waitVars, F!ledger,
     F!Goto
<1>2. CASE F!BeginDrain
  BY <1>2, <1>t DEF F!BeginDrain, F!sessionVars, F!endpointVars, F!lifeVars, F!waitVars,
     F!ledger, F!Goto
<1>3. CASE F!EndDrain
  BY <1>3, <1>t DEF F!EndDrain, F!sessionVars, F!endpointVars, F!lifeVars, F!waitVars, F!ledger,
     F!Goto
<1>4. CASE F!BeginStart
  BY <1>4, <1>t DEF F!BeginStart, F!sessionVars, F!endpointVars, F!lifeVars, F!waitVars,
     F!ledger, F!Goto
<1>5. CASE F!Rebase
  BY <1>5, <1>t DEF F!Rebase, F!sessionVars, F!endpointVars, F!lifeVars, F!waitVars, F!ledger,
     F!Goto
<1>6. CASE F!Activate
  BY <1>6, <1>t DEF F!Activate, F!sessionVars, F!endpointVars, F!lifeVars, F!waitVars, F!ledger,
     F!Goto
<1>7. CASE F!Quiet
  BY <1>7, <1>t DEF F!Quiet, F!sessionVars, F!endpointVars, F!lifeVars, F!waitVars, F!ledger,
     F!Goto
<1>8. CASE F!BeginStop
  BY <1>8, <1>t DEF F!BeginStop, F!sessionVars, F!endpointVars, F!lifeVars, F!waitVars,
     F!ledger, F!Goto
<1>9. CASE F!Disarm
  BY <1>9, <1>t DEF F!Disarm, F!sessionVars, F!endpointVars, F!lifeVars, F!waitVars, F!ledger,
     F!Goto
<1>10. CASE F!EndOutage
  BY <1>10, <1>t DEF F!EndOutage, F!sessionVars, F!endpointVars, F!lifeVars, F!waitVars,
     F!ledger, F!Goto
<1>11. CASE F!Deactivate
  BY <1>11, <1>t DEF F!Deactivate, F!sessionVars, F!endpointVars, F!lifeVars, F!waitVars,
     F!ledger, F!Goto
<1>12. CASE F!ResetSlots
  BY <1>12, <1>t DEF F!ResetSlots, F!sessionVars, F!endpointVars, F!lifeVars, F!waitVars,
     F!ledger, F!Goto
<1>13. CASE UNCHANGED <<F!sessionVars, F!ledger>>
  BY <1>13, <1>t DEF F!sessionVars, F!endpointVars, F!lifeVars, F!waitVars, F!ledger, F!Goto
<1> QED
  BY <1>1, <1>2, <1>3, <1>4, <1>5, <1>6, <1>7, <1>8, <1>9, <1>10, <1>11, <1>12, <1>13,
     SessionCases

LEMMA OneSessionAfterSession ==
  ASSUME F!FallbackAssumption, IInv, F!SessionStep
  PROVE  OneSession'
<1> USE SessionFrame DEF OneSession, Types, F!Ids, ActivePlaces, Waiting, Undrained, ArmedPlaces,
     OutagePlaces, Starting, SessionPlaces
<1>t. Types /\ OneSession
  BY DEF IInv
<1>1. CASE F!Open
  BY <1>1, <1>t DEF F!Open, F!sessionVars, F!endpointVars, F!lifeVars, F!waitVars, F!ledger,
     F!Goto
<1>2. CASE F!BeginDrain
  BY <1>2, <1>t DEF F!BeginDrain, F!sessionVars, F!endpointVars, F!lifeVars, F!waitVars,
     F!ledger, F!Goto
<1>3. CASE F!EndDrain
  BY <1>3, <1>t DEF F!EndDrain, F!sessionVars, F!endpointVars, F!lifeVars, F!waitVars, F!ledger,
     F!Goto
<1>4. CASE F!BeginStart
  BY <1>4, <1>t DEF F!BeginStart, F!sessionVars, F!endpointVars, F!lifeVars, F!waitVars,
     F!ledger, F!Goto
<1>5. CASE F!Rebase
  BY <1>5, <1>t DEF F!Rebase, F!sessionVars, F!endpointVars, F!lifeVars, F!waitVars, F!ledger,
     F!Goto
<1>6. CASE F!Activate
  BY <1>6, <1>t DEF F!Activate, F!sessionVars, F!endpointVars, F!lifeVars, F!waitVars, F!ledger,
     F!Goto
<1>7. CASE F!Quiet
  BY <1>7, <1>t DEF F!Quiet, F!sessionVars, F!endpointVars, F!lifeVars, F!waitVars, F!ledger,
     F!Goto
<1>8. CASE F!BeginStop
  BY <1>8, <1>t DEF F!BeginStop, F!sessionVars, F!endpointVars, F!lifeVars, F!waitVars,
     F!ledger, F!Goto
<1>9. CASE F!Disarm
  BY <1>9, <1>t DEF F!Disarm, F!sessionVars, F!endpointVars, F!lifeVars, F!waitVars, F!ledger,
     F!Goto
<1>10. CASE F!EndOutage
  BY <1>10, <1>t DEF F!EndOutage, F!sessionVars, F!endpointVars, F!lifeVars, F!waitVars,
     F!ledger, F!Goto
<1>11. CASE F!Deactivate
  BY <1>11, <1>t DEF F!Deactivate, F!sessionVars, F!endpointVars, F!lifeVars, F!waitVars,
     F!ledger, F!Goto
<1>12. CASE F!ResetSlots
  BY <1>12, <1>t DEF F!ResetSlots, F!sessionVars, F!endpointVars, F!lifeVars, F!waitVars,
     F!ledger, F!Goto
<1>13. CASE UNCHANGED <<F!sessionVars, F!ledger>>
  BY <1>13, <1>t DEF F!sessionVars, F!endpointVars, F!lifeVars, F!waitVars, F!ledger, F!Goto
<1> QED
  BY <1>1, <1>2, <1>3, <1>4, <1>5, <1>6, <1>7, <1>8, <1>9, <1>10, <1>11, <1>12, <1>13,
     SessionCases

LEMMA GuardedAfterSession ==
  ASSUME IInv, F!SessionStep
  PROVE  Guarded'
<1> USE SessionFrame DEF Guarded, Types, OneSession, Unguarded, Settled, Working, ActivePlaces,
     Waiting, Undrained, ArmedPlaces, OutagePlaces, Starting, SessionPlaces
<1>t. Types /\ OneSession /\ Guarded
  BY DEF IInv
<1>1. CASE F!Open
  BY <1>1, <1>t DEF F!Open, F!sessionVars, F!endpointVars, F!lifeVars, F!waitVars, F!ledger,
     F!Goto
<1>2. CASE F!BeginDrain
  BY <1>2, <1>t DEF F!BeginDrain, F!sessionVars, F!endpointVars, F!lifeVars, F!waitVars,
     F!ledger, F!Goto
<1>3. CASE F!EndDrain
  BY <1>3, <1>t DEF F!EndDrain, F!sessionVars, F!endpointVars, F!lifeVars, F!waitVars, F!ledger,
     F!Goto
<1>4. CASE F!BeginStart
  BY <1>4, <1>t DEF F!BeginStart, F!sessionVars, F!endpointVars, F!lifeVars, F!waitVars,
     F!ledger, F!Goto
<1>5. CASE F!Rebase
  BY <1>5, <1>t DEF F!Rebase, F!sessionVars, F!endpointVars, F!lifeVars, F!waitVars, F!ledger,
     F!Goto
<1>6. CASE F!Activate
  BY <1>6, <1>t DEF F!Activate, F!sessionVars, F!endpointVars, F!lifeVars, F!waitVars, F!ledger,
     F!Goto
<1>7. CASE F!Quiet
  BY <1>7, <1>t DEF F!Quiet, F!sessionVars, F!endpointVars, F!lifeVars, F!waitVars, F!ledger,
     F!Goto
<1>8. CASE F!BeginStop
  BY <1>8, <1>t DEF F!BeginStop, F!sessionVars, F!endpointVars, F!lifeVars, F!waitVars,
     F!ledger, F!Goto
<1>9. CASE F!Disarm
  BY <1>9, <1>t DEF F!Disarm, F!sessionVars, F!endpointVars, F!lifeVars, F!waitVars, F!ledger,
     F!Goto
<1>10. CASE F!EndOutage
  BY <1>10, <1>t DEF F!EndOutage, F!sessionVars, F!endpointVars, F!lifeVars, F!waitVars,
     F!ledger, F!Goto
<1>11. CASE F!Deactivate
  BY <1>11, <1>t DEF F!Deactivate, F!sessionVars, F!endpointVars, F!lifeVars, F!waitVars,
     F!ledger, F!Goto
<1>12. CASE F!ResetSlots
  BY <1>12, <1>t DEF F!ResetSlots, F!sessionVars, F!endpointVars, F!lifeVars, F!waitVars,
     F!ledger, F!Goto
<1>13. CASE UNCHANGED <<F!sessionVars, F!ledger>>
  BY <1>13, <1>t DEF F!sessionVars, F!endpointVars, F!lifeVars, F!waitVars, F!ledger, F!Goto
<1> QED
  BY <1>1, <1>2, <1>3, <1>4, <1>5, <1>6, <1>7, <1>8, <1>9, <1>10, <1>11, <1>12, <1>13,
     SessionCases

LEMMA PastAfterSession ==
  ASSUME IInv, F!SessionStep
  PROVE  Past'
<1> USE SessionFrame DEF Past, Types, MemoryTypes, F!Identities, Choices
<1>t. Types /\ MemoryTypes /\ Past
  BY DEF IInv
<1>1. CASE F!Open
  BY <1>1, <1>t DEF F!Open, F!sessionVars, F!endpointVars, F!lifeVars, F!waitVars, F!ledger,
     F!Goto
<1>2. CASE F!BeginDrain
  BY <1>2, <1>t DEF F!BeginDrain, F!sessionVars, F!endpointVars, F!lifeVars, F!waitVars,
     F!ledger, F!Goto
<1>3. CASE F!EndDrain
  BY <1>3, <1>t DEF F!EndDrain, F!sessionVars, F!endpointVars, F!lifeVars, F!waitVars, F!ledger,
     F!Goto
<1>4. CASE F!BeginStart
  BY <1>4, <1>t DEF F!BeginStart, F!sessionVars, F!endpointVars, F!lifeVars, F!waitVars,
     F!ledger, F!Goto
<1>5. CASE F!Rebase
  BY <1>5, <1>t DEF F!Rebase, F!sessionVars, F!endpointVars, F!lifeVars, F!waitVars, F!ledger,
     F!Goto
<1>6. CASE F!Activate
  BY <1>6, <1>t DEF F!Activate, F!sessionVars, F!endpointVars, F!lifeVars, F!waitVars, F!ledger,
     F!Goto
<1>7. CASE F!Quiet
  BY <1>7, <1>t DEF F!Quiet, F!sessionVars, F!endpointVars, F!lifeVars, F!waitVars, F!ledger,
     F!Goto
<1>8. CASE F!BeginStop
  BY <1>8, <1>t DEF F!BeginStop, F!sessionVars, F!endpointVars, F!lifeVars, F!waitVars,
     F!ledger, F!Goto
<1>9. CASE F!Disarm
  BY <1>9, <1>t DEF F!Disarm, F!sessionVars, F!endpointVars, F!lifeVars, F!waitVars, F!ledger,
     F!Goto
<1>10. CASE F!EndOutage
  BY <1>10, <1>t DEF F!EndOutage, F!sessionVars, F!endpointVars, F!lifeVars, F!waitVars,
     F!ledger, F!Goto
<1>11. CASE F!Deactivate
  BY <1>11, <1>t DEF F!Deactivate, F!sessionVars, F!endpointVars, F!lifeVars, F!waitVars,
     F!ledger, F!Goto
<1>12. CASE F!ResetSlots
  BY <1>12, <1>t DEF F!ResetSlots, F!sessionVars, F!endpointVars, F!lifeVars, F!waitVars,
     F!ledger, F!Goto
<1>13. CASE UNCHANGED <<F!sessionVars, F!ledger>>
  BY <1>13, <1>t DEF F!sessionVars, F!endpointVars, F!lifeVars, F!waitVars, F!ledger, F!Goto
<1> QED
  BY <1>1, <1>2, <1>3, <1>4, <1>5, <1>6, <1>7, <1>8, <1>9, <1>10, <1>11, <1>12, <1>13,
     SessionCases

LEMMA LedgerAfterSession ==
  ASSUME IInv, F!SessionStep
  PROVE  Ledger'
<1> USE SessionFrame DEF Ledger, Types, OneSession, Guarded, Settled, Working, ActivePlaces,
     Waiting, Undrained, ArmedPlaces, OutagePlaces, Starting, SessionPlaces
<1>t. Types /\ OneSession /\ Guarded /\ Ledger
  BY DEF IInv
<1>1. CASE F!Open
  BY <1>1, <1>t DEF F!Open, F!sessionVars, F!endpointVars, F!lifeVars, F!waitVars, F!ledger,
     F!Goto
<1>2. CASE F!BeginDrain
  BY <1>2, <1>t DEF F!BeginDrain, F!sessionVars, F!endpointVars, F!lifeVars, F!waitVars,
     F!ledger, F!Goto
<1>3. CASE F!EndDrain
  BY <1>3, <1>t DEF F!EndDrain, F!sessionVars, F!endpointVars, F!lifeVars, F!waitVars, F!ledger,
     F!Goto
<1>4. CASE F!BeginStart
  BY <1>4, <1>t DEF F!BeginStart, F!sessionVars, F!endpointVars, F!lifeVars, F!waitVars,
     F!ledger, F!Goto
<1>5. CASE F!Rebase
  BY <1>5, <1>t DEF F!Rebase, F!sessionVars, F!endpointVars, F!lifeVars, F!waitVars, F!ledger,
     F!Goto
<1>6. CASE F!Activate
  BY <1>6, <1>t DEF F!Activate, F!sessionVars, F!endpointVars, F!lifeVars, F!waitVars, F!ledger,
     F!Goto
<1>7. CASE F!Quiet
  BY <1>7, <1>t DEF F!Quiet, F!sessionVars, F!endpointVars, F!lifeVars, F!waitVars, F!ledger,
     F!Goto
<1>8. CASE F!BeginStop
  BY <1>8, <1>t DEF F!BeginStop, F!sessionVars, F!endpointVars, F!lifeVars, F!waitVars,
     F!ledger, F!Goto
<1>9. CASE F!Disarm
  BY <1>9, <1>t DEF F!Disarm, F!sessionVars, F!endpointVars, F!lifeVars, F!waitVars, F!ledger,
     F!Goto
<1>10. CASE F!EndOutage
  BY <1>10, <1>t DEF F!EndOutage, F!sessionVars, F!endpointVars, F!lifeVars, F!waitVars,
     F!ledger, F!Goto
<1>11. CASE F!Deactivate
  BY <1>11, <1>t DEF F!Deactivate, F!sessionVars, F!endpointVars, F!lifeVars, F!waitVars,
     F!ledger, F!Goto
<1>12. CASE F!ResetSlots
  BY <1>12, <1>t DEF F!ResetSlots, F!sessionVars, F!endpointVars, F!lifeVars, F!waitVars,
     F!ledger, F!Goto
<1>13. CASE UNCHANGED <<F!sessionVars, F!ledger>>
  BY <1>13, <1>t DEF F!sessionVars, F!endpointVars, F!lifeVars, F!waitVars, F!ledger, F!Goto
<1> QED
  BY <1>1, <1>2, <1>3, <1>4, <1>5, <1>6, <1>7, <1>8, <1>9, <1>10, <1>11, <1>12, <1>13,
     SessionCases

LEMMA StartsEmptyAfterSession ==
  ASSUME IInv, F!SessionStep
  PROVE  StartsEmpty'
<1> USE SessionFrame DEF StartsEmpty, Types, MemoryTypes, F!Identities, Choices, OneSession,
     Guarded, Past, Settled, Working, ActivePlaces, Waiting, Undrained, ArmedPlaces, OutagePlaces,
     Starting, SessionPlaces
<1>t. Types /\ MemoryTypes /\ OneSession /\ Guarded /\ Past /\ StartsEmpty
  BY DEF IInv
<1>r. (Emptied \/ spc = "running") /\ (F!Rebase => regions'[session].blocks = {})
  BY <1>t, RegionsAfterSession DEF IInv, Types
<1>e. Emptied /\ session \in F!Ids /\ regions[session].blocks = {} => regions'[session].blocks = {}
  BY Zenon DEF Emptied
<1>1. CASE F!Open
  BY <1>1, <1>t, <1>r, <1>e DEF F!Open, F!sessionVars, F!endpointVars, F!lifeVars, F!waitVars,
     F!ledger, F!Goto
<1>2. CASE F!BeginDrain
  BY <1>2, <1>t, <1>r, <1>e DEF F!BeginDrain, F!sessionVars, F!endpointVars, F!lifeVars,
     F!waitVars, F!ledger, F!Goto
<1>3. CASE F!EndDrain
  BY <1>3, <1>t, <1>r, <1>e DEF F!EndDrain, F!sessionVars, F!endpointVars, F!lifeVars,
     F!waitVars, F!ledger, F!Goto
<1>4. CASE F!BeginStart
  BY <1>4, <1>t, <1>r, <1>e DEF F!BeginStart, F!sessionVars, F!endpointVars, F!lifeVars,
     F!waitVars, F!ledger, F!Goto
<1>5. CASE F!Rebase
  BY <1>5, <1>t, <1>r, <1>e DEF F!Rebase, F!sessionVars, F!endpointVars, F!lifeVars, F!waitVars,
     F!ledger, F!Goto
<1>6. CASE F!Activate
  BY <1>6, <1>t, <1>r, <1>e DEF F!Activate, F!sessionVars, F!endpointVars, F!lifeVars,
     F!waitVars, F!ledger, F!Goto
<1>7. CASE F!Quiet
  BY <1>7, <1>t, <1>r, <1>e DEF F!Quiet, F!sessionVars, F!endpointVars, F!lifeVars, F!waitVars,
     F!ledger, F!Goto
<1>8. CASE F!BeginStop
  BY <1>8, <1>t, <1>r, <1>e DEF F!BeginStop, F!sessionVars, F!endpointVars, F!lifeVars,
     F!waitVars, F!ledger, F!Goto
<1>9. CASE F!Disarm
  BY <1>9, <1>t, <1>r, <1>e DEF F!Disarm, F!sessionVars, F!endpointVars, F!lifeVars, F!waitVars,
     F!ledger, F!Goto
<1>10. CASE F!EndOutage
  BY <1>10, <1>t, <1>r, <1>e DEF F!EndOutage, F!sessionVars, F!endpointVars, F!lifeVars,
     F!waitVars, F!ledger, F!Goto
<1>11. CASE F!Deactivate
  BY <1>11, <1>t, <1>r, <1>e DEF F!Deactivate, F!sessionVars, F!endpointVars, F!lifeVars,
     F!waitVars, F!ledger, F!Goto
<1>12. CASE F!ResetSlots
  BY <1>12, <1>t, <1>r, <1>e DEF F!ResetSlots, F!sessionVars, F!endpointVars, F!lifeVars,
     F!waitVars, F!ledger, F!Goto
<1>13. CASE UNCHANGED <<F!sessionVars, F!ledger>>
  BY <1>13, <1>t, <1>r, <1>e DEF F!sessionVars, F!endpointVars, F!lifeVars, F!waitVars,
     F!ledger, F!Goto
<1> QED
  BY <1>1, <1>2, <1>3, <1>4, <1>5, <1>6, <1>7, <1>8, <1>9, <1>10, <1>11, <1>12, <1>13,
     SessionCases

LEMMA TrackedAfterSession ==
  ASSUME IInv, F!SessionStep
  PROVE  Tracked'
<1> USE SessionFrame DEF Tracked, Types, MemoryTypes, F!Identities, Choices, OneSession, Past,
     StartsEmpty, Ledger, Present, F!Gated, Gating, ActivePlaces, Waiting, Undrained, ArmedPlaces,
     OutagePlaces, Starting, SessionPlaces
<1>t. Types /\ MemoryTypes /\ OneSession /\ Past /\ StartsEmpty /\ Ledger /\ Tracked
  BY DEF IInv
<1>1. CASE F!Open
  BY <1>1, <1>t DEF F!Open, F!sessionVars, F!endpointVars, F!lifeVars, F!waitVars, F!ledger,
     F!Goto
<1>2. CASE F!BeginDrain
  BY <1>2, <1>t DEF F!BeginDrain, F!sessionVars, F!endpointVars, F!lifeVars, F!waitVars,
     F!ledger, F!Goto
<1>3. CASE F!EndDrain
  BY <1>3, <1>t DEF F!EndDrain, F!sessionVars, F!endpointVars, F!lifeVars, F!waitVars, F!ledger,
     F!Goto
<1>4. CASE F!BeginStart
  BY <1>4, <1>t DEF F!BeginStart, F!sessionVars, F!endpointVars, F!lifeVars, F!waitVars,
     F!ledger, F!Goto
<1>5. CASE F!Rebase
  BY <1>5, <1>t DEF F!Rebase, F!sessionVars, F!endpointVars, F!lifeVars, F!waitVars, F!ledger,
     F!Goto
<1>6. CASE F!Activate
  BY <1>6, <1>t DEF F!Activate, F!sessionVars, F!endpointVars, F!lifeVars, F!waitVars, F!ledger,
     F!Goto
<1>7. CASE F!Quiet
  BY <1>7, <1>t DEF F!Quiet, F!sessionVars, F!endpointVars, F!lifeVars, F!waitVars, F!ledger,
     F!Goto
<1>8. CASE F!BeginStop
  BY <1>8, <1>t DEF F!BeginStop, F!sessionVars, F!endpointVars, F!lifeVars, F!waitVars,
     F!ledger, F!Goto
<1>9. CASE F!Disarm
  BY <1>9, <1>t DEF F!Disarm, F!sessionVars, F!endpointVars, F!lifeVars, F!waitVars, F!ledger,
     F!Goto
<1>10. CASE F!EndOutage
  BY <1>10, <1>t DEF F!EndOutage, F!sessionVars, F!endpointVars, F!lifeVars, F!waitVars,
     F!ledger, F!Goto
<1>11. CASE F!Deactivate
  BY <1>11, <1>t DEF F!Deactivate, F!sessionVars, F!endpointVars, F!lifeVars, F!waitVars,
     F!ledger, F!Goto
<1>12. CASE F!ResetSlots
  BY <1>12, <1>t DEF F!ResetSlots, F!sessionVars, F!endpointVars, F!lifeVars, F!waitVars,
     F!ledger, F!Goto
<1>13. CASE UNCHANGED <<F!sessionVars, F!ledger>>
  BY <1>13, <1>t DEF F!sessionVars, F!endpointVars, F!lifeVars, F!waitVars, F!ledger, F!Goto
<1> QED
  BY <1>1, <1>2, <1>3, <1>4, <1>5, <1>6, <1>7, <1>8, <1>9, <1>10, <1>11, <1>12, <1>13,
     SessionCases

-----------------------------------------------------------------------------
(* A recovery, and the hardware thread.                                    *)

LEMMA RecoverInv ==
  ASSUME F!FallbackAssumption, IInv, F!Recover
  PROVE  IInv'
<1>f. /\ bridge' = bridge /\ hardware' = hardware + 1 /\ hardware < MaxHardware
      /\ session' = session /\ shown' = shown /\ live' = live /\ lifecycle' = lifecycle
      /\ lifecycleHw' = lifecycleHw /\ startHw' = startHw /\ drains' = drains /\ spc' = spc
      /\ alert' = alert /\ outage' = outage /\ heard' = heard /\ regions' = regions
      /\ hpc' = hpc /\ held' = held /\ visited' = visited /\ id' = id /\ blocked' = blocked
      /\ got' = got
      /\ offered' = offered /\ lastValid' = lastValid /\ repeated' = repeated
      /\ observed' = observed /\ scratch' = scratch
  BY DEF F!Recover, F!sessionVars, F!endpointVars, F!lifeVars, F!waitVars, F!ledger,
     F!visitVars, F!readVars, F!memoryVars
<1> USE <1>f DEF IInv
<1>1. Types'
  BY DEF Types, F!FallbackAssumption
<1>2. FlagTypes' /\ RegionTypes' /\ MemoryTypes' /\ OneSession' /\ OwnPlaces' /\ Guarded'
      /\ Ledger' /\ Buffer'
  BY DEF FlagTypes, RegionTypes, MemoryTypes, OneSession, OwnPlaces, Guarded, Ledger, Buffer
<1>3. Past'
  BY DEF Past, Types, MemoryTypes, F!Identities, Choices
<1>4. StartsEmpty' /\ F!RepeatsWhatWasHeard'
  BY DEF StartsEmpty, F!RepeatsWhatWasHeard
<1>5. Tracked'
  BY DEF Tracked, Present, F!Gated, Past, Types, MemoryTypes, F!Identities, Choices
<1> QED
  BY <1>1, <1>2, <1>3, <1>4, <1>5

LEMMA CycleFrame ==
  ASSUME F!HardwareStep
  PROVE  /\ bridge' = bridge /\ session' = session /\ shown' = shown /\ live' = live
         /\ lifecycle' = lifecycle /\ lifecycleHw' = lifecycleHw /\ spc' = spc
         /\ startHw' = startHw /\ hardware' = hardware /\ drains' = (drains /\ held')
         /\ F!CycleStep
BY DEF F!HardwareStep, F!endpointVars, F!lifeVars

LEMMA TypesAfterCycle ==
  ASSUME F!FallbackAssumption, IInv, F!HardwareStep
  PROVE  Types'
<1> USE CycleFrame DEF Types, CyclePlaces, Working, Settled, Gating, SharedPlaces, ProPlaces
<1>t. Types
  BY DEF IInv
<1>a. {MaxSessions, MaxGeneration, MaxHardware, MaxRepeats} \subseteq Nat
  BY DEF F!FallbackAssumption
<1>i. id.session \in F!Ids /\ offered.of.session \in F!Ids /\ 0 \in F!Ids
  BY <1>a DEF IInv, MemoryTypes, Choices, F!Identities, F!Ids
<1>1. CASE F!BeginPrepare
  BY <1>1, <1>t, <1>a, <1>i DEF F!BeginPrepare, F!ledger, F!readVars, F!memoryVars, F!At, F!Go,
     F!Forget, F!Take
<1>2. CASE F!BeginGate
  BY <1>2, <1>t, <1>a, <1>i DEF F!BeginGate, F!ledger, F!readVars, F!memoryVars, F!At, F!Go,
     F!Forget, F!Take
<1>3. CASE F!BeginSelect
  BY <1>3, <1>t, <1>a, <1>i DEF F!BeginSelect, F!ledger, F!readVars, F!memoryVars, F!At, F!Go,
     F!Forget, F!Take
<1>4. CASE F!ReadHardware
  BY <1>4, <1>t, <1>a, <1>i DEF F!ReadHardware, F!ledger, F!readVars, F!memoryVars, F!At, F!Go,
     F!Forget, F!Take
<1>5. CASE F!ReadGateSession
  BY <1>5, <1>t, <1>a, <1>i DEF F!ReadGateSession, F!ledger, F!readVars, F!memoryVars, F!At,
     F!Go, F!Forget, F!Take
<1>6. CASE F!Synchronize
  BY <1>6, <1>t, <1>a, <1>i DEF F!Synchronize, F!Cleared, F!ledger, F!readVars, F!memoryVars,
     F!At, F!Go, F!Forget, F!Take
<1>7. CASE F!ReadSession
  BY <1>7, <1>t, <1>a, <1>i DEF F!ReadSession, F!ledger, F!readVars, F!memoryVars, F!At, F!Go,
     F!Forget, F!Take
<1>8. CASE F!ReadGeneration
  BY <1>8, <1>t, <1>a, <1>i DEF F!ReadGeneration, F!ledger, F!readVars, F!memoryVars, F!At,
     F!Go, F!Forget, F!Take
<1>9. CASE F!LookAtPort
  BY <1>9, <1>t, <1>a, <1>i DEF F!LookAtPort, F!MayMix, F!Region, F!ledger, F!readVars,
     F!memoryVars, F!At, F!Go, F!Forget, F!Take
<1>10. CASE F!LookAtPro
  BY <1>10, <1>t, <1>a, <1>i DEF F!LookAtPro, F!MaySelect, F!Region, F!ledger, F!readVars,
     F!memoryVars, F!At, F!Go, F!Forget, F!Take
<1>11. CASE \E late \in BOOLEAN : F!Consume(late)
  BY <1>11, <1>t, <1>a, <1>i DEF F!Consume, F!Region, F!ledger, F!readVars, F!memoryVars, F!At,
     F!Go, F!Forget, F!Take
<1>12. CASE F!KeepBlock
  BY <1>12, <1>t, <1>a, <1>i DEF F!KeepBlock, F!Current, F!ledger, F!readVars, F!memoryVars,
     F!At, F!Go, F!Forget, F!Take
<1>13. CASE F!DropBlock
  BY <1>13, <1>t, <1>a, <1>i DEF F!DropBlock, F!Current, F!Region, F!ledger, F!readVars,
     F!memoryVars, F!At, F!Go, F!Forget, F!Take
<1>14. CASE F!Miss
  BY <1>14, <1>t, <1>a, <1>i DEF F!Miss, F!Current, F!ledger, F!readVars, F!memoryVars, F!At,
     F!Go, F!Forget, F!Take
<1>15. CASE F!MissWhileArmed
  BY <1>15, <1>t, <1>a, <1>i DEF F!MissWhileArmed, F!Region, F!ledger, F!readVars, F!memoryVars,
     F!At, F!Go, F!Forget, F!Take
<1>16. CASE F!MissUnarmed
  BY <1>16, <1>t, <1>a, <1>i DEF F!MissUnarmed, F!Region, F!ledger, F!readVars, F!memoryVars,
     F!At, F!Go, F!Forget, F!Take
<1>17. CASE F!MissInOutage
  BY <1>17, <1>t, <1>a, <1>i DEF F!MissInOutage, F!Repeat, F!ledger, F!readVars, F!memoryVars,
     F!At, F!Go, F!Forget, F!Take
<1>18. CASE F!Count
  BY <1>18, <1>t, <1>a, <1>i DEF F!Count, F!Repeat, F!Cleared, F!ledger, F!readVars,
     F!memoryVars, F!At, F!Go, F!Forget, F!Take
<1>19. CASE F!BeginOutage
  BY <1>19, <1>t, <1>a, <1>i DEF F!BeginOutage, F!Repeat, F!ledger, F!readVars, F!memoryVars,
     F!At, F!Go, F!Forget, F!Take
<1>20. CASE F!ArmPro
  BY <1>20, <1>t, <1>a, <1>i DEF F!ArmPro, F!Claimed, F!ledger, F!readVars, F!memoryVars, F!At,
     F!Go, F!Forget, F!Take
<1>21. CASE F!Leave
  BY <1>21, <1>t, <1>a, <1>i DEF F!Leave, F!ledger, F!readVars, F!memoryVars, F!At, F!Go,
     F!Forget, F!Take
<1>22. CASE F!Abandon
  BY <1>22, <1>t, <1>a, <1>i DEF F!Abandon, F!ledger, F!readVars, F!memoryVars, F!At, F!Go,
     F!Forget, F!Take
<1>23. CASE F!BeginCommit
  BY <1>23, <1>t, <1>a, <1>i DEF F!BeginCommit, F!ledger, F!readVars, F!memoryVars, F!At, F!Go,
     F!Forget, F!Take
<1>24. CASE F!RefuseCommit
  BY <1>24, <1>t, <1>a, <1>i DEF F!RefuseCommit, F!Commits, F!Current, F!Region, F!ledger,
     F!readVars, F!memoryVars, F!At, F!Go, F!Forget, F!Take
<1>25. CASE F!CommitRepeat
  BY <1>25, <1>t, <1>a, <1>i DEF F!CommitRepeat, F!Commits, F!Current, F!ledger, F!readVars,
     F!memoryVars, F!At, F!Go, F!Forget, F!Take
<1>26. CASE F!CommitFresh
  BY <1>26, <1>t, <1>a, <1>i DEF F!CommitFresh, F!Commits, F!Current, F!ledger, F!readVars,
     F!memoryVars, F!At, F!Go, F!Forget, F!Take
<1>27. CASE F!Heal
  BY <1>27, <1>t, <1>a, <1>i DEF F!Heal, F!Cleared, F!ledger, F!readVars, F!memoryVars, F!At,
     F!Go, F!Forget, F!Take
<1>28. CASE F!Mix
  BY <1>28, <1>t, <1>a, <1>i DEF F!Mix, F!Claimed, F!ledger, F!readVars, F!memoryVars, F!At,
     F!Go, F!Forget, F!Take
<1> QED
  BY <1>1, <1>2, <1>3, <1>4, <1>5, <1>6, <1>7, <1>8, <1>9, <1>10, <1>11, <1>12, <1>13, <1>14,
       <1>15, <1>16, <1>17, <1>18, <1>19, <1>20, <1>21, <1>22, <1>23, <1>24, <1>25, <1>26, <1>27,
       <1>28 DEF F!CycleStep

LEMMA FlagsAfterCycle ==
  ASSUME IInv, F!HardwareStep
  PROVE  FlagTypes'
<1> USE CycleFrame DEF FlagTypes, CyclePlaces, Working, Settled, Gating, SharedPlaces, ProPlaces
<1>t. FlagTypes
  BY DEF IInv
<1>1. CASE F!BeginPrepare
  BY <1>1, <1>t DEF F!BeginPrepare, F!ledger, F!readVars, F!memoryVars, F!At, F!Go, F!Forget,
     F!Take
<1>2. CASE F!BeginGate
  BY <1>2, <1>t DEF F!BeginGate, F!ledger, F!readVars, F!memoryVars, F!At, F!Go, F!Forget,
     F!Take
<1>3. CASE F!BeginSelect
  BY <1>3, <1>t DEF F!BeginSelect, F!ledger, F!readVars, F!memoryVars, F!At, F!Go, F!Forget,
     F!Take
<1>4. CASE F!ReadHardware
  BY <1>4, <1>t DEF F!ReadHardware, F!ledger, F!readVars, F!memoryVars, F!At, F!Go, F!Forget,
     F!Take
<1>5. CASE F!ReadGateSession
  BY <1>5, <1>t DEF F!ReadGateSession, F!ledger, F!readVars, F!memoryVars, F!At, F!Go, F!Forget,
     F!Take
<1>6. CASE F!Synchronize
  BY <1>6, <1>t DEF F!Synchronize, F!Cleared, F!ledger, F!readVars, F!memoryVars, F!At, F!Go,
     F!Forget, F!Take
<1>7. CASE F!ReadSession
  BY <1>7, <1>t DEF F!ReadSession, F!ledger, F!readVars, F!memoryVars, F!At, F!Go, F!Forget,
     F!Take
<1>8. CASE F!ReadGeneration
  BY <1>8, <1>t DEF F!ReadGeneration, F!ledger, F!readVars, F!memoryVars, F!At, F!Go, F!Forget,
     F!Take
<1>9. CASE F!LookAtPort
  BY <1>9, <1>t DEF F!LookAtPort, F!MayMix, F!Region, F!ledger, F!readVars, F!memoryVars, F!At,
     F!Go, F!Forget, F!Take
<1>10. CASE F!LookAtPro
  BY <1>10, <1>t DEF F!LookAtPro, F!MaySelect, F!Region, F!ledger, F!readVars, F!memoryVars,
     F!At, F!Go, F!Forget, F!Take
<1>11. CASE \E late \in BOOLEAN : F!Consume(late)
  BY <1>11, <1>t DEF F!Consume, F!Region, F!ledger, F!readVars, F!memoryVars, F!At, F!Go,
     F!Forget, F!Take
<1>12. CASE F!KeepBlock
  BY <1>12, <1>t DEF F!KeepBlock, F!Current, F!ledger, F!readVars, F!memoryVars, F!At, F!Go,
     F!Forget, F!Take
<1>13. CASE F!DropBlock
  BY <1>13, <1>t DEF F!DropBlock, F!Current, F!Region, F!ledger, F!readVars, F!memoryVars, F!At,
     F!Go, F!Forget, F!Take
<1>14. CASE F!Miss
  BY <1>14, <1>t DEF F!Miss, F!Current, F!ledger, F!readVars, F!memoryVars, F!At, F!Go,
     F!Forget, F!Take
<1>15. CASE F!MissWhileArmed
  BY <1>15, <1>t DEF F!MissWhileArmed, F!Region, F!ledger, F!readVars, F!memoryVars, F!At, F!Go,
     F!Forget, F!Take
<1>16. CASE F!MissUnarmed
  BY <1>16, <1>t DEF F!MissUnarmed, F!Region, F!ledger, F!readVars, F!memoryVars, F!At, F!Go,
     F!Forget, F!Take
<1>17. CASE F!MissInOutage
  BY <1>17, <1>t DEF F!MissInOutage, F!Repeat, F!ledger, F!readVars, F!memoryVars, F!At, F!Go,
     F!Forget, F!Take
<1>18. CASE F!Count
  BY <1>18, <1>t DEF F!Count, F!Repeat, F!Cleared, F!ledger, F!readVars, F!memoryVars, F!At,
     F!Go, F!Forget, F!Take
<1>19. CASE F!BeginOutage
  BY <1>19, <1>t DEF F!BeginOutage, F!Repeat, F!ledger, F!readVars, F!memoryVars, F!At, F!Go,
     F!Forget, F!Take
<1>20. CASE F!ArmPro
  BY <1>20, <1>t DEF F!ArmPro, F!Claimed, F!ledger, F!readVars, F!memoryVars, F!At, F!Go,
     F!Forget, F!Take
<1>21. CASE F!Leave
  BY <1>21, <1>t DEF F!Leave, F!ledger, F!readVars, F!memoryVars, F!At, F!Go, F!Forget, F!Take
<1>22. CASE F!Abandon
  BY <1>22, <1>t DEF F!Abandon, F!ledger, F!readVars, F!memoryVars, F!At, F!Go, F!Forget, F!Take
<1>23. CASE F!BeginCommit
  BY <1>23, <1>t DEF F!BeginCommit, F!ledger, F!readVars, F!memoryVars, F!At, F!Go, F!Forget,
     F!Take
<1>24. CASE F!RefuseCommit
  BY <1>24, <1>t DEF F!RefuseCommit, F!Commits, F!Current, F!Region, F!ledger, F!readVars,
     F!memoryVars, F!At, F!Go, F!Forget, F!Take
<1>25. CASE F!CommitRepeat
  BY <1>25, <1>t DEF F!CommitRepeat, F!Commits, F!Current, F!ledger, F!readVars, F!memoryVars,
     F!At, F!Go, F!Forget, F!Take
<1>26. CASE F!CommitFresh
  BY <1>26, <1>t DEF F!CommitFresh, F!Commits, F!Current, F!ledger, F!readVars, F!memoryVars,
     F!At, F!Go, F!Forget, F!Take
<1>27. CASE F!Heal
  BY <1>27, <1>t DEF F!Heal, F!Cleared, F!ledger, F!readVars, F!memoryVars, F!At, F!Go,
     F!Forget, F!Take
<1>28. CASE F!Mix
  BY <1>28, <1>t DEF F!Mix, F!Claimed, F!ledger, F!readVars, F!memoryVars, F!At, F!Go, F!Forget,
     F!Take
<1> QED
  BY <1>1, <1>2, <1>3, <1>4, <1>5, <1>6, <1>7, <1>8, <1>9, <1>10, <1>11, <1>12, <1>13, <1>14,
       <1>15, <1>16, <1>17, <1>18, <1>19, <1>20, <1>21, <1>22, <1>23, <1>24, <1>25, <1>26, <1>27,
       <1>28 DEF F!CycleStep

LEMMA IdentityUpdate ==
  ASSUME F!FallbackAssumption, Types
  PROVE  /\ F!NoIdentity \in F!Identities /\ F!Nothing \in Choices
         /\ \A x \in F!Identities :
              /\ [x EXCEPT !.hw = hardware] \in F!Identities
              /\ [x EXCEPT !.session = live] \in F!Identities
              /\ [x EXCEPT !.gen = lifecycle] \in F!Identities
              /\ [of |-> x, fresh |-> TRUE] \in Choices /\ [of |-> x, fresh |-> FALSE] \in Choices
              /\ [of |-> x, played |-> FALSE] \in Buffers /\ [of |-> x, played |-> TRUE] \in Buffers
         /\ \A x \in Choices : x.of \in F!Identities
         /\ \A x \in Buffers : [x EXCEPT !.played = TRUE] \in Buffers
<1>1. F!NoIdentity \in F!Identities
  BY DEF F!NoIdentity, F!Identities, F!Ids, F!FallbackAssumption
<1>2. F!Nothing \in Choices
  BY <1>1 DEF F!Nothing, Choices
<1>3. ASSUME NEW x \in F!Identities
      PROVE  /\ [x EXCEPT !.hw = hardware] \in F!Identities
             /\ [x EXCEPT !.session = live] \in F!Identities
             /\ [x EXCEPT !.gen = lifecycle] \in F!Identities
  BY DEF F!Identities, Types
<1>4. ASSUME NEW x \in Buffers PROVE [x EXCEPT !.played = TRUE] \in Buffers
  BY DEF Buffers
<1> QED
  BY <1>1, <1>2, <1>3, <1>4 DEF Choices, Buffers

LEMMA MemoryTypesAfterCycle ==
  ASSUME F!FallbackAssumption, IInv, F!HardwareStep
  PROVE  MemoryTypes'
<1> USE CycleFrame DEF MemoryTypes, CyclePlaces
<1>t. MemoryTypes /\ Types
  BY DEF IInv
<1>1. CASE F!BeginPrepare
  BY <1>1, <1>t, IdentityUpdate DEF F!BeginPrepare, F!ledger, F!readVars, F!memoryVars, F!At,
     F!Go, F!Forget, F!Take
<1>2. CASE F!BeginGate
  BY <1>2, <1>t, IdentityUpdate DEF F!BeginGate, F!ledger, F!readVars, F!memoryVars, F!At, F!Go,
     F!Forget, F!Take
<1>3. CASE F!BeginSelect
  BY <1>3, <1>t, IdentityUpdate DEF F!BeginSelect, F!ledger, F!readVars, F!memoryVars, F!At,
     F!Go, F!Forget, F!Take
<1>4. CASE F!ReadHardware
  BY <1>4, <1>t, IdentityUpdate DEF F!ReadHardware, F!ledger, F!readVars, F!memoryVars, F!At,
     F!Go, F!Forget, F!Take
<1>5. CASE F!ReadGateSession
  BY <1>5, <1>t, IdentityUpdate DEF F!ReadGateSession, F!ledger, F!readVars, F!memoryVars, F!At,
     F!Go, F!Forget, F!Take
<1>6. CASE F!Synchronize
  BY <1>6, <1>t, IdentityUpdate DEF F!Synchronize, F!Cleared, F!ledger, F!readVars,
     F!memoryVars, F!At, F!Go, F!Forget, F!Take
<1>7. CASE F!ReadSession
  BY <1>7, <1>t, IdentityUpdate DEF F!ReadSession, F!ledger, F!readVars, F!memoryVars, F!At,
     F!Go, F!Forget, F!Take
<1>8. CASE F!ReadGeneration
  BY <1>8, <1>t, IdentityUpdate DEF F!ReadGeneration, F!ledger, F!readVars, F!memoryVars, F!At,
     F!Go, F!Forget, F!Take
<1>9. CASE F!LookAtPort
  BY <1>9, <1>t, IdentityUpdate DEF F!LookAtPort, F!MayMix, F!Region, F!ledger, F!readVars,
     F!memoryVars, F!At, F!Go, F!Forget, F!Take
<1>10. CASE F!LookAtPro
  BY <1>10, <1>t, IdentityUpdate DEF F!LookAtPro, F!MaySelect, F!Region, F!ledger, F!readVars,
     F!memoryVars, F!At, F!Go, F!Forget, F!Take
<1>11. CASE \E late \in BOOLEAN : F!Consume(late)
  BY <1>11, <1>t, IdentityUpdate DEF F!Consume, F!Region, F!ledger, F!readVars, F!memoryVars,
     F!At, F!Go, F!Forget, F!Take
<1>12. CASE F!KeepBlock
  BY <1>12, <1>t, IdentityUpdate DEF F!KeepBlock, F!Current, F!ledger, F!readVars, F!memoryVars,
     F!At, F!Go, F!Forget, F!Take
<1>13. CASE F!DropBlock
  BY <1>13, <1>t, IdentityUpdate DEF F!DropBlock, F!Current, F!Region, F!ledger, F!readVars,
     F!memoryVars, F!At, F!Go, F!Forget, F!Take
<1>14. CASE F!Miss
  BY <1>14, <1>t, IdentityUpdate DEF F!Miss, F!Current, F!ledger, F!readVars, F!memoryVars,
     F!At, F!Go, F!Forget, F!Take
<1>15. CASE F!MissWhileArmed
  BY <1>15, <1>t, IdentityUpdate DEF F!MissWhileArmed, F!Region, F!ledger, F!readVars,
     F!memoryVars, F!At, F!Go, F!Forget, F!Take
<1>16. CASE F!MissUnarmed
  BY <1>16, <1>t, IdentityUpdate DEF F!MissUnarmed, F!Region, F!ledger, F!readVars,
     F!memoryVars, F!At, F!Go, F!Forget, F!Take
<1>17. CASE F!MissInOutage
  BY <1>17, <1>t, IdentityUpdate DEF F!MissInOutage, F!Repeat, F!ledger, F!readVars,
     F!memoryVars, F!At, F!Go, F!Forget, F!Take
<1>18. CASE F!Count
  BY <1>18, <1>t, IdentityUpdate DEF F!Count, F!Repeat, F!Cleared, F!ledger, F!readVars,
     F!memoryVars, F!At, F!Go, F!Forget, F!Take
<1>19. CASE F!BeginOutage
  BY <1>19, <1>t, IdentityUpdate DEF F!BeginOutage, F!Repeat, F!ledger, F!readVars,
     F!memoryVars, F!At, F!Go, F!Forget, F!Take
<1>20. CASE F!ArmPro
  BY <1>20, <1>t, IdentityUpdate DEF F!ArmPro, F!Claimed, F!ledger, F!readVars, F!memoryVars,
     F!At, F!Go, F!Forget, F!Take
<1>21. CASE F!Leave
  BY <1>21, <1>t, IdentityUpdate DEF F!Leave, F!ledger, F!readVars, F!memoryVars, F!At, F!Go,
     F!Forget, F!Take
<1>22. CASE F!Abandon
  BY <1>22, <1>t, IdentityUpdate DEF F!Abandon, F!ledger, F!readVars, F!memoryVars, F!At, F!Go,
     F!Forget, F!Take
<1>23. CASE F!BeginCommit
  BY <1>23, <1>t, IdentityUpdate DEF F!BeginCommit, F!ledger, F!readVars, F!memoryVars, F!At,
     F!Go, F!Forget, F!Take
<1>24. CASE F!RefuseCommit
  BY <1>24, <1>t, IdentityUpdate DEF F!RefuseCommit, F!Commits, F!Current, F!Region, F!ledger,
     F!readVars, F!memoryVars, F!At, F!Go, F!Forget, F!Take
<1>25. CASE F!CommitRepeat
  BY <1>25, <1>t, IdentityUpdate DEF F!CommitRepeat, F!Commits, F!Current, F!ledger, F!readVars,
     F!memoryVars, F!At, F!Go, F!Forget, F!Take
<1>26. CASE F!CommitFresh
  BY <1>26, <1>t, IdentityUpdate DEF F!CommitFresh, F!Commits, F!Current, F!ledger, F!readVars,
     F!memoryVars, F!At, F!Go, F!Forget, F!Take
<1>27. CASE F!Heal
  BY <1>27, <1>t, IdentityUpdate DEF F!Heal, F!Cleared, F!ledger, F!readVars, F!memoryVars,
     F!At, F!Go, F!Forget, F!Take
<1>28. CASE F!Mix
  BY <1>28, <1>t, IdentityUpdate DEF F!Mix, F!Claimed, F!ledger, F!readVars, F!memoryVars, F!At,
     F!Go, F!Forget, F!Take
<1> QED
  BY <1>1, <1>2, <1>3, <1>4, <1>5, <1>6, <1>7, <1>8, <1>9, <1>10, <1>11, <1>12, <1>13, <1>14,
       <1>15, <1>16, <1>17, <1>18, <1>19, <1>20, <1>21, <1>22, <1>23, <1>24, <1>25, <1>26, <1>27,
       <1>28 DEF F!CycleStep

LEMMA OneSessionAfterCycle ==
  ASSUME IInv, F!HardwareStep
  PROVE  OneSession'
<1> USE CycleFrame DEF OneSession, CyclePlaces
<1>t. OneSession
  BY DEF IInv
<1>1. CASE F!BeginPrepare
  BY <1>1, <1>t DEF F!BeginPrepare, F!ledger, F!readVars, F!memoryVars, F!At, F!Go, F!Forget,
     F!Take
<1>2. CASE F!BeginGate
  BY <1>2, <1>t DEF F!BeginGate, F!ledger, F!readVars, F!memoryVars, F!At, F!Go, F!Forget,
     F!Take
<1>3. CASE F!BeginSelect
  BY <1>3, <1>t DEF F!BeginSelect, F!ledger, F!readVars, F!memoryVars, F!At, F!Go, F!Forget,
     F!Take
<1>4. CASE F!ReadHardware
  BY <1>4, <1>t DEF F!ReadHardware, F!ledger, F!readVars, F!memoryVars, F!At, F!Go, F!Forget,
     F!Take
<1>5. CASE F!ReadGateSession
  BY <1>5, <1>t DEF F!ReadGateSession, F!ledger, F!readVars, F!memoryVars, F!At, F!Go, F!Forget,
     F!Take
<1>6. CASE F!Synchronize
  BY <1>6, <1>t DEF F!Synchronize, F!Cleared, F!ledger, F!readVars, F!memoryVars, F!At, F!Go,
     F!Forget, F!Take
<1>7. CASE F!ReadSession
  BY <1>7, <1>t DEF F!ReadSession, F!ledger, F!readVars, F!memoryVars, F!At, F!Go, F!Forget,
     F!Take
<1>8. CASE F!ReadGeneration
  BY <1>8, <1>t DEF F!ReadGeneration, F!ledger, F!readVars, F!memoryVars, F!At, F!Go, F!Forget,
     F!Take
<1>9. CASE F!LookAtPort
  BY <1>9, <1>t DEF F!LookAtPort, F!MayMix, F!Region, F!ledger, F!readVars, F!memoryVars, F!At,
     F!Go, F!Forget, F!Take
<1>10. CASE F!LookAtPro
  BY <1>10, <1>t DEF F!LookAtPro, F!MaySelect, F!Region, F!ledger, F!readVars, F!memoryVars,
     F!At, F!Go, F!Forget, F!Take
<1>11. CASE \E late \in BOOLEAN : F!Consume(late)
  BY <1>11, <1>t DEF F!Consume, F!Region, F!ledger, F!readVars, F!memoryVars, F!At, F!Go,
     F!Forget, F!Take
<1>12. CASE F!KeepBlock
  BY <1>12, <1>t DEF F!KeepBlock, F!Current, F!ledger, F!readVars, F!memoryVars, F!At, F!Go,
     F!Forget, F!Take
<1>13. CASE F!DropBlock
  BY <1>13, <1>t DEF F!DropBlock, F!Current, F!Region, F!ledger, F!readVars, F!memoryVars, F!At,
     F!Go, F!Forget, F!Take
<1>14. CASE F!Miss
  BY <1>14, <1>t DEF F!Miss, F!Current, F!ledger, F!readVars, F!memoryVars, F!At, F!Go,
     F!Forget, F!Take
<1>15. CASE F!MissWhileArmed
  BY <1>15, <1>t DEF F!MissWhileArmed, F!Region, F!ledger, F!readVars, F!memoryVars, F!At, F!Go,
     F!Forget, F!Take
<1>16. CASE F!MissUnarmed
  BY <1>16, <1>t DEF F!MissUnarmed, F!Region, F!ledger, F!readVars, F!memoryVars, F!At, F!Go,
     F!Forget, F!Take
<1>17. CASE F!MissInOutage
  BY <1>17, <1>t DEF F!MissInOutage, F!Repeat, F!ledger, F!readVars, F!memoryVars, F!At, F!Go,
     F!Forget, F!Take
<1>18. CASE F!Count
  BY <1>18, <1>t DEF F!Count, F!Repeat, F!Cleared, F!ledger, F!readVars, F!memoryVars, F!At,
     F!Go, F!Forget, F!Take
<1>19. CASE F!BeginOutage
  BY <1>19, <1>t DEF F!BeginOutage, F!Repeat, F!ledger, F!readVars, F!memoryVars, F!At, F!Go,
     F!Forget, F!Take
<1>20. CASE F!ArmPro
  BY <1>20, <1>t DEF F!ArmPro, F!Claimed, F!ledger, F!readVars, F!memoryVars, F!At, F!Go,
     F!Forget, F!Take
<1>21. CASE F!Leave
  BY <1>21, <1>t DEF F!Leave, F!ledger, F!readVars, F!memoryVars, F!At, F!Go, F!Forget, F!Take
<1>22. CASE F!Abandon
  BY <1>22, <1>t DEF F!Abandon, F!ledger, F!readVars, F!memoryVars, F!At, F!Go, F!Forget, F!Take
<1>23. CASE F!BeginCommit
  BY <1>23, <1>t DEF F!BeginCommit, F!ledger, F!readVars, F!memoryVars, F!At, F!Go, F!Forget,
     F!Take
<1>24. CASE F!RefuseCommit
  BY <1>24, <1>t DEF F!RefuseCommit, F!Commits, F!Current, F!Region, F!ledger, F!readVars,
     F!memoryVars, F!At, F!Go, F!Forget, F!Take
<1>25. CASE F!CommitRepeat
  BY <1>25, <1>t DEF F!CommitRepeat, F!Commits, F!Current, F!ledger, F!readVars, F!memoryVars,
     F!At, F!Go, F!Forget, F!Take
<1>26. CASE F!CommitFresh
  BY <1>26, <1>t DEF F!CommitFresh, F!Commits, F!Current, F!ledger, F!readVars, F!memoryVars,
     F!At, F!Go, F!Forget, F!Take
<1>27. CASE F!Heal
  BY <1>27, <1>t DEF F!Heal, F!Cleared, F!ledger, F!readVars, F!memoryVars, F!At, F!Go,
     F!Forget, F!Take
<1>28. CASE F!Mix
  BY <1>28, <1>t DEF F!Mix, F!Claimed, F!ledger, F!readVars, F!memoryVars, F!At, F!Go, F!Forget,
     F!Take
<1> QED
  BY <1>1, <1>2, <1>3, <1>4, <1>5, <1>6, <1>7, <1>8, <1>9, <1>10, <1>11, <1>12, <1>13, <1>14,
       <1>15, <1>16, <1>17, <1>18, <1>19, <1>20, <1>21, <1>22, <1>23, <1>24, <1>25, <1>26, <1>27,
       <1>28 DEF F!CycleStep

LEMMA OwnPlacesAfterCycle ==
  ASSUME IInv, F!HardwareStep
  PROVE  OwnPlaces'
<1> USE CycleFrame DEF OwnPlaces, Types, CyclePlaces, Working, Settled, Gating, SharedPlaces,
     ProPlaces
<1>t. OwnPlaces /\ Types
  BY DEF IInv
<1>1. CASE F!BeginPrepare
  BY <1>1, <1>t DEF F!BeginPrepare, F!ledger, F!readVars, F!memoryVars, F!At, F!Go, F!Forget,
     F!Take
<1>2. CASE F!BeginGate
  BY <1>2, <1>t DEF F!BeginGate, F!ledger, F!readVars, F!memoryVars, F!At, F!Go, F!Forget,
     F!Take
<1>3. CASE F!BeginSelect
  BY <1>3, <1>t DEF F!BeginSelect, F!ledger, F!readVars, F!memoryVars, F!At, F!Go, F!Forget,
     F!Take
<1>4. CASE F!ReadHardware
  BY <1>4, <1>t DEF F!ReadHardware, F!ledger, F!readVars, F!memoryVars, F!At, F!Go, F!Forget,
     F!Take
<1>5. CASE F!ReadGateSession
  BY <1>5, <1>t DEF F!ReadGateSession, F!ledger, F!readVars, F!memoryVars, F!At, F!Go, F!Forget,
     F!Take
<1>6. CASE F!Synchronize
  BY <1>6, <1>t DEF F!Synchronize, F!Cleared, F!ledger, F!readVars, F!memoryVars, F!At, F!Go,
     F!Forget, F!Take
<1>7. CASE F!ReadSession
  BY <1>7, <1>t DEF F!ReadSession, F!ledger, F!readVars, F!memoryVars, F!At, F!Go, F!Forget,
     F!Take
<1>8. CASE F!ReadGeneration
  BY <1>8, <1>t DEF F!ReadGeneration, F!ledger, F!readVars, F!memoryVars, F!At, F!Go, F!Forget,
     F!Take
<1>9. CASE F!LookAtPort
  BY <1>9, <1>t DEF F!LookAtPort, F!MayMix, F!Region, F!ledger, F!readVars, F!memoryVars, F!At,
     F!Go, F!Forget, F!Take
<1>10. CASE F!LookAtPro
  BY <1>10, <1>t DEF F!LookAtPro, F!MaySelect, F!Region, F!ledger, F!readVars, F!memoryVars,
     F!At, F!Go, F!Forget, F!Take
<1>11. CASE \E late \in BOOLEAN : F!Consume(late)
  BY <1>11, <1>t DEF F!Consume, F!Region, F!ledger, F!readVars, F!memoryVars, F!At, F!Go,
     F!Forget, F!Take
<1>12. CASE F!KeepBlock
  BY <1>12, <1>t DEF F!KeepBlock, F!Current, F!ledger, F!readVars, F!memoryVars, F!At, F!Go,
     F!Forget, F!Take
<1>13. CASE F!DropBlock
  BY <1>13, <1>t DEF F!DropBlock, F!Current, F!Region, F!ledger, F!readVars, F!memoryVars, F!At,
     F!Go, F!Forget, F!Take
<1>14. CASE F!Miss
  BY <1>14, <1>t DEF F!Miss, F!Current, F!ledger, F!readVars, F!memoryVars, F!At, F!Go,
     F!Forget, F!Take
<1>15. CASE F!MissWhileArmed
  BY <1>15, <1>t DEF F!MissWhileArmed, F!Region, F!ledger, F!readVars, F!memoryVars, F!At, F!Go,
     F!Forget, F!Take
<1>16. CASE F!MissUnarmed
  BY <1>16, <1>t DEF F!MissUnarmed, F!Region, F!ledger, F!readVars, F!memoryVars, F!At, F!Go,
     F!Forget, F!Take
<1>17. CASE F!MissInOutage
  BY <1>17, <1>t DEF F!MissInOutage, F!Repeat, F!ledger, F!readVars, F!memoryVars, F!At, F!Go,
     F!Forget, F!Take
<1>18. CASE F!Count
  BY <1>18, <1>t DEF F!Count, F!Repeat, F!Cleared, F!ledger, F!readVars, F!memoryVars, F!At,
     F!Go, F!Forget, F!Take
<1>19. CASE F!BeginOutage
  BY <1>19, <1>t DEF F!BeginOutage, F!Repeat, F!ledger, F!readVars, F!memoryVars, F!At, F!Go,
     F!Forget, F!Take
<1>20. CASE F!ArmPro
  BY <1>20, <1>t DEF F!ArmPro, F!Claimed, F!ledger, F!readVars, F!memoryVars, F!At, F!Go,
     F!Forget, F!Take
<1>21. CASE F!Leave
  BY <1>21, <1>t DEF F!Leave, F!ledger, F!readVars, F!memoryVars, F!At, F!Go, F!Forget, F!Take
<1>22. CASE F!Abandon
  BY <1>22, <1>t DEF F!Abandon, F!ledger, F!readVars, F!memoryVars, F!At, F!Go, F!Forget, F!Take
<1>23. CASE F!BeginCommit
  BY <1>23, <1>t DEF F!BeginCommit, F!ledger, F!readVars, F!memoryVars, F!At, F!Go, F!Forget,
     F!Take
<1>24. CASE F!RefuseCommit
  BY <1>24, <1>t DEF F!RefuseCommit, F!Commits, F!Current, F!Region, F!ledger, F!readVars,
     F!memoryVars, F!At, F!Go, F!Forget, F!Take
<1>25. CASE F!CommitRepeat
  BY <1>25, <1>t DEF F!CommitRepeat, F!Commits, F!Current, F!ledger, F!readVars, F!memoryVars,
     F!At, F!Go, F!Forget, F!Take
<1>26. CASE F!CommitFresh
  BY <1>26, <1>t DEF F!CommitFresh, F!Commits, F!Current, F!ledger, F!readVars, F!memoryVars,
     F!At, F!Go, F!Forget, F!Take
<1>27. CASE F!Heal
  BY <1>27, <1>t DEF F!Heal, F!Cleared, F!ledger, F!readVars, F!memoryVars, F!At, F!Go,
     F!Forget, F!Take
<1>28. CASE F!Mix
  BY <1>28, <1>t DEF F!Mix, F!Claimed, F!ledger, F!readVars, F!memoryVars, F!At, F!Go, F!Forget,
     F!Take
<1> QED
  BY <1>1, <1>2, <1>3, <1>4, <1>5, <1>6, <1>7, <1>8, <1>9, <1>10, <1>11, <1>12, <1>13, <1>14,
       <1>15, <1>16, <1>17, <1>18, <1>19, <1>20, <1>21, <1>22, <1>23, <1>24, <1>25, <1>26, <1>27,
       <1>28 DEF F!CycleStep

LEMMA GuardedAfterCycle ==
  ASSUME IInv, F!HardwareStep
  PROVE  Guarded'
<1> USE CycleFrame DEF Guarded, Types, FlagTypes, MemoryTypes, Choices, F!Identities, OneSession,
     OwnPlaces, Buffer, Unguarded, ActivePlaces, Waiting, Undrained, CyclePlaces, Working, Settled,
     Gating, SharedPlaces, ProPlaces
<1>t. Types /\ FlagTypes /\ MemoryTypes /\ OneSession /\ OwnPlaces /\ Guarded /\ Buffer
  BY DEF IInv
<1>1. CASE F!BeginPrepare
  BY <1>1, <1>t DEF F!BeginPrepare, F!ledger, F!readVars, F!memoryVars, F!At, F!Go, F!Forget,
     F!Take
<1>2. CASE F!BeginGate
  BY <1>2, <1>t DEF F!BeginGate, F!ledger, F!readVars, F!memoryVars, F!At, F!Go, F!Forget,
     F!Take
<1>3. CASE F!BeginSelect
  BY <1>3, <1>t DEF F!BeginSelect, F!ledger, F!readVars, F!memoryVars, F!At, F!Go, F!Forget,
     F!Take
<1>4. CASE F!ReadHardware
  BY <1>4, <1>t DEF F!ReadHardware, F!ledger, F!readVars, F!memoryVars, F!At, F!Go, F!Forget,
     F!Take
<1>5. CASE F!ReadGateSession
  BY <1>5, <1>t DEF F!ReadGateSession, F!ledger, F!readVars, F!memoryVars, F!At, F!Go, F!Forget,
     F!Take
<1>6. CASE F!Synchronize
  BY <1>6, <1>t DEF F!Synchronize, F!Cleared, F!ledger, F!readVars, F!memoryVars, F!At, F!Go,
     F!Forget, F!Take
<1>7. CASE F!ReadSession
  BY <1>7, <1>t DEF F!ReadSession, F!ledger, F!readVars, F!memoryVars, F!At, F!Go, F!Forget,
     F!Take
<1>8. CASE F!ReadGeneration
  BY <1>8, <1>t DEF F!ReadGeneration, F!ledger, F!readVars, F!memoryVars, F!At, F!Go, F!Forget,
     F!Take
<1>9. CASE F!LookAtPort
  BY <1>9, <1>t DEF F!LookAtPort, F!MayMix, F!Region, F!ledger, F!readVars, F!memoryVars, F!At,
     F!Go, F!Forget, F!Take
<1>10. CASE F!LookAtPro
  BY <1>10, <1>t DEF F!LookAtPro, F!MaySelect, F!Region, F!ledger, F!readVars, F!memoryVars,
     F!At, F!Go, F!Forget, F!Take
<1>11. CASE \E late \in BOOLEAN : F!Consume(late)
  BY <1>11, <1>t DEF F!Consume, F!Region, F!ledger, F!readVars, F!memoryVars, F!At, F!Go,
     F!Forget, F!Take
<1>12. CASE F!KeepBlock
  BY <1>12, <1>t DEF F!KeepBlock, F!Current, F!ledger, F!readVars, F!memoryVars, F!At, F!Go,
     F!Forget, F!Take
<1>13. CASE F!DropBlock
  BY <1>13, <1>t DEF F!DropBlock, F!Current, F!Region, F!ledger, F!readVars, F!memoryVars, F!At,
     F!Go, F!Forget, F!Take
<1>14. CASE F!Miss
  BY <1>14, <1>t DEF F!Miss, F!Current, F!ledger, F!readVars, F!memoryVars, F!At, F!Go,
     F!Forget, F!Take
<1>15. CASE F!MissWhileArmed
  BY <1>15, <1>t DEF F!MissWhileArmed, F!Region, F!ledger, F!readVars, F!memoryVars, F!At, F!Go,
     F!Forget, F!Take
<1>16. CASE F!MissUnarmed
  BY <1>16, <1>t DEF F!MissUnarmed, F!Region, F!ledger, F!readVars, F!memoryVars, F!At, F!Go,
     F!Forget, F!Take
<1>17. CASE F!MissInOutage
  BY <1>17, <1>t DEF F!MissInOutage, F!Repeat, F!ledger, F!readVars, F!memoryVars, F!At, F!Go,
     F!Forget, F!Take
<1>18. CASE F!Count
  BY <1>18, <1>t DEF F!Count, F!Repeat, F!Cleared, F!ledger, F!readVars, F!memoryVars, F!At,
     F!Go, F!Forget, F!Take
<1>19. CASE F!BeginOutage
  BY <1>19, <1>t DEF F!BeginOutage, F!Repeat, F!ledger, F!readVars, F!memoryVars, F!At, F!Go,
     F!Forget, F!Take
<1>20. CASE F!ArmPro
  BY <1>20, <1>t DEF F!ArmPro, F!Claimed, F!ledger, F!readVars, F!memoryVars, F!At, F!Go,
     F!Forget, F!Take
<1>21. CASE F!Leave
  BY <1>21, <1>t DEF F!Leave, F!ledger, F!readVars, F!memoryVars, F!At, F!Go, F!Forget, F!Take
<1>22. CASE F!Abandon
  BY <1>22, <1>t DEF F!Abandon, F!ledger, F!readVars, F!memoryVars, F!At, F!Go, F!Forget, F!Take
<1>23. CASE F!BeginCommit
  BY <1>23, <1>t DEF F!BeginCommit, F!ledger, F!readVars, F!memoryVars, F!At, F!Go, F!Forget,
     F!Take
<1>24. CASE F!RefuseCommit
  BY <1>24, <1>t DEF F!RefuseCommit, F!Commits, F!Current, F!Region, F!ledger, F!readVars,
     F!memoryVars, F!At, F!Go, F!Forget, F!Take
<1>25. CASE F!CommitRepeat
  BY <1>25, <1>t DEF F!CommitRepeat, F!Commits, F!Current, F!ledger, F!readVars, F!memoryVars,
     F!At, F!Go, F!Forget, F!Take
<1>26. CASE F!CommitFresh
  BY <1>26, <1>t DEF F!CommitFresh, F!Commits, F!Current, F!ledger, F!readVars, F!memoryVars,
     F!At, F!Go, F!Forget, F!Take
<1>27. CASE F!Heal
  BY <1>27, <1>t DEF F!Heal, F!Cleared, F!ledger, F!readVars, F!memoryVars, F!At, F!Go,
     F!Forget, F!Take
<1>28. CASE F!Mix
  BY <1>28, <1>t DEF F!Mix, F!Claimed, F!ledger, F!readVars, F!memoryVars, F!At, F!Go, F!Forget,
     F!Take
<1> QED
  BY <1>1, <1>2, <1>3, <1>4, <1>5, <1>6, <1>7, <1>8, <1>9, <1>10, <1>11, <1>12, <1>13, <1>14,
       <1>15, <1>16, <1>17, <1>18, <1>19, <1>20, <1>21, <1>22, <1>23, <1>24, <1>25, <1>26, <1>27,
       <1>28 DEF F!CycleStep

LEMMA PastAfterCycle ==
  ASSUME IInv, F!HardwareStep
  PROVE  Past'
<1> USE CycleFrame DEF Past, Types, F!Nothing, F!NoIdentity, Buffer, BeforeChoice, MemoryTypes,
     Choices, F!Identities
<1>t. Types /\ MemoryTypes /\ Past /\ Buffer
  BY DEF IInv
<1>1. CASE F!BeginPrepare
  BY <1>1, <1>t DEF F!BeginPrepare, F!ledger, F!readVars, F!memoryVars, F!At, F!Go, F!Forget,
     F!Take
<1>2. CASE F!BeginGate
  BY <1>2, <1>t DEF F!BeginGate, F!ledger, F!readVars, F!memoryVars, F!At, F!Go, F!Forget,
     F!Take
<1>3. CASE F!BeginSelect
  BY <1>3, <1>t DEF F!BeginSelect, F!ledger, F!readVars, F!memoryVars, F!At, F!Go, F!Forget,
     F!Take
<1>4. CASE F!ReadHardware
  BY <1>4, <1>t DEF F!ReadHardware, F!ledger, F!readVars, F!memoryVars, F!At, F!Go, F!Forget,
     F!Take
<1>5. CASE F!ReadGateSession
  BY <1>5, <1>t DEF F!ReadGateSession, F!ledger, F!readVars, F!memoryVars, F!At, F!Go, F!Forget,
     F!Take
<1>6. CASE F!Synchronize
  BY <1>6, <1>t DEF F!Synchronize, F!Cleared, F!ledger, F!readVars, F!memoryVars, F!At, F!Go,
     F!Forget, F!Take
<1>7. CASE F!ReadSession
  BY <1>7, <1>t DEF F!ReadSession, F!ledger, F!readVars, F!memoryVars, F!At, F!Go, F!Forget,
     F!Take
<1>8. CASE F!ReadGeneration
  BY <1>8, <1>t DEF F!ReadGeneration, F!ledger, F!readVars, F!memoryVars, F!At, F!Go, F!Forget,
     F!Take
<1>9. CASE F!LookAtPort
  BY <1>9, <1>t DEF F!LookAtPort, F!MayMix, F!Region, F!ledger, F!readVars, F!memoryVars, F!At,
     F!Go, F!Forget, F!Take
<1>10. CASE F!LookAtPro
  BY <1>10, <1>t DEF F!LookAtPro, F!MaySelect, F!Region, F!ledger, F!readVars, F!memoryVars,
     F!At, F!Go, F!Forget, F!Take
<1>11. CASE \E late \in BOOLEAN : F!Consume(late)
  BY <1>11, <1>t DEF F!Consume, F!Region, F!ledger, F!readVars, F!memoryVars, F!At, F!Go,
     F!Forget, F!Take
<1>12. CASE F!KeepBlock
  BY <1>12, <1>t DEF F!KeepBlock, F!Current, F!ledger, F!readVars, F!memoryVars, F!At, F!Go,
     F!Forget, F!Take
<1>13. CASE F!DropBlock
  BY <1>13, <1>t DEF F!DropBlock, F!Current, F!Region, F!ledger, F!readVars, F!memoryVars, F!At,
     F!Go, F!Forget, F!Take
<1>14. CASE F!Miss
  BY <1>14, <1>t DEF F!Miss, F!Current, F!ledger, F!readVars, F!memoryVars, F!At, F!Go,
     F!Forget, F!Take
<1>15. CASE F!MissWhileArmed
  BY <1>15, <1>t DEF F!MissWhileArmed, F!Region, F!ledger, F!readVars, F!memoryVars, F!At, F!Go,
     F!Forget, F!Take
<1>16. CASE F!MissUnarmed
  BY <1>16, <1>t DEF F!MissUnarmed, F!Region, F!ledger, F!readVars, F!memoryVars, F!At, F!Go,
     F!Forget, F!Take
<1>17. CASE F!MissInOutage
  BY <1>17, <1>t DEF F!MissInOutage, F!Repeat, F!ledger, F!readVars, F!memoryVars, F!At, F!Go,
     F!Forget, F!Take
<1>18. CASE F!Count
  BY <1>18, <1>t DEF F!Count, F!Repeat, F!Cleared, F!ledger, F!readVars, F!memoryVars, F!At,
     F!Go, F!Forget, F!Take
<1>19. CASE F!BeginOutage
  BY <1>19, <1>t DEF F!BeginOutage, F!Repeat, F!ledger, F!readVars, F!memoryVars, F!At, F!Go,
     F!Forget, F!Take
<1>20. CASE F!ArmPro
  BY <1>20, <1>t DEF F!ArmPro, F!Claimed, F!ledger, F!readVars, F!memoryVars, F!At, F!Go,
     F!Forget, F!Take
<1>21. CASE F!Leave
  BY <1>21, <1>t DEF F!Leave, F!ledger, F!readVars, F!memoryVars, F!At, F!Go, F!Forget, F!Take
<1>22. CASE F!Abandon
  BY <1>22, <1>t DEF F!Abandon, F!ledger, F!readVars, F!memoryVars, F!At, F!Go, F!Forget, F!Take
<1>23. CASE F!BeginCommit
  BY <1>23, <1>t DEF F!BeginCommit, F!ledger, F!readVars, F!memoryVars, F!At, F!Go, F!Forget,
     F!Take
<1>24. CASE F!RefuseCommit
  BY <1>24, <1>t DEF F!RefuseCommit, F!Commits, F!Current, F!Region, F!ledger, F!readVars,
     F!memoryVars, F!At, F!Go, F!Forget, F!Take
<1>25. CASE F!CommitRepeat
  BY <1>25, <1>t DEF F!CommitRepeat, F!Commits, F!Current, F!ledger, F!readVars, F!memoryVars,
     F!At, F!Go, F!Forget, F!Take
<1>26. CASE F!CommitFresh
  BY <1>26, <1>t DEF F!CommitFresh, F!Commits, F!Current, F!ledger, F!readVars, F!memoryVars,
     F!At, F!Go, F!Forget, F!Take
<1>27. CASE F!Heal
  BY <1>27, <1>t DEF F!Heal, F!Cleared, F!ledger, F!readVars, F!memoryVars, F!At, F!Go,
     F!Forget, F!Take
<1>28. CASE F!Mix
  BY <1>28, <1>t DEF F!Mix, F!Claimed, F!ledger, F!readVars, F!memoryVars, F!At, F!Go, F!Forget,
     F!Take
<1> QED
  BY <1>1, <1>2, <1>3, <1>4, <1>5, <1>6, <1>7, <1>8, <1>9, <1>10, <1>11, <1>12, <1>13, <1>14,
       <1>15, <1>16, <1>17, <1>18, <1>19, <1>20, <1>21, <1>22, <1>23, <1>24, <1>25, <1>26, <1>27,
       <1>28 DEF F!CycleStep

LEMMA PlayedUpdate ==
  ASSUME NEW x \in Buffers
  PROVE  [x EXCEPT !.played = TRUE] = [of |-> x.of, played |-> TRUE]
<1> DEFINE y == [x EXCEPT !.played = TRUE]
           z == [of |-> x.of, played |-> TRUE]
<1>1. y \in Buffers /\ y.of = x.of /\ y.played = TRUE
  BY DEF Buffers
<1>2. z \in Buffers /\ z.of = x.of /\ z.played = TRUE
  BY DEF Buffers
<1> HIDE DEF y, z
<1>3. y = z
  BY <1>1, <1>2 DEF Buffers
<1> QED
  BY <1>3 DEF y, z

LEMMA StartsEmptyAfterCycle ==
  ASSUME IInv, F!HardwareStep
  PROVE  StartsEmpty'
<1> USE CycleFrame DEF StartsEmpty, Types, FlagTypes, MemoryTypes, Choices, F!Identities,
     OneSession, Guarded, Buffer, BeforeChoice, Past, Starting, F!Nothing, F!NoIdentity,
     ActivePlaces, Undrained, Waiting, CyclePlaces, Working, Settled, Gating, SharedPlaces,
     ProPlaces
<1>t. Types /\ FlagTypes /\ MemoryTypes /\ OneSession /\ OwnPlaces /\ Guarded /\ Buffer /\ Past
      /\ StartsEmpty
  BY DEF IInv
<1>e. session \in F!Ids /\ regions[session].blocks = {} => regions'[session].blocks = {}
  BY <1>t, RegionsAfterCycle, Zenon DEF IInv, Types, Emptied
<1>1. CASE F!BeginPrepare
  BY <1>1, <1>t, <1>e DEF F!BeginPrepare, F!ledger, F!readVars, F!memoryVars, F!At, F!Go,
     F!Forget, F!Take
<1>2. CASE F!BeginGate
  BY <1>2, <1>t, <1>e DEF F!BeginGate, F!ledger, F!readVars, F!memoryVars, F!At, F!Go, F!Forget,
     F!Take
<1>3. CASE F!BeginSelect
  BY <1>3, <1>t, <1>e DEF F!BeginSelect, F!ledger, F!readVars, F!memoryVars, F!At, F!Go,
     F!Forget, F!Take
<1>4. CASE F!ReadHardware
  BY <1>4, <1>t, <1>e DEF F!ReadHardware, F!ledger, F!readVars, F!memoryVars, F!At, F!Go,
     F!Forget, F!Take
<1>5. CASE F!ReadGateSession
  BY <1>5, <1>t, <1>e DEF F!ReadGateSession, F!ledger, F!readVars, F!memoryVars, F!At, F!Go,
     F!Forget, F!Take
<1>6. CASE F!Synchronize
  BY <1>6, <1>t, <1>e DEF F!Synchronize, F!Cleared, F!ledger, F!readVars, F!memoryVars, F!At,
     F!Go, F!Forget, F!Take
<1>7. CASE F!ReadSession
  BY <1>7, <1>t, <1>e DEF F!ReadSession, F!ledger, F!readVars, F!memoryVars, F!At, F!Go,
     F!Forget, F!Take
<1>8. CASE F!ReadGeneration
  BY <1>8, <1>t, <1>e DEF F!ReadGeneration, F!ledger, F!readVars, F!memoryVars, F!At, F!Go,
     F!Forget, F!Take
<1>9. CASE F!LookAtPort
  BY <1>9, <1>t, <1>e DEF F!LookAtPort, F!MayMix, F!Region, F!ledger, F!readVars, F!memoryVars,
     F!At, F!Go, F!Forget, F!Take
<1>10. CASE F!LookAtPro
  BY <1>10, <1>t, <1>e DEF F!LookAtPro, F!MaySelect, F!Region, F!ledger, F!readVars,
     F!memoryVars, F!At, F!Go, F!Forget, F!Take
<1>11. CASE \E late \in BOOLEAN : F!Consume(late)
  BY <1>11, <1>t, <1>e DEF F!Consume, F!Region, F!ledger, F!readVars, F!memoryVars, F!At, F!Go,
     F!Forget, F!Take
<1>12. CASE F!KeepBlock
  BY <1>12, <1>t, <1>e DEF F!KeepBlock, F!Current, F!ledger, F!readVars, F!memoryVars, F!At,
     F!Go, F!Forget, F!Take
<1>13. CASE F!DropBlock
  BY <1>13, <1>t, <1>e DEF F!DropBlock, F!Current, F!Region, F!ledger, F!readVars, F!memoryVars,
     F!At, F!Go, F!Forget, F!Take
<1>14. CASE F!Miss
  BY <1>14, <1>t, <1>e DEF F!Miss, F!Current, F!ledger, F!readVars, F!memoryVars, F!At, F!Go,
     F!Forget, F!Take
<1>15. CASE F!MissWhileArmed
  BY <1>15, <1>t, <1>e DEF F!MissWhileArmed, F!Region, F!ledger, F!readVars, F!memoryVars, F!At,
     F!Go, F!Forget, F!Take
<1>16. CASE F!MissUnarmed
  BY <1>16, <1>t, <1>e DEF F!MissUnarmed, F!Region, F!ledger, F!readVars, F!memoryVars, F!At,
     F!Go, F!Forget, F!Take
<1>17. CASE F!MissInOutage
  BY <1>17, <1>t, <1>e DEF F!MissInOutage, F!Repeat, F!ledger, F!readVars, F!memoryVars, F!At,
     F!Go, F!Forget, F!Take
<1>18. CASE F!Count
  BY <1>18, <1>t, <1>e DEF F!Count, F!Repeat, F!Cleared, F!ledger, F!readVars, F!memoryVars,
     F!At, F!Go, F!Forget, F!Take
<1>19. CASE F!BeginOutage
  BY <1>19, <1>t, <1>e DEF F!BeginOutage, F!Repeat, F!ledger, F!readVars, F!memoryVars, F!At,
     F!Go, F!Forget, F!Take
<1>20. CASE F!ArmPro
  BY <1>20, <1>t, <1>e DEF F!ArmPro, F!Claimed, F!ledger, F!readVars, F!memoryVars, F!At, F!Go,
     F!Forget, F!Take
<1>21. CASE F!Leave
  BY <1>21, <1>t, <1>e DEF F!Leave, F!ledger, F!readVars, F!memoryVars, F!At, F!Go, F!Forget,
     F!Take
<1>22. CASE F!Abandon
  BY <1>22, <1>t, <1>e DEF F!Abandon, F!ledger, F!readVars, F!memoryVars, F!At, F!Go, F!Forget,
     F!Take
<1>23. CASE F!BeginCommit
  BY <1>23, <1>t, <1>e DEF F!BeginCommit, F!ledger, F!readVars, F!memoryVars, F!At, F!Go,
     F!Forget, F!Take
<1>24. CASE F!RefuseCommit
  BY <1>24, <1>t, <1>e DEF F!RefuseCommit, F!Commits, F!Current, F!Region, F!ledger, F!readVars,
     F!memoryVars, F!At, F!Go, F!Forget, F!Take
<1>25. CASE F!CommitRepeat
  BY <1>25, <1>t, <1>e DEF F!CommitRepeat, F!Commits, F!Current, F!ledger, F!readVars,
     F!memoryVars, F!At, F!Go, F!Forget, F!Take
<1>26. CASE F!CommitFresh
  BY <1>26, <1>t, <1>e DEF F!CommitFresh, F!Commits, F!Current, F!ledger, F!readVars,
     F!memoryVars, F!At, F!Go, F!Forget, F!Take
<1>27. CASE F!Heal
  BY <1>27, <1>t, <1>e DEF F!Heal, F!Cleared, F!ledger, F!readVars, F!memoryVars, F!At, F!Go,
     F!Forget, F!Take
<1>28. CASE F!Mix
  BY <1>28, <1>t, <1>e DEF F!Mix, F!Claimed, F!ledger, F!readVars, F!memoryVars, F!At, F!Go,
     F!Forget, F!Take
<1> QED
  BY <1>1, <1>2, <1>3, <1>4, <1>5, <1>6, <1>7, <1>8, <1>9, <1>10, <1>11, <1>12, <1>13, <1>14,
       <1>15, <1>16, <1>17, <1>18, <1>19, <1>20, <1>21, <1>22, <1>23, <1>24, <1>25, <1>26, <1>27,
       <1>28 DEF F!CycleStep

LEMMA BufferAfterCycle ==
  ASSUME IInv, F!HardwareStep
  PROVE  Buffer'
<1> USE CycleFrame DEF Buffer, Types, FlagTypes, MemoryTypes, Choices, F!Identities, OwnPlaces,
     Guarded, BeforeChoice, F!Nothing, F!NoIdentity, CyclePlaces, Working, Settled, Gating,
     SharedPlaces, ProPlaces
<1>t. Types /\ FlagTypes /\ MemoryTypes /\ OwnPlaces /\ Guarded /\ Buffer
  BY DEF IInv
<1>1. CASE F!BeginPrepare
  BY <1>1, <1>t DEF F!BeginPrepare, F!ledger, F!readVars, F!memoryVars, F!At, F!Go, F!Forget,
     F!Take
<1>2. CASE F!BeginGate
  BY <1>2, <1>t DEF F!BeginGate, F!ledger, F!readVars, F!memoryVars, F!At, F!Go, F!Forget,
     F!Take
<1>3. CASE F!BeginSelect
  BY <1>3, <1>t DEF F!BeginSelect, F!ledger, F!readVars, F!memoryVars, F!At, F!Go, F!Forget,
     F!Take
<1>4. CASE F!ReadHardware
  BY <1>4, <1>t DEF F!ReadHardware, F!ledger, F!readVars, F!memoryVars, F!At, F!Go, F!Forget,
     F!Take
<1>5. CASE F!ReadGateSession
  BY <1>5, <1>t DEF F!ReadGateSession, F!ledger, F!readVars, F!memoryVars, F!At, F!Go, F!Forget,
     F!Take
<1>6. CASE F!Synchronize
  BY <1>6, <1>t DEF F!Synchronize, F!Cleared, F!ledger, F!readVars, F!memoryVars, F!At, F!Go,
     F!Forget, F!Take
<1>7. CASE F!ReadSession
  BY <1>7, <1>t DEF F!ReadSession, F!ledger, F!readVars, F!memoryVars, F!At, F!Go, F!Forget,
     F!Take
<1>8. CASE F!ReadGeneration
  BY <1>8, <1>t DEF F!ReadGeneration, F!ledger, F!readVars, F!memoryVars, F!At, F!Go, F!Forget,
     F!Take
<1>9. CASE F!LookAtPort
  BY <1>9, <1>t DEF F!LookAtPort, F!MayMix, F!Region, F!ledger, F!readVars, F!memoryVars, F!At,
     F!Go, F!Forget, F!Take
<1>10. CASE F!LookAtPro
  BY <1>10, <1>t DEF F!LookAtPro, F!MaySelect, F!Region, F!ledger, F!readVars, F!memoryVars,
     F!At, F!Go, F!Forget, F!Take
<1>11. CASE \E late \in BOOLEAN : F!Consume(late)
  <2>1. /\ hpc = "consume" /\ hpc' = "check" /\ bridge' = bridge /\ id' = id
        /\ offered' = offered /\ lastValid' = lastValid
        /\ scratch' = IF got' /\ bridge = "shared" THEN [of |-> id, played |-> FALSE] ELSE scratch
    BY <1>11 DEF F!Consume, F!At, F!Go
  <2>2. offered = F!Nothing /\ F!Nothing.fresh = FALSE
    BY <2>1, <1>t
  <2>3. CASE got' /\ bridge = "shared"
    <3>1. scratch' = [of |-> id, played |-> FALSE]
      BY <2>1, <2>3
    <3> QED
      BY <2>1, <2>2, <2>3, <3>1
  <2>4. CASE ~(got' /\ bridge = "shared")
    <3>1. scratch' = scratch
      BY <2>1, <2>4
    <3> QED
      BY <1>t, <2>1, <2>2, <2>4, <3>1
  <2> QED
    BY <2>3, <2>4
<1>12. CASE F!KeepBlock
  BY <1>12, <1>t DEF F!KeepBlock, F!Current, F!ledger, F!readVars, F!memoryVars, F!At, F!Go,
     F!Forget, F!Take
<1>13. CASE F!DropBlock
  BY <1>13, <1>t DEF F!DropBlock, F!Current, F!Region, F!ledger, F!readVars, F!memoryVars, F!At,
     F!Go, F!Forget, F!Take
<1>14. CASE F!Miss
  BY <1>14, <1>t DEF F!Miss, F!Current, F!ledger, F!readVars, F!memoryVars, F!At, F!Go,
     F!Forget, F!Take
<1>15. CASE F!MissWhileArmed
  BY <1>15, <1>t DEF F!MissWhileArmed, F!Region, F!ledger, F!readVars, F!memoryVars, F!At, F!Go,
     F!Forget, F!Take
<1>16. CASE F!MissUnarmed
  BY <1>16, <1>t DEF F!MissUnarmed, F!Region, F!ledger, F!readVars, F!memoryVars, F!At, F!Go,
     F!Forget, F!Take
<1>17. CASE F!MissInOutage
  BY <1>17, <1>t DEF F!MissInOutage, F!Repeat, F!ledger, F!readVars, F!memoryVars, F!At, F!Go,
     F!Forget, F!Take
<1>18. CASE F!Count
  BY <1>18, <1>t DEF F!Count, F!Repeat, F!Cleared, F!ledger, F!readVars, F!memoryVars, F!At,
     F!Go, F!Forget, F!Take
<1>19. CASE F!BeginOutage
  BY <1>19, <1>t DEF F!BeginOutage, F!Repeat, F!ledger, F!readVars, F!memoryVars, F!At, F!Go,
     F!Forget, F!Take
<1>20. CASE F!ArmPro
  BY <1>20, <1>t DEF F!ArmPro, F!Claimed, F!ledger, F!readVars, F!memoryVars, F!At, F!Go,
     F!Forget, F!Take
<1>21. CASE F!Leave
  BY <1>21, <1>t DEF F!Leave, F!ledger, F!readVars, F!memoryVars, F!At, F!Go, F!Forget, F!Take
<1>22. CASE F!Abandon
  BY <1>22, <1>t DEF F!Abandon, F!ledger, F!readVars, F!memoryVars, F!At, F!Go, F!Forget, F!Take
<1>23. CASE F!BeginCommit
  BY <1>23, <1>t DEF F!BeginCommit, F!ledger, F!readVars, F!memoryVars, F!At, F!Go, F!Forget,
     F!Take
<1>24. CASE F!RefuseCommit
  BY <1>24, <1>t DEF F!RefuseCommit, F!Commits, F!Current, F!Region, F!ledger, F!readVars,
     F!memoryVars, F!At, F!Go, F!Forget, F!Take
<1>25. CASE F!CommitRepeat
  BY <1>25, <1>t DEF F!CommitRepeat, F!Commits, F!Current, F!ledger, F!readVars, F!memoryVars,
     F!At, F!Go, F!Forget, F!Take
<1>26. CASE F!CommitFresh
  BY <1>26, <1>t DEF F!CommitFresh, F!Commits, F!Current, F!ledger, F!readVars, F!memoryVars,
     F!At, F!Go, F!Forget, F!Take
<1>27. CASE F!Heal
  BY <1>27, <1>t DEF F!Heal, F!Cleared, F!ledger, F!readVars, F!memoryVars, F!At, F!Go,
     F!Forget, F!Take
<1>28. CASE F!Mix
  <2>1. /\ hpc = "rearm" /\ hpc' = "leaveCommit" /\ offered' = F!Nothing /\ lastValid' = id
        /\ scratch' = [scratch EXCEPT !.played = TRUE] /\ id' = id
    BY <1>28 DEF F!Mix, F!At, F!Go, F!readVars
  <2>2. bridge = "shared" /\ id = offered.of /\ scratch = [of |-> offered.of, played |-> FALSE]
    BY <1>t, <2>1
  <2>3. scratch' = [of |-> id, played |-> TRUE]
    <3>1. scratch \in Buffers /\ scratch.of = id
      BY <1>t, <2>2
    <3> QED
      BY <2>1, <3>1, PlayedUpdate, Zenon
  <2> QED
    BY <2>1, <2>3
<1> QED
  BY <1>1, <1>2, <1>3, <1>4, <1>5, <1>6, <1>7, <1>8, <1>9, <1>10, <1>11, <1>12, <1>13, <1>14,
       <1>15, <1>16, <1>17, <1>18, <1>19, <1>20, <1>21, <1>22, <1>23, <1>24, <1>25, <1>26, <1>27,
       <1>28 DEF F!CycleStep

LEMMA LedgerAfterCycle ==
  ASSUME IInv, F!HardwareStep
  PROVE  Ledger'
<1> USE CycleFrame DEF Ledger, Types, FlagTypes, MemoryTypes, Choices, F!Identities, OneSession,
     OwnPlaces, Guarded, ArmedPlaces, OutagePlaces, ActivePlaces, Undrained, Waiting, CyclePlaces,
     Working, Settled, Gating, SharedPlaces, ProPlaces
<1>t. Types /\ FlagTypes /\ MemoryTypes /\ OneSession /\ OwnPlaces /\ Guarded /\ Ledger
  BY DEF IInv
<1>1. CASE F!BeginPrepare
  BY <1>1, <1>t DEF F!BeginPrepare, F!ledger, F!readVars, F!memoryVars, F!At, F!Go, F!Forget,
     F!Take
<1>2. CASE F!BeginGate
  BY <1>2, <1>t DEF F!BeginGate, F!ledger, F!readVars, F!memoryVars, F!At, F!Go, F!Forget,
     F!Take
<1>3. CASE F!BeginSelect
  BY <1>3, <1>t DEF F!BeginSelect, F!ledger, F!readVars, F!memoryVars, F!At, F!Go, F!Forget,
     F!Take
<1>4. CASE F!ReadHardware
  BY <1>4, <1>t DEF F!ReadHardware, F!ledger, F!readVars, F!memoryVars, F!At, F!Go, F!Forget,
     F!Take
<1>5. CASE F!ReadGateSession
  BY <1>5, <1>t DEF F!ReadGateSession, F!ledger, F!readVars, F!memoryVars, F!At, F!Go, F!Forget,
     F!Take
<1>6. CASE F!Synchronize
  BY <1>6, <1>t DEF F!Synchronize, F!Cleared, F!ledger, F!readVars, F!memoryVars, F!At, F!Go,
     F!Forget, F!Take
<1>7. CASE F!ReadSession
  BY <1>7, <1>t DEF F!ReadSession, F!ledger, F!readVars, F!memoryVars, F!At, F!Go, F!Forget,
     F!Take
<1>8. CASE F!ReadGeneration
  BY <1>8, <1>t DEF F!ReadGeneration, F!ledger, F!readVars, F!memoryVars, F!At, F!Go, F!Forget,
     F!Take
<1>9. CASE F!LookAtPort
  BY <1>9, <1>t DEF F!LookAtPort, F!MayMix, F!Region, F!ledger, F!readVars, F!memoryVars, F!At,
     F!Go, F!Forget, F!Take
<1>10. CASE F!LookAtPro
  BY <1>10, <1>t DEF F!LookAtPro, F!MaySelect, F!Region, F!ledger, F!readVars, F!memoryVars,
     F!At, F!Go, F!Forget, F!Take
<1>11. CASE \E late \in BOOLEAN : F!Consume(late)
  BY <1>11, <1>t DEF F!Consume, F!Region, F!ledger, F!readVars, F!memoryVars, F!At, F!Go,
     F!Forget, F!Take
<1>12. CASE F!KeepBlock
  BY <1>12, <1>t DEF F!KeepBlock, F!Current, F!ledger, F!readVars, F!memoryVars, F!At, F!Go,
     F!Forget, F!Take
<1>13. CASE F!DropBlock
  BY <1>13, <1>t DEF F!DropBlock, F!Current, F!Region, F!ledger, F!readVars, F!memoryVars, F!At,
     F!Go, F!Forget, F!Take
<1>14. CASE F!Miss
  BY <1>14, <1>t DEF F!Miss, F!Current, F!ledger, F!readVars, F!memoryVars, F!At, F!Go,
     F!Forget, F!Take
<1>15. CASE F!MissWhileArmed
  BY <1>15, <1>t DEF F!MissWhileArmed, F!Region, F!ledger, F!readVars, F!memoryVars, F!At, F!Go,
     F!Forget, F!Take
<1>16. CASE F!MissUnarmed
  BY <1>16, <1>t DEF F!MissUnarmed, F!Region, F!ledger, F!readVars, F!memoryVars, F!At, F!Go,
     F!Forget, F!Take
<1>17. CASE F!MissInOutage
  BY <1>17, <1>t DEF F!MissInOutage, F!Repeat, F!ledger, F!readVars, F!memoryVars, F!At, F!Go,
     F!Forget, F!Take
<1>18. CASE F!Count
  BY <1>18, <1>t DEF F!Count, F!Repeat, F!Cleared, F!ledger, F!readVars, F!memoryVars, F!At,
     F!Go, F!Forget, F!Take
<1>19. CASE F!BeginOutage
  BY <1>19, <1>t DEF F!BeginOutage, F!Repeat, F!ledger, F!readVars, F!memoryVars, F!At, F!Go,
     F!Forget, F!Take
<1>20. CASE F!ArmPro
  BY <1>20, <1>t DEF F!ArmPro, F!Claimed, F!ledger, F!readVars, F!memoryVars, F!At, F!Go,
     F!Forget, F!Take
<1>21. CASE F!Leave
  BY <1>21, <1>t DEF F!Leave, F!ledger, F!readVars, F!memoryVars, F!At, F!Go, F!Forget, F!Take
<1>22. CASE F!Abandon
  BY <1>22, <1>t DEF F!Abandon, F!ledger, F!readVars, F!memoryVars, F!At, F!Go, F!Forget, F!Take
<1>23. CASE F!BeginCommit
  BY <1>23, <1>t DEF F!BeginCommit, F!ledger, F!readVars, F!memoryVars, F!At, F!Go, F!Forget,
     F!Take
<1>24. CASE F!RefuseCommit
  BY <1>24, <1>t DEF F!RefuseCommit, F!Commits, F!Current, F!Region, F!ledger, F!readVars,
     F!memoryVars, F!At, F!Go, F!Forget, F!Take
<1>25. CASE F!CommitRepeat
  BY <1>25, <1>t DEF F!CommitRepeat, F!Commits, F!Current, F!ledger, F!readVars, F!memoryVars,
     F!At, F!Go, F!Forget, F!Take
<1>26. CASE F!CommitFresh
  BY <1>26, <1>t DEF F!CommitFresh, F!Commits, F!Current, F!ledger, F!readVars, F!memoryVars,
     F!At, F!Go, F!Forget, F!Take
<1>27. CASE F!Heal
  BY <1>27, <1>t DEF F!Heal, F!Cleared, F!ledger, F!readVars, F!memoryVars, F!At, F!Go,
     F!Forget, F!Take
<1>28. CASE F!Mix
  BY <1>28, <1>t DEF F!Mix, F!Claimed, F!ledger, F!readVars, F!memoryVars, F!At, F!Go, F!Forget,
     F!Take
<1> QED
  BY <1>1, <1>2, <1>3, <1>4, <1>5, <1>6, <1>7, <1>8, <1>9, <1>10, <1>11, <1>12, <1>13, <1>14,
       <1>15, <1>16, <1>17, <1>18, <1>19, <1>20, <1>21, <1>22, <1>23, <1>24, <1>25, <1>26, <1>27,
       <1>28 DEF F!CycleStep

LEMMA TrackedAfterCycle ==
  ASSUME IInv, F!HardwareStep
  PROVE  Tracked'
<1> USE CycleFrame DEF Tracked, Types, FlagTypes, MemoryTypes, Choices, F!Identities, OneSession,
     OwnPlaces, Guarded, Past, Buffer, Ledger, Present, F!Gated, F!NoIdentity, ActivePlaces,
     CyclePlaces, Working, Settled, Gating, SharedPlaces, ProPlaces
<1>t. Types /\ FlagTypes /\ MemoryTypes /\ OneSession /\ OwnPlaces /\ Guarded /\ Past /\ Buffer
      /\ Ledger /\ Tracked
  BY DEF IInv
<1>1. CASE F!BeginPrepare
  BY <1>1, <1>t DEF F!BeginPrepare, F!ledger, F!readVars, F!memoryVars, F!At, F!Go, F!Forget,
     F!Take
<1>2. CASE F!BeginGate
  BY <1>2, <1>t DEF F!BeginGate, F!ledger, F!readVars, F!memoryVars, F!At, F!Go, F!Forget,
     F!Take
<1>3. CASE F!BeginSelect
  BY <1>3, <1>t DEF F!BeginSelect, F!ledger, F!readVars, F!memoryVars, F!At, F!Go, F!Forget,
     F!Take
<1>4. CASE F!ReadHardware
  BY <1>4, <1>t DEF F!ReadHardware, F!ledger, F!readVars, F!memoryVars, F!At, F!Go, F!Forget,
     F!Take
<1>5. CASE F!ReadGateSession
  BY <1>5, <1>t DEF F!ReadGateSession, F!ledger, F!readVars, F!memoryVars, F!At, F!Go, F!Forget,
     F!Take
<1>6. CASE F!Synchronize
  <2>1. /\ hpc \in Gating /\ hpc' \in {"session", "leaveWait"}
        /\ id' = id /\ outage' = outage /\ lastValid' = lastValid
        /\ alert' = IF blocked' THEN F!Cleared(alert, id.session) ELSE alert
        /\ blocked' = (id.session # 0 /\ visited = id.session /\ lifecycleHw # id.hw)
    BY <1>6 DEF F!Synchronize, F!At, F!Go, F!readVars, F!memoryVars
  <2>2. CASE lifecycleHw # id.hw
    <3>1. ~(spc \in {"running", "quiet"} /\ ~F!Gated /\ lastValid = Present)
      BY <1>t, <2>1, <2>2
    <3> QED
      BY <2>1, <3>1
  <2>3. CASE lifecycleHw = id.hw
    <3>1. blocked' = FALSE
      BY <2>1, <2>3
    <3>2. alert' = alert
      BY <2>1, <3>1
    <3> QED
      BY <1>t, <2>1, <3>2
  <2> QED
    BY <2>2, <2>3
<1>7. CASE F!ReadSession
  BY <1>7, <1>t DEF F!ReadSession, F!ledger, F!readVars, F!memoryVars, F!At, F!Go, F!Forget,
     F!Take
<1>8. CASE F!ReadGeneration
  BY <1>8, <1>t DEF F!ReadGeneration, F!ledger, F!readVars, F!memoryVars, F!At, F!Go, F!Forget,
     F!Take
<1>9. CASE F!LookAtPort
  BY <1>9, <1>t DEF F!LookAtPort, F!MayMix, F!Region, F!ledger, F!readVars, F!memoryVars, F!At,
     F!Go, F!Forget, F!Take
<1>10. CASE F!LookAtPro
  BY <1>10, <1>t DEF F!LookAtPro, F!MaySelect, F!Region, F!ledger, F!readVars, F!memoryVars,
     F!At, F!Go, F!Forget, F!Take
<1>11. CASE \E late \in BOOLEAN : F!Consume(late)
  BY <1>11, <1>t DEF F!Consume, F!Region, F!ledger, F!readVars, F!memoryVars, F!At, F!Go,
     F!Forget, F!Take
<1>12. CASE F!KeepBlock
  BY <1>12, <1>t DEF F!KeepBlock, F!Current, F!ledger, F!readVars, F!memoryVars, F!At, F!Go,
     F!Forget, F!Take
<1>13. CASE F!DropBlock
  BY <1>13, <1>t DEF F!DropBlock, F!Current, F!Region, F!ledger, F!readVars, F!memoryVars, F!At,
     F!Go, F!Forget, F!Take
<1>14. CASE F!Miss
  BY <1>14, <1>t DEF F!Miss, F!Current, F!ledger, F!readVars, F!memoryVars, F!At, F!Go,
     F!Forget, F!Take
<1>15. CASE F!MissWhileArmed
  BY <1>15, <1>t DEF F!MissWhileArmed, F!Region, F!ledger, F!readVars, F!memoryVars, F!At, F!Go,
     F!Forget, F!Take
<1>16. CASE F!MissUnarmed
  BY <1>16, <1>t DEF F!MissUnarmed, F!Region, F!ledger, F!readVars, F!memoryVars, F!At, F!Go,
     F!Forget, F!Take
<1>17. CASE F!MissInOutage
  BY <1>17, <1>t DEF F!MissInOutage, F!Repeat, F!ledger, F!readVars, F!memoryVars, F!At, F!Go,
     F!Forget, F!Take
<1>18. CASE F!Count
  BY <1>18, <1>t DEF F!Count, F!Repeat, F!Cleared, F!ledger, F!readVars, F!memoryVars, F!At,
     F!Go, F!Forget, F!Take
<1>19. CASE F!BeginOutage
  BY <1>19, <1>t DEF F!BeginOutage, F!Repeat, F!ledger, F!readVars, F!memoryVars, F!At, F!Go,
     F!Forget, F!Take
<1>20. CASE F!ArmPro
  BY <1>20, <1>t DEF F!ArmPro, F!Claimed, F!ledger, F!readVars, F!memoryVars, F!At, F!Go,
     F!Forget, F!Take
<1>21. CASE F!Leave
  BY <1>21, <1>t DEF F!Leave, F!ledger, F!readVars, F!memoryVars, F!At, F!Go, F!Forget, F!Take
<1>22. CASE F!Abandon
  BY <1>22, <1>t DEF F!Abandon, F!ledger, F!readVars, F!memoryVars, F!At, F!Go, F!Forget, F!Take
<1>23. CASE F!BeginCommit
  BY <1>23, <1>t DEF F!BeginCommit, F!ledger, F!readVars, F!memoryVars, F!At, F!Go, F!Forget,
     F!Take
<1>24. CASE F!RefuseCommit
  BY <1>24, <1>t DEF F!RefuseCommit, F!Commits, F!Current, F!Region, F!ledger, F!readVars,
     F!memoryVars, F!At, F!Go, F!Forget, F!Take
<1>25. CASE F!CommitRepeat
  BY <1>25, <1>t DEF F!CommitRepeat, F!Commits, F!Current, F!ledger, F!readVars, F!memoryVars,
     F!At, F!Go, F!Forget, F!Take
<1>26. CASE F!CommitFresh
  BY <1>26, <1>t DEF F!CommitFresh, F!Commits, F!Current, F!ledger, F!readVars, F!memoryVars,
     F!At, F!Go, F!Forget, F!Take
<1>27. CASE F!Heal
  BY <1>27, <1>t DEF F!Heal, F!Cleared, F!ledger, F!readVars, F!memoryVars, F!At, F!Go,
     F!Forget, F!Take
<1>28. CASE F!Mix
  BY <1>28, <1>t DEF F!Mix, F!Claimed, F!ledger, F!readVars, F!memoryVars, F!At, F!Go, F!Forget,
     F!Take
<1> QED
  BY <1>1, <1>2, <1>3, <1>4, <1>5, <1>6, <1>7, <1>8, <1>9, <1>10, <1>11, <1>12, <1>13, <1>14,
       <1>15, <1>16, <1>17, <1>18, <1>19, <1>20, <1>21, <1>22, <1>23, <1>24, <1>25, <1>26, <1>27,
       <1>28 DEF F!CycleStep

LEMMA RepeatsAfterCycle ==
  ASSUME IInv, F!HardwareStep
  PROVE  F!RepeatsWhatWasHeard'
<1> USE CycleFrame DEF F!RepeatsWhatWasHeard, Types, FlagTypes, MemoryTypes, Choices, F!Identities,
     OwnPlaces, Guarded, Buffer, BeforeChoice, F!Nothing, F!NoIdentity, CyclePlaces, Working,
     Settled, Gating, SharedPlaces, ProPlaces
<1>t. Types /\ FlagTypes /\ MemoryTypes /\ OwnPlaces /\ Guarded /\ Buffer
      /\ F!RepeatsWhatWasHeard
  BY DEF IInv
<1>1. CASE F!BeginPrepare
  BY <1>1, <1>t DEF F!BeginPrepare, F!ledger, F!readVars, F!memoryVars, F!At, F!Go, F!Forget,
     F!Take
<1>2. CASE F!BeginGate
  BY <1>2, <1>t DEF F!BeginGate, F!ledger, F!readVars, F!memoryVars, F!At, F!Go, F!Forget,
     F!Take
<1>3. CASE F!BeginSelect
  BY <1>3, <1>t DEF F!BeginSelect, F!ledger, F!readVars, F!memoryVars, F!At, F!Go, F!Forget,
     F!Take
<1>4. CASE F!ReadHardware
  BY <1>4, <1>t DEF F!ReadHardware, F!ledger, F!readVars, F!memoryVars, F!At, F!Go, F!Forget,
     F!Take
<1>5. CASE F!ReadGateSession
  BY <1>5, <1>t DEF F!ReadGateSession, F!ledger, F!readVars, F!memoryVars, F!At, F!Go, F!Forget,
     F!Take
<1>6. CASE F!Synchronize
  BY <1>6, <1>t DEF F!Synchronize, F!Cleared, F!ledger, F!readVars, F!memoryVars, F!At, F!Go,
     F!Forget, F!Take
<1>7. CASE F!ReadSession
  BY <1>7, <1>t DEF F!ReadSession, F!ledger, F!readVars, F!memoryVars, F!At, F!Go, F!Forget,
     F!Take
<1>8. CASE F!ReadGeneration
  BY <1>8, <1>t DEF F!ReadGeneration, F!ledger, F!readVars, F!memoryVars, F!At, F!Go, F!Forget,
     F!Take
<1>9. CASE F!LookAtPort
  BY <1>9, <1>t DEF F!LookAtPort, F!MayMix, F!Region, F!ledger, F!readVars, F!memoryVars, F!At,
     F!Go, F!Forget, F!Take
<1>10. CASE F!LookAtPro
  BY <1>10, <1>t DEF F!LookAtPro, F!MaySelect, F!Region, F!ledger, F!readVars, F!memoryVars,
     F!At, F!Go, F!Forget, F!Take
<1>11. CASE \E late \in BOOLEAN : F!Consume(late)
  BY <1>11, <1>t DEF F!Consume, F!Region, F!ledger, F!readVars, F!memoryVars, F!At, F!Go,
     F!Forget, F!Take
<1>12. CASE F!KeepBlock
  BY <1>12, <1>t DEF F!KeepBlock, F!Current, F!ledger, F!readVars, F!memoryVars, F!At, F!Go,
     F!Forget, F!Take
<1>13. CASE F!DropBlock
  BY <1>13, <1>t DEF F!DropBlock, F!Current, F!Region, F!ledger, F!readVars, F!memoryVars, F!At,
     F!Go, F!Forget, F!Take
<1>14. CASE F!Miss
  BY <1>14, <1>t DEF F!Miss, F!Current, F!ledger, F!readVars, F!memoryVars, F!At, F!Go,
     F!Forget, F!Take
<1>15. CASE F!MissWhileArmed
  BY <1>15, <1>t DEF F!MissWhileArmed, F!Region, F!ledger, F!readVars, F!memoryVars, F!At, F!Go,
     F!Forget, F!Take
<1>16. CASE F!MissUnarmed
  BY <1>16, <1>t DEF F!MissUnarmed, F!Region, F!ledger, F!readVars, F!memoryVars, F!At, F!Go,
     F!Forget, F!Take
<1>17. CASE F!MissInOutage
  BY <1>17, <1>t DEF F!MissInOutage, F!Repeat, F!ledger, F!readVars, F!memoryVars, F!At, F!Go,
     F!Forget, F!Take
<1>18. CASE F!Count
  BY <1>18, <1>t DEF F!Count, F!Repeat, F!Cleared, F!ledger, F!readVars, F!memoryVars, F!At,
     F!Go, F!Forget, F!Take
<1>19. CASE F!BeginOutage
  BY <1>19, <1>t DEF F!BeginOutage, F!Repeat, F!ledger, F!readVars, F!memoryVars, F!At, F!Go,
     F!Forget, F!Take
<1>20. CASE F!ArmPro
  BY <1>20, <1>t DEF F!ArmPro, F!Claimed, F!ledger, F!readVars, F!memoryVars, F!At, F!Go,
     F!Forget, F!Take
<1>21. CASE F!Leave
  BY <1>21, <1>t DEF F!Leave, F!ledger, F!readVars, F!memoryVars, F!At, F!Go, F!Forget, F!Take
<1>22. CASE F!Abandon
  BY <1>22, <1>t DEF F!Abandon, F!ledger, F!readVars, F!memoryVars, F!At, F!Go, F!Forget, F!Take
<1>23. CASE F!BeginCommit
  BY <1>23, <1>t DEF F!BeginCommit, F!ledger, F!readVars, F!memoryVars, F!At, F!Go, F!Forget,
     F!Take
<1>24. CASE F!RefuseCommit
  BY <1>24, <1>t DEF F!RefuseCommit, F!Commits, F!Current, F!Region, F!ledger, F!readVars,
     F!memoryVars, F!At, F!Go, F!Forget, F!Take
<1>25. CASE F!CommitRepeat
  BY <1>25, <1>t DEF F!CommitRepeat, F!Commits, F!Current, F!ledger, F!readVars, F!memoryVars,
     F!At, F!Go, F!Forget, F!Take
<1>26. CASE F!CommitFresh
  BY <1>26, <1>t DEF F!CommitFresh, F!Commits, F!Current, F!ledger, F!readVars, F!memoryVars,
     F!At, F!Go, F!Forget, F!Take
<1>27. CASE F!Heal
  BY <1>27, <1>t DEF F!Heal, F!Cleared, F!ledger, F!readVars, F!memoryVars, F!At, F!Go,
     F!Forget, F!Take
<1>28. CASE F!Mix
  BY <1>28, <1>t DEF F!Mix, F!Claimed, F!ledger, F!readVars, F!memoryVars, F!At, F!Go, F!Forget,
     F!Take
<1> QED
  BY <1>1, <1>2, <1>3, <1>4, <1>5, <1>6, <1>7, <1>8, <1>9, <1>10, <1>11, <1>12, <1>13, <1>14,
       <1>15, <1>16, <1>17, <1>18, <1>19, <1>20, <1>21, <1>22, <1>23, <1>24, <1>25, <1>26, <1>27,
       <1>28 DEF F!CycleStep

-----------------------------------------------------------------------------
(* The invariant.                                                          *)

LEMMA InitIInv ==
  ASSUME F!FallbackAssumption, F!Init
  PROVE  IInv
<1> USE DEF F!Init
<1>a. /\ MaxSessions \in Nat /\ MaxGeneration \in Nat /\ MaxHardware \in Nat
      /\ MaxRepeats \in Nat
      /\ MaxHardware >= 1
  BY DEF F!FallbackAssumption
<1>1. Types
  <2>1. spc \in SessionPlaces /\ hpc \in CyclePlaces
    BY DEF SessionPlaces, CyclePlaces
  <2> QED
    BY <1>a, <2>1 DEF Types, F!Ids
<1>f. FlagTypes
  BY DEF FlagTypes
<1>2. RegionTypes
  <2>1. F!NewRegion \in Regions
    BY DEF F!NewRegion, Regions
  <2> QED
    BY <2>1, Zenon DEF RegionTypes
<1>3. MemoryTypes
  <2>1. F!NoIdentity \in F!Identities
    BY <1>a DEF F!NoIdentity, F!Identities, F!Ids
  <2> QED
    BY <2>1 DEF MemoryTypes, F!Nothing, Choices, Buffers
<1>4. OneSession /\ Guarded /\ StartsEmpty /\ Ledger
  BY DEF OneSession, Guarded, StartsEmpty, Ledger, ActivePlaces, Unguarded, Settled, Working,
     Starting
<1>5. OwnPlaces
  BY DEF OwnPlaces, F!FallbackAssumption, SharedPlaces, ProPlaces, Gating
<1>6. Past
  BY DEF Past, F!NoIdentity, F!Nothing
<1>7. Buffer /\ F!RepeatsWhatWasHeard
  BY DEF Buffer, BeforeChoice, Gating, F!RepeatsWhatWasHeard, F!Nothing
<1>8. Tracked
  BY DEF Tracked, Gating
<1> QED
  BY <1>1, <1>f, <1>2, <1>3, <1>4, <1>5, <1>6, <1>7, <1>8 DEF IInv

LEMMA SessionInv ==
  ASSUME F!FallbackAssumption, IInv, F!SessionStep
  PROVE  IInv'
<1>1. RegionTypes'
  BY RegionsAfterSession DEF IInv, Types
<1>2. MemoryTypes' /\ OwnPlaces' /\ Buffer' /\ F!RepeatsWhatWasHeard'
  BY SessionFrame DEF IInv, MemoryTypes, OwnPlaces, Buffer, F!RepeatsWhatWasHeard
<1> QED
  BY <1>1, <1>2, TypesAfterSession, FlagsAfterSession, OneSessionAfterSession,
     GuardedAfterSession, PastAfterSession, StartsEmptyAfterSession, LedgerAfterSession,
     TrackedAfterSession DEF IInv

LEMMA CycleInv ==
  ASSUME F!FallbackAssumption, IInv, F!HardwareStep
  PROVE  IInv'
<1>1. RegionTypes'
  BY CycleFrame, RegionsAfterCycle DEF IInv, Types
<1> QED
  BY <1>1, TypesAfterCycle, FlagsAfterCycle, MemoryTypesAfterCycle, OneSessionAfterCycle,
     OwnPlacesAfterCycle, GuardedAfterCycle, PastAfterCycle, StartsEmptyAfterCycle,
     BufferAfterCycle, LedgerAfterCycle, TrackedAfterCycle, RepeatsAfterCycle DEF IInv

LEMMA StutterInv == IInv /\ UNCHANGED F!vars => IInv'
BY DEF F!vars, F!sessionVars, F!endpointVars, F!lifeVars, F!waitVars, F!ledger, F!visitVars,
   F!readVars, F!memoryVars, IInv, Types, FlagTypes, RegionTypes, MemoryTypes, OneSession,
   OwnPlaces, Guarded, Past, StartsEmpty, Buffer, Ledger, Tracked, Present, F!Gated,
   F!RepeatsWhatWasHeard

(* A step of the composition is a step of the fallback, or none.           *)
LEMMA BridgesStep ==
  /\ BridgesInit => F!Init
  /\ [BridgesNext]_allVars => [F!Next]_F!vars
<1>1. BridgesInit => F!Init
  BY DEF BridgesInit
<1>2. UNCHANGED fallbackVars => UNCHANGED F!vars
  BY DEF fallbackVars, F!vars, F!sessionVars, F!endpointVars, F!lifeVars, F!waitVars, F!ledger,
     F!visitVars, F!readVars, F!memoryVars
<1> QED
  BY <1>1, <1>2 DEF BridgesNext, LifecycleNext, FallbackNext, allVars

(* The inductive invariant holds.                                          *)
THEOREM Inductive == BridgesSpec => []IInv
<1>1. F!Init => IInv
  BY InitIInv, BridgesAssumption
<1>2. IInv /\ [F!Next]_F!vars => IInv'
  BY SessionInv, RecoverInv, CycleInv, StutterInv, BridgesAssumption DEF F!Next
<1> QED
  BY <1>1, <1>2, BridgesStep, PTL DEF BridgesSpec

LEMMA TypesImplied == ASSUME IInv PROVE F!TypeOK
<1>1. regions \in [F!Ids -> Regions] /\ {id, lastValid} \subseteq F!Identities
      /\ offered \in Choices /\ scratch \in Buffers
  BY DEF IInv, RegionTypes, MemoryTypes
<1>2. {drains, held, blocked, got, heard} \subseteq BOOLEAN
  BY DEF IInv, FlagTypes
<1> QED
  BY <1>1, <1>2 DEF IInv, Types, F!TypeOK, Regions, Choices, Buffers

LEMMA TrackingImplied == ASSUME IInv PROVE F!CountedOnce /\ F!MissesAreTracked
<1>1. F!CountedOnce
  BY DEF IInv, Ledger, F!CountedOnce
<1>2. F!MissesAreTracked
  BY DEF IInv, Types, OneSession, Ledger, Tracked, Present, F!Gated, F!MissesAreTracked,
     ActivePlaces, Waiting, Undrained, ArmedPlaces, OutagePlaces
<1> QED
  BY <1>1, <1>2

(* For every number of sessions, lifecycles, recoveries and repeats: what  *)
(* is repeated was heard last, in the same lifecycle under the same        *)
(* hardware generation (SharedAudioPortBridge, process_pro_playback).      *)
THEOREM RepeatsWereHeard == BridgesSpec => []RepeatsWhatWasHeard
<1>1. IInv => RepeatsWhatWasHeard
  BY TypesImplied DEF IInv, RepeatsWhatWasHeard
<1> QED
  BY <1>1, Inductive, PTL

(* A miss is counted only after something was heard and once for each      *)
(* interruption, and no miss of a stream that would be repeated escapes    *)
(* the count (SessionState.armed and outage).                              *)
THEOREM MissesCount == BridgesSpec => []MissesAreCounted
<1>1. IInv => MissesAreCounted
  BY TrackingImplied DEF MissesAreCounted
<1> QED
  BY <1>1, Inductive, PTL
=============================================================================
