----------------------------- MODULE CycleWake -----------------------------
(***************************************************************************)
(* How the hardware and a PRO client wake each other in every cycle:       *)
(* linked_pro_cycle_loop (event driven) of crates/sidealsa-core/src/       *)
(* engine.rs, its bridges in crates/sidealsa-daemon/src/state.rs, and the  *)
(* ways crates/sidealsa-client/src/lib.rs offers to wait for a period.     *)
(*                                                                         *)
(* The rings are authoritative and the eventfds are hints: each side       *)
(* clears its hint, looks, and sleeps on the hint; each side publishes and *)
(* then raises the other's.  No sleep is bounded by a time-out here but    *)
(* the hardware's, whose deadline need never come.                         *)
(*                                                                         *)
(* A sequence is represented by its age, how many cycles it lies behind    *)
(* SharedRegionHeader.playback_sequence; ages from Old on are not told     *)
(* apart.  Slots are what SlotRing makes of them: a slot is free, or holds *)
(* a READY block of some age.                                              *)
(***************************************************************************)
EXTENDS Naturals

CONSTANTS
  Kinds,    \* how the client waits
  Slots,    \* slots of a ring
  Old       \* the age from which sequences are not told apart

(* How a client waits for its periods:                                     *)
(*   wait      wait_period, then capture_buffer                            *)
(*   poll      poll on notification_fd, then try_capture_buffer            *)
(*   playback  wait_pro_playback_period, which ignores capture             *)
AllKinds == {"wait", "poll", "playback"}

WakeAssumption ==
  Kinds \subseteq AllKinds /\ Slots \in Nat \ {0} /\ Old \in Nat /\ Old >= 2

Ages == 0..Old
Never == Old + 1                         \* Option::None of a sequence
Blocks == 1..Slots

VARIABLES
  live,        \* the session is active
  start,       \* start_sequence, Never until the activation is READY
  overrun,     \* a capture discontinuity was recorded
  cycle,       \* SharedRegionHeader.cycle_sequence
  captures,    \* the age of the READY capture block in a slot, or Never
  playbacks,   \* the age of the READY playback block in a slot, or Never
  heard,       \* the capture eventfd is readable
  ready,       \* the playback-ready eventfd is readable
  late,        \* the cutoff of the cycle has passed
  hpc,         \* where the hardware thread is
  kind, cpc,   \* the client, and where it is
  least,       \* minimum_sequence, as the client read it
  last,        \* AudioStream.last_sequence
  got,         \* the sequence it works on
  spc          \* where STOP or CLOSE is

rings == <<captures, playbacks>>
session == <<live, start, overrun>>
hardwareVars == <<cycle, late, hpc>>
clientVars == <<kind, cpc, least, last, got>>
vars == <<session, rings, heard, ready, hardwareVars, clientVars, spc>>

(* Where a client that wants its next period begins.                       *)
Top == CASE kind = "wait" -> "minimum" [] kind = "poll" -> "asleep" [] OTHER -> "clear"

Empty == [b \in Blocks |-> Never]

Init ==
  /\ live = TRUE /\ start = Never /\ overrun = FALSE /\ spc = "none"
  /\ cycle = 1
  /\ captures = Empty /\ playbacks = Empty
  /\ heard = FALSE /\ ready = FALSE
  /\ late = FALSE /\ hpc = "prepare"
  /\ kind \in Kinds /\ cpc = Top
  /\ least = 0 /\ last = Never /\ got = Never

Free(ring) == {b \in Blocks : ring[b] = Never}
Holds(ring, a) == \E b \in Blocks : ring[b] = a

(* Slots are alike, so that it makes no difference which free one is taken. *)
Put(ring, a) == [ring EXCEPT ![CHOOSE b \in Free(ring) : TRUE] = a]
Without(ring, bs) == [b \in Blocks |-> IF b \in bs THEN Never ELSE ring[b]]

(* Two sequences of age Old are taken to differ.  (The block last returned *)
(* is gone by the next wait: see PeriodsAreFresh.)                         *)
Differ(a, b) == a # b \/ a = Old

-----------------------------------------------------------------------------
(* The hardware thread, one cycle.                                         *)

(* prepare_playback drains the client's wake of the last cycle.            *)
Prepare ==
  /\ hpc = "prepare"
  /\ ready' = FALSE
  /\ hpc' = "cycle"
  /\ UNCHANGED <<session, rings, heard, cycle, late, clientVars, spc>>

SetCycle ==
  /\ hpc = "cycle"
  /\ cycle' = 0
  /\ hpc' = "publish"
  /\ UNCHANGED <<session, rings, heard, ready, late, clientVars, spc>>

(* publish_pro_capture: the first cycle of a session only establishes its  *)
(* activation; a later one wakes the client for a published block, and not *)
(* for a block that finds the ring full.                                   *)
Activate ==
  /\ hpc = "publish" /\ live /\ start = Never
  /\ start' = 0
  /\ hpc' = "check"
  /\ UNCHANGED <<live, overrun, rings, heard, ready, cycle, late, clientVars, spc>>

Publish ==
  /\ hpc = "publish" /\ live /\ start # Never
  /\ Free(captures) # {}
  /\ captures' = Put(captures, 0)
  /\ hpc' = "notify"
  /\ UNCHANGED <<session, playbacks, heard, ready, cycle, late, clientVars, spc>>

Overrun ==
  /\ hpc = "publish" /\ live /\ start # Never
  /\ Free(captures) = {}
  /\ overrun' = TRUE
  /\ hpc' = "check"
  /\ UNCHANGED <<live, start, rings, heard, ready, cycle, late, clientVars, spc>>

PublishNothing ==
  /\ hpc = "publish" /\ ~live
  /\ hpc' = "check"
  /\ UNCHANGED <<session, rings, heard, ready, cycle, late, clientVars, spc>>

NotifyCapture ==
  /\ hpc = "notify"
  /\ heard' = TRUE
  /\ hpc' = "check"
  /\ UNCHANGED <<session, rings, ready, cycle, late, clientVars, spc>>

(* wait_for_playback_before: look, drain, look again, sleep.               *)
Answered == ~live \/ start \in {0, Never} \/ Holds(playbacks, 0)

Check ==
  /\ hpc = "check"
  /\ hpc' = IF Answered THEN "consume" ELSE "drain"
  /\ UNCHANGED <<session, rings, heard, ready, cycle, late, clientVars, spc>>

DrainReady ==
  /\ hpc = "drain"
  /\ ready' = FALSE
  /\ hpc' = "recheck"
  /\ UNCHANGED <<session, rings, heard, cycle, late, clientVars, spc>>

Recheck ==
  /\ hpc = "recheck"
  /\ hpc' = IF Answered \/ late THEN "consume" ELSE "sleep"
  /\ UNCHANGED <<session, rings, heard, ready, cycle, late, clientVars, spc>>

(* The wait of SharedEvents does not clear the hint it wakes for.          *)
Wake ==
  /\ hpc = "sleep"
  /\ ready \/ late
  /\ hpc' = IF ready THEN "check" ELSE "consume"
  /\ UNCHANGED <<session, rings, heard, ready, cycle, late, clientVars, spc>>

(* process_pro_playback takes the block of the cycle and reclaims older    *)
(* ones, draining the hint they may have left.                             *)
Consume ==
  /\ hpc = "consume"
  /\ IF live /\ start # Never
     THEN ready' = FALSE /\ playbacks' = Empty
     ELSE UNCHANGED <<ready, playbacks>>
  /\ hpc' = "advance"
  /\ UNCHANGED <<session, captures, heard, cycle, late, clientVars, spc>>

Aged(a) == IF a < Old THEN a + 1 ELSE a
AgedRing(ring) == [b \in Blocks |-> Aged(ring[b])]

(* It ends by advancing playback_sequence: every sequence is a cycle older *)
(* from then on.                                                           *)
Advance ==
  /\ hpc = "advance"
  /\ hpc' = "prepare"
  /\ late' = FALSE
  /\ start' = Aged(start) /\ cycle' = Aged(cycle)
  /\ captures' = AgedRing(captures) /\ playbacks' = AgedRing(playbacks)
  /\ least' = Aged(least) /\ last' = Aged(last) /\ got' = Aged(got)
  /\ UNCHANGED <<live, overrun, heard, ready, kind, cpc, spc>>

(* The cutoff passes.                                                      *)
Deadline ==
  /\ hpc \in {"check", "drain", "recheck", "sleep"} /\ ~late
  /\ late' = TRUE
  /\ UNCHANGED <<session, rings, heard, ready, cycle, hpc, clientVars, spc>>

HardwareStep ==
  \/ Prepare \/ SetCycle
  \/ Activate \/ Publish \/ Overrun \/ PublishNothing \/ NotifyCapture
  \/ Check \/ DrainReady \/ Recheck \/ Wake \/ Consume \/ Advance

-----------------------------------------------------------------------------
(* The client thread.                                                      *)

Goto(from, to) == cpc = from /\ cpc' = to
ClientOnly == UNCHANGED <<session, hardwareVars, kind, spc>>

(* check_capture_discontinuity begins every call: the client then restarts *)
(* its stream instead.                                                     *)
Checks == {"minimum", "read minimum"} \union (IF kind = "playback" THEN {"clear"} ELSE {})
Discontinuous == overrun /\ cpc \in Checks

ReadMinimum(from, to) ==
  /\ ~Discontinuous
  /\ Goto(from, to)
  /\ least' = 0
  /\ ClientOnly /\ UNCHANGED <<rings, heard, ready, last, got>>

(* Blocks older than the minimum are reclaimed; the oldest of the others   *)
(* is the one to read.                                                     *)
Valid == {b \in Blocks : captures[b] <= least}
Reclaimed == Without(captures, Blocks \ Valid)
Oldest(b) == b \in Valid /\ \A c \in Valid : captures[c] <= captures[b]

(* wait_period looks before it clears the hint, and raises it again for    *)
(* what it leaves.                                                         *)
WaitFinds ==
  /\ Goto("scan", "clear")
  /\ \E b \in Blocks : Oldest(b) /\ Differ(captures[b], last) /\ got' = captures[b]
  /\ captures' = Reclaimed
  /\ ClientOnly /\ UNCHANGED <<playbacks, heard, ready, least, last>>

WaitFindsNothing ==
  /\ Goto("scan", "asleep")
  /\ Valid = {} \/ \E b \in Blocks : Oldest(b) /\ ~Differ(captures[b], last)
  /\ captures' = Reclaimed
  /\ ClientOnly /\ UNCHANGED <<playbacks, heard, ready, least, last, got>>

(* Every way clears the hint; try_capture_buffer and                       *)
(* wait_pro_playback_period do so before they look.                        *)
ClearHint ==
  /\ ~Discontinuous
  /\ Goto("clear", CASE kind = "wait" -> "more"
                     [] kind = "poll" -> "read minimum"
                     [] kind = "playback" -> "look")
  /\ heard' = FALSE
  /\ ClientOnly /\ UNCHANGED <<rings, ready, least, last, got>>

KeepHint ==
  /\ Goto("more", "read minimum")
  /\ heard' = (heard \/ \E b, c \in Blocks \ Free(captures) : b # c)
  /\ last' = got
  /\ ClientOnly /\ UNCHANGED <<rings, ready, least, got>>

(* EventFd::wait_until consumes the hint; the client's own poll does not.  *)
Awake ==
  /\ heard
  /\ Goto("asleep", IF kind = "wait" THEN "minimum" ELSE "clear")
  /\ heard' = (kind = "poll")
  /\ ClientOnly /\ UNCHANGED <<rings, ready, least, last, got>>

(* capture_buffer, and the look of try_capture_buffer at what is left.     *)
ReadCapture ==
  /\ Goto("read", "check")
  /\ \E b \in Blocks :
       /\ Oldest(b)
       /\ captures' = [Reclaimed EXCEPT ![b] = Never]
       /\ got' = captures[b]
  /\ ClientOnly /\ UNCHANGED <<playbacks, heard, ready, least, last>>

ReadNothing ==
  /\ Goto("read", IF kind = "poll" THEN "next minimum" ELSE Top)
  /\ Valid = {}
  /\ captures' = Reclaimed
  /\ got' = Never
  /\ ClientOnly /\ UNCHANGED <<playbacks, heard, ready, least, last>>

CheckExpired ==
  /\ Goto("check", IF got > 0 THEN "again" ELSE IF kind = "poll" THEN "next minimum" ELSE "submit")
  /\ last' = IF got > 0 THEN last ELSE got
  /\ ClientOnly /\ UNCHANGED <<rings, heard, ready, least, got>>

(* Mutant of LookForNext: the hint is cleared after the ring was read.     *)
LookThenDrain ==
  /\ Goto("next", IF got = Never THEN "asleep" ELSE "submit")
  /\ captures' = Reclaimed
  /\ heard' = FALSE
  /\ ClientOnly /\ UNCHANGED <<playbacks, ready, least, last, got>>

LookForNext ==
  /\ Goto("next", IF got = Never THEN "asleep" ELSE "submit")
  /\ captures' = Reclaimed
  /\ heard' = (heard \/ Valid # {})
  /\ ClientOnly /\ UNCHANGED <<playbacks, ready, least, last, got>>

(* wait_pro_playback_period: the period is the hardware's cycle, and the   *)
(* capture that goes with it is thrown away whether or not it is new.      *)
LookAtCycle ==
  /\ Goto("look", "discard")
  /\ got' = cycle
  /\ ClientOnly /\ UNCHANGED <<rings, heard, ready, least, last>>

Started == start # Never /\ (start > got \/ start = Old)

Acceptable == Started /\ Differ(got, last) /\ (last # Never \/ got = 0)

DiscardCapture ==
  /\ Goto("discard", "accept")
  /\ captures' = Without(captures, {b \in Blocks : captures[b] >= got})
  /\ ClientOnly /\ UNCHANGED <<playbacks, heard, ready, least, last, got>>

AcceptCycle ==
  /\ Goto("accept", "submit")
  /\ Acceptable
  /\ last' = got
  /\ ClientOnly /\ UNCHANGED <<rings, heard, ready, least, got>>

PassCycleOver ==
  /\ Goto("accept", "asleep")
  /\ ~Acceptable
  /\ ClientOnly /\ UNCHANGED <<rings, heard, ready, least, last, got>>

(* submit_playback; a full ring refuses the block.                         *)
Submit ==
  /\ Goto("submit", "answer")
  /\ Free(playbacks) # {}
  /\ playbacks' = Put(playbacks, got)
  /\ ClientOnly /\ UNCHANGED <<captures, heard, ready, least, last, got>>

Refuse ==
  /\ Goto("submit", Top)
  /\ Free(playbacks) = {}
  /\ ClientOnly /\ UNCHANGED <<rings, heard, ready, least, last, got>>

Answer ==
  /\ Goto("answer", Top)
  /\ ready' = TRUE
  /\ ClientOnly /\ UNCHANGED <<rings, heard, least, last, got>>

ClientStep ==
  \/ ReadMinimum("minimum", "scan")
  \/ ReadMinimum("read minimum", "read")
  \/ ReadMinimum("again", "read")
  \/ ReadMinimum("next minimum", "next")
  \/ WaitFinds \/ WaitFindsNothing \/ ClearHint \/ KeepHint \/ Awake
  \/ ReadCapture \/ ReadNothing \/ CheckExpired \/ LookForNext
  \/ LookAtCycle \/ DiscardCapture \/ AcceptCycle \/ PassCycleOver
  \/ Submit \/ Refuse \/ Answer

-----------------------------------------------------------------------------
(* STOP, or the CLOSE of a client that is gone, clears `active` and then   *)
(* wakes the hardware.  A client that found its capture discontinuous      *)
(* stops to start again.                                                   *)
Stop ==
  /\ live
  /\ live' = FALSE
  /\ cpc' = IF Discontinuous THEN "restart" ELSE "gone"
  /\ spc' = "wake"
  /\ UNCHANGED <<start, overrun, rings, heard, ready, hardwareVars, kind, least, last, got>>

WakeHardware ==
  /\ spc = "wake"
  /\ ready' = TRUE
  /\ spc' = "done"
  /\ UNCHANGED <<session, rings, heard, hardwareVars, clientVars>>

(* AudioStream::prepare and start: STOP returns once the hardware has left *)
(* the endpoint (SessionLifecycle), with the rings and the events empty.   *)
Restart ==
  /\ spc = "done" /\ cpc = "restart"
  /\ hpc \in {"prepare", "cycle", "check", "consume"}
  /\ live' = TRUE /\ start' = Never /\ overrun' = FALSE
  /\ captures' = Empty /\ playbacks' = Empty
  /\ heard' = FALSE /\ ready' = FALSE
  /\ last' = Never /\ got' = Never /\ cpc' = Top
  /\ spc' = "none"
  /\ UNCHANGED <<hardwareVars, kind, least>>

Next == HardwareStep \/ Deadline \/ ClientStep \/ Stop \/ WakeHardware \/ Restart

Spec == Init /\ [][Next]_vars

(* The hardware keeps cycling, its deadlines come, and a client that is    *)
(* awake runs.                                                             *)
FairSpec ==
  Spec /\ WF_vars(HardwareStep) /\ WF_vars(Deadline) /\ WF_vars(ClientStep)

-----------------------------------------------------------------------------
Labels == {"minimum", "scan", "clear", "more", "asleep", "read minimum", "read", "check",
           "again", "next minimum", "next", "look", "discard", "accept", "submit",
           "answer", "restart", "gone"}

TypeOK ==
  /\ live \in BOOLEAN /\ overrun \in BOOLEAN
  /\ heard \in BOOLEAN /\ ready \in BOOLEAN /\ late \in BOOLEAN
  /\ start \in Ages \union {Never} /\ cycle \in {0, 1}
  /\ captures \in [Blocks -> Ages \union {Never}]
  /\ playbacks \in [Blocks -> Ages \union {Never}]
  /\ hpc \in {"prepare", "cycle", "publish", "notify", "check", "drain",
              "recheck", "sleep", "consume", "advance"}
  /\ kind \in Kinds /\ cpc \in Labels
  /\ least \in Ages /\ last \in Ages \union {Never} /\ got \in Ages \union {Never}
  /\ spc \in {"none", "wake", "done"}

(* What a sleeping client would find if it looked now.                     *)
Work ==
  IF kind = "playback"
  THEN /\ hpc # "publish" /\ cycle # last
       /\ start # Never /\ start > cycle /\ (last # Never \/ cycle = 0)
  ELSE Holds(captures, 0) /\ (kind = "wait" => last # 0)

(* No capture wake is lost: a client does not sleep on a period that is    *)
(* there, unless the hint is raised or about to be ("Consume notifications *)
(* before inspecting shared memory so a concurrent publication cannot lose *)
(* its wake", AudioStream::try_capture_buffer).  A block that found the    *)
(* ring full is lost instead, and recorded as a discontinuity.             *)
ClientIsWoken ==
  live /\ ~overrun /\ cpc = "asleep" /\ Work => heard \/ hpc = "notify"

(* A period is not returned twice: when a client waits again, the block of *)
(* its last period is no longer READY, whether it read that block or it    *)
(* expired in between.  A wait that saw it would pass it over, with the    *)
(* ring filling up behind it (AudioStream::wait_period, capture_buffer).   *)
PeriodsAreFresh ==
  cpc = "scan" /\ last < Old => ~Holds(captures, last)

(* No answer is lost, and no STOP: the hardware does not wait out its      *)
(* deadline for a block that is there, or for a session that has ended     *)
(* (DaemonPlaybackBridge::wait_for_playback_before).                       *)
HardwareIsWoken ==
  hpc = "sleep" /\ Answered => ready \/ cpc = "answer" \/ spc = "wake"

(* A client that waits never sleeps for good, whatever it leaves in its    *)
(* capture ring: every cycle has a wake for it ("otherwise a full capture  *)
(* ring can suppress all subsequent wakes",                                *)
(* AudioStream::wait_pro_playback_period).                                 *)
WakesKeepComing == []<>(cpc # "asleep")
=============================================================================
