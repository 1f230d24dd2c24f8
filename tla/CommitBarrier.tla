--------------------------- MODULE CommitBarrier ---------------------------
(***************************************************************************)
(* PlaybackCommitBarrier of crates/sidealsa-daemon/src/state.rs: two       *)
(* wrapping counters.  The hardware playback thread counts the commits it  *)
(* begins and the commits it ends; STOP and CLOSE load the first counter   *)
(* once and spin until the second is not before it.                        *)
(***************************************************************************)
EXTENDS WrappingSequence, FiniteSets

CONSTANT Sessions    \* session threads that stop or close

VARIABLES
  started, completed,  \* PlaybackCommitBarrier
  waiting,             \* sessions inside wait_for
  target,              \* the `target` each waits for
  polled               \* `started` when each last looked at `completed`

vars == <<started, completed, waiting, target, polled>>

(* Any commit may be the next: the counters wrap in the middle of a run.   *)
Init ==
  /\ started \in Sequence
  /\ completed = started
  /\ waiting = {}
  /\ target = [s \in Sessions |-> started]
  /\ polled = target

(* Bound: a waiting thread looks at least once per 2^63 commits.           *)
Prompt == \A s \in waiting : Distance(polled[s], started) < Half - 1

(* begin: PlaybackCommitGuard keeps one commit open at a time              *)
Begin ==
  /\ started = completed
  /\ Prompt
  /\ started' = Advance(started, 1)
  /\ UNCHANGED <<completed, waiting, target, polled>>

End ==
  /\ started # completed
  /\ completed' = Advance(completed, 1)
  /\ UNCHANGED <<started, waiting, target, polled>>

(* Mutant: the commits that ended are the target.                          *)
LookAtCompleted(s) ==
  /\ s \notin waiting
  /\ waiting' = waiting \union {s}
  /\ target' = [target EXCEPT ![s] = completed]
  /\ polled' = [polled EXCEPT ![s] = started]
  /\ UNCHANGED <<started, completed>>

(* wait_for_preexisting: started.load                                      *)
Look(s) ==
  /\ s \notin waiting
  /\ waiting' = waiting \union {s}
  /\ target' = [target EXCEPT ![s] = started]
  /\ polled' = [polled EXCEPT ![s] = started]
  /\ UNCHANGED <<started, completed>>

(* One turn of the loop in wait_for                                        *)
Poll(s) ==
  /\ s \in waiting
  /\ IF IsBefore(completed, target[s])
     THEN polled' = [polled EXCEPT ![s] = started] /\ UNCHANGED waiting
     ELSE waiting' = waiting \ {s} /\ UNCHANGED polled
  /\ UNCHANGED <<started, completed, target>>

Next == Begin \/ End \/ \E s \in Sessions : Look(s) \/ Poll(s)

(* A commit that began ends: its guard ends it on every path.  The spin of *)
(* a waiting thread is scheduled; nobody has to begin or to look.          *)
Fairness == WF_vars(End) /\ \A s \in Sessions : WF_vars(Poll(s))

Spec == Init /\ [][Next]_vars
FairSpec == Spec /\ Fairness
-----------------------------------------------------------------------------
TypeOK ==
  /\ started \in Sequence
  /\ completed \in Sequence
  /\ waiting \subseteq Sessions
  /\ target \in [Sessions -> Sequence]
  /\ polled \in [Sessions -> Sequence]

(* The counters implement the wait for the commit that was open, and for   *)
(* none that begins later, wherever they wrap.                             *)
Wait == INSTANCE CommitWait
          WITH open <- started # completed,
               pending <- {s \in waiting : IsBefore(completed, target[s])}
ImplementsCommitWait == Wait!WSpec

(* "The fixed target lets the hardware begin later cycles without          *)
(* extending teardown" (wait_for_rt_idle): STOP returns although commits   *)
(* follow each other without a gap.                                        *)
WaitEnds == \A s \in Sessions : s \in waiting ~> s \notin waiting
=============================================================================
