----------------------------- MODULE CommitWait -----------------------------
(***************************************************************************)
(* What PlaybackCommitBarrier promises to STOP and CLOSE: who starts to    *)
(* wait while the hardware commits a cycle waits for that commit, and for  *)
(* no commit that begins later.                                            *)
(***************************************************************************)
CONSTANT Sessions

VARIABLES
  open,      \* a hardware commit is under way
  waiting,   \* sessions between their look at the barrier and their return
  pending    \* of those, the ones whose commit has not ended

wVars == <<open, waiting, pending>>

WInit == ~open /\ waiting = {} /\ pending = {}

BeginCommit ==
  /\ ~open
  /\ open' = TRUE
  /\ UNCHANGED <<waiting, pending>>

EndCommit ==
  /\ open
  /\ open' = FALSE
  /\ pending' = {}
  /\ UNCHANGED waiting

Look(s) ==
  /\ s \notin waiting
  /\ waiting' = waiting \union {s}
  /\ pending' = IF open THEN pending \union {s} ELSE pending
  /\ UNCHANGED open

Return(s) ==
  /\ s \in waiting \ pending
  /\ waiting' = waiting \ {s}
  /\ UNCHANGED <<open, pending>>

WNext == BeginCommit \/ EndCommit \/ \E s \in Sessions : Look(s) \/ Return(s)

WSpec == WInit /\ [][WNext]_wVars
=============================================================================
