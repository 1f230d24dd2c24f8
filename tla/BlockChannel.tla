---------------------------- MODULE BlockChannel ----------------------------
(***************************************************************************)
(* What a slot ring in shared memory promises: a block that was published  *)
(* is delivered whole and at most once, or dropped; nothing else is ever   *)
(* delivered.                                                              *)
(***************************************************************************)
CONSTANT Blocks

VARIABLES
  published,   \* blocks published so far
  inRing,      \* of those, neither delivered nor dropped
  delivered

chVars == <<published, inRing, delivered>>

ChInit == published = {} /\ inRing = {} /\ delivered = {}

PublishBlock(b) ==
  /\ b \notin published
  /\ published' = published \union {b}
  /\ inRing' = inRing \union {b}
  /\ UNCHANGED delivered

Deliver(b) ==
  /\ b \in inRing
  /\ inRing' = inRing \ {b}
  /\ delivered' = delivered \union {b}
  /\ UNCHANGED published

Drop(D) ==
  /\ inRing' = inRing \ D
  /\ UNCHANGED <<published, delivered>>

ChNext ==
  \/ \E b \in Blocks : PublishBlock(b) \/ Deliver(b)
  \/ \E D \in SUBSET inRing : Drop(D)

ChSpec == ChInit /\ [][ChNext]_chVars
=============================================================================
