------------------------------ MODULE SlotRing ------------------------------
(***************************************************************************)
(* One slot ring of a shared region: SharedRegion of                       *)
(* crates/sidealsa-client/src/shared.rs, mapped by the daemon and by one   *)
(* client process, without a lock between them.                            *)
(*                                                                         *)
(* In the playback ring the client thread publishes and the daemon's       *)
(* playback thread consumes the block of the sequence it needs.  In the    *)
(* capture ring the daemon publishes and the client thread reads.  Each    *)
(* side is one thread (ClientSession takes &mut self; the bridges belong   *)
(* to one hardware thread), so a ring has one producer and one consumer.   *)
(*                                                                         *)
(* A visit of a scan to a slot is one step: only the consumer and a reset  *)
(* move a slot out of READY, so its state and sequence loads agree, and    *)
(* READING before FREE is as closed to the producer as READY.              *)
(***************************************************************************)
EXTENDS WrappingSequence, FiniteSets

CONSTANTS
  SlotCount,   \* 4 to 16 slots in the code
  Rings,       \* which of the region's two rings is looked at
  MaxBlocks,   \* bound on the publications of each, for TLC
  Reach,       \* bound on how far sequences spread around the cycle, for TLC
  None

Slots == 0..(SlotCount - 1)
Ids == UNION {1..MaxBlocks[r] : r \in Rings}
Blocks == [id : Ids, seq : Sequence]

ASSUME RingAssumption ==
  /\ SlotCount \in Nat \ {0}
  /\ Rings \subseteq {"playback", "capture"}
  /\ MaxBlocks \in [Rings -> Nat]
  /\ Reach \in Nat /\ 2 * Reach < Half
  /\ "capture" \in Rings => MaxBlocks["capture"] <= Half  \* 2^63 periods in the code
  /\ None \notin Int \union Blocks

VARIABLES
  ring,        \* the ring: fixed by Init
  state,       \* SharedSlotHeader.state
  sequence,    \* SharedSlotHeader.sequence
  late,        \* SharedSlotHeader.published_nanos is after the consumer's cutoff
  audio,       \* which block the samples of the slot are
  running,     \* client_state is SHARED_CLIENT_RUNNING
  cycle,       \* the daemon's sequence: next consumed, or next captured
  ppc,         \* where the producer is in try_publish
  pindex,      \* producer_index
  pscan,       \* slots it has found busy
  block,       \* the block being published: an identity and its sequence
  count,       \* blocks published or refused so far
  cpc,         \* where the consumer is
  op,          \* the scan it runs
  cindex,      \* consumer_index
  cscan,       \* slots it has visited
  bound,       \* expected_sequence, minimum_sequence or through
  choice,      \* the slot it has selected
  sent,        \* history: blocks made READY
  delivered,   \* history: blocks handed to the consumer
  last,        \* history: the sequence of the last of them
  early        \* history: sequences made READY before their cycle began (playback)
               \* or before the scan began (capture)

producerVars == <<ppc, pindex, pscan, block, count>>
consumerVars == <<cpc, op, cindex, cscan, bound, choice>>
history == <<sent, delivered, last, early>>
slotVars == <<state, sequence, late, audio>>
vars == <<ring, slotVars, running, cycle, producerVars, consumerVars, history>>

Init ==
  /\ ring \in Rings
  /\ state = [i \in Slots |-> "free"]
  /\ sequence = [i \in Slots |-> 0]
  /\ late = [i \in Slots |-> FALSE]
  /\ audio = [i \in Slots |-> None]
  /\ running = FALSE
  /\ cycle = Range2 - 1
  /\ ppc = "idle" /\ pindex = 0 /\ pscan = 0 /\ block = None /\ count = 0
  /\ cpc = "idle" /\ op = None /\ cindex = 0 /\ cscan = 0 /\ bound = 0 /\ choice = None
  /\ sent = {} /\ delivered = {} /\ last = None /\ early = {}

(* next_index, after the offset of a scan                                  *)
Index(first, offset) == (first + offset) % SlotCount

(* The locals of a call that returns.                                      *)
PublishReturns == ppc' = "idle" /\ pscan' = 0 /\ block' = None
ScanReturns == cpc' = "idle" /\ op' = None /\ cscan' = 0 /\ bound' = 0 /\ choice' = None
ScanGoesTo(pc) == cpc' = pc /\ UNCHANGED <<op, cscan, bound, choice>>

(* Sequences a client may submit, or ask for, around the daemon's cycle.   *)
Near == {Advance(cycle, d) : d \in 0..Reach} \union {Retreat(cycle, d) : d \in 1..Reach}

-----------------------------------------------------------------------------
(* The producer: try_publish                                               *)

(* A client submits any sequence it likes; the daemon captures in order.   *)
BeginPublish ==
  /\ ppc = "idle"
  /\ count < MaxBlocks[ring]
  /\ count' = count + 1
  /\ \E n \in IF ring = "playback" THEN Near ELSE {cycle} : block' = [id |-> count + 1, seq |-> n]
  /\ cycle' = IF ring = "playback" THEN cycle ELSE Advance(cycle, 1)
  /\ pscan' = 0
  /\ ppc' = "scan"
  /\ UNCHANGED <<slotVars, running, pindex, consumerVars, history>>

ClaimFree ==
  /\ ppc = "scan" /\ pscan < SlotCount
  /\ LET i == Index(pindex, pscan)
     IN IF state[i] = "free"
        THEN /\ state' = [state EXCEPT ![i] = "writing"]
             /\ pindex' = i
             /\ ppc' = "copy"
             /\ UNCHANGED pscan
        ELSE /\ pscan' = pscan + 1
             /\ UNCHANGED <<state, pindex, ppc>>
  /\ UNCHANGED <<sequence, late, audio, running, cycle, block, count, consumerVars,
                 history>>

(* Every slot was busy when it was looked at: the block is refused.        *)
Refuse ==
  /\ ppc = "scan" /\ pscan = SlotCount
  /\ PublishReturns
  /\ UNCHANGED <<slotVars, running, cycle, pindex, count, consumerVars, history>>

CopyIn ==
  /\ ppc = "copy"
  /\ audio' = [audio EXCEPT ![pindex] = block]
  /\ ppc' = "label"
  /\ UNCHANGED <<state, sequence, late, running, cycle, pindex, pscan, block, count,
                 consumerVars, history>>

(* Mutant: a clock that fails leaves the slot marked WRITING.              *)
LabelKeepingSlot ==
  /\ ppc = "label"
  /\ sequence' = [sequence EXCEPT ![pindex] = block.seq]
  /\ \/ \E l \in IF ring = "playback" THEN BOOLEAN ELSE {FALSE} :
          /\ late' = [late EXCEPT ![pindex] = l]
          /\ ppc' = IF ring = "playback" THEN "announce" ELSE "ready"
          /\ UNCHANGED <<pscan, block>>
     \/ ring = "playback" /\ PublishReturns /\ UNCHANGED late
  /\ UNCHANGED <<state, audio, running, cycle, pindex, count, consumerVars, history>>

(* The playback ring stamps the block with the time; a clock that fails    *)
(* frees the slot again.                                                   *)
Label ==
  /\ ppc = "label"
  /\ sequence' = [sequence EXCEPT ![pindex] = block.seq]
  /\ \/ \E l \in IF ring = "playback" THEN BOOLEAN ELSE {FALSE} :
          /\ late' = [late EXCEPT ![pindex] = l]
          /\ ppc' = IF ring = "playback" THEN "announce" ELSE "ready"
          /\ UNCHANGED <<state, pscan, block>>
     \/ /\ ring = "playback"
        /\ state' = [state EXCEPT ![pindex] = "free"]
        /\ PublishReturns
        /\ UNCHANGED late
  /\ UNCHANGED <<audio, running, cycle, pindex, count, consumerVars, history>>

(* client_playback_sequence and client_state are stored before READY.      *)
Announce ==
  /\ ppc = "announce"
  /\ running' = TRUE
  /\ ppc' = "ready"
  /\ UNCHANGED <<slotVars, cycle, pindex, pscan, block, count, consumerVars, history>>

MakeReady ==
  /\ ppc = "ready"
  /\ state' = [state EXCEPT ![pindex] = "ready"]
  /\ pindex' = Index(pindex, 1)
  /\ PublishReturns
  /\ sent' = sent \union {block}
  /\ early' = IF ring = "capture" \/ IsBefore(block.seq, cycle) THEN early ELSE early \union {block.seq}
  /\ UNCHANGED <<sequence, late, audio, running, cycle, count, consumerVars, delivered, last>>

-----------------------------------------------------------------------------
(* The consumer                                                            *)

(*   exact    try_consume_exact: the block of this cycle, if it is not     *)
(*            late (no cutoff is a block that was not late)                *)
(*   oldest   try_client_read_capture: the oldest block                    *)
(*   valid    try_client_read_valid_capture: the oldest from a minimum on  *)
(*   peek     oldest_valid_client_capture_sequence: only look for it       *)
(*   discard  discard_capture_through: free the blocks up to a sequence    *)
Scans == IF ring = "playback" THEN {"exact"} ELSE {"oldest", "valid", "peek", "discard"}

(* Bound: the consumer never leaves a call of the producer half the        *)
(* sequence range behind, which is 2^63 cycles in the code.                *)
InReach ==
  IF ring = "playback" /\ block # None
  THEN \E d \in 0..(Half - 2) : cycle = Advance(block.seq, d) \/ block.seq = Advance(cycle, d)
  ELSE TRUE

BeginScan ==
  /\ cpc = "idle"
  /\ InReach
  /\ op' \in Scans
  /\ bound' \in IF ring = "playback" THEN {cycle} ELSE Near
  /\ cycle' = IF ring = "playback" THEN Advance(cycle, 1) ELSE cycle
  /\ cscan' = 0
  /\ choice' = None
  /\ cpc' = "scan"
  /\ early' = IF ring = "playback"
              THEN {n \in early : ~IsBefore(n, cycle)}
              ELSE {sequence[i] : i \in {j \in Slots : state[j] = "ready"}}
  /\ UNCHANGED <<slotVars, running, producerVars, cindex, sent, delivered, last>>

(* The slot the scan visits next: two of the scans start at the index that *)
(* follows the last block read.                                            *)
Visited == IF op \in {"oldest", "valid"} THEN Index(cindex, cscan) ELSE cscan

(* Mutant: every block but the one of this cycle is in the way.            *)
ObsoleteUnlessExact(i) == sequence[i] # bound \/ choice # None

(* Mutant: only a second block of this cycle is.                           *)
ObsoleteIfDuplicate(i) == sequence[i] = bound /\ choice # None

(* Blocks the scan frees as it passes                                      *)
Obsolete(i) ==
  CASE op = "exact" -> IF sequence[i] = bound THEN choice # None ELSE ~IsAfter(sequence[i], bound)
    [] op \in {"valid", "peek"} -> IsBefore(sequence[i], bound)
    [] op = "discard" -> ~IsAfter(sequence[i], bound)
    [] op = "oldest" -> FALSE

(* The block the scan keeps in mind                                        *)
Better(i) ==
  CASE op = "exact" -> sequence[i] = bound
    [] op = "oldest" -> choice = None \/ IsBefore(sequence[i], sequence[choice])
    [] op = "discard" -> FALSE
    [] OTHER -> choice = None
                  \/ Distance(bound, sequence[i]) < Distance(bound, sequence[choice])

VisitSlot ==
  /\ cpc = "scan" /\ cscan < SlotCount
  /\ LET i == Visited
     IN IF state[i] # "ready"
        THEN UNCHANGED <<state, choice>>
        ELSE IF Obsolete(i)
        THEN /\ state' = [state EXCEPT ![i] = "free"]
             /\ UNCHANGED choice
        ELSE /\ choice' = IF Better(i) THEN i ELSE choice
             /\ UNCHANGED state
  /\ cscan' = cscan + 1
  /\ UNCHANGED <<sequence, late, audio, running, cycle, producerVars, cpc, op, cindex, bound,
                 history>>

EndScan ==
  /\ cpc = "scan" /\ cscan = SlotCount
  /\ IF choice = None \/ op = "peek" THEN ScanReturns ELSE ScanGoesTo("claim")
  /\ UNCHANGED <<slotVars, running, cycle, producerVars, cindex, history>>

(* READY to READING; the sequence and the cutoff are checked again.        *)
ClaimReady ==
  /\ cpc = "claim"
  /\ IF state[choice] # "ready"
     THEN ScanReturns /\ UNCHANGED state
     ELSE IF op = "exact" /\ (sequence[choice] # bound \/ late[choice])
     THEN ScanReturns /\ state' = [state EXCEPT ![choice] = "free"]
     ELSE ScanGoesTo("copy") /\ state' = [state EXCEPT ![choice] = "reading"]
  /\ UNCHANGED <<sequence, late, audio, running, cycle, producerVars, cindex, history>>

CopyOut ==
  /\ cpc = "copy"
  /\ delivered' = delivered \union {audio[choice]}
  /\ last' = sequence[choice]
  /\ ScanGoesTo("release")
  /\ UNCHANGED <<slotVars, running, cycle, producerVars, cindex, sent, early>>

(* Mutant: the slot is given back as it was found.                         *)
ReleaseAsReady ==
  /\ cpc = "release"
  /\ state' = [state EXCEPT ![choice] = "ready"]
  /\ cindex' = IF ring = "playback" THEN cindex ELSE Index(choice, 1)
  /\ ScanReturns
  /\ UNCHANGED <<sequence, late, audio, running, cycle, producerVars, history>>

Release ==
  /\ cpc = "release"
  /\ state' = [state EXCEPT ![choice] = "free"]
  /\ cindex' = IF ring = "playback" THEN cindex ELSE Index(choice, 1)
  /\ ScanReturns
  /\ UNCHANGED <<sequence, late, audio, running, cycle, producerVars, history>>

-----------------------------------------------------------------------------
(* reset_slots, by START, STOP and CLOSE of either side: the client waits  *)
(* for the reply, and SessionLifecycle keeps the hardware thread out.      *)
Reset ==
  /\ ppc = "idle" /\ cpc = "idle"
  /\ state' = [i \in Slots |-> "free"]
  /\ sequence' = [i \in Slots |-> 0]
  /\ running' = FALSE
  /\ pindex' = IF ring = "playback" THEN 0 ELSE pindex
  /\ cindex' = IF ring = "playback" THEN cindex ELSE 0
  /\ last' = None
  /\ early' = {}
  /\ UNCHANGED <<late, audio, cycle, ppc, pscan, block, count, cpc, op, cscan, bound,
                 choice, sent, delivered>>

Producer == BeginPublish \/ ClaimFree \/ Refuse \/ CopyIn \/ Label \/ Announce \/ MakeReady
Consumer == BeginScan \/ VisitSlot \/ EndScan \/ ClaimReady \/ CopyOut \/ Release
Next == (Producer \/ Consumer \/ Reset) /\ UNCHANGED ring

(* The hardware thread consumes every cycle.                               *)
Fairness == WF_vars(Consumer /\ UNCHANGED ring)

Spec == Init /\ [][Next]_vars
FairSpec == Spec /\ Fairness
-----------------------------------------------------------------------------
(* Properties                                                              *)

TypeOK ==
  /\ ring \in Rings
  /\ state \in [Slots -> {"free", "writing", "ready", "reading"}]
  /\ sequence \in [Slots -> Sequence]
  /\ late \in [Slots -> BOOLEAN]
  /\ audio \in [Slots -> Blocks \union {None}]
  /\ running \in BOOLEAN
  /\ cycle \in Sequence
  /\ ppc \in {"idle", "scan", "copy", "label", "announce", "ready"}
  /\ pindex \in Slots
  /\ pscan \in 0..SlotCount
  /\ block \in Blocks \union {None}
  /\ count \in 0..MaxBlocks[ring]
  /\ cpc \in {"idle", "scan", "claim", "copy", "release"}
  /\ op \in Scans \union {None}
  /\ cindex \in Slots
  /\ cscan \in 0..SlotCount
  /\ bound \in Sequence
  /\ choice \in Slots \union {None}
  /\ sent \subseteq Blocks
  /\ delivered \subseteq Blocks
  /\ last \in Sequence \union {None}
  /\ early \subseteq Sequence

Writing == IF ppc \in {"copy", "label", "announce", "ready"} THEN {pindex} ELSE {}
Reading == IF cpc \in {"copy", "release"} THEN {choice} ELSE {}

(* A slot is marked busy exactly while its one user is in it: samples are  *)
(* never written while they are read, and no slot is lost to the ring.     *)
SlotsAreExclusive ==
  /\ {i \in Slots : state[i] = "writing"} = Writing
  /\ {i \in Slots : state[i] = "reading"} = Reading

(* A published block is delivered whole and at most once, or dropped, in   *)
(* whichever order the two sides touch the slots (the module comment of    *)
(* SharedRegion: slot states protect the access to audio).                 *)
Channel == INSTANCE BlockChannel
             WITH published <- sent,
                  inRing <- {audio[i] : i \in {j \in Slots : state[j] = "ready"}}
                              \union (IF cpc = "copy" THEN {audio[choice]} ELSE {})
ImplementsChannel == Channel!ChSpec

(* Playback: what the daemon mixes into a cycle is the block the client    *)
(* submitted for that cycle, never an older or newer one, and never one    *)
(* that was stamped after the cutoff.                                      *)
ExactCycle ==
  ring = "playback" /\ cpc = "copy" => audio[choice].seq = bound /\ ~late[choice]

(* Playback: a block submitted ahead of its cycle is there when the cycle  *)
(* begins; consuming the cycles before it does not reclaim it.             *)
EarlyBlocksWait ==
  ring = "playback" /\ cpc = "scan" /\ cscan = SlotCount /\ bound \in early => choice # None

(* Playback: the daemon ignores a client that is not RUNNING, so a block   *)
(* must not be READY before its client is.                                 *)
ReadyIsRunning == ring = "playback" /\ (\E i \in Slots : state[i] = "ready") => running

(* Capture: a reader takes no block while an older one, which was there    *)
(* before it began to look, waits (docs/milestone-asio.md: the oldest      *)
(* capture target not older than that watermark).                          *)
OldestStandingFirst ==
  ring = "capture" /\ cpc = "copy" =>
    \A n \in early :
      IsBefore(n, sequence[choice]) => op = "valid" /\ IsBefore(n, bound)

(* Blocks are sound: slots are exclusive, a cycle gets its own block, and  *)
(* what is READY is of a RUNNING client.                                   *)
BlocksAreSound == SlotsAreExclusive /\ ExactCycle /\ ReadyIsRunning

(* The order of sequences decides, not the order of slots: early blocks    *)
(* wait for their cycle, and the oldest standing block is read first.      *)
OrderIsKept == EarlyBlocksWait /\ OldestStandingFirst

(* Capture: a client reads the blocks of a lifecycle in the order they     *)
(* were captured (docs/milestone-3.md: ordered FIFO delivery).  Refuted:   *)
(* a scan that has passed a FREE slot does not see the block that is then  *)
(* published there, and may find the next one further on.                  *)
CaptureInOrder == ring = "capture" /\ cpc = "copy" /\ last # None => IsAfter(sequence[choice], last)

(* Playback: a block whose cycle has passed does not keep its slot.        *)
StaleBlocksLeave ==
  ring = "playback" => \A i \in Slots :
    state[i] = "ready" /\ IsBefore(sequence[i], cycle) ~> state[i] # "ready"
=============================================================================
