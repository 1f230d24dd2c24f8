--------------------------- MODULE SlotRingProofs ---------------------------
(***************************************************************************)
(* Proofs about the slot ring, for every number of slots and blocks and    *)
(* every range of the sequence numbers.                                    *)
(***************************************************************************)
EXTENDS SlotRing, TLAPS

(* What a slot holds is what its sequence says, from the moment its        *)
(* producer has labelled it until its consumer has left it.                *)
SlotsAreLabelled ==
  /\ \A i \in Slots : state[i] \in {"ready", "reading"} =>
       audio[i] \in Blocks /\ audio[i].seq = sequence[i]
  /\ ppc \in {"announce", "ready"} =>
       audio[pindex] \in Blocks /\ audio[pindex].seq = sequence[pindex]
  /\ ppc = "label" => audio[pindex] = block

(* The locals of a call that is under way.                                 *)
CallsAreSet ==
  /\ ppc # "idle" => block \in Blocks
  /\ cpc # "idle" => op \in Scans
  /\ cpc \in {"claim", "copy", "release"} => choice \in Slots
  /\ ring = "playback" /\ ppc = "ready" => running

(* The inductive invariant.                                                *)
IInv == TypeOK /\ SlotsAreExclusive /\ SlotsAreLabelled /\ CallsAreSet /\ ExactCycle
          /\ ReadyIsRunning

-----------------------------------------------------------------------------
(* The wrapping arithmetic stays in range.                                 *)
LEMMA AdvanceType == ASSUME NEW a \in Sequence, NEW n \in 0..Half
                     PROVE  Advance(a, n) \in Sequence
  BY HalfAssumption DEF Sequence, Range2, Advance

LEMMA RetreatType == ASSUME NEW a \in Sequence, NEW n \in 0..Half
                     PROVE  Retreat(a, n) \in Sequence
  BY HalfAssumption DEF Sequence, Range2, Retreat

LEMMA NearType == cycle \in Sequence => Near \subseteq Sequence
<1> SUFFICES ASSUME cycle \in Sequence, NEW d \in 0..Reach
             PROVE  Advance(cycle, d) \in Sequence /\ Retreat(cycle, d) \in Sequence
  BY RingAssumption DEF Near
<1>1. d \in 0..Half
  BY RingAssumption, HalfAssumption
<1> QED
  BY <1>1, AdvanceType, RetreatType

LEMMA EndsType == 0 \in Sequence /\ Range2 - 1 \in Sequence /\ 0 \in 0..SlotCount
  BY HalfAssumption, RingAssumption DEF Sequence, Range2

LEMMA IndexType == ASSUME NEW first \in Nat, NEW offset \in Nat
                   PROVE  Index(first, offset) \in Slots
  BY RingAssumption DEF Index, Slots

(* None is no record and no number.                                        *)
LEMMA SlotsAreNumbers == Slots \subseteq Nat /\ 0 \in Slots /\ None \notin Slots
  BY RingAssumption DEF Slots

-----------------------------------------------------------------------------
LEMMA IInvInit == Init => IInv
<1> SUFFICES ASSUME Init PROVE IInv
  OBVIOUS
<1>1. TypeOK
  <2>1. /\ state \in [Slots -> {"free", "writing", "ready", "reading"}]
        /\ sequence \in [Slots -> Sequence]
        /\ late \in [Slots -> BOOLEAN]
        /\ audio \in [Slots -> Blocks \union {None}]
    BY EndsType DEF Init
  <2>2. /\ cycle \in Sequence /\ bound \in Sequence
        /\ pindex \in Slots /\ cindex \in Slots
        /\ pscan \in 0..SlotCount /\ cscan \in 0..SlotCount
        /\ count \in 0..MaxBlocks[ring]
    BY EndsType, SlotsAreNumbers, RingAssumption DEF Init
  <2> QED
    BY <2>1, <2>2 DEF Init, TypeOK
<1>2. SlotsAreExclusive
  BY DEF Init, SlotsAreExclusive, Writing, Reading
<1> QED
  BY <1>1, <1>2 DEF Init, IInv, SlotsAreLabelled, CallsAreSet, ExactCycle, ReadyIsRunning

LEMMA IInvStep == IInv /\ [Next]_vars => IInv'
<1> SUFFICES ASSUME IInv, [Next]_vars PROVE IInv'
  OBVIOUS
<1> USE SlotsAreNumbers
<1>a. TypeOK /\ SlotsAreExclusive /\ SlotsAreLabelled /\ CallsAreSet /\ ExactCycle /\ ReadyIsRunning
  BY DEF IInv
<1>b. ring' = ring
  BY DEF Next, vars
<1>c. Scans' = Scans
  BY <1>b DEF Scans
<1> USE <1>b, <1>c
<1>1. CASE BeginPublish
  <2>1. (count + 1) \in Ids /\ count' \in 0..MaxBlocks[ring]
    BY <1>a, <1>1, RingAssumption DEF BeginPublish, TypeOK, Ids
  <2>2. cycle' \in Sequence
    BY <1>a, <1>1, AdvanceType, HalfAssumption DEF BeginPublish, TypeOK
  <2>3. block' \in Blocks
    <3>1. PICK n \in IF ring = "playback" THEN Near ELSE {cycle} : block' = [id |-> count + 1, seq |-> n]
      BY <1>1 DEF BeginPublish
    <3>2. n \in Sequence
      BY <3>1, <1>a, NearType DEF TypeOK
    <3> QED
      BY <2>1, <3>1, <3>2 DEF Blocks
  <2>4. TypeOK'
    BY <1>a, <1>1, <2>1, <2>2, <2>3, RingAssumption
    DEF BeginPublish, TypeOK, slotVars, consumerVars, history
  <2>5. SlotsAreExclusive'
    BY <1>a, <1>1 DEF BeginPublish, SlotsAreExclusive, Writing, Reading, slotVars, consumerVars
  <2> QED
    BY <1>a, <1>1, <2>3, <2>4, <2>5
    DEF BeginPublish, IInv, SlotsAreLabelled, CallsAreSet, ExactCycle, ReadyIsRunning,
        slotVars, consumerVars, history
<1>2. CASE ClaimFree
  <2> DEFINE i == Index(pindex, pscan)
  <2>1. i \in Slots
    BY <1>a, IndexType, RingAssumption DEF TypeOK
  <2> HIDE DEF i
  <2>2. CASE state[i] = "free"
    <3>1. state' = [state EXCEPT ![i] = "writing"] /\ pindex' = i /\ ppc' = "copy" /\ pscan' = pscan
      BY <1>2, <2>2 DEF ClaimFree, i
    <3>2. TypeOK'
      BY <1>a, <1>2, <2>1, <3>1 DEF ClaimFree, TypeOK, consumerVars, history
    <3>3. SlotsAreExclusive'
      BY <1>a, <1>2, <2>1, <2>2, <3>1
      DEF ClaimFree, TypeOK, SlotsAreExclusive, Writing, Reading, consumerVars
    <3> QED
      BY <1>a, <1>2, <2>1, <3>1, <3>2, <3>3
      DEF ClaimFree, TypeOK, IInv, SlotsAreLabelled, CallsAreSet, ExactCycle, ReadyIsRunning,
          consumerVars, history
  <2>3. CASE state[i] # "free"
    <3>1. pscan' = pscan + 1 /\ UNCHANGED <<state, pindex, ppc>>
      BY <1>2, <2>3 DEF ClaimFree, i
    <3>2. TypeOK'
      BY <1>a, <1>2, <3>1, RingAssumption DEF ClaimFree, TypeOK, consumerVars, history
    <3>3. SlotsAreExclusive'
      BY <1>a, <1>2, <3>1 DEF ClaimFree, SlotsAreExclusive, Writing, Reading, consumerVars
    <3> QED
      BY <1>a, <1>2, <3>1, <3>2, <3>3
      DEF ClaimFree, IInv, SlotsAreLabelled, CallsAreSet, ExactCycle, ReadyIsRunning,
          consumerVars, history
  <2> QED
    BY <2>2, <2>3
<1>3. CASE Refuse
  <2>1. TypeOK'
    BY <1>a, <1>3, RingAssumption
    DEF Refuse, PublishReturns, TypeOK, slotVars, consumerVars, history
  <2>2. SlotsAreExclusive'
    BY <1>a, <1>3 DEF Refuse, PublishReturns, SlotsAreExclusive, Writing, Reading, slotVars, consumerVars
  <2> QED
    BY <1>a, <1>3, <2>1, <2>2
    DEF Refuse, PublishReturns, IInv, SlotsAreLabelled, CallsAreSet, ExactCycle, ReadyIsRunning,
        slotVars, consumerVars, history
<1>4. CASE CopyIn
  <2>1. block \in Blocks /\ pindex \in Slots /\ state[pindex] = "writing"
    BY <1>a, <1>4 DEF CopyIn, TypeOK, CallsAreSet, SlotsAreExclusive, Writing
  <2>2. TypeOK'
    BY <1>a, <1>4, <2>1 DEF CopyIn, TypeOK, consumerVars, history
  <2>3. SlotsAreExclusive'
    BY <1>a, <1>4 DEF CopyIn, SlotsAreExclusive, Writing, Reading, consumerVars
  <2>4. SlotsAreLabelled'
    BY <1>a, <1>4, <2>1 DEF CopyIn, TypeOK, SlotsAreLabelled
  <2>5. ExactCycle'
    <3>1. cpc = "copy" => choice # pindex
      BY <1>a, <2>1 DEF CallsAreSet, SlotsAreExclusive, Reading
    <3> QED
      BY <1>a, <1>4, <3>1 DEF CopyIn, TypeOK, CallsAreSet, ExactCycle, consumerVars
  <2> QED
    BY <1>a, <1>4, <2>2, <2>3, <2>4, <2>5
    DEF CopyIn, IInv, CallsAreSet, ReadyIsRunning, consumerVars, history
<1>5. CASE Label
  <2>1. block \in Blocks /\ pindex \in Slots /\ state[pindex] = "writing" /\ audio[pindex] = block
    BY <1>a, <1>5 DEF Label, TypeOK, CallsAreSet, SlotsAreExclusive, SlotsAreLabelled, Writing
  <2>2. block.seq \in Sequence
    BY <2>1 DEF Blocks
  <2>3. cpc = "copy" => choice # pindex
    BY <1>a, <2>1 DEF CallsAreSet, SlotsAreExclusive, Reading
  <2>4. sequence' = [sequence EXCEPT ![pindex] = block.seq]
    BY <1>5 DEF Label
  <2>5. UNCHANGED <<audio, running, cycle, pindex, count, cpc, op, cindex, cscan, bound, choice,
                    sent, delivered, last, early>>
    BY <1>5 DEF Label, consumerVars, history
  <2>6. ASSUME NEW l \in BOOLEAN, late' = [late EXCEPT ![pindex] = l],
               ppc' = IF ring = "playback" THEN "announce" ELSE "ready", UNCHANGED <<state, pscan, block>>
        PROVE  IInv'
    <3>1. TypeOK'
      BY <1>a, <2>1, <2>2, <2>4, <2>5, <2>6 DEF TypeOK
    <3>2. SlotsAreExclusive'
      BY <1>a, <1>5, <2>5, <2>6 DEF Label, SlotsAreExclusive, Writing, Reading
    <3>3. SlotsAreLabelled'
      BY <1>a, <2>1, <2>4, <2>5, <2>6 DEF TypeOK, SlotsAreLabelled
    <3>4. ExactCycle'
      BY <1>a, <2>3, <2>4, <2>5, <2>6 DEF TypeOK, CallsAreSet, ExactCycle
    <3>5. CallsAreSet'
      BY <1>a, <2>1, <2>5, <2>6 DEF CallsAreSet
    <3> QED
      BY <1>a, <2>5, <2>6, <3>1, <3>2, <3>3, <3>4, <3>5 DEF IInv, ReadyIsRunning
  <2>7. ASSUME state' = [state EXCEPT ![pindex] = "free"], PublishReturns, UNCHANGED late
        PROVE  IInv'
    <3>1. TypeOK'
      BY <1>a, <2>1, <2>2, <2>4, <2>5, <2>7, RingAssumption DEF TypeOK, PublishReturns
    <3>2. SlotsAreExclusive'
      BY <1>a, <1>5, <2>1, <2>5, <2>7
      DEF Label, TypeOK, SlotsAreExclusive, Writing, Reading, PublishReturns
    <3>3. SlotsAreLabelled'
      BY <1>a, <2>1, <2>4, <2>5, <2>7 DEF TypeOK, SlotsAreLabelled, PublishReturns
    <3>4. ExactCycle'
      BY <1>a, <2>5, <2>7 DEF ExactCycle
    <3>5. CallsAreSet'
      BY <1>a, <2>5, <2>7 DEF CallsAreSet, PublishReturns
    <3>6. ReadyIsRunning'
      BY <1>a, <2>1, <2>5, <2>7 DEF TypeOK, ReadyIsRunning
    <3> QED
      BY <3>1, <3>2, <3>3, <3>4, <3>5, <3>6 DEF IInv
  <2> QED
    BY <1>5, <2>6, <2>7 DEF Label
<1>6. CASE Announce
  <2>1. TypeOK'
    BY <1>a, <1>6 DEF Announce, TypeOK, slotVars, consumerVars, history
  <2>2. SlotsAreExclusive'
    BY <1>a, <1>6 DEF Announce, SlotsAreExclusive, Writing, Reading, slotVars, consumerVars
  <2> QED
    BY <1>a, <1>6, <2>1, <2>2
    DEF Announce, IInv, SlotsAreLabelled, CallsAreSet, ExactCycle, ReadyIsRunning,
        slotVars, consumerVars, history
<1>7. CASE MakeReady
  <2>1. block \in Blocks /\ pindex \in Slots /\ state[pindex] = "writing"
    BY <1>a, <1>7 DEF MakeReady, TypeOK, CallsAreSet, SlotsAreExclusive, Writing
  <2>2. pindex' \in Slots /\ early' \subseteq Sequence
    BY <1>a, <1>7, <2>1, IndexType DEF MakeReady, TypeOK, Blocks
  <2>3. TypeOK'
    BY <1>a, <1>7, <2>1, <2>2, RingAssumption
    DEF MakeReady, PublishReturns, TypeOK, consumerVars
  <2>4. SlotsAreExclusive'
    BY <1>a, <1>7, <2>1
    DEF MakeReady, PublishReturns, TypeOK, SlotsAreExclusive, Writing, Reading, consumerVars
  <2>5. SlotsAreLabelled'
    BY <1>a, <1>7, <2>1 DEF MakeReady, PublishReturns, TypeOK, SlotsAreLabelled
  <2> QED
    BY <1>a, <1>7, <2>1, <2>3, <2>4, <2>5
    DEF MakeReady, PublishReturns, IInv, CallsAreSet, ExactCycle, ReadyIsRunning, consumerVars
<1>8. CASE BeginScan
  <2>1. bound' \in Sequence /\ cycle' \in Sequence
    BY <1>a, <1>8, NearType, AdvanceType, HalfAssumption DEF BeginScan, TypeOK
  <2>2. early' \subseteq Sequence
    BY <1>a, <1>8 DEF BeginScan, TypeOK
  <2>3. TypeOK'
    BY <1>a, <1>8, <2>1, <2>2, RingAssumption DEF BeginScan, TypeOK, slotVars, producerVars
  <2>4. SlotsAreExclusive'
    BY <1>a, <1>8 DEF BeginScan, SlotsAreExclusive, Writing, Reading, slotVars, producerVars
  <2> QED
    BY <1>a, <1>8, <2>3, <2>4
    DEF BeginScan, IInv, SlotsAreLabelled, CallsAreSet, ExactCycle, ReadyIsRunning,
        slotVars, producerVars
<1>9. CASE VisitSlot
  <2> DEFINE i == Visited
  <2>1. i \in Slots
    <3>1. cscan \in Slots /\ cscan \in Nat /\ cindex \in Nat
      BY <1>a, <1>9, RingAssumption DEF VisitSlot, TypeOK, Slots
    <3> QED
      BY <3>1, IndexType DEF Visited, i
  <2> HIDE DEF i
  <2>2. UNCHANGED <<sequence, late, audio, running, cycle, ppc, pindex, pscan, block, count,
                    cpc, op, cindex, bound, sent, delivered, last, early>>
    BY <1>9 DEF VisitSlot, producerVars, history
  <2>3. cscan' \in 0..SlotCount /\ cpc = "scan"
    BY <1>a, <1>9, RingAssumption DEF VisitSlot, TypeOK
  <2>4. /\ choice' \in {choice, i}
        /\ \/ state' = state
           \/ state[i] = "ready" /\ state' = [state EXCEPT ![i] = "free"]
    <3>1. CASE state[i] # "ready"
      BY <1>9, <3>1 DEF VisitSlot, i
    <3>2. CASE state[i] = "ready" /\ Obsolete(i)
      BY <1>9, <3>2 DEF VisitSlot, i
    <3>3. CASE state[i] = "ready" /\ ~Obsolete(i)
      <4>1. CASE Better(i)
        BY <1>9, <3>3, <4>1 DEF VisitSlot, i
      <4>2. CASE ~Better(i)
        BY <1>9, <3>3, <4>2 DEF VisitSlot, i
      <4> QED
        BY <4>1, <4>2
    <3> QED
      BY <3>1, <3>2, <3>3
  <2>5. TypeOK'
    <3>1. state' \in [Slots -> {"free", "writing", "ready", "reading"}]
      BY <1>a, <2>4 DEF TypeOK
    <3>2. choice' \in Slots \union {None}
      BY <1>a, <2>1, <2>4 DEF TypeOK
    <3> QED
      BY <1>a, <2>2, <2>3, <3>1, <3>2 DEF TypeOK
  <2>6. SlotsAreExclusive'
    BY <1>a, <2>1, <2>2, <2>3, <2>4 DEF TypeOK, SlotsAreExclusive, Writing, Reading
  <2>7. SlotsAreLabelled' /\ ReadyIsRunning'
    BY <1>a, <2>1, <2>2, <2>4 DEF TypeOK, SlotsAreLabelled, ReadyIsRunning
  <2> QED
    BY <1>a, <2>2, <2>3, <2>5, <2>6, <2>7 DEF IInv, CallsAreSet, ExactCycle
<1>10. CASE EndScan
  <2>1. TypeOK'
    BY <1>a, <1>10, RingAssumption, HalfAssumption
    DEF EndScan, ScanReturns, ScanGoesTo, TypeOK, slotVars, producerVars, history, Sequence, Range2
  <2>2. SlotsAreExclusive'
    BY <1>a, <1>10
    DEF EndScan, ScanReturns, ScanGoesTo, SlotsAreExclusive, Writing, Reading, slotVars, producerVars
  <2>3. CallsAreSet'
    BY <1>a, <1>10 DEF EndScan, ScanReturns, ScanGoesTo, TypeOK, CallsAreSet, producerVars
  <2> QED
    BY <1>a, <1>10, <2>1, <2>2, <2>3
    DEF EndScan, ScanReturns, ScanGoesTo, IInv, SlotsAreLabelled, ExactCycle, ReadyIsRunning,
        slotVars, producerVars
<1>11. CASE ClaimReady
  <2>1. choice \in Slots
    BY <1>a, <1>11 DEF ClaimReady, CallsAreSet
  <2>2. UNCHANGED <<sequence, late, audio, running, cycle, ppc, pindex, pscan, block, count, cindex,
                    sent, delivered, last, early>> /\ cpc = "claim"
    BY <1>11 DEF ClaimReady, producerVars, history
  <2>3. CASE UNCHANGED state /\ ScanReturns
    <3>1. TypeOK'
      BY <1>a, <2>2, <2>3, RingAssumption, HalfAssumption DEF ScanReturns, TypeOK, Sequence, Range2
    <3>2. SlotsAreExclusive'
      BY <1>a, <2>2, <2>3 DEF ScanReturns, SlotsAreExclusive, Writing, Reading
    <3> QED
      BY <1>a, <2>2, <2>3, <3>1, <3>2
      DEF ScanReturns, IInv, SlotsAreLabelled, CallsAreSet, ExactCycle, ReadyIsRunning
  <2>4. CASE state[choice] = "ready" /\ state' = [state EXCEPT ![choice] = "free"] /\ ScanReturns
    <3>1. TypeOK'
      BY <1>a, <2>1, <2>2, <2>4, RingAssumption, HalfAssumption
      DEF ScanReturns, TypeOK, Sequence, Range2
    <3>2. SlotsAreExclusive'
      BY <1>a, <2>1, <2>2, <2>4 DEF ScanReturns, TypeOK, SlotsAreExclusive, Writing, Reading
    <3>3. SlotsAreLabelled' /\ ReadyIsRunning'
      BY <1>a, <2>1, <2>2, <2>4 DEF TypeOK, SlotsAreLabelled, ReadyIsRunning
    <3> QED
      BY <1>a, <2>2, <2>4, <3>1, <3>2, <3>3 DEF ScanReturns, IInv, CallsAreSet, ExactCycle
  <2>5. CASE /\ state[choice] = "ready" /\ state' = [state EXCEPT ![choice] = "reading"]
             /\ op = "exact" => sequence[choice] = bound /\ ~late[choice]
             /\ ScanGoesTo("copy")
    <3>1. TypeOK'
      BY <1>a, <2>1, <2>2, <2>5 DEF ScanGoesTo, TypeOK
    <3>2. SlotsAreExclusive'
      BY <1>a, <2>1, <2>2, <2>5 DEF ScanGoesTo, TypeOK, SlotsAreExclusive, Writing, Reading
    <3>3. SlotsAreLabelled' /\ ReadyIsRunning'
      BY <1>a, <2>1, <2>2, <2>5 DEF TypeOK, SlotsAreLabelled, ReadyIsRunning
    <3>4. CallsAreSet'
      BY <1>a, <2>1, <2>2, <2>5 DEF ScanGoesTo, CallsAreSet
    <3>5. ring = "playback" => op = "exact"
      BY <1>a, <2>2 DEF CallsAreSet, Scans
    <3>6. ExactCycle'
      BY <1>a, <2>1, <2>2, <2>5, <3>5 DEF ScanGoesTo, SlotsAreLabelled, ExactCycle
    <3> QED
      BY <3>1, <3>2, <3>3, <3>4, <3>6 DEF IInv
  <2> QED
    BY <1>11, <2>3, <2>4, <2>5 DEF ClaimReady
<1>12. CASE CopyOut
  <2>1. choice \in Slots /\ state[choice] = "reading"
    BY <1>a, <1>12 DEF CopyOut, CallsAreSet, SlotsAreExclusive, Reading
  <2>2. audio[choice] \in Blocks /\ sequence[choice] \in Sequence
    BY <1>a, <2>1 DEF SlotsAreLabelled, TypeOK
  <2>3. TypeOK'
    BY <1>a, <1>12, <2>2 DEF CopyOut, ScanGoesTo, TypeOK, slotVars, producerVars
  <2>4. SlotsAreExclusive'
    BY <1>a, <1>12 DEF CopyOut, ScanGoesTo, SlotsAreExclusive, Writing, Reading, slotVars, producerVars
  <2> QED
    BY <1>a, <1>12, <2>3, <2>4
    DEF CopyOut, ScanGoesTo, IInv, SlotsAreLabelled, CallsAreSet, ExactCycle, ReadyIsRunning,
        slotVars, producerVars
<1>13. CASE Release
  <2>1. choice \in Slots /\ state[choice] = "reading"
    BY <1>a, <1>13 DEF Release, CallsAreSet, SlotsAreExclusive, Reading
  <2>2. cindex' \in Slots
    BY <1>a, <1>13, <2>1, IndexType DEF Release, TypeOK
  <2>3. TypeOK'
    BY <1>a, <1>13, <2>1, <2>2, RingAssumption, HalfAssumption
    DEF Release, ScanReturns, TypeOK, producerVars, history, Sequence, Range2
  <2>4. SlotsAreExclusive'
    BY <1>a, <1>13, <2>1
    DEF Release, ScanReturns, TypeOK, SlotsAreExclusive, Writing, Reading, producerVars
  <2>5. SlotsAreLabelled' /\ ReadyIsRunning'
    BY <1>a, <1>13, <2>1 DEF Release, TypeOK, SlotsAreLabelled, ReadyIsRunning, producerVars
  <2> QED
    BY <1>a, <1>13, <2>3, <2>4, <2>5
    DEF Release, ScanReturns, IInv, CallsAreSet, ExactCycle, producerVars
<1>14. CASE Reset
  <2>1. TypeOK'
    BY <1>a, <1>14, EndsType DEF Reset, TypeOK
  <2>2. SlotsAreExclusive'
    BY <1>a, <1>14 DEF Reset, SlotsAreExclusive, Writing, Reading
  <2> QED
    BY <1>a, <1>14, <2>1, <2>2
    DEF Reset, IInv, SlotsAreLabelled, CallsAreSet, ExactCycle, ReadyIsRunning
<1>15. CASE UNCHANGED vars
  BY <1>a, <1>15
  DEF vars, IInv, TypeOK, SlotsAreExclusive, Writing, Reading, SlotsAreLabelled, CallsAreSet,
      ExactCycle, ReadyIsRunning, slotVars, producerVars, consumerVars, history
<1> QED
  BY <1>1, <1>2, <1>3, <1>4, <1>5, <1>6, <1>7, <1>8, <1>9, <1>10, <1>11, <1>12, <1>13, <1>14, <1>15
  DEF Next, Producer, Consumer

LEMMA IInvHolds == Spec => []IInv
<1> QED
  BY IInvInit, IInvStep, PTL DEF Spec

-----------------------------------------------------------------------------
(* The ring's variables keep their types.                                  *)
THEOREM RingTypeCorrect == Spec => []TypeOK
<1>1. IInv => TypeOK
  BY DEF IInv
<1> QED
  BY <1>1, IInvHolds, PTL

(* Samples are never written while they are read, and no slot is lost,     *)
(* for any number of slots.                                                *)
THEOREM RingExclusion == Spec => []SlotsAreExclusive
<1>1. IInv => SlotsAreExclusive
  BY DEF IInv
<1> QED
  BY <1>1, IInvHolds, PTL

(* Slots are exclusive, a cycle gets its own block, and what is READY is   *)
(* of a RUNNING client.                                                    *)
THEOREM RingBlocksAreSound == Spec => []BlocksAreSound
<1>1. IInv => BlocksAreSound
  BY DEF IInv, BlocksAreSound
<1> QED
  BY <1>1, IInvHolds, PTL

(* The block mixed into a cycle is the block submitted for that cycle.     *)
THEOREM RingExactCycle == Spec => []ExactCycle
<1>1. IInv => ExactCycle
  BY DEF IInv
<1> QED
  BY <1>1, IInvHolds, PTL

(* No block is READY before its client is RUNNING.                         *)
THEOREM RingReadyIsRunning == Spec => []ReadyIsRunning
<1>1. IInv => ReadyIsRunning
  BY DEF IInv
<1> QED
  BY <1>1, IInvHolds, PTL

-----------------------------------------------------------------------------
(* The ring is a channel.  Each publication has an identity of its own,    *)
(* and a block lies in at most one slot between READY and its delivery.    *)

Held == {i \in Slots : state[i] = "ready"} \union (IF cpc = "copy" THEN {choice} ELSE {})

BlocksAreOnce ==
  /\ ppc # "idle" => block.id = count
  /\ \A b \in sent : b.id <= count /\ (ppc # "idle" => b.id < count)
  /\ ppc \in {"label", "announce", "ready"} => audio[pindex] = block
  /\ \A i \in Held : audio[i] \in sent
  /\ \A i, j \in Held : audio[i] = audio[j] => i = j

(* A step that publishes nothing, and holds no slot it did not hold.       *)
LEMMA HeldOnce ==
  ASSUME IInv, BlocksAreOnce, UNCHANGED <<sent, count>>, ppc' # "idle" => ppc # "idle" /\ UNCHANGED block,
         ppc' \in {"label", "announce", "ready"} => audio'[pindex'] = block,
         Held' \subseteq Held, \A i \in Held' : audio'[i] = audio[i]
  PROVE  BlocksAreOnce'
BY DEF BlocksAreOnce

LEMMA OnceInit == Init => BlocksAreOnce
BY DEF Init, BlocksAreOnce, Held

LEMMA BlockIds == \A b \in Blocks : b.id \in Nat /\ b.seq \in Sequence
BY RingAssumption DEF Blocks, Ids

LEMMA OnceStep == IInv /\ BlocksAreOnce /\ [Next]_vars => BlocksAreOnce'
<1> SUFFICES ASSUME IInv, BlocksAreOnce, [Next]_vars PROVE BlocksAreOnce'
  OBVIOUS
<1>1. CASE BeginPublish
  <2>1. count \in Nat /\ \A b \in sent : b.id \in Nat
    BY BlockIds, RingAssumption DEF IInv, TypeOK
  <2>2. block'.id = count' /\ count' = count + 1 /\ ppc' = "scan"
    BY <1>1 DEF BeginPublish
  <2>3. UNCHANGED <<sent, audio>> /\ Held' = Held
    BY <1>1 DEF BeginPublish, Held, slotVars, consumerVars, history
  <2>4. QED
    BY <2>1, <2>2, <2>3 DEF BlocksAreOnce
<1>2. CASE ClaimFree
  <2>1. Held' = Held
    <3>1. CASE UNCHANGED state
      BY <1>2, <3>1 DEF ClaimFree, Held, consumerVars
    <3>2. CASE state[Index(pindex, pscan)] = "free"
               /\ state' = [state EXCEPT ![Index(pindex, pscan)] = "writing"]
      BY <1>2, <3>2 DEF ClaimFree, Held, consumerVars, IInv, TypeOK
    <3>3. QED
      BY <1>2, <3>1, <3>2 DEF ClaimFree
  <2>2. QED
    BY <1>2, <2>1, HeldOnce DEF ClaimFree, history
<1>3. CASE Refuse \/ Announce
  BY <1>3, HeldOnce
  DEF Refuse, PublishReturns, Announce, Held, BlocksAreOnce, slotVars, consumerVars, history
<1>4. CASE CopyIn
  <2>1. pindex \in Slots /\ state[pindex] = "writing"
    BY <1>4 DEF CopyIn, IInv, TypeOK, SlotsAreExclusive, Writing
  <2>2. Held' = Held /\ pindex \notin Held
    BY <1>4, <2>1 DEF CopyIn, Held, consumerVars, IInv, CallsAreSet, SlotsAreExclusive, Reading
  <2>3. audio' = [audio EXCEPT ![pindex] = block] /\ audio'[pindex] = block
    BY <1>4, <2>1 DEF CopyIn, IInv, TypeOK
  <2>4. \A i \in Held' : audio'[i] = audio[i]
    BY <2>2, <2>3
  <2>5. QED
    BY <1>4, <2>2, <2>3, <2>4, HeldOnce DEF CopyIn, history
<1>5. CASE Label
  <2>1. pindex \in Slots /\ state[pindex] = "writing"
    BY <1>5 DEF Label, IInv, TypeOK, SlotsAreExclusive, Writing
  <2>2. Held' = Held
    BY <1>5, <2>1 DEF Label, Held, consumerVars, IInv, TypeOK
  <2>3. QED
    BY <1>5, <2>2, HeldOnce DEF Label, PublishReturns, BlocksAreOnce, history
<1>6. CASE MakeReady
  <2>1. pindex \in Slots /\ block \in Blocks /\ audio[pindex] = block
    BY <1>6 DEF MakeReady, IInv, TypeOK, CallsAreSet, BlocksAreOnce
  <2>2. Held' = Held \union {pindex} /\ sent' = sent \union {block} /\ UNCHANGED <<audio, count>>
    BY <1>6, <2>1 DEF MakeReady, Held, consumerVars, IInv, TypeOK
  <2>3. block \notin sent /\ block.id = count /\ ppc' = "idle"
    BY <1>6, <2>1, BlockIds DEF MakeReady, PublishReturns, BlocksAreOnce
  <2>4. count \in Nat
    BY <2>1, <2>3, BlockIds
  <2>5. QED
    BY <2>1, <2>2, <2>3, <2>4 DEF BlocksAreOnce
<1>7. CASE BeginScan \/ EndScan \/ Release
  <2>1. Held' \subseteq Held
    BY <1>7 DEF BeginScan, EndScan, Release, ScanReturns, ScanGoesTo, Held, slotVars, IInv,
       TypeOK, CallsAreSet
  <2>2. QED
    BY <1>7, <2>1, HeldOnce
    DEF BeginScan, EndScan, Release, BlocksAreOnce, producerVars, slotVars, history
<1>8. CASE VisitSlot
  <2>1. Held' \subseteq Held
    BY <1>8 DEF VisitSlot, Held, IInv, TypeOK
  <2>2. QED
    BY <1>8, <2>1, HeldOnce DEF VisitSlot, BlocksAreOnce, producerVars, history
<1>9. CASE ClaimReady
  <2>1. Held' \subseteq Held
    BY <1>9 DEF ClaimReady, ScanReturns, ScanGoesTo, Held, IInv, TypeOK, CallsAreSet
  <2>2. QED
    BY <1>9, <2>1, HeldOnce DEF ClaimReady, BlocksAreOnce, producerVars, history
<1>10. CASE CopyOut
  <2>1. Held' \subseteq Held
    BY <1>10 DEF CopyOut, ScanGoesTo, Held, slotVars
  <2>2. QED
    BY <1>10, <2>1, HeldOnce DEF CopyOut, BlocksAreOnce, producerVars, slotVars
<1>11. CASE Reset
  <2>1. Held' = {}
    BY <1>11 DEF Reset, Held
  <2>2. QED
    BY <1>11, <2>1, HeldOnce DEF Reset
<1>12. CASE UNCHANGED vars
  BY <1>12, HeldOnce
  DEF vars, Held, BlocksAreOnce, slotVars, producerVars, consumerVars, history
<1> QED
  BY <1>1, <1>2, <1>3, <1>4, <1>5, <1>6, <1>7, <1>8, <1>9, <1>10, <1>11, <1>12
  DEF Next, Producer, Consumer

InRing == {audio[i] : i \in {j \in Slots : state[j] = "ready"}}
            \union (IF cpc = "copy" THEN {audio[choice]} ELSE {})

LEMMA InRingIsHeld == InRing = {audio[i] : i \in Held} /\ InRing' = {audio'[i] : i \in Held'}
BY DEF InRing, Held

LEMMA StepIsChannelStep ==
  IInv /\ BlocksAreOnce /\ [Next]_vars => [Channel!ChNext]_(Channel!chVars)
<1> SUFFICES ASSUME IInv, BlocksAreOnce, [Next]_vars
             PROVE  Channel!ChNext \/ UNCHANGED <<sent, InRing, delivered>>
  BY DEF Channel!chVars, InRing
<1>1. ASSUME UNCHANGED <<sent, delivered>>, Held' \subseteq Held, \A i \in Held' : audio'[i] = audio[i]
      PROVE  Channel!ChNext
  <2>1. InRing' \subseteq InRing
    BY <1>1, InRingIsHeld
  <2>2. InRing' = InRing \ (InRing \ InRing')
    BY <2>1
  <2>3. QED
    BY <2>2, <1>1 DEF Channel!ChNext, Channel!Drop, InRing
<1>2. CASE BeginPublish \/ Refuse \/ Label \/ Announce
  <2>1. Held' \subseteq Held /\ UNCHANGED <<sent, delivered, audio>>
    BY <1>2 DEF BeginPublish, Refuse, Label, Announce, PublishReturns, Held, slotVars, consumerVars,
       history, IInv, TypeOK, SlotsAreExclusive, Writing
  <2>2. QED
    BY <1>1, <2>1
<1>3. CASE ClaimFree
  <2>1. Held' \subseteq Held
    BY <1>3 DEF ClaimFree, Held, consumerVars, IInv, TypeOK
  <2>2. QED
    BY <1>1, <1>3, <2>1 DEF ClaimFree, history
<1>4. CASE CopyIn
  <2>1. pindex \in Slots /\ state[pindex] = "writing"
    BY <1>4 DEF CopyIn, IInv, TypeOK, SlotsAreExclusive, Writing
  <2>2. Held' = Held /\ pindex \notin Held
    BY <1>4, <2>1 DEF CopyIn, Held, consumerVars, IInv, CallsAreSet, SlotsAreExclusive, Reading
  <2>3. QED
    BY <1>1, <1>4, <2>1, <2>2 DEF CopyIn, history
<1>5. CASE MakeReady
  <2>1. pindex \in Slots /\ block \in Blocks /\ audio[pindex] = block
    BY <1>5 DEF MakeReady, IInv, TypeOK, CallsAreSet, BlocksAreOnce
  <2>2. Held' = Held \union {pindex} /\ sent' = sent \union {block} /\ UNCHANGED <<audio, delivered>>
    BY <1>5, <2>1 DEF MakeReady, Held, consumerVars, IInv, TypeOK
  <2>3. block \notin sent
    BY <1>5, <2>1, BlockIds DEF MakeReady, BlocksAreOnce
  <2>4. InRing' = InRing \union {block}
    BY <2>1, <2>2, InRingIsHeld
  <2>5. Channel!PublishBlock(block)
    BY <2>2, <2>3, <2>4 DEF Channel!PublishBlock, InRing
  <2>6. QED
    BY <2>1, <2>5 DEF Channel!ChNext, Channel!PublishBlock
<1>6. CASE BeginScan \/ EndScan \/ Release
  <2>1. Held' \subseteq Held
    BY <1>6 DEF BeginScan, EndScan, Release, ScanReturns, ScanGoesTo, Held, slotVars, IInv,
       TypeOK, CallsAreSet
  <2>2. QED
    BY <1>1, <1>6, <2>1 DEF BeginScan, EndScan, Release, slotVars, history
<1>7. CASE VisitSlot
  <2>1. Held' \subseteq Held
    BY <1>7 DEF VisitSlot, Held, IInv, TypeOK
  <2>2. QED
    BY <1>1, <1>7, <2>1 DEF VisitSlot, history
<1>8. CASE ClaimReady
  <2>1. Held' \subseteq Held
    BY <1>8 DEF ClaimReady, ScanReturns, ScanGoesTo, Held, IInv, TypeOK, CallsAreSet
  <2>2. QED
    BY <1>1, <1>8, <2>1 DEF ClaimReady, history
<1>9. CASE CopyOut
  <2>1. choice \in Slots /\ state[choice] = "reading" /\ choice \in Held
    BY <1>9 DEF CopyOut, Held, IInv, CallsAreSet, SlotsAreExclusive, Reading
  <2>2. Held' = Held \ {choice} /\ UNCHANGED <<audio, sent>> /\ delivered' = delivered \union {audio[choice]}
    BY <1>9, <2>1 DEF CopyOut, ScanGoesTo, Held, slotVars
  <2>3. InRing' = InRing \ {audio[choice]} /\ audio[choice] \in InRing
    BY <2>1, <2>2, InRingIsHeld DEF BlocksAreOnce
  <2>4. audio[choice] \in Blocks
    BY <2>1 DEF BlocksAreOnce, IInv, TypeOK
  <2>5. Channel!Deliver(audio[choice])
    BY <2>2, <2>3 DEF Channel!Deliver, InRing
  <2>6. QED
    BY <2>4, <2>5 DEF Channel!ChNext, Channel!Deliver
<1>10. CASE Reset
  <2>1. Held' = {}
    BY <1>10 DEF Reset, Held
  <2>2. QED
    BY <1>1, <1>10, <2>1 DEF Reset
<1>11. CASE UNCHANGED vars
  BY <1>11 DEF vars, InRing, slotVars, consumerVars, history
<1> QED
  BY <1>2, <1>3, <1>4, <1>5, <1>6, <1>7, <1>8, <1>9, <1>10, <1>11
  DEF Next, Producer, Consumer

(* A block that was published is delivered whole and at most once, or      *)
(* dropped, for any number of slots and in whatever order the two sides    *)
(* touch them: the state of a slot is the only lock between them.          *)
THEOREM RingIsAChannel == Spec => ImplementsChannel
<1>1. Init => Channel!ChInit
  BY DEF Init, Channel!ChInit
<1>2. Spec => []BlocksAreOnce
  BY OnceInit, OnceStep, IInvHolds, PTL DEF Spec
<1> QED
  BY <1>1, <1>2, StepIsChannelStep, IInvHolds, PTL DEF Spec, ImplementsChannel, Channel!ChSpec

-----------------------------------------------------------------------------
(* Order, from the wrapping arithmetic up.                                 *)

LEMMA DistanceType == ASSUME NEW a \in Sequence, NEW b \in Sequence
                      PROVE  /\ Distance(a, b) \in 0..(Range2 - 1)
                             /\ Distance(a, b) = 0 <=> a = b
                             /\ a # b => Distance(a, b) + Distance(b, a) = Range2
BY HalfAssumption DEF Distance, Sequence, Range2

LEMMA DistanceNext == ASSUME NEW a \in Sequence, NEW b \in Sequence
                      PROVE  LET c == Advance(a, 1)
                             IN /\ c \in Sequence
                                /\ Distance(b, c) = IF Distance(b, a) = Range2 - 1 THEN 0
                                                    ELSE Distance(b, a) + 1
                                /\ Distance(c, b) = IF a = b THEN Range2 - 1
                                                    ELSE Distance(a, b) - 1
BY HalfAssumption DEF Distance, Advance, Sequence, Range2

LEMMA DistanceNear == ASSUME NEW a \in Sequence, NEW d \in 0..(Half - 1)
                      PROVE  /\ Advance(a, d) \in Sequence /\ Distance(a, Advance(a, d)) = d
                             /\ Retreat(a, d) \in Sequence /\ Distance(Retreat(a, d), a) = d
BY HalfAssumption DEF Distance, Advance, Retreat, Sequence, Range2

(* Blocks captured within half the range of the cycle are ordered by age.  *)
LEMMA OlderIsBefore ==
  ASSUME NEW c \in Sequence, NEW a \in Sequence, NEW b \in Sequence,
         Distance(a, c) \in 1..Half, Distance(b, c) \in 1..Half
  PROVE  IsBefore(a, b) <=> Distance(a, c) > Distance(b, c)
BY HalfAssumption DEF Distance, IsBefore, Sequence, Range2

(* try_client_read_valid_capture takes the block nearest to its minimum.   *)
LEMMA NearestIsOldest ==
  ASSUME NEW c \in Sequence, NEW a \in Sequence, NEW b \in Sequence, NEW m \in Sequence,
         Distance(a, c) \in 1..Half, Distance(b, c) \in 1..Half,
         ~IsBefore(a, m), ~IsBefore(b, m)
  PROVE  Distance(m, a) < Distance(m, b) <=> IsBefore(a, b)
BY HalfAssumption DEF Distance, IsBefore, Sequence, Range2

(* What a scan keeps in mind stays READY, and the scan does not free it as *)
(* it goes on.                                                             *)
ChoiceIsReady ==
  cpc \in {"scan", "claim"} /\ choice # None =>
    /\ state[choice] = "ready" /\ op # "discard"
    /\ op = "exact" => sequence[choice] = bound /\ (cpc = "scan" => choice < cscan)
    /\ op \in {"valid", "peek"} => ~IsBefore(sequence[choice], bound)

(* Playback: a block that was early enough is ahead of the cycle, or of    *)
(* the cycle that has just begun, and it stands in a slot that the scan    *)
(* has not passed.                                                         *)
Ahead(n) == Distance(cycle, n) <= Reach
Standing(n) == \E i \in Slots : state[i] = "ready" /\ sequence[i] = n

PlaybackOrder ==
  /\ ppc # "idle" => Ahead(block.seq) \/ Distance(block.seq, cycle) < Half
  /\ \A n \in early : (Ahead(n) /\ Standing(n)) \/ Advance(n, 1) = cycle
  /\ cpc # "idle" => Advance(bound, 1) = cycle /\ op = "exact"
  /\ cpc = "scan" /\ bound \in early =>
       choice # None \/ \E i \in Slots : i >= cscan /\ state[i] = "ready" /\ sequence[i] = bound

LEMMA OrderInit == Init => ChoiceIsReady /\ PlaybackOrder
BY DEF Init, ChoiceIsReady, PlaybackOrder

(* A visit leaves the slot, frees it, keeps it in mind or passes over it.  *)
LEMMA VisitEffect ==
  ASSUME IInv, VisitSlot
  PROVE  /\ Visited \in Slots /\ cscan \in Slots
         /\ \/ state[Visited] # "ready" /\ UNCHANGED <<state, choice>>
            \/ /\ state[Visited] = "ready" /\ Obsolete(Visited)
               /\ state' = [state EXCEPT ![Visited] = "free"] /\ UNCHANGED choice
            \/ /\ state[Visited] = "ready" /\ ~Obsolete(Visited)
               /\ choice' = (IF Better(Visited) THEN Visited ELSE choice) /\ UNCHANGED state
         /\ UNCHANGED <<sequence, cycle, count, block, ppc, cpc, op, cindex, bound, early>>
         /\ cpc = "scan" /\ cscan' = cscan + 1
<1>1. cscan \in Slots /\ cscan \in Nat /\ cindex \in Nat
  BY RingAssumption DEF IInv, VisitSlot, TypeOK, Slots
<1>2. Visited \in Slots
  BY <1>1, IndexType DEF Visited
<1>3. UNCHANGED <<sequence, cycle, count, block, ppc, cpc, op, cindex, bound, early>>
  BY DEF VisitSlot, producerVars, history
<1>4. CASE state[Visited] # "ready"
  BY <1>1, <1>2, <1>3, <1>4 DEF VisitSlot
<1>5. CASE state[Visited] = "ready" /\ Obsolete(Visited)
  BY <1>1, <1>2, <1>3, <1>5 DEF VisitSlot
<1>6. CASE state[Visited] = "ready" /\ ~Obsolete(Visited)
  BY <1>1, <1>2, <1>3, <1>6 DEF VisitSlot
<1>7. QED
  BY <1>4, <1>5, <1>6

LEMMA ScansAreNumbers ==
  TypeOK => (choice # None => choice \in Nat) /\ cscan \in Nat
<1> SUFFICES ASSUME TypeOK PROVE (choice # None => choice \in Nat) /\ cscan \in Nat
  OBVIOUS
<1>1. choice \in Slots \union {None} /\ cscan \in 0..SlotCount
  BY DEF TypeOK
<1>2. choice # None => choice \in Nat
  BY <1>1, SlotsAreNumbers, Zenon
<1>3. cscan \in Nat
  BY <1>1
<1> QED
  BY <1>2, <1>3

LEMMA StepChoiceIsReady ==
  IInv /\ ChoiceIsReady /\ [Next]_vars => ChoiceIsReady'
<1> SUFFICES ASSUME IInv, ChoiceIsReady, [Next]_vars PROVE ChoiceIsReady'
  OBVIOUS
<1> USE DEF IInv, TypeOK, ChoiceIsReady
<1>1. CASE BeginPublish \/ Refuse \/ Announce \/ CopyIn
  BY <1>1 DEF BeginPublish, Refuse, Announce, CopyIn, slotVars, consumerVars
<1>2. CASE ClaimFree
  BY <1>2 DEF ClaimFree, consumerVars
<1>3. CASE Label \/ MakeReady
  <2>1. state[pindex] = "writing"
    BY <1>3 DEF Label, MakeReady, SlotsAreExclusive, Writing
  <2>2. QED
    BY <1>3, <2>1 DEF Label, MakeReady, consumerVars
<1>4. CASE BeginScan \/ EndScan \/ CopyOut \/ Release \/ Reset
  BY <1>4 DEF BeginScan, EndScan, CopyOut, Release, Reset, ScanReturns, ScanGoesTo, slotVars
<1>5. CASE VisitSlot
  <2> DEFINE v == Visited
  <2>1. CASE UNCHANGED choice
    <3>1. choice # None /\ op = "exact" => choice \in Nat /\ cscan \in Nat
      <4>1. TypeOK
        OBVIOUS
      <4> QED
        BY <4>1, ScansAreNumbers, Zenon
    <3>2. ASSUME choice # None, Obsolete(v) PROVE choice # v
      <4>1. cpc = "scan" /\ op \in {"exact", "oldest", "valid", "peek", "discard"}
        BY <1>5, VisitEffect DEF CallsAreSet, Scans
      <4>2. CASE op = "exact"
        BY <3>1, <3>2, <4>1, <4>2 DEF Visited
      <4>3. CASE op \in {"valid", "peek"}
        BY <3>2, <4>1, <4>3 DEF Obsolete
      <4>4. CASE op = "oldest"
        BY <3>2, <4>4 DEF Obsolete
      <4>5. QED
        BY <3>2, <4>1, <4>2, <4>3, <4>4
    <3>3. QED
      BY <1>5, <2>1, <3>1, <3>2, VisitEffect
  <2>2. CASE choice' = v /\ state[v] = "ready" /\ UNCHANGED state /\ Better(v) /\ ~Obsolete(v)
    <3>1. op # "discard" /\ (op = "exact" => sequence[v] = bound /\ v = cscan /\ cscan \in Nat)
      BY <2>2 DEF Better, Visited
    <3>2. op \in {"valid", "peek"} => ~IsBefore(sequence[v], bound)
      BY <2>2 DEF Obsolete
    <3>3. QED
      BY <1>5, <2>2, <3>1, <3>2, VisitEffect
  <2>3. QED
    BY <1>5, <2>1, <2>2, VisitEffect
<1>6. CASE ClaimReady
  BY <1>6 DEF ClaimReady, ScanReturns, ScanGoesTo
<1>7. CASE UNCHANGED vars
  BY <1>7 DEF vars, slotVars, consumerVars
<1> QED
  BY <1>1, <1>2, <1>3, <1>4, <1>5, <1>6, <1>7 DEF Next, Producer, Consumer

(* Steps that leave every READY slot where it is.                          *)
LEMMA PlaybackStaysOrdered ==
  ASSUME IInv, PlaybackOrder, UNCHANGED <<cycle, cpc, op, bound, choice, cscan>>,
         early' \subseteq early,
         ppc' # "idle" => ppc # "idle" /\ UNCHANGED block,
         \A i \in Slots : state[i] = "ready" => state'[i] = "ready" /\ sequence'[i] = sequence[i]
  PROVE  PlaybackOrder'
BY DEF PlaybackOrder, Ahead, Standing

LEMMA PublishStaysOrdered ==
  ASSUME IInv, BlocksAreOnce, PlaybackOrder, ring = "playback", [Next]_vars,
         BeginPublish \/ MakeReady
  PROVE  PlaybackOrder'
<1> USE DEF IInv, TypeOK
<1>1. CASE BeginPublish
  <2>1. block'.seq \in Near /\ UNCHANGED <<cycle, cpc, op, bound, choice, cscan, early, state, sequence>>
    BY <1>1 DEF BeginPublish, slotVars, consumerVars, history
  <2>2. Distance(cycle, block'.seq) <= Reach \/ Distance(block'.seq, cycle) < Half
    <3>1. Reach < Half /\ Reach \in Nat /\ Half \in Nat
      BY RingAssumption, HalfAssumption
    <3>2. \A d \in 0..Reach : /\ Distance(cycle, Advance(cycle, d)) = d
                              /\ Distance(Retreat(cycle, d), cycle) = d
      BY <3>1, DistanceNear
    <3>3. PICK d \in 0..Reach : block'.seq \in {Advance(cycle, d), Retreat(cycle, d)}
      BY <2>1, <3>1 DEF Near
    <3>4. QED
      BY <3>1, <3>2, <3>3
  <2>3. QED
    BY <2>1, <2>2 DEF PlaybackOrder, Ahead, Standing
<1>2. CASE MakeReady
  <2>1. /\ pindex \in Slots /\ block.seq \in Sequence /\ sequence[pindex] = block.seq
        /\ ppc = "ready" /\ state[pindex] = "writing"
    BY <1>2, BlockIds
    DEF MakeReady, CallsAreSet, SlotsAreLabelled, BlocksAreOnce, SlotsAreExclusive, Writing
  <2>2. /\ UNCHANGED <<cycle, cpc, op, bound, choice, cscan, sequence>> /\ ppc' = "idle"
        /\ state' = [state EXCEPT ![pindex] = "ready"]
        /\ early' = IF IsBefore(block.seq, cycle) THEN early ELSE early \union {block.seq}
    BY <1>2 DEF MakeReady, PublishReturns, consumerVars
  <2>3. ~IsBefore(block.seq, cycle) => Ahead(block.seq)
    <3>1. Ahead(block.seq) \/ Distance(block.seq, cycle) < Half
      BY <2>1 DEF PlaybackOrder
    <3>2. Distance(block.seq, cycle) = 0 => Distance(cycle, block.seq) = 0
      BY <2>1, DistanceType
    <3>3. QED
      BY <2>1, <3>1, <3>2, DistanceType, RingAssumption, HalfAssumption
      DEF Ahead, IsBefore, Range2
  <2>4. cpc # "idle" => ~Ahead(bound)
    <3>1. cpc # "idle" => Distance(cycle, bound) = Range2 - 1
      BY DistanceNext DEF PlaybackOrder
    <3>2. QED
      BY <3>1, RingAssumption, HalfAssumption DEF Ahead, Range2
  <2>5. \A n \in early' : (Ahead(n) /\ Standing(n))' \/ Advance(n, 1) = cycle'
    BY <2>1, <2>2, <2>3 DEF PlaybackOrder, Ahead, Standing
  <2>6. cpc # "idle" => (bound \in early' => bound \in early)
    BY <2>2, <2>3, <2>4
  <2>7. \A i \in Slots : state[i] = "ready" => state'[i] = "ready"
    BY <2>1, <2>2
  <2>8. QED
    BY <2>2, <2>5, <2>6, <2>7 DEF PlaybackOrder
<1>3. QED
  BY <1>1, <1>2

LEMMA CycleStaysOrdered ==
  ASSUME IInv, PlaybackOrder, ring = "playback", BeginScan
  PROVE  PlaybackOrder'
<1> USE DEF IInv, TypeOK
<1>1. /\ cpc' = "scan" /\ op' = "exact" /\ bound' = cycle /\ cycle' = Advance(cycle, 1)
      /\ cscan' = 0 /\ early' = {n \in early : ~IsBefore(n, cycle)}
      /\ UNCHANGED <<state, sequence, ppc, block>>
  BY DEF BeginScan, Scans, slotVars, producerVars
<1>2. cycle \in Sequence /\ cycle' \in Sequence
  BY <1>1, DistanceNext
<1>3. \A n \in early' : Ahead(n) /\ Standing(n) /\ n \in Sequence
  <2> SUFFICES ASSUME NEW n \in early' PROVE Ahead(n) /\ Standing(n) /\ n \in Sequence
    OBVIOUS
  <2>1. n \in Sequence /\ n \in early /\ Distance(cycle, n) <= Half
    BY <1>1, <1>2, DistanceType, HalfAssumption DEF IsBefore, Range2
  <2>2. Advance(n, 1) = cycle => Distance(cycle, n) = Range2 - 1
    BY <2>1, DistanceNext
  <2>3. QED
    BY <2>1, <2>2, HalfAssumption DEF PlaybackOrder, Range2
<1>4. \A n \in early' : (Ahead(n) /\ Standing(n))' \/ Advance(n, 1) = cycle'
  <2> SUFFICES ASSUME NEW n \in early', n # cycle PROVE Distance(cycle', n) <= Reach
    BY <1>1, <1>3 DEF Ahead, Standing
  <2>1. Distance(cycle', n) = Distance(cycle, n) - 1
    BY <1>1, <1>2, <1>3, DistanceNext
  <2>2. QED
    BY <1>2, <1>3, <2>1, DistanceType, RingAssumption DEF Ahead
<1>5. ppc # "idle" => Distance(cycle', block.seq) <= Reach \/ Distance(block.seq, cycle') < Half
  <2> SUFFICES ASSUME ppc # "idle"
               PROVE  Distance(cycle', block.seq) <= Reach \/ Distance(block.seq, cycle') < Half
    OBVIOUS
  <2>1. block.seq \in Sequence /\ block # None
    BY BlockIds, RingAssumption DEF CallsAreSet
  <2>2. CASE Ahead(block.seq) /\ block.seq # cycle
    BY <1>1, <1>2, <2>1, <2>2, DistanceNext, DistanceType, RingAssumption DEF Ahead
  <2>3. CASE block.seq = cycle
    <3>1. Distance(cycle, cycle) = 0
      BY <1>2, DistanceType
    <3>2. QED
      BY <1>1, <1>2, <2>3, <3>1, DistanceNext, HalfAssumption DEF Range2
  <2>4. CASE Distance(block.seq, cycle) < Half /\ block.seq # cycle
    <3>1. \E d \in 0..(Half - 2) : cycle = Advance(block.seq, d) \/ block.seq = Advance(cycle, d)
      BY <2>1 DEF BeginScan, InReach
    <3>2. PICK d \in 0..(Half - 2) : Distance(block.seq, cycle) = d \/ Distance(cycle, block.seq) = d
      BY <1>2, <2>1, <3>1, DistanceNear, HalfAssumption
    <3>3. Distance(block.seq, cycle) <= Half - 2
      BY <1>2, <2>1, <2>4, <3>2, DistanceType, HalfAssumption DEF Range2
    <3>4. QED
      BY <1>1, <1>2, <2>1, <3>3, DistanceNext, DistanceType, HalfAssumption DEF Range2
  <2>5. QED
    BY <2>2, <2>3, <2>4 DEF PlaybackOrder
<1>6. bound' \in early' =>
        \E i \in Slots : i >= cscan' /\ state'[i] = "ready" /\ sequence'[i] = bound'
  <2>1. \A i \in Slots : i >= 0
    BY DEF Slots
  <2>2. QED
    BY <1>1, <1>3, <2>1 DEF Standing
<1>7. QED
  BY <1>1, <1>4, <1>5, <1>6 DEF PlaybackOrder, Ahead

LEMMA StepPlaybackOrder ==
  ASSUME IInv, BlocksAreOnce, ChoiceIsReady, PlaybackOrder, ring = "playback", [Next]_vars
  PROVE  PlaybackOrder'
<1> USE DEF IInv, TypeOK
<1>1. CASE BeginPublish \/ MakeReady
  BY <1>1, PublishStaysOrdered
<1>2. CASE ClaimFree
  BY <1>2, PlaybackStaysOrdered DEF ClaimFree, consumerVars, history
<1>3. CASE Refuse \/ CopyIn \/ Announce
  BY <1>3, PlaybackStaysOrdered
  DEF Refuse, CopyIn, Announce, PublishReturns, slotVars, consumerVars, history
<1>4. CASE Label
  <2>1. state[pindex] = "writing"
    BY <1>4 DEF Label, SlotsAreExclusive, Writing
  <2>2. \A i \in Slots : state[i] = "ready" => state'[i] = "ready" /\ sequence'[i] = sequence[i]
    BY <1>4, <2>1 DEF Label
  <2>3. QED
    BY <1>4, <2>2, PlaybackStaysOrdered DEF Label, PublishReturns, consumerVars, history
<1>5. CASE BeginScan
  BY <1>5, CycleStaysOrdered
<1>6. CASE VisitSlot
  <2>1. op = "exact" /\ Advance(bound, 1) = cycle /\ Visited = cscan /\ cscan \in Nat
    BY <1>6, VisitEffect, SlotsAreNumbers DEF PlaybackOrder, Visited
  <2>2. ASSUME NEW n \in early, Ahead(n), Standing(n)
        PROVE  \E i \in Slots : state'[i] = "ready" /\ sequence[i] = n
    <3>1. PICK i \in Slots : state[i] = "ready" /\ sequence[i] = n
      BY <2>2 DEF Standing
    <3>2. n \in Sequence /\ bound \in Sequence
      OBVIOUS
    <3>3. Distance(cycle, bound) = Range2 - 1 /\ Reach < Range2 - 1
      BY <2>1, <3>2, DistanceNext, RingAssumption, HalfAssumption DEF Range2
    <3>4. n # bound
      BY <2>2, <3>3, RingAssumption, HalfAssumption DEF Ahead, Range2
    <3>5. Distance(bound, n) = Distance(cycle, n) + 1
      <4>1. Distance(cycle, n) = IF bound = n THEN Range2 - 1 ELSE Distance(bound, n) - 1
        BY <2>1, <3>2, DistanceNext
      <4>2. QED
        BY <3>2, <3>4, <4>1, DistanceType
    <3>6. IsAfter(n, bound)
      BY <2>2, <3>2, <3>5, DistanceType, RingAssumption, HalfAssumption DEF IsAfter, Ahead, Range2
    <3>7. ~Obsolete(i)
      BY <2>1, <3>1, <3>4, <3>6 DEF Obsolete
    <3>8. state'[i] = "ready"
      BY <1>6, <3>1, <3>7, VisitEffect
    <3>9. QED
      BY <3>1, <3>8
  <2>3. ASSUME bound \in early, choice' = None
        PROVE  \E i \in Slots : i >= cscan' /\ state'[i] = "ready" /\ sequence[i] = bound
    <3>1. choice = None
      BY <1>6, <2>3, VisitEffect, SlotsAreNumbers
    <3>2. PICK i \in Slots : i >= cscan /\ state[i] = "ready" /\ sequence[i] = bound
      BY <1>6, <2>3, <3>1, VisitEffect DEF PlaybackOrder
    <3>3. i # cscan
      <4>1. SUFFICES ASSUME i = Visited PROVE FALSE
        BY <2>1
      <4>2. ~Obsolete(i) /\ Better(i)
        BY <2>1, <3>1, <3>2 DEF Obsolete, Better
      <4>3. choice' = i
        BY <1>6, <3>2, <4>1, <4>2, VisitEffect
      <4>4. QED
        BY <2>3, <4>3, SlotsAreNumbers
    <3>4. i \in Nat /\ cscan' = cscan + 1
      BY <1>6, VisitEffect, SlotsAreNumbers
    <3>5. state'[i] = "ready"
      BY <1>6, <2>1, <3>2, <3>3, VisitEffect
    <3>6. QED
      BY <2>1, <3>2, <3>3, <3>4, <3>5
  <2>4. /\ UNCHANGED <<sequence, cycle, block, ppc, cpc, op, bound, early>>
        /\ cpc = "scan"
    BY <1>6, VisitEffect
  <2>5. \A n \in early : (Ahead(n) /\ Standing(n))' \/ Advance(n, 1) = cycle'
    BY <2>2, <2>4 DEF PlaybackOrder, Ahead, Standing
  <2>6. QED
    BY <2>3, <2>4, <2>5 DEF PlaybackOrder, Ahead
<1>7. CASE EndScan \/ CopyOut \/ Release
  <2>1. \A i \in Slots : state[i] = "ready" => state'[i] = "ready" /\ sequence'[i] = sequence[i]
    BY <1>7 DEF EndScan, CopyOut, Release, slotVars, CallsAreSet, SlotsAreExclusive, Reading
  <2>2. /\ UNCHANGED <<cycle, block, ppc, early, sequence>>
        /\ cpc' = "idle" \/ (UNCHANGED <<op, bound>> /\ cpc # "idle")
        /\ cpc' # "scan"
    BY <1>7 DEF EndScan, CopyOut, Release, ScanReturns, ScanGoesTo, slotVars, producerVars, history
  <2>3. QED
    BY <2>1, <2>2 DEF PlaybackOrder, Ahead, Standing
<1>8. CASE ClaimReady
  <2>1. /\ UNCHANGED <<cycle, block, ppc, early, sequence>>
        /\ cpc' = "idle" \/ (UNCHANGED <<op, bound>> /\ cpc # "idle")
        /\ cpc' # "scan" /\ cpc = "claim"
        /\ choice \in Slots /\ op = "exact" /\ Advance(bound, 1) = cycle
    BY <1>8 DEF ClaimReady, ScanReturns, ScanGoesTo, producerVars, history, CallsAreSet, PlaybackOrder
  <2>2. sequence[choice] = bound /\ ~Ahead(bound)
    <3>1. Distance(cycle, bound) = Range2 - 1
      BY <2>1, DistanceNext
    <3>2. QED
      BY <2>1, <3>1, SlotsAreNumbers, RingAssumption, HalfAssumption
      DEF ChoiceIsReady, Ahead, Range2
  <2>3. \A i \in Slots : i # choice => state'[i] = state[i]
    BY <1>8 DEF ClaimReady
  <2>4. \A n \in early : Ahead(n) /\ Standing(n) => Standing(n)'
    BY <2>1, <2>2, <2>3 DEF Standing
  <2>5. QED
    BY <2>1, <2>4 DEF PlaybackOrder, Ahead
<1>9. CASE Reset
  BY <1>9 DEF Reset, PlaybackOrder
<1>10. CASE UNCHANGED vars
  BY <1>10, PlaybackStaysOrdered DEF vars, slotVars, producerVars, consumerVars, history
<1>11. QED
  BY <1>1, <1>2, <1>3, <1>4, <1>5, <1>6, <1>7, <1>8, <1>9, <1>10 DEF Next, Producer, Consumer

(* Capture: blocks are ordered by age, and a scan has in mind the oldest   *)
(* of those it has passed.                                                 *)
Age(n) == Distance(n, cycle)
Passed(n) ==
  \/ choice # None /\ ~IsBefore(n, sequence[choice])
  \/ op = "valid" /\ IsBefore(n, bound)
Unvisited(n) ==
  \E k \in cscan..(SlotCount - 1) :
    state[Index(cindex, k)] = "ready" /\ sequence[Index(cindex, k)] = n

CaptureOrder ==
  /\ ppc # "idle" => Age(block.seq) = 1 /\ count >= 1
  /\ \A i \in Slots : state[i] \in {"ready", "reading"} => Age(sequence[i]) \in 1..count
  /\ \A n \in early : Age(n) \in 1..count
  /\ cpc \in {"scan", "claim", "copy"} /\ op \in {"oldest", "valid"} =>
       \A n \in early : Passed(n) \/ Unvisited(n)
  /\ cpc \in {"claim", "copy"} => cscan = SlotCount /\ op \in {"oldest", "valid"}

LEMMA CaptureInit == Init => CaptureOrder
BY DEF Init, CaptureOrder

LEMMA CountInHalf == IInv /\ ring = "capture" => count \in 0..Half
BY RingAssumption, HalfAssumption DEF IInv, TypeOK

(* Steps that leave every READY slot where it is.                          *)
LEMMA CaptureStaysOrdered ==
  ASSUME IInv, CaptureOrder,
         UNCHANGED <<cycle, count, sequence, early, cpc, op, bound, choice, cscan, cindex>>,
         ppc' # "idle" => ppc # "idle" /\ UNCHANGED block,
         \A i \in Slots : state'[i] \in {"ready", "reading"} => state[i] \in {"ready", "reading"},
         \A i \in Slots : state[i] = "ready" => state'[i] = "ready"
  PROVE  CaptureOrder'
<1>1. \A k \in cscan..(SlotCount - 1) : Index(cindex, k) \in Slots
  BY IndexType, SlotsAreNumbers DEF IInv, TypeOK
<1>2. QED
  BY <1>1 DEF CaptureOrder, Age, Passed, Unvisited

LEMMA CaptureKeepsOrder ==
  ASSUME IInv, BlocksAreOnce, CaptureOrder, ring = "capture", BeginPublish
  PROVE  CaptureOrder'
<1> USE DEF IInv, TypeOK
<1>1. /\ cycle' = Advance(cycle, 1) /\ count' = count + 1 /\ block'.seq = cycle
      /\ UNCHANGED <<state, sequence, early, cpc, op, bound, choice, cscan, cindex>>
  BY DEF BeginPublish, slotVars, consumerVars, history
<1>2. cycle \in Sequence /\ cycle' \in Sequence
  BY <1>1, DistanceNext
<1>3. \A n \in Sequence : Age(n) \in 1..count => Age(n)' \in 1..count'
  <2> SUFFICES ASSUME NEW n \in Sequence, Age(n) \in 1..count
               PROVE  Distance(n, cycle') \in 1..count'
    BY DEF Age
  <2>1. count \in 0..Half
    BY CountInHalf
  <2>2. Distance(n, cycle') = Distance(n, cycle) + 1
    BY <1>1, <1>2, <2>1, DistanceNext, HalfAssumption DEF Age, Range2
  <2>3. QED
    BY <1>1, <2>1, <2>2, HalfAssumption DEF Age
<1>4. Age(block.seq)' = 1 /\ count' >= 1
  <2>1. Distance(cycle, cycle) = 0
    BY <1>2, DistanceType
  <2>2. Distance(cycle, cycle') = 1
    BY <1>1, <1>2, <2>1, DistanceNext, HalfAssumption DEF Range2
  <2>3. QED
    BY <1>1, <2>2, CountInHalf, HalfAssumption DEF Age
<1>5. QED
  BY <1>1, <1>3, <1>4 DEF CaptureOrder, Passed, Unvisited, Age

LEMMA ReadyKeepsOrder ==
  ASSUME IInv, BlocksAreOnce, CaptureOrder, ring = "capture", MakeReady
  PROVE  CaptureOrder'
<1> USE DEF IInv, TypeOK
<1>1. /\ pindex \in Slots /\ sequence[pindex] = block.seq /\ ppc = "ready"
      /\ state[pindex] = "writing"
  BY DEF MakeReady, CallsAreSet, SlotsAreLabelled, BlocksAreOnce, SlotsAreExclusive, Writing
<1>2. /\ UNCHANGED <<cycle, count, sequence, early, cpc, op, bound, choice, cscan, cindex>>
      /\ ppc' = "idle" /\ state' = [state EXCEPT ![pindex] = "ready"]
  BY DEF MakeReady, PublishReturns, consumerVars
<1>3. Age(sequence[pindex]) \in 1..count
  BY <1>1, CountInHalf, HalfAssumption DEF CaptureOrder
<1>4. \A k \in cscan..(SlotCount - 1) : Index(cindex, k) \in Slots
  BY IndexType, SlotsAreNumbers
<1>5. QED
  BY <1>1, <1>2, <1>3, <1>4 DEF CaptureOrder, Age, Passed, Unvisited

(* A scan that starts at any slot visits them all.                         *)
LEMMA IndexReaches ==
  ASSUME NEW i \in Slots, NEW j \in Slots
  PROVE  \E k \in 0..(SlotCount - 1) : Index(i, k) = j
<1>1. CASE j >= i
  <2>1. (i + (j - i)) % SlotCount = j
    BY RingAssumption DEF Slots
  <2>2. Index(i, j - i) = j
    BY <2>1 DEF Index
  <2>3. j - i \in 0..(SlotCount - 1)
    BY <1>1, RingAssumption DEF Slots
  <2>4. QED
    BY <2>2, <2>3
<1>2. CASE j < i
  <2>1. (i + (j - i + SlotCount)) % SlotCount = j
    BY RingAssumption DEF Slots
  <2>2. Index(i, j - i + SlotCount) = j
    BY <2>1 DEF Index
  <2>3. j - i + SlotCount \in 0..(SlotCount - 1)
    BY <1>2, RingAssumption DEF Slots
  <2>4. QED
    BY <2>2, <2>3
<1>3. QED
  BY <1>1, <1>2, SlotsAreNumbers

LEMMA ScanKeepsOrder ==
  ASSUME IInv, CaptureOrder, ring = "capture", BeginScan
  PROVE  CaptureOrder'
<1> USE DEF IInv, TypeOK
<1>1. /\ cpc' = "scan" /\ cscan' = 0
      /\ early' = {sequence[i] : i \in {j \in Slots : state[j] = "ready"}}
      /\ UNCHANGED <<state, sequence, ppc, block, cycle, count, cindex>>
  BY DEF BeginScan, slotVars, producerVars
<1>2. \A n \in early' : Unvisited(n)'
  BY <1>1, IndexReaches DEF Unvisited
<1>3. QED
  BY <1>1, <1>2 DEF CaptureOrder, Age

(* The scan passes the slot it visits, and forgets none it passed.         *)
LEMMA VisitKeepsOrder ==
  ASSUME IInv, ChoiceIsReady, CaptureOrder, ring = "capture", VisitSlot
  PROVE  CaptureOrder'
<1> USE DEF IInv, TypeOK
<1> DEFINE v == Visited
<1>1. /\ UNCHANGED <<sequence, cycle, count, block, ppc, cpc, op, cindex, bound, early>>
      /\ cpc = "scan" /\ cscan' = cscan + 1 /\ v \in Slots /\ cscan \in Slots /\ cscan \in Nat
  BY VisitEffect, SlotsAreNumbers
<1>2. \A i \in Slots : state'[i] \in {"ready", "reading"} => state[i] \in {"ready", "reading"}
  BY <1>1, VisitEffect
<1>3. CASE op \notin {"oldest", "valid"}
  BY <1>1, <1>2, <1>3 DEF CaptureOrder, Age
<1>4. CASE op \in {"oldest", "valid"}
  <2> SUFFICES ASSUME NEW n \in early PROVE (Passed(n) \/ Unvisited(n))'
    BY <1>1, <1>2 DEF CaptureOrder, Age
  <2>1. v = Index(cindex, cscan)
    BY <1>4 DEF Visited
  <2>2. n \in Sequence /\ Age(n) \in 1..Half
        /\ \A i \in Slots : state[i] = "ready" =>
             sequence[i] \in Sequence /\ Age(sequence[i]) \in 1..Half
    BY CountInHalf, HalfAssumption DEF CaptureOrder
  <2>3. choice # None => choice \in Slots /\ state[choice] = "ready"
    BY <1>1 DEF ChoiceIsReady
  <2>4. choice # None /\ state[v] = "ready" /\ ~Obsolete(v) =>
          (Better(v) <=> IsBefore(sequence[v], sequence[choice]))
    <3>1. SUFFICES ASSUME choice # None, state[v] = "ready", ~Obsolete(v)
                   PROVE  Better(v) <=> IsBefore(sequence[v], sequence[choice])
      OBVIOUS
    <3>2. CASE op = "oldest"
      BY <3>1, <3>2 DEF Better
    <3>3. CASE op = "valid"
      <4>1. ~IsBefore(sequence[v], bound) /\ ~IsBefore(sequence[choice], bound)
        BY <1>1, <3>1, <3>3 DEF Obsolete, ChoiceIsReady
      <4>2. Distance(bound, sequence[v]) < Distance(bound, sequence[choice])
              <=> IsBefore(sequence[v], sequence[choice])
        BY <1>1, <2>2, <2>3, <3>1, <4>1, NearestIsOldest DEF Age
      <4>3. QED
        BY <3>1, <3>3, <4>2 DEF Better
    <3>4. QED
      BY <1>4, <3>2, <3>3
  <2>5. CASE Unvisited(n) /\ ~(state[v] = "ready" /\ sequence[v] = n)
    <3>1. PICK k \in cscan..(SlotCount - 1) :
            state[Index(cindex, k)] = "ready" /\ sequence[Index(cindex, k)] = n
      BY <2>5 DEF Unvisited
    <3>2. k # cscan /\ Index(cindex, k) # v /\ Index(cindex, k) \in Slots
      BY <1>1, <2>1, <2>5, <3>1, IndexType, SlotsAreNumbers
    <3>3. state'[Index(cindex, k)] = "ready"
      BY <3>1, <3>2, VisitEffect
    <3>4. QED
      BY <1>1, <3>1, <3>2, <3>3 DEF Unvisited
  <2>6. CASE state[v] = "ready" /\ sequence[v] = n
    <3>1. CASE Obsolete(v)
      BY <1>1, <1>4, <2>6, <3>1 DEF Obsolete, Passed
    <3>2. CASE ~Obsolete(v) /\ choice' = v
      <4>1. ~IsBefore(n, n)
        BY <2>2, DistanceType, HalfAssumption DEF IsBefore
      <4>2. QED
        BY <1>1, <2>6, <3>2, <4>1, SlotsAreNumbers DEF Passed
    <3>3. CASE ~Obsolete(v) /\ choice' # v
      <4>1. ~Better(v) /\ choice' = choice /\ choice # None
        BY <1>4, <2>6, <3>3, VisitEffect DEF Better
      <4>2. QED
        BY <1>1, <2>4, <2>6, <3>3, <4>1 DEF Passed
    <3>4. QED
      BY <3>1, <3>2, <3>3
  <2>7. CASE Passed(n)
    <3>1. CASE op = "valid" /\ IsBefore(n, bound)
      BY <1>1, <3>1 DEF Passed
    <3>2. CASE choice # None /\ ~IsBefore(n, sequence[choice]) /\ choice' = choice
      BY <1>1, <3>2 DEF Passed
    <3>3. CASE choice # None /\ ~IsBefore(n, sequence[choice]) /\ choice' # choice
      <4>1. choice' = v /\ state[v] = "ready" /\ Better(v) /\ ~Obsolete(v)
        BY <3>3, VisitEffect
      <4>2. IsBefore(sequence[v], sequence[choice])
        BY <2>4, <3>3, <4>1
      <4>3. ~IsBefore(n, sequence[v])
        <5>1. Age(sequence[v]) > Age(sequence[choice])
          BY <1>1, <2>2, <2>3, <3>3, <4>1, <4>2, OlderIsBefore DEF Age
        <5>2. ~(Age(n) > Age(sequence[choice]))
          BY <2>2, <2>3, <3>3, OlderIsBefore DEF Age
        <5>3. QED
          BY <1>1, <2>2, <2>3, <3>3, <4>1, <5>1, <5>2, OlderIsBefore, HalfAssumption DEF Age
      <4>4. QED
        BY <1>1, <4>1, <4>3, SlotsAreNumbers DEF Passed
    <3>4. QED
      BY <2>7, <3>1, <3>2, <3>3 DEF Passed
  <2>8. QED
    BY <1>1, <1>4, <2>5, <2>6, <2>7 DEF CaptureOrder
<1>5. QED
  BY <1>3, <1>4

LEMMA StepCaptureOrder ==
  ASSUME IInv, BlocksAreOnce, ChoiceIsReady, CaptureOrder, ring = "capture", [Next]_vars
  PROVE  CaptureOrder'
<1> USE DEF IInv, TypeOK
<1>1. CASE BeginPublish
  BY <1>1, CaptureKeepsOrder
<1>2. CASE MakeReady
  BY <1>2, ReadyKeepsOrder
<1>3. CASE ClaimFree
  BY <1>3, CaptureStaysOrdered DEF ClaimFree, consumerVars, history
<1>4. CASE Refuse \/ CopyIn \/ Announce
  BY <1>4, CaptureStaysOrdered
  DEF Refuse, CopyIn, Announce, PublishReturns, slotVars, consumerVars, history
<1>5. CASE Label
  <2>1. state[pindex] = "writing" /\ pindex \in Slots
    BY <1>5 DEF Label, SlotsAreExclusive, Writing
  <2>2. \A k \in cscan..(SlotCount - 1) : Index(cindex, k) \in Slots
    BY IndexType, SlotsAreNumbers
  <2>3. UNCHANGED <<cycle, count, early, cpc, op, bound, choice, cscan, cindex, state, block>>
        /\ ppc = "label" /\ sequence' = [sequence EXCEPT ![pindex] = block.seq]
    BY <1>5 DEF Label, consumerVars, history
  <2>4. choice # None /\ cpc \in {"scan", "claim", "copy"} => choice \in Slots /\ choice # pindex
    BY <2>1 DEF ChoiceIsReady, SlotsAreExclusive, Reading
  <2>5. \A n \in early : cpc \in {"scan", "claim", "copy"} /\ (Passed(n) \/ Unvisited(n))
          => (Passed(n) \/ Unvisited(n))'
    BY <2>1, <2>2, <2>3, <2>4 DEF Passed, Unvisited
  <2>6. \A i \in Slots : state[i] \in {"ready", "reading"} => Age(sequence[i])' \in 1..count'
    BY <2>1, <2>3 DEF CaptureOrder, Age
  <2>7. QED
    BY <2>3, <2>5, <2>6 DEF CaptureOrder, Age
<1>6. CASE BeginScan
  BY <1>6, ScanKeepsOrder
<1>7. CASE VisitSlot
  BY <1>7, VisitKeepsOrder
<1>8. CASE EndScan
  <2>1. cpc = "scan" /\ cscan = SlotCount
        /\ UNCHANGED <<state, sequence, ppc, block, cycle, count, early, cindex>>
    BY <1>8 DEF EndScan, slotVars, producerVars, history
  <2>2. CASE ScanReturns
    BY <2>1, <2>2 DEF ScanReturns, CaptureOrder, Age
  <2>3. CASE ScanGoesTo("claim") /\ choice # None /\ op # "peek"
    <3>1. op \in {"oldest", "valid"}
      BY <2>1, <2>3 DEF CallsAreSet, Scans, ChoiceIsReady
    <3>2. QED
      BY <2>1, <2>3, <3>1 DEF ScanGoesTo, CaptureOrder, Age, Passed, Unvisited
  <2>4. QED
    BY <1>8, <2>2, <2>3 DEF EndScan
<1>9. CASE ClaimReady
  <2>1. cpc = "claim" /\ choice \in Slots /\ state[choice] = "ready" /\ op \in {"oldest", "valid"}
        /\ cscan = SlotCount
    BY <1>9, SlotsAreNumbers DEF ClaimReady, CallsAreSet, ChoiceIsReady, CaptureOrder
  <2>2. /\ UNCHANGED <<sequence, ppc, block, cycle, count, early, cindex>>
        /\ ScanGoesTo("copy") /\ state' = [state EXCEPT ![choice] = "reading"]
    BY <1>9, <2>1 DEF ClaimReady, producerVars, history
  <2>3. \A n \in early : ~Unvisited(n)
    BY <2>1, RingAssumption DEF Unvisited
  <2>4. QED
    BY <2>1, <2>2, <2>3 DEF ScanGoesTo, CaptureOrder, Age, Passed
<1>10. CASE CopyOut \/ Release
  <2>1. \A i \in Slots : state'[i] \in {"ready", "reading"} => state[i] \in {"ready", "reading"}
    BY <1>10 DEF CopyOut, Release, slotVars
  <2>2. cpc' \in {"release", "idle"} /\ UNCHANGED <<sequence, ppc, block, cycle, count, early>>
    BY <1>10 DEF CopyOut, Release, ScanGoesTo, ScanReturns, slotVars, producerVars, history
  <2>3. QED
    BY <2>1, <2>2 DEF CaptureOrder, Age
<1>11. CASE Reset
  BY <1>11 DEF Reset, CaptureOrder
<1>12. CASE UNCHANGED vars
  BY <1>12, CaptureStaysOrdered DEF vars, slotVars, producerVars, consumerVars, history
<1>13. QED
  BY <1>1, <1>2, <1>3, <1>4, <1>5, <1>6, <1>7, <1>8, <1>9, <1>10, <1>11, <1>12
  DEF Next, Producer, Consumer

OrderInv == ChoiceIsReady /\ (ring = "playback" => PlaybackOrder) /\ (ring = "capture" => CaptureOrder)

(* A block that was submitted ahead of its cycle waits for it, and a client*)
(* reads the oldest block that stood when it began to look: no scan frees  *)
(* or passes over a block it should keep, wherever it starts and whatever  *)
(* is published meanwhile.                                                 *)
THEOREM RingOrderIsKept == Spec => []OrderIsKept
<1>1. Init => OrderInv /\ BlocksAreOnce
  BY OrderInit, CaptureInit, OnceInit DEF OrderInv
<1>2. IInv /\ BlocksAreOnce /\ OrderInv /\ [Next]_vars => OrderInv'
  <2>1. [Next]_vars => UNCHANGED ring
    BY DEF Next, vars
  <2>2. QED
    BY <2>1, StepChoiceIsReady, StepPlaybackOrder, StepCaptureOrder DEF OrderInv
<1>3. IInv /\ OrderInv => OrderIsKept
  <2> SUFFICES ASSUME IInv, OrderInv PROVE OrderIsKept
    OBVIOUS
  <2>1. EarlyBlocksWait
    BY SlotsAreNumbers, RingAssumption DEF EarlyBlocksWait, OrderInv, PlaybackOrder, Slots
  <2>2. OldestStandingFirst
    BY SlotsAreNumbers, RingAssumption
    DEF OldestStandingFirst, OrderInv, CaptureOrder, Passed, Unvisited, IInv, CallsAreSet
  <2>3. QED
    BY <2>1, <2>2 DEF OrderIsKept
<1>4. Spec => [](IInv /\ BlocksAreOnce)
  BY OnceInit, OnceStep, IInvHolds, PTL DEF Spec
<1> QED
  BY <1>1, <1>2, <1>3, <1>4, PTL DEF Spec
=============================================================================
