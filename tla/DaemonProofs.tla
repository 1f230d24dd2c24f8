---------------------------- MODULE DaemonProofs ----------------------------
(***************************************************************************)
(* The daemon and the programs around it.                                  *)
(*                                                                         *)
(* First the endpoint slot, for every number of readers and sessions:      *)
(* EndpointSlot is memory safe and implements GracePeriod.  Then, with an  *)
(* argument of each before it, the daemons of one card, the worker that    *)
(* reconnects PipeWire, and the runs of sidealsa-admin apply: MCControl,   *)
(* for every number of daemons and of runs and every bound.                *)
(*                                                                         *)
(* The argument for the slot.  Session ownership leaves one writer at a    *)
(* time, so at most one parity is being drained, and it is not the         *)
(* epoch's.  A reader that passed the recheck is counted in the epoch's    *)
(* parity or in the one being drained.  Hence, when the retired counter    *)
(* reads zero, every guard left was taken after the swap and sees the      *)
(* current endpoint.                                                       *)
(***************************************************************************)
EXTENDS EndpointSlot, MCControl, FiniteSetTheorems, TLAPS

CountedAt(p) == {r \in Readers : rpc[r] \in Counted /\ Parity(rEpoch[r]) = p}

ActivityCounts == \A p \in 0..1 : activity[p] = Cardinality(CountedAt(p))

OwnerSerialises == \A s \in Sessions : pc[s] # "closed" => owner = s

BoxOwned ==
  /\ NoLeak
  /\ \A s \in Sessions :
       /\ box[s] # None =>
            pc[s] \in {"created", "replaceLocked", "replaceFlip", "replaceSpin", "freeing"}
       /\ pc[s] \in {"created", "replaceLocked", "replaceFlip", "replaceSpin", "freeing"}
            => box[s] # None
       /\ box[s] # current

EpochSplit ==
  /\ \A s \in Sessions : pc[s] \in Spinning => Parity(target[s]) # Parity(epoch)
  /\ \A r \in Readers : rpc[r] \in Guarded =>
       \/ Parity(rEpoch[r]) = Parity(epoch)
       \/ \E s \in Sessions : pc[s] \in Spinning

SeenIsPublished ==
  \A r \in Readers :
    /\ seen[r] # None <=> rpc[r] = "holding"
    /\ seen[r] # None =>
         \/ seen[r] = current
         \/ \E s \in Sessions :
              /\ seen[r] = box[s]
              /\ \/ pc[s] = "replaceFlip"
                 \/ pc[s] = "replaceSpin" /\ Parity(rEpoch[r]) = Parity(target[s])

IInv ==
  TypeOK /\ ActivityCounts /\ OwnerSerialises /\ BoxOwned /\ EpochSplit /\ SeenIsPublished

-----------------------------------------------------------------------------

LEMMA EpochParity ==
  ASSUME NEW e \in 0..(EpochModulus - 1)
  PROVE  /\ Parity(e) \in 0..1
         /\ NextEpoch(e) \in 0..(EpochModulus - 1)
         /\ Parity(NextEpoch(e)) # Parity(e)
BY SlotAssumption DEF Parity, NextEpoch

LEMMA ReadersFinite == IsFiniteSet(Readers)
BY SlotAssumption, FS_Union DEF Readers

LEMMA CountedFinite ==
  ASSUME NEW p
  PROVE  IsFiniteSet(CountedAt(p)) /\ Cardinality(CountedAt(p)) \in Nat
<1>1. CountedAt(p) \in SUBSET Readers
  BY DEF CountedAt
<1>2. QED
  BY <1>1, ReadersFinite, FS_Subset, FS_CardinalityType

LEMMA InitIInv == Init => IInv
<1> SUFFICES ASSUME Init PROVE IInv
  OBVIOUS
<1>1. TypeOK
  BY SlotAssumption DEF Init, TypeOK, WriterStates, ReaderStates
<1>2. ActivityCounts
  <2>1. \A p \in 0..1 : CountedAt(p) = {}
    BY DEF Init, CountedAt, Counted
  <2>2. QED
    BY <2>1, FS_EmptySet DEF ActivityCounts, Init
<1>3. OwnerSerialises /\ BoxOwned /\ EpochSplit /\ SeenIsPublished
  BY SlotAssumption
  DEF Init, OwnerSerialises, BoxOwned, NoLeak, EpochSplit, SeenIsPublished,
      Spinning, Guarded
<1>4. QED
  BY <1>1, <1>2, <1>3 DEF IInv

-----------------------------------------------------------------------------
(* One lemma per conjunct of the inductive invariant.                      *)

LEMMA StepTypeOK == IInv /\ [Next]_vars => TypeOK'
<1> SUFFICES ASSUME IInv, [Next]_vars PROVE TypeOK'
  OBVIOUS
<1> USE DEF IInv, TypeOK
<1>1. ASSUME NEW r \in Readers, DiagLock(r) \/ LoadEpoch(r) \/ RecheckEpoch(r) \/ LoadCurrent(r)
      PROVE  TypeOK'
  BY <1>1 DEF DiagLock, LoadEpoch, RecheckEpoch, LoadCurrent, writerVars, ReaderStates, Counted
<1>2. ASSUME NEW r \in Readers, EnterActivity(r)
      PROVE  TypeOK'
  BY <1>2, EpochParity DEF EnterActivity, writerVars, ReaderStates, Counted
<1>3. ASSUME NEW r \in Readers, DropStale(r) \/ DropGuard(r)
      PROVE  TypeOK'
  <2>1. Parity(rEpoch[r]) \in 0..1 /\ r \in CountedAt(Parity(rEpoch[r]))
    BY <1>3, EpochParity DEF DropStale, DropGuard, CountedAt, Counted
  <2>2. activity[Parity(rEpoch[r])] \in Nat \ {0}
    BY <2>1, CountedFinite, FS_EmptySet DEF ActivityCounts
  <2>3. QED
    BY <1>3, <2>1, <2>2 DEF DropStale, DropGuard, writerVars, ReaderStates, Counted
<1>4. ASSUME NEW s \in Sessions, ClaimOwner(s) \/ CreateEndpoint(s) \/ CreateFails(s) \/ ReplaceLock(s)
      PROVE  TypeOK'
  BY <1>4 DEF ClaimOwner, CreateEndpoint, CreateFails, ReplaceLock, Goto, readerVars, WriterStates
<1>5. ASSUME NEW s \in Sessions, SwapCurrent(s) \/ FreeRetired(s)
      PROVE  TypeOK'
  BY <1>5 DEF SwapCurrent, FreeRetired, Goto, readerVars, WriterStates, BoxOwned
<1>6. ASSUME NEW s \in Sessions, RetireEpoch(s)
      PROVE  TypeOK'
  BY <1>6, EpochParity DEF RetireEpoch, Goto, readerVars, WriterStates, Spinning
<1>7. ASSUME NEW s \in Sessions, SeeIdle(s) \/ StopSession(s) \/ CloseSession(s)
      PROVE  TypeOK'
  BY <1>7 DEF SeeIdle, StopSession, CloseSession, Goto, readerVars, WriterStates
<1>8. CASE UNCHANGED vars
  BY <1>8 DEF vars
<1>9. QED
  BY <1>1, <1>2, <1>3, <1>4, <1>5, <1>6, <1>7, <1>8 DEF Next, ReaderStep, WriterStep

LEMMA StepActivityCounts == IInv /\ [Next]_vars => ActivityCounts'
<1> SUFFICES ASSUME IInv, [Next]_vars PROVE ActivityCounts'
  OBVIOUS
<1> USE DEF IInv, TypeOK
<1>1. ASSUME UNCHANGED activity,
             \A r \in Readers : (rpc'[r] \in Counted <=> rpc[r] \in Counted),
             \A r \in Readers : rpc[r] \in Counted => rEpoch'[r] = rEpoch[r]
      PROVE  ActivityCounts'
  <2>1. \A p : CountedAt(p)' = CountedAt(p)
    BY <1>1 DEF CountedAt
  <2>2. QED
    BY <1>1, <2>1 DEF ActivityCounts
<1>2. ASSUME NEW r \in Readers, DiagLock(r) \/ LoadEpoch(r) \/ RecheckEpoch(r) \/ LoadCurrent(r)
      PROVE  ActivityCounts'
  BY <1>1, <1>2 DEF DiagLock, LoadEpoch, RecheckEpoch, LoadCurrent, writerVars, Counted
<1>3. ASSUME NEW r \in Readers, EnterActivity(r)
      PROVE  ActivityCounts'
  <2>1. PICK q \in 0..1 : q = Parity(rEpoch[r])
    BY EpochParity
  <2>2. CountedAt(q)' = CountedAt(q) \union {r} /\ r \notin CountedAt(q)
    BY <1>3, <2>1 DEF EnterActivity, CountedAt, Counted
  <2>3. \A p \in 0..1 : p # q => CountedAt(p)' = CountedAt(p)
    BY <1>3, <2>1 DEF EnterActivity, CountedAt, Counted
  <2>4. Cardinality(CountedAt(q)') = Cardinality(CountedAt(q)) + 1
    BY <2>2, CountedFinite, FS_AddElement
  <2>5. QED
    BY <1>3, <2>1, <2>3, <2>4 DEF EnterActivity, ActivityCounts
<1>4. ASSUME NEW r \in Readers, DropStale(r) \/ DropGuard(r)
      PROVE  ActivityCounts'
  <2>1. PICK q \in 0..1 : q = Parity(rEpoch[r])
    BY EpochParity
  <2>2. CountedAt(q)' = CountedAt(q) \ {r} /\ r \in CountedAt(q)
    BY <1>4, <2>1 DEF DropStale, DropGuard, CountedAt, Counted
  <2>3. \A p \in 0..1 : p # q => CountedAt(p)' = CountedAt(p)
    BY <1>4, <2>1 DEF DropStale, DropGuard, CountedAt, Counted
  <2>4. Cardinality(CountedAt(q)') = Cardinality(CountedAt(q)) - 1
    <3>1. IsFiniteSet(CountedAt(q))
      BY CountedFinite
    <3>2. Cardinality(CountedAt(q) \ {r}) = Cardinality(CountedAt(q)) - 1
      BY <2>2, <3>1, FS_RemoveElement
    <3>3. QED
      BY <2>2, <3>2
  <2>5. QED
    BY <1>4, <2>1, <2>3, <2>4 DEF DropStale, DropGuard, ActivityCounts
<1>5. ASSUME NEW s \in Sessions, WriterStep(s)
      PROVE  ActivityCounts'
  BY <1>1, <1>5 DEF WriterStep, ClaimOwner, CreateEndpoint, CreateFails, ReplaceLock,
     SwapCurrent, RetireEpoch, SeeIdle, FreeRetired, StopSession, CloseSession, readerVars
<1>6. CASE UNCHANGED vars
  BY <1>1, <1>6 DEF vars
<1>7. QED
  BY <1>2, <1>3, <1>4, <1>5, <1>6 DEF Next, ReaderStep

LEMMA StepOwnerSerialises == IInv /\ [Next]_vars => OwnerSerialises'
<1> SUFFICES ASSUME IInv, [Next]_vars PROVE OwnerSerialises'
  OBVIOUS
<1> USE SlotAssumption DEF IInv, TypeOK, OwnerSerialises
<1>1. ASSUME NEW r \in Readers, ReaderStep(r)
      PROVE  OwnerSerialises'
  BY <1>1 DEF ReaderStep, DiagLock, LoadEpoch, EnterActivity, RecheckEpoch, DropStale,
     LoadCurrent, DropGuard, writerVars
<1>2. ASSUME NEW s \in Sessions, WriterStep(s)
      PROVE  OwnerSerialises'
  BY <1>2 DEF WriterStep, ClaimOwner, CreateEndpoint, CreateFails, ReplaceLock,
     SwapCurrent, RetireEpoch, SeeIdle, FreeRetired, StopSession, CloseSession, Goto
<1>3. CASE UNCHANGED vars
  BY <1>3 DEF vars
<1>4. QED
  BY <1>1, <1>2, <1>3 DEF Next

LEMMA StepBoxOwned == IInv /\ [Next]_vars => BoxOwned'
<1> SUFFICES ASSUME IInv, [Next]_vars PROVE BoxOwned'
  OBVIOUS
<1> USE SlotAssumption DEF IInv, TypeOK, OwnerSerialises, BoxOwned, NoLeak
<1>1. ASSUME NEW r \in Readers, ReaderStep(r)
      PROVE  BoxOwned'
  BY <1>1 DEF ReaderStep, DiagLock, LoadEpoch, EnterActivity, RecheckEpoch, DropStale,
     LoadCurrent, DropGuard, writerVars
<1>2. ASSUME NEW s \in Sessions, CreateEndpoint(s)
      PROVE  BoxOwned'
  BY <1>2 DEF CreateEndpoint, Goto
<1>3. ASSUME NEW s \in Sessions, SwapCurrent(s)
      PROVE  BoxOwned'
  BY <1>3 DEF SwapCurrent, Goto
<1>4. ASSUME NEW s \in Sessions, FreeRetired(s)
      PROVE  BoxOwned'
  BY <1>4 DEF FreeRetired, Goto
<1>5. ASSUME NEW s \in Sessions,
             \/ ClaimOwner(s) \/ CreateFails(s) \/ ReplaceLock(s) \/ RetireEpoch(s)
             \/ SeeIdle(s) \/ StopSession(s) \/ CloseSession(s)
      PROVE  BoxOwned'
  BY <1>5 DEF ClaimOwner, CreateFails, ReplaceLock, RetireEpoch, SeeIdle, StopSession,
     CloseSession, Goto
<1>6. CASE UNCHANGED vars
  BY <1>6 DEF vars
<1>7. QED
  BY <1>1, <1>2, <1>3, <1>4, <1>5, <1>6 DEF Next, WriterStep
LEMMA StepEpochSplit == IInv /\ [Next]_vars => EpochSplit'
<1> SUFFICES ASSUME IInv, [Next]_vars PROVE EpochSplit'
  OBVIOUS
<1> USE SlotAssumption DEF IInv, TypeOK, EpochSplit, OwnerSerialises, Guarded
<1>1. ASSUME NEW r \in Readers, ReaderStep(r)
      PROVE  EpochSplit'
  BY <1>1 DEF ReaderStep, DiagLock, LoadEpoch, EnterActivity, RecheckEpoch, DropStale,
     LoadCurrent, DropGuard, writerVars
<1>2. ASSUME NEW s \in Sessions, RetireEpoch(s)
      PROVE  EpochSplit'
  <2>1. pc'[s] \in Spinning
    BY <1>2 DEF RetireEpoch, Goto, Spinning
  <2>2. Parity(target'[s]) # Parity(epoch')
    BY <1>2, EpochParity DEF RetireEpoch
  <2>3. \A t \in Sessions : pc'[t] \in Spinning => t = s
    BY <1>2 DEF RetireEpoch, Goto, Spinning
  <2>4. QED
    BY <1>2, <2>1, <2>2, <2>3 DEF RetireEpoch
<1>3. ASSUME NEW s \in Sessions, SeeIdle(s)
      PROVE  EpochSplit'
  <2>1. \A r \in Readers : rpc[r] \in Guarded => Parity(rEpoch[r]) # Parity(target[s])
    <3>1. Parity(target[s]) \in 0..1 /\ CountedAt(Parity(target[s])) = {}
      BY <1>3, EpochParity, CountedFinite, FS_EmptySet DEF SeeIdle, ActivityCounts
    <3>2. QED
      BY <3>1 DEF CountedAt, Counted
  <2>2. Parity(target[s]) # Parity(epoch)
    BY <1>3 DEF SeeIdle, Spinning
  <2>3. \A r \in Readers : rpc[r] \in Guarded => Parity(rEpoch[r]) = Parity(epoch)
    BY <2>1, <2>2, EpochParity
  <2>4. QED
    BY <1>3, <2>3 DEF SeeIdle, Goto, Spinning, readerVars
<1>4. ASSUME NEW s \in Sessions,
             \/ ClaimOwner(s) \/ CreateEndpoint(s) \/ CreateFails(s) \/ ReplaceLock(s)
             \/ SwapCurrent(s) \/ FreeRetired(s) \/ StopSession(s) \/ CloseSession(s)
      PROVE  EpochSplit'
  BY <1>4 DEF ClaimOwner, CreateEndpoint, CreateFails, ReplaceLock, SwapCurrent,
     FreeRetired, StopSession, CloseSession, Goto, readerVars, Spinning
<1>5. CASE UNCHANGED vars
  BY <1>5 DEF vars
<1>6. QED
  BY <1>1, <1>2, <1>3, <1>4, <1>5 DEF Next, WriterStep

LEMMA StepSeenIsPublished == IInv /\ [Next]_vars => SeenIsPublished'
<1> SUFFICES ASSUME IInv, [Next]_vars PROVE SeenIsPublished'
  OBVIOUS
<1> USE SlotAssumption DEF IInv, TypeOK, SeenIsPublished, OwnerSerialises
<1>1. ASSUME NEW r \in Readers, ReaderStep(r)
      PROVE  SeenIsPublished'
  BY <1>1 DEF ReaderStep, DiagLock, LoadEpoch, EnterActivity, RecheckEpoch, DropStale,
     LoadCurrent, DropGuard, writerVars
<1>2. ASSUME NEW s \in Sessions, SwapCurrent(s)
      PROVE  SeenIsPublished'
  <2>1. \A t \in Sessions : pc[t] \notin {"replaceFlip", "replaceSpin"}
    BY <1>2 DEF SwapCurrent
  <2>2. \A r \in Readers : seen[r] # None => seen[r] = current
    BY <2>1
  <2>3. QED
    BY <1>2, <2>2 DEF SwapCurrent, Goto, readerVars
<1>3. ASSUME NEW s \in Sessions, RetireEpoch(s)
      PROVE  SeenIsPublished'
  <2>1. \A t \in Sessions : pc[t] \notin Spinning
    BY <1>3 DEF RetireEpoch, Spinning
  <2>2. \A r \in Readers : rpc[r] = "holding" => Parity(rEpoch[r]) = Parity(epoch)
    BY <2>1 DEF EpochSplit, Guarded
  <2>3. QED
    BY <1>3, <2>1, <2>2 DEF RetireEpoch, Goto, readerVars, Spinning
<1>4. ASSUME NEW s \in Sessions, SeeIdle(s)
      PROVE  SeenIsPublished'
  <2>1. \A r \in Readers : rpc[r] = "holding" => Parity(rEpoch[r]) # Parity(target[s])
    <3>1. Parity(target[s]) \in 0..1 /\ CountedAt(Parity(target[s])) = {}
      BY <1>4, EpochParity, CountedFinite, FS_EmptySet DEF SeeIdle, ActivityCounts
    <3>2. QED
      BY <3>1 DEF CountedAt, Counted
  <2>2. QED
    BY <1>4, <2>1 DEF SeeIdle, Goto, readerVars
<1>5. ASSUME NEW s \in Sessions,
             \/ ClaimOwner(s) \/ CreateEndpoint(s) \/ CreateFails(s) \/ ReplaceLock(s)
             \/ FreeRetired(s) \/ StopSession(s) \/ CloseSession(s)
      PROVE  SeenIsPublished'
  BY <1>5 DEF ClaimOwner, CreateEndpoint, CreateFails, ReplaceLock,
     FreeRetired, StopSession, CloseSession, Goto, readerVars
<1>6. CASE UNCHANGED vars
  BY <1>6 DEF vars
<1>7. QED
  BY <1>1, <1>2, <1>3, <1>4, <1>5, <1>6 DEF Next, WriterStep

-----------------------------------------------------------------------------

LEMMA SpecIInv == Spec => []IInv
<1>1. IInv /\ [Next]_vars => IInv'
  BY StepTypeOK, StepActivityCounts, StepOwnerSerialises, StepBoxOwned, StepEpochSplit,
     StepSeenIsPublished DEF IInv
<1>2. QED
  BY InitIInv, <1>1, PTL DEF Spec

(* The types of the slot's variables; in particular no activity counter is *)
(* ever decremented below zero.                                            *)
THEOREM TypeCorrect == Spec => []TypeOK
<1>1. IInv => TypeOK
  BY DEF IInv
<1>2. QED
  BY SpecIInv, <1>1, PTL

(* No reader dereferences an endpoint that replace() has freed, for any    *)
(* number of readers, sessions and addresses and any even epoch modulus.   *)
THEOREM MemorySafety == Spec => []NoUseAfterFree
<1>1. IInv => NoUseAfterFree
  BY DEF IInv, TypeOK, BoxOwned, NoLeak, SeenIsPublished, NoUseAfterFree
<1>2. QED
  BY SpecIInv, <1>1, PTL

(* Every endpoint that was allocated is published, or in the hands of the  *)
(* one session that will publish or free it: replace() and its error paths *)
(* lose none.                                                              *)
THEOREM EndpointsAreKept == Spec => []NoLeak
<1>1. IInv => NoLeak
  BY DEF IInv, BoxOwned
<1>2. QED
  BY SpecIInv, <1>1, PTL
-----------------------------------------------------------------------------
(* The refinement.                                                         *)

LEMMA InitImplements == Init => Cell!Init
BY SlotAssumption
DEF Init, Cell!Init, InsideReaders, Draining, WaitingFor, Guarded, Spinning

LEMMA ReaderStepImplements ==
  ASSUME IInv, NEW r \in Readers, ReaderStep(r)
  PROVE  [Cell!Next]_(Cell!vars)
<1> USE SlotAssumption DEF IInv, TypeOK
<1> USE DEF InsideReaders, Draining, WaitingFor, Guarded
<1>1. CASE DiagLock(r) \/ LoadEpoch(r) \/ EnterActivity(r) \/ DropStale(r)
  <2>1. UNCHANGED <<current, live, seen, Draining>>
    BY <1>1 DEF DiagLock, LoadEpoch, EnterActivity, DropStale, writerVars
  <2>2. UNCHANGED InsideReaders
    BY <1>1 DEF DiagLock, LoadEpoch, EnterActivity, DropStale
  <2>3. UNCHANGED WaitingFor
    BY <1>1 DEF DiagLock, LoadEpoch, EnterActivity, DropStale, writerVars
  <2>4. QED
    BY <2>1, <2>2, <2>3 DEF Cell!vars
<1>2. CASE RecheckEpoch(r)
  <2>1. CASE epoch = rEpoch[r]
    <3>1. UNCHANGED <<current, live, seen, Draining>>
      BY <1>2 DEF RecheckEpoch, writerVars
    <3>2. r \notin InsideReaders /\ InsideReaders' = InsideReaders \union {r}
      BY <1>2, <2>1 DEF RecheckEpoch
    <3>3. UNCHANGED WaitingFor
      <4>1. \A s \in Sessions : pc[s] \in Spinning => Parity(rEpoch[r]) # Parity(target[s])
        BY <2>1 DEF EpochSplit
      <4>2. QED
        BY <1>2, <2>1, <4>1 DEF RecheckEpoch, writerVars
    <3>4. QED
      BY <3>1, <3>2, <3>3 DEF Cell!Next, Cell!Enter
  <2>2. CASE epoch # rEpoch[r]
    <3>1. UNCHANGED <<current, live, seen, Draining>>
      BY <1>2 DEF RecheckEpoch, writerVars
    <3>2. UNCHANGED InsideReaders
      BY <1>2, <2>2 DEF RecheckEpoch
    <3>3. UNCHANGED WaitingFor
      BY <1>2, <2>2 DEF RecheckEpoch, writerVars
    <3>4. QED
      BY <3>1, <3>2, <3>3 DEF Cell!vars
  <2>3. QED
    BY <2>1, <2>2
<1>3. CASE LoadCurrent(r)
  <2>1. UNCHANGED <<current, live, Draining>>
    BY <1>3 DEF LoadCurrent, writerVars
  <2>2. UNCHANGED InsideReaders /\ r \in InsideReaders
    BY <1>3 DEF LoadCurrent
  <2>3. UNCHANGED WaitingFor
    BY <1>3 DEF LoadCurrent, writerVars
  <2>4. seen[r] = None /\ seen' = [seen EXCEPT ![r] = current]
    BY <1>3 DEF LoadCurrent, SeenIsPublished
  <2>5. QED
    BY <2>1, <2>2, <2>3, <2>4 DEF Cell!Next, Cell!Dereference
<1>4. CASE DropGuard(r)
  <2>1. UNCHANGED <<current, live, Draining>>
    BY <1>4 DEF DropGuard, writerVars
  <2>2. r \in InsideReaders /\ InsideReaders' = InsideReaders \ {r}
    BY <1>4 DEF DropGuard
  <2>3. WaitingFor' = WaitingFor \ {r}
    BY <1>4 DEF DropGuard, writerVars
  <2>4. seen' = [seen EXCEPT ![r] = None]
    BY <1>4 DEF DropGuard
  <2>5. QED
    BY <2>1, <2>2, <2>3, <2>4 DEF Cell!Next, Cell!Leave
<1>5. QED
  BY <1>1, <1>2, <1>3, <1>4 DEF ReaderStep

LEMMA WriterStepImplements ==
  ASSUME IInv, NEW s \in Sessions, WriterStep(s)
  PROVE  [Cell!Next]_(Cell!vars)
<1> USE SlotAssumption DEF IInv, TypeOK, OwnerSerialises, BoxOwned, NoLeak
<1> USE DEF InsideReaders, Draining, WaitingFor
<1>1. UNCHANGED <<seen, InsideReaders>>
  BY DEF WriterStep, ClaimOwner, CreateEndpoint, CreateFails, ReplaceLock, SwapCurrent,
     RetireEpoch, SeeIdle, FreeRetired, StopSession, CloseSession, readerVars
<1>2. ASSUME UNCHANGED <<target, rpc, rEpoch>>,
             \A t \in Sessions : pc'[t] \in Spinning <=> pc[t] \in Spinning
      PROVE  UNCHANGED <<Draining, WaitingFor>>
  BY <1>2
<1>3. CASE CreateEndpoint(s)
  <2>1. UNCHANGED <<Draining, WaitingFor>>
    BY <1>2, <1>3 DEF CreateEndpoint, Goto, readerVars, Spinning
  <2>2. PICK e \in Endpoints \ live : live' = live \union {e}
    BY <1>3 DEF CreateEndpoint
  <2>3. Cell!Allocate(e)
    BY <1>1, <1>3, <2>1, <2>2 DEF CreateEndpoint, Cell!Allocate
  <2>4. QED
    BY <2>3 DEF Cell!Next
<1>4. CASE SwapCurrent(s)
  <2>1. UNCHANGED <<Draining, WaitingFor>>
    BY <1>2, <1>4 DEF SwapCurrent, Goto, readerVars, Spinning
  <2>2. box[s] \in live \ {current}
    BY <1>4 DEF SwapCurrent
  <2>3. Cell!Publish(box[s])
    BY <1>1, <1>4, <2>1, <2>2 DEF SwapCurrent, Cell!Publish
  <2>4. QED
    BY <2>2, <2>3 DEF Cell!Next
<1>5. CASE RetireEpoch(s)
  <2>1. ~Draining
    BY <1>5 DEF RetireEpoch, Spinning
  <2>2. Draining'
    BY <1>5 DEF RetireEpoch, Goto, Spinning
  <2>3. \A r \in InsideReaders : Parity(rEpoch[r]) = Parity(epoch)
    BY <2>1 DEF EpochSplit
  <2>4. WaitingFor' = InsideReaders
    <3>1. pc'[s] \in Spinning /\ target'[s] = epoch
      BY <1>5 DEF RetireEpoch, Goto, Spinning
    <3>2. QED
      BY <1>1, <1>5, <2>3, <3>1 DEF RetireEpoch, readerVars
  <2>5. QED
    BY <1>1, <1>5, <2>1, <2>2, <2>4 DEF RetireEpoch, Cell!Next, Cell!BeginDrain
<1>6. CASE SeeIdle(s)
  <2>1. Draining
    BY <1>6 DEF SeeIdle, Spinning
  <2>2. ~Draining'
    BY <1>6 DEF SeeIdle, Goto, Spinning
  <2>3. WaitingFor' = {}
    BY <2>2
  <2>4. WaitingFor = {}
    <3>1. CountedAt(Parity(target[s])) = {}
      BY <1>6, EpochParity, CountedFinite, FS_EmptySet DEF SeeIdle, ActivityCounts
    <3>2. \A t \in Sessions : pc[t] \in Spinning => t = s
      BY <1>6 DEF SeeIdle, Spinning
    <3>3. QED
      BY <3>1, <3>2 DEF CountedAt, Counted, Guarded
  <2>5. QED
    BY <1>1, <1>6, <2>1, <2>2, <2>3, <2>4 DEF SeeIdle, Cell!Next, Cell!EndDrain
<1>7. CASE FreeRetired(s)
  <2>1. UNCHANGED <<Draining, WaitingFor>>
    BY <1>2, <1>7 DEF FreeRetired, Goto, readerVars, Spinning
  <2>2. box[s] \in live \ {current}
    BY <1>7 DEF FreeRetired
  <2>3. \A r \in Readers : seen[r] # box[s]
    BY <1>7, <2>2 DEF FreeRetired, SeenIsPublished
  <2>4. Cell!Free(box[s])
    BY <1>1, <1>7, <2>1, <2>2, <2>3 DEF FreeRetired, Cell!Free
  <2>5. QED
    BY <2>2, <2>4 DEF Cell!Next
<1>8. CASE \/ ClaimOwner(s) \/ CreateFails(s) \/ ReplaceLock(s) \/ StopSession(s)
           \/ CloseSession(s)
  <2>1. UNCHANGED <<Draining, WaitingFor>>
    BY <1>2, <1>8 DEF ClaimOwner, CreateFails, ReplaceLock, StopSession, CloseSession,
       Goto, readerVars, Spinning
  <2>2. QED
    BY <1>1, <1>8, <2>1 DEF ClaimOwner, CreateFails, ReplaceLock, StopSession,
       CloseSession, Cell!vars
<1>9. QED
  BY <1>3, <1>4, <1>5, <1>6, <1>7, <1>8 DEF WriterStep

(* The epoch-and-counter protocol of EndpointSlot is a read-copy-update    *)
(* cell: the abstract grace period waits exactly for the guards taken      *)
(* before the epoch was retired.                                           *)
THEOREM Refinement == Spec => ImplementsGracePeriod
<1>1. IInv /\ [Next]_vars => [Cell!Next]_(Cell!vars)
  <2> SUFFICES ASSUME IInv, [Next]_vars PROVE [Cell!Next]_(Cell!vars)
    OBVIOUS
  <2>1. CASE UNCHANGED vars
    BY <2>1 DEF vars, Cell!vars, InsideReaders, Draining, WaitingFor
  <2>2. QED
    BY <2>1, ReaderStepImplements, WriterStepImplements DEF Next
<1>2. QED
  BY InitImplements, SpecIInv, <1>1, PTL DEF Spec, ImplementsGracePeriod, Cell!Spec

-----------------------------------------------------------------------------
(***************************************************************************)
(* The daemons of one card.                                                *)
(*                                                                         *)
(* The argument.  A listener takes a file away after it found it unused or *)
(* remembered it.  The file of a listener that began alone was found by    *)
(* nobody before, it is not found unused while it is listened on, and what *)
(* others remembered before is another file: so nobody else is unsettled   *)
(* as long as that file stands.                                            *)
(***************************************************************************)
Parts == [main : {"off", "open", "wait", "abort", "run", "join"},
          hardware : {"none", "starting", "running", "ended", "failed", "unqualified", "panicked"},
          ready : BOOLEAN, stop : BOOLEAN,
          listener : {"none", "look", "connect", "remove", "bind", "listen", "stat", "accept",
                      "compare", "unlink", "ended", "failed"},
          kept : BOOLEAN, alone : BOOLEAN]

ProcessTypes == proc \in [Daemons -> Parts] /\ path \in {"none", "stale"} \cup Daemons

(* A listener that began alone, with its file where it made it.            *)
Stands(d) == path = d /\ Process!Listening(d) /\ proc[d].alone

OthersAreSettled ==
  \A d, e \in Daemons : Stands(d) /\ d # e => ~Process!Unsettled(e)

ProcessInv == ProcessTypes /\ OthersAreSettled

LEMMA PathNames ==
  "none" \notin Daemons /\ "stale" \notin Daemons /\ Nobody \notin Daemons
  BY ProgramsAssumption DEF Process!ProcessAssumption

LEMMA InitProcess == Process!Init => ProcessInv
  BY PathNames DEF Process!Init, ProcessInv, ProcessTypes, OthersAreSettled, Stands, Parts, Process!Off,
     Process!Listening

(* The file goes: whatever the daemons do with that, no socket stands.     *)
LEMMA FileGone ==
  ASSUME proc' \in [Daemons -> Parts], path' \in {"none", "stale"}
  PROVE  ProcessInv'
  BY PathNames DEF ProcessInv, ProcessTypes, OthersAreSettled, Stands

(* One daemon changes, and the file stays.                                 *)
LEMMA PartKeeps ==
  ASSUME ProcessInv, NEW d \in Daemons, NEW p \in Parts, proc' = [proc EXCEPT ![d] = p],
         path' = path,
         p.kept \/ p.listener \in {"remove", "listen", "stat", "unlink"} =>
            Process!Unsettled(d) \/ \A e \in Daemons \ {d} : ~Stands(e),
         path = d /\ p.listener \in {"stat", "accept", "compare", "unlink"} /\ p.alone =>
            Stands(d) \/ \A e \in Daemons \ {d} : ~Process!Unsettled(e)
  PROVE  ProcessInv'
  <1>1. /\ proc' \in [Daemons -> Parts] /\ proc'[d] = p
        /\ \A e \in Daemons \ {d} : proc'[e] = proc[e]
    BY DEF ProcessInv, ProcessTypes
  <1>2. \A e \in Daemons \ {d} : (Stands(e)' <=> Stands(e))
                                 /\ (Process!Unsettled(e)' <=> Process!Unsettled(e))
    BY <1>1 DEF Stands, Process!Listening, Process!Unsettled
  <1>3. Stands(d)' => \A e \in Daemons \ {d} : ~Process!Unsettled(e)
    BY <1>1 DEF ProcessInv, OthersAreSettled, Stands, Process!Listening
  <1>4. Process!Unsettled(d)' => \A e \in Daemons \ {d} : ~Stands(e)
    BY <1>1 DEF ProcessInv, OthersAreSettled, Process!Unsettled
  <1> QED BY <1>1, <1>2, <1>3, <1>4 DEF ProcessInv, ProcessTypes, OthersAreSettled

(* A process that ends.                                                    *)
LEMMA ExitKeeps ==
  ASSUME ProcessInv, NEW d \in Daemons, NEW status, Process!Exit(d, status)
  PROVE  ProcessInv'
  <1>1. Process!Off \in Parts /\ Process!Off.listener = "none" /\ ~Process!Off.kept
    BY DEF Parts, Process!Off
  <1>2. /\ proc' = [proc EXCEPT ![d] = Process!Off]
        /\ path' = IF path = d THEN "stale" ELSE path
    BY DEF Process!Exit
  <1>3. CASE path = d
    BY <1>1, <1>2, <1>3, FileGone DEF ProcessInv, ProcessTypes
  <1>4. CASE path # d
    BY <1>1, <1>2, <1>4, PartKeeps
  <1> QED BY <1>3, <1>4

(* A step of the main or the hardware thread: the listener is where it was *)
(* or only begins.                                                         *)
LEMMA ThreadKeeps ==
  ASSUME ProcessInv, NEW d \in Daemons, NEW p \in Parts, proc' = [proc EXCEPT ![d] = p],
         path' = path, p.listener \in {proc[d].listener, "look"},
         p.kept = proc[d].kept, p.alone = proc[d].alone
  PROVE  ProcessInv'
  <1>1. p.kept \/ p.listener \in {"remove", "listen", "stat", "unlink"} => Process!Unsettled(d)
    BY DEF Process!Unsettled
  <1>2. path = d /\ p.listener \in {"stat", "accept", "compare", "unlink"} /\ p.alone => Stands(d)
    BY DEF Stands, Process!Listening
  <1> QED BY <1>1, <1>2, PartKeeps

LEMMA MainStepInv ==
  ASSUME ProcessInv, NEW d \in Daemons, Process!MainStep(d)
  PROVE  ProcessInv'
  <1>0. proc[d] \in Parts
    BY DEF ProcessInv, ProcessTypes
  <1>1. CASE Process!Start(d)
    <2> DEFINE p == [proc[d] EXCEPT !.main = "open"]
    <2>1. path' = path /\ proc' = [proc EXCEPT ![d] = p]
      BY <1>1 DEF Process!Start
    <2>2. /\ p \in Parts /\ p.listener = proc[d].listener /\ p.kept = proc[d].kept
          /\ p.alone = proc[d].alone
      BY <1>0 DEF Parts
    <2> HIDE DEF p
    <2> QED BY <2>1, <2>2, ThreadKeeps
  <1>2. CASE Process!Open(d)
    <2> DEFINE p == [proc[d] EXCEPT !.main = "wait", !.hardware = "starting"]
    <2>1. CASE \E status : Process!Exit(d, status)
      BY <2>1, ExitKeeps
    <2>2. CASE path' = path /\ proc' = [proc EXCEPT ![d] = p]
      <3>1. /\ p \in Parts /\ p.listener = proc[d].listener /\ p.kept = proc[d].kept
            /\ p.alone = proc[d].alone
        BY <1>0 DEF Parts
      <3> HIDE DEF p
      <3> QED BY <2>2, <3>1, ThreadKeeps
    <2> QED BY <1>2, <2>1, <2>2 DEF Process!Open
  <1>3. CASE Process!Serve(d)
    <2> DEFINE p == [proc[d] EXCEPT !.main = "run", !.listener = "look"]
    <2>1. path' = path /\ proc' = [proc EXCEPT ![d] = p]
      BY <1>3 DEF Process!Serve
    <2>2. p \in Parts /\ p.listener = "look" /\ p.kept = proc[d].kept /\ p.alone = proc[d].alone
      BY <1>0 DEF Parts
    <2> HIDE DEF p
    <2> QED BY <2>1, <2>2, ThreadKeeps
  <1>4. CASE Process!Abort(d)
    <2> DEFINE p == [proc[d] EXCEPT !.main = "abort", !.stop = TRUE]
    <2>1. path' = path /\ proc' = [proc EXCEPT ![d] = p]
      BY <1>4 DEF Process!Abort
    <2>2. /\ p \in Parts /\ p.listener = proc[d].listener /\ p.kept = proc[d].kept
          /\ p.alone = proc[d].alone
      BY <1>0 DEF Parts
    <2> HIDE DEF p
    <2> QED BY <2>1, <2>2, ThreadKeeps
  <1>5. CASE Process!Aborted(d) \/ Process!JoinListener(d)
    BY <1>5, ExitKeeps DEF Process!Aborted, Process!JoinListener
  <1>6. CASE Process!JoinHardware(d)
    <2> DEFINE p == [proc[d] EXCEPT !.main = "join", !.stop = TRUE]
    <2>1. CASE Process!Exit(d, 1)
      BY <2>1, ExitKeeps
    <2>2. CASE path' = path /\ proc' = [proc EXCEPT ![d] = p]
      <3>1. /\ p \in Parts /\ p.listener = proc[d].listener /\ p.kept = proc[d].kept
            /\ p.alone = proc[d].alone
        BY <1>0 DEF Parts
      <3> HIDE DEF p
      <3> QED BY <2>2, <3>1, ThreadKeeps
    <2> QED BY <1>6, <2>1, <2>2 DEF Process!JoinHardware
  <1> QED BY <1>1, <1>2, <1>3, <1>4, <1>5, <1>6 DEF Process!MainStep

LEMMA HardwareStepInv ==
  ASSUME ProcessInv, NEW d \in Daemons,
         Process!HardwareStep(d) \/ Process!Killed(d) \/ Process!Terminated(d)
  PROVE  ProcessInv'
  <1>0. proc[d] \in Parts
    BY DEF ProcessInv, ProcessTypes
  <1>1. CASE Process!HardwareReady(d)
    <2> DEFINE p == [proc[d] EXCEPT !.hardware = "running", !.ready = TRUE]
    <2>1. path' = path /\ proc' = [proc EXCEPT ![d] = p]
      BY <1>1 DEF Process!HardwareReady
    <2>2. /\ p \in Parts /\ p.listener = proc[d].listener /\ p.kept = proc[d].kept
          /\ p.alone = proc[d].alone
      BY <1>0 DEF Parts
    <2> HIDE DEF p
    <2> QED BY <2>1, <2>2, ThreadKeeps
  <1>2. CASE Process!HardwareEnds(d)
    <2>1. PICK result \in {"ended", "failed", "unqualified", "panicked"} :
            proc' = [proc EXCEPT ![d] = [proc[d] EXCEPT !.hardware = result]]
      BY <1>2 DEF Process!HardwareEnds
    <2> DEFINE p == [proc[d] EXCEPT !.hardware = result]
    <2>2. path' = path /\ proc' = [proc EXCEPT ![d] = p]
      BY <1>2, <2>1 DEF Process!HardwareEnds
    <2>3. /\ p \in Parts /\ p.listener = proc[d].listener /\ p.kept = proc[d].kept
          /\ p.alone = proc[d].alone
      BY <1>0 DEF Parts
    <2> HIDE DEF p
    <2> QED BY <2>2, <2>3, ThreadKeeps
  <1>3. CASE Process!Killed(d)
    BY <1>3, ExitKeeps DEF Process!Killed
  <1>4. CASE Process!Terminated(d)
    <2> DEFINE p == [proc[d] EXCEPT !.stop = TRUE]
    <2>1. path' = path /\ proc' = [proc EXCEPT ![d] = p]
      BY <1>4 DEF Process!Terminated
    <2>2. /\ p \in Parts /\ p.listener = proc[d].listener /\ p.kept = proc[d].kept
          /\ p.alone = proc[d].alone
      BY <1>0 DEF Parts
    <2> HIDE DEF p
    <2> QED BY <2>1, <2>2, ThreadKeeps
  <1> QED BY <1>1, <1>2, <1>3, <1>4 DEF Process!HardwareStep

(* A step of a listener: only its place changes, and stop when it fails.   *)
LEMMA Gone ==
  ASSUME ProcessInv, NEW d \in Daemons,
         NEW next \in {"connect", "remove", "bind", "listen", "stat", "accept", "compare", "unlink",
                       "ended", "failed"},
         Process!Now(d, next)
  PROVE  \E p \in Parts :
           /\ proc' = [proc EXCEPT ![d] = p] /\ p.listener = next
           /\ p.kept = proc[d].kept /\ p.alone = proc[d].alone
  <1>0. proc[d] \in Parts
    BY DEF ProcessInv, ProcessTypes
  <1> DEFINE stop == IF next = "failed" THEN TRUE ELSE proc[d].stop
             p == [proc[d] EXCEPT !.listener = next, !.stop = stop]
  <1>1. stop \in BOOLEAN
    BY <1>0 DEF Parts
  <1>2. proc' = [proc EXCEPT ![d] = p]
    BY DEF Process!Now
  <1> HIDE DEF stop
  <1>3. p \in Parts /\ p.listener = next /\ p.kept = proc[d].kept /\ p.alone = proc[d].alone
    BY <1>0, <1>1 DEF Parts
  <1> HIDE DEF p
  <1> QED BY <1>2, <1>3

(* A removal.                                                              *)
LEMMA RemoveKeeps ==
  ASSUME ProcessInv, NEW d \in Daemons, NEW next \in {"bind", "ended"}, Process!Remove(d, next)
  PROVE  ProcessInv'
  <1> DEFINE q == [proc EXCEPT ![d].listener = next]
  <1>1. q \in [Daemons -> Parts]
    BY DEF ProcessInv, ProcessTypes, Parts
  <1>2. proc' = [e \in Daemons |-> [q[e] EXCEPT !.kept = FALSE]] /\ path' = "none"
    BY DEF Process!Remove, Process!Forgotten
  <1> HIDE DEF q
  <1>3. \A e \in Daemons : [q[e] EXCEPT !.kept = FALSE] \in Parts
    BY <1>1 DEF Parts
  <1> QED BY <1>2, <1>3, FileGone

LEMMA ListenerStepInv ==
  ASSUME ProcessInv, NEW d \in Daemons, Process!ListenerStep(d)
  PROVE  ProcessInv'
  <1>0. proc[d] \in Parts
    BY DEF ProcessInv, ProcessTypes
  <1>1. ASSUME NEW next \in {"connect", "remove", "bind", "listen", "stat", "accept", "compare",
                             "unlink", "ended", "failed"},
               Process!Go(d, next),
               next \in {"remove", "listen", "stat", "unlink"} =>
                  Process!Unsettled(d) \/ \A e \in Daemons \ {d} : ~Stands(e),
               next \in {"stat", "accept", "compare", "unlink"} => Process!Listening(d)
        PROVE  ProcessInv'
    <2>1. PICK p \in Parts :
            /\ proc' = [proc EXCEPT ![d] = p] /\ p.listener = next
            /\ p.kept = proc[d].kept /\ p.alone = proc[d].alone
      BY <1>1, Gone DEF Process!Go
    <2>2. p.kept => Process!Unsettled(d)
      BY <2>1 DEF Process!Unsettled
    <2>3. path = d /\ p.listener \in {"stat", "accept", "compare", "unlink"} /\ p.alone => Stands(d)
      BY <1>1, <2>1 DEF Stands
    <2>4. path' = path
      BY <1>1 DEF Process!Go
    <2> QED BY <1>1, <2>1, <2>2, <2>3, <2>4, PartKeeps
  <1>2. CASE Process!Look(d)
    BY <1>1, <1>2 DEF Process!Look
  <1>3. CASE Process!Connect(d)
    <2>1. CASE path \in Daemons /\ Process!Listening(path)
      BY <1>1, <1>3, <2>1 DEF Process!Connect
    <2>2. CASE ~(path \in Daemons /\ Process!Listening(path))
      <3>1. \A e \in Daemons \ {d} : ~Stands(e)
        BY <2>2 DEF Stands
      <3> QED BY <1>1, <1>3, <2>2, <3>1 DEF Process!Connect
    <2> QED BY <2>1, <2>2
  <1>4. CASE Process!RemoveStale(d)
    <2>1. CASE Process!Go(d, "failed")
      BY <1>1, <2>1
    <2> QED BY <1>4, <2>1, RemoveKeeps DEF Process!RemoveStale
  <1>5. CASE Process!Bind(d)
    <2>1. CASE Process!Go(d, "failed")
      BY <1>1, <2>1
    <2>2. CASE Process!Now(d, "listen") /\ path' = d
      <3>1. PICK p \in Parts : proc' = [proc EXCEPT ![d] = p] /\ p.listener = "listen"
        BY <2>2, Gone
      <3>2. proc' \in [Daemons -> Parts] /\ proc'[d].listener = "listen"
        BY <3>1 DEF ProcessInv, ProcessTypes
      <3>3. \A e \in Daemons : ~Stands(e)'
        BY <2>2, <3>2 DEF Stands, Process!Listening
      <3> QED BY <2>2, <3>2, <3>3 DEF ProcessInv, ProcessTypes, OthersAreSettled
    <2> QED BY <1>5, <2>1, <2>2 DEF Process!Bind
  <1>6. CASE Process!Listen(d)
    <2> DEFINE alone == \A e \in Daemons \ {d} : ~Process!Unsettled(e)
               p == [proc[d] EXCEPT !.listener = "stat", !.alone = alone]
    <2>1. path' = path /\ proc' = [proc EXCEPT ![d] = p] /\ proc[d].listener = "listen"
      BY <1>6 DEF Process!Listen, Process!At
    <2>2. alone \in BOOLEAN
      OBVIOUS
    <2> HIDE DEF alone
    <2>3. p \in Parts /\ p.listener = "stat" /\ p.alone = alone
      BY <1>0, <2>2 DEF Parts
    <2>4. Process!Unsettled(d)
      BY <2>1 DEF Process!Unsettled
    <2>5. p.alone => \A e \in Daemons \ {d} : ~Process!Unsettled(e)
      BY <2>3 DEF alone
    <2> HIDE DEF p
    <2> QED BY <2>1, <2>3, <2>4, <2>5, PartKeeps
  <1>7. CASE Process!Stat(d)
    <2>1. CASE Process!Go(d, "failed")
      BY <1>1, <2>1
    <2>2. CASE /\ proc' = [proc EXCEPT ![d].listener = "accept", ![d].kept = TRUE]
               /\ path' = path
      <3> DEFINE p == [proc[d] EXCEPT !.listener = "accept", !.kept = TRUE]
      <3>1. p \in Parts /\ p.listener = "accept" /\ p.alone = proc[d].alone
        BY <1>0 DEF Parts
      <3>2. proc' = [proc EXCEPT ![d] = p]
        BY <2>2
      <3> HIDE DEF p
      <3>3. proc[d].listener = "stat"
        BY <1>7 DEF Process!Stat, Process!At
      <3>4. Process!Unsettled(d) /\ Process!Listening(d)
        BY <3>3 DEF Process!Unsettled, Process!Listening
      <3>5. path = d /\ p.alone => Stands(d)
        BY <3>1, <3>4 DEF Stands
      <3> QED BY <2>2, <3>1, <3>2, <3>4, <3>5, PartKeeps
    <2> QED BY <1>7, <2>1, <2>2 DEF Process!Stat
  <1>8. CASE Process!Leave(d)
    <2>1. CASE Process!Go(d, "compare")
      BY <1>1, <1>8, <2>1 DEF Process!Leave, Process!At, Process!Listening
    <2>2. CASE /\ proc' = [proc EXCEPT ![d].listener = "failed", ![d].stop = TRUE]
               /\ path' = path
      <3> DEFINE p == [proc[d] EXCEPT !.listener = "failed", !.stop = TRUE]
      <3>1. p \in Parts /\ p.kept = proc[d].kept /\ p.listener = "failed"
        BY <1>0 DEF Parts
      <3>2. proc' = [proc EXCEPT ![d] = p]
        BY <2>2
      <3> HIDE DEF p
      <3>3. p.kept => Process!Unsettled(d)
        BY <3>1 DEF Process!Unsettled
      <3> QED BY <2>2, <3>1, <3>2, <3>3, PartKeeps
    <2> QED BY <1>8, <2>1, <2>2 DEF Process!Leave
  <1>9. CASE Process!Compare(d)
    BY <1>1, <1>9 DEF Process!Compare, Process!At, Process!Listening, Process!Unsettled
  <1>10. CASE Process!Unlink(d)
    BY <1>10, RemoveKeeps DEF Process!Unlink
  <1> QED BY <1>2, <1>3, <1>4, <1>5, <1>6, <1>7, <1>8, <1>9, <1>10 DEF Process!ListenerStep

LEMMA FaultsCount == faults \in Nat /\ [Process!Next]_(Process!vars) => faults' \in Nat
  <1> SUFFICES ASSUME faults \in Nat, [Process!Next]_(Process!vars) PROVE faults' \in Nat
    OBVIOUS
  <1>1. Process!Fault => faults' \in Nat
    BY DEF Process!Fault
  <1>2. ASSUME NEW d \in Daemons, Process!ListenerStep(d) PROVE faults' \in Nat
    BY <1>1, <1>2 DEF Process!ListenerStep, Process!Look, Process!Connect, Process!RemoveStale,
       Process!Bind, Process!Listen, Process!Stat, Process!Leave, Process!Compare, Process!Unlink,
       Process!Go, Process!Now, Process!Remove
  <1>3. ASSUME NEW d \in Daemons,
               Process!MainStep(d) \/ Process!HardwareStep(d) \/ Process!Killed(d)
               \/ Process!Terminated(d)
        PROVE  faults' \in Nat
    BY <1>1, <1>3 DEF Process!MainStep, Process!HardwareStep, Process!Killed, Process!Terminated,
       Process!Start, Process!Open, Process!Serve, Process!Abort, Process!Aborted,
       Process!JoinHardware, Process!JoinListener, Process!HardwareReady, Process!HardwareEnds
  <1> QED BY <1>1, <1>2, <1>3 DEF Process!Next, Process!FileRemoved, Process!vars

(* No step of the daemons takes away a socket that stands.                 *)
SocketStands ==
  \A d \in Daemons :
    path = d /\ Process!Accepting(d) /\ proc[d].alone /\ path' # d
      => path' = "stale" \/ faults' # faults

LEMMA ProcessStep ==
  ProcessInv /\ faults \in Nat /\ [Process!Next]_(Process!vars) => ProcessInv' /\ SocketStands
  <1> SUFFICES ASSUME ProcessInv, faults \in Nat, [Process!Next]_(Process!vars) PROVE ProcessInv' /\ SocketStands
    OBVIOUS
  <1>1. CASE UNCHANGED Process!vars
    <2>1. UNCHANGED <<proc, path>>
      BY <1>1 DEF Process!vars
    <2> QED BY <2>1 DEF ProcessInv, ProcessTypes, OthersAreSettled, Stands, Process!Unsettled,
           Process!Listening, SocketStands
  <1>2. CASE Process!FileRemoved
    <2>1. /\ proc' = [e \in Daemons |-> [proc[e] EXCEPT !.kept = FALSE]] /\ path' = "none"
          /\ faults' = faults + 1
      BY <1>2 DEF Process!FileRemoved, Process!Fault, Process!Forgotten
    <2>2. \A e \in Daemons : [proc[e] EXCEPT !.kept = FALSE] \in Parts
      BY DEF ProcessInv, ProcessTypes, Parts
    <2>3. ProcessInv'
      BY <2>1, <2>2, FileGone
    <2>4. faults' # faults
      BY <2>1
    <2> QED BY <2>3, <2>4 DEF SocketStands
  <1>3. ASSUME NEW d \in Daemons,
               Process!MainStep(d) \/ Process!HardwareStep(d) \/ Process!ListenerStep(d)
               \/ Process!Killed(d) \/ Process!Terminated(d)
        PROVE  ProcessInv' /\ SocketStands
    <2>1. ProcessInv'
      BY <1>3, MainStepInv, HardwareStepInv, ListenerStepInv
    <2>2. \/ path' = path
          \/ path = d /\ path' = "stale"
          \/ path = "none"
          \/ proc[d].listener \in {"remove", "unlink"}
      BY <1>3 DEF Process!MainStep, Process!HardwareStep, Process!ListenerStep, Process!Killed,
         Process!Terminated, Process!Start, Process!Open, Process!Serve, Process!Abort,
         Process!Aborted, Process!JoinHardware, Process!JoinListener, Process!HardwareReady,
         Process!HardwareEnds, Process!Look, Process!Connect, Process!RemoveStale, Process!Bind,
         Process!Listen, Process!Stat, Process!Leave, Process!Compare, Process!Unlink, Process!At,
         Process!Go, Process!Exit
    <2>3. SocketStands
      BY <2>2, PathNames DEF SocketStands, ProcessInv, OthersAreSettled, Stands, Process!Listening,
         Process!Accepting, Process!Unsettled
    <2> QED BY <2>1, <2>3
  <1> QED BY <1>1, <1>2, <1>3 DEF Process!Next

-----------------------------------------------------------------------------
(***************************************************************************)
(* The worker that reconnects PipeWire, for any outputs and inputs.        *)
(*                                                                         *)
(* The argument.  As long as the same PipeWire runs, the serial number of  *)
(* an id only grows, and one link has one serial number: what the worker   *)
(* takes down by its id and serial is the link it planned to take down.    *)
(* Everything it took down is among what it has removed, and in an attempt *)
(* to restore among what is to do or remains.                              *)
(***************************************************************************)
Objects(ports) == [port : ports, serial : Nat]
PlannedLinks(O, I) == [id : {1, 2}, serial : Nat, out : Objects(O), in : Objects(I)]
WorkerStates(O, I) ==
  [pc : {"poll", "watch", "plan", "unlink", "round", "restore", "exited"},
   initial : BOOLEAN, observed : BOOLEAN, client : Nat, cookie : Nat,
   todo : SUBSET PlannedLinks(O, I), routes : SUBSET (Objects(O) \X Objects(I)),
   removed : SUBSET PlannedLinks(O, I), remaining : SUBSET PlannedLinks(O, I), round : 0 .. Rounds]

GraphTypes(O, I) ==
  /\ cookie \in Nat /\ port \in [O \cup I -> [serial : Nat, present : BOOLEAN]]
  /\ links \in [{1, 2} -> [serial : Nat, route : (O \X I) \cup {Nobody}]]
RefreshTypes(O, I) ==
  /\ daemon \in [number : Nat, serving : BOOLEAN]
  /\ worker \in WorkerStates(O, I) /\ taken \subseteq PlannedLinks(O, I)

(* No two ports are linked twice.                                          *)
Distinct ==
  \A x, y \in {1, 2} : x # y /\ links[x].route # Nobody => links[x].route # links[y].route

(* What the worker handles was there at its plan, with a port of ours.     *)
Planned ==
  \A l \in worker.todo \cup worker.removed \cup worker.remaining :
    <<l.out, l.in>> \in worker.routes /\ "side" \in {l.out.port, l.in.port}

(* A serial number that is still there is of the link that was planned.    *)
Remembered ==
  /\ worker.cookie <= cookie
  /\ worker.pc = "unlink" /\ cookie = worker.cookie =>
       \A l \in worker.todo :
         /\ links[l.id].serial >= l.serial
         /\ links[l.id].serial = l.serial =>
              links[l.id].route \in {Nobody, <<l.out.port, l.in.port>>}

Owed ==
  /\ worker.pc \in {"poll", "watch", "plan", "exited"} =>
       taken = {} /\ worker.removed = {} /\ worker.remaining = {}
  /\ taken \subseteq worker.removed
  /\ worker.pc = "restore" => taken \subseteq worker.todo \cup worker.remaining

RefreshInv(O, I) ==
  /\ GraphTypes(O, I) /\ RefreshTypes(O, I)
  /\ Distinct /\ Planned /\ Remembered /\ Owed

LEMMA RefreshFacts ==
  ASSUME NEW CONSTANT O, NEW CONSTANT I, Links(O, I)!RefreshAssumption
  PROVE  /\ Nobody \notin O \X I /\ Rounds \in Nat \ {0}
         /\ IsFiniteSet(O \X I) /\ Cardinality(O \X I) = 2
  <1>1. IsFiniteSet(O) /\ IsFiniteSet(I) /\ Cardinality({1, 2}) = Cardinality(O \X I)
    BY DEF Links!RefreshAssumption, Links!IsFiniteSet, IsFiniteSet, Links!Cardinality, Cardinality
  <1>2. IsFiniteSet(O \X I)
    BY <1>1, FS_Product
  <1>3. IsFiniteSet({1}) /\ Cardinality({1}) = 1
    BY FS_Singleton
  <1>4. Cardinality({1} \cup {2}) = 2
    BY <1>3, FS_AddElement
  <1>5. {1} \cup {2} = {1, 2}
    OBVIOUS
  <1> QED BY <1>1, <1>2, <1>4, <1>5 DEF Links!RefreshAssumption

LEMMA ThreeAreMore ==
  ASSUME NEW S, IsFiniteSet(S), Cardinality(S) = 2, NEW a \in S, NEW b \in S, NEW c \in S,
         a # b, a # c, b # c
  PROVE  FALSE
  <1> DEFINE One == {a}
             Two == One \cup {b}
             Three == Two \cup {c}
  <1>1. b \notin One /\ c \notin Two /\ Three \subseteq S
    OBVIOUS
  <1>2. IsFiniteSet(One) /\ Cardinality(One) = 1
    BY FS_Singleton
  <1> HIDE DEF One
  <1>3. IsFiniteSet(Two) /\ Cardinality(Two) = 2
    BY <1>1, <1>2, FS_AddElement
  <1> HIDE DEF Two
  <1>4. IsFiniteSet(Three) /\ Cardinality(Three) = 3
    BY <1>1, <1>3, FS_AddElement
  <1> HIDE DEF Three
  <1>5. Cardinality(Three) <= 2
    BY <1>1, FS_Subset
  <1> QED BY <1>4, <1>5

(* There is a free id for a link that is not there.                        *)
LEMMA FreeId ==
  ASSUME NEW CONSTANT O, NEW CONSTANT I, Links(O, I)!RefreshAssumption,
         GraphTypes(O, I), Distinct, NEW r \in O \X I,
         \A x \in {1, 2} : links[x].route # r
  PROVE  \E x \in {1, 2} : links[x].route = Nobody
  <1> SUFFICES ASSUME \A x \in {1, 2} : links[x].route # Nobody PROVE FALSE
    OBVIOUS
  <1> DEFINE a == links[1].route
             b == links[2].route
  <1>1. a \in O \X I /\ b \in O \X I /\ a # b /\ a # r /\ b # r
    BY DEF GraphTypes, Distinct
  <1> HIDE DEF a, b
  <1> DEFINE S == O \X I
  <1>2. IsFiniteSet(S) /\ Cardinality(S) = 2
    BY RefreshFacts
  <1>3. a \in S /\ b \in S /\ r \in S /\ a # b /\ a # r /\ b # r
    BY <1>1
  <1> HIDE DEF S
  <1> QED BY <1>2, <1>3, ThreeAreMore

(* How links change as long as the same PipeWire runs.                     *)
Moved(O, I) ==
  /\ links' \in [{1, 2} -> [serial : Nat, route : (O \X I) \cup {Nobody}]]
  /\ Distinct'
  /\ \A x \in {1, 2} :
       /\ links'[x].serial >= links[x].serial
       /\ links'[x].serial = links[x].serial => links'[x].route \in {Nobody, links[x].route}

LEMMA NewLinked ==
  ASSUME NEW CONSTANT O, NEW CONSTANT I, Links(O, I)!RefreshAssumption,
         GraphTypes(O, I), Distinct, NEW o \in O, NEW i \in I, Links(O, I)!NewLink(o, i)
  PROVE  /\ Moved(O, I)
         /\ \E x \in {1, 2} :
              /\ links[x].route = Nobody /\ links'[x].route = <<o, i>>
              /\ \A y \in {1, 2} \ {x} : links'[y] = links[y]
  <1>1. <<o, i>> \in O \X I /\ \A x \in {1, 2} : links[x].route # <<o, i>>
    BY DEF Links!NewLink, Links!Linked
  <1> DEFINE free == {1, 2} \ Links(O, I)!Present
             x == CHOOSE x \in free : \A y \in free : x <= y
  <1>2. free = {y \in {1, 2} : links[y].route = Nobody}
    BY DEF Links!Present
  <1>3. \E y \in {1, 2} : links[y].route = Nobody
    BY <1>1, FreeId
  <1>4. \E y \in free : \A z \in free : y <= z
    BY <1>2, <1>3
  <1>5. x \in free
    BY <1>4
  <1>6. links' = [links EXCEPT ![x] = [serial |-> links[x].serial + 1, route |-> <<o, i>>]]
    BY DEF Links!NewLink
  <1> HIDE DEF x, free
  <1>7. x \in {1, 2} /\ links[x].route = Nobody
    BY <1>2, <1>5
  <1>8. /\ links'[x] = [serial |-> links[x].serial + 1, route |-> <<o, i>>]
        /\ \A y \in {1, 2} \ {x} : links'[y] = links[y]
        /\ links' \in [{1, 2} -> [serial : Nat, route : (O \X I) \cup {Nobody}]]
    BY <1>1, <1>6, <1>7 DEF GraphTypes
  <1>9. Distinct'
    BY <1>1, <1>7, <1>8 DEF Distinct
  <1>10. \A y \in {1, 2} :
           /\ links'[y].serial >= links[y].serial
           /\ links'[y].serial = links[y].serial => links'[y].route \in {Nobody, links[y].route}
    <2>1. \A y \in {1, 2} : links[y].serial \in Nat
      BY DEF GraphTypes
    <2>2. links'[x].serial = links[x].serial + 1
      BY <1>8
    <2> QED BY <1>7, <1>8, <2>1, <2>2
  <1> QED BY <1>7, <1>8, <1>9, <1>10 DEF Moved

LEMMA UnlinkedMoves ==
  ASSUME NEW CONSTANT O, NEW CONSTANT I, GraphTypes(O, I), Distinct, NEW ids,
         links' = Links(O, I)!Unlinked(ids)
  PROVE  /\ Moved(O, I)
         /\ \A x \in {1, 2} : links'[x] # links[x] => x \in ids
  <1>1. \A x \in {1, 2} : links'[x] = IF x \in ids THEN [links[x] EXCEPT !.route = Nobody] ELSE links[x]
    BY DEF Links!Unlinked
  <1>2. \A x \in {1, 2} : /\ links'[x].serial = links[x].serial /\ links[x].serial \in Nat
                          /\ links'[x].route \in {Nobody, links[x].route}
                          /\ links'[x] \in [serial : Nat, route : (O \X I) \cup {Nobody}]
    BY <1>1 DEF GraphTypes
  <1>3. links' \in [{1, 2} -> [serial : Nat, route : (O \X I) \cup {Nobody}]]
    BY <1>1, <1>2 DEF Links!Unlinked
  <1>4. Distinct'
    BY <1>2 DEF Distinct
  <1> QED BY <1>1, <1>2, <1>3, <1>4 DEF Moved

WorkerInv(O, I) == RefreshTypes(O, I) /\ Planned /\ Owed

(* What the worker still has to do stays true while links move.            *)
LEMMA Shortened ==
  ASSUME NEW CONSTANT O, NEW CONSTANT I, RefreshInv(O, I), Moved(O, I),
         cookie' = cookie, port' \in [O \cup I -> [serial : Nat, present : BOOLEAN]],
         WorkerInv(O, I)',
         worker'.pc = worker.pc, worker'.cookie = worker.cookie,
         worker'.todo \subseteq worker.todo
  PROVE  RefreshInv(O, I)'
  <1>1. GraphTypes(O, I)' /\ Distinct'
    BY DEF RefreshInv, GraphTypes, Moved
  <1>2. worker'.cookie <= cookie'
    BY DEF RefreshInv, Remembered
  <1>3. ASSUME worker.pc = "unlink", cookie = worker.cookie, NEW l \in worker.todo
        PROVE  /\ links'[l.id].serial >= l.serial
               /\ links'[l.id].serial = l.serial =>
                    links'[l.id].route \in {Nobody, <<l.out.port, l.in.port>>}
    <2>1. l.id \in {1, 2} /\ l.serial \in Nat
      BY DEF RefreshInv, RefreshTypes, WorkerStates, PlannedLinks
    <2>2. /\ links[l.id].serial >= l.serial
          /\ links[l.id].serial = l.serial =>
               links[l.id].route \in {Nobody, <<l.out.port, l.in.port>>}
      BY <1>3 DEF RefreshInv, Remembered
    <2>3. links[l.id].serial \in Nat /\ links'[l.id].serial \in Nat
      BY <2>1 DEF RefreshInv, GraphTypes, Moved
    <2>4. /\ links'[l.id].serial >= links[l.id].serial
          /\ links'[l.id].serial = links[l.id].serial =>
               links'[l.id].route \in {Nobody, links[l.id].route}
      BY <2>1 DEF Moved
    <2>5. links'[l.id].serial = l.serial =>
            links'[l.id].serial = links[l.id].serial /\ links[l.id].serial = l.serial
      BY <2>1, <2>2, <2>3, <2>4
    <2>6. links'[l.id].serial >= l.serial
      BY <2>1, <2>2, <2>3, <2>4
    <2> QED BY <2>2, <2>4, <2>5, <2>6
  <1>4. Remembered'
    BY <1>2, <1>3 DEF Remembered
  <1> QED BY <1>1, <1>4 DEF RefreshInv, WorkerInv

(* Steps of the others.                                                    *)
LEMMA OthersMove ==
  ASSUME NEW CONSTANT O, NEW CONSTANT I, RefreshInv(O, I), Moved(O, I),
         cookie' = cookie, port' \in [O \cup I -> [serial : Nat, present : BOOLEAN]],
         daemon' = daemon, worker' = worker, taken' = taken
  PROVE  RefreshInv(O, I)'
  <1>1. WorkerInv(O, I)'
    BY DEF WorkerInv, RefreshInv, RefreshTypes, Planned, Owed, PlannedLinks, Objects, WorkerStates
  <1> QED BY <1>1, Shortened

LEMMA LinksStay ==
  ASSUME NEW CONSTANT O, NEW CONSTANT I, GraphTypes(O, I), Distinct, links' = links
  PROVE  Moved(O, I)
  <1>1. \A x \in {1, 2} : links[x].serial \in Nat
    BY DEF GraphTypes
  <1> QED BY <1>1 DEF GraphTypes, Distinct, Moved

LEMMA EnvironmentStep ==
  ASSUME NEW CONSTANT O, NEW CONSTANT I, Links(O, I)!RefreshAssumption, RefreshInv(O, I),
         \/ Links(O, I)!Route \/ Links(O, I)!Unroute \/ Links(O, I)!PortLeaves
         \/ Links(O, I)!PortComes \/ Links(O, I)!PipeWireRestarts
         \/ Links(O, I)!DaemonServes \/ Links(O, I)!DaemonDies
  PROVE  RefreshInv(O, I)' /\ worker' = worker
  <1>0. GraphTypes(O, I) /\ Distinct
    BY DEF RefreshInv
  <1>1. CASE Links(O, I)!Route
    <2>1. PICK o \in O, i \in I : Links(O, I)!NewLink(o, i)
      BY <1>1 DEF Links!Route
    <2>2. Moved(O, I)
      BY <1>0, <2>1, NewLinked
    <2>3. /\ cookie' = cookie /\ port' = port /\ daemon' = daemon /\ worker' = worker
          /\ taken' = taken
      BY <1>1 DEF Links!Route, Links!WorkerRests
    <2>4. port' \in [O \cup I -> [serial : Nat, present : BOOLEAN]]
      BY <1>0, <2>3 DEF GraphTypes
    <2> QED BY <2>2, <2>3, <2>4, OthersMove
  <1>2. CASE Links(O, I)!Unroute
    <2>1. PICK x \in Links(O, I)!Present : links' = Links(O, I)!Unlinked({x})
      BY <1>2 DEF Links!Unroute
    <2>2. Moved(O, I)
      BY <1>0, <2>1, UnlinkedMoves
    <2>3. /\ cookie' = cookie /\ port' = port /\ daemon' = daemon /\ worker' = worker
          /\ taken' = taken
      BY <1>2 DEF Links!Unroute, Links!WorkerRests
    <2>4. port' \in [O \cup I -> [serial : Nat, present : BOOLEAN]]
      BY <1>0, <2>3 DEF GraphTypes
    <2> QED BY <2>2, <2>3, <2>4, OthersMove
  <1>3. CASE Links(O, I)!PortLeaves
    <2>1. PICK p \in O \cup I :
            /\ port' = [port EXCEPT ![p].present = FALSE]
            /\ links' = Links(O, I)!Unlinked({x \in Links(O, I)!Present :
                                              p \in {links[x].route[1], links[x].route[2]}})
      BY <1>3 DEF Links!PortLeaves, Links!Ports
    <2>2. Moved(O, I)
      BY <1>0, <2>1, UnlinkedMoves
    <2>3. cookie' = cookie /\ daemon' = daemon /\ worker' = worker /\ taken' = taken
      BY <1>3 DEF Links!PortLeaves, Links!WorkerRests
    <2>4. port' \in [O \cup I -> [serial : Nat, present : BOOLEAN]]
      BY <1>0, <2>1 DEF GraphTypes
    <2> QED BY <2>2, <2>3, <2>4, OthersMove
  <1>4. CASE Links(O, I)!PortComes
    <2>1. PICK p \in O \cup I :
            port' = [port EXCEPT ![p] = [serial |-> port[p].serial + 1, present |-> TRUE]]
      BY <1>4 DEF Links!PortComes, Links!Ports
    <2>2. /\ cookie' = cookie /\ links' = links /\ daemon' = daemon /\ worker' = worker
          /\ taken' = taken
      BY <1>4 DEF Links!PortComes, Links!WorkerRests
    <2>3. port' \in [O \cup I -> [serial : Nat, present : BOOLEAN]]
      BY <1>0, <2>1 DEF GraphTypes
    <2> QED BY <1>0, <2>2, <2>3, LinksStay, OthersMove
  <1>5. CASE Links(O, I)!PipeWireRestarts
    <2>1. /\ cookie' = cookie + 1 /\ daemon' = daemon /\ worker' = worker /\ taken' = taken
          /\ port' = [p \in O \cup I |-> [serial |-> 1, present |-> TRUE]]
          /\ links' = [x \in {1, 2} |-> [serial |-> 0, route |-> Nobody]]
      BY <1>5 DEF Links!PipeWireRestarts, Links!WorkerRests, Links!Ports
    <2>2. GraphTypes(O, I)' /\ RefreshTypes(O, I)' /\ Distinct'
      BY <1>0, <2>1 DEF RefreshInv, GraphTypes, RefreshTypes, Distinct
    <2>3. Planned' /\ Owed'
      BY <2>1 DEF RefreshInv, Planned, Owed
    <2>4. Remembered'
      <3>1. worker.cookie <= cookie /\ worker.cookie \in Nat /\ cookie \in Nat
        BY <1>0 DEF RefreshInv, Remembered, RefreshTypes, WorkerStates, GraphTypes
      <3>2. worker.cookie <= cookie + 1 /\ worker.cookie # cookie + 1
        BY <3>1
      <3> QED BY <2>1, <3>2 DEF Remembered
    <2> QED BY <2>1, <2>2, <2>3, <2>4 DEF RefreshInv
  <1>6. CASE Links(O, I)!DaemonServes \/ Links(O, I)!DaemonDies
    <2>1. UNCHANGED <<cookie, port, links, worker, taken>>
      BY <1>6 DEF Links!DaemonServes, Links!DaemonDies, Links!graphVars
    <2>2. daemon' \in [number : Nat, serving : BOOLEAN]
      <3>1. daemon \in [number : Nat, serving : BOOLEAN]
        BY DEF RefreshInv, RefreshTypes
      <3>2. \/ daemon' = [daemon EXCEPT !.serving = TRUE]
            \/ daemon' = [number |-> daemon.number + 1, serving |-> FALSE]
        BY <1>6 DEF Links!DaemonServes, Links!DaemonDies
      <3>3. daemon' \in {[number |-> daemon.number, serving |-> TRUE],
                         [number |-> daemon.number + 1, serving |-> FALSE]}
        BY <3>1, <3>2
      <3>4. daemon.number \in Nat /\ daemon.number + 1 \in Nat
        BY <3>1
      <3>5. ASSUME NEW n \in Nat, NEW b \in BOOLEAN
            PROVE  [number |-> n, serving |-> b] \in [number : Nat, serving : BOOLEAN]
        OBVIOUS
      <3> QED BY <3>3, <3>4, <3>5
    <2>3. GraphTypes(O, I)' /\ Distinct' /\ Planned' /\ Remembered' /\ Owed'
      BY <2>1 DEF RefreshInv, GraphTypes, Distinct, Planned, Remembered, Owed
    <2>4. RefreshTypes(O, I)'
      BY <2>1, <2>2 DEF RefreshInv, RefreshTypes, WorkerStates, PlannedLinks, Objects
    <2> QED BY <2>1, <2>3, <2>4 DEF RefreshInv
  <1> QED BY <1>1, <1>2, <1>3, <1>4, <1>5, <1>6

(* Steps of the worker.  Most of them leave the graph alone.               *)
LEMMA GraphRests ==
  ASSUME NEW CONSTANT O, NEW CONSTANT I, RefreshInv(O, I), WorkerInv(O, I)',
         UNCHANGED <<cookie, port, links>>, worker'.cookie <= cookie,
         worker'.pc = "unlink" => /\ worker.pc = "unlink" /\ worker'.cookie = worker.cookie
                                  /\ worker'.todo \subseteq worker.todo
  PROVE  RefreshInv(O, I)' /\ Links(O, I)!RoutesRemain
  <1>1. GraphTypes(O, I)' /\ Distinct'
    BY DEF RefreshInv, GraphTypes, Distinct
  <1>2. Remembered'
    BY DEF RefreshInv, Remembered
  <1>3. Links(O, I)!RoutesRemain
    BY DEF Links!RoutesRemain
  <1> QED BY <1>1, <1>2, <1>3 DEF RefreshInv, WorkerInv

LEMMA StartedTypes ==
  ASSUME NEW CONSTANT O, NEW CONSTANT I, Links(O, I)!RefreshAssumption, NEW b \in BOOLEAN
  PROVE  Links(O, I)!Started(b) \in WorkerStates(O, I)
  <1>0. Rounds \in Nat
    BY RefreshFacts
  <1>1. 0 \in Nat /\ 0 \in 0 .. Rounds
    BY <1>0
  <1>2. {} \in SUBSET PlannedLinks(O, I) /\ {} \in SUBSET (Objects(O) \X Objects(I))
    OBVIOUS
  <1> QED BY <1>1, <1>2 DEF Links!Started, WorkerStates

LEMMA ExitStep ==
  ASSUME NEW CONSTANT O, NEW CONSTANT I, Links(O, I)!RefreshAssumption, RefreshInv(O, I),
         Links(O, I)!Exit
  PROVE  RefreshInv(O, I)' /\ Links(O, I)!RoutesRemain
  <1> DEFINE s == IF worker.initial THEN Links(O, I)!Started(TRUE)
                  ELSE [Links(O, I)!Started(FALSE) EXCEPT !.pc = "exited"]
  <1>1. s \in WorkerStates(O, I)
    BY StartedTypes DEF WorkerStates
  <1>2. /\ s.pc \in {"poll", "exited"} /\ s.cookie = 0 /\ s.todo = {} /\ s.removed = {}
        /\ s.remaining = {}
    BY DEF Links!Started
  <1>3. worker' = s /\ taken' = {} /\ daemon' = daemon /\ UNCHANGED <<cookie, port, links>>
    BY DEF Links!Exit, Links!graphVars
  <1> HIDE DEF s
  <1>4. WorkerInv(O, I)'
    BY <1>1, <1>2, <1>3 DEF WorkerInv, RefreshInv, RefreshTypes, Planned, Owed, PlannedLinks,
       WorkerStates, Objects
  <1>5. worker'.cookie <= cookie
    BY <1>2, <1>3 DEF RefreshInv, GraphTypes
  <1> QED BY <1>2, <1>3, <1>4, <1>5, GraphRests

LEMMA QuietStep ==
  ASSUME NEW CONSTANT O, NEW CONSTANT I, Links(O, I)!RefreshAssumption, RefreshInv(O, I),
         \/ Links(O, I)!Poll \/ Links(O, I)!Watch \/ Links(O, I)!EndUnlink
         \/ Links(O, I)!Round \/ Links(O, I)!EndRound \/ Links(O, I)!Complete
         \/ \E l \in worker.todo : Links(O, I)!Leave(l)
  PROVE  RefreshInv(O, I)' /\ Links(O, I)!RoutesRemain
  <1>0. worker \in WorkerStates(O, I) /\ daemon.number \in Nat /\ Rounds \in Nat
    BY RefreshFacts DEF RefreshInv, RefreshTypes
  <1>00. taken \subseteq PlannedLinks(O, I) /\ daemon \in [number : Nat, serving : BOOLEAN]
    BY DEF RefreshInv, RefreshTypes
  <1>1. daemon' = daemon /\ UNCHANGED <<cookie, port, links>>
    BY DEF Links!Poll, Links!Watch, Links!EndUnlink, Links!Round, Links!EndRound,
       Links!Complete, Links!Leave, Links!graphVars
  <1>2. worker.cookie <= cookie /\ cookie \in Nat
    BY DEF RefreshInv, Remembered, GraphTypes
  <1> SUFFICES /\ worker' \in WorkerStates(O, I) /\ taken' \subseteq PlannedLinks(O, I)
               /\ Planned' /\ Owed' /\ worker'.cookie <= cookie
               /\ worker'.pc # "unlink"
    <2> SUFFICES WorkerInv(O, I)'
      BY <1>1, GraphRests
    <2> QED BY <1>1, <1>00 DEF WorkerInv, RefreshTypes, WorkerStates, PlannedLinks, Objects
  <1>3. CASE Links(O, I)!Poll
    <2> DEFINE s == [worker EXCEPT !.client = daemon.number, !.observed = TRUE,
                                   !.pc = IF worker.observed THEN "plan" ELSE "watch"]
    <2>1. s \in WorkerStates(O, I)
      BY <1>0 DEF WorkerStates
    <2>2. /\ s.pc \in {"plan", "watch"} /\ s.cookie = worker.cookie /\ s.todo = worker.todo
          /\ s.removed = worker.removed /\ s.remaining = worker.remaining
          /\ s.routes = worker.routes
      BY <1>0 DEF WorkerStates
    <2>3. worker.pc = "poll" /\ worker' = s /\ taken' = taken
      BY <1>3 DEF Links!Poll
    <2> HIDE DEF s
    <2>4. Planned'
      BY <2>2, <2>3 DEF RefreshInv, Planned
    <2>5. Owed'
      BY <2>2, <2>3 DEF RefreshInv, Owed
    <2> QED BY <1>00, <1>2, <2>1, <2>2, <2>3, <2>4, <2>5
  <1>4. CASE Links(O, I)!Watch
    <2> DEFINE s == [worker EXCEPT !.pc = "poll", !.client = 0]
    <2>1. s \in WorkerStates(O, I)
      BY <1>0 DEF WorkerStates
    <2>2. /\ s.pc = "poll" /\ s.cookie = worker.cookie /\ s.todo = worker.todo
          /\ s.removed = worker.removed /\ s.remaining = worker.remaining
          /\ s.routes = worker.routes
      BY <1>0 DEF WorkerStates
    <2>3. worker.pc = "watch" /\ worker' = s /\ taken' = taken
      BY <1>4 DEF Links!Watch
    <2> HIDE DEF s
    <2>4. Planned'
      BY <2>2, <2>3 DEF RefreshInv, Planned
    <2>5. Owed'
      BY <2>2, <2>3 DEF RefreshInv, Owed
    <2> QED BY <1>00, <1>2, <2>1, <2>2, <2>3, <2>4, <2>5
  <1>5. CASE Links(O, I)!EndUnlink
    <2> DEFINE s == [worker EXCEPT !.pc = "round", !.todo = {}]
    <2>1. s \in WorkerStates(O, I)
      BY <1>0 DEF WorkerStates
    <2>2. /\ s.pc = "round" /\ s.cookie = worker.cookie /\ s.todo = {}
          /\ s.removed = worker.removed /\ s.remaining = worker.remaining
          /\ s.routes = worker.routes
      BY <1>0 DEF WorkerStates
    <2>3. worker' = s /\ taken' = taken
      BY <1>5 DEF Links!EndUnlink
    <2> HIDE DEF s
    <2>4. Planned'
      BY <2>2, <2>3 DEF RefreshInv, Planned
    <2>5. Owed'
      BY <2>2, <2>3 DEF RefreshInv, Owed
    <2> QED BY <1>00, <1>2, <2>1, <2>2, <2>3, <2>4, <2>5
  <1>6. CASE Links(O, I)!Round
    <2> DEFINE s == [worker EXCEPT !.pc = "restore", !.todo = worker.removed,
                                   !.remaining = {}, !.round = @ + 1]
    <2>0. worker.round < Rounds /\ worker' = s /\ taken' = taken
      BY <1>6 DEF Links!Round
    <2>1. s \in WorkerStates(O, I)
      <3>1. worker.round + 1 \in 0 .. Rounds
        BY <1>0, <2>0 DEF WorkerStates
      <3>2. s = [worker EXCEPT !.pc = "restore", !.todo = worker.removed,
                               !.remaining = {}, !.round = worker.round + 1]
        BY <1>0 DEF WorkerStates
      <3> QED BY <1>0, <3>1, <3>2 DEF WorkerStates
    <2>2. /\ s.pc = "restore" /\ s.cookie = worker.cookie /\ s.todo = worker.removed
          /\ s.removed = worker.removed /\ s.remaining = {}
          /\ s.routes = worker.routes
      BY <1>0 DEF WorkerStates
    <2> HIDE DEF s
    <2>4. Planned'
      BY <2>0, <2>2 DEF RefreshInv, Planned
    <2>5. Owed'
      BY <2>0, <2>2 DEF RefreshInv, Owed
    <2> QED BY <1>00, <1>2, <2>0, <2>1, <2>2, <2>4, <2>5
  <1>7. CASE Links(O, I)!EndRound
    <2>0. worker.pc = "restore" /\ taken' = taken
      BY <1>7 DEF Links!EndRound
    <2>1. /\ worker' \in WorkerStates(O, I)
          /\ worker'.pc = "round" /\ worker'.cookie = worker.cookie
          /\ worker'.todo = worker.todo /\ worker'.remaining = worker.remaining
          /\ worker'.routes = worker.routes
          /\ worker'.removed \in {worker.removed, worker.remaining}
          /\ worker'.removed = worker.remaining \/ worker'.removed = worker.removed
      BY <1>0, <1>7 DEF Links!EndRound, WorkerStates
    <2>2. worker.todo = {} \/ worker'.removed = worker.removed
      BY <1>0, <1>7 DEF Links!EndRound, WorkerStates
    <2>4. Planned'
      BY <2>1 DEF RefreshInv, Planned
    <2>5. Owed'
      <3>1. taken \subseteq worker.removed /\ taken \subseteq worker.todo \cup worker.remaining
        BY <2>0 DEF RefreshInv, Owed
      <3>2. taken \subseteq worker'.removed
        BY <2>1, <2>2, <3>1
      <3> QED BY <2>0, <2>1, <3>2 DEF Owed
    <2> QED BY <1>00, <1>2, <2>0, <2>1, <2>4, <2>5
  <1>8. CASE Links(O, I)!Complete
    <2> DEFINE s == [Links(O, I)!Started(worker.initial) EXCEPT
                       !.pc = "watch", !.observed = TRUE, !.client = worker.client]
    <2>0. worker' = s /\ taken' = taken /\ worker.removed = {}
      BY <1>8 DEF Links!Complete
    <2>1. s \in WorkerStates(O, I)
      <3>1. Links(O, I)!Started(worker.initial) \in WorkerStates(O, I) /\ worker.client \in Nat
        BY <1>0, StartedTypes DEF WorkerStates
      <3> QED BY <3>1 DEF WorkerStates
    <2>2. /\ s.pc = "watch" /\ s.cookie = 0 /\ s.todo = {}
          /\ s.removed = {} /\ s.remaining = {}
      BY DEF Links!Started
    <2> HIDE DEF s
    <2>4. Planned'
      BY <2>0, <2>2 DEF Planned
    <2>5. Owed'
      BY <2>0, <2>2 DEF RefreshInv, Owed
    <2> QED BY <1>00, <1>2, <2>0, <2>1, <2>2, <2>4, <2>5
  <1>9. ASSUME NEW l \in worker.todo, Links(O, I)!Leave(l)
        PROVE  /\ worker' \in WorkerStates(O, I) /\ taken' \subseteq PlannedLinks(O, I)
               /\ Planned' /\ Owed' /\ worker'.cookie <= cookie
               /\ worker'.pc # "unlink"
    <2> DEFINE s == [worker EXCEPT !.todo = @ \ {l}]
    <2>0. worker' = s /\ taken' = taken \ {l} /\ worker.pc = "restore"
      BY <1>9 DEF Links!Leave
    <2>1. s \in WorkerStates(O, I)
      BY <1>0 DEF WorkerStates
    <2>2. /\ s.pc = "restore" /\ s.cookie = worker.cookie /\ s.todo = worker.todo \ {l}
          /\ s.removed = worker.removed /\ s.remaining = worker.remaining
          /\ s.routes = worker.routes
      BY <1>0, <2>0 DEF WorkerStates
    <2> HIDE DEF s
    <2>4. Planned'
      BY <2>0, <2>2 DEF RefreshInv, Planned
    <2>5. Owed'
      BY <2>0, <2>2 DEF RefreshInv, Owed
    <2> QED BY <1>00, <1>2, <2>0, <2>1, <2>2, <2>4, <2>5
  <1> QED BY <1>3, <1>4, <1>5, <1>6, <1>7, <1>8, <1>9

LEMMA PlanStep ==
  ASSUME NEW CONSTANT O, NEW CONSTANT I, Links(O, I)!RefreshAssumption, RefreshInv(O, I),
         Links(O, I)!Plan
  PROVE  RefreshInv(O, I)' /\ Links(O, I)!RoutesRemain
  <1>1. CASE Links(O, I)!Exit
    BY <1>1, ExitStep
  <1>2. CASE ~Links(O, I)!Exit
    <2> DEFINE Object(p) == [port |-> p, serial |-> port[p].serial]
               Link(x) == [id |-> x, serial |-> links[x].serial,
                           out |-> Object(links[x].route[1]), in |-> Object(links[x].route[2])]
               there == {x \in {1, 2} : links[x].route # Nobody}
               ours == {y \in there : {links[y].route[1], links[y].route[2]} \cap {"side"} # {}}
               todo == {Link(x) : x \in ours}
               routes == {<<Object(links[x].route[1]), Object(links[x].route[2])>> : x \in there}
               s == [worker EXCEPT !.pc = "unlink", !.cookie = cookie, !.routes = routes,
                                   !.todo = todo]
    <2>1. /\ worker.pc = "plan" /\ worker' = s
          /\ UNCHANGED <<cookie, port, links, daemon, taken>>
      BY <1>2 DEF Links!Plan, Links!Present, Links!Routes, Links!Out, Links!In, Links!Identity,
         Links!graphVars
    <2>2. \A x \in there : /\ links[x].route \in O \X I /\ links[x].serial \in Nat
                           /\ Object(links[x].route[1]) \in Objects(O)
                           /\ Object(links[x].route[2]) \in Objects(I)
      BY DEF RefreshInv, GraphTypes, Objects
    <2>3. routes \in SUBSET (Objects(O) \X Objects(I))
      BY <2>2
    <2>4. todo \in SUBSET PlannedLinks(O, I)
      BY <2>2 DEF PlannedLinks
    <2>5. \A l \in todo : \E x \in there :
            /\ l.id = x /\ l.serial = links[x].serial
            /\ l.out = Object(links[x].route[1]) /\ l.in = Object(links[x].route[2])
            /\ "side" \in {links[x].route[1], links[x].route[2]}
      OBVIOUS
    <2>6. \A l \in todo : <<l.out, l.in>> \in routes /\ "side" \in {l.out.port, l.in.port}
      BY <2>5
    <2>7. \A l \in todo : /\ links[l.id].serial = l.serial /\ l.serial \in Nat
                          /\ links[l.id].route = <<l.out.port, l.in.port>>
      <3> SUFFICES ASSUME NEW l \in todo
                   PROVE  /\ links[l.id].serial = l.serial /\ l.serial \in Nat
                          /\ links[l.id].route = <<l.out.port, l.in.port>>
        OBVIOUS
      <3>1. PICK x \in there :
              /\ l.id = x /\ l.serial = links[x].serial
              /\ l.out = Object(links[x].route[1]) /\ l.in = Object(links[x].route[2])
        BY <2>5
      <3>2. links[x].route \in O \X I /\ links[x].serial \in Nat
        BY <2>2
      <3>3. l.out.port = links[x].route[1] /\ l.in.port = links[x].route[2]
        BY <3>1
      <3>4. links[x].route = <<links[x].route[1], links[x].route[2]>>
        BY <3>2
      <3> QED BY <3>1, <3>2, <3>3, <3>4
    <2> HIDE DEF Object, Link, there, ours, todo, routes
    <2>8. worker \in WorkerStates(O, I) /\ cookie \in Nat
      BY DEF RefreshInv, RefreshTypes, GraphTypes
    <2>9. s \in WorkerStates(O, I)
      BY <2>3, <2>4, <2>8 DEF WorkerStates
    <2>10. /\ s.pc = "unlink" /\ s.cookie = cookie /\ s.routes = routes /\ s.todo = todo
           /\ s.removed = worker.removed /\ s.remaining = worker.remaining
      BY <2>8 DEF WorkerStates
    <2> HIDE DEF s
    <2>11. taken = {} /\ worker.removed = {} /\ worker.remaining = {}
      BY <2>1 DEF RefreshInv, Owed
    <2>12. Planned' /\ Owed'
      BY <2>1, <2>6, <2>10, <2>11 DEF Planned, Owed
    <2>13. Remembered'
      <3>1. worker'.todo = todo /\ links' = links /\ worker'.cookie = cookie /\ cookie' = cookie
        BY <2>1, <2>10
      <3>2. ASSUME NEW l \in todo
            PROVE  /\ links[l.id].serial >= l.serial
                   /\ links[l.id].route \in {Nobody, <<l.out.port, l.in.port>>}
        <4>1. links[l.id].serial = l.serial /\ l.serial \in Nat
          BY <2>7
        <4>2. links[l.id].route = <<l.out.port, l.in.port>>
          BY <2>7
        <4> QED BY <4>1, <4>2
      <3>3. cookie <= cookie
        BY <2>8
      <3> QED BY <3>1, <3>2, <3>3 DEF Remembered
    <2>14. GraphTypes(O, I)' /\ Distinct'
      BY <2>1 DEF RefreshInv, GraphTypes, Distinct
    <2>15. RefreshTypes(O, I)'
      <3>1. worker' \in WorkerStates(O, I)
        BY <2>1, <2>9
      <3> QED BY <2>1, <2>11, <3>1 DEF RefreshInv, RefreshTypes, WorkerStates, PlannedLinks, Objects
    <2>16. Links(O, I)!RoutesRemain
      BY <2>1 DEF Links!RoutesRemain
    <2> QED BY <2>12, <2>13, <2>14, <2>15, <2>16 DEF RefreshInv
  <1> QED BY <1>1, <1>2

LEMMA UnlinkStep ==
  ASSUME NEW CONSTANT O, NEW CONSTANT I, Links(O, I)!RefreshAssumption, RefreshInv(O, I),
         NEW l \in worker.todo, Links(O, I)!Unlink(l)
  PROVE  RefreshInv(O, I)' /\ Links(O, I)!RoutesRemain
  <1>0. worker \in WorkerStates(O, I) /\ taken \subseteq PlannedLinks(O, I)
        /\ GraphTypes(O, I) /\ Distinct
    BY DEF RefreshInv, RefreshTypes
  <1>1. l \in PlannedLinks(O, I)
    BY <1>0 DEF WorkerStates
  <1>2. /\ worker.pc = "unlink" /\ cookie' = cookie /\ port' = port /\ daemon' = daemon
        /\ cookie = worker.cookie
    BY DEF Links!Unlink
  <1>3. /\ worker' \in WorkerStates(O, I)
        /\ worker'.pc = worker.pc /\ worker'.cookie = worker.cookie
        /\ worker'.todo = worker.todo \ {l} /\ worker'.remaining = worker.remaining
        /\ worker'.routes = worker.routes
    <2> DEFINE s == [worker EXCEPT !.todo = @ \ {l}]
               t == [worker EXCEPT !.todo = @ \ {l}, !.removed = @ \cup {l}]
    <2>1. worker' = s \/ worker' = t
      BY DEF Links!Unlink
    <2>2. s \in WorkerStates(O, I) /\ t \in WorkerStates(O, I)
      BY <1>0, <1>1 DEF WorkerStates
    <2>3. /\ s.pc = worker.pc /\ s.cookie = worker.cookie /\ s.todo = worker.todo \ {l}
          /\ s.remaining = worker.remaining /\ s.routes = worker.routes
      BY <1>0 DEF WorkerStates
    <2>4. /\ t.pc = worker.pc /\ t.cookie = worker.cookie /\ t.todo = worker.todo \ {l}
          /\ t.remaining = worker.remaining /\ t.routes = worker.routes
      BY <1>0 DEF WorkerStates
    <2> HIDE DEF s, t
    <2> QED BY <2>1, <2>2, <2>3, <2>4
  <1>4. /\ \/ worker'.removed = worker.removed /\ taken' = taken
           \/ worker'.removed = worker.removed \cup {l} /\ taken' = taken \cup {l}
        /\ \/ links' = links
           \/ links' = Links(O, I)!Unlinked({l.id}) /\ Links(O, I)!Same(l)
    BY <1>0, <1>1 DEF Links!Unlink, WorkerStates
  <1>5. Moved(O, I) /\ \A x \in {1, 2} : links'[x] # links[x] => x = l.id /\ Links(O, I)!Same(l)
    <2>1. CASE links' = links
      BY <1>0, <2>1, LinksStay
    <2>2. CASE links' # links
      BY <1>0, <1>4, <2>2, UnlinkedMoves
    <2> QED BY <2>1, <2>2
  <1>6. WorkerInv(O, I)'
    <2>1. taken' \subseteq PlannedLinks(O, I) /\ daemon \in [number : Nat, serving : BOOLEAN]
      BY <1>0, <1>1, <1>4 DEF RefreshInv, RefreshTypes
    <2>2. RefreshTypes(O, I)'
      BY <1>2, <1>3, <2>1 DEF RefreshTypes, WorkerStates, PlannedLinks, Objects
    <2>3. Planned'
      BY <1>3, <1>4 DEF RefreshInv, Planned
    <2>4. Owed'
      BY <1>2, <1>3, <1>4 DEF RefreshInv, Owed
    <2> QED BY <2>2, <2>3, <2>4 DEF WorkerInv
  <1>7. RefreshInv(O, I)'
    <2>1. port' \in [O \cup I -> [serial : Nat, present : BOOLEAN]]
      BY <1>0, <1>2 DEF GraphTypes
    <2>2. worker'.todo \subseteq worker.todo
      BY <1>3
    <2> QED BY <1>2, <1>3, <1>5, <1>6, <2>1, <2>2, Shortened
  <1>8. Links(O, I)!RoutesRemain
    <2> SUFFICES ASSUME NEW x \in {1, 2}, links'[x] # links[x]
                 PROVE  /\ links[x].route # Nobody
                        /\ {links[x].route[1], links[x].route[2]} \cap {"side"} # {}
                        /\ <<[port |-> links[x].route[1], serial |-> port[links[x].route[1]].serial],
                             [port |-> links[x].route[2], serial |-> port[links[x].route[2]].serial]>>
                             \in worker.routes
      BY DEF Links!RoutesRemain, Links!Out, Links!In, Links!Identity
    <2>1. x = l.id /\ Links(O, I)!Same(l)
      BY <1>5
    <2>2. links[x].route # Nobody /\ links[x].route = <<l.out.port, l.in.port>>
      BY <1>2, <2>1 DEF Links!Same, RefreshInv, Remembered
    <2>3. /\ <<l.out, l.in>> \in worker.routes /\ "side" \in {l.out.port, l.in.port}
      BY DEF RefreshInv, Planned
    <2>4. port[l.out.port].serial = l.out.serial /\ port[l.in.port].serial = l.in.serial
      BY <2>1 DEF Links!Same, Links!Current
    <2>5. l.out = [port |-> l.out.port, serial |-> l.out.serial]
          /\ l.in = [port |-> l.in.port, serial |-> l.in.serial]
      BY <1>1 DEF PlannedLinks, Objects
    <2>6. links[x].route[1] = l.out.port /\ links[x].route[2] = l.in.port
      BY <2>2
    <2> QED BY <2>2, <2>3, <2>4, <2>5, <2>6
  <1> QED BY <1>7, <1>8

LEMMA CreateStep ==
  ASSUME NEW CONSTANT O, NEW CONSTANT I, Links(O, I)!RefreshAssumption, RefreshInv(O, I),
         NEW l \in worker.todo, Links(O, I)!Create(l)
  PROVE  RefreshInv(O, I)' /\ Links(O, I)!RoutesRemain
  <1>0. worker \in WorkerStates(O, I) /\ taken \subseteq PlannedLinks(O, I)
        /\ GraphTypes(O, I) /\ Distinct
    BY DEF RefreshInv, RefreshTypes
  <1>1. l \in PlannedLinks(O, I) /\ l.out.port \in O /\ l.in.port \in I
    BY <1>0 DEF WorkerStates, PlannedLinks, Objects
  <1>2. /\ worker.pc = "restore" /\ cookie' = cookie /\ port' = port /\ daemon' = daemon
        /\ Links(O, I)!Creates(l)
    BY DEF Links!Create
  <1>3. /\ worker' \in WorkerStates(O, I)
        /\ worker'.pc = worker.pc /\ worker'.cookie = worker.cookie
        /\ worker'.todo = worker.todo \ {l} /\ worker'.removed = worker.removed
        /\ worker'.routes = worker.routes
    <2> DEFINE s == [worker EXCEPT !.todo = @ \ {l}]
               t == [worker EXCEPT !.todo = @ \ {l}, !.remaining = @ \cup {l}]
    <2>1. worker' = s \/ worker' = t
      BY DEF Links!Create
    <2>2. s \in WorkerStates(O, I) /\ t \in WorkerStates(O, I)
      BY <1>0, <1>1 DEF WorkerStates
    <2>3. /\ s.pc = worker.pc /\ s.cookie = worker.cookie /\ s.todo = worker.todo \ {l}
          /\ s.removed = worker.removed /\ s.routes = worker.routes
      BY <1>0 DEF WorkerStates
    <2>4. /\ t.pc = worker.pc /\ t.cookie = worker.cookie /\ t.todo = worker.todo \ {l}
          /\ t.removed = worker.removed /\ t.routes = worker.routes
      BY <1>0 DEF WorkerStates
    <2> HIDE DEF s, t
    <2> QED BY <2>1, <2>2, <2>3, <2>4
  <1>4. /\ \/ worker'.remaining = worker.remaining /\ taken' = taken \ {l}
           \/ worker'.remaining = worker.remaining \cup {l} /\ taken' = taken
        /\ links' = links \/ Links(O, I)!NewLink(l.out.port, l.in.port)
    BY <1>0, <1>1 DEF Links!Create, WorkerStates
  <1>5. Moved(O, I)
        /\ \A x \in {1, 2} : links'[x] # links[x] =>
             links[x].route = Nobody /\ links'[x].route = <<l.out.port, l.in.port>>
    <2>1. CASE links' = links
      BY <1>0, <2>1, LinksStay
    <2>2. CASE links' # links
      <3>1. Links(O, I)!NewLink(l.out.port, l.in.port)
        BY <1>4, <2>2
      <3> QED BY <1>0, <1>1, <3>1, NewLinked
    <2> QED BY <2>1, <2>2
  <1>6. WorkerInv(O, I)'
    <2>1. taken' \subseteq PlannedLinks(O, I) /\ daemon \in [number : Nat, serving : BOOLEAN]
      BY <1>0, <1>1, <1>4 DEF RefreshInv, RefreshTypes
    <2>2. RefreshTypes(O, I)'
      BY <1>2, <1>3, <2>1 DEF RefreshTypes, WorkerStates, PlannedLinks, Objects
    <2>3. Planned'
      BY <1>3, <1>4 DEF RefreshInv, Planned
    <2>4. Owed'
      BY <1>2, <1>3, <1>4 DEF RefreshInv, Owed
    <2> QED BY <2>2, <2>3, <2>4 DEF WorkerInv
  <1>7. RefreshInv(O, I)'
    <2>1. port' \in [O \cup I -> [serial : Nat, present : BOOLEAN]]
      BY <1>0, <1>2 DEF GraphTypes
    <2>2. worker'.todo \subseteq worker.todo
      BY <1>3
    <2> QED BY <1>2, <1>3, <1>5, <1>6, <2>1, <2>2, Shortened
  <1>8. Links(O, I)!RoutesRemain
    <2> DEFINE Object(p) == [port |-> p, serial |-> port[p].serial]
    <2>1. Object(l.out.port) = l.out /\ Object(l.in.port) = l.in
      <3>1. port[l.out.port].serial = l.out.serial /\ port[l.in.port].serial = l.in.serial
        BY <1>2 DEF Links!Creates, Links!Obsolete, Links!Current
      <3>2. l.out = [port |-> l.out.port, serial |-> l.out.serial]
            /\ l.in = [port |-> l.in.port, serial |-> l.in.serial]
        BY <1>1 DEF PlannedLinks, Objects
      <3> QED BY <3>1, <3>2
    <2>2. cookie = worker.cookie /\ <<Object(l.out.port), Object(l.in.port)>> \in worker.routes
      BY <1>2, <2>1 DEF RefreshInv, Planned, Links!Creates, Links!Obsolete
    <2>3. ASSUME NEW y \in Links(O, I)!Present,
                 \/ l.out.port \notin {"side"} /\ links[y].route[1] = l.out.port
                 \/ l.in.port \notin {"side"} /\ links[y].route[2] = l.in.port
          PROVE  <<Links(O, I)!Out(y), Links(O, I)!In(y)>> \in worker.routes
      BY <1>2, <2>3 DEF Links!Creates, Links!Obsolete, Links!Superseded
    <2>4. ASSUME NEW x \in {1, 2}, links'[x] # links[x]
          PROVE  /\ links[x].route = Nobody
                 /\ links'[x].route[1] = l.out.port /\ links'[x].route[2] = l.in.port
      BY <1>5, <2>4
    <2>5. \A p : port'[p].serial = port[p].serial
      BY <1>2
    <2> QED BY <1>2, <2>2, <2>3, <2>4, <2>5
        DEF Links!RoutesRemain, Links!Identity
  <1> QED BY <1>7, <1>8

(* A step of the model: RefreshInv stays, and routes remain.               *)
LEMMA RefreshStep ==
  ASSUME NEW CONSTANT O, NEW CONSTANT I, Links(O, I)!RefreshAssumption, RefreshInv(O, I),
         Links(O, I)!Next \/ UNCHANGED Links(O, I)!vars
  PROVE  RefreshInv(O, I)' /\ Links(O, I)!RoutesRemain
  <1>1. CASE Links(O, I)!WorkerStep
    <2>1. CASE Links(O, I)!Plan
      BY <2>1, PlanStep
    <2>2. CASE Links(O, I)!GiveUp
      BY <2>2, ExitStep DEF Links!GiveUp
    <2>3. ASSUME NEW l \in worker.todo, Links(O, I)!Unlink(l)
          PROVE  RefreshInv(O, I)' /\ Links(O, I)!RoutesRemain
      BY <2>3, UnlinkStep
    <2>4. ASSUME NEW l \in worker.todo, Links(O, I)!Create(l)
          PROVE  RefreshInv(O, I)' /\ Links(O, I)!RoutesRemain
      BY <2>4, CreateStep
    <2> QED BY <1>1, <2>1, <2>2, <2>3, <2>4, QuietStep DEF Links!WorkerStep
  <1>2. CASE \/ Links(O, I)!Route \/ Links(O, I)!Unroute \/ Links(O, I)!PortLeaves
             \/ Links(O, I)!PortComes \/ Links(O, I)!PipeWireRestarts
             \/ Links(O, I)!DaemonServes \/ Links(O, I)!DaemonDies
    <2>1. RefreshInv(O, I)' /\ worker' = worker
      BY <1>2, EnvironmentStep
    <2> QED BY <2>1 DEF Links!RoutesRemain
  <1>3. CASE UNCHANGED Links(O, I)!vars
    <2>1. UNCHANGED <<cookie, port, links, daemon, worker, taken>>
      BY <1>3 DEF Links!vars, Links!graphVars
    <2>2. RefreshInv(O, I)'
      BY <2>1 DEF RefreshInv, GraphTypes, RefreshTypes, Distinct, Planned, Remembered, Owed,
         WorkerStates, PlannedLinks, Objects
    <2> QED BY <2>1, <2>2 DEF Links!RoutesRemain
  <1> QED BY <1>1, <1>2, <1>3 DEF Links!Next

LEMMA RefreshStart ==
  ASSUME NEW CONSTANT O, NEW CONSTANT I, Links(O, I)!RefreshAssumption, Links(O, I)!Init
  PROVE  RefreshInv(O, I)
  <1>1. PICK routes \in [{1, 2} -> (O \X I) \cup {Nobody}] :
          /\ \A x, y \in {1, 2} : x # y /\ routes[x] # Nobody => routes[x] # routes[y]
          /\ links = [x \in {1, 2} |-> [serial |-> 1, route |-> routes[x]]]
    BY DEF Links!Init
  <1>2. PICK b \in BOOLEAN : worker = Links(O, I)!Started(b)
    BY DEF Links!Init
  <1>3. /\ cookie = 1 /\ port = [p \in O \cup I |-> [serial |-> 1, present |-> TRUE]]
        /\ daemon = [number |-> 1, serving |-> FALSE] /\ taken = {}
    BY DEF Links!Init, Links!Ports
  <1>4. GraphTypes(O, I) /\ Distinct
    BY <1>1, <1>3 DEF GraphTypes, Distinct
  <1>5. worker \in WorkerStates(O, I)
    BY <1>2, StartedTypes
  <1>6. /\ worker.pc = "poll" /\ worker.cookie = 0 /\ worker.todo = {} /\ worker.removed = {}
        /\ worker.remaining = {}
    BY <1>2 DEF Links!Started
  <1>7. RefreshTypes(O, I)
    <2>1. daemon \in [number : Nat, serving : BOOLEAN]
      BY <1>3
    <2> QED BY <1>3, <1>5, <2>1 DEF RefreshTypes
  <1>8. Planned /\ Remembered /\ Owed
    BY <1>3, <1>6 DEF Planned, Remembered, Owed
  <1> QED BY <1>4, <1>7, <1>8 DEF RefreshInv

(* What the runs check of it.                                              *)
LEMMA RefreshEnds ==
  ASSUME NEW CONSTANT O, NEW CONSTANT I, RefreshInv(O, I)
  PROVE  Links(O, I)!TypeOK /\ Links(O, I)!RefreshIsWhole
  <1>1. Links(O, I)!RefreshIsWhole
    BY DEF RefreshInv, Owed, Links!RefreshIsWhole
  <1>2. \A l \in worker.todo \cup worker.removed \cup worker.remaining \cup taken : l.id \in {1, 2}
    BY DEF RefreshInv, RefreshTypes, WorkerStates, PlannedLinks
  <1>3. /\ worker.pc \in {"poll", "watch", "plan", "unlink", "round", "restore", "exited"}
        /\ worker.round \in 0 .. Rounds
    BY DEF RefreshInv, RefreshTypes, WorkerStates
  <1>4. /\ cookie \in Nat /\ \A p \in O \cup I : port[p].serial \in Nat
        /\ \A x \in {1, 2} : links[x].route \in (O \X I) \cup {Nobody}
    BY DEF RefreshInv, GraphTypes
  <1> QED BY <1>1, <1>2, <1>3, <1>4 DEF Links!TypeOK, Links!Ports

-----------------------------------------------------------------------------
(***************************************************************************)
(* The runs of sidealsa-admin apply.                                       *)
(*                                                                         *)
(* The argument.  The lock is held by one run, and only its holder writes  *)
(* the profile: as long as nobody edits it by hand, the file is at every   *)
(* place of the run the text that the run believes to be there.  A place   *)
(* after the directory was synchronized has nothing else on the disk.  A   *)
(* report stands until the file changes: the service only loads the file.  *)
(***************************************************************************)
Held == {"read", "check", "replace", "sync", "restart", "wait"}
ValidTimings == {Timing(1, 1), Timing(1, 2), Timing(2, 1)}
Choices == UNION {[keys -> {1, 2}] : keys \in SUBSET {"rate", "period"}}
Services == [pid : Apply!Pids, loaded : Apply!WellFormed \cup {Nobody}, serving : BOOLEAN]
Reports == [text : Apply!WellFormed, outcome : Apply!Succeeded] \cup {Nobody}
Runs ==
  [pc : Apply!Places, expected : Apply!WellFormed \cup {Nobody}, assigned : Choices,
   timing : Apply!Timings \cup {Nobody}, original : Apply!WellFormed \cup {Nobody},
   previous : Apply!Pids, undo : BOOLEAN, unsynced : BOOLEAN, restarted : BOOLEAN,
   edited : BOOLEAN, outcome : Apply!Outcomes]

Merged(r) == Apply!WithTiming(r.original, r.timing)
Wanted(r) == IF r.undo THEN r.original ELSE Merged(r)
Refusals == {"invalid", "conflict", "io"}

(* What a run remembers fits its place ...                                 *)
Remembers(r) ==
  /\ r.pc \in {"lock"} \cup Held => r.expected \in Apply!WellFormed
  /\ r.pc \in Held \ {"read"} => r.timing \in Apply!Timings
  /\ r.pc \in {"replace", "sync", "restart", "wait"} =>
       r.timing \in ValidTimings /\ r.original = r.expected
  /\ r.pc # "done" => r.outcome = "none"
  /\ r.pc \in {"idle", "lock", "read", "check"} => ~r.restarted /\ ~r.undo
  /\ r.pc \in {"replace", "sync", "restart"} /\ ~r.undo => ~r.restarted
  /\ r.restarted => r.outcome \notin Refusals

(* ... and so do the file and the disk, if nobody has edited them.         *)
Finds(r, text, texts) ==
  ~r.edited =>
    /\ r.pc = "replace" => text = (IF r.undo THEN Merged(r) ELSE r.original)
    /\ r.pc \in {"sync", "restart", "wait"} => text = Wanted(r)
    /\ r.pc \in {"restart", "wait"}
         /\ (IF r.undo THEN ~r.unsynced ELSE r.timing # r.original.timing) => texts = {text}

Shared ==
  /\ file \in Apply!Texts /\ disk \subseteq Apply!Texts /\ file \in disk
  /\ service \in Services /\ report \in Reports /\ applyFaults \in 0 .. MaxApplyFaults
  /\ Apply!ReportStands
Locked ==
  /\ lock \in Admins \cup {Nobody}
  /\ \A a \in Admins : lock = a <=> admin[a].pc \in Held
ApplyInv ==
  /\ Shared /\ Locked /\ admin \in [Admins -> Runs]
  /\ \A a \in Admins : Remembers(admin[a]) /\ Finds(admin[a], file, disk)

LEMMA ApplyFacts ==
  ASSUME Apply!ApplyAssumption
  PROVE  /\ Nobody \notin Admins /\ MaxApplyFaults \in Nat /\ IsFiniteSet(Admins)
         /\ {Broken, [timing |-> Timing(1, 1), rest |-> "otherRest"],
             [timing |-> Timing(1, 2), rest |-> "rest"]} \subseteq Apply!Texts
         /\ ValidTimings \subseteq Apply!Timings
         /\ {"rate" :> 2, "period" :> 2} \subseteq Choices
  <1>1. Nobody \notin Admins /\ MaxApplyFaults \in Nat
    BY DEF Apply!ApplyAssumption
  <1>2. IsFiniteSet(Admins)
    BY DEF Apply!ApplyAssumption, Apply!IsFiniteSet, IsFiniteSet
  <1>3. {Broken, [timing |-> Timing(1, 1), rest |-> "otherRest"],
         [timing |-> Timing(1, 2), rest |-> "rest"]} \subseteq Apply!Texts
    BY DEF Apply!ApplyAssumption
  <1>4. ValidTimings \subseteq Apply!Timings
    BY DEF Apply!ApplyAssumption, ValidTimings
  <1>5. {"rate" :> 2, "period" :> 2} \subseteq Choices
    BY DEF Apply!ApplyAssumption, Choices
  <1> QED BY <1>1, <1>2, <1>3, <1>4, <1>5

(* There is a pid that nobody remembers.                                   *)
LEMMA PidIsFree ==
  ASSUME Apply!ApplyAssumption, ApplyInv
  PROVE  Apply!NewPid \in Apply!Pids
  <1> DEFINE n == Cardinality(Admins)
             f == [a \in Admins |-> admin[a].previous]
             Image == {f[a] : a \in Admins}
             One == Image \cup {0}
             Two == One \cup {service.pid}
  <1>1. IsFiniteSet(Admins) /\ n \in Nat
    BY ApplyFacts, FS_CardinalityType
  <1>2. Apply!Pids = 0 .. (n + 2)
    BY DEF Apply!Pids, Apply!Cardinality, Cardinality
  <1>3. f \in Surjection(Admins, Image)
    BY DEF Surjection
  <1> HIDE DEF f
  <1>4. IsFiniteSet(Image) /\ Cardinality(Image) <= n
    BY <1>1, <1>3, FS_Surjection
  <1>5. Cardinality(Image) \in Nat
    BY <1>4, FS_CardinalityType
  <1> HIDE DEF Image, n
  <1>6. IsFiniteSet(One) /\ Cardinality(One) <= n + 1 /\ Cardinality(One) \in Nat
    BY <1>1, <1>4, <1>5, FS_AddElement
  <1> HIDE DEF One
  <1>7. IsFiniteSet(Two) /\ Cardinality(Two) <= n + 2 /\ Cardinality(Two) \in Nat
    <2>1. IsFiniteSet(Two) /\ Cardinality(Two) \in {Cardinality(One), Cardinality(One) + 1}
      BY <1>6, FS_AddElement
    <2> QED BY <1>1, <1>6, <2>1
  <1> HIDE DEF Two
  <1>8. Cardinality(0 .. (n + 2)) = n + 3
    BY <1>1, FS_Interval
  <1>9. ~(0 .. (n + 2) \subseteq Two)
    <2> SUFFICES ASSUME 0 .. (n + 2) \subseteq Two PROVE FALSE
      OBVIOUS
    <2>1. Cardinality(0 .. (n + 2)) <= Cardinality(Two)
      BY <1>7, FS_Subset
    <2> QED BY <1>1, <1>7, <1>8, <2>1
  <1>10. PICK p \in 0 .. (n + 2) : p \notin Two
    BY <1>9
  <1>11. p # 0 /\ p # service.pid /\ \A a \in Admins : p # admin[a].previous
    BY <1>10 DEF Two, One, Image, f
  <1> QED BY <1>2, <1>10, <1>11 DEF Apply!NewPid

LEMMA PidsStart ==
  ASSUME Apply!ApplyAssumption
  PROVE  0 \in Apply!Pids /\ 1 \in Apply!Pids
  <1>1. Cardinality(Admins) \in Nat
    BY ApplyFacts, FS_CardinalityType
  <1>2. Apply!Pids = 0 .. (Cardinality(Admins) + 2)
    BY DEF Apply!Pids, Apply!Cardinality, Cardinality
  <1> QED BY <1>1, <1>2

LEMMA ServicesStart ==
  ASSUME Apply!ApplyAssumption, ApplyInv
  PROVE  /\ Apply!Starting \in Services /\ Apply!Stopped \in Services
         /\ Apply!Starting.loaded = Nobody /\ Apply!Stopped.loaded = Nobody
  <1>1. Apply!NewPid \in Apply!Pids /\ 0 \in Apply!Pids
    BY PidIsFree, PidsStart
  <1> QED BY <1>1 DEF Apply!Starting, Apply!Stopped, Services

(* A step of one run, or two runs would hold the lock.                     *)
LEMMA RunMoves ==
  ASSUME ApplyInv, NEW a \in Admins, NEW s \in Runs, admin' = [admin EXCEPT ![a] = s],
         lock' \in Admins \cup {Nobody}, lock' = a <=> s.pc \in Held,
         \A b \in Admins \ {a} : lock' = b <=> lock = b,
         Shared', Remembers(s), Finds(s, file', disk'),
         lock = a \/ (file' = file /\ disk' = disk)
  PROVE  ApplyInv'
  <1>1. admin \in [Admins -> Runs]
    BY DEF ApplyInv
  <1>2. admin'[a] = s /\ \A b \in Admins \ {a} : admin'[b] = admin[b]
    BY <1>1
  <1>3. admin' \in [Admins -> Runs]
    BY <1>1
  <1>4. Locked'
    BY <1>2 DEF ApplyInv, Locked
  <1>5. ASSUME NEW b \in Admins PROVE Remembers(admin'[b]) /\ Finds(admin'[b], file', disk')
    <2>1. CASE b = a
      BY <1>2, <2>1
    <2>2. CASE b # a
      <3>1. admin'[b] = admin[b] /\ Remembers(admin[b]) /\ Finds(admin[b], file, disk)
        BY <1>2, <2>2 DEF ApplyInv
      <3>2. CASE file' = file /\ disk' = disk
        BY <3>1, <3>2
      <3>3. CASE lock = a
        <4>1. admin[b].pc \notin Held
          BY <2>2, <3>3 DEF ApplyInv, Locked
        <4> QED BY <3>1, <4>1 DEF Finds, Held
      <3> QED BY <3>2, <3>3
    <2> QED BY <2>1, <2>2
  <1>6. Runs' = Runs
    BY DEF Runs
  <1> QED BY <1>3, <1>4, <1>5, <1>6 DEF ApplyInv

LEMMA FaultCounts ==
  ASSUME Apply!ApplyAssumption, applyFaults \in 0 .. MaxApplyFaults,
         Apply!Fault \/ applyFaults' = applyFaults
  PROVE  applyFaults' \in 0 .. MaxApplyFaults
  <1>1. MaxApplyFaults \in Nat
    BY ApplyFacts
  <1> QED BY <1>1 DEF Apply!Fault

(* What is shared, when the file stays or is the only one on the disk.     *)
LEMMA SharedStays ==
  ASSUME Apply!ApplyAssumption, ApplyInv, file' = file, disk' \in {disk, {file}},
         report' = report, service' \in Services, service'.loaded \in {Nobody, service.loaded},
         Apply!Fault \/ applyFaults' = applyFaults
  PROVE  Shared'
  <1>1. file \in Apply!Texts /\ disk \subseteq Apply!Texts /\ file \in disk /\ report \in Reports
        /\ Apply!ReportStands
    BY DEF ApplyInv, Shared
  <1>2. file' \in Apply!Texts /\ disk' \subseteq Apply!Texts /\ file' \in disk'
    BY <1>1
  <1>3. Apply!ReportStands'
    <2> SUFFICES ASSUME report # Nobody
                 PROVE  /\ file = report.text /\ service'.loaded \in {Nobody, file}
                        /\ report.outcome # "unchanged" => disk' = {file}
      BY DEF Apply!ReportStands
    <2>1. /\ file = report.text /\ service.loaded \in {Nobody, file}
          /\ report.outcome # "unchanged" => disk = {file}
      BY <1>1 DEF Apply!ReportStands
    <2> QED BY <2>1
  <1>4. applyFaults' \in 0 .. MaxApplyFaults
    BY FaultCounts DEF ApplyInv, Shared
  <1>5. report' \in Reports
    BY <1>1
  <1> QED BY <1>2, <1>3, <1>4, <1>5 DEF Shared, Services, Reports

LEMMA RunTypes ==
  ASSUME Apply!ApplyAssumption, ApplyInv, NEW a \in Admins
  PROVE  /\ admin[a] \in Runs /\ Remembers(admin[a]) /\ Finds(admin[a], file, disk)
         /\ lock = a <=> admin[a].pc \in Held
         /\ Apply!Fresh \in Runs /\ Remembers(Apply!Fresh)
         /\ a # Nobody
  <1>1. Apply!Fresh \in Runs
    <2>1. 0 \in Apply!Pids
      BY PidsStart
    <2>2. [s \in {} |-> 0] \in Choices
      <3>1. [s \in {} |-> 0] \in [{} -> {1, 2}] /\ {} \in SUBSET {"rate", "period"}
        OBVIOUS
      <3> QED BY <3>1 DEF Choices
    <2>3. "idle" \in Apply!Places /\ "none" \in Apply!Outcomes
      BY DEF Apply!Places, Apply!Outcomes
    <2> QED BY <2>1, <2>2, <2>3 DEF Apply!Fresh, Runs
  <1>2. Remembers(Apply!Fresh)
    BY DEF Apply!Fresh, Remembers, Held
  <1>3. a # Nobody
    BY ApplyFacts
  <1> QED BY <1>1, <1>2, <1>3 DEF ApplyInv, Locked

(* The end of a run that holds the lock.                                   *)
LEMMA RunEnds ==
  ASSUME Apply!ApplyAssumption, ApplyInv, NEW a \in Admins, NEW o \in Apply!Outcomes \ {"none"},
         lock = a, Apply!End(a, o), file' = file, disk' = disk,
         service' \in Services, service'.loaded \in {Nobody, service.loaded},
         Apply!Fault \/ applyFaults' = applyFaults,
         admin[a].restarted => o \notin Refusals,
         o \in Apply!Succeeded /\ ~admin[a].edited =>
           /\ Wanted(admin[a]) \in Apply!WellFormed
           /\ file = Wanted(admin[a]) /\ service.loaded \in {Nobody, file}
           /\ o # "unchanged" => disk = {file}
  PROVE  ApplyInv'
  <1> DEFINE s == Apply!Done(a, o)
  <1>1. s \in Runs /\ Remembers(s) /\ Finds(s, file', disk') /\ s.pc = "done"
    <2>1. Apply!Fresh \in Runs /\ admin[a].restarted \in BOOLEAN
      BY RunTypes DEF Runs
    <2>2. "done" \in Apply!Places
      BY DEF Apply!Places
    <2>3. s = [Apply!Fresh EXCEPT !.pc = "done", !.outcome = o, !.restarted = admin[a].restarted]
      BY DEF Apply!Done
    <2>4. s \in Runs
      BY <2>1, <2>2, <2>3 DEF Runs
    <2>5. s.pc = "done" /\ s.outcome = o /\ s.restarted = admin[a].restarted
      BY <2>1, <2>3 DEF Runs
    <2> HIDE DEF s
    <2>6. Remembers(s)
      BY <2>5 DEF Remembers, Held
    <2>7. Finds(s, file', disk')
      BY <2>5 DEF Finds
    <2> QED BY <2>4, <2>5, <2>6, <2>7
  <1>2. admin' = [admin EXCEPT ![a] = s] /\ lock' = Nobody
    BY DEF Apply!End
  <1> HIDE DEF s
  <1>3. Shared'
    <2>1. CASE o \in Apply!Succeeded /\ ~admin[a].edited
      <3>1. report' = [text |-> Wanted(admin[a]), outcome |-> o]
        BY <2>1 DEF Apply!End, Apply!Goal, Wanted, Merged
      <3>2. file \in Apply!Texts /\ disk \subseteq Apply!Texts /\ file \in disk
            /\ applyFaults \in 0 .. MaxApplyFaults
        BY DEF ApplyInv, Shared
      <3>3. Wanted(admin[a]) \in Apply!WellFormed
        BY <2>1
      <3>4. report' \in Reports
        BY <2>1, <3>1, <3>3 DEF Reports
      <3>5. Apply!ReportStands'
        <4>1. report'.text = file /\ report'.outcome = o
          BY <2>1, <3>1
        <4> QED BY <2>1, <4>1 DEF Apply!ReportStands
      <3>6. applyFaults' \in 0 .. MaxApplyFaults
        BY <3>2, FaultCounts
      <3> QED BY <3>2, <3>4, <3>5, <3>6 DEF Shared, Services, Reports
    <2>2. CASE ~(o \in Apply!Succeeded /\ ~admin[a].edited)
      <3>1. report' = report
        BY <2>2 DEF Apply!End
      <3> QED BY <3>1, SharedStays
    <2> QED BY <2>1, <2>2
  <1>4. \A b \in Admins \ {a} : lock' = b <=> lock = b
    BY <1>2, RunTypes
  <1>5. lock' # a /\ s.pc \notin Held
    BY <1>1, <1>2, RunTypes DEF Held
  <1> QED BY <1>1, <1>2, <1>3, <1>4, <1>5, RunMoves

LEMMA FailedStep ==
  ASSUME Apply!ApplyAssumption, ApplyInv, NEW a \in Admins, lock = a,
         admin[a].pc \in {"sync", "restart", "wait"}, Apply!Failed(a),
         file' = file, disk' = disk, service' \in Services,
         service'.loaded \in {Nobody, service.loaded}, Apply!Fault \/ applyFaults' = applyFaults
  PROVE  ApplyInv'
  <1>1. CASE \E o \in {"rollbackFailed", "runtime"} : Apply!End(a, o)
    <2>1. PICK o \in {"rollbackFailed", "runtime"} : Apply!End(a, o)
      BY <1>1
    <2>2. o \in Apply!Outcomes \ {"none"} /\ o \notin Refusals /\ o \notin Apply!Succeeded
      BY <2>1 DEF Apply!Outcomes, Refusals, Apply!Succeeded
    <2> QED BY <2>1, <2>2, RunEnds
  <1>2. CASE ~\E o \in {"rollbackFailed", "runtime"} : Apply!End(a, o)
    <2> DEFINE r == admin[a]
               s == [r EXCEPT !.pc = "replace", !.undo = TRUE]
    <2>1. /\ admin' = [admin EXCEPT ![a].pc = "replace", ![a].undo = TRUE]
          /\ lock' = lock /\ report' = report /\ ~r.undo
      BY <1>2 DEF Apply!Failed
    <2>2. r \in Runs /\ Remembers(r) /\ Finds(r, file, disk)
      BY RunTypes
    <2>3. s \in Runs
      <3>1. "replace" \in Apply!Places
        BY DEF Apply!Places
      <3> QED BY <2>2, <3>1 DEF Runs
    <2>4. /\ s.pc = "replace" /\ s.undo /\ s.expected = r.expected /\ s.timing = r.timing
          /\ s.original = r.original /\ s.restarted = r.restarted /\ s.edited = r.edited
          /\ s.outcome = r.outcome
      BY <2>2 DEF Runs
    <2>5. admin \in [Admins -> Runs]
      BY DEF ApplyInv
    <2>6. admin' = [admin EXCEPT ![a] = s]
      BY <2>1, <2>5
    <2>7. Shared'
      BY <2>1, SharedStays
    <2> HIDE DEF s
    <2>8. Remembers(s)
      BY <2>2, <2>4 DEF Remembers, Held
    <2>9. Finds(s, file', disk')
      BY <2>1, <2>2, <2>4 DEF Finds, Wanted, Merged
    <2>10. lock' \in Admins \cup {Nobody} /\ s.pc \in Held
      BY <2>1, <2>4 DEF Held
    <2> HIDE DEF r
    <2> QED BY <2>1, <2>3, <2>6, <2>7, <2>8, <2>9, <2>10, RunMoves
  <1> QED BY <1>1, <1>2

LEMMA ShowStep ==
  ASSUME Apply!ApplyAssumption, ApplyInv, NEW a \in Admins, Apply!Show(a)
  PROVE  ApplyInv'
  <1> DEFINE r == admin[a]
  <1>1. r.pc = "idle" /\ file \in Apply!WellFormed
        /\ UNCHANGED <<file, disk, service, lock, applyFaults, report>>
    BY DEF Apply!Show
  <1>2. PICK chosen \in {"rate" :> 2, "period" :> 2} :
          admin' = [admin EXCEPT ![a].pc = "lock", ![a].expected = file, ![a].assigned = chosen]
    BY DEF Apply!Show
  <1> DEFINE s == [r EXCEPT !.pc = "lock", !.expected = file, !.assigned = chosen]
  <1>3. r \in Runs /\ Remembers(r) /\ Finds(r, file, disk) /\ chosen \in Choices
    BY <1>2, RunTypes, ApplyFacts
  <1>4. s \in Runs
    <2>1. "lock" \in Apply!Places
      BY DEF Apply!Places
    <2> QED BY <1>1, <1>3, <2>1 DEF Runs
  <1>5. /\ s.pc = "lock" /\ s.expected = file /\ s.undo = r.undo
        /\ s.restarted = r.restarted /\ s.outcome = r.outcome
    BY <1>3 DEF Runs
  <1>6. admin' = [admin EXCEPT ![a] = s]
    BY <1>2 DEF ApplyInv
  <1>7. Shared' /\ service \in Services
    BY <1>1 DEF ApplyInv, Shared, Services, Reports, Apply!ReportStands
  <1> HIDE DEF s
  <1>8. Remembers(s)
    BY <1>1, <1>3, <1>5 DEF Remembers, Held
  <1>9. Finds(s, file', disk')
    BY <1>5 DEF Finds
  <1>10. lock' \in Admins \cup {Nobody} /\ lock' # a /\ s.pc \notin Held
    BY <1>1, <1>5 DEF ApplyInv, Locked, Held
  <1> HIDE DEF r
  <1> QED BY <1>1, <1>4, <1>6, <1>7, <1>8, <1>9, <1>10, RunMoves

LEMMA AcquireStep ==
  ASSUME Apply!ApplyAssumption, ApplyInv, NEW a \in Admins, Apply!Acquire(a)
  PROVE  ApplyInv'
  <1> DEFINE r == admin[a]
             s == [r EXCEPT !.pc = "read"]
  <1>1. r.pc = "lock" /\ lock = Nobody /\ lock' = a
        /\ UNCHANGED <<file, disk, service, applyFaults, report>>
    BY DEF Apply!Acquire
  <1>2. admin' = [admin EXCEPT ![a] = s]
    BY DEF Apply!Acquire, ApplyInv
  <1>3. r \in Runs /\ Remembers(r)
    BY RunTypes
  <1>4. s \in Runs
    <2>1. "read" \in Apply!Places
      BY DEF Apply!Places
    <2> QED BY <1>3, <2>1 DEF Runs
  <1>5. /\ s.pc = "read" /\ s.expected = r.expected /\ s.undo = r.undo
        /\ s.restarted = r.restarted /\ s.outcome = r.outcome
    BY <1>3 DEF Runs
  <1>6. Shared'
    BY <1>1 DEF ApplyInv, Shared, Services, Reports, Apply!ReportStands
  <1> HIDE DEF s
  <1>7. Remembers(s)
    BY <1>1, <1>3, <1>5 DEF Remembers, Held
  <1>8. Finds(s, file', disk')
    BY <1>5 DEF Finds
  <1>9. lock' \in Admins \cup {Nobody} /\ s.pc \in Held
    BY <1>1, <1>5 DEF Held
  <1>10. \A b \in Admins \ {a} : lock' = b <=> lock = b
    BY <1>1, RunTypes
  <1> HIDE DEF r
  <1> QED BY <1>1, <1>2, <1>4, <1>6, <1>7, <1>8, <1>9, <1>10, RunMoves

LEMMA MergeTypes ==
  ASSUME NEW t \in Apply!Timings, NEW c \in Choices
  PROVE  Apply!Merge(t, c) \in Apply!Timings
  <1>1. PICK keys \in SUBSET {"rate", "period"} : c \in [keys -> {1, 2}]
    BY DEF Choices
  <1> QED BY <1>1 DEF Apply!Merge, Apply!Timings

LEMMA WellFormedTimings ==
  ASSUME Apply!ApplyAssumption, NEW text \in Apply!WellFormed
  PROVE  text.timing \in ValidTimings /\ text.timing \in Apply!Timings
  <1>1. text.timing \in ValidTimings
    BY DEF Apply!WellFormed, ValidTimings
  <1> QED BY <1>1, ApplyFacts

LEMMA ReadStep ==
  ASSUME Apply!ApplyAssumption, ApplyInv, NEW a \in Admins, Apply!ReadSnapshot(a)
  PROVE  ApplyInv'
  <1> DEFINE r == admin[a]
  <1>1. r.pc = "read" /\ UNCHANGED <<file, disk, service>>
    BY DEF Apply!ReadSnapshot
  <1>2. r \in Runs /\ Remembers(r) /\ lock = a /\ service \in Services
    <2>1. lock = a
      BY <1>1, RunTypes DEF Held
    <2> QED BY <2>1, RunTypes DEF ApplyInv, Shared
  <1>3. CASE file \notin Apply!WellFormed
    <2>1. Apply!End(a, "invalid") /\ applyFaults' = applyFaults
      BY <1>3 DEF Apply!ReadSnapshot
    <2>2. /\ "invalid" \in Apply!Outcomes \ {"none"} /\ "invalid" \notin Apply!Succeeded
          /\ ~r.restarted
      BY <1>1, <1>2 DEF Apply!Outcomes, Apply!Succeeded, Remembers
    <2> QED BY <1>1, <1>2, <2>1, <2>2, RunEnds
  <1>4. CASE file \in Apply!WellFormed
    <2> DEFINE t == Apply!Merge(file.timing, r.assigned)
               c == Apply!Fresh.assigned
               s == [r EXCEPT !.pc = "check", !.assigned = c, !.timing = t]
               u == [s EXCEPT !.previous = service.pid]
    <2>1. t \in Apply!Timings /\ c \in Choices /\ service.pid \in Apply!Pids
      <3>1. t \in Apply!Timings
        BY <1>2, <1>4, WellFormedTimings, MergeTypes DEF Runs
      <3>2. c \in Choices
        BY RunTypes DEF Runs
      <3> QED BY <1>2, <3>1, <3>2 DEF Services
    <2>2. /\ lock' = lock /\ report' = report
          /\ Apply!Fault \/ applyFaults' = applyFaults
          /\ \/ admin' = [admin EXCEPT ![a].pc = "check", ![a].previous = service.pid,
                                       ![a].assigned = c, ![a].timing = t]
             \/ admin' = [admin EXCEPT ![a].pc = "check", ![a].assigned = c, ![a].timing = t]
      BY <1>4 DEF Apply!ReadSnapshot
    <2> HIDE DEF t, c
    <2>3. s \in Runs /\ u \in Runs
      <3>1. "check" \in Apply!Places
        BY DEF Apply!Places
      <3>2. s \in Runs
        BY <1>2, <2>1, <3>1 DEF Runs
      <3>3. [s EXCEPT !.previous = service.pid] \in Runs
        BY <2>1, <3>2 DEF Runs
      <3> QED BY <3>2, <3>3
    <2>4. admin' = [admin EXCEPT ![a] = s] \/ admin' = [admin EXCEPT ![a] = u]
      <3>1. admin \in [Admins -> Runs]
        BY DEF ApplyInv
      <3>2. CASE admin' = [admin EXCEPT ![a].pc = "check", ![a].assigned = c, ![a].timing = t]
        BY <3>1, <3>2
      <3>3. CASE admin' = [admin EXCEPT ![a].pc = "check", ![a].previous = service.pid,
                                        ![a].assigned = c, ![a].timing = t]
        <4>1. u = [r EXCEPT !.pc = "check", !.previous = service.pid,
                            !.assigned = c, !.timing = t]
          BY <1>2 DEF Runs
        <4> QED BY <3>1, <3>3, <4>1
      <3> QED BY <2>2, <3>2, <3>3
    <2>5. /\ s.pc = "check" /\ s.expected = r.expected /\ s.undo = r.undo /\ s.timing = t
          /\ s.restarted = r.restarted /\ s.outcome = r.outcome
      BY <1>2 DEF Runs
    <2>6. /\ u.pc = "check" /\ u.expected = r.expected /\ u.undo = r.undo /\ u.timing = t
          /\ u.restarted = r.restarted /\ u.outcome = r.outcome
      BY <1>2 DEF Runs
    <2> HIDE DEF s, u
    <2>7. Shared'
      <3>1. /\ file' = file /\ disk' \in {disk, {file}} /\ report' = report
            /\ service' \in Services /\ service'.loaded \in {Nobody, service.loaded}
        BY <1>1, <1>2, <2>2
      <3> QED BY <2>2, <3>1, SharedStays
    <2>8. Remembers(s) /\ Remembers(u)
      <3>1. Remembers(s)
        BY <1>1, <1>2, <2>1, <2>5 DEF Remembers, Held
      <3>2. Remembers(u)
        BY <1>1, <1>2, <2>1, <2>6 DEF Remembers, Held
      <3> QED BY <3>1, <3>2
    <2>9. Finds(s, file', disk') /\ Finds(u, file', disk')
      BY <2>5, <2>6 DEF Finds
    <2>10. lock' \in Admins \cup {Nobody} /\ s.pc \in Held /\ u.pc \in Held /\ lock' = a
      <3>1. lock' = a
        BY <1>2, <2>2
      <3>2. s.pc \in Held /\ u.pc \in Held
        BY <2>5, <2>6 DEF Held
      <3> QED BY <3>1, <3>2
    <2> HIDE DEF r
    <2>11. CASE admin' = [admin EXCEPT ![a] = s]
      BY <1>1, <1>2, <2>2, <2>3, <2>7, <2>8, <2>9, <2>10, <2>11, RunMoves
    <2>12. CASE admin' = [admin EXCEPT ![a] = u]
      BY <1>1, <1>2, <2>2, <2>3, <2>7, <2>8, <2>9, <2>10, <2>12, RunMoves
    <2> QED BY <2>4, <2>11, <2>12
  <1> QED BY <1>3, <1>4

LEMMA CheckStep ==
  ASSUME Apply!ApplyAssumption, ApplyInv, NEW a \in Admins, Apply!Check(a)
  PROVE  ApplyInv'
  <1> DEFINE r == admin[a]
  <1>1. r.pc = "check" /\ UNCHANGED <<file, disk, service, applyFaults>>
    BY DEF Apply!Check
  <1>2. r \in Runs /\ Remembers(r) /\ lock = a /\ service \in Services
    <2>1. lock = a
      BY <1>1, RunTypes DEF Held
    <2> QED BY <2>1, RunTypes DEF ApplyInv, Shared
  <1>3. CASE \E o \in {"conflict", "invalid"} : Apply!End(a, o)
    <2>1. PICK o \in {"conflict", "invalid"} : Apply!End(a, o)
      BY <1>3
    <2>2. /\ o \in Apply!Outcomes \ {"none"} /\ o \notin Apply!Succeeded
          /\ ~r.restarted
      BY <1>1, <1>2 DEF Apply!Outcomes, Apply!Succeeded, Remembers
    <2> QED BY <1>1, <1>2, <2>1, <2>2, RunEnds
  <1>4. CASE ~\E o \in {"conflict", "invalid"} : Apply!End(a, o)
    <2> DEFINE place == IF r.timing = file.timing THEN "restart" ELSE "replace"
               s == [r EXCEPT !.original = file, !.pc = place]
    <2>1. /\ file = r.expected /\ r.timing \in ValidTimings
          /\ admin' = [admin EXCEPT ![a].original = file, ![a].pc = place]
          /\ lock' = lock /\ report' = report
      BY <1>4 DEF Apply!Check, ValidTimings
    <2>2. file \in Apply!WellFormed /\ r.expected = file
      BY <1>1, <1>2, <2>1 DEF Remembers, Held
    <2>3. s \in Runs
      <3>1. place \in Apply!Places
        BY DEF Apply!Places
      <3> HIDE DEF place
      <3> QED BY <1>2, <2>2, <3>1 DEF Runs
    <2>4. /\ s.pc = place /\ s.expected = r.expected /\ s.undo = r.undo /\ s.timing = r.timing
          /\ s.restarted = r.restarted /\ s.outcome = r.outcome /\ s.original = file
      BY <1>2 DEF Runs
    <2>5. admin' = [admin EXCEPT ![a] = s]
      <3>1. admin \in [Admins -> Runs]
        BY DEF ApplyInv
      <3> QED BY <2>1, <3>1
    <2> HIDE DEF s
    <2>6. Shared'
      BY <1>1, <1>2, <2>1, SharedStays
    <2>7. Remembers(s)
      BY <1>1, <1>2, <2>1, <2>2, <2>4 DEF Remembers, Held
    <2>8. Finds(s, file', disk')
      <3>1. ~s.undo /\ file' = file
        BY <1>1, <1>2, <2>4 DEF Remembers
      <3>2. s.timing = file.timing => Merged(s) = file
        BY <2>2, <2>4 DEF Merged, Apply!WithTiming, Apply!WellFormed
      <3>3. (s.pc = "restart" /\ s.timing = file.timing) \/ s.pc = "replace"
        BY <2>4
      <3> QED BY <2>4, <3>1, <3>2, <3>3 DEF Finds, Wanted
    <2>9. lock' \in Admins \cup {Nobody} /\ s.pc \in Held /\ lock' = a
      BY <1>2, <2>1, <2>4 DEF Held
    <2> HIDE DEF r
    <2> QED BY <1>2, <2>1, <2>3, <2>5, <2>6, <2>7, <2>8, <2>9, RunMoves
  <1> QED BY <1>3, <1>4

(* The holder of the lock goes on.                                         *)
LEMMA HolderGoes ==
  ASSUME Apply!ApplyAssumption, ApplyInv, NEW a \in Admins, NEW s \in Runs, lock = a,
         admin' = [admin EXCEPT ![a] = s], lock' = lock, s.pc \in Held,
         Shared', Remembers(s), Finds(s, file', disk')
  PROVE  ApplyInv'
  BY RunMoves

LEMMA ReplaceStep ==
  ASSUME Apply!ApplyAssumption, ApplyInv, NEW a \in Admins, Apply!Replace(a)
  PROVE  ApplyInv'
  <1> DEFINE r == admin[a]
  <1>1. r.pc = "replace" /\ service' = service
    BY DEF Apply!Replace
  <1>2. /\ r \in Runs /\ Remembers(r) /\ Finds(r, file, disk)
        /\ lock = a /\ service \in Services
    <2>1. lock = a
      BY <1>1, RunTypes DEF Held
    <2> QED BY <2>1, RunTypes DEF ApplyInv, Shared
  <1>3. CASE \E o \in {"rollbackFailed", "io"} :
               /\ Apply!Fault /\ Apply!End(a, o)
               /\ o = "io" => ~r.undo
               /\ UNCHANGED <<file, disk>>
    <2>1. PICK o \in {"rollbackFailed", "io"} :
               /\ Apply!Fault /\ Apply!End(a, o)
               /\ o = "io" => ~r.undo
               /\ UNCHANGED <<file, disk>>
      BY <1>3
    <2>2. o \in Apply!Outcomes \ {"none"} /\ o \notin Apply!Succeeded
      BY DEF Apply!Outcomes, Apply!Succeeded
    <2>3. r.restarted => o \notin Refusals
      BY <1>1, <1>2, <2>1 DEF Remembers, Refusals
    <2> QED BY <1>1, <1>2, <2>1, <2>2, <2>3, RunEnds
  <1>4. CASE ~\E o \in {"rollbackFailed", "io"} :
               /\ Apply!Fault /\ Apply!End(a, o)
               /\ o = "io" => ~r.undo
               /\ UNCHANGED <<file, disk>>
    <2> DEFINE s == [r EXCEPT !.pc = "sync"]
    <2>1. /\ file' = Wanted(r) /\ disk' = disk \cup {file'}
          /\ admin' = [admin EXCEPT ![a] = s] /\ report' = Nobody
          /\ lock' = lock /\ applyFaults' = applyFaults
      <3>1. ~(Apply!Fault /\ Apply!End(a, IF r.undo THEN "rollbackFailed" ELSE "io")
              /\ UNCHANGED <<file, disk>>)
        BY <1>4
      <3> QED BY <3>1 DEF Apply!Replace, Apply!Goal, Wanted, Merged
    <2>2. Wanted(r) \in Apply!WellFormed
      <3>1. r.original \in Apply!WellFormed /\ r.timing \in ValidTimings
        BY <1>1, <1>2 DEF Remembers, Held
      <3> QED BY <3>1 DEF Wanted, Merged, Apply!WithTiming, Apply!WellFormed, ValidTimings
    <2>3. s \in Runs
      <3>1. "sync" \in Apply!Places
        BY DEF Apply!Places
      <3> QED BY <1>2, <3>1 DEF Runs
    <2>4. /\ s.pc = "sync" /\ s.expected = r.expected /\ s.undo = r.undo /\ s.timing = r.timing
          /\ s.restarted = r.restarted /\ s.outcome = r.outcome /\ s.original = r.original
          /\ s.edited = r.edited
      BY <1>2 DEF Runs
    <2> HIDE DEF s
    <2>5. Shared'
      <3>1. /\ disk \subseteq Apply!Texts /\ service' \in Services
            /\ applyFaults' \in 0 .. MaxApplyFaults
        BY <1>1, <1>2, <2>1 DEF ApplyInv, Shared
      <3>2. file' \in Apply!Texts /\ disk' \subseteq Apply!Texts /\ file' \in disk'
        BY <2>1, <2>2, <3>1 DEF Apply!Texts
      <3>3. report' \in Reports /\ Apply!ReportStands'
        BY <2>1 DEF Reports, Apply!ReportStands
      <3> QED BY <3>1, <3>2, <3>3 DEF Shared, Services, Reports
    <2>6. Remembers(s)
      BY <1>1, <1>2, <2>4 DEF Remembers, Held
    <2>7. Finds(s, file', disk')
      BY <2>1, <2>4 DEF Finds, Wanted, Merged
    <2>8. s.pc \in Held
      BY <2>4 DEF Held
    <2> HIDE DEF r
    <2> QED BY <1>2, <2>1, <2>3, <2>5, <2>6, <2>7, <2>8, HolderGoes
  <1> QED BY <1>3, <1>4

LEMMA SyncStep ==
  ASSUME Apply!ApplyAssumption, ApplyInv, NEW a \in Admins, Apply!Sync(a)
  PROVE  ApplyInv'
  <1> DEFINE r == admin[a]
  <1>1. r.pc = "sync" /\ UNCHANGED <<file, service>>
    BY DEF Apply!Sync
  <1>2. /\ r \in Runs /\ Remembers(r) /\ Finds(r, file, disk)
        /\ lock = a /\ service \in Services
    <2>1. lock = a
      BY <1>1, RunTypes DEF Held
    <2> QED BY <2>1, RunTypes DEF ApplyInv, Shared
  <1>3. CASE Apply!Fault /\ disk' = disk /\ Apply!Failed(a)
    BY <1>1, <1>2, <1>3, FailedStep
  <1>4. CASE ~(Apply!Fault /\ disk' = disk /\ Apply!Failed(a))
    <2> DEFINE s == [r EXCEPT !.pc = "restart"]
               u == [r EXCEPT !.pc = "restart", !.unsynced = TRUE]
    <2>1. \/ /\ disk' = {file} /\ applyFaults' = applyFaults
             /\ admin' = [admin EXCEPT ![a].pc = "restart"]
             /\ lock' = lock /\ report' = report
          \/ /\ disk' = disk /\ Apply!Fault /\ r.undo
             /\ admin' = [admin EXCEPT ![a].pc = "restart", ![a].unsynced = TRUE]
             /\ lock' = lock /\ report' = report
      BY <1>4 DEF Apply!Sync, Apply!Goes
    <2>2. s \in Runs /\ u \in Runs
      <3>1. "restart" \in Apply!Places
        BY DEF Apply!Places
      <3>2. s \in Runs
        BY <1>2, <3>1 DEF Runs
      <3>3. u \in Runs
        BY <1>2, <3>1 DEF Runs
      <3> QED BY <3>2, <3>3
    <2>3. /\ s.pc = "restart" /\ s.expected = r.expected /\ s.undo = r.undo
          /\ s.timing = r.timing /\ s.restarted = r.restarted /\ s.outcome = r.outcome
          /\ s.original = r.original /\ s.edited = r.edited
      BY <1>2 DEF Runs
    <2>4. /\ u.pc = "restart" /\ u.expected = r.expected /\ u.undo = r.undo
          /\ u.timing = r.timing /\ u.restarted = r.restarted /\ u.outcome = r.outcome
          /\ u.original = r.original /\ u.edited = r.edited /\ u.unsynced
      BY <1>2 DEF Runs
    <2>5. \/ admin' = [admin EXCEPT ![a] = s] /\ disk' = {file}
          \/ admin' = [admin EXCEPT ![a] = u] /\ disk' = disk /\ r.undo
      <3>1. admin \in [Admins -> Runs]
        BY DEF ApplyInv
      <3> QED BY <2>1, <3>1
    <2>6. Shared'
      <3>1. /\ file' = file /\ disk' \in {disk, {file}} /\ report' = report
            /\ service' \in Services /\ service'.loaded \in {Nobody, service.loaded}
        BY <1>1, <1>2, <2>1
      <3>2. Apply!Fault \/ applyFaults' = applyFaults
        BY <2>1
      <3> QED BY <3>1, <3>2, SharedStays
    <2> HIDE DEF s, u
    <2>7. Remembers(s) /\ Remembers(u)
      <3>1. Remembers(s)
        BY <1>1, <1>2, <2>3 DEF Remembers, Held
      <3>2. Remembers(u)
        BY <1>1, <1>2, <2>4 DEF Remembers, Held
      <3> QED BY <3>1, <3>2
    <2>8. disk' = {file} => Finds(s, file', disk')
      BY <1>1, <1>2, <2>3 DEF Finds, Wanted, Merged
    <2>9. r.undo => Finds(u, file', disk')
      BY <1>1, <1>2, <2>4 DEF Finds, Wanted, Merged
    <2>10. s.pc \in Held /\ u.pc \in Held /\ lock' = lock
      BY <2>1, <2>3, <2>4 DEF Held
    <2> HIDE DEF r
    <2>11. CASE admin' = [admin EXCEPT ![a] = s] /\ disk' = {file}
      BY <1>2, <2>2, <2>6, <2>7, <2>8, <2>10, <2>11, HolderGoes
    <2>12. CASE admin' = [admin EXCEPT ![a] = u] /\ r.undo
      BY <1>2, <2>2, <2>6, <2>7, <2>9, <2>10, <2>12, HolderGoes
    <2> QED BY <2>5, <2>11, <2>12
  <1> QED BY <1>3, <1>4

LEMMA RestartStep ==
  ASSUME Apply!ApplyAssumption, ApplyInv, NEW a \in Admins, Apply!Restart(a)
  PROVE  ApplyInv'
  <1> DEFINE r == admin[a]
  <1>1. r.pc = "restart" /\ UNCHANGED <<file, disk>>
    BY DEF Apply!Restart
  <1>2. /\ r \in Runs /\ Remembers(r) /\ Finds(r, file, disk)
        /\ lock = a /\ service \in Services
    <2>1. lock = a
      BY <1>1, RunTypes DEF Held
    <2> QED BY <2>1, RunTypes DEF ApplyInv, Shared
  <1>3. CASE Apply!Fault /\ service' \in {service, Apply!Stopped} /\ Apply!Failed(a)
    <2>1. service' \in Services /\ service'.loaded \in {Nobody, service.loaded}
      BY <1>2, <1>3, ServicesStart
    <2> QED BY <1>1, <1>2, <1>3, <2>1, FailedStep
  <1>4. CASE /\ service' = Apply!Starting /\ UNCHANGED <<applyFaults, lock, report>>
             /\ admin' = [admin EXCEPT ![a].pc = "wait", ![a].restarted = TRUE]
    <2> DEFINE s == [r EXCEPT !.pc = "wait", !.restarted = TRUE]
    <2>1. s \in Runs
      <3>1. "wait" \in Apply!Places
        BY DEF Apply!Places
      <3> QED BY <1>2, <3>1 DEF Runs
    <2>2. /\ s.pc = "wait" /\ s.expected = r.expected /\ s.undo = r.undo
          /\ s.timing = r.timing /\ s.unsynced = r.unsynced /\ s.outcome = r.outcome
          /\ s.original = r.original /\ s.edited = r.edited
      BY <1>2 DEF Runs
    <2>3. admin' = [admin EXCEPT ![a] = s]
      BY <1>4 DEF ApplyInv
    <2>4. Shared'
      <3>1. /\ file' = file /\ disk' \in {disk, {file}} /\ report' = report
            /\ service' \in Services /\ service'.loaded \in {Nobody, service.loaded}
        BY <1>1, <1>4, ServicesStart
      <3> QED BY <1>4, <3>1, SharedStays
    <2> HIDE DEF s
    <2>5. Remembers(s)
      BY <1>1, <1>2, <2>2 DEF Remembers, Held, Refusals
    <2>6. Finds(s, file', disk')
      BY <1>1, <1>2, <2>2 DEF Finds, Wanted, Merged
    <2>7. s.pc \in Held /\ lock' = lock
      BY <1>4, <2>2 DEF Held
    <2> HIDE DEF r
    <2> QED BY <1>2, <2>1, <2>3, <2>4, <2>5, <2>6, <2>7, HolderGoes
  <1> QED BY <1>3, <1>4 DEF Apply!Restart

LEMMA AskStep ==
  ASSUME Apply!ApplyAssumption, ApplyInv, NEW a \in Admins, Apply!Ask(a)
  PROVE  ApplyInv'
  <1> DEFINE r == admin[a]
             same == r.timing = r.original.timing
             o == CASE ~r.undo /\ same -> "unchanged" [] ~r.undo /\ ~same -> "applied"
                    [] r.undo /\ ~r.unsynced -> "rolledBack" [] OTHER -> "rollbackFailed"
  <1>1. r.pc = "wait" /\ UNCHANGED <<file, disk, service, applyFaults>>
        /\ Apply!End(a, o) /\ service.loaded = Wanted(r)
    BY DEF Apply!Ask, Apply!Unchanged, Apply!Goal, Wanted, Merged
  <1>2. /\ r \in Runs /\ Remembers(r) /\ Finds(r, file, disk)
        /\ lock = a /\ service \in Services
    <2>1. lock = a
      BY <1>1, RunTypes DEF Held
    <2> QED BY <2>1, RunTypes DEF ApplyInv, Shared
  <1>3. /\ o \in {"unchanged", "applied", "rolledBack", "rollbackFailed"}
        /\ o = "applied" => ~r.undo /\ ~same
        /\ o = "rolledBack" => r.undo /\ ~r.unsynced
    OBVIOUS
  <1> HIDE DEF o
  <1>4. /\ o \in Apply!Outcomes \ {"none"} /\ o \notin Refusals
        /\ o \in Apply!Succeeded => o \in {"unchanged", "applied", "rolledBack"}
    BY <1>3 DEF Apply!Outcomes, Refusals, Apply!Succeeded
  <1>5. Wanted(r) \in Apply!WellFormed
    <2>1. r.original \in Apply!WellFormed /\ r.timing \in ValidTimings
      BY <1>1, <1>2 DEF Remembers, Held
    <2> QED BY <2>1 DEF Wanted, Merged, Apply!WithTiming, Apply!WellFormed, ValidTimings
  <1>6. ASSUME o \in Apply!Succeeded, ~r.edited
        PROVE  /\ file = Wanted(r) /\ service.loaded \in {Nobody, file}
               /\ o # "unchanged" => disk = {file}
    <2>1. file = Wanted(r)
      BY <1>1, <1>2, <1>6 DEF Finds
    <2>2. o # "unchanged" => disk = {file}
      BY <1>1, <1>2, <1>3, <1>4, <1>6 DEF Finds
    <2> QED BY <1>1, <2>1, <2>2
  <1>7. service' \in Services /\ service'.loaded = service.loaded
    BY <1>1, <1>2
  <1> HIDE DEF r, same
  <1> QED BY <1>1, <1>2, <1>4, <1>5, <1>6, <1>7, RunEnds DEF r

LEMMA TimeOutStep ==
  ASSUME Apply!ApplyAssumption, ApplyInv, NEW a \in Admins, Apply!TimeOut(a)
  PROVE  ApplyInv'
  <1>1. /\ admin[a].pc = "wait" /\ Apply!Failed(a)
        /\ UNCHANGED <<file, disk, service, applyFaults>>
    BY DEF Apply!TimeOut
  <1>2. lock = a /\ service \in Services
    BY <1>1, RunTypes DEF Held, ApplyInv, Shared
  <1> QED BY <1>1, <1>2, FailedStep

LEMMA CrashStep ==
  ASSUME Apply!ApplyAssumption, ApplyInv, NEW a \in Admins, Apply!Crash(a)
  PROVE  ApplyInv'
  <1>1. /\ lock = a /\ Apply!Fault /\ lock' = Nobody
        /\ admin' = [admin EXCEPT ![a] = Apply!Done(a, "crashed")]
        /\ UNCHANGED <<file, disk, service, report>>
    BY DEF Apply!Crash
  <1>2. Apply!End(a, "crashed")
    BY <1>1 DEF Apply!End, Apply!Succeeded
  <1>3. /\ "crashed" \in Apply!Outcomes \ {"none"} /\ "crashed" \notin Refusals
        /\ "crashed" \notin Apply!Succeeded
    BY DEF Apply!Outcomes, Refusals, Apply!Succeeded
  <1>4. service \in Services
    BY DEF ApplyInv, Shared
  <1> QED BY <1>1, <1>2, <1>3, <1>4, RunEnds

(* Steps of the service.                                                   *)
LEMMA ServiceStep ==
  ASSUME Apply!ApplyAssumption, ApplyInv, Apply!Load \/ Apply!Serve \/ Apply!Die
  PROVE  ApplyInv'
  <1>1. UNCHANGED <<file, disk, lock, admin, report>>
    BY DEF Apply!Load, Apply!Serve, Apply!Die
  <1>2. service \in Services /\ applyFaults' \in 0 .. MaxApplyFaults
    <2>1. service \in Services /\ applyFaults \in 0 .. MaxApplyFaults
      BY DEF ApplyInv, Shared
    <2>2. Apply!Fault \/ applyFaults' = applyFaults
      BY DEF Apply!Load, Apply!Serve, Apply!Die
    <2> QED BY <2>1, <2>2, FaultCounts
  <1>3. service' \in Services /\ service'.loaded \in {Nobody, service.loaded, file}
    <2>1. CASE Apply!Load
      <3>1. \/ service' = [service EXCEPT !.loaded = file] /\ file \in Apply!WellFormed
            \/ service' = Apply!Stopped
        BY <2>1 DEF Apply!Load
      <3>2. CASE service' = [service EXCEPT !.loaded = file] /\ file \in Apply!WellFormed
        BY <1>2, <3>2 DEF Services
      <3> QED BY <3>1, <3>2, ServicesStart
    <2>2. CASE Apply!Serve
      BY <1>2, <2>2 DEF Apply!Serve, Services
    <2>3. CASE Apply!Die
      BY <2>3, ServicesStart DEF Apply!Die
    <2> QED BY <2>1, <2>2, <2>3
  <1>4. Shared'
    <2>1. Apply!ReportStands'
      BY <1>1, <1>3 DEF ApplyInv, Shared, Apply!ReportStands
    <2> QED BY <1>1, <1>2, <1>3, <2>1 DEF ApplyInv, Shared, Services, Reports
  <1> QED BY <1>1, <1>4 DEF ApplyInv, Locked, Runs

LEMMA EditStep ==
  ASSUME Apply!ApplyAssumption, ApplyInv, Apply!Edit
  PROVE  ApplyInv'
  <1>1. /\ Apply!Fault /\ disk' = disk \cup {file'} /\ report' = Nobody
        /\ admin' = IF lock = Nobody THEN admin ELSE [admin EXCEPT ![lock].edited = TRUE]
        /\ service' = service /\ lock' = lock
    BY DEF Apply!Edit
  <1>2. file' \in Apply!Texts
    BY ApplyFacts DEF Apply!Edit
  <1>3. Shared'
    <2>1. /\ disk \subseteq Apply!Texts /\ service' \in Services
          /\ applyFaults' \in 0 .. MaxApplyFaults
      BY <1>1, FaultCounts DEF ApplyInv, Shared
    <2>2. file' \in Apply!Texts /\ disk' \subseteq Apply!Texts /\ file' \in disk'
      BY <1>1, <1>2, <2>1
    <2>3. report' \in Reports /\ Apply!ReportStands'
      BY <1>1 DEF Reports, Apply!ReportStands
    <2> QED BY <2>1, <2>2, <2>3 DEF Shared, Services, Reports
  <1>4. CASE lock = Nobody
    <2>1. admin' = admin /\ lock' = lock /\ admin \in [Admins -> Runs]
      BY <1>1, <1>4 DEF ApplyInv
    <2>2. ASSUME NEW a \in Admins PROVE Remembers(admin[a]) /\ Finds(admin[a], file', disk')
      <3>1. admin[a].pc \notin Held
        BY <1>4, RunTypes
      <3> QED BY <3>1, RunTypes DEF Finds, Held
    <2> QED BY <1>3, <2>1, <2>2 DEF ApplyInv, Locked, Runs
  <1>5. CASE lock # Nobody
    <2>1. lock \in Admins /\ admin \in [Admins -> Runs]
      BY <1>5 DEF ApplyInv, Locked
    <2> DEFINE r == admin[lock]
               s == [r EXCEPT !.edited = TRUE]
    <2>2. r \in Runs /\ Remembers(r) /\ r.pc \in Held
      BY <2>1, RunTypes
    <2>3. admin' = [admin EXCEPT ![lock] = s] /\ lock' = lock
      BY <1>1, <1>5, <2>1
    <2>4. s \in Runs
      BY <2>2 DEF Runs
    <2>5. /\ s.pc = r.pc /\ s.expected = r.expected /\ s.undo = r.undo
          /\ s.timing = r.timing /\ s.restarted = r.restarted /\ s.outcome = r.outcome
          /\ s.original = r.original /\ s.edited
      BY <2>2 DEF Runs
    <2> HIDE DEF s
    <2>6. Remembers(s) /\ Finds(s, file', disk')
      <3>1. Remembers(s)
        BY <2>2, <2>5 DEF Remembers
      <3>2. Finds(s, file', disk')
        BY <2>5 DEF Finds
      <3> QED BY <3>1, <3>2
    <2>7. s.pc \in Held
      BY <2>2, <2>5
    <2> HIDE DEF r
    <2> QED BY <1>3, <2>1, <2>3, <2>4, <2>6, <2>7, HolderGoes
  <1> QED BY <1>4, <1>5

LEMMA PowerStep ==
  ASSUME Apply!ApplyAssumption, ApplyInv, Apply!PowerLoss
  PROVE  ApplyInv'
  <1>1. /\ Apply!Fault /\ file' \in disk /\ disk' = {file'} /\ service' = Apply!Starting
        /\ lock' = Nobody /\ report' = IF file' = file THEN report ELSE Nobody
        /\ admin' = [a \in Admins |-> IF Apply!Running(a) THEN Apply!Done(a, "crashed")
                                      ELSE admin[a]]
    BY DEF Apply!PowerLoss
  <1>2. Shared'
    <2>1. /\ file' \in Apply!Texts /\ disk' \subseteq Apply!Texts /\ file' \in disk'
          /\ applyFaults' \in 0 .. MaxApplyFaults /\ service' \in Services
          /\ service'.loaded = Nobody
      BY <1>1, FaultCounts, ServicesStart DEF ApplyInv, Shared
    <2>2. report' \in Reports
      BY <1>1 DEF ApplyInv, Shared, Reports
    <2>3. Apply!ReportStands'
      BY <1>1, <2>1 DEF ApplyInv, Shared, Apply!ReportStands
    <2> QED BY <2>1, <2>2, <2>3 DEF Shared, Services, Reports
  <1>3. ASSUME NEW a \in Admins
        PROVE  /\ admin'[a] \in Runs /\ admin'[a].pc \notin Held
               /\ Remembers(admin'[a]) /\ Finds(admin'[a], file', disk')
    <2>0. admin[a] \in Runs /\ Remembers(admin[a]) /\ Finds(admin[a], file, disk)
      BY RunTypes
    <2>1. CASE Apply!Running(a)
      <3> DEFINE s == Apply!Done(a, "crashed")
      <3>1. Apply!Fresh \in Runs /\ admin[a].restarted \in BOOLEAN
        BY RunTypes DEF Runs
      <3>2. "done" \in Apply!Places /\ "crashed" \in Apply!Outcomes
        BY DEF Apply!Places, Apply!Outcomes
      <3>3. s = [Apply!Fresh EXCEPT !.pc = "done", !.outcome = "crashed",
                                    !.restarted = admin[a].restarted]
        BY DEF Apply!Done
      <3>4. s \in Runs
        BY <3>1, <3>2, <3>3 DEF Runs
      <3>5. s.pc = "done" /\ s.outcome = "crashed"
        BY <3>1, <3>3 DEF Runs
      <3> HIDE DEF s
      <3>6. admin'[a] = s
        BY <1>1, <2>1 DEF s
      <3> QED BY <3>4, <3>5, <3>6 DEF Remembers, Finds, Held, Refusals
    <2>2. CASE ~Apply!Running(a)
      <3>1. admin'[a] = admin[a] /\ admin[a].pc \in {"idle", "done"}
        BY <1>1, <2>2 DEF Apply!Running
      <3> QED BY <2>0, <3>1 DEF Finds, Held
    <2> QED BY <2>1, <2>2
  <1>4. admin' \in [Admins -> Runs]
    BY <1>1, <1>3
  <1>5. Locked'
    BY <1>1, <1>3, RunTypes DEF Locked
  <1> QED BY <1>2, <1>3, <1>4, <1>5 DEF ApplyInv, Runs

(* A step of the model keeps ApplyInv.                                     *)
LEMMA ApplyStep ==
  ASSUME Apply!ApplyAssumption, ApplyInv, Apply!Next \/ UNCHANGED Apply!vars
  PROVE  ApplyInv'
  <1>1. ASSUME NEW a \in Admins,
               Apply!Show(a) \/ Apply!Acquire(a) \/ Apply!AdminStep(a) \/ Apply!Crash(a)
        PROVE  ApplyInv'
    BY <1>1, ShowStep, AcquireStep, ReadStep, CheckStep, ReplaceStep, SyncStep, RestartStep,
       AskStep, TimeOutStep, CrashStep DEF Apply!AdminStep
  <1>2. CASE UNCHANGED Apply!vars
    BY <1>2 DEF Apply!vars, ApplyInv, Shared, Locked, Runs, Services, Reports,
       Apply!ReportStands
  <1> QED BY <1>1, <1>2, ServiceStep, EditStep, PowerStep DEF Apply!Next

LEMMA ApplyStart ==
  ASSUME Apply!ApplyAssumption, Apply!Init
  PROVE  ApplyInv
  <1>1. /\ file \in Apply!WellFormed /\ disk = {file} /\ lock = Nobody /\ report = Nobody
        /\ service = [pid |-> 1, loaded |-> file, serving |-> file.timing \in
                        {Timing(1, 1), Timing(1, 2)}]
        /\ admin = [a \in Admins |-> Apply!Fresh] /\ applyFaults = 0
    BY DEF Apply!Init
  <1>2. Apply!Fresh \in Runs /\ Remembers(Apply!Fresh)
    <2>1. 0 \in Apply!Pids
      BY PidsStart
    <2>2. [s \in {} |-> 0] \in Choices
      <3>1. [s \in {} |-> 0] \in [{} -> {1, 2}] /\ {} \in SUBSET {"rate", "period"}
        OBVIOUS
      <3> QED BY <3>1 DEF Choices
    <2>3. "idle" \in Apply!Places /\ "none" \in Apply!Outcomes
      BY DEF Apply!Places, Apply!Outcomes
    <2>4. Remembers(Apply!Fresh)
      BY DEF Apply!Fresh, Remembers, Held
    <2> QED BY <2>1, <2>2, <2>3, <2>4 DEF Apply!Fresh, Runs
  <1>3. Apply!Fresh.pc = "idle"
    BY DEF Apply!Fresh
  <1>4. Shared
    <2>1. file \in Apply!Texts /\ disk \subseteq Apply!Texts /\ file \in disk
      BY <1>1 DEF Apply!Texts
    <2>2. service \in Services
      <3>1. 1 \in Apply!Pids /\ (file.timing \in {Timing(1, 1), Timing(1, 2)}) \in BOOLEAN
        BY PidsStart
      <3> QED BY <1>1, <3>1 DEF Services
    <2>3. report \in Reports /\ Apply!ReportStands
      BY <1>1 DEF Reports, Apply!ReportStands
    <2>4. applyFaults \in 0 .. MaxApplyFaults
      BY <1>1, ApplyFacts
    <2> QED BY <2>1, <2>2, <2>3, <2>4 DEF Shared
  <1>5. Locked
    BY <1>1, <1>3, ApplyFacts DEF Locked, Held
  <1> QED BY <1>1, <1>2, <1>3, <1>4, <1>5 DEF ApplyInv, Finds

(* What the runs check of it.                                              *)
LEMMA ReportsOfApply ==
  ASSUME Apply!ApplyAssumption, ApplyInv
  PROVE  Apply!TypeOK /\ Apply!ReportStands /\ Apply!EditsAreKept /\ Apply!ClientsAreTold
  <1>1. Apply!ReportStands
    BY DEF ApplyInv, Shared
  <1>2. Apply!EditsAreKept
    <2> SUFFICES ASSUME NEW a \in Admins, admin[a].pc = "replace", ~admin[a].edited
                 PROVE  file = IF admin[a].undo
                               THEN Apply!WithTiming(admin[a].original, admin[a].timing)
                               ELSE admin[a].expected
      BY DEF Apply!EditsAreKept
    <2> QED BY RunTypes DEF Remembers, Finds, Merged
  <1>3. Apply!ClientsAreTold
    BY RunTypes DEF Apply!ClientsAreTold, Remembers, Refusals
  <1>4. Apply!TypeOK
    <2>1. ASSUME NEW a \in Admins
          PROVE  /\ admin[a].pc \in Apply!Places /\ admin[a].outcome \in Apply!Outcomes
                 /\ admin[a].timing \in Apply!Timings \cup {Nobody}
                 /\ admin[a].original \in Apply!WellFormed \cup {Nobody}
                 /\ admin[a].expected \in Apply!WellFormed \cup {Nobody}
                 /\ admin[a].previous \in Apply!Pids
      BY RunTypes DEF Runs
    <2>2. /\ service.pid \in Apply!Pids /\ service.loaded \in Apply!WellFormed \cup {Nobody}
          /\ service.serving \in BOOLEAN
      BY DEF ApplyInv, Shared, Services
    <2>3. lock \in Admins \cup {Nobody} /\ report \in Reports
      BY DEF ApplyInv, Shared, Locked
    <2>4. /\ file \in Apply!Texts /\ disk \subseteq Apply!Texts /\ file \in disk
          /\ applyFaults \in 0 .. MaxApplyFaults
      BY DEF ApplyInv, Shared
    <2> QED BY <2>1, <2>2, <2>3, <2>4 DEF Apply!TypeOK, Reports
  <1> QED BY <1>1, <1>2, <1>3, <1>4

-----------------------------------------------------------------------------
(***************************************************************************)
(* The programs of MCControl, one of which runs: the others rest.          *)
(***************************************************************************)
ProgramsInv ==
  /\ ProcessInv /\ faults \in Nat /\ ApplyInv
  /\ program = "playback" => RefreshInv(App, Sinks)
  /\ program = "capture" => RefreshInv(Sources, App)

LEMMA Assumed ==
  /\ Apply!ApplyAssumption
  /\ Links(App, Sinks)!RefreshAssumption /\ Links(Sources, App)!RefreshAssumption
  BY ProgramsAssumption

LEMMA ProgramsStart == ControlInit => ProgramsInv
  <1> SUFFICES ASSUME ControlInit PROVE ProgramsInv
    OBVIOUS
  <1>1. ProcessInv /\ faults \in Nat
    BY InitProcess DEF ControlInit, Process!Init
  <1>2. ApplyInv
    BY Assumed, ApplyStart DEF ControlInit
  <1>3. program = "playback" => RefreshInv(App, Sinks)
    <2>1. program = "playback" => Links(App, Sinks)!Init
      BY DEF ControlInit
    <2> QED BY <2>1, Assumed, RefreshStart
  <1>4. program = "capture" => RefreshInv(Sources, App)
    <2>1. program = "capture" => Links(Sources, App)!Init
      BY DEF ControlInit
    <2> QED BY <2>1, Assumed, RefreshStart
  <1> QED BY <1>1, <1>2, <1>3, <1>4 DEF ProgramsInv

(* What a program's variables say stays while another program runs.        *)
LEMMA ProcessRests ==
  ASSUME ProcessInv, faults \in Nat, UNCHANGED daemonVars
  PROVE  ProcessInv' /\ faults' \in Nat /\ SocketStands
  <1>1. UNCHANGED Process!vars
    BY DEF daemonVars, Process!vars
  <1>2. faults' \in Nat
    BY DEF daemonVars
  <1> QED BY <1>1, <1>2, ProcessStep

LEMMA ApplyRests ==
  ASSUME ApplyInv, UNCHANGED applyVars
  PROVE  ApplyInv'
  <1>1. UNCHANGED Apply!vars
    BY DEF applyVars, Apply!vars
  <1> QED BY <1>1, Assumed, ApplyStep

LEMMA RefreshRests ==
  ASSUME NEW CONSTANT O, NEW CONSTANT I, Links(O, I)!RefreshAssumption, RefreshInv(O, I),
         UNCHANGED linkVars
  PROVE  RefreshInv(O, I)' /\ Links(O, I)!RoutesRemain
  <1>1. UNCHANGED Links(O, I)!vars
    BY DEF linkVars, Links!vars, Links!graphVars
  <1> QED BY <1>1, RefreshStep

RoutesStay ==
  /\ program = "playback" => Links(App, Sinks)!RoutesRemain
  /\ program = "capture" => Links(Sources, App)!RoutesRemain

LEMMA ProgramsStep ==
  ASSUME ProgramsInv, ControlNext \/ UNCHANGED allVars
  PROVE  ProgramsInv' /\ SocketStands /\ RoutesStay
  <1>0. program' = program
    BY DEF ControlNext, LibraryNext, BareNext, ProcessNext, ApplyNext, PlaybackNext, CaptureNext,
       LibraryRuns, BareRuns, ProcessRuns, ApplyRuns, PlaybackRuns, CaptureRuns, LinksRest, allVars
  <1>1. ProcessInv' /\ faults' \in Nat /\ SocketStands
    <2>1. Process!Next \/ UNCHANGED daemonVars
      BY DEF ControlNext, LibraryNext, BareNext, ProcessNext, ApplyNext, PlaybackNext,
         CaptureNext, LibraryRuns, BareRuns, ApplyRuns, PlaybackRuns, CaptureRuns, LinksRest,
         allVars
    <2>2. CASE Process!Next
      <3>1. [Process!Next]_(Process!vars)
        BY <2>2
      <3> QED BY <3>1, ProcessStep, FaultsCount DEF ProgramsInv
    <2> QED BY <2>1, <2>2, ProcessRests DEF ProgramsInv
  <1>2. ApplyInv'
    <2>1. Apply!Next \/ UNCHANGED applyVars
      BY DEF ControlNext, LibraryNext, BareNext, ProcessNext, ApplyNext, PlaybackNext,
         CaptureNext, LibraryRuns, BareRuns, ProcessRuns, PlaybackRuns, CaptureRuns, LinksRest,
         allVars
    <2> QED BY <2>1, Assumed, ApplyStep, ApplyRests DEF ProgramsInv
  <1>3. program = "playback" => RefreshInv(App, Sinks)' /\ Links(App, Sinks)!RoutesRemain
    <2> SUFFICES ASSUME program = "playback"
                 PROVE  RefreshInv(App, Sinks)' /\ Links(App, Sinks)!RoutesRemain
      OBVIOUS
    <2>1. Links(App, Sinks)!Next \/ UNCHANGED linkVars
      BY DEF ControlNext, LibraryNext, BareNext, ProcessNext, ApplyNext, PlaybackNext,
         CaptureNext, LibraryRuns, BareRuns, ProcessRuns, ApplyRuns, CaptureRuns, LinksRest,
         allVars
    <2>2. RefreshInv(App, Sinks)
      BY DEF ProgramsInv
    <2> QED BY <2>1, <2>2, Assumed, RefreshStep, RefreshRests
  <1>4. program = "capture" => RefreshInv(Sources, App)' /\ Links(Sources, App)!RoutesRemain
    <2> SUFFICES ASSUME program = "capture"
                 PROVE  RefreshInv(Sources, App)' /\ Links(Sources, App)!RoutesRemain
      OBVIOUS
    <2>1. Links(Sources, App)!Next \/ UNCHANGED linkVars
      BY DEF ControlNext, LibraryNext, BareNext, ProcessNext, ApplyNext, PlaybackNext,
         CaptureNext, LibraryRuns, BareRuns, ProcessRuns, ApplyRuns, PlaybackRuns, LinksRest,
         allVars
    <2>2. RefreshInv(Sources, App)
      BY DEF ProgramsInv
    <2> QED BY <2>1, <2>2, Assumed, RefreshStep, RefreshRests
  <1>5. ProgramsInv'
    BY <1>0, <1>1, <1>2, <1>3, <1>4 DEF ProgramsInv, RefreshInv, App, Sinks, Sources
  <1> QED BY <1>1, <1>3, <1>4, <1>5 DEF RoutesStay

LEMMA ProgramsAlways == ControlSpec => []ProgramsInv
  <1>1. ControlInit => ProgramsInv
    BY ProgramsStart
  <1>2. ProgramsInv /\ [ControlNext]_allVars => ProgramsInv'
    BY ProgramsStep
  <1> QED BY <1>1, <1>2, PTL DEF ControlSpec

(* What a run of sidealsa-admin reports is true, whatever fails, crashes   *)
(* or is edited meanwhile and however many runs there are, and a refresh   *)
(* of the links that ends well has settled every link it took down.        *)
THEOREM ReportsHold == ControlSpec => []ReportsAreTrue
  <1>1. ProgramsInv => ReportsAreTrue
    <2> SUFFICES ASSUME ProgramsInv PROVE ReportsAreTrue
      OBVIOUS
    <2>1. Apply!TypeOK /\ Apply!ReportStands /\ Apply!EditsAreKept /\ Apply!ClientsAreTold
      BY Assumed, ReportsOfApply DEF ProgramsInv
    <2>2. program = "playback" => Links(App, Sinks)!TypeOK /\ Links(App, Sinks)!RefreshIsWhole
      BY RefreshEnds DEF ProgramsInv
    <2>3. program = "capture" => Links(Sources, App)!TypeOK /\ Links(Sources, App)!RefreshIsWhole
      BY RefreshEnds DEF ProgramsInv
    <2> QED BY <2>1, <2>2, <2>3 DEF ReportsAreTrue
  <1> QED BY <1>1, ProgramsAlways, PTL

(* No daemon takes away a socket that another one accepts on and began to  *)
(* listen on while no other listener was amid its own start or removal,    *)
(* for any number of daemons, and the reconnecting worker neither takes    *)
(* down nor puts up a link where another route was chosen or is not the    *)
(* daemon's.                                                               *)
THEOREM NeighboursAreSafe == ControlSpec => OthersAreLeftAlone
  <1>1. ProgramsInv /\ [ControlNext]_allVars => SocketStands /\ RoutesStay
    BY ProgramsStep
  <1>2. /\ SocketStands => [SocketStands]_(Process!vars)
        /\ RoutesStay => [program = "playback" => Links(App, Sinks)!RoutesRemain]_linkVars
        /\ RoutesStay => [program = "capture" => Links(Sources, App)!RoutesRemain]_linkVars
    BY DEF RoutesStay
  <1> QED BY <1>1, <1>2, ProgramsAlways, PTL DEF ControlSpec, OthersAreLeftAlone,
          Process!SocketsStand, SocketStands
=============================================================================
