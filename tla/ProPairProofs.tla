---------------------------- MODULE ProPairProofs ----------------------------
(***************************************************************************)
(* For every number of connections, processes, tokens, sessions, starts    *)
(* and recoveries: one process owns the PRO device, its owners, sessions   *)
(* and start requests agree, and a pair that asked to start together does. *)
(*                                                                         *)
(* The argument.  pro_ownership, the owners of the two streams and the     *)
(* sessions the connections hold differ only while the operation that      *)
(* changes them runs.  What the capture thread has seen active behind a    *)
(* guard stays active, or is being stopped by an operation that has to     *)
(* wait for the guard; so neither a request bit nor an activation can be   *)
(* taken for another lifecycle's.                                          *)
(***************************************************************************)
EXTENDS MCProPair, FiniteSetTheorems, TLAPS

(* The owners of the streams and of the device, operation by operation.    *)
OwnersDiffer ==
  /\ control.op \in {"none", "start", "activate", "stop", "stopping"} => owner = ownership.id
  /\ control.op = "create" =>
       /\ owner = [ownership.id EXCEPT ![control.dir] = control.id]
       /\ MayOpen(control.dir, control.group)
  /\ control.op \in {"close", "closing"} =>
       owner = [ownership.id EXCEPT ![control.dir] = Closing]
  /\ control.op = "release" => owner = [ownership.id EXCEPT ![control.dir] = NoSession]

(* An operation is of the connection that holds the session it works on.   *)
OperationsAreOwn ==
  /\ Locked => control.conn \in Connections /\ control.id \in Sessions
  /\ Locked => active[control.dir] = NoSession
  /\ control.op = "start" => life[control.dir] < MaxStarts[control.dir]
  /\ control.op = "create" =>
       /\ held[control.conn] = NoSession /\ control.id + 1 = nextSession
       /\ control.group = Duplex \/ control.group[1] = peer[control.conn]
  /\ Locked /\ control.op # "create" =>
       held[control.conn] = control.id /\ ownership.id[control.dir] = control.id

(* Sessions are new when they are opened, and belong to one connection and *)
(* one direction until they are closed.                                    *)
Allocated == IF control.op = "create" THEN control.id ELSE nextSession
SessionsAreDistinct ==
  /\ \A c \in Connections : held[c] < Allocated
  /\ \A d \in Directions : endpoint[d] < Allocated
  /\ \A c, e \in Connections : held[c] = held[e] /\ held[c] # NoSession => c = e
  /\ \A d, e \in Directions : endpoint[d] = endpoint[e] /\ endpoint[d] # NoSession => d = e
SessionsAreOwned ==
  /\ \A c \in Connections : held[c] # NoSession => \E d \in Directions : ownership.id[d] = held[c]
  /\ \A d \in Directions : ownership.id[d] # NoSession =>
       endpoint[d] = ownership.id[d] /\ \E c \in Connections : held[c] = ownership.id[d]
  /\ \A d \in Directions : active[d] \in {NoSession, ownership.id[d]}

GroupOwns ==
  /\ ownership.kind = "none" => ownership = NoOwner
  /\ (\A d \in Directions : ownership.id[d] = NoSession) => ownership.kind = "none"
  /\ ownership.kind = "duplex" => ownership.id["capture"] = NoSession
  /\ ownership.kind = "split" =>
       \A c \in Connections : held[c] # NoSession => peer[c] = ownership.group[1]

Owners == OwnersDiffer /\ OperationsAreOwn /\ SessionsAreDistinct /\ SessionsAreOwned /\ GroupOwns

(* Where the capture thread is, and what it holds there.                   *)
Pairing == {"look", "mask", "pair", "clear", "unpin"}
Publishing == {"active", "bit", "publish one", "leave"}
CycleShape ==
  /\ pc \in {"idle", "publish"} => pinned = {}
  /\ pc = "load" => todo # {} /\ pinned = Directions \ todo
  /\ pc \in Pairing => pinned = Directions
  /\ pc \in {"look", "pair"} => todo # {}
  /\ pc \in Publishing => \A d, e \in pinned : d = e
  /\ pc \notin {"pair", "clear", "unpin"} => activated = {}

(* A lifecycle that was seen active behind a guard cannot end before the   *)
(* guard is dropped.                                                       *)
Stopping(d) ==
  /\ control.dir = d
  /\ control.op \in {"stop", "close"} \/ (control.op \in {"stopping", "closing"} /\ control.waits)
PinnedLife(d) ==
  seen[d].active # NoSession =>
    /\ d \in pinned
    /\ active[d] = seen[d].active \/ (Stopping(d) /\ control.id = seen[d].active)
PinnedLives == \A d \in Directions : PinnedLife(d)

(* A request stands from the aligned START to the activation or the stop.  *)
InUse(d) == active[d] # NoSession \/ (control.dir = d /\ control.op \notin {"none", "create"})
InUseOrSeen(d) == active[d] # NoSession \/ seen[d].active # NoSession
RequestsStand == \A d \in pairStart : d \in aligned /\ InUse(d)
LiveHaveAsked ==
  \A d \in aligned : InUseOrSeen(d) => d \in pairStart \/ region[endpoint[d]].start = "ready"
StartsHaveAsked ==
  control.op \in {"start", "activate"} /\ control.dir \in aligned => control.dir \in pairStart
Requests == RequestsStand /\ LiveHaveAsked /\ StartsHaveAsked

SeenLive(d) == seen[d].active # NoSession /\ seen[d].active = seen[d].endpoint
Answers ==
  /\ \A d \in activated : SeenLive(d) /\ region[seen[d].endpoint].start = "ready"
  /\ pc = "publish one" =>
       \A d \in pinned \intersect aligned : SeenLive(d) => region[seen[d].endpoint].start = "ready"

(* The cycle of a pair in which both requests stood when it began.         *)
Together ==
  bothAsked /\ pc \in {"load", "look", "mask", "pair", "clear"} =>
    /\ \A d \in Directions : Asked(d)
    /\ \A d \in Directions : pc # "load" \/ d \notin todo => seen[d].endpoint = active[d]
    /\ pc # "load" => runs = hardware
    /\ \A d \in Directions : pc \in {"mask", "pair", "clear"} \/ (pc = "look" /\ d \notin todo) =>
         seen[d].active = active[d] /\ seen[d].current
    /\ pc \in {"pair", "clear"} => mask = Directions
    /\ pc = "pair" => Directions \ todo \subseteq activated
    /\ pc = "clear" => activated = Directions

IInv ==
  TypeOK /\ Owners /\ CycleShape /\ PinnedLives /\ Requests /\ Answers /\ Together

-----------------------------------------------------------------------------
(* What a step of the control threads, and one of the capture thread, leave *)
(* alone.                                                                  *)
ControlStep == (\E c \in Connections, d \in Directions : RequestStep(c, d)) \/ OperationStep
OwnedVars == <<peer, ownership, nextSession, owner, active, life, lifeOn, held, aligned>>
SameOperation ==
  /\ control'.op = control.op /\ control'.conn = control.conn /\ control'.dir = control.dir
  /\ control'.id = control.id /\ control'.group = control.group

LEMMA InitIInv == Init => IInv
<1> SUFFICES ASSUME Init PROVE IInv
    OBVIOUS
<1> USE DEF Init, NoControl, NoOwner, Unseen, Directions, Ids, Sessions, Closing, NoSession, Locked
<1>1. OwnerTypes
  <2>1. ownership \in [kind : {"none", "duplex", "split"}, group : Groups \union {None},
                     id : [Directions -> Ids]]
    OBVIOUS
  <2>2. control \in [op : {"none", "create", "start", "activate", "stop", "stopping",
                         "close", "closing", "release"},
                   conn : Connections \union {None}, dir : Directions, id : Ids,
                   group : Groups \union {None}, on : 0..MaxGeneration, waits : BOOLEAN]
    BY PairAssumption DEF PairAssumption, Duplex
  <2>3. nextSession \in 1..(MaxSessions + 1)
    BY PairAssumption DEF PairAssumption
  <2> QED
    BY <2>1, <2>2, <2>3 DEF OwnerTypes
<1>2. LifeTypes
  BY PairAssumption DEF PairAssumption, LifeTypes, Regions
<1>3. CycleTypes
  <2>1. runs \in 0..MaxGeneration
    BY PairAssumption DEF PairAssumption
  <2>2. seen \in [Directions -> [endpoint : Ids, active : Ids, current : BOOLEAN]]
    OBVIOUS
  <2> QED
    BY <2>1, <2>2 DEF CycleTypes
<1>4. Owners
  BY PairAssumption DEF PairAssumption, Owners, OwnersDiffer, OperationsAreOwn, Allocated,
     SessionsAreDistinct, SessionsAreOwned, GroupOwns
<1>5. CycleShape /\ PinnedLives
  BY DEF CycleShape, Pairing, Publishing, PinnedLives, PinnedLife
<1>6. Requests /\ Answers /\ Together
  BY DEF Requests, RequestsStand, LiveHaveAsked, StartsHaveAsked, Answers, Together
<1> QED
  BY <1>1, <1>2, <1>3, <1>4, <1>5, <1>6 DEF IInv, TypeOK

LEMMA ControlLeavesCycle ==
  ASSUME ControlStep
  PROVE  UNCHANGED <<cycleVars, hardware, peer>> /\ (bothAsked' => bothAsked)
<1>1. CASE \E c \in Connections, d \in Directions : RequestStep(c, d)
  <2>1. PICK c \in Connections, d \in Directions : RequestStep(c, d)
    BY <1>1
  <2>2. CASE \E group : BeginOpen(c, d, group)
    BY <2>2 DEF BeginOpen
  <2>3. CASE BeginStart(c, d) \/ BeginAlignedStart(c, d)
    BY <2>3 DEF BeginStart, BeginAlignedStart
  <2>4. CASE BeginStop(c, d) \/ BeginClose(c, d)
    BY <2>4 DEF BeginStop, BeginClose
  <2> QED
    BY <2>1, <2>2, <2>3, <2>4 DEF RequestStep
<1>2. CASE OperationStep
  BY <1>2 DEF OperationStep, Create, FailToCreate, ResetRegion, Activate, Drain, FinishStop,
     Release, FinishClose
<1> QED
  BY <1>1, <1>2 DEF ControlStep

LEMMA CaptureLeavesOwners ==
  ASSUME TypeOK, CaptureStep
  PROVE  /\ UNCHANGED <<OwnedVars, endpoint, hardware>>
         /\ SameOperation /\ OwnerTypes'
         /\ control' = [control EXCEPT !.waits = FALSE] \/ control' = control
<1>1. CASE DropGuards \/ \E d \in Directions : EndPublish(d)
  <2>1. Unpin
    BY <1>1 DEF DropGuards, EndPublish
  <2>2. control' = [control EXCEPT !.waits = @ /\ control.dir \notin pinned]
    BY <2>1 DEF Unpin
  <2>3. control' = IF control.dir \in pinned THEN [control EXCEPT !.waits = FALSE] ELSE control
    BY <2>2 DEF TypeOK, OwnerTypes
  <2>4. SameOperation
    BY <2>3 DEF TypeOK, OwnerTypes, SameOperation
  <2>5. UNCHANGED <<OwnedVars, ownership, endpoint, hardware>>
    BY <2>1 DEF Unpin, OwnedVars
  <2>6. OwnerTypes'
    BY <2>3, <2>5 DEF TypeOK, OwnerTypes, OwnedVars
  <2> QED
    BY <2>3, <2>4, <2>5, <2>6
<1>2. CASE ~(DropGuards \/ \E d \in Directions : EndPublish(d))
  <2>1. UNCHANGED <<controlVars, endpoint, hardware>>
    BY <1>2 DEF CaptureStep, BeginCycle, Load, Look, ReadMask, PassOver, WaitForPeer, StartOne,
       Considered, ClearRequests, BeginPublish, ReadActive, ReadBit, PublishOne
  <2> QED
    BY <2>1 DEF controlVars, OwnedVars, SameOperation, OwnerTypes, TypeOK
<1> QED
  BY <1>1, <1>2

(* A request step, by what it asks for. *)
LEMMA RequestCases ==
  ASSUME TypeOK, NEW c \in Connections, NEW d \in Directions, RequestStep(c, d)
  PROVE  \/ \E group \in Groups \union {None} :
              BeginOpen(c, d, group) /\ (group = Duplex \/ group[1] = peer[c])
         \/ BeginStart(c, d) \/ BeginAlignedStart(c, d) \/ BeginStop(c, d) \/ BeginClose(c, d)
<1>1. ASSUME NEW t \in Tokens
      PROVE  <<peer[c], t>> \in Groups /\ <<peer[c], t>>[1] = peer[c]
  BY PairAssumption DEF PairAssumption, TypeOK, OwnerTypes, Groups
<1> QED
  BY <1>1 DEF RequestStep, Duplex

-----------------------------------------------------------------------------
(* Types. *)
LEMMA OwnerTypesKept ==
  ASSUME TypeOK, ControlStep
  PROVE  OwnerTypes'
<1> USE PairAssumption DEF PairAssumption, TypeOK, OwnerTypes
<1>1. ASSUME NEW c \in Connections, NEW d \in Directions, RequestStep(c, d)
      PROVE  OwnerTypes'
  <2>1. ASSUME NEW group \in Groups \union {None}, BeginOpen(c, d, group)
        PROVE  OwnerTypes'
    <3>1. nextSession \in Sessions /\ nextSession' \in 1..(MaxSessions + 1)
      BY <2>1 DEF BeginOpen, Sessions
    <3>2. control' \in [op : {"create"}, conn : Connections, dir : Directions, id : Ids,
                       group : Groups \union {None}, on : 0..MaxGeneration, waits : BOOLEAN]
      <4>1. control' = [op |-> "create", conn |-> c, dir |-> d, id |-> nextSession,
                        group |-> group, on |-> 0, waits |-> FALSE]
        BY <2>1 DEF BeginOpen, NoControl
      <4>2. 0 \in 0..MaxGeneration /\ nextSession \in Ids
        BY <3>1 DEF Ids
      <4> QED
        BY <4>1, <4>2
    <3>3. owner' \in [Directions -> Ids \union {Closing}]
      BY <2>1, <3>1 DEF BeginOpen, Ids
    <3> QED
      BY <2>1, <3>1, <3>2, <3>3 DEF BeginOpen
  <2>2. ASSUME NEW op \in {"start", "stop", "close"}, Lock(c, d, op)
        PROVE  control' \in [op : {op}, conn : Connections, dir : Directions, id : Ids,
                            group : Groups \union {None}, on : 0..MaxGeneration, waits : BOOLEAN]
    BY <2>2 DEF Lock, NoControl, LifeTypes, Duplex
  <2>3. CASE BeginStart(c, d) \/ BeginAlignedStart(c, d)
    BY <2>2, <2>3 DEF BeginStart, BeginAlignedStart
  <2>4. CASE BeginStop(c, d)
    <3>1. active' \in [Directions -> Ids]
      BY <2>4 DEF BeginStop, Ids
    <3> QED
      BY <2>2, <2>4, <3>1 DEF BeginStop
  <2>5. CASE BeginClose(c, d)
    <3>1. active' \in [Directions -> Ids] /\ owner' \in [Directions -> Ids \union {Closing}]
      BY <2>5 DEF BeginClose, Ids
    <3> QED
      BY <2>2, <2>5, <3>1 DEF BeginClose
  <2> QED
    BY <1>1, <2>1, <2>3, <2>4, <2>5, RequestCases
<1>2. Unlock => control' \in [op : {"none"}, conn : {None}, dir : Directions, id : Ids,
                             group : {None}, on : 0..MaxGeneration, waits : BOOLEAN]
  BY DEF Unlock, NoControl, Directions, Ids, Duplex
<1>3. CASE Create
  <2>1. ownership' \in [kind : {"none", "duplex", "split"}, group : Groups \union {None},
                       id : [Directions -> Ids]]
    BY <1>3 DEF Create
  <2>2. endpoint' \in [Directions -> Ids] /\ held' \in [Connections -> Ids]
    BY <1>3 DEF Create
  <2> QED
    BY <1>2, <1>3, <2>1, <2>2 DEF Create
<1>4. CASE FailToCreate
  <2>1. owner' \in [Directions -> Ids \union {Closing}]
    BY <1>4 DEF FailToCreate, Ids
  <2> QED
    BY <1>2, <1>4, <2>1 DEF FailToCreate
<1>5. CASE ResetRegion
  BY <1>5 DEF ResetRegion, Continue
<1>6. CASE Activate
  <2>1. active' \in [Directions -> Ids]
    BY <1>6 DEF Activate
  <2> QED
    BY <1>2, <1>6, <2>1 DEF Activate
<1>7. CASE Drain
  <2>1. control' = [control EXCEPT !.op = IF control.op = "stop" THEN "stopping" ELSE "closing",
                                  !.waits = control.dir \in pinned]
    BY <1>7 DEF Drain
  <2>2. CASE control.dir \in pinned
    <3>1. control' = [control EXCEPT !.op = IF control.op = "stop" THEN "stopping" ELSE "closing",
                                    !.waits = TRUE]
      BY <2>1, <2>2
    <3> QED
      BY <1>7, <3>1 DEF Drain
  <2>3. CASE control.dir \notin pinned
    <3>1. control' = [control EXCEPT !.op = IF control.op = "stop" THEN "stopping" ELSE "closing",
                                    !.waits = FALSE]
      <4>1. (control.dir \in pinned) = FALSE
        BY <2>3
      <4> QED
        BY <2>1, <4>1
    <3> QED
      BY <1>7, <3>1 DEF Drain
  <2> QED
    BY <2>2, <2>3
<1>8. CASE FinishStop
  BY <1>2, <1>8 DEF FinishStop
<1>9. CASE Release
  <2>1. owner' \in [Directions -> Ids \union {Closing}]
    BY <1>9 DEF Release, Ids
  <2> QED
    BY <1>9, <2>1 DEF Release, Continue
<1>10. CASE FinishClose
  <2>1. [ownership.id EXCEPT ![control.dir] = NoSession] \in [Directions -> Ids]
    BY DEF Ids
  <2>2. ownership' \in [kind : {"none", "duplex", "split"}, group : Groups \union {None},
                       id : [Directions -> Ids]]
    BY <1>10, <2>1 DEF FinishClose, Disown, NoOwner, Ids
  <2>3. held' \in [Connections -> Ids]
    BY <1>10 DEF FinishClose, Ids
  <2> QED
    BY <1>2, <1>10, <2>2, <2>3 DEF FinishClose
<1> QED
  BY <1>1, <1>3, <1>4, <1>5, <1>6, <1>7, <1>8, <1>9, <1>10 DEF ControlStep, OperationStep

(* What an activation, a reset of the slots and a client do to a region.   *)
RegionIsTyped == region \in [Ids -> Regions]

LEMMA RecordUpdate ==
  ASSUME NEW x \in Regions
  PROVE  /\ \A start \in {"pending", "ready"} :
              [x EXCEPT !.start = start] \in Regions /\ [x EXCEPT !.start = start].start = start
         /\ \A client \in {"idle", "starting", "running"} :
              [x EXCEPT !.client = client] \in Regions /\ [x EXCEPT !.client = client].start = x.start
         /\ \A duplex \in BOOLEAN :
              [x EXCEPT !.duplex = duplex] \in Regions /\ [x EXCEPT !.duplex = duplex].start = x.start
BY DEF Regions

LEMMA StartUpdate ==
  ASSUME NEW r \in [Ids -> Regions], NEW s \in Ids, NEW start \in {"pending", "ready"},
         NEW after, after = [r EXCEPT ![s].start = start]
  PROVE  after \in [Ids -> Regions] /\ after[s].start = start /\ \A i \in Ids : i # s => after[i] = r[i]
<1>1. [r[s] EXCEPT !.start = start] \in Regions /\ [r[s] EXCEPT !.start = start].start = start
  BY RecordUpdate, r[s] \in Regions, Zenon
<1> QED
  BY <1>1, Zenon

LEMMA Quieted ==
  ASSUME RegionIsTyped, NEW s \in Ids, region' = [region EXCEPT ![s].client = "idle"]
  PROVE  RegionIsTyped' /\ \A i \in Ids : region'[i].start = region[i].start
<1>1. /\ [region[s] EXCEPT !.client = "idle"] \in Regions
      /\ [region[s] EXCEPT !.client = "idle"].start = region[s].start
  <2>1. region[s] \in Regions
    BY DEF RegionIsTyped
  <2> QED
    BY <2>1, RecordUpdate, Zenon
<1>2. /\ region' \in [Ids -> Regions] /\ region'[s].start = region[s].start
      /\ \A i \in Ids : i # s => region'[i] = region[i]
  BY <1>1, Zenon DEF RegionIsTyped
<1> QED
  BY <1>2, Zenon DEF RegionIsTyped

LEMMA Laid ==
  ASSUME TypeOK, Create
  PROVE  RegionIsTyped' /\ \A i \in Ids : region'[i].start = region[i].start
<1> DEFINE s == control.id
           duplex == control.group = Duplex
<1>1. region \in [Ids -> Regions] /\ s \in Ids /\ duplex \in BOOLEAN
  BY DEF TypeOK, LifeTypes, OwnerTypes
<1>2. region' = [region EXCEPT ![s].duplex = duplex]
  BY DEF Create
<1> HIDE DEF s, duplex
<1>3. /\ [region[s] EXCEPT !.duplex = duplex] \in Regions
      /\ [region[s] EXCEPT !.duplex = duplex].start = region[s].start
  <2>1. region[s] \in Regions
    BY <1>1
  <2> QED
    BY <1>1, <2>1, RecordUpdate, Zenon
<1>4. /\ region' \in [Ids -> Regions] /\ region'[s].start = region[s].start
      /\ \A i \in Ids : i # s => region'[i] = region[i]
  BY <1>1, <1>2, <1>3, Zenon
<1> QED
  BY <1>4, Zenon DEF RegionIsTyped

LEMMA Established ==
  ASSUME RegionIsTyped, NEW d \in Directions, seen[d].endpoint \in Ids, Establish(d)
  PROVE  /\ RegionIsTyped' /\ region'[seen[d].endpoint].start = "ready"
         /\ \A i \in Ids : i # seen[d].endpoint => region'[i] = region[i]
<1> DEFINE s == seen[d].endpoint
           begun == [region EXCEPT ![s].start = "ready"]
           client == IF d = "capture" THEN "running" ELSE begun[s].client
<1>1. region' = [begun EXCEPT ![s].client = client]
  BY DEF Establish
<1>2. begun[s] \in Regions
  <2>1. [region[s] EXCEPT !.start = "ready"] \in Regions
    BY region[s] \in Regions, RecordUpdate, Zenon DEF RegionIsTyped
  <2> QED
    BY <2>1, Zenon DEF RegionIsTyped
<1>3. client \in {"idle", "starting", "running"}
  BY <1>2 DEF Regions
<1>4. region \in [Ids -> Regions]
  BY DEF RegionIsTyped
<1>5. begun = [region EXCEPT ![s].start = "ready"] /\ s \in Ids
  OBVIOUS
<1> HIDE DEF client, s, begun
<1>6. begun \in [Ids -> Regions] /\ begun[s].start = "ready" /\ \A i \in Ids : i # s => begun[i] = region[i]
  BY <1>4, <1>5, StartUpdate
<1>7. /\ region' \in [Ids -> Regions] /\ region'[s].start = begun[s].start
      /\ \A i \in Ids : i # s => region'[i] = begun[i]
  <2>1. begun[s] \in Regions /\ begun[s].start \in {"pending", "ready"}
    BY <1>5, <1>6 DEF Regions
  <2>2. [begun[s] EXCEPT !.client = client] \in Regions
        /\ [begun[s] EXCEPT !.client = client].start = begun[s].start
    BY <1>3, <2>1, RecordUpdate, Zenon
  <2> QED
    BY <1>1, <1>5, <1>6, <2>2, Zenon
<1> QED
  BY <1>5, <1>6, <1>7 DEF RegionIsTyped, s

LEMMA ResetStarts ==
  ASSUME TypeOK, ResetRegion
  PROVE  /\ RegionIsTyped' /\ region'[control.id].start = "pending"
         /\ \A i \in Ids : i # control.id => region'[i] = region[i]
<1>1. region \in [Ids -> Regions] /\ control.id \in Ids
  BY DEF TypeOK, LifeTypes, OwnerTypes
<1> DEFINE begun == [region EXCEPT ![control.id].start = "pending"]
<1>2. begun = [region EXCEPT ![control.id].start = "pending"]
  OBVIOUS
<1>3. region' = [begun EXCEPT ![control.id].client = "starting"]
  BY DEF ResetRegion
<1> HIDE DEF begun
<1>4. /\ begun \in [Ids -> Regions] /\ begun[control.id].start = "pending"
      /\ \A i \in Ids : i # control.id => begun[i] = region[i]
  BY <1>1, <1>2, StartUpdate
<1>5. /\ region' \in [Ids -> Regions] /\ region'[control.id].start = begun[control.id].start
      /\ \A i \in Ids : i # control.id => region'[i] = begun[i]
  <2>1. begun[control.id] \in Regions
    BY <1>1, <1>4
  <2>2. /\ [begun[control.id] EXCEPT !.client = "starting"] \in Regions
        /\ [begun[control.id] EXCEPT !.client = "starting"].start = begun[control.id].start
    BY <2>1, RecordUpdate, Zenon
  <2> QED
    BY <1>1, <1>3, <1>4, <2>2, Zenon
<1> QED
  BY <1>1, <1>4, <1>5 DEF RegionIsTyped

LEMMA LifeTypesKept ==
  ASSUME TypeOK, OperationsAreOwn, Next
  PROVE  LifeTypes'
<1> USE PairAssumption DEF PairAssumption, TypeOK, LifeTypes
<1>1. RegionIsTyped
  BY DEF RegionIsTyped
<1>2. CASE \E c \in Connections, d \in Directions : RequestStep(c, d)
  <2>1. PICK c \in Connections, d \in Directions : RequestStep(c, d)
    BY <1>2
  <2>2. UNCHANGED <<life, lifeOn, hardware, region>> /\ pairStart' \subseteq Directions
        /\ aligned' \subseteq Directions
    BY <2>1, RequestCases DEF BeginOpen, BeginStart, BeginAlignedStart, BeginStop, BeginClose
  <2> QED
    BY <2>2
<1>3. CASE Create
  BY <1>3, Laid DEF Create, RegionIsTyped
<1>4. CASE ResetRegion
  <2>1. RegionIsTyped'
    BY <1>4, ResetStarts
  <2>2. control.dir \in Directions /\ control.on \in 0..MaxGeneration
        /\ life[control.dir] < MaxStarts[control.dir]
    BY <1>4 DEF ResetRegion, OperationsAreOwn, OwnerTypes
  <2>3. life' = [d \in Directions |-> life'[d]]
    BY <1>4, <2>2 DEF ResetRegion
  <2>4. \A d \in Directions : life'[d] \in 0..MaxStarts[d]
    <3>1. life'[control.dir] = life[control.dir] + 1
      BY <1>4, <2>2 DEF ResetRegion
    <3>2. life[control.dir] + 1 \in 0..MaxStarts[control.dir]
      BY <2>2
    <3>3. \A d \in Directions \ {control.dir} : life'[d] = life[d]
      BY <1>4, <2>2 DEF ResetRegion
    <3> QED
      BY <3>1, <3>2, <3>3
  <2>5. lifeOn' \in [Directions -> 0..MaxGeneration]
    BY <1>4, <2>2 DEF ResetRegion
  <2> QED
    BY <1>4, <2>1, <2>3, <2>4, <2>5 DEF ResetRegion, RegionIsTyped
<1>5. CASE FailToCreate \/ Activate \/ Drain
  BY <1>5 DEF FailToCreate, Activate, Drain
<1>6. CASE FinishStop \/ Release \/ FinishClose
  <2>1. region' \in {region, [region EXCEPT ![control.id].client = "idle"]}
    BY <1>6 DEF FinishStop, Release, FinishClose, ResetSlots
  <2>2. RegionIsTyped'
    <3>1. control.id \in Ids
      BY DEF OwnerTypes
    <3>2. CASE region' = region
      BY <1>1, <3>2 DEF RegionIsTyped
    <3>3. CASE region' = [region EXCEPT ![control.id].client = "idle"]
      BY <1>1, <3>1, <3>3, Quieted
    <3> QED
      BY <2>1, <3>2, <3>3
  <2>3. UNCHANGED <<life, lifeOn, hardware, aligned>> /\ pairStart' \subseteq pairStart
    BY <1>6 DEF FinishStop, Release, FinishClose, ForgetRequest
  <2> QED
    BY <2>2, <2>3 DEF RegionIsTyped
<1>7. CASE CaptureStep
  <2>1. UNCHANGED <<life, lifeOn, hardware, aligned>>
    BY <1>7, CaptureLeavesOwners DEF OwnedVars
  <2>2. ASSUME NEW d \in Directions, Establish(d)
        PROVE  RegionIsTyped'
    BY <1>1, <2>2, Established DEF CycleTypes
  <2>3. RegionIsTyped' /\ pairStart' \subseteq pairStart
    BY <1>1, <1>7, <2>2 DEF CaptureStep, BeginCycle, Load, Look, ReadMask, PassOver,
       WaitForPeer, StartOne, Considered, ClearRequests, DropGuards, Unpin, BeginPublish,
       ReadActive, ReadBit, PublishOne, EndPublish, RegionIsTyped
  <2> QED
    BY <2>1, <2>3 DEF RegionIsTyped
<1>8. CASE \E c \in Connections : Quiet(c)
  <2>1. RegionIsTyped'
    <3>1. PICK c \in Connections : Quiet(c)
      BY <1>8
    <3>2. held[c] \in Ids /\ region' = [region EXCEPT ![held[c]].client = "idle"]
      BY <3>1 DEF Quiet, OwnerTypes
    <3> QED
      BY <1>1, <3>2, Quieted
  <2> QED
    BY <1>8, <2>1 DEF Quiet, RegionIsTyped, controlVars
<1>9. CASE Recover
  BY <1>9 DEF Recover, controlVars
<1> QED
  BY <1>2, <1>3, <1>4, <1>5, <1>6, <1>7, <1>8, <1>9 DEF Next, OperationStep

(* How the start of a region changes: a START makes it pending, and only   *)
(* an activation answers it.                                               *)
LEMMA StartStates ==
  ASSUME TypeOK, Next
  PROVE  /\ \A i \in Ids : region[i].start \in {"pending", "ready"}
         /\ \A i \in Ids : region'[i].start = region[i].start
              \/ (ResetRegion /\ i = control.id /\ region'[i].start = "pending")
              \/ \E d \in Directions : (StartOne(d) \/ (PublishOne(d) /\ MayEstablish(d)))
                                    /\ i = seen[d].endpoint /\ region'[i].start = "ready"
<1>1. RegionIsTyped /\ control.id \in Ids /\ \A d \in Directions : seen[d].endpoint \in Ids
  BY DEF TypeOK, LifeTypes, OwnerTypes, CycleTypes, RegionIsTyped
<1>2. \A i \in Ids : region[i].start \in {"pending", "ready"}
  BY <1>1 DEF RegionIsTyped, Regions
<1>3. CASE ResetRegion
  BY <1>2, <1>3, ResetStarts, Zenon
<1>4. CASE FinishStop \/ Release \/ FinishClose
  <2>1. CASE region' = region
    BY <1>2, <2>1
  <2>2. CASE region' = [region EXCEPT ![control.id].client = "idle"]
    BY <1>2, <1>1, <2>2, Quieted, Zenon
  <2> QED
    BY <1>4, <2>1, <2>2 DEF FinishStop, Release, FinishClose, ResetSlots
<1>5. CASE Create
  BY <1>2, <1>5, Laid, Zenon
<1>6. CASE \E c \in Connections : Quiet(c)
  <2>1. PICK c \in Connections : Quiet(c)
    BY <1>6
  <2>2. held[c] \in Ids /\ region' = [region EXCEPT ![held[c]].client = "idle"]
    BY <2>1 DEF Quiet, TypeOK, OwnerTypes
  <2> QED
    BY <1>2, <1>1, <2>2, Quieted, Zenon
<1>7. ASSUME NEW d \in Directions, StartOne(d) \/ (PublishOne(d) /\ region' # region)
      PROVE  \A i \in Ids : region'[i].start = region[i].start
              \/ ((StartOne(d) \/ (PublishOne(d) /\ MayEstablish(d)))
                   /\ i = seen[d].endpoint /\ region'[i].start = "ready")
  <2>1. Establish(d) /\ (StartOne(d) \/ (PublishOne(d) /\ MayEstablish(d)))
    BY <1>7 DEF StartOne, PublishOne
  <2> QED
    BY <1>1, <2>1, Established, Zenon
<1>8. CASE region' = region
  BY <1>2, <1>8
<1>9. region' = region \/ ResetRegion \/ FinishStop \/ Release \/ FinishClose \/ Create
      \/ (\E c \in Connections : Quiet(c))
      \/ \E d \in Directions : StartOne(d) \/ (PublishOne(d) /\ region' # region)
  <2>1. CASE \E c \in Connections, d \in Directions : RequestStep(c, d)
    <3>1. PICK c \in Connections, d \in Directions : RequestStep(c, d)
      BY <2>1
    <3> QED
      BY <3>1, RequestCases DEF BeginOpen, BeginStart, BeginAlignedStart, BeginStop, BeginClose
  <2>2. CASE OperationStep
    BY <2>2 DEF OperationStep, FailToCreate, Activate, Drain
  <2>3. CASE CaptureStep
    BY <2>3 DEF CaptureStep, BeginCycle, Load, Look, ReadMask, PassOver, WaitForPeer,
       Considered, ClearRequests, DropGuards, Unpin, BeginPublish, ReadActive, ReadBit,
       EndPublish
  <2> QED
    BY <2>1, <2>2, <2>3 DEF Next, Recover
<1> QED
  BY <1>2, <1>3, <1>4, <1>5, <1>6, <1>7, <1>8, <1>9

(* Outside the capture thread nothing of its cycle changes. *)
LEMMA OthersLeaveCycle ==
  ASSUME Next, ~CaptureStep
  PROVE  UNCHANGED cycleVars /\ (bothAsked' => bothAsked)
<1>1. CASE ControlStep
  BY <1>1, ControlLeavesCycle
<1>2. CASE Recover
  BY <1>2 DEF Recover
<1>3. ASSUME NEW c \in Connections, Quiet(c)
      PROVE  UNCHANGED cycleVars /\ (bothAsked' => bothAsked)
  BY <1>3 DEF Quiet
<1> QED
  BY <1>1, <1>2, <1>3 DEF Next, ControlStep

(* What the capture thread finds, once it has looked. *)
Sights == [endpoint : Ids, active : Ids, current : BOOLEAN]

LEMMA SightUpdate ==
  ASSUME NEW x \in Sights
  PROVE  /\ \A i \in Ids : LET y == [x EXCEPT !.endpoint = i]
                          IN y \in Sights /\ y.endpoint = i /\ y.active = x.active
         /\ \A i \in Ids : LET y == [x EXCEPT !.active = i]
                          IN y \in Sights /\ y.endpoint = x.endpoint /\ y.active = i
         /\ \A now \in BOOLEAN : LET y == [x EXCEPT !.current = now]
                                IN /\ y \in Sights /\ y.endpoint = x.endpoint /\ y.active = x.active
                                   /\ y.current = now
BY DEF Sights

LEMMA EndpointSeen ==
  ASSUME TypeOK, NEW d \in Directions, seen' = [seen EXCEPT ![d].endpoint = endpoint[d]]
  PROVE  /\ seen' \in [Directions -> Sights]
         /\ seen'[d].endpoint = endpoint[d] /\ seen'[d].active = seen[d].active
         /\ \A e \in Directions : e # d => seen'[e] = seen[e]
<1>1. seen \in [Directions -> Sights] /\ endpoint[d] \in Ids
  BY DEF TypeOK, OwnerTypes, CycleTypes, Sights
<1>2. LET y == [seen[d] EXCEPT !.endpoint = endpoint[d]]
      IN y \in Sights /\ y.endpoint = endpoint[d] /\ y.active = seen[d].active
  BY <1>1, seen[d] \in Sights, SightUpdate, Zenon
<1> QED
  BY <1>1, <1>2, Zenon

LEMMA ActiveSeen ==
  ASSUME TypeOK, NEW d \in Directions, seen' = [seen EXCEPT ![d].active = active[d]]
  PROVE  /\ seen' \in [Directions -> Sights]
         /\ seen'[d].endpoint = seen[d].endpoint /\ seen'[d].active = active[d]
         /\ \A e \in Directions : e # d => seen'[e] = seen[e]
<1>1. seen \in [Directions -> Sights] /\ active[d] \in Ids
  BY DEF TypeOK, OwnerTypes, CycleTypes, Sights
<1>2. LET y == [seen[d] EXCEPT !.active = active[d]]
      IN y \in Sights /\ y.endpoint = seen[d].endpoint /\ y.active = active[d]
  BY <1>1, seen[d] \in Sights, SightUpdate, Zenon
<1> QED
  BY <1>1, <1>2, Zenon

LEMMA SessionSeen ==
  ASSUME TypeOK, NEW d \in Directions, NEW now \in BOOLEAN,
         seen' = [seen EXCEPT ![d].active = active[d], ![d].current = now]
  PROVE  /\ seen' \in [Directions -> Sights]
         /\ seen'[d].endpoint = seen[d].endpoint /\ seen'[d].active = active[d]
         /\ seen'[d].current = now
         /\ \A e \in Directions : e # d => seen'[e] = seen[e]
<1> DEFINE looked == [seen EXCEPT ![d].active = active[d]]
<1>1. seen \in [Directions -> Sights] /\ active[d] \in Ids
  BY DEF TypeOK, OwnerTypes, CycleTypes, Sights
<1>2. LET y == [seen[d] EXCEPT !.active = active[d]]
      IN y \in Sights /\ y.endpoint = seen[d].endpoint /\ y.active = active[d]
  BY <1>1, seen[d] \in Sights, SightUpdate, Zenon
<1>3. /\ looked \in [Directions -> Sights] /\ looked[d].endpoint = seen[d].endpoint
      /\ looked[d].active = active[d] /\ \A e \in Directions : e # d => looked[e] = seen[e]
  BY <1>1, <1>2, Zenon
<1>4. seen' = [looked EXCEPT ![d].current = now]
  OBVIOUS
<1> HIDE DEF looked
<1>5. looked[d] \in Sights
  BY <1>3
<1>6. LET y == [looked[d] EXCEPT !.current = now]
      IN /\ y \in Sights /\ y.endpoint = looked[d].endpoint /\ y.active = looked[d].active
         /\ y.current = now
  BY <1>1, <1>5, SightUpdate, Zenon
<1> QED
  BY <1>3, <1>4, <1>6, Zenon

LEMMA LookSees ==
  ASSUME TypeOK, NEW d \in Directions, Look(d)
  PROVE  /\ seen' \in [Directions -> Sights]
         /\ seen'[d].endpoint = seen[d].endpoint /\ seen'[d].active = active[d]
         /\ lifeOn[d] = runs => seen'[d].current
         /\ \A e \in Directions : e # d => seen'[e] = seen[e]
<1>1. CASE lifeOn[d] = runs
  <2>1. (lifeOn[d] = runs) = TRUE
    BY <1>1
  <2>2. seen' = [seen EXCEPT ![d].active = active[d], ![d].current = TRUE]
    BY <2>1 DEF Look
  <2> QED
    BY <2>2, SessionSeen
<1>2. CASE lifeOn[d] # runs
  <2>1. (lifeOn[d] = runs) = FALSE
    BY <1>2
  <2>2. seen' = [seen EXCEPT ![d].active = active[d], ![d].current = FALSE]
    BY <2>1 DEF Look
  <2> QED
    BY <1>2, <2>2, SessionSeen
<1> QED
  BY <1>1, <1>2

LEMMA NatRange == \A n \in Nat : 0..n \subseteq Nat
OBVIOUS

LEMMA CycleTypesKept ==
  ASSUME TypeOK, Next
  PROVE  CycleTypes'
<1> USE PairAssumption DEF PairAssumption, TypeOK, CycleTypes
<1>0. \A d \in Directions : /\ endpoint[d] \in Ids /\ active[d] \in Ids /\ life[d] \in Nat
                            /\ seen[d].active \in Ids
      /\ hardware \in 0..MaxGeneration
  <2>1. ASSUME NEW d \in Directions PROVE life[d] \in Nat
    <3>1. MaxStarts[d] \in Nat /\ life[d] \in 0..MaxStarts[d]
      BY DEF LifeTypes
    <3> QED
      BY <3>1, NatRange, Zenon
  <2> QED
    BY <2>1 DEF OwnerTypes, LifeTypes
<1>1. CASE ~CaptureStep
  <2>1. bothAsked' \in BOOLEAN
    BY <1>1 DEF Next, RequestStep, OperationStep, BeginOpen, Create, FailToCreate, BeginStart,
       BeginAlignedStart, ResetRegion, Activate, BeginStop, BeginClose, Drain, FinishStop,
       Release, FinishClose, Recover, Quiet
  <2> QED
    BY <1>1, <2>1, OthersLeaveCycle DEF cycleVars
<1>2. CASE BeginCycle
  BY <1>2 DEF BeginCycle
<1>3. CASE ReadMask \/ ClearRequests
  BY <1>3 DEF ReadMask, ClearRequests, LifeTypes
<1>4. ASSUME Unpin PROVE /\ pinned' = {} /\ runs' = 0 /\ mask' = {} /\ activated' = {} /\ bothAsked' = FALSE
                         /\ seen' \in [Directions -> [endpoint : Ids, active : Ids, current : BOOLEAN]]
                         /\ pairWait' = pairWait
  BY <1>4 DEF Unpin, Unseen, Ids
<1>5. CASE DropGuards
  BY <1>4, <1>5 DEF DropGuards
<1>6. ASSUME NEW d \in Directions, Load(d) \/ BeginPublish(d)
      PROVE  CycleTypes'
  <2>1. seen' \in [Directions -> [endpoint : Ids, active : Ids, current : BOOLEAN]]
    BY <1>6, EndpointSeen DEF Load, BeginPublish, Sights
  <2> QED
    BY <1>0, <1>6, <2>1 DEF Load, BeginPublish
<1>7. ASSUME NEW d \in Directions, Look(d) \/ ReadActive(d)
      PROVE  CycleTypes'
  <2>1. seen' \in [Directions -> [endpoint : Ids, active : Ids, current : BOOLEAN]]
    <3>1. CASE Look(d)
      BY <3>1, LookSees DEF Sights
    <3>2. CASE ReadActive(d)
      BY <3>2, ActiveSeen DEF ReadActive, Sights
    <3> QED
      BY <1>7, <3>1, <3>2
  <2> QED
    BY <1>0, <1>7, <2>1 DEF Look, ReadActive
<1>8. ASSUME NEW d \in Directions, PassOver(d) \/ WaitForPeer(d) \/ StartOne(d)
      PROVE  CycleTypes'
  <2>1. pairWait' \in [Directions -> (Ids \X Nat) \union {None}]
    <3>1. pairWait' \in {pairWait, [pairWait EXCEPT ![d] = None],
                        [pairWait EXCEPT ![d] = <<seen[d].active, life[d]>>]}
      BY <1>8 DEF PassOver, WaitForPeer, StartOne
    <3>2. <<seen[d].active, life[d]>> \in Ids \X Nat
      BY <1>0
    <3> QED
      BY <3>1, <3>2
  <2> QED
    BY <1>8, <2>1 DEF PassOver, WaitForPeer, StartOne, Considered
<1>9. ASSUME NEW d \in Directions, ReadBit(d) \/ PublishOne(d)
      PROVE  CycleTypes'
  BY <1>9 DEF ReadBit, PublishOne
<1>10. ASSUME NEW d \in Directions, EndPublish(d)
       PROVE  CycleTypes'
  BY <1>4, <1>10 DEF EndPublish
<1> QED
  BY <1>1, <1>2, <1>3, <1>5, <1>6, <1>7, <1>8, <1>9, <1>10 DEF CaptureStep

LEMMA CycleShapeKept ==
  ASSUME TypeOK, CycleShape, Next
  PROVE  CycleShape'
<1> USE DEF CycleShape, Pairing, Publishing
<1>0. todo \subseteq Directions /\ pinned \subseteq Directions
  BY DEF TypeOK, CycleTypes
<1>1. CASE ~CaptureStep
  BY <1>1, OthersLeaveCycle DEF cycleVars
<1>2. CASE BeginCycle
  BY <1>2 DEF BeginCycle, Directions
<1>3. CASE ReadMask \/ ClearRequests
  BY <1>3 DEF ReadMask, ClearRequests, Directions
<1>4. CASE DropGuards
  BY <1>4 DEF DropGuards, Unpin
<1>5. ASSUME NEW d \in Directions, Load(d)
      PROVE  CycleShape'
  <2>1. d \in todo
    BY <1>0, <1>5 DEF Load, First, Directions
  <2>2. CASE todo = {d}
    BY <1>0, <1>5, <2>1, <2>2 DEF Load, Directions
  <2>3. CASE todo # {d}
    BY <1>0, <1>5, <2>1, <2>3 DEF Load, Directions
  <2> QED
    BY <2>2, <2>3
<1>6. ASSUME NEW d \in Directions, Look(d) \/ Considered(d)
      PROVE  /\ UNCHANGED pinned /\ d \in todo
             /\ todo # {d} => todo' # {} /\ pc' = pc
  <2>1. todo # {} /\ UNCHANGED pinned
    <3>1. CASE Look(d)
      <4>1. pc = "look" /\ UNCHANGED pinned
        BY <3>1 DEF Look
      <4> QED
        BY <4>1
    <3>2. CASE Considered(d)
      <4>1. pc = "pair" /\ UNCHANGED pinned
        BY <3>2 DEF Considered
      <4> QED
        BY <4>1
    <3> QED
      BY <1>6, <3>1, <3>2
  <2>2. d \in todo
    BY <1>0, <1>6, <2>1 DEF Look, Considered, First, Directions
  <2>3. todo' = todo \ {d} /\ (todo # {d} => pc' = pc)
    <3>1. CASE Look(d)
      BY <3>1 DEF Look
    <3>2. CASE Considered(d)
      BY <3>2 DEF Considered
    <3> QED
      BY <1>6, <3>1, <3>2
  <2> QED
    BY <2>1, <2>2, <2>3
<1>7. ASSUME NEW d \in Directions, Look(d)
      PROVE  CycleShape'
  BY <1>6, <1>7 DEF Look
<1>8. ASSUME NEW d \in Directions, PassOver(d) \/ WaitForPeer(d) \/ StartOne(d)
      PROVE  CycleShape'
  BY <1>6, <1>8 DEF PassOver, WaitForPeer, StartOne, Considered
<1>9. ASSUME NEW d \in Directions, BeginPublish(d) \/ ReadActive(d) \/ ReadBit(d) \/ PublishOne(d)
      PROVE  CycleShape'
  BY <1>9 DEF BeginPublish, ReadActive, ReadBit, PublishOne
<1>10. ASSUME NEW d \in Directions, EndPublish(d)
       PROVE  CycleShape'
  BY <1>10 DEF EndPublish, Unpin
<1> QED
  BY <1>1, <1>2, <1>3, <1>4, <1>5, <1>7, <1>8, <1>9, <1>10 DEF CaptureStep

-----------------------------------------------------------------------------
(* Owners, operation by operation. *)
LEMMA OpensWhatIsFree ==
  ASSUME TypeOK, GroupOwns, NEW d \in Directions, NEW group \in Groups \union {None},
         MayOpen(d, group)
  PROVE  /\ ownership.id[d] = NoSession
         /\ group = Duplex => ownership = NoOwner /\ d = "playback"
         /\ group # Duplex => ownership.kind = "none" \/ ownership.group = group
<1>1. CASE ownership.kind = "none"
  <2>1. ownership = NoOwner
    BY <1>1 DEF GroupOwns
  <2> QED
    BY <1>1, <2>1 DEF NoOwner, MayOpen
<1>2. CASE ownership.kind # "none"
  BY <1>2 DEF MayOpen
<1> QED
  BY <1>1, <1>2

LEMMA OwnersAfterOpen ==
  ASSUME TypeOK, Owners, NEW c \in Connections, NEW d \in Directions,
         NEW group \in Groups \union {None}, group = Duplex \/ group[1] = peer[c],
         BeginOpen(c, d, group)
  PROVE  Owners'
<1> USE DEF TypeOK, OwnerTypes
<1>1. /\ control'.op = "create" /\ control'.conn = c /\ control'.dir = d
      /\ control'.id = nextSession /\ control'.group = group
  BY DEF BeginOpen, NoControl
<1>2. /\ UNCHANGED <<peer, ownership, active, life, held, endpoint>>
      /\ control.op = "none" /\ nextSession' = nextSession + 1 /\ nextSession \in Sessions
      /\ held[c] = NoSession /\ MayOpen(d, group)
      /\ owner[d] = NoSession /\ owner' = [owner EXCEPT ![d] = nextSession]
  BY DEF BeginOpen, cycleVars, Locked
<1>3. OwnersDiffer'
  <2>1. MayOpen(d, group)'
    BY <1>2 DEF MayOpen
  <2>2. owner = ownership.id
    BY <1>2 DEF Owners, OwnersDiffer
  <2> QED
    BY <1>1, <1>2, <2>1, <2>2 DEF OwnersDiffer
<1>4. OperationsAreOwn'
  <2>1. active[d] = NoSession
    BY <1>2 DEF Owners, OwnersDiffer, SessionsAreOwned, Directions
  <2> QED
    BY <1>1, <1>2, <2>1 DEF OperationsAreOwn, Locked
<1>5. SessionsAreDistinct'
  BY <1>1, <1>2 DEF Owners, SessionsAreDistinct, Allocated
<1>6. SessionsAreOwned' /\ GroupOwns'
  BY <1>2 DEF Owners, SessionsAreOwned, GroupOwns
<1> QED
  BY <1>3, <1>4, <1>5, <1>6 DEF Owners

LEMMA OwnersAfterCreate ==
  ASSUME TypeOK, Owners, Create
  PROVE  Owners'
<1> USE DEF TypeOK, OwnerTypes
<1> DEFINE d == control.dir
           c == control.conn
<1>1. /\ control.op = "create" /\ d \in Directions /\ c \in Connections
      /\ control.id \in Sessions
      /\ held[c] = NoSession /\ control.id + 1 = nextSession /\ active[d] = NoSession
      /\ control.group = Duplex \/ control.group[1] = peer[c]
  BY DEF Create, Owners, OperationsAreOwn, Locked
<1>2. /\ ownership.id[d] = NoSession
      /\ control.group = Duplex => ownership = NoOwner /\ d = "playback"
      /\ control.group # Duplex => ownership.kind = "none" \/ ownership.group = control.group
      /\ owner = [ownership.id EXCEPT ![d] = control.id]
  BY <1>1, OpensWhatIsFree DEF Owners, OwnersDiffer
<1>3. /\ UNCHANGED <<peer, owner, active, nextSession>>
      /\ control'.op = "none" /\ held' = [held EXCEPT ![c] = control.id]
      /\ endpoint' = [endpoint EXCEPT ![d] = control.id]
      /\ ownership'.id = [ownership.id EXCEPT ![d] = control.id]
      /\ ownership'.group = control.group
      /\ ownership'.kind = IF control.group = Duplex THEN "duplex" ELSE "split"
  BY DEF Create, Unlock, NoControl
<1> HIDE DEF c, d
<1>4. OwnersDiffer' /\ OperationsAreOwn'
  BY <1>2, <1>3 DEF OwnersDiffer, OperationsAreOwn, Locked
<1>5. SessionsAreDistinct'
  <2>1. Allocated = control.id /\ Allocated' = control.id + 1
    BY <1>1, <1>3 DEF Allocated
  <2>2. \A e \in Connections : held[e] < control.id
    BY <2>1 DEF Owners, SessionsAreDistinct
  <2>3. \A e \in Directions : endpoint[e] < control.id
    BY <2>1 DEF Owners, SessionsAreDistinct
  <2>4. /\ \A e \in Connections : held'[e] < control.id + 1
        /\ \A e, f \in Connections : held'[e] = held'[f] /\ held'[e] # NoSession => e = f
    BY <1>1, <1>3, <2>2 DEF Owners, SessionsAreDistinct, Sessions, Ids, NoSession
  <2>5. /\ \A e \in Directions : endpoint'[e] < control.id + 1
        /\ \A e, f \in Directions : endpoint'[e] = endpoint'[f] /\ endpoint'[e] # NoSession => e = f
    BY <1>1, <1>3, <2>3 DEF Owners, SessionsAreDistinct, Sessions, Ids, NoSession
  <2> QED
    BY <2>1, <2>4, <2>5 DEF SessionsAreDistinct
<1>6. SessionsAreOwned'
  <2>1. ASSUME NEW e \in Connections, held'[e] # NoSession
        PROVE  \E f \in Directions : ownership'.id[f] = held'[e]
    BY <1>1, <1>2, <1>3, <2>1 DEF Owners, SessionsAreOwned
  <2>2. ASSUME NEW e \in Directions, ownership'.id[e] # NoSession
        PROVE  endpoint'[e] = ownership'.id[e] /\ \E f \in Connections : held'[f] = ownership'.id[e]
    BY <1>1, <1>2, <1>3, <2>2 DEF Owners, SessionsAreOwned
  <2>3. ASSUME NEW e \in Directions
        PROVE  active'[e] \in {NoSession, ownership'.id[e]}
    BY <1>1, <1>2, <1>3 DEF Owners, SessionsAreOwned
  <2> QED
    BY <2>1, <2>2, <2>3 DEF SessionsAreOwned
<1>7. GroupOwns'
  <2>1. ownership'.id[d] # NoSession
    BY <1>1, <1>3 DEF Sessions, NoSession
  <2>2. ownership'.kind = "duplex" => ownership'.id["capture"] = NoSession
    BY <1>1, <1>2, <1>3 DEF NoOwner, Directions
  <2>3. ASSUME ownership'.kind = "split", NEW e \in Connections, held'[e] # NoSession
        PROVE  peer[e] = control.group[1]
    <3>1. CASE e = c
      BY <1>1, <1>3, <2>3, <3>1
    <3>2. CASE e # c
      <4>1. held[e] # NoSession /\ control.group # Duplex
        BY <1>1, <1>3, <2>3, <3>2
      <4>2. ownership.kind # "none"
        BY <4>1 DEF Owners, SessionsAreOwned, GroupOwns, NoOwner
      <4>3. ownership.kind = "split" /\ ownership.group = control.group
        BY <1>1, <4>1, <4>2 DEF Owners, OwnersDiffer, MayOpen
      <4> QED
        BY <4>1, <4>3 DEF Owners, GroupOwns
    <3> QED
      BY <3>1, <3>2
  <2> QED
    BY <1>1, <1>3, <2>1, <2>2, <2>3 DEF GroupOwns
<1> QED
  BY <1>4, <1>5, <1>6, <1>7 DEF Owners

LEMMA OwnersAfterFailure ==
  ASSUME TypeOK, Owners, FailToCreate
  PROVE  Owners'
<1> USE DEF TypeOK, OwnerTypes
<1> DEFINE d == control.dir
<1>1. /\ control.op = "create" /\ d \in Directions /\ control.id + 1 = nextSession
      /\ owner = [ownership.id EXCEPT ![d] = control.id] /\ MayOpen(d, control.group)
  BY DEF FailToCreate, Owners, OperationsAreOwn, OwnersDiffer
<1>2. ownership.id[d] = NoSession
  BY <1>1, OpensWhatIsFree DEF Owners
<1>3. /\ UNCHANGED <<peer, ownership, active, nextSession, held, endpoint, life>>
      /\ control'.op = "none" /\ owner' = [owner EXCEPT ![d] = NoSession]
  BY DEF FailToCreate, Unlock, NoControl
<1> HIDE DEF d
<1>4. OwnersDiffer'
  BY <1>1, <1>2, <1>3 DEF OwnersDiffer
<1>5. OperationsAreOwn' /\ SessionsAreOwned' /\ GroupOwns'
  BY <1>3 DEF Owners, OperationsAreOwn, Locked, SessionsAreOwned, GroupOwns
<1>6. SessionsAreDistinct'
  <2>1. Allocated < Allocated' /\ Allocated \in Nat /\ Allocated' \in Nat
    BY <1>1, <1>3 DEF Allocated, Ids, Sessions, NoSession
  <2> QED
    BY <1>3, <2>1 DEF Owners, SessionsAreDistinct, Ids, Sessions, NoSession
<1> QED
  BY <1>4, <1>5, <1>6 DEF Owners

(* A connection that takes the lock for its session owns it throughout. *)
LEMMA LocksItsOwn ==
  ASSUME TypeOK, Owners, NEW c \in Connections, NEW d \in Directions,
         NEW op \in {"start", "stop", "close"}, Lock(c, d, op)
  PROVE  /\ control.op = "none" /\ control'.op = op /\ control'.conn = c /\ control'.dir = d
         /\ control'.id = held[c] /\ held[c] \in Sessions
         /\ owner = ownership.id /\ ownership.id[d] = held[c]
         /\ active[d] \in {NoSession, held[c]}
BY DEF TypeOK, OwnerTypes, Lock, Locked, NoControl, Owners, OwnersDiffer, SessionsAreOwned, Ids

LEMMA OwnersAfterLock ==
  ASSUME TypeOK, Owners, NEW c \in Connections, NEW d \in Directions,
         BeginStart(c, d) \/ BeginAlignedStart(c, d) \/ BeginStop(c, d) \/ BeginClose(c, d)
  PROVE  Owners'
<1> USE DEF TypeOK, OwnerTypes
<1>1. PICK op \in {"start", "stop", "close"} : Lock(c, d, op) /\ control'.op = op
  BY LocksItsOwn DEF BeginStart, BeginAlignedStart, BeginStop, BeginClose
<1>2. /\ control.op = "none" /\ control'.op = op /\ control'.conn = c /\ control'.dir = d
      /\ control'.id = held[c] /\ held[c] \in Sessions
      /\ owner = ownership.id /\ ownership.id[d] = held[c] /\ active[d] \in {NoSession, held[c]}
  BY <1>1, LocksItsOwn
<1>3. UNCHANGED <<peer, ownership, nextSession, held, endpoint, life>>
  BY DEF BeginStart, BeginAlignedStart, BeginStop, BeginClose
<1>4. owner' = IF op = "close" THEN [owner EXCEPT ![d] = Closing] ELSE owner
  BY <1>1, <1>2, LocksItsOwn DEF BeginStart, BeginAlignedStart, BeginStop, BeginClose
<1>5. /\ active'[d] = NoSession /\ \A e \in Directions : active'[e] \in {NoSession, active[e]}
      /\ op = "start" => life[d] < MaxStarts[d]
  <2>1. CASE BeginStart(c, d) \/ BeginAlignedStart(c, d)
    BY <2>1 DEF BeginStart, BeginAlignedStart, MayStart
  <2>2. CASE BeginStop(c, d)
    BY <1>2, <2>2, LocksItsOwn DEF BeginStop
  <2>3. CASE BeginClose(c, d)
    BY <1>2, <2>3, LocksItsOwn DEF BeginClose
  <2> QED
    BY <2>1, <2>2, <2>3
<1>6. OwnersDiffer'
  BY <1>2, <1>3, <1>4 DEF OwnersDiffer
<1>7. OperationsAreOwn'
  BY <1>2, <1>3, <1>5 DEF OperationsAreOwn, Locked
<1>8. SessionsAreDistinct'
  BY <1>2, <1>3 DEF Owners, SessionsAreDistinct, Allocated
<1>9. SessionsAreOwned' /\ GroupOwns'
  BY <1>3, <1>5 DEF Owners, SessionsAreOwned, GroupOwns
<1> QED
  BY <1>6, <1>7, <1>8, <1>9 DEF Owners

LEMMA OwnersAfterStep ==
  ASSUME TypeOK, Owners, ResetRegion \/ Activate \/ Drain \/ FinishStop \/ Release
  PROVE  Owners'
<1> USE DEF TypeOK, OwnerTypes
<1> DEFINE d == control.dir
<1>1. /\ control.op \in {"start", "activate", "stop", "stopping", "close", "closing"}
      /\ d \in Directions /\ control.conn \in Connections /\ control.id \in Sessions
      /\ held[control.conn] = control.id /\ ownership.id[d] = control.id
      /\ active[d] = NoSession
  BY DEF ResetRegion, Activate, Drain, FinishStop, Release, Owners, OperationsAreOwn, Locked
<1>2. /\ UNCHANGED <<peer, ownership, nextSession, held, endpoint>>
      /\ control'.op \in {"none", "activate", "stopping", "closing", "release"}
  <2>1. CASE Activate \/ FinishStop
    BY <2>1 DEF Activate, FinishStop, Unlock, NoControl
  <2>2. CASE ResetRegion \/ Release
    BY <2>2 DEF ResetRegion, Release, Continue
  <2>3. CASE Drain
    BY <2>3 DEF Drain
  <2> QED
    BY <2>1, <2>2, <2>3
<1>3. control'.op # "none" => /\ control'.conn = control.conn /\ control'.dir = d
                              /\ control'.id = control.id /\ active' = active
  <2>1. CASE Activate \/ FinishStop
    BY <2>1 DEF Activate, FinishStop, Unlock, NoControl
  <2>2. CASE ResetRegion \/ Release
    BY <2>2 DEF ResetRegion, Release, Continue
  <2>3. CASE Drain
    BY <2>3 DEF Drain
  <2> QED
    BY <2>1, <2>2, <2>3
<1>4. \A e \in Directions : active'[e] = active[e] \/ (e = d /\ active'[e] = control.id)
  BY <1>1 DEF ResetRegion, Activate, Drain, FinishStop, Release
<1>5. OwnersDiffer'
  <2>1. CASE Activate \/ FinishStop
    BY <1>2, <2>1 DEF Owners, OwnersDiffer, Activate, FinishStop, Unlock, NoControl
  <2>2. CASE ResetRegion
    BY <1>2, <2>2 DEF Owners, OwnersDiffer, ResetRegion, Continue
  <2>3. CASE Release
    <3>1. /\ control.op = "closing" /\ control'.op = "release" /\ control'.dir = d
          /\ owner' = [owner EXCEPT ![d] = NoSession]
      BY <2>3 DEF Release, Continue
    <3>2. owner = [ownership.id EXCEPT ![d] = Closing]
      BY <3>1 DEF Owners, OwnersDiffer
    <3> QED
      BY <1>1, <1>2, <3>1, <3>2 DEF OwnersDiffer
  <2>4. CASE Drain
    <3>1. /\ owner' = owner /\ control'.dir = d
          /\ control'.op = IF control.op = "stop" THEN "stopping" ELSE "closing"
      BY <2>4 DEF Drain
    <3> QED
      BY <1>2, <2>4, <3>1 DEF Owners, OwnersDiffer, Drain
  <2> QED
    BY <2>1, <2>2, <2>3, <2>4
<1> HIDE DEF d
<1>6. OperationsAreOwn'
  BY <1>1, <1>2, <1>3 DEF OperationsAreOwn, Locked
<1>7. SessionsAreDistinct'
  BY <1>1, <1>2 DEF Owners, SessionsAreDistinct, Allocated
<1>8. SessionsAreOwned' /\ GroupOwns'
  BY <1>1, <1>2, <1>4 DEF Owners, SessionsAreOwned, GroupOwns
<1> QED
  BY <1>5, <1>6, <1>7, <1>8 DEF Owners

LEMMA OwnersAfterClose ==
  ASSUME TypeOK, Owners, FinishClose
  PROVE  Owners'
<1> USE DEF TypeOK, OwnerTypes
<1> DEFINE d == control.dir
           c == control.conn
           left == [ownership.id EXCEPT ![d] = NoSession]
<1>1. /\ d \in Directions /\ c \in Connections /\ control.id \in Sessions
      /\ held[c] = control.id /\ ownership.id[d] = control.id /\ active[d] = NoSession
      /\ owner = left
  BY DEF FinishClose, Owners, OperationsAreOwn, OwnersDiffer, Locked
<1>2. /\ UNCHANGED <<peer, owner, nextSession, active, endpoint>>
      /\ control.op = "release" /\ control'.op = "none"
      /\ held' = [held EXCEPT ![c] = NoSession]
  BY DEF FinishClose, Unlock, NoControl
<1>3. ownership' = IF \A e \in Directions : left[e] = NoSession
                   THEN NoOwner ELSE [ownership EXCEPT !.id = left]
  BY DEF FinishClose, Disown
<1>4. /\ ownership'.id = left
      /\ ownership' # NoOwner => ownership'.kind = ownership.kind /\ ownership'.group = ownership.group
      /\ (\A e \in Directions : left[e] = NoSession) => ownership' = NoOwner
  BY <1>1, <1>3 DEF NoOwner
<1>5. /\ left[d] = NoSession /\ \A e \in Directions : e # d => left[e] = ownership.id[e]
      /\ held'[c] = NoSession /\ \A e \in Connections : e # c => held'[e] = held[e]
  BY <1>1, <1>2
<1> HIDE DEF c, d, left
<1>6. OwnersDiffer' /\ OperationsAreOwn'
  BY <1>1, <1>2, <1>4 DEF OwnersDiffer, OperationsAreOwn, Locked
<1>7. SessionsAreDistinct'
  <2>1. Allocated' = Allocated /\ NoSession < Allocated
    BY <1>2 DEF Allocated, NoSession
  <2> QED
    BY <1>2, <1>5, <2>1 DEF Owners, SessionsAreDistinct
<1>8. SessionsAreOwned'
  <2>1. ASSUME NEW e \in Connections, held'[e] # NoSession
        PROVE  \E f \in Directions : ownership'.id[f] = held'[e]
    <3>1. e # c /\ held'[e] = held[e] /\ held[e] # control.id
      BY <1>1, <1>5, <2>1 DEF Owners, SessionsAreDistinct
    <3>2. PICK f \in Directions : ownership.id[f] = held[e]
      BY <2>1, <3>1 DEF Owners, SessionsAreOwned
    <3> QED
      BY <1>1, <1>4, <1>5, <3>1, <3>2
  <2>2. ASSUME NEW e \in Directions, ownership'.id[e] # NoSession
        PROVE  endpoint'[e] = ownership'.id[e] /\ \E f \in Connections : held'[f] = ownership'.id[e]
    <3>1. e # d /\ ownership'.id[e] = ownership.id[e]
      BY <1>4, <1>5, <2>2
    <3>2. endpoint[e] = ownership.id[e] /\ endpoint[d] = control.id /\ control.id # NoSession
      BY <1>1, <2>2, <3>1 DEF Owners, SessionsAreOwned, Sessions, NoSession
    <3>3. ownership.id[e] # control.id
      BY <1>1, <3>1, <3>2 DEF Owners, SessionsAreDistinct
    <3>4. PICK f \in Connections : held[f] = ownership.id[e]
      BY <2>2, <3>1 DEF Owners, SessionsAreOwned
    <3> QED
      BY <1>1, <1>2, <1>5, <3>1, <3>2, <3>3, <3>4
  <2>3. ASSUME NEW e \in Directions
        PROVE  active'[e] \in {NoSession, ownership'.id[e]}
    BY <1>1, <1>2, <1>4, <1>5 DEF Owners, SessionsAreOwned
  <2> QED
    BY <2>1, <2>2, <2>3 DEF SessionsAreOwned
<1>9. GroupOwns'
  <2>1. ownership.kind # "none"
    BY <1>1 DEF Owners, GroupOwns, NoOwner, Sessions, NoSession
  <2>2. CASE ownership' = NoOwner
    BY <2>2 DEF GroupOwns, NoOwner
  <2>3. CASE ownership' # NoOwner
    BY <1>2, <1>4, <1>5, <2>1, <2>3 DEF Owners, GroupOwns, Directions
  <2> QED
    BY <2>2, <2>3
<1> QED
  BY <1>6, <1>7, <1>8, <1>9 DEF Owners

LEMMA OwnersKept ==
  ASSUME TypeOK, Owners, Next
  PROVE  Owners'
<1>1. ASSUME NEW c \in Connections, NEW d \in Directions, RequestStep(c, d)
      PROVE  Owners'
  BY <1>1, RequestCases, OwnersAfterOpen, OwnersAfterLock
<1>2. CASE OperationStep
  BY <1>2, OwnersAfterCreate, OwnersAfterFailure, OwnersAfterStep, OwnersAfterClose DEF
     OperationStep
<1>3. ASSUME UNCHANGED <<OwnedVars, endpoint>>, SameOperation
      PROVE  Owners'
  BY <1>3 DEF OwnedVars, SameOperation, Owners, OwnersDiffer, OperationsAreOwn,
     SessionsAreDistinct, Allocated, SessionsAreOwned, GroupOwns, Locked, MayOpen
<1>4. CASE CaptureStep
  BY <1>3, <1>4, CaptureLeavesOwners
<1>5. ASSUME UNCHANGED controlVars, UNCHANGED endpoint
      PROVE  Owners'
  BY <1>3, <1>5 DEF OwnedVars, controlVars, SameOperation
<1> QED
  BY <1>1, <1>2, <1>4, <1>5 DEF Next, Quiet, Recover

-----------------------------------------------------------------------------
(* What was seen behind a guard stands until the guard is dropped. *)
LEMMA SeenStands ==
  ASSUME TypeOK, Owners, PinnedLives, NEW d \in Directions, seen[d].active # NoSession
  PROVE  /\ d \in pinned /\ endpoint[d] = seen[d].active /\ ownership.id[d] = seen[d].active
         /\ control.dir # d \/ control.op \in {"none", "create", "start", "activate"} => active[d] = seen[d].active
<1>1. PinnedLife(d)
  BY DEF PinnedLives
<1>2. CASE active[d] = seen[d].active
  BY <1>1, <1>2 DEF PinnedLife, Owners, SessionsAreOwned
<1>3. CASE Stopping(d) /\ control.id = seen[d].active
  BY <1>1, <1>3 DEF PinnedLife, Owners, SessionsAreOwned, OperationsAreOwn, Stopping, Locked
<1> QED
  BY <1>1, <1>2, <1>3 DEF PinnedLife

LEMMA PinnedLivesAfterControl ==
  ASSUME TypeOK, Owners, PinnedLives, ControlStep, NEW e \in Directions
  PROVE  PinnedLife(e)'
<1> SUFFICES ASSUME seen'[e].active # NoSession
             PROVE  /\ e \in pinned'
                    /\ active'[e] = seen'[e].active \/ (Stopping(e)' /\ control'.id = seen'[e].active)
  BY DEF PinnedLife
<1>1. UNCHANGED <<seen, pinned>>
  BY ControlLeavesCycle DEF cycleVars
<1>2. /\ e \in pinned /\ seen[e].active # NoSession
      /\ active[e] = seen[e].active \/ (Stopping(e) /\ control.id = seen[e].active)
      /\ control.dir # e \/ control.op \in {"none", "create", "start", "activate"} => active[e] = seen[e].active
  BY <1>1, SeenStands DEF PinnedLives, PinnedLife
<1>3. Locked => active[control.dir] = NoSession
  BY DEF Owners, OperationsAreOwn
<1>4. ASSUME NEW c \in Connections, NEW d \in Directions, RequestStep(c, d)
      PROVE  active'[e] = seen'[e].active \/ (Stopping(e)' /\ control'.id = seen'[e].active)
  <2>1. control.op = "none" /\ active[e] = seen[e].active
    BY <1>2, <1>4, RequestCases DEF BeginOpen, BeginStart, BeginAlignedStart, BeginStop,
       BeginClose, Lock, Locked
  <2>2. ASSUME NEW group \in Groups \union {None}, BeginOpen(c, d, group)
        PROVE  active' = active
    BY <2>2 DEF BeginOpen
  <2>3. CASE BeginStart(c, d) \/ BeginAlignedStart(c, d)
    BY <1>1, <2>1, <2>3 DEF BeginStart, BeginAlignedStart
  <2>4. ASSUME NEW op \in {"stop", "close"}, Lock(c, d, op),
               \A f \in Directions : f # d => active'[f] = active[f]
        PROVE  active'[e] = seen'[e].active \/ (Stopping(e)' /\ control'.id = seen'[e].active)
    BY <1>1, <1>2, <2>1, <2>4, LocksItsOwn DEF Stopping
  <2>5. CASE BeginStop(c, d)
    BY <2>4, <2>5 DEF BeginStop, TypeOK, OwnerTypes
  <2>6. CASE BeginClose(c, d)
    BY <2>4, <2>6 DEF BeginClose, TypeOK, OwnerTypes
  <2> QED
    BY <1>1, <1>4, <2>1, <2>2, <2>3, <2>5, <2>6, RequestCases
<1>5. CASE Create \/ FailToCreate \/ ResetRegion
  BY <1>1, <1>2, <1>5 DEF Create, FailToCreate, ResetRegion
<1>6. CASE Activate
  <2>1. e # control.dir /\ active[e] = seen[e].active
    BY <1>2, <1>3, <1>6 DEF Activate, Locked
  <2> QED
    BY <1>1, <1>2, <1>6, <2>1 DEF Activate, TypeOK, OwnerTypes
<1>7. CASE Drain
  <2>1. control'.dir = control.dir /\ control'.id = control.id /\ active' = active
        /\ control'.op \in {"stopping", "closing"} /\ control'.waits = (control.dir \in pinned)
    BY <1>7 DEF Drain, TypeOK, OwnerTypes
  <2>2. CASE control.dir = e
    BY <1>1, <1>2, <2>1, <2>2 DEF Stopping
  <2>3. CASE control.dir # e
    BY <1>1, <1>2, <2>1, <2>3
  <2> QED
    BY <2>2, <2>3
<1>8. CASE FinishStop \/ Release \/ FinishClose
  <2>1. active' = active /\ Locked /\ ~Stopping(e)
    BY <1>8 DEF FinishStop, Release, FinishClose, Stopping, Locked
  <2> QED
    BY <1>1, <1>2, <2>1
<1> QED
  BY <1>1, <1>2, <1>4, <1>5, <1>6, <1>7, <1>8 DEF ControlStep, OperationStep

LEMMA PinnedLivesKept ==
  ASSUME TypeOK, Owners, CycleShape, PinnedLives, Next
  PROVE  PinnedLives'
<1>1. CASE ControlStep
  BY <1>1, PinnedLivesAfterControl DEF PinnedLives
<1>2. ASSUME ~CaptureStep, ~ControlStep
      PROVE  PinnedLives'
  BY <1>2, OthersLeaveCycle DEF Next, ControlStep, Quiet, Recover, cycleVars, controlVars,
     PinnedLives, PinnedLife, Stopping
<1>3. CASE DropGuards \/ \E d \in Directions : EndPublish(d)
  BY <1>3 DEF DropGuards, EndPublish, Unpin, Unseen, PinnedLives, PinnedLife
<1>4. ASSUME NEW d \in Directions, Load(d) \/ BeginPublish(d)
      PROVE  PinnedLives'
  <2>1. UNCHANGED <<active, control>> /\ (pc # "publish" => pinned \subseteq pinned') /\ pc \in {"load", "publish"}
    BY <1>4 DEF Load, BeginPublish, controlVars
  <2>2. \A e \in Directions : seen'[e].active = seen[e].active
    BY <1>4, EndpointSeen DEF Load, BeginPublish
  <2>3. pc = "publish" => pinned = {}
    BY DEF CycleShape
  <2> QED
    BY <2>1, <2>2, <2>3 DEF PinnedLives, PinnedLife, Stopping
<1>5. ASSUME NEW d \in Directions, Look(d) \/ ReadActive(d)
      PROVE  PinnedLives'
  <2>1. UNCHANGED <<active, control, pinned>> /\ d \in pinned
    BY <1>5 DEF Look, ReadActive, controlVars, CycleShape, Pairing
  <2>2. /\ seen'[d].active = active[d]
        /\ \A e \in Directions : e # d => seen'[e] = seen[e]
    BY <1>5, LookSees, ActiveSeen DEF ReadActive
  <2> QED
    BY <2>1, <2>2 DEF PinnedLives, PinnedLife, Stopping
<1>6. CASE BeginCycle \/ ReadMask \/ ClearRequests
  BY <1>6 DEF BeginCycle, ReadMask, ClearRequests, controlVars, PinnedLives, PinnedLife,
     Stopping
<1>7. ASSUME NEW d \in Directions,
             PassOver(d) \/ WaitForPeer(d) \/ StartOne(d) \/ ReadBit(d) \/ PublishOne(d)
      PROVE  PinnedLives'
  BY <1>7 DEF PassOver, WaitForPeer, StartOne, Considered, ReadBit, PublishOne, controlVars,
     PinnedLives, PinnedLife, Stopping
<1> QED
  BY <1>1, <1>2, <1>3, <1>4, <1>5, <1>6, <1>7 DEF CaptureStep

-----------------------------------------------------------------------------
(* Requests. *)
LEMMA RequestsStandKept ==
  ASSUME TypeOK, Owners, RequestsStand, Next
  PROVE  RequestsStand'
<1> USE DEF RequestsStand, InUse
<1>1. Locked => active[control.dir] = NoSession
  BY DEF Owners, OperationsAreOwn
<1>2. ASSUME NEW c \in Connections, NEW d \in Directions, RequestStep(c, d)
      PROVE  RequestsStand'
  <2>1. ASSUME NEW group \in Groups \union {None}, BeginOpen(c, d, group)
        PROVE  RequestsStand'
    BY <2>1 DEF BeginOpen, Locked
  <2>2. ASSUME NEW op \in {"start", "stop", "close"}, Lock(c, d, op)
        PROVE  control.op = "none" /\ control'.op = op /\ control'.dir = d
    BY <2>2, LocksItsOwn
  <2>3. CASE BeginStart(c, d)
    BY <2>2, <2>3 DEF BeginStart, MayStart
  <2>4. CASE BeginAlignedStart(c, d)
    BY <2>2, <2>4 DEF BeginAlignedStart, MayStart
  <2>5. CASE BeginStop(c, d)
    BY <2>2, <2>5 DEF BeginStop, TypeOK, OwnerTypes, LifeTypes
  <2>6. CASE BeginClose(c, d)
    BY <2>2, <2>6 DEF BeginClose, TypeOK, OwnerTypes, LifeTypes
  <2> QED
    BY <1>2, <2>1, <2>3, <2>4, <2>5, <2>6, RequestCases
<1>3. CASE Create \/ FailToCreate
  BY <1>3 DEF Create, FailToCreate
<1>4. CASE Activate
  <2>1. control.id # NoSession /\ control.dir \in Directions
    BY <1>4 DEF Activate, Owners, OperationsAreOwn, Locked, Sessions, NoSession, TypeOK,
       OwnerTypes
  <2> QED
    BY <1>4, <2>1 DEF Activate, TypeOK, OwnerTypes, LifeTypes
<1>5. CASE ResetRegion \/ Drain \/ Release
  <2>1. /\ UNCHANGED <<active, aligned, pairStart>> /\ control'.dir = control.dir
        /\ control'.op \notin {"none", "create"} /\ control.op # "create"
    <3>1. CASE ResetRegion \/ Release
      BY <3>1 DEF ResetRegion, Release, Continue, TypeOK, OwnerTypes
    <3>2. CASE Drain
      BY <3>2 DEF Drain, TypeOK, OwnerTypes
    <3> QED
      BY <1>5, <3>1, <3>2
  <2> QED
    BY <2>1
<1>6. CASE FinishStop \/ FinishClose
  BY <1>6 DEF FinishStop, FinishClose, ForgetRequest
<1>7. CASE CaptureStep
  <2>1. pairStart' \subseteq pairStart
    BY <1>7 DEF CaptureStep, BeginCycle, Load, Look, ReadMask, PassOver, WaitForPeer, StartOne,
       Considered, ClearRequests, DropGuards, Unpin, BeginPublish, ReadActive, ReadBit,
       PublishOne, EndPublish
  <2> QED
    BY <1>7, <2>1, CaptureLeavesOwners DEF OwnedVars, SameOperation
<1>8. ASSUME UNCHANGED <<controlVars, pairStart>>
      PROVE  RequestsStand'
  BY <1>8 DEF controlVars
<1> QED
  BY <1>2, <1>3, <1>4, <1>5, <1>6, <1>7, <1>8 DEF Next, OperationStep, Quiet, Recover

LEMMA StartsHaveAskedKept ==
  ASSUME TypeOK, Owners, PinnedLives, StartsHaveAsked, Answers, Next
  PROVE  StartsHaveAsked'
<1> USE DEF StartsHaveAsked
<1>1. ASSUME NEW c \in Connections, NEW d \in Directions, RequestStep(c, d)
      PROVE  StartsHaveAsked'
  <2>1. ASSUME NEW group \in Groups \union {None}, BeginOpen(c, d, group)
        PROVE  StartsHaveAsked'
    BY <2>1 DEF BeginOpen, NoControl
  <2>2. ASSUME NEW op \in {"start", "stop", "close"}, Lock(c, d, op)
        PROVE  control'.op = op /\ control'.dir = d
    BY <2>2, LocksItsOwn
  <2>3. CASE BeginStart(c, d) \/ BeginAlignedStart(c, d)
    BY <2>2, <2>3 DEF BeginStart, BeginAlignedStart
  <2>4. CASE BeginStop(c, d) \/ BeginClose(c, d)
    BY <2>2, <2>4 DEF BeginStop, BeginClose
  <2> QED
    BY <1>1, <2>1, <2>3, <2>4, RequestCases
<1>2. CASE OperationStep
  <2>1. CASE ResetRegion
    BY <2>1 DEF ResetRegion, Continue, TypeOK, OwnerTypes
  <2>2. CASE Drain
    BY <2>2 DEF Drain, TypeOK, OwnerTypes
  <2>3. CASE Release
    BY <2>3 DEF Release, Continue, TypeOK, OwnerTypes
  <2>4. CASE Create \/ FailToCreate \/ Activate \/ FinishStop \/ FinishClose
    BY <2>4 DEF Create, FailToCreate, Activate, FinishStop, FinishClose, Unlock, NoControl
  <2> QED
    BY <1>2, <2>1, <2>2, <2>3, <2>4 DEF OperationStep
<1>3. CASE ClearRequests
  <2>1. control' = control /\ aligned' = aligned /\ pairStart' = pairStart \ activated
    BY <1>3 DEF ClearRequests, controlVars
  <2>2. ASSUME control.op \in {"start", "activate"}, control.dir \in activated
        PROVE  FALSE
    <3>1. active[control.dir] = NoSession /\ control.dir \in Directions
      BY <2>2 DEF Owners, OperationsAreOwn, Locked, TypeOK, OwnerTypes
    <3>2. seen[control.dir].active # NoSession
      BY <2>2 DEF Answers, SeenLive
    <3> QED
      BY <2>2, <3>1, <3>2, SeenStands
  <2> QED
    BY <2>1, <2>2
<1>4. ASSUME CaptureStep, ~ClearRequests
      PROVE  StartsHaveAsked'
  <2>1. UNCHANGED pairStart
    BY <1>4 DEF CaptureStep, BeginCycle, Load, Look, ReadMask, PassOver, WaitForPeer, StartOne,
       Considered, DropGuards, Unpin, BeginPublish, ReadActive, ReadBit, PublishOne, EndPublish
  <2> QED
    BY <1>4, <2>1, CaptureLeavesOwners DEF OwnedVars, SameOperation
<1>5. ASSUME UNCHANGED <<controlVars, pairStart>>
      PROVE  StartsHaveAsked'
  BY <1>5 DEF controlVars
<1> QED
  BY <1>1, <1>2, <1>3, <1>4, <1>5 DEF Next, Quiet, Recover

LEMMA LiveIsPublished ==
  ASSUME TypeOK, Owners, PinnedLives, NEW d \in Directions, InUseOrSeen(d)
  PROVE  /\ endpoint[d] \in Ids /\ endpoint[d] # NoSession /\ endpoint[d] = ownership.id[d]
         /\ Locked /\ control.op # "create" /\ control.dir # d => control.id # endpoint[d]
<1>1. endpoint[d] = ownership.id[d] /\ endpoint[d] # NoSession
  <2>1. CASE active[d] # NoSession
    BY <2>1 DEF Owners, SessionsAreOwned
  <2>2. CASE seen[d].active # NoSession
    BY <2>2, SeenStands
  <2> QED
    BY <2>1, <2>2 DEF InUseOrSeen
<1>2. ASSUME Locked, control.op # "create", control.dir # d
      PROVE  control.id # endpoint[d]
  <2>1. control.dir \in Directions /\ ownership.id[control.dir] = control.id
        /\ control.id # NoSession
    BY <1>2 DEF Owners, OperationsAreOwn, TypeOK, OwnerTypes, Sessions, NoSession
  <2>2. endpoint[control.dir] = control.id
    BY <2>1 DEF Owners, SessionsAreOwned
  <2> QED
    BY <1>1, <1>2, <2>1, <2>2 DEF Owners, SessionsAreDistinct
<1> QED
  BY <1>1, <1>2 DEF TypeOK, OwnerTypes

(* A session that is in use, or seen in use, keeps its endpoint and, but   *)
(* for its own START, its answer.                                          *)
LEMMA LiveKeepsAnswer ==
  ASSUME TypeOK, Owners, PinnedLives, Next, NEW d \in Directions, InUseOrSeen(d)
  PROVE  /\ endpoint'[d] = endpoint[d]
         /\ region[endpoint[d]].start = "ready" =>
              region'[endpoint[d]].start = "ready" \/ (ResetRegion /\ control.dir = d)
<1>1. /\ endpoint[d] \in Ids /\ endpoint[d] # NoSession /\ endpoint[d] = ownership.id[d]
      /\ Locked /\ control.op # "create" /\ control.dir # d => control.id # endpoint[d]
  BY LiveIsPublished
<1>2. endpoint'[d] = endpoint[d]
  <2>1. CASE Create
    <3>1. active[control.dir] = NoSession /\ control.op = "create" /\ control.dir \in Directions
      BY <2>1 DEF Create, Owners, OperationsAreOwn, Locked, TypeOK, OwnerTypes
    <3>2. seen[control.dir].active = NoSession
      BY <3>1, SeenStands
    <3>3. control.dir # d
      BY <3>1, <3>2 DEF InUseOrSeen
    <3> QED
      BY <2>1, <3>1, <3>3 DEF Create, TypeOK, OwnerTypes
  <2>2. ASSUME ~Create
        PROVE  UNCHANGED endpoint
    <3>1. CASE CaptureStep
      BY <3>1, CaptureLeavesOwners
    <3>2. ASSUME NEW c \in Connections, NEW e \in Directions, RequestStep(c, e)
          PROVE  UNCHANGED endpoint
      BY <3>2, RequestCases DEF BeginOpen, BeginStart, BeginAlignedStart, BeginStop, BeginClose
    <3> QED
      BY <2>2, <3>1, <3>2 DEF Next, OperationStep, FailToCreate, ResetRegion, Activate, Drain,
         FinishStop, Release, FinishClose, Quiet, Recover
  <2> QED
    BY <2>1, <2>2
<1>3. ASSUME region[endpoint[d]].start = "ready"
      PROVE  region'[endpoint[d]].start = "ready" \/ (ResetRegion /\ control.dir = d)
  <2>1. region'[endpoint[d]].start = "ready" \/ (ResetRegion /\ endpoint[d] = control.id)
    BY <1>1, <1>3, StartStates
  <2> QED
    BY <1>1, <2>1 DEF ResetRegion, Locked
<1> QED
  BY <1>2, <1>3

LEMMA LiveHaveAskedKept ==
  ASSUME TypeOK, Owners, CycleShape, PinnedLives, Requests, Answers, Next
  PROVE  LiveHaveAsked'
<1> SUFFICES ASSUME NEW d \in Directions, d \in aligned', InUseOrSeen(d)'
             PROVE  d \in pairStart' \/ region'[endpoint'[d]].start = "ready"
  <2>1. aligned' \subseteq Directions
    BY LifeTypesKept DEF Owners, LifeTypes
  <2> QED
    BY <2>1 DEF LiveHaveAsked
<1> USE DEF LiveHaveAsked
<1>1. Locked => active[control.dir] = NoSession /\ control.dir \in Directions
  BY DEF Owners, OperationsAreOwn, TypeOK, OwnerTypes
<1>2. ASSUME d \in aligned, InUseOrSeen(d), d \in pairStart => d \in pairStart', ~ResetRegion
      PROVE  d \in pairStart' \/ region'[endpoint'[d]].start = "ready"
  BY <1>2, LiveKeepsAnswer DEF Requests
<1>3. CASE \E c \in Connections, e \in Directions : RequestStep(c, e)
  <2>1. PICK c \in Connections, e \in Directions : RequestStep(c, e)
    BY <1>3
  <2>2. ControlStep
    BY <2>1 DEF ControlStep
  <2>3. /\ pairStart \subseteq pairStart' /\ aligned' \subseteq aligned \union pairStart'
        /\ active'[d] \in {NoSession, active[d]} /\ control.op = "none"
    <3>1. ASSUME NEW group \in Groups \union {None}, BeginOpen(c, e, group)
          PROVE  /\ UNCHANGED <<pairStart, aligned, active>> /\ control.op = "none"
      BY <3>1 DEF BeginOpen, Locked
    <3>2. CASE BeginStart(c, e)
      BY <3>2 DEF BeginStart, Lock, Locked
    <3>3. CASE BeginAlignedStart(c, e)
      BY <3>3 DEF BeginAlignedStart, Lock, Locked
    <3>4. CASE BeginStop(c, e)
      BY <3>4 DEF BeginStop, Lock, Locked, TypeOK, OwnerTypes
    <3>5. CASE BeginClose(c, e)
      BY <3>5 DEF BeginClose, Lock, Locked, TypeOK, OwnerTypes
    <3> QED
      BY <2>1, <3>1, <3>2, <3>3, <3>4, <3>5, RequestCases
  <2>4. InUseOrSeen(d)
    BY <2>2, <2>3, ControlLeavesCycle DEF InUseOrSeen, cycleVars
  <2> QED
    BY <1>2, <2>3, <2>4 DEF ResetRegion
<1>4. CASE OperationStep
  <2>1. UNCHANGED seen
    BY <1>4, ControlLeavesCycle DEF ControlStep, cycleVars
  <2>2. CASE Create \/ FailToCreate \/ Drain \/ Release
    <3>1. UNCHANGED <<active, aligned, pairStart>> /\ ~ResetRegion
      BY <2>2 DEF Create, FailToCreate, Drain, Release, ResetRegion
    <3> QED
      BY <1>2, <2>1, <3>1 DEF InUseOrSeen
  <2>3. CASE ResetRegion
    <3>1. UNCHANGED <<active, aligned, pairStart, endpoint>> /\ control.op = "start"
      BY <2>3 DEF ResetRegion
    <3>2. CASE control.dir = d
      BY <3>1, <3>2 DEF Requests, StartsHaveAsked
    <3>3. CASE control.dir # d
      BY <2>1, <2>3, <3>1, <3>3, LiveKeepsAnswer DEF InUseOrSeen, Requests
    <3> QED
      BY <3>2, <3>3
  <2>4. CASE Activate
    <3>1. /\ UNCHANGED <<aligned, pairStart>> /\ control.op = "activate" /\ ~ResetRegion
          /\ control.dir # d => active'[d] = active[d]
      BY <2>4 DEF Activate, ResetRegion, TypeOK, OwnerTypes
    <3>2. CASE control.dir = d
      BY <3>1, <3>2 DEF Requests, StartsHaveAsked
    <3>3. CASE control.dir # d
      BY <1>2, <2>1, <3>1, <3>3 DEF InUseOrSeen
    <3> QED
      BY <3>2, <3>3
  <2>5. CASE FinishStop \/ FinishClose
    <3>1. /\ UNCHANGED <<aligned, active>> /\ pairStart' = pairStart \ {control.dir}
          /\ ~ResetRegion
          /\ Locked /\ ~Stopping(control.dir)
      BY <2>5 DEF FinishStop, FinishClose, ForgetRequest, ResetRegion, Locked, Stopping
    <3>2. seen[control.dir].active = NoSession
      BY <1>1, <3>1 DEF PinnedLives, PinnedLife
    <3>3. control.dir # d
      BY <1>1, <2>1, <3>1, <3>2 DEF InUseOrSeen
    <3> QED
      BY <1>2, <2>1, <3>1, <3>3 DEF InUseOrSeen
  <2> QED
    BY <1>4, <2>2, <2>3, <2>4, <2>5 DEF OperationStep
<1>5. CASE CaptureStep
  <2>1. UNCHANGED <<active, aligned>>
    BY <1>5, CaptureLeavesOwners DEF OwnedVars
  <2>2. ~ResetRegion
    BY <1>5 DEF CaptureStep, ResetRegion, BeginCycle, Load, Look, ReadMask, PassOver,
       WaitForPeer, StartOne, Considered, ClearRequests, DropGuards, Unpin, BeginPublish,
       ReadActive, ReadBit, PublishOne, EndPublish, Continue, controlVars, TypeOK, OwnerTypes
  <2>3. InUseOrSeen(d)
    <3>1. CASE DropGuards \/ \E e \in Directions : EndPublish(e)
      BY <2>1, <3>1 DEF DropGuards, EndPublish, Unpin, Unseen, InUseOrSeen
    <3>2. ASSUME NEW e \in Directions, Load(e) \/ BeginPublish(e)
          PROVE  InUseOrSeen(d)
      BY <2>1, <3>2, EndpointSeen DEF Load, BeginPublish, InUseOrSeen
    <3>3. ASSUME NEW e \in Directions, Look(e) \/ ReadActive(e)
          PROVE  InUseOrSeen(d)
      BY <2>1, <3>3, LookSees, ActiveSeen DEF ReadActive, InUseOrSeen
    <3>4. ASSUME UNCHANGED seen
          PROVE  InUseOrSeen(d)
      BY <2>1, <3>4 DEF InUseOrSeen
    <3> QED
      BY <1>5, <3>1, <3>2, <3>3, <3>4 DEF CaptureStep, BeginCycle, ReadMask, PassOver,
         WaitForPeer, StartOne, Considered, ClearRequests, ReadBit, PublishOne
  <2>4. CASE ClearRequests
    <3>1. pairStart' = pairStart \ activated
      BY <2>4 DEF ClearRequests
    <3>2. CASE d \in activated
      <4>1. seen[d].active # NoSession /\ region[seen[d].active].start = "ready"
        BY <3>2 DEF Answers, SeenLive
      <4>2. region[endpoint[d]].start = "ready"
        BY <4>1, SeenStands
      <4> QED
        BY <2>2, <2>3, <4>2, LiveKeepsAnswer
    <3> QED
      BY <1>2, <2>1, <2>2, <2>3, <3>1, <3>2
  <2>5. ASSUME ~ClearRequests
        PROVE  UNCHANGED pairStart
    BY <1>5, <2>5 DEF CaptureStep, BeginCycle, Load, Look, ReadMask, PassOver, WaitForPeer,
       StartOne, Considered, DropGuards, Unpin, BeginPublish, ReadActive, ReadBit, PublishOne,
       EndPublish
  <2> QED
    BY <1>2, <2>1, <2>2, <2>3, <2>4, <2>5
<1>6. ASSUME UNCHANGED <<controlVars, cycleVars, pairStart>>
      PROVE  d \in pairStart' \/ region'[endpoint'[d]].start = "ready"
  <2>1. ~ResetRegion
    BY <1>6 DEF controlVars, ResetRegion, Continue, TypeOK, OwnerTypes
  <2> QED
    BY <1>2, <1>6, <2>1 DEF controlVars, cycleVars, InUseOrSeen
<1> QED
  BY <1>3, <1>4, <1>5, <1>6 DEF Next, Quiet, Recover

-----------------------------------------------------------------------------
(* Answers. *)
Answered(d) == SeenLive(d) /\ region[seen[d].endpoint].start = "ready"

LEMMA AnswerStands ==
  ASSUME TypeOK, Owners, PinnedLives, Next, NEW d \in Directions, Answered(d), seen' = seen
  PROVE  Answered(d)'
<1>1. seen[d].active # NoSession /\ seen[d].endpoint = endpoint[d] /\ InUseOrSeen(d)
  BY SeenStands DEF Answered, SeenLive, InUseOrSeen
<1>2. ~(ResetRegion /\ control.dir = d)
  <2>1. ASSUME ResetRegion, control.dir = d
        PROVE  FALSE
    <3>1. active[d] = NoSession /\ control.op = "start"
      BY <2>1 DEF ResetRegion, Owners, OperationsAreOwn, Locked
    <3> QED
      BY <1>1, <3>1, SeenStands
  <2> QED
    BY <2>1
<1>3. region'[endpoint[d]].start = "ready"
  BY <1>1, <1>2, LiveKeepsAnswer DEF Answered
<1> QED
  BY <1>1, <1>3 DEF Answered, SeenLive

LEMMA AnswersKept ==
  ASSUME TypeOK, Owners, CycleShape, PinnedLives, Requests, Answers, Next
  PROVE  Answers'
<1>0. /\ activated \subseteq Directions /\ pinned \subseteq Directions
      /\ \A d \in activated : Answered(d)
      /\ pc = "publish one" => \A d \in pinned \intersect aligned : SeenLive(d) => Answered(d)
  BY DEF Answers, Answered, TypeOK, CycleTypes
<1>1. SUFFICES /\ \A d \in activated' : Answered(d)'
               /\ pc' = "publish one" => \A d \in (pinned \intersect aligned)' : SeenLive(d)' => Answered(d)'
  BY <1>1 DEF Answers, Answered
<1>2. ASSUME UNCHANGED <<seen, activated>>
      PROVE  \A d \in activated' : Answered(d)'
  BY <1>0, <1>2, AnswerStands
<1>3. CASE ~CaptureStep
  <2>1. UNCHANGED <<pc, seen, activated, pinned>>
    BY <1>3, OthersLeaveCycle DEF cycleVars
  <2>2. ASSUME pc' = "publish one", NEW d \in (pinned \intersect aligned)', SeenLive(d)'
        PROVE  Answered(d)'
    <3>1. SeenLive(d) /\ d \in pinned /\ d \in Directions
      BY <1>0, <2>1, <2>2 DEF SeenLive
    <3>2. d \in aligned
      <4>1. SUFFICES ASSUME d \notin aligned PROVE FALSE
        OBVIOUS
      <4>2. PICK c \in Connections, e \in Directions : RequestStep(c, e)
        BY <1>3, <2>2, <4>1 DEF Next, OperationStep, Create, FailToCreate, ResetRegion,
           Activate, Drain, FinishStop, Release, FinishClose, Quiet, Recover, controlVars
      <4>3. BeginAlignedStart(c, e) /\ e = d
        BY <2>2, <4>1, <4>2, RequestCases DEF BeginOpen, BeginStart, BeginAlignedStart,
           BeginStop, BeginClose
      <4>4. active[d] = NoSession /\ control.op = "none"
        BY <4>3 DEF BeginAlignedStart, MayStart, Lock, Locked
      <4> QED
        BY <3>1, <4>4, SeenStands DEF SeenLive
    <3> QED
      BY <1>0, <2>1, <2>2, <3>1, <3>2, AnswerStands
  <2> QED
    BY <1>2, <2>1, <2>2
<1>4. CASE DropGuards \/ \E d \in Directions : EndPublish(d)
  BY <1>4 DEF DropGuards, EndPublish, Unpin
<1>5. CASE BeginCycle
  BY <1>2, <1>5 DEF BeginCycle
<1>6. CASE ReadMask \/ ClearRequests
  BY <1>2, <1>6 DEF ReadMask, ClearRequests
<1>7. ASSUME NEW d \in Directions, Load(d) \/ Look(d) \/ BeginPublish(d) \/ ReadActive(d)
      PROVE  activated' = {} /\ pc' # "publish one"
  <2>1. activated' = activated /\ pc \in {"load", "look", "publish", "active"}
        /\ pc' # "publish one"
    BY <1>7 DEF Load, Look, BeginPublish, ReadActive
  <2> QED
    BY <2>1 DEF CycleShape
<1>8. ASSUME NEW d \in Directions, PassOver(d) \/ WaitForPeer(d)
      PROVE  UNCHANGED <<seen, activated>> /\ pc' # "publish one"
  BY <1>8 DEF PassOver, WaitForPeer, Considered
<1>9. ASSUME NEW d \in Directions, StartOne(d)
      PROVE  (\A e \in activated' : Answered(e)') /\ pc' # "publish one"
  <2>1. /\ activated' = activated \union {d} /\ seen' = seen /\ pc' # "publish one"
        /\ SeenLive(d) /\ Establish(d)
    BY <1>9 DEF StartOne, Considered, Eligible, SeenLive
  <2>2. RegionIsTyped /\ seen[d].endpoint \in Ids
    BY DEF TypeOK, LifeTypes, CycleTypes, RegionIsTyped
  <2>3. region'[seen[d].endpoint].start = "ready"
    BY <2>1, <2>2, Established
  <2> QED
    BY <1>0, <2>1, <2>3, AnswerStands DEF Answered, SeenLive
<1>10. ASSUME NEW d \in Directions, ReadBit(d)
       PROVE  Answers'
  <2>1. /\ pc = "bit" /\ d \in pinned
        /\ UNCHANGED <<seen, activated, pinned, pairStart, aligned, region, endpoint>>
        /\ pc' = "publish one" => d \notin pairStart
    BY <1>10 DEF ReadBit, controlVars
  <2>2. ASSUME pc' = "publish one", NEW e \in pinned \intersect aligned, SeenLive(e)
        PROVE  Answered(e)
    <3>1. e = d /\ e \in Directions /\ e \notin pairStart
      BY <1>0, <2>1, <2>2 DEF CycleShape, Publishing
    <3>2. InUseOrSeen(e)
      BY <2>2 DEF SeenLive, InUseOrSeen
    <3>3. region[endpoint[e]].start = "ready" /\ endpoint[e] = seen[e].endpoint
      BY <2>2, <3>1, <3>2, SeenStands DEF Requests, LiveHaveAsked, SeenLive
    <3> QED
      BY <2>2, <3>3 DEF Answered
  <2> QED
    BY <1>0, <2>1, <2>2 DEF Answers, Answered, SeenLive
<1>11. ASSUME NEW d \in Directions, PublishOne(d)
       PROVE  activated' = {} /\ pc' # "publish one"
  <2>1. activated' = activated /\ pc = "publish one" /\ pc' # "publish one"
    BY <1>11 DEF PublishOne
  <2> QED
    BY <2>1 DEF CycleShape
<1>12. CASE Answers'
  BY <1>12 DEF Answers, Answered
<1> QED
  BY <1>2, <1>3, <1>4, <1>5, <1>6, <1>7, <1>8, <1>9, <1>10, <1>11, <1>12 DEF CaptureStep

-----------------------------------------------------------------------------
(* A cycle that began with both requests. *)
AskedTogether == bothAsked /\ pc \in {"load", "look", "mask", "pair", "clear"}

LEMMA TogetherUndisturbed ==
  ASSUME TypeOK, Owners, Together, Next, ~CaptureStep, AskedTogether'
  PROVE  UNCHANGED <<pairStart, active, lifeOn, hardware, cycleVars>> /\ bothAsked
<1>1. UNCHANGED cycleVars /\ bothAsked
  BY OthersLeaveCycle DEF AskedTogether
<1>2. \A d \in Directions : Asked(d)
  BY <1>1 DEF Together, AskedTogether, cycleVars
<1>3. ~Locked
  BY <1>2 DEF Owners, OperationsAreOwn, Asked, TypeOK, OwnerTypes
<1>4. ASSUME NEW c \in Connections, NEW d \in Directions, RequestStep(c, d)
      PROVE  UNCHANGED <<pairStart, active, lifeOn, hardware>>
  <2>1. ~BeginStart(c, d) /\ ~BeginAlignedStart(c, d)
    BY <1>2 DEF BeginStart, BeginAlignedStart, MayStart, Asked
  <2>2. ~BeginStop(c, d) /\ ~BeginClose(c, d)
    BY DEF BeginStop, BeginClose, AskedTogether
  <2> QED
    BY <1>4, <2>1, <2>2, RequestCases DEF BeginOpen
<1>5. ~OperationStep
  BY <1>3 DEF OperationStep, Create, FailToCreate, ResetRegion, Activate, Drain, FinishStop,
     Release, FinishClose, Locked
<1>6. ~Recover
  BY DEF Recover, AskedTogether
<1> QED
  BY <1>1, <1>4, <1>5, <1>6 DEF Next, Quiet, controlVars

LEMMA TogetherKept ==
  ASSUME TypeOK, Owners, CycleShape, Together, Next
  PROVE  Together'
<1> SUFFICES ASSUME AskedTogether'
             PROVE  Together'
  BY DEF Together, AskedTogether
<1>0. /\ todo \subseteq Directions /\ mask \subseteq Directions
      /\ activated \subseteq Directions
      /\ \A d \in Directions : active[d] # NoSession => endpoint[d] = active[d]
  BY DEF TypeOK, CycleTypes, Owners, SessionsAreOwned
<1>1. CASE ~CaptureStep
  BY <1>1, TogetherUndisturbed DEF Together, AskedTogether, Asked, cycleVars
<1>2. ASSUME CaptureStep, ~BeginCycle
      PROVE  bothAsked /\ UNCHANGED <<pairStart, active, lifeOn, hardware>>
             /\ pc \in {"load", "look", "mask", "pair"}
  BY <1>2 DEF AskedTogether, CaptureStep, BeginCycle, Load, Look, ReadMask, PassOver,
     WaitForPeer, StartOne, Considered, ClearRequests, DropGuards, Unpin, BeginPublish,
     ReadActive, ReadBit, PublishOne, EndPublish, controlVars
<1>3. CASE BeginCycle
  <2>1. /\ UNCHANGED <<pairStart, active, lifeOn, hardware>> /\ todo' = Directions
        /\ pc' = "load"
        /\ \A d \in Directions : Asked(d)
    BY <1>3 DEF BeginCycle, AskedTogether, controlVars
  <2> QED
    BY <2>1 DEF Together, Asked
<1>4. ASSUME CaptureStep, ~BeginCycle
      PROVE  /\ \A d \in Directions : Asked(d) /\ Asked(d)' /\ endpoint[d] = active[d]
             /\ \A d \in Directions : pc # "load" \/ d \notin todo => seen[d].endpoint = active[d]
             /\ pc # "load" => runs = hardware
             /\ \A d \in Directions : pc \in {"mask", "pair"} \/ (pc = "look" /\ d \notin todo) =>
                  seen[d].active = active[d] /\ seen[d].current
             /\ pc = "pair" => mask = Directions /\ Directions \ todo \subseteq activated
  BY <1>0, <1>2, <1>4 DEF Together, Asked
<1>5. ASSUME NEW d \in Directions, Load(d)
      PROVE  Together'
  <2>1. /\ pc = "load" /\ d \in todo
        /\ todo' = IF todo = {d} THEN Directions ELSE todo \ {d}
        /\ pc' = IF todo = {d} THEN "look" ELSE "load"
        /\ runs' = IF todo = {d} THEN hardware ELSE runs
    BY <1>0, <1>5 DEF Load, First, Directions, CycleShape
  <2>2. seen'[d].endpoint = endpoint[d] /\ \A e \in Directions : e # d => seen'[e] = seen[e]
    BY <1>5, EndpointSeen DEF Load
  <2>3. CaptureStep /\ ~BeginCycle
    BY <1>5, <2>1 DEF CaptureStep, BeginCycle
  <2>4. \A e \in Directions : pc' # "load" \/ e \notin todo' => seen'[e].endpoint = active[e]
    BY <1>4, <2>1, <2>2, <2>3
  <2> QED
    BY <1>2, <1>4, <2>1, <2>3, <2>4 DEF Together
<1>6. ASSUME NEW d \in Directions, Look(d)
      PROVE  Together'
  <2>1. /\ pc = "look" /\ d \in todo /\ todo' = todo \ {d} /\ runs' = runs
        /\ pc' = IF todo = {d} THEN "mask" ELSE "look"
    BY <1>0, <1>6 DEF Look, First, Directions, CycleShape
  <2>2. CaptureStep /\ ~BeginCycle
    BY <1>6, <2>1 DEF CaptureStep, BeginCycle
  <2>3. /\ seen'[d].endpoint = seen[d].endpoint /\ seen'[d].active = active[d]
        /\ seen'[d].current
        /\ \A e \in Directions : e # d => seen'[e] = seen[e]
    BY <1>4, <1>6, <2>1, <2>2, LookSees DEF Asked
  <2>4. /\ \A e \in Directions : seen'[e].endpoint = active[e]
        /\ \A e \in Directions : e \notin todo' => seen'[e].active = active[e] /\ seen'[e].current
    BY <1>4, <2>1, <2>2, <2>3
  <2>5. pc' = "mask" => todo' = {}
    BY <2>1
  <2> QED
    BY <1>2, <1>4, <2>1, <2>2, <2>4, <2>5 DEF Together
<1>7. CASE ReadMask
  <2>1. /\ pc = "mask" /\ mask' = pairStart /\ todo' = Directions /\ pc' = "pair"
        /\ UNCHANGED <<seen, runs>>
    BY <1>7 DEF ReadMask
  <2>2. CaptureStep /\ ~BeginCycle
    BY <1>7, <2>1 DEF CaptureStep, BeginCycle
  <2>3. mask' = Directions
    BY <1>4, <2>1, <2>2 DEF Asked, TypeOK, LifeTypes
  <2> QED
    BY <1>2, <1>4, <2>1, <2>2, <2>3 DEF Together
<1>8. ASSUME NEW d \in Directions, PassOver(d) \/ WaitForPeer(d) \/ StartOne(d)
      PROVE  Together'
  <2>1. /\ pc = "pair" /\ d \in todo /\ todo' = todo \ {d} /\ UNCHANGED <<runs, seen, mask>>
        /\ pc' = IF todo = {d} THEN "clear" ELSE "pair"
    BY <1>0, <1>8 DEF PassOver, WaitForPeer, StartOne, Considered, First, Directions, CycleShape
  <2>2. CaptureStep /\ ~BeginCycle
    BY <1>8, <2>1 DEF CaptureStep, BeginCycle
  <2>3. \A e \in Directions : Eligible(e)
    BY <1>4, <2>1, <2>2 DEF Eligible, Asked
  <2>4. Other(d) \in Directions
    BY DEF Other, Directions
  <2>5. StartOne(d)
    BY <1>8, <2>3, <2>4 DEF PassOver, WaitForPeer, WaitsForPeer
  <2>6. activated' = activated \union {d}
    BY <2>5 DEF StartOne
  <2>7. Directions \ todo' \subseteq activated' /\ activated' \subseteq Directions
    BY <1>0, <1>4, <2>1, <2>2, <2>6
  <2>8. pc' = "clear" => activated' = Directions
    BY <2>1, <2>7
  <2> QED
    BY <1>2, <1>4, <2>1, <2>2, <2>7, <2>8 DEF Together
<1>9. ASSUME NEW d \in Directions,
             BeginPublish(d) \/ ReadActive(d) \/ ReadBit(d) \/ PublishOne(d) \/ EndPublish(d)
      PROVE  FALSE
  BY <1>9 DEF AskedTogether, BeginPublish, ReadActive, ReadBit, PublishOne, EndPublish
<1>10. CASE ClearRequests \/ DropGuards
  BY <1>10 DEF AskedTogether, ClearRequests, DropGuards
<1> QED
  BY <1>1, <1>3, <1>5, <1>6, <1>7, <1>8, <1>9, <1>10 DEF CaptureStep

-----------------------------------------------------------------------------
LEMMA NextIInv == IInv /\ [Next]_vars => IInv'
<1> SUFFICES ASSUME IInv, [Next]_vars PROVE IInv'
    OBVIOUS
<1>1. CASE Next
  <2>1. TypeOK'
    <3>1. OwnerTypes'
      <4>1. CASE ControlStep
        BY <4>1, OwnerTypesKept DEF IInv
      <4>2. CASE CaptureStep
        BY <4>2, CaptureLeavesOwners DEF IInv
      <4>3. ASSUME UNCHANGED <<controlVars, endpoint>>
            PROVE  OwnerTypes'
        BY <4>3 DEF IInv, TypeOK, OwnerTypes, controlVars
      <4> QED
        BY <1>1, <4>1, <4>2, <4>3 DEF Next, ControlStep, Quiet, Recover
    <3> QED
      BY <1>1, <3>1, LifeTypesKept, CycleTypesKept DEF IInv, Owners, TypeOK
  <2>2. Owners' /\ CycleShape' /\ PinnedLives'
    BY <1>1, OwnersKept, CycleShapeKept, PinnedLivesKept DEF IInv
  <2>3. Requests'
    BY <1>1, RequestsStandKept, LiveHaveAskedKept, StartsHaveAskedKept DEF IInv, Requests
  <2>4. Answers' /\ Together'
    BY <1>1, AnswersKept, TogetherKept DEF IInv
  <2> QED
    BY <2>1, <2>2, <2>3, <2>4 DEF IInv
<1>2. CASE UNCHANGED vars
  <2> USE <1>2 DEF vars, controlVars, cycleVars
  <2>1. TypeOK'
    <3>1. OwnerTypes'
      BY DEF IInv, TypeOK, OwnerTypes
    <3>2. LifeTypes'
      BY DEF IInv, TypeOK, LifeTypes
    <3>3. CycleTypes'
      BY DEF IInv, TypeOK, CycleTypes
    <3> QED
      BY <3>1, <3>2, <3>3 DEF TypeOK
  <2>2. Owners'
    BY DEF IInv, Owners, OwnersDiffer, OperationsAreOwn, SessionsAreDistinct, Allocated,
       SessionsAreOwned, GroupOwns, MayOpen, Locked
  <2>3. CycleShape' /\ PinnedLives'
    BY DEF IInv, CycleShape, PinnedLives, PinnedLife, Stopping
  <2>4. Requests'
    BY DEF IInv, Requests, RequestsStand, LiveHaveAsked, StartsHaveAsked, InUse, InUseOrSeen
  <2>5. Answers' /\ Together'
    BY DEF IInv, Answers, SeenLive, Together, Asked
  <2> QED
    BY <2>1, <2>2, <2>3, <2>4, <2>5 DEF IInv
<1> QED
  BY <1>1, <1>2

(* The strengthening that the theorems below rest on. *)
THEOREM Inductive == Spec => []IInv
BY InitIInv, NextIInv, PTL DEF Spec

(* The owners of a session that somebody holds are of one process. *)
LEMMA HeldByOneProcess ==
  ASSUME IInv, NEW c \in Connections, NEW e \in Connections, held[c] # NoSession, held[e] # NoSession
  PROVE  peer[c] = peer[e] /\ (ownership.kind = "duplex" => c = e)
<1>1. PICK d \in Directions, f \in Directions : ownership.id[d] = held[c]
      /\ ownership.id[f] = held[e]
  BY DEF IInv, Owners, SessionsAreOwned
<1>2. ownership.kind # "none"
  BY <1>1 DEF IInv, Owners, GroupOwns, NoOwner
<1>3. CASE ownership.kind = "split"
  BY <1>3 DEF IInv, Owners, GroupOwns
<1>4. CASE ownership.kind = "duplex"
  <2>1. d = "playback" /\ f = "playback"
    BY <1>1, <1>4 DEF IInv, Owners, GroupOwns, Directions
  <2> QED
    BY <1>1, <2>1 DEF IInv, Owners, SessionsAreDistinct
<1> QED
  BY <1>2, <1>3, <1>4 DEF IInv, TypeOK, OwnerTypes

(* The PRO device is owned by one process at a time: by one duplex session, *)
(* or by the sessions of one group (DaemonState::open_pro,                 *)
(* open_pro_direction, close).                                             *)
THEOREM OneOwner == Spec => []OneProcessOwnsPro
<1>1. ASSUME IInv
      PROVE  OneProcessOwnsPro
  <2>1. \A c, e \in Connections : held[c] # NoSession /\ held[e] # NoSession => peer[c] = peer[e]
    BY <1>1, HeldByOneProcess
  <2>2. ASSUME ownership.kind = "duplex"
        PROVE  Cardinality({c \in Connections : held[c] # NoSession}) = 1
    <3>1. PICK d \in Directions : ownership.id[d] # NoSession
      BY <1>1, <2>2 DEF IInv, Owners, GroupOwns
    <3>2. PICK c \in Connections : held[c] # NoSession
      BY <1>1, <3>1 DEF IInv, Owners, SessionsAreOwned
    <3>3. {e \in Connections : held[e] # NoSession} = {c}
      BY <1>1, <2>2, <3>2, HeldByOneProcess
    <3> QED
      BY <3>3, FS_Singleton
  <2> QED
    BY <2>1, <2>2 DEF OneProcessOwnsPro
<1> QED
  BY <1>1, Inductive, PTL

(* While no operation runs, exactly the sessions that connections hold own *)
(* their streams and the device, and every request bit is of a session in  *)
(* use that asked for it (SessionGuard, DaemonState::stop, close).         *)
THEOREM Agreement == Spec => []OwnersAndRequestsAgree
<1>1. ASSUME IInv, ~Locked
      PROVE  /\ owner = ownership.id
             /\ {owner[d] : d \in Directions} \ {NoSession} = {held[c] : c \in Connections} \ {NoSession}
             /\ \A d \in Directions : active[d] \in {NoSession, owner[d]}
             /\ ownership.kind = "none" <=> ownership = NoOwner
  <2>1. owner = ownership.id
    BY <1>1 DEF IInv, Owners, OwnersDiffer, Locked
  <2>2. {owner[d] : d \in Directions} \ {NoSession} = {held[c] : c \in Connections} \ {NoSession}
    BY <1>1, <2>1 DEF IInv, Owners, SessionsAreOwned
  <2>3. ownership.kind = "none" <=> ownership = NoOwner
    BY <1>1 DEF IInv, Owners, GroupOwns, NoOwner
  <2> QED
    BY <1>1, <2>1, <2>2, <2>3 DEF IInv, Owners, SessionsAreOwned
<1>2. ASSUME IInv, ~Locked, NEW d \in pairStart
      PROVE  active[d] # NoSession /\ d \in aligned
  BY <1>2 DEF IInv, Requests, RequestsStand, InUse, Locked
<1>3. IInv => OwnersAndRequestsAgree
  BY <1>1, <1>2 DEF OwnersAndRequestsAgree, OwnersAreHeld, NoStrayRequest, IInv
<1> QED
  BY <1>3, Inductive, PTL

(* A cycle that begins with both requests standing starts both sessions,   *)
(* unless one of them is stopped or the hardware recovers under it         *)
(* (DaemonCaptureBridge::activate_pair).                                   *)
THEOREM PairsStartTogether == Spec => []PairStartsTogether
<1>1. IInv => PairStartsTogether
  BY DEF IInv, Together, PairStartsTogether
<1> QED
  BY <1>1, Inductive, PTL

(* An aligned session is started by activate_pair and never by the         *)
(* publication of capture, and a request goes with its own session's       *)
(* start or stop (activate_pair, publish_pro_capture, stop, close).        *)
THEOREM RequestsServed == Spec => RequestsAreServed
<1>1. ASSUME IInv, Next, NEW d \in aligned, Activates(endpoint[d])
      PROVE  pc = "pair"
  <2>1. d \in Directions /\ endpoint[d] \in Ids
    BY <1>1 DEF IInv, TypeOK, OwnerTypes, LifeTypes
  <2>2. PICK e \in Directions : /\ StartOne(e) \/ (PublishOne(e) /\ MayEstablish(e))
                               /\ endpoint[d] = seen[e].endpoint
    BY <1>1, <2>1, StartStates DEF IInv, Activates
  <2>3. CASE StartOne(e)
    BY <2>3 DEF StartOne, Considered
  <2>4. CASE PublishOne(e) /\ MayEstablish(e)
    <3>1. SeenLive(e) /\ e \in pinned /\ pc = "publish one"
      BY <2>4 DEF PublishOne, MayEstablish, SeenLive
    <3>2. endpoint[e] = endpoint[d] /\ endpoint[e] # NoSession
      BY <1>1, <2>2, <3>1, SeenStands DEF IInv, SeenLive
    <3>3. e = d
      BY <1>1, <2>1, <3>2 DEF IInv, Owners, SessionsAreDistinct
    <3>4. region[endpoint[d]].start = "ready"
      BY <1>1, <2>2, <3>1, <3>3 DEF IInv, Answers
    <3> QED
      BY <1>1, <3>4 DEF Activates
  <2> QED
    BY <2>2, <2>3, <2>4
<1>2. ASSUME IInv, Next, NEW d \in pairStart \ pairStart'
      PROVE  \/ region[endpoint[d]].start = "ready"
             \/ control.dir = d /\ control.op \in {"stopping", "release"}
  <2>1. CASE ClearRequests
    <3>1. d \in activated /\ d \in Directions
      BY <1>2, <2>1 DEF ClearRequests, IInv, TypeOK, LifeTypes
    <3>2. seen[d].active # NoSession /\ region[seen[d].active].start = "ready"
      BY <1>2, <3>1 DEF IInv, Answers, SeenLive
    <3> QED
      BY <1>2, <3>1, <3>2, SeenStands DEF IInv
  <2>2. CASE FinishStop \/ FinishClose
    BY <1>2, <2>2 DEF FinishStop, FinishClose, ForgetRequest
  <2>3. ASSUME NEW c \in Connections, NEW e \in Directions, RequestStep(c, e)
        PROVE  FALSE
    BY <1>2, <2>3, RequestCases DEF IInv, BeginOpen, BeginStart, BeginAlignedStart, BeginStop,
       BeginClose
  <2>4. CASE Create \/ FailToCreate \/ ResetRegion \/ Activate \/ Drain \/ Release \/ Recover
             \/ \E c \in Connections : Quiet(c)
    BY <1>2, <2>4 DEF Create, FailToCreate, ResetRegion, Activate, Drain, Release, Recover,
       Quiet
  <2>5. ASSUME CaptureStep, ~ClearRequests
        PROVE  FALSE
    BY <1>2, <2>5 DEF CaptureStep, BeginCycle, Load, Look, ReadMask, PassOver, WaitForPeer,
       StartOne, Considered, DropGuards, Unpin, BeginPublish, ReadActive, ReadBit, PublishOne,
       EndPublish
  <2> QED
    BY <1>2, <2>1, <2>2, <2>3, <2>4, <2>5 DEF Next, OperationStep
<1>3. IInv /\ [Next]_vars => [\A d \in aligned : Activates(endpoint[d]) => pc = "pair"]_vars
  BY <1>1
<1>4. IInv /\ [Next]_vars =>
        [\A d \in pairStart \ pairStart' :
           \/ region[endpoint[d]].start = "ready"
           \/ control.dir = d /\ control.op \in {"stopping", "release"}]_vars
  BY <1>2
<1>5. Spec => AlignedStartsInPair
  BY <1>3, Inductive, PTL DEF Spec, AlignedStartsInPair
<1>6. Spec => RequestsAreKept
  BY <1>4, Inductive, PTL DEF Spec, RequestsAreKept
<1> QED
  BY <1>5, <1>6 DEF RequestsAreServed
=============================================================================
