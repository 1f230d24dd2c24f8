------------------------------ MODULE ProPair ------------------------------
(***************************************************************************)
(* Who owns the PRO hardware, and how the two halves of a PRO pair start   *)
(* together: DaemonState of crates/sidealsa-daemon/src/state.rs.           *)
(*                                                                         *)
(* A process owns the device with one duplex session (open_pro), or with a *)
(* playback and a capture session opened under one token on separate       *)
(* control connections (open_pro_direction).  The two may ask for an       *)
(* aligned start: each START leaves a request bit in pro_pair_start, and   *)
(* DaemonCaptureBridge::activate_pair gives both their first cycle at      *)
(* once.  Every other START is activated by the publication of capture.    *)
(*                                                                         *)
(* Control threads run one operation at a time, under pro_ownership; the   *)
(* capture thread takes no lock.  Of the drains of STOP and CLOSE only the *)
(* guards of the capture thread matter here (SessionLifecycle has the      *)
(* others), and of a region only its activation and its client's state.    *)
(***************************************************************************)
EXTENDS Naturals, FiniteSets

CONSTANTS
  Connections,    \* control connections
  Processes,      \* peers, as SO_PEERCRED tells them apart
  Peers,          \* which processes may be at the other ends of the connections
  Tokens,         \* group tokens a client may present
  ZeroToken,      \* the token of no group
  None,
  MaxSessions,    \* bound on next_session, for TLC
  MaxStarts,      \* bound on lifecycle_generation, for TLC
  MaxGeneration,  \* bound on HardwareTimeline.generation, for TLC
  MaxEvents       \* bound on the STARTs and recoveries together, for TLC

Directions == {"playback", "capture"}

ASSUME PairAssumption ==
  /\ MaxSessions \in Nat /\ MaxGeneration \in Nat /\ MaxEvents \in Nat
  /\ MaxStarts \in [Directions -> Nat]
  /\ Peers \subseteq [Connections -> Processes]
  /\ ZeroToken \in Tokens
  /\ None \notin Connections \union (Processes \X Tokens)

Other(d) == IF d = "playback" THEN "capture" ELSE "playback"

NoSession == 0
Closing == MaxSessions + 1                  \* SESSION_CLOSING
Sessions == 1..MaxSessions
Ids == {NoSession} \union Sessions
Groups == Processes \X Tokens
Duplex == None                              \* the group of an open_pro

VARIABLES
  peer,       \* the process at the other end of each connection, fixed by Init
  ownership,  \* pro_ownership: its kind, the group, and a session per direction
  nextSession,
  owner,      \* SessionState.owner of `pro` and `pro_capture`
  active,     \* SessionState.active
  endpoint,   \* session_id of the published SessionEndpoint
  life,       \* SessionState.lifecycle_generation
  lifeOn,     \* SessionState.lifecycle_hardware_generation
  hardware,   \* HardwareTimeline.generation
  region,     \* per session: activation_state, client_state, and whether the
              \* layout has capture channels
  pairStart,  \* pro_pair_start, as the set of directions whose bit is set
  held,       \* SessionGuard.id of each control connection
  control,    \* the operation that holds pro_ownership
  pc, todo,   \* where the capture thread is; directions left in its phase
  pinned,     \* directions whose endpoint guard it holds
  seen,       \* what it found behind those guards
  runs,       \* the hardware generation it read
  mask,       \* pro_pair_start as activate_pair read it
  activated,  \* directions activate_pair started
  pairWait,   \* DaemonCaptureBridge.pair_wait: session and lifecycle, or None
  bothAsked,  \* history: both requests stood when the cycle began
  aligned     \* history: directions whose lifecycle asked for an aligned start

controlVars == <<peer, ownership, nextSession, owner, active, life, lifeOn, held, control, aligned>>
cycleVars == <<pc, todo, pinned, seen, runs, mask, activated, pairWait>>
vars == <<controlVars, cycleVars, endpoint, hardware, region, pairStart, bothAsked>>

NoOwner == [kind |-> "none", group |-> None, id |-> [d \in Directions |-> NoSession]]
NoControl == [op |-> "none", conn |-> None, dir |-> "playback", id |-> NoSession,
              group |-> Duplex, on |-> 0, waits |-> FALSE]
Unseen == [d \in Directions |-> [endpoint |-> NoSession, active |-> NoSession, current |-> FALSE]]

Init ==
  /\ peer \in Peers
  /\ ownership = NoOwner /\ nextSession = 1 /\ hardware = 0
  /\ owner = [d \in Directions |-> NoSession]
  /\ active = [d \in Directions |-> NoSession]
  /\ endpoint = [d \in Directions |-> NoSession]
  /\ life = [d \in Directions |-> 0]
  /\ lifeOn = [d \in Directions |-> 0]
  /\ region = [s \in Ids |-> [start |-> "ready", client |-> "idle", duplex |-> FALSE]]
  /\ pairStart = {} /\ aligned = {} /\ bothAsked = FALSE
  /\ held = [c \in Connections |-> NoSession]
  /\ control = NoControl
  /\ pc = "idle" /\ todo = {} /\ pinned = {} /\ seen = Unseen /\ runs = 0
  /\ mask = {} /\ activated = {} /\ pairWait = [d \in Directions |-> None]

-----------------------------------------------------------------------------
(* Control threads: the handlers of control.rs and DaemonState.            *)

Locked == control.op # "none"
Unlock == control' = NoControl
Continue(op) == control' = [control EXCEPT !.op = op]

(* Mutant of MayOpen: a group is told by its token alone.                  *)
MayOpenByToken(d, group) ==
  IF group = Duplex
  THEN ownership.kind = "none" /\ d = "playback"
  ELSE /\ group[2] # ZeroToken
       /\ \/ ownership.kind = "none"
          \/ /\ ownership.kind = "split"
             /\ ownership.group[2] = group[2]
             /\ ownership.id[d] = NoSession

(* Which requests to open pro_ownership admits.                            *)
MayOpen(d, group) ==
  IF group = Duplex
  THEN ownership.kind = "none" /\ d = "playback"
  ELSE /\ group[2] # ZeroToken
       /\ \/ ownership.kind = "none"
          \/ /\ ownership.kind = "split"
             /\ ownership.group = group
             /\ ownership.id[d] = NoSession

(* A connection that holds no session opens one: the compare-exchange of   *)
(* try_open_layout.  A refusal changes nothing but next_session.           *)
BeginOpen(c, d, group) ==
  /\ ~Locked /\ held[c] = NoSession /\ nextSession \in Sessions
  /\ MayOpen(d, group)
  /\ owner[d] = NoSession
  /\ owner' = [owner EXCEPT ![d] = nextSession]
  /\ nextSession' = nextSession + 1
  /\ control' = [NoControl EXCEPT !.op = "create", !.conn = c, !.dir = d,
                                  !.id = nextSession, !.group = group]
  /\ UNCHANGED <<peer, ownership, active, life, lifeOn, held, aligned, cycleVars,
                 endpoint, hardware, region, pairStart, bothAsked>>

(* SessionEndpoint::create succeeds, and the session is published, ...     *)
Create ==
  /\ control.op = "create"
  /\ endpoint' = [endpoint EXCEPT ![control.dir] = control.id]
  /\ region' = [region EXCEPT ![control.id].duplex = (control.group = Duplex)]
  /\ ownership' = [kind  |-> IF control.group = Duplex THEN "duplex" ELSE "split",
                   group |-> control.group,
                   id    |-> [ownership.id EXCEPT ![control.dir] = control.id]]
  /\ held' = [held EXCEPT ![control.conn] = control.id]
  /\ Unlock
  /\ UNCHANGED <<peer, nextSession, owner, active, life, lifeOn, aligned, cycleVars,
                 hardware, pairStart, bothAsked>>

(* ... or it fails, and the stream is free again.                          *)
FailToCreate ==
  /\ control.op = "create"
  /\ owner' = [owner EXCEPT ![control.dir] = NoSession]
  /\ Unlock
  /\ UNCHANGED <<peer, ownership, nextSession, active, life, lifeOn, held, aligned, cycleVars,
                 endpoint, hardware, region, pairStart, bothAsked>>

(* A connection takes the lock for an operation on its own session.        *)
Lock(c, d, op) ==
  /\ ~Locked /\ held[c] # NoSession /\ owner[d] = held[c]
  /\ control' = [NoControl EXCEPT !.op = op, !.conn = c, !.dir = d, !.id = held[c],
                                  !.on = hardware]

(* Not in the code: what TLC's bound counts.                               *)
Events == life["playback"] + life["capture"] + hardware

(* START: SessionState::start has the region ready for the new lifecycle   *)
(* before it sets `active`, where the hardware threads see it.             *)
MayStart(d) == active[d] = NoSession /\ life[d] < MaxStarts[d] /\ Events < MaxEvents

BeginStart(c, d) ==
  /\ MayStart(d)
  /\ Lock(c, d, "start")
  /\ aligned' = aligned \ {d}
  /\ UNCHANGED <<peer, ownership, nextSession, owner, active, life, lifeOn, held, cycleVars,
                 endpoint, hardware, region, pairStart, bothAsked>>

(* START_PRO_ALIGNED sets its request bit first.                           *)
BeginAlignedStart(c, d) ==
  /\ MayStart(d)
  /\ ownership.kind = "split" /\ ownership.id[d] = held[c]
  /\ Lock(c, d, "start")
  /\ pairStart' = pairStart \union {d}
  /\ aligned' = aligned \union {d}
  /\ UNCHANGED <<peer, ownership, nextSession, owner, active, life, lifeOn, held, cycleVars,
                 endpoint, hardware, region, bothAsked>>

ResetRegion ==
  /\ control.op = "start"
  /\ region' = [region EXCEPT ![control.id].start = "pending",
                              ![control.id].client = "starting"]
  /\ life' = [life EXCEPT ![control.dir] = @ + 1]
  /\ lifeOn' = [lifeOn EXCEPT ![control.dir] = control.on]
  /\ Continue("activate")
  /\ UNCHANGED <<peer, ownership, nextSession, owner, active, held, aligned, cycleVars,
                 endpoint, hardware, pairStart, bothAsked>>

Activate ==
  /\ control.op = "activate"
  /\ active' = [active EXCEPT ![control.dir] = control.id]
  /\ Unlock
  /\ UNCHANGED <<peer, ownership, nextSession, owner, life, lifeOn, held, aligned, cycleVars,
                 endpoint, hardware, region, pairStart, bothAsked>>

(* STOP and CLOSE clear `active`.  CLOSE is also what a connection that    *)
(* ends runs, from the drop of its SessionGuard.                           *)
BeginStop(c, d) ==
  /\ active[d] = held[c]
  /\ Lock(c, d, "stop")
  /\ active' = [active EXCEPT ![d] = NoSession]
  /\ bothAsked' = FALSE
  /\ UNCHANGED <<peer, ownership, nextSession, owner, life, lifeOn, held, aligned, cycleVars,
                 endpoint, hardware, region, pairStart>>

BeginClose(c, d) ==
  /\ Lock(c, d, "close")
  /\ owner' = [owner EXCEPT ![d] = Closing]
  /\ active' = [active EXCEPT ![d] = IF @ = held[c] THEN NoSession ELSE @]
  /\ bothAsked' = FALSE
  /\ UNCHANGED <<peer, ownership, nextSession, life, lifeOn, held, aligned, cycleVars,
                 endpoint, hardware, region, pairStart>>

(* wait_for_rt_idle: a guard that stands now has to go, ...                *)
Drain ==
  /\ control.op \in {"stop", "close"}
  /\ control' = [control EXCEPT !.op = IF @ = "stop" THEN "stopping" ELSE "closing",
                                !.waits = control.dir \in pinned]
  /\ UNCHANGED <<peer, ownership, nextSession, owner, active, life, lifeOn, held, aligned, cycleVars,
                 endpoint, hardware, region, pairStart, bothAsked>>

ResetSlots == region' = [region EXCEPT ![control.id].client = "idle"]
(* Mutant of ForgetRequest: the bit is left to activate_pair.              *)
ForgetNothing == UNCHANGED pairStart
ForgetRequest == pairStart' = pairStart \ {control.dir}

(* ... and only then is the request forgotten.                             *)
FinishStop ==
  /\ control.op = "stopping" /\ ~control.waits
  /\ ResetSlots
  /\ ForgetRequest
  /\ Unlock
  /\ UNCHANGED <<peer, ownership, nextSession, owner, active, life, lifeOn, held, aligned, cycleVars,
                 endpoint, hardware, bothAsked>>

Release ==
  /\ control.op = "closing" /\ ~control.waits
  /\ ResetSlots
  /\ owner' = [owner EXCEPT ![control.dir] = NoSession]
  /\ Continue("release")
  /\ UNCHANGED <<peer, ownership, nextSession, active, life, lifeOn, held, aligned, cycleVars,
                 endpoint, hardware, pairStart, bothAsked>>

(* The last of a group to close frees the device.                          *)
Disown(d) ==
  LET left == [ownership.id EXCEPT ![d] = NoSession]
  IN IF \A e \in Directions : left[e] = NoSession
     THEN NoOwner ELSE [ownership EXCEPT !.id = left]

FinishClose ==
  /\ control.op = "release"
  /\ ownership' = Disown(control.dir)
  /\ ForgetRequest
  /\ held' = [held EXCEPT ![control.conn] = NoSession]
  /\ Unlock
  /\ UNCHANGED <<peer, nextSession, owner, active, life, lifeOn, aligned, cycleVars,
                 endpoint, hardware, region, bothAsked>>

-----------------------------------------------------------------------------
(* The capture thread: process_capture, process_capture_for_playback.      *)

(* Playback is visited before capture.                                     *)
First(ds) == IF "playback" \in ds THEN "playback" ELSE "capture"
Asked(d) == d \in pairStart /\ active[d] # NoSession /\ lifeOn[d] = hardware

(* activate_pair returns at once when nobody asks, ...                     *)
BeginCycle ==
  /\ pc = "idle"
  /\ bothAsked' = \A d \in Directions : Asked(d)
  /\ todo' = Directions
  /\ pc' = IF pairStart = {} THEN "publish" ELSE "load"
  /\ UNCHANGED <<controlVars, pinned, seen, runs, mask, activated, pairWait,
                 endpoint, hardware, region, pairStart>>

(* Mutant of Load: the endpoint is read without a guard.                   *)
LoadUnpinned(d) ==
  /\ pc = "load" /\ d = First(todo)
  /\ seen' = [seen EXCEPT ![d].endpoint = endpoint[d]]
  /\ todo' = IF todo = {d} THEN Directions ELSE todo \ {d}
  /\ pc' = IF todo = {d} THEN "look" ELSE "load"
  /\ runs' = IF todo = {d} THEN hardware ELSE runs
  /\ UNCHANGED <<controlVars, pinned, mask, activated, pairWait,
                 endpoint, hardware, region, pairStart, bothAsked>>

(* ... and otherwise holds both guards while it looks at both sessions.    *)
Load(d) ==
  /\ pc = "load" /\ d = First(todo)
  /\ pinned' = pinned \union {d}
  /\ seen' = [seen EXCEPT ![d].endpoint = endpoint[d]]
  /\ todo' = IF todo = {d} THEN Directions ELSE todo \ {d}
  /\ pc' = IF todo = {d} THEN "look" ELSE "load"
  /\ runs' = IF todo = {d} THEN hardware ELSE runs
  /\ UNCHANGED <<controlVars, mask, activated, pairWait,
                 endpoint, hardware, region, pairStart, bothAsked>>

Look(d) ==
  /\ pc = "look" /\ d = First(todo)
  /\ seen' = [seen EXCEPT ![d].active = active[d], ![d].current = (lifeOn[d] = runs)]
  /\ todo' = todo \ {d}
  /\ pc' = IF todo = {d} THEN "mask" ELSE "look"
  /\ UNCHANGED <<controlVars, pinned, runs, mask, activated, pairWait,
                 endpoint, hardware, region, pairStart, bothAsked>>

ReadMask ==
  /\ pc = "mask"
  /\ mask' = pairStart
  /\ todo' = Directions
  /\ pc' = "pair"
  /\ UNCHANGED <<controlVars, pinned, seen, runs, activated, pairWait,
                 endpoint, hardware, region, pairStart, bothAsked>>

(* Mutant: a direction starts with its peer or not at all.                 *)
EligibleInPairs(d) ==
  /\ mask = Directions
  /\ seen[d].active # NoSession
  /\ seen[d].active = seen[d].endpoint
  /\ seen[d].current

Eligible(d) ==
  /\ d \in mask
  /\ seen[d].active # NoSession
  /\ seen[d].active = seen[d].endpoint
  /\ seen[d].current

(* A request whose peer is open but has not started waits for one cycle.   *)
WaitsForPeer(d) ==
  LET e == Other(d) IN
  /\ ~Eligible(e) /\ seen[e].active = NoSession
  /\ owner[e] \notin {NoSession, Closing}
  /\ pairWait[d] # <<seen[d].active, life[d]>>

(* SharedRegion::establish_activation: the first caller of a lifecycle     *)
(* gives it its start sequence.  A capture session runs from there on.     *)
Establish(d) ==
  LET s == seen[d].endpoint IN
  region' = [region EXCEPT ![s].start = "ready",
                           ![s].client = IF d = "capture" THEN "running" ELSE @]

Considered(d) ==
  /\ pc = "pair" /\ d = First(todo)
  /\ todo' = todo \ {d}
  /\ pc' = IF todo = {d} THEN "clear" ELSE "pair"
  /\ UNCHANGED <<controlVars, pinned, seen, runs, mask,
                 endpoint, hardware, pairStart, bothAsked>>

PassOver(d) ==
  /\ Considered(d) /\ ~Eligible(d)
  /\ pairWait' = [pairWait EXCEPT ![d] = IF d \in mask THEN @ ELSE None]
  /\ UNCHANGED <<activated, region>>

WaitForPeer(d) ==
  /\ Considered(d) /\ Eligible(d) /\ WaitsForPeer(d)
  /\ pairWait' = [pairWait EXCEPT ![d] = <<seen[d].active, life[d]>>]
  /\ UNCHANGED <<activated, region>>

(* Mutant of StartOne: the directions started are assigned, not added.     *)
StartOneOnly(d) ==
  /\ Considered(d) /\ Eligible(d) /\ ~WaitsForPeer(d)
  /\ Establish(d)
  /\ pairWait' = [pairWait EXCEPT ![d] = None]
  /\ activated' = {d}

StartOne(d) ==
  /\ Considered(d) /\ Eligible(d) /\ ~WaitsForPeer(d)
  /\ Establish(d)
  /\ pairWait' = [pairWait EXCEPT ![d] = None]
  /\ activated' = activated \union {d}

ClearRequests ==
  /\ pc = "clear"
  /\ pairStart' = pairStart \ activated
  /\ pc' = "unpin"
  /\ UNCHANGED <<controlVars, todo, pinned, seen, runs, mask, activated, pairWait,
                 endpoint, hardware, region, bothAsked>>

(* Guards are dropped: who drains them need not wait any longer.  The      *)
(* thread's locals end here.                                               *)
Unpin ==
  /\ pinned' = {}
  /\ control' = [control EXCEPT !.waits = @ /\ control.dir \notin pinned]
  /\ seen' = Unseen /\ runs' = 0 /\ mask' = {} /\ activated' = {} /\ bothAsked' = FALSE
  /\ UNCHANGED <<peer, ownership, nextSession, owner, active, life, lifeOn, held, aligned,
                 pairWait, endpoint, hardware, region, pairStart>>

DropGuards ==
  /\ pc = "unpin"
  /\ Unpin
  /\ todo' = Directions \ activated
  /\ pc' = IF activated = Directions THEN "idle" ELSE "publish"

(* publish_pro_capture and publish_directional_capture, in the order of    *)
(* either caller, for the directions activate_pair did not start.          *)
BeginPublish(d) ==
  /\ pc = "publish" /\ d \in todo
  /\ pinned' = {d}
  /\ seen' = [seen EXCEPT ![d].endpoint = endpoint[d]]
  /\ pc' = "active"
  /\ UNCHANGED <<controlVars, todo, runs, mask, activated, pairWait,
                 endpoint, hardware, region, pairStart, bothAsked>>

ReadActive(d) ==
  /\ pc = "active" /\ d \in pinned
  /\ seen' = [seen EXCEPT ![d].active = active[d]]
  /\ pc' = "bit"
  /\ UNCHANGED <<controlVars, todo, pinned, runs, mask, activated, pairWait,
                 endpoint, hardware, region, pairStart, bothAsked>>

(* The bit is read after `active`: who sees an aligned session sees its bit *)
(* too, or that activate_pair has answered it.                             *)
ReadBit(d) ==
  /\ pc = "bit" /\ d \in pinned
  /\ pc' = IF d \in pairStart THEN "leave" ELSE "publish one"
  /\ UNCHANGED <<controlVars, todo, pinned, seen, runs, mask, activated, pairWait,
                 endpoint, hardware, region, pairStart, bothAsked>>

(* A duplex session takes its first cycle whatever its client says.        *)
MayEstablish(d) ==
  LET s == seen[d].endpoint IN
  /\ seen[d].active = s /\ s # NoSession
  /\ \/ region[s].duplex
     \/ region[s].client # "idle" /\ lifeOn[d] = hardware

PublishOne(d) ==
  /\ pc = "publish one" /\ d \in pinned
  /\ IF MayEstablish(d) /\ region[seen[d].endpoint].start = "pending"
     THEN Establish(d) ELSE UNCHANGED region
  /\ pc' = "leave"
  /\ UNCHANGED <<controlVars, todo, pinned, seen, runs, mask, activated, pairWait,
                 endpoint, hardware, pairStart, bothAsked>>

EndPublish(d) ==
  /\ pc = "leave" /\ d \in pinned
  /\ Unpin
  /\ todo' = todo \ {d}
  /\ pc' = IF todo = {d} THEN "idle" ELSE "publish"

-----------------------------------------------------------------------------
(* A client marks its region idle before it asks for STOP or CLOSE.        *)
Quiet(c) ==
  /\ held[c] # NoSession
  /\ region[held[c]].client # "idle"
  /\ region' = [region EXCEPT ![held[c]].client = "idle"]
  /\ UNCHANGED <<controlVars, cycleVars, endpoint, hardware, pairStart, bothAsked>>

(* A recovery puts the hardware into a new generation.                     *)
Recover ==
  /\ hardware < MaxGeneration /\ Events < MaxEvents
  /\ hardware' = hardware + 1
  /\ bothAsked' = FALSE
  /\ UNCHANGED <<controlVars, cycleVars, endpoint, region, pairStart>>

RequestStep(c, d) ==
  \/ \E t \in Tokens : BeginOpen(c, d, <<peer[c], t>>)
  \/ BeginOpen(c, d, Duplex)
  \/ BeginStart(c, d) \/ BeginAlignedStart(c, d)
  \/ BeginStop(c, d) \/ BeginClose(c, d)

OperationStep ==
  \/ Create \/ FailToCreate
  \/ ResetRegion \/ Activate
  \/ Drain \/ FinishStop \/ Release \/ FinishClose

CaptureStep ==
  \/ BeginCycle \/ ReadMask \/ ClearRequests \/ DropGuards
  \/ \E d \in Directions :
       \/ Load(d) \/ Look(d)
       \/ PassOver(d) \/ WaitForPeer(d) \/ StartOne(d)
       \/ BeginPublish(d) \/ ReadActive(d) \/ ReadBit(d) \/ PublishOne(d) \/ EndPublish(d)

Next ==
  \/ \E c \in Connections, d \in Directions : RequestStep(c, d)
  \/ OperationStep
  \/ CaptureStep
  \/ \E c \in Connections : Quiet(c)
  \/ Recover

Spec == Init /\ [][Next]_vars

(* The hardware keeps cycling, and an operation runs to its end.           *)
FairSpec == Spec /\ WF_vars(CaptureStep) /\ WF_vars(OperationStep)

-----------------------------------------------------------------------------
OwnerTypes ==
  /\ peer \in Peers
  /\ ownership \in [kind : {"none", "duplex", "split"}, group : Groups \union {None},
                    id : [Directions -> Ids]]
  /\ nextSession \in 1..(MaxSessions + 1)
  /\ owner \in [Directions -> Ids \union {Closing}]
  /\ active \in [Directions -> Ids]
  /\ endpoint \in [Directions -> Ids]
  /\ held \in [Connections -> Ids]
  /\ control \in [op : {"none", "create", "start", "activate", "stop", "stopping",
                        "close", "closing", "release"},
                  conn : Connections \union {None}, dir : Directions, id : Ids,
                  group : Groups \union {None}, on : 0..MaxGeneration, waits : BOOLEAN]
Regions == [start : {"pending", "ready"}, client : {"idle", "starting", "running"}, duplex : BOOLEAN]
LifeTypes ==
  /\ \A d \in Directions : life[d] \in 0..MaxStarts[d]
  /\ life = [d \in Directions |-> life[d]]
  /\ lifeOn \in [Directions -> 0..MaxGeneration]
  /\ hardware \in 0..MaxGeneration
  /\ region \in [Ids -> Regions]
  /\ pairStart \subseteq Directions /\ aligned \subseteq Directions
CycleTypes ==
  /\ pc \in {"idle", "load", "look", "mask", "pair", "clear", "unpin",
             "publish", "active", "bit", "publish one", "leave"}
  /\ todo \subseteq Directions /\ pinned \subseteq Directions
  /\ seen \in [Directions -> [endpoint : Ids, active : Ids, current : BOOLEAN]]
  /\ runs \in 0..MaxGeneration
  /\ mask \subseteq Directions /\ activated \subseteq Directions
  /\ pairWait \in [Directions -> (Ids \X Nat) \union {None}]
  /\ bothAsked \in BOOLEAN
TypeOK == OwnerTypes /\ LifeTypes /\ CycleTypes

(* The device is owned by one process: by one duplex session, or by the    *)
(* sessions of one group, one per direction (DaemonState::open_pro,        *)
(* open_pro_direction, close).                                             *)
OneProcessOwnsPro ==
  /\ \A c, e \in Connections :
       held[c] # NoSession /\ held[e] # NoSession => peer[c] = peer[e]
  /\ ownership.kind = "duplex" =>
       Cardinality({c \in Connections : held[c] # NoSession}) = 1

(* While no operation runs, exactly the sessions some connection holds own *)
(* their streams and the device: none is lost, and none outlives its       *)
(* connection (SessionGuard, DaemonState::close).                          *)
OwnersAreHeld ==
  ~Locked =>
    /\ owner = ownership.id
    /\ {owner[d] : d \in Directions} \ {NoSession} =
       {held[c] : c \in Connections} \ {NoSession}
    /\ \A d \in Directions : active[d] \in {NoSession, owner[d]}
    /\ ownership.kind = "none" <=> ownership = NoOwner

(* When both requests stood as the cycle began, and neither session was    *)
(* stopped since, the cycle starts both or neither (activate_pair).        *)
PairStartsTogether ==
  pc = "clear" /\ bothAsked => activated = Directions

(* No request bit is left behind for a later session of the direction      *)
(* (DaemonState::stop, close).                                             *)
NoStrayRequest ==
  ~Locked => \A d \in pairStart : active[d] # NoSession /\ d \in aligned

(* A session that asked for an aligned start is started by activate_pair   *)
(* and never by the publication of capture, even in the cycle that was     *)
(* under way when it asked (publish_pro_capture's comment).                *)
Activates(s) == region[s].start = "pending" /\ region'[s].start = "ready"
AlignedStartsInPair ==
  [][\A d \in aligned : Activates(endpoint[d]) => pc = "pair"]_vars

(* "this activation cannot clear a request belonging to a replacement      *)
(* session" (activate_pair): a bit goes when its own session was started,  *)
(* or while that session is stopped.                                       *)
RequestsAreKept ==
  [][\A d \in pairStart \ pairStart' :
       \/ region[endpoint[d]].start = "ready"
       \/ control.dir = d /\ control.op \in {"stopping", "release"}]_vars

(* An aligned request is answered: its session is started, with or without *)
(* its peer, unless it is stopped or the hardware recovers first.          *)
RequestsAreAnswered ==
  \A d \in Directions : Asked(d) ~> (region[endpoint[d]].start = "ready" \/ ~Asked(d))
=============================================================================
