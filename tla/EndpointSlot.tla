---------------------------- MODULE EndpointSlot ----------------------------
(***************************************************************************)
(* The epoch-based reclamation of session endpoints:                       *)
(* crates/sidealsa-daemon/src/state.rs, EndpointSlot, RtActivity and the   *)
(* callers that serialise its writers (SessionState::try_open_layout, stop *)
(* and close).                                                             *)
(*                                                                         *)
(* The audio threads read the current endpoint without a lock.  They count *)
(* themselves in one of two activity counters, chosen by the parity of the *)
(* epoch they read first, and read the epoch again before they use it.  A  *)
(* writer swaps the pointer, advances the epoch and spins until the        *)
(* counter of the retired parity is zero; only then it frees the endpoint  *)
(* it swapped out.  Nothing makes the reader's three reads atomic.         *)
(*                                                                         *)
(* Every atomic access of the code is one step here; they are all SeqCst.  *)
(***************************************************************************)
EXTENDS Naturals, FiniteSets

CONSTANTS
  Sessions,      \* connections that open, stop and close a session
  RtReaders,     \* threads that only call load()
  DiagReaders,   \* threads in playback_diagnostics: mutex first, then load()
  Endpoints,     \* addresses a SessionEndpoint may be boxed at
  EpochModulus,  \* reader_epoch wraps here: 2^64 in the code
  None           \* no session, reader or endpoint

Readers == RtReaders \union DiagReaders

ASSUME SlotAssumption ==
  /\ IsFiniteSet(RtReaders)
  /\ IsFiniteSet(DiagReaders)
  /\ RtReaders \intersect DiagReaders = {}
  /\ Sessions \intersect DiagReaders = {}
  /\ None \notin Sessions \union RtReaders \union DiagReaders \union Endpoints
  /\ EpochModulus \in Nat \ {0}
  /\ EpochModulus % 2 = 0

VARIABLES
  current,     \* EndpointSlot.current
  live,        \* allocated endpoints (Box::into_raw not yet Box::from_raw)
  epoch,       \* EndpointSlot.reader_epoch
  activity,    \* EndpointSlot.reader_activity
  mutex,       \* holder of EndpointSlot.retired_client_playback
  owner,       \* SessionState.owner; a closing owner stays the owner here
  pc,          \* where each session's connection thread is
  box,         \* the endpoint a session thread owns: created, or swapped out
  target,      \* the epoch wait_for_idle retires
  rpc,         \* where each reader is
  rEpoch,      \* the epoch the reader loaded
  seen         \* the endpoint the reader dereferences

vars == <<current, live, epoch, activity, mutex, owner, pc, box, target,
          rpc, rEpoch, seen>>
writerVars == <<current, live, epoch, owner, pc, box, target>>
readerVars == <<rpc, rEpoch, seen>>

Parity(e) == e % 2

(* AtomicU64::fetch_add wraps.                                             *)
NextEpoch(e) == IF e + 1 = EpochModulus THEN 0 ELSE e + 1

(* Where a reader is counted, and where it holds an EndpointGuard.         *)
Counted == {"entered", "stale", "checked", "holding"}
Guarded == {"checked", "holding"}

(* A session thread inside EndpointSlot::wait_for_idle after its fetch_add.*)
Spinning == {"replaceSpin", "stopSpin", "closeSpin"}

ReaderStates == {"idle", "locked", "loaded"} \union Counted
WriterStates ==
  {"closed", "creating", "created", "replaceLocked", "replaceFlip", "freeing",
   "open", "stopFlip", "closeFlip"} \union Spinning

Init ==
  /\ current \in Endpoints
  /\ live = {current}
  /\ epoch = 0
  /\ activity = [p \in 0..1 |-> 0]
  /\ mutex = None
  /\ owner = None
  /\ pc = [s \in Sessions |-> "closed"]
  /\ box = [s \in Sessions |-> None]
  /\ target = [s \in Sessions |-> 0]
  /\ rpc = [r \in Readers |-> "idle"]
  /\ rEpoch = [r \in Readers |-> 0]
  /\ seen = [r \in Readers |-> None]

-----------------------------------------------------------------------------
(* Readers: EndpointSlot::load and the drop of the guard.                  *)

(* playback_diagnostics locks the retired totals before it loads, in the   *)
(* order replace() uses.                                                   *)
DiagLock(r) ==
  /\ r \in DiagReaders
  /\ rpc[r] = "idle"
  /\ mutex = None
  /\ mutex' = r
  /\ rpc' = [rpc EXCEPT ![r] = "locked"]
  /\ UNCHANGED <<writerVars, activity, rEpoch, seen>>

LoadEpoch(r) ==
  /\ rpc[r] = IF r \in DiagReaders THEN "locked" ELSE "idle"
  /\ rpc' = [rpc EXCEPT ![r] = "loaded"]
  /\ rEpoch' = [rEpoch EXCEPT ![r] = epoch]
  /\ UNCHANGED <<writerVars, activity, mutex, seen>>

EnterActivity(r) ==
  /\ rpc[r] = "loaded"
  /\ rpc' = [rpc EXCEPT ![r] = "entered"]
  /\ activity' = [activity EXCEPT ![Parity(rEpoch[r])] = @ + 1]
  /\ UNCHANGED <<writerVars, mutex, rEpoch, seen>>

(* Mutant: the second epoch load is left out.                              *)
RecheckEpochMissing(r) ==
  /\ rpc[r] = "entered"
  /\ rpc' = [rpc EXCEPT ![r] = "checked"]
  /\ UNCHANGED <<writerVars, activity, mutex, rEpoch, seen>>

RecheckEpoch(r) ==
  /\ rpc[r] = "entered"
  /\ rpc' = [rpc EXCEPT ![r] = IF epoch = rEpoch[r] THEN "checked" ELSE "stale"]
  /\ UNCHANGED <<writerVars, activity, mutex, rEpoch, seen>>

(* Mutant: the retry keeps the reader counted.                             *)
DropStaleKeepsCount(r) ==
  /\ rpc[r] = "stale"
  /\ rpc' = [rpc EXCEPT ![r] = IF r \in DiagReaders THEN "locked" ELSE "idle"]
  /\ UNCHANGED <<writerVars, activity, mutex, rEpoch, seen>>

(* drop(activity); continue                                                *)
DropStale(r) ==
  /\ rpc[r] = "stale"
  /\ rpc' = [rpc EXCEPT ![r] = IF r \in DiagReaders THEN "locked" ELSE "idle"]
  /\ activity' = [activity EXCEPT ![Parity(rEpoch[r])] = @ - 1]
  /\ UNCHANGED <<writerVars, mutex, rEpoch, seen>>

LoadCurrent(r) ==
  /\ rpc[r] = "checked"
  /\ rpc' = [rpc EXCEPT ![r] = "holding"]
  /\ seen' = [seen EXCEPT ![r] = current]
  /\ UNCHANGED <<writerVars, activity, mutex, rEpoch>>

(* The guard drops, then playback_diagnostics' mutex guard.                *)
DropGuard(r) ==
  /\ rpc[r] = "holding"
  /\ rpc' = [rpc EXCEPT ![r] = "idle"]
  /\ activity' = [activity EXCEPT ![Parity(rEpoch[r])] = @ - 1]
  /\ seen' = [seen EXCEPT ![r] = None]
  /\ mutex' = IF mutex = r THEN None ELSE mutex
  /\ UNCHANGED <<writerVars, rEpoch>>

-----------------------------------------------------------------------------
(* Writers: the session threads, serialised by SessionState.owner.         *)

Goto(s, l) == pc' = [pc EXCEPT ![s] = l]

(* owner.compare_exchange(0, session_id)                                   *)
ClaimOwner(s) ==
  /\ pc[s] = "closed"
  /\ owner = None
  /\ owner' = s
  /\ Goto(s, "creating")
  /\ UNCHANGED <<current, live, epoch, activity, mutex, box, target, readerVars>>

(* SessionEndpoint::create, which may place the box at any free address.   *)
CreateEndpoint(s) ==
  /\ pc[s] = "creating"
  /\ \E e \in Endpoints \ live :
       /\ live' = live \union {e}
       /\ box' = [box EXCEPT ![s] = e]
  /\ Goto(s, "created")
  /\ UNCHANGED <<current, epoch, activity, mutex, owner, target, readerVars>>

CreateFails(s) ==
  /\ pc[s] = "creating"
  /\ owner' = None
  /\ Goto(s, "closed")
  /\ UNCHANGED <<current, live, epoch, activity, mutex, box, target, readerVars>>

ReplaceLock(s) ==
  /\ pc[s] = "created"
  /\ mutex = None
  /\ mutex' = s
  /\ Goto(s, "replaceLocked")
  /\ UNCHANGED <<current, live, epoch, activity, owner, box, target, readerVars>>

(* current.swap(replacement)                                               *)
SwapCurrent(s) ==
  /\ pc[s] = "replaceLocked"
  /\ current' = box[s]
  /\ box' = [box EXCEPT ![s] = current]
  /\ Goto(s, "replaceFlip")
  /\ UNCHANGED <<live, epoch, activity, mutex, owner, target, readerVars>>

(* wait_for_idle: reader_epoch.fetch_add(1)                                *)
RetireEpoch(s) ==
  /\ \/ pc[s] = "replaceFlip" /\ Goto(s, "replaceSpin")
     \/ pc[s] = "stopFlip" /\ Goto(s, "stopSpin")
     \/ pc[s] = "closeFlip" /\ Goto(s, "closeSpin")
  /\ target' = [target EXCEPT ![s] = epoch]
  /\ epoch' = NextEpoch(epoch)
  /\ UNCHANGED <<current, live, activity, mutex, owner, box, readerVars>>

(* Mutant: the spin looks at the counter readers now enter.                *)
SeeIdleOfNewEpoch(s) ==
  /\ activity[Parity(epoch)] = 0
  /\ \/ pc[s] = "replaceSpin" /\ Goto(s, "freeing") /\ UNCHANGED owner
     \/ pc[s] = "stopSpin" /\ Goto(s, "open") /\ UNCHANGED owner
     \/ pc[s] = "closeSpin" /\ Goto(s, "closed") /\ owner' = None
  /\ UNCHANGED <<current, live, epoch, activity, mutex, box, target, readerVars>>

(* wait_for_idle: the retired counter reads zero                           *)
SeeIdle(s) ==
  /\ activity[Parity(target[s])] = 0
  /\ \/ /\ pc[s] = "replaceSpin"
        /\ Goto(s, "freeing")
        /\ UNCHANGED owner
     \/ /\ pc[s] = "stopSpin"
        /\ Goto(s, "open")
        /\ UNCHANGED owner
     \/ /\ pc[s] = "closeSpin"
        /\ Goto(s, "closed")
        /\ owner' = None
  /\ UNCHANGED <<current, live, epoch, activity, mutex, box, target, readerVars>>

(* Box::from_raw(retired), whose drop and the mutex guard's end replace()  *)
FreeRetired(s) ==
  /\ pc[s] = "freeing"
  /\ live' = live \ {box[s]}
  /\ box' = [box EXCEPT ![s] = None]
  /\ mutex' = None
  /\ Goto(s, "open")
  /\ UNCHANGED <<current, epoch, activity, owner, target, readerVars>>

StopSession(s) ==
  /\ pc[s] = "open"
  /\ Goto(s, "stopFlip")
  /\ UNCHANGED <<current, live, epoch, activity, mutex, owner, box, target, readerVars>>

CloseSession(s) ==
  /\ pc[s] = "open"
  /\ Goto(s, "closeFlip")
  /\ UNCHANGED <<current, live, epoch, activity, mutex, owner, box, target, readerVars>>

ReaderStep(r) ==
  \/ DiagLock(r)
  \/ LoadEpoch(r)
  \/ EnterActivity(r)
  \/ RecheckEpoch(r)
  \/ DropStale(r)
  \/ LoadCurrent(r)
  \/ DropGuard(r)

WriterStep(s) ==
  \/ ClaimOwner(s)
  \/ CreateEndpoint(s)
  \/ CreateFails(s)
  \/ ReplaceLock(s)
  \/ SwapCurrent(s)
  \/ RetireEpoch(s)
  \/ SeeIdle(s)
  \/ FreeRetired(s)
  \/ StopSession(s)
  \/ CloseSession(s)

Next == (\E r \in Readers : ReaderStep(r)) \/ (\E s \in Sessions : WriterStep(s))

(* A guard lives for one bounded call on an audio thread or one STATS      *)
(* reply, so a reader that entered leaves; nobody has to enter.  A session *)
(* thread that began an operation runs it to the end.                      *)
Fairness ==
  /\ \A r \in Readers :
       WF_vars(EnterActivity(r) \/ RecheckEpoch(r) \/ DropStale(r)
                 \/ LoadCurrent(r) \/ DropGuard(r))
  /\ \A s \in Sessions :
       WF_vars(SwapCurrent(s) \/ RetireEpoch(s) \/ SeeIdle(s) \/ FreeRetired(s))

Spec == Init /\ [][Next]_vars
FairSpec == Spec /\ Fairness
-----------------------------------------------------------------------------
(* Properties                                                              *)

TypeOK ==
  /\ current \in Endpoints
  /\ live \subseteq Endpoints
  /\ epoch \in 0..(EpochModulus - 1)
  /\ activity \in [0..1 -> Nat]
  /\ mutex \in Sessions \union DiagReaders \union {None}
  /\ owner \in Sessions \union {None}
  /\ pc \in [Sessions -> WriterStates]
  /\ box \in [Sessions -> Endpoints \union {None}]
  /\ target \in [Sessions -> 0..(EpochModulus - 1)]
  /\ rpc \in [Readers -> ReaderStates]
  /\ rEpoch \in [Readers -> 0..(EpochModulus - 1)]
  /\ seen \in [Readers -> Endpoints \union {None}]

(* A guard never dereferences a freed endpoint, however the reader's three *)
(* loads interleave with replace() (the SAFETY comments of load, replace). *)
NoUseAfterFree ==
  /\ current \in live
  /\ \A r \in Readers : seen[r] # None => seen[r] \in live

(* Every endpoint ever boxed is the current one or in the hands of the one *)
(* session that replaces it (replace()); a part of the proved invariant.   *)
NoLeak == live = {current} \union ({box[s] : s \in Sessions} \ {None})

(* EndpointSlot is a read-copy-update cell: see GracePeriod.               *)
InsideReaders == {r \in Readers : rpc[r] \in Guarded}
Draining == \E s \in Sessions : pc[s] \in Spinning
WaitingFor ==
  {r \in InsideReaders : \E s \in Sessions :
     pc[s] \in Spinning /\ Parity(rEpoch[r]) = Parity(target[s])}

Cell == INSTANCE GracePeriod
          WITH inside <- InsideReaders, draining <- Draining, waitingFor <- WaitingFor
ImplementsGracePeriod == Cell!Spec

(* wait_for_idle ends although readers keep entering: they are counted in  *)
(* the other parity, and a reader with a stale epoch passes through the    *)
(* retired counter at most once.                                           *)
DrainEnds == \A s \in Sessions : pc[s] \in Spinning ~> pc[s] \notin Spinning
=============================================================================
