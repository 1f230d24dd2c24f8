---------------------------- MODULE GracePeriod ----------------------------
(***************************************************************************)
(* What the daemon's EndpointSlot (crates/sidealsa-daemon/src/state.rs)    *)
(* promises, stated without epochs or counters: a read-copy-update cell.   *)
(*                                                                         *)
(* A reader enters the cell, dereferences the current endpoint and leaves. *)
(* A writer publishes another endpoint at any time, waits for a grace      *)
(* period, and frees an endpoint that is no longer published only when     *)
(* everybody who was inside when the grace period began has left.  A       *)
(* reader that enters later is never waited for.                           *)
(*                                                                         *)
(* EndpointSlot implements this module; SessionLifecycle builds on it.     *)
(***************************************************************************)
CONSTANTS
  Readers,    \* threads that take EndpointGuards
  Endpoints,  \* addresses SessionEndpoints are boxed at
  None        \* no endpoint

VARIABLES
  current,    \* the published endpoint
  live,       \* endpoints that are allocated
  inside,     \* readers that hold a guard
  seen,       \* the endpoint each reader dereferences, None when it has none
  draining,   \* whether a writer waits for a grace period
  waitingFor  \* the readers it still waits for

vars == <<current, live, inside, seen, draining, waitingFor>>

Init ==
  /\ current \in Endpoints
  /\ live = {current}
  /\ inside = {}
  /\ seen = [r \in Readers |-> None]
  /\ draining = FALSE
  /\ waitingFor = {}

Enter(r) ==
  /\ r \notin inside
  /\ inside' = inside \union {r}
  /\ UNCHANGED <<current, live, seen, draining, waitingFor>>

Dereference(r) ==
  /\ r \in inside
  /\ seen[r] = None
  /\ seen' = [seen EXCEPT ![r] = current]
  /\ UNCHANGED <<current, live, inside, draining, waitingFor>>

Leave(r) ==
  /\ r \in inside
  /\ inside' = inside \ {r}
  /\ seen' = [seen EXCEPT ![r] = None]
  /\ waitingFor' = waitingFor \ {r}
  /\ UNCHANGED <<current, live, draining>>

Allocate(e) ==
  /\ e \in Endpoints \ live
  /\ live' = live \union {e}
  /\ UNCHANGED <<current, inside, seen, draining, waitingFor>>

Publish(e) ==
  /\ e \in live \ {current}
  /\ current' = e
  /\ UNCHANGED <<live, inside, seen, draining, waitingFor>>

BeginDrain ==
  /\ ~draining
  /\ draining' = TRUE
  /\ waitingFor' = inside
  /\ UNCHANGED <<current, live, inside, seen>>

EndDrain ==
  /\ draining
  /\ waitingFor = {}
  /\ draining' = FALSE
  /\ UNCHANGED <<current, live, inside, seen, waitingFor>>

(* Freeing needs a proof that nobody can still hold the endpoint.          *)
Free(e) ==
  /\ e \in live \ {current}
  /\ \A r \in Readers : seen[r] # e
  /\ live' = live \ {e}
  /\ UNCHANGED <<current, inside, seen, draining, waitingFor>>

Next ==
  \/ \E r \in Readers : Enter(r) \/ Dereference(r) \/ Leave(r)
  \/ \E e \in Endpoints : Allocate(e) \/ Publish(e) \/ Free(e)
  \/ BeginDrain
  \/ EndDrain

Spec == Init /\ [][Next]_vars
=============================================================================
