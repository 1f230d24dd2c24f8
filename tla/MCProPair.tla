----------------------------- MODULE MCProPair -----------------------------
(* ProPair with two connections, of one process or of two.                 *)
EXTENDS ProPair, TLC

CONSTANTS a, b, p, q
OneProcess == {(a :> p) @@ (b :> p)}
OneOrTwoProcesses == {(a :> p) @@ (b :> p), (a :> p) @@ (b :> q)}
StartOnce == [d \in Directions |-> 1]
CaptureTwice == [StartOnce EXCEPT !["capture"] = 2]
Alike == Permutations({a, b})

-----------------------------------------------------------------------------
\* Owners, connections and request bits tell the same story whenever no operation runs.
OwnersAndRequestsAgree == TypeOK /\ OwnersAreHeld /\ NoStrayRequest

\* A request is served by activate_pair or by nobody, and only its own session's
\* start or stop takes it away.
RequestsAreServed == AlignedStartsInPair /\ RequestsAreKept
=============================================================================
