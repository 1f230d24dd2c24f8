----------------------------- MODULE LinkRefresh -----------------------------
(*****************************************************************************)
(* sidealsa-reconnect (crates/sidealsa-cli/src/bin/sidealsa-reconnect.rs): a   *)
(* worker of the desktop session that watches the daemon and, once another    *)
(* one serves, takes down the PipeWire links at SideALSA nodes and puts them  *)
(* up again, while users, the session manager and PipeWire change the graph.  *)
(* Ids in the graph are reused, a serial number tells the objects apart, and  *)
(* the cookie tells one PipeWire from the next; a port stands for its node.   *)
(* PipeWire, systemd and the daemon are external.                            *)
(*****************************************************************************)
EXTENDS Naturals, FiniteSets

CONSTANTS
    Outputs, Inputs,   \* ports
    Ours,              \* the ports of nodes on the daemon's SHARED PCMs
    Ids,               \* ids of links
    None,
    Rounds,            \* attempts to restore
    MaxChanges,        \* bound: changes of the graph by others
    MaxDaemons, MaxFailures   \* bounds: daemons started, commands that fail

RefreshAssumption ==
    /\ Outputs \cap Inputs = {} /\ Ours \subseteq Outputs \cup Inputs
    /\ None \notin Outputs \X Inputs
    /\ IsFiniteSet(Outputs) /\ IsFiniteSet(Inputs) /\ IsFiniteSet(Ids)
    /\ Ids \subseteq Nat /\ Cardinality(Ids) = Cardinality(Outputs \X Inputs)
    /\ Rounds \in Nat \ {0} /\ {MaxChanges, MaxDaemons, MaxFailures} \subseteq Nat

Ports == Outputs \cup Inputs

VARIABLES
    cookie, port, links,   \* the graph: per port [serial, present], per id [serial, route]
    daemon,      \* [number, serving]
    worker,      \* see Started
    changes, failures,   \* see the bounds
    taken,       \* history: what this refresh has taken down and not settled
    refreshed    \* history: the last daemon after whose start a refresh was completed or
                 \* not asked for

graphVars == <<cookie, port, links>>
vars == <<graphVars, daemon, worker, changes, failures, taken, refreshed>>

Started(initial) ==
    [pc |-> "poll", initial |-> initial, observed |-> initial, client |-> 0, cookie |-> 0, todo |-> {},
     routes |-> {}, removed |-> {}, remaining |-> {}, round |-> 0]

Init ==
    /\ cookie = 1 /\ port = [p \in Ports |-> [serial |-> 1, present |-> TRUE]]
    /\ \E routes \in [Ids -> (Outputs \X Inputs) \cup {None}] :
         /\ \A x, y \in Ids : x # y /\ routes[x] # None => routes[x] # routes[y]
         /\ links = [x \in Ids |-> [serial |-> 1, route |-> routes[x]]]
    /\ daemon = [number |-> 1, serving |-> FALSE]
    /\ \E initial \in BOOLEAN : worker = Started(initial)
    /\ changes = 0 /\ failures = 0 /\ taken = {} /\ refreshed = 0

Identity(p) == [port |-> p, serial |-> port[p].serial]
Current(i) == port[i.port].present /\ port[i.port].serial = i.serial
Present == {x \in Ids : links[x].route # None}
Out(x) == Identity(links[x].route[1])
In(x) == Identity(links[x].route[2])
Routes == {<<Out(x), In(x)>> : x \in Present}

Linked(o, i) == \E x \in Ids : links[x].route = <<o, i>>
Unlinked(ids) == [x \in Ids |-> IF x \in ids THEN [links[x] EXCEPT !.route = None] ELSE links[x]]
\* PipeWire gives the link an id that is free again.
NewLink(o, i) ==
    LET x == CHOOSE x \in Ids \ Present : \A y \in Ids \ Present : x <= y IN
    /\ ~Linked(o, i) /\ port[o].present /\ port[i].present
    /\ links' = [links EXCEPT ![x] = [serial |-> links[x].serial + 1, route |-> <<o, i>>]]

-----------------------------------------------------------------------------
(* Everything but the worker.                                                *)

Change == changes < MaxChanges /\ changes' = changes + 1
WorkerRests == UNCHANGED <<daemon, worker, failures, taken, refreshed>>

Route == Change /\ (\E o \in Outputs, i \in Inputs : NewLink(o, i)) /\ WorkerRests
         /\ UNCHANGED <<cookie, port>>
Unroute == Change /\ (\E x \in Present : links' = Unlinked({x})) /\ WorkerRests
           /\ UNCHANGED <<cookie, port>>

PortLeaves ==
    /\ Change /\ WorkerRests /\ UNCHANGED cookie
    /\ \E p \in Ports :
         /\ port[p].present
         /\ port' = [port EXCEPT ![p].present = FALSE]
         /\ links' = Unlinked({x \in Present : p \in {links[x].route[1], links[x].route[2]}})

PortComes ==
    /\ WorkerRests /\ UNCHANGED <<cookie, links, changes>>
    /\ \E p \in Ports :
         /\ ~port[p].present
         /\ port' = [port EXCEPT ![p] = [serial |-> port[p].serial + 1, present |-> TRUE]]

\* Another PipeWire, whose serial numbers begin anew.
PipeWireRestarts ==
    /\ Change /\ WorkerRests
    /\ cookie' = cookie + 1
    /\ port' = [p \in Ports |-> [serial |-> 1, present |-> TRUE]]
    /\ links' = [x \in Ids |-> [serial |-> 0, route |-> None]]

DaemonServes ==
    /\ ~daemon.serving /\ daemon' = [daemon EXCEPT !.serving = TRUE]
    /\ UNCHANGED <<graphVars, worker, changes, failures, taken, refreshed>>

DaemonDies ==
    /\ daemon.number < MaxDaemons
    /\ daemon' = [number |-> daemon.number + 1, serving |-> FALSE]
    /\ UNCHANGED <<graphVars, worker, changes, failures, taken, refreshed>>

-----------------------------------------------------------------------------
(* The worker.                                                               *)

Fail == failures < MaxFailures /\ failures' = failures + 1

\* A handshake, and periods_processed # 0.
Poll ==
    /\ worker.pc = "poll" /\ daemon.serving
    /\ worker' = [worker EXCEPT !.client = daemon.number, !.observed = TRUE,
                                !.pc = IF worker.observed THEN "plan" ELSE "watch"]
    /\ refreshed' = IF worker.observed THEN refreshed ELSE daemon.number
    /\ UNCHANGED <<graphVars, daemon, changes, failures, taken>>

\* The connection to the daemon breaks.
Watch ==
    /\ worker.pc = "watch"
    /\ worker.client # daemon.number \/ ~daemon.serving
    /\ worker' = [worker EXCEPT !.pc = "poll", !.client = 0]
    /\ UNCHANGED <<graphVars, daemon, changes, failures, taken, refreshed>>

\* The process exits with 1.  The unit, which has --initial-refresh, is started again; a
\* worker that was started by hand, perhaps without, is not.
Exit ==
    /\ worker' = IF worker.initial THEN Started(TRUE) ELSE [Started(FALSE) EXCEPT !.pc = "exited"]
    /\ taken' = {}
    /\ UNCHANGED <<graphVars, daemon, changes, refreshed>>

Plan ==
    /\ worker.pc = "plan"
    /\ \/ Fail /\ Exit
       \/ /\ worker' = [worker EXCEPT !.pc = "unlink", !.cookie = cookie, !.routes = Routes,
                !.todo = {[id |-> x, serial |-> links[x].serial, out |-> Out(x), in |-> In(x)] :
                          x \in {y \in Present : {links[y].route[1], links[y].route[2]}
                                                 \cap Ours # {}}}]
          /\ UNCHANGED <<graphVars, daemon, changes, failures, taken, refreshed>>

Same(l) ==
    /\ links[l.id].serial = l.serial /\ links[l.id].route # None
    /\ Current(l.out) /\ Current(l.in)

\* mutant: the id is enough
UnlinkById(l) ==
    /\ worker.pc = "unlink" /\ l \in worker.todo /\ cookie = worker.cookie
    /\ worker' = [worker EXCEPT !.todo = @ \ {l},
                                !.removed = IF links[l.id].route # None THEN @ \cup {l} ELSE @]
    /\ IF links[l.id].route # None
       THEN links' = Unlinked({l.id}) /\ taken' = taken \cup {l} ELSE UNCHANGED <<links, taken>>
    /\ UNCHANGED <<cookie, port, daemon, changes, failures, refreshed>>

\* A fresh look and the command.  PipeWire has no command that does both at once.  One
\* that fails or is timed out may have taken effect: the worker then skips a link that
\* is gone, and does not restore it.
Unlink(l) ==
    /\ worker.pc = "unlink" /\ l \in worker.todo /\ cookie = worker.cookie
    /\ IF Same(l)
       THEN \/ /\ worker' = [worker EXCEPT !.todo = @ \ {l}, !.removed = @ \cup {l}]
               /\ links' = Unlinked({l.id}) /\ taken' = taken \cup {l} /\ UNCHANGED failures
            \/ /\ Fail /\ worker' = [worker EXCEPT !.todo = @ \ {l}]
               /\ links' \in {links, Unlinked({l.id})} /\ UNCHANGED taken
       ELSE worker' = [worker EXCEPT !.todo = @ \ {l}] /\ UNCHANGED <<links, taken, failures>>
    /\ UNCHANGED <<cookie, port, daemon, changes, refreshed>>

\* The plan is done, another PipeWire runs, or pw-dump failed: no more is taken down.
EndUnlink ==
    /\ worker.pc = "unlink"
    /\ \/ (worker.todo = {} \/ cookie # worker.cookie) /\ UNCHANGED failures
       \/ worker.todo # {} /\ Fail
    /\ worker' = [worker EXCEPT !.pc = "round", !.todo = {}]
    /\ UNCHANGED <<graphVars, daemon, changes, taken, refreshed>>

\* The worker sleeps before each attempt, which goes through all that is removed.
Round ==
    /\ worker.pc = "round" /\ worker.removed # {} /\ worker.round < Rounds
    /\ worker' = [worker EXCEPT !.pc = "restore", !.todo = worker.removed, !.remaining = {},
                                !.round = @ + 1]
    /\ UNCHANGED <<graphVars, daemon, changes, failures, taken, refreshed>>

\* A link that was chosen since for a port that is not ours.
Superseded(l) ==
    \E x \in Present :
        /\ \/ l.out.port \notin Ours /\ links[x].route[1] = l.out.port
           \/ l.in.port \notin Ours /\ links[x].route[2] = l.in.port
        /\ <<Out(x), In(x)>> \notin worker.routes

Obsolete(l) ==
    cookie # worker.cookie \/ ~Current(l.out) \/ ~Current(l.in) \/ Superseded(l)
Creates(l) == ~Obsolete(l) /\ ~Linked(l.out.port, l.in.port)

\* A fresh look and pw-link, which may have taken effect when it fails: the next
\* attempt finds the link there.
Create(l) ==
    /\ worker.pc = "restore" /\ l \in worker.todo /\ Creates(l)
    /\ \/ /\ NewLink(l.out.port, l.in.port) /\ taken' = taken \ {l} /\ UNCHANGED failures
          /\ worker' = [worker EXCEPT !.todo = @ \ {l}]
       \/ /\ Fail /\ (NewLink(l.out.port, l.in.port) \/ UNCHANGED links) /\ UNCHANGED taken
          /\ worker' = [worker EXCEPT !.todo = @ \ {l}, !.remaining = @ \cup {l}]
    /\ UNCHANGED <<cookie, port, daemon, changes, refreshed>>

\* A fresh look: somebody has put it up already, or it belongs to the past.
Leave(l) ==
    /\ worker.pc = "restore" /\ l \in worker.todo /\ ~Creates(l)
    /\ worker' = [worker EXCEPT !.todo = @ \ {l}]
    /\ taken' = taken \ {l}
    /\ UNCHANGED <<graphVars, daemon, changes, failures, refreshed>>

\* An attempt ends; one that pw-dump failed for leaves all of them pending.
EndRound ==
    /\ worker.pc = "restore"
    /\ \/ /\ worker.todo = {} /\ UNCHANGED failures
          /\ worker' = [worker EXCEPT !.pc = "round", !.removed = worker.remaining]
       \/ worker.todo # {} /\ Fail /\ worker' = [worker EXCEPT !.pc = "round"]
    /\ UNCHANGED <<graphVars, daemon, changes, taken, refreshed>>

Complete ==
    /\ worker.pc = "round" /\ worker.removed = {}
    /\ worker' = [Started(worker.initial) EXCEPT !.pc = "watch", !.observed = TRUE,
                                                 !.client = worker.client]
    /\ refreshed' = worker.client
    /\ UNCHANGED <<graphVars, daemon, changes, failures, taken>>

\* "links could not be restored; reselect the affected device"
GiveUp ==
    /\ worker.pc = "round" /\ worker.removed # {} /\ worker.round = Rounds
    /\ Exit /\ UNCHANGED failures

WorkerStep ==
    \/ Poll \/ Watch \/ Plan \/ EndUnlink \/ Round \/ EndRound \/ Complete \/ GiveUp
    \/ \E l \in worker.todo : Unlink(l) \/ Create(l) \/ Leave(l)

Next ==
    \/ Route \/ Unroute \/ PortLeaves \/ PortComes \/ PipeWireRestarts
    \/ DaemonServes \/ DaemonDies
    \/ WorkerStep

\* The worker polls, and every command of it ends within five seconds.
Fairness == WF_vars(WorkerStep)

Spec == Init /\ [][Next]_vars /\ Fairness

-----------------------------------------------------------------------------
TypeOK ==
    /\ cookie \in Nat /\ \A p \in Ports : port[p].serial \in Nat
    /\ \A x \in Ids : links[x].route \in (Outputs \X Inputs) \cup {None}
    /\ worker.pc \in {"poll", "watch", "plan", "unlink", "round", "restore", "exited"}
    /\ worker.round \in 0..Rounds
    /\ {l.id : l \in worker.todo \cup worker.removed \cup worker.remaining \cup taken} \subseteq Ids

\* A worker that goes back to watching has put up every link that it took down, by a
\* command that reported so, or has seen that somebody else did or that the link belongs to the past.
RefreshIsWhole == worker.pc \in {"poll", "watch", "plan"} => taken = {}

\* What the worker takes down has a port of ours, and what it puts up joins two objects
\* that it found joined, where nobody has chosen another route meanwhile.
RoutesRemain == \A x \in Ids :
    /\ worker # worker' /\ links[x].route # None /\ links[x]' # links[x] =>
         {links[x].route[1], links[x].route[2]} \cap Ours # {} /\ <<Out(x), In(x)>> \in worker.routes
    /\ worker # worker' /\ links[x].route = None /\ links[x]' # links[x] =>
         LET o == links[x].route[1]' i == links[x].route[2]' IN
         /\ cookie = worker.cookie /\ <<Identity(o), Identity(i)>> \in worker.routes
         /\ \A y \in Present : (o \notin Ours /\ links[y].route[1] = o)
                               \/ (i \notin Ours /\ links[y].route[2] = i) =>
              <<Out(y), In(y)>> \in worker.routes
RoutesStand == [][RoutesRemain]_vars

\* A daemon that stays is watched, after a refresh unless it is the first one that a
\* worker without --initial-refresh sees; a worker started by hand may exit instead.
RestartsAreSeen == \A n \in 1..MaxDaemons :
    daemon = [number |-> n, serving |-> TRUE] ~>
        \/ daemon.number # n
        \/ worker.pc = "watch" /\ worker.client = n /\ refreshed = n
        \/ worker.pc = "exited"
=============================================================================
