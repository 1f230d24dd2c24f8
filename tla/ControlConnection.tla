-------------------------- MODULE ControlConnection --------------------------
(*****************************************************************************)
(* The control socket: the listener and its slots per user, the thread that   *)
(* answers one connection (crates/sidealsa-daemon/src/control.rs), and the    *)
(* client that asks (crates/sidealsa-client/src/lib.rs), which may time out,  *)
(* be dropped, be killed or fork.  A child forked from a stream is refused    *)
(* every call; one forked from a client goes on as a client of its own on the *)
(* same socket, and the two take each other's answers.  A program that speaks *)
(* the protocol without the library ("raw") may send any request at any time. *)
(*                                                                           *)
(* A session carries the name of the connection that opened it; so does a     *)
(* second one on the same connection, which a child and its parent may open.  *)
(* What OPEN, START, STOP and CLOSE do inside the daemon is SessionLifecycle's *)
(* subject.                                                                  *)
(*****************************************************************************)
EXTENDS Naturals, Sequences, FiniteSets, FiniteSetsExt

CONSTANTS
    Connections,
    Raw,             \* the connections of programs without the library
    RawRequests,     \* what those send
    Timed,           \* the clients that connect_with_timeout
    Forking,         \* the clients that may fork
    UidOf,           \* the user of each connection
    MaxClients,      \* MAX_CONTROL_CLIENTS
    MaxPerUid,       \* MAX_CONTROL_CLIENTS_PER_UID
    MaxQueue         \* bound: messages a socket buffer takes

Uids == {UidOf[c] : c \in Connections}
MaxBeforeHello == 3  \* MAX_REQUESTS_BEFORE_HELLO

Requests == {"hello", "otherHello", "info", "stats", "open", "start", "stop", "close",
             "unknown", "otherVersion", "malformed"}

ControlAssumption ==
    /\ IsFiniteSet(Connections) /\ RawRequests \subseteq Requests
    /\ Raw \subseteq Connections /\ (Timed \cup Forking) \subseteq Connections \ Raw
    /\ Connections \subseteq DOMAIN UidOf
    /\ {MaxClients, MaxPerUid, MaxQueue} \subseteq Nat \ {0} /\ MaxPerUid <= MaxClients

VARIABLES
    up,         \* the daemon's process lives
    slots,      \* ClientSlots
    handler,    \* handle_client of each connection, and its SessionGuard
    sessions,   \* the sessions that are open in the daemon
    running,    \* those that are started
    toDaemon,   \* requests in the socket: [kind, of]
    toClient,   \* responses in the socket: [to, result]
    client,     \* the program's end: [pc, asked, started]
    shut,       \* the client, or its child, has called shutdown(Both)
    child       \* a forked child's end: [pc, asked, started], and used, a history:
                \* a child has asked something on this connection

daemonVars == <<up, slots, handler, sessions, running>>
clientVars == <<client, shut, child>>
vars == <<daemonVars, toDaemon, toClient, clientVars>>

NoResponse == [to |-> "none", result |-> "none"]
NoHandler == [pc |-> "none", hello |-> FALSE, before |-> 0, session |-> FALSE,
              timer |-> "handshake", response |-> NoResponse, last |-> FALSE]
NoChild == [pc |-> "none", asked |-> "none", started |-> FALSE, used |-> FALSE]

Init ==
    /\ up = TRUE /\ slots = [u \in Uids |-> 0]
    /\ handler = [c \in Connections |-> NoHandler]
    /\ sessions = {} /\ running = {}
    /\ toDaemon = [c \in Connections |-> << >>] /\ toClient = [c \in Connections |-> << >>]
    /\ client = [c \in Connections |-> [pc |-> "new", asked |-> "none", started |-> FALSE]]
    /\ shut = [c \in Connections |-> FALSE] /\ child = [c \in Connections |-> NoChild]

Serving == {"read", "reply", "leave"}
Served(c) == handler[c].pc \in Serving
\* The daemon reads end-of-file: every copy of the client's descriptor is closed, or
\* one of them was shut down.
PeerGone(c) == shut[c] \/ (client[c].pc = "gone" /\ child[c].pc = "none")
DaemonGone(c) == handler[c].pc = "gone"
\* The client reads end-of-file, and cannot write.
Ended(c) == DaemonGone(c) \/ shut[c]

-----------------------------------------------------------------------------
(* The listener.                                                             *)

Total == MapThenSumSet(LAMBDA u : slots[u], Uids)
HasSlot(c) == Total < MaxClients /\ slots[UidOf[c]] < MaxPerUid
HangUp(c) ==
    /\ handler' = [handler EXCEPT ![c] = [NoHandler EXCEPT !.pc = "gone"]]
    /\ toDaemon' = [toDaemon EXCEPT ![c] = << >>]

Accept(c) ==
    /\ handler[c].pc = "backlog" /\ HasSlot(c)
    /\ slots' = [slots EXCEPT ![UidOf[c]] = @ + 1]
    /\ handler' = [handler EXCEPT ![c].pc = "read"]
    /\ UNCHANGED <<up, sessions, running, toDaemon, toClient, clientVars>>

\* No slot, or no credentials of the peer: the stream is dropped.
Refuse(c) ==
    /\ handler[c].pc = "backlog"
    /\ HangUp(c)
    /\ UNCHANGED <<up, slots, sessions, running, toClient, clientVars>>

\* mutant: the slot of a thread that was not spawned is not given back
SpawnKeepsSlot(c) ==
    /\ handler[c].pc = "backlog" /\ HasSlot(c)
    /\ slots' = [slots EXCEPT ![UidOf[c]] = @ + 1]
    /\ HangUp(c)
    /\ UNCHANGED <<up, sessions, running, toClient, clientVars>>

\* The thread cannot be spawned: its closure is dropped, and the slot with it.
SpawnFails(c) ==
    /\ handler[c].pc = "backlog" /\ HasSlot(c)
    /\ HangUp(c)
    /\ UNCHANGED <<up, slots, sessions, running, toClient, clientVars>>

-----------------------------------------------------------------------------
(* handle_client.                                                            *)

Goto(c, pc) == handler' = [handler EXCEPT ![c].pc = pc]

\* What a raw program is told is left out.
Respond(c, h, result, last) ==
    handler' = [handler EXCEPT ![c] = [h EXCEPT !.pc = "reply", !.last = last,
                    !.response = IF c \in Raw THEN NoResponse
                                 ELSE [to |-> Head(toDaemon[c]).kind, result |-> result]]]

\* After a request that was carried out the read timeout is set again.
Rearmed(h) == [h EXCEPT !.timer = IF h.session THEN "none"
                                  ELSE IF h.hello THEN "idle" ELSE "handshake"]

Answer(c, h, result) == Respond(c, Rearmed(h), result, h.before >= MaxBeforeHello)

Receives(c, kinds) ==
    /\ handler[c].pc = "read" /\ toDaemon[c] # << >> /\ Head(toDaemon[c]).kind \in kinds
    /\ toDaemon' = [toDaemon EXCEPT ![c] = Tail(@)]
    /\ UNCHANGED <<up, slots, toClient, clientVars>>
Kept == UNCHANGED <<sessions, running>>

\* A frame that cannot be read ends the connection; one of another version is told so.
ReadFails(c) ==
    /\ Receives(c, {"otherVersion", "malformed"})
    /\ IF Head(toDaemon[c]).kind = "malformed" THEN Goto(c, "leave")
       ELSE Respond(c, handler[c], "error", TRUE)
    /\ Kept

\* mutant: only requests of the protocol count
UnknownUncounted(c) ==
    /\ Receives(c, {"unknown"})
    /\ LET h == handler[c] IN Respond(c, h, "unsupported", h.before >= MaxBeforeHello)
    /\ Kept

\* A request of a later protocol: counted before HELLO, and the timeout stays.
Unknown(c) ==
    /\ Receives(c, {"unknown"})
    /\ LET h == [handler[c] EXCEPT !.before = @ + IF handler[c].hello THEN 0 ELSE 1]
       IN  Respond(c, h, "unsupported", h.before >= MaxBeforeHello)
    /\ Kept

HelloRequired(c) ==
    /\ ~handler[c].hello
    /\ Receives(c, {"info", "stats", "open", "start", "stop", "close"})
    /\ LET h == [handler[c] EXCEPT !.before = @ + 1]
       IN  Respond(c, h, "error", h.before >= MaxBeforeHello)
    /\ Kept

Hello(c) ==
    /\ Receives(c, {"hello", "otherHello"})
    /\ IF Head(toDaemon[c]).kind = "hello"
       THEN Answer(c, [handler[c] EXCEPT !.hello = TRUE], "ok")
       ELSE Answer(c, [handler[c] EXCEPT !.before = @ + 1], "error")
    /\ Kept

\* A response that is too large to encode is reported as an error.
GetData(c) ==
    /\ handler[c].hello /\ Receives(c, {"info", "stats"})
    /\ \E result \in {"ok", "error"} : Answer(c, handler[c], result)
    /\ Kept

Open(c) ==
    /\ handler[c].hello /\ Receives(c, {"open"})
    /\ \/ \E result \in {"busy", "error"} : Answer(c, handler[c], result) /\ Kept
       \/ /\ ~handler[c].session
          /\ Answer(c, [handler[c] EXCEPT !.session = TRUE], "ok")
          /\ sessions' = sessions \cup {c} /\ UNCHANGED running

Owns(c) == handler[c].session /\ Head(toDaemon[c]).of = c

StartStop(c) ==
    /\ handler[c].hello /\ Receives(c, {"start", "stop"})
    /\ IF Owns(c)
       THEN /\ running' = IF Head(toDaemon[c]).kind = "start" THEN running \cup {c}
                          ELSE running \ {c}
            /\ Answer(c, handler[c], "ok")
       ELSE UNCHANGED running /\ Answer(c, handler[c], "error")
    /\ UNCHANGED sessions

\* mutant: the session is looked up by its name, whoever asks
CloseAnyones(c) ==
    /\ handler[c].hello /\ Receives(c, {"close"})
    /\ LET of == Head(toDaemon[c]).of
       IN  /\ sessions' = sessions \ {of} /\ running' = running \ {of}
           /\ Answer(c, [handler[c] EXCEPT !.session = @ /\ of # c], "ok")

Close(c) ==
    /\ handler[c].hello /\ Receives(c, {"close"})
    /\ IF Owns(c)
       THEN /\ sessions' = sessions \ {c} /\ running' = running \ {c}
            /\ Answer(c, [handler[c] EXCEPT !.session = FALSE], "ok")
       ELSE Kept /\ Answer(c, handler[c], "error")

\* send_response; without a reader the write fails, or times out on a full socket.
Reply(c) ==
    /\ handler[c].pc = "reply"
    /\ IF PeerGone(c) \/ Len(toClient[c]) >= MaxQueue
       THEN Goto(c, "leave") /\ UNCHANGED toClient
       ELSE /\ toClient' = [toClient EXCEPT ![c] = Append(@, handler[c].response)]
            /\ handler' = [handler EXCEPT ![c].pc = IF handler[c].last THEN "leave" ELSE "read",
                                          ![c].response = NoResponse]
    /\ UNCHANGED <<up, slots, sessions, running, toDaemon, clientVars>>

\* End-of-file, or no request within the read timeout.
NothingToRead(c) ==
    /\ handler[c].pc = "read" /\ toDaemon[c] = << >>
    /\ PeerGone(c) \/ handler[c].timer # "none"
    /\ Goto(c, "leave")
    /\ UNCHANGED <<up, slots, sessions, running, toDaemon, toClient, clientVars>>

\* The thread ends, by a return or a panic: its SessionGuard closes the session, then
\* its ClientSlot is dropped.
Leave(c) ==
    /\ handler[c].pc = "leave"
    /\ HangUp(c)
    /\ sessions' = sessions \ {c} /\ running' = running \ {c}
    /\ slots' = [slots EXCEPT ![UidOf[c]] = @ - 1]
    /\ UNCHANGED <<up, toClient, clientVars>>

DaemonExits ==
    /\ up /\ up' = FALSE
    /\ slots' = [u \in Uids |-> 0] /\ sessions' = {} /\ running' = {}
    /\ handler' = [c \in Connections |-> [NoHandler EXCEPT !.pc = "gone"]]
    /\ toDaemon' = [c \in Connections |-> << >>]
    /\ UNCHANGED <<toClient, clientVars>>

-----------------------------------------------------------------------------
(* The client library.                                                       *)

Library == Connections \ Raw
Busy(c) == Len(toDaemon[c]) + Len(toClient[c]) + (IF handler[c].pc = "reply" THEN 1 ELSE 0)
Send(c, kind, of) ==
    toDaemon' = IF Ended(c) THEN toDaemon
                ELSE [toDaemon EXCEPT ![c] = Append(@, [kind |-> kind, of |-> of])]
Become(c, pc, asked, started) ==
    client' = [client EXCEPT ![c] = [pc |-> pc, asked |-> asked, started |-> started]]

\* connect, and the HELLO that follows.
Connect(c) ==
    /\ client[c].pc = "new" /\ up
    /\ handler' = [handler EXCEPT ![c].pc = "backlog"]
    /\ IF c \in Raw THEN Become(c, "raw", "none", FALSE) /\ UNCHANGED toDaemon
       ELSE Become(c, "connecting", "hello", FALSE) /\ Send(c, "hello", c)
    /\ UNCHANGED <<up, slots, sessions, running, toClient, shut, child>>

\* get_info and get_stats of a client, and the open that turns it into a stream.
Ask(c, kind) ==
    /\ client[c].pc = "client" /\ Busy(c) < MaxQueue
    /\ Become(c, IF kind = "open" THEN "opening" ELSE "asking", kind, FALSE)
    /\ Send(c, kind, c)
    /\ UNCHANGED <<daemonVars, toClient, shut, child>>

\* A stream's control_request; START when started and STOP when not return at once.
Request(c, kind) ==
    /\ client[c].pc = "stream" /\ Busy(c) < MaxQueue
    /\ kind = "start" => ~client[c].started
    /\ kind = "stop" => client[c].started
    /\ Become(c, "waiting", kind, client[c].started)
    /\ Send(c, kind, c)
    /\ UNCHANGED <<daemonVars, toClient, shut, child>>

Acks == {"start", "stop", "close"}
SameType(to, asked) == to = asked \/ {to, asked} \subseteq Acks
\* The response is one of the kind the caller expects.
Expected(c) == LET r == Head(toClient[c]) IN r.result = "ok" /\ SameType(r.to, client[c].asked)
Unexpected(c) == LET r == Head(toClient[c]) IN r.result = "ok" /\ ~SameType(r.to, client[c].asked)

Poison(c) == Become(c, "closed", "none", FALSE) /\ shut' = [shut EXCEPT ![c] = TRUE]

\* The program lets go of the socket; what it has not read is for the child, if any.
Gone(c) ==
    /\ Become(c, "gone", "none", FALSE)
    /\ toClient' = [toClient EXCEPT ![c] = IF child[c].pc = "none" THEN << >> ELSE @]

Takes(c, pc) ==
    /\ client[c].pc = pc /\ toClient[c] # << >>
    /\ UNCHANGED <<daemonVars, toDaemon, child>>
Popped(c) == toClient' = [toClient EXCEPT ![c] = Tail(@)]

Connected(c) ==
    /\ Takes(c, "connecting")
    /\ IF Expected(c) THEN Become(c, "client", "none", FALSE) /\ Popped(c) ELSE Gone(c)
    /\ UNCHANGED shut

\* Whatever it reads, the client stays usable.
ClientAnswered(c) ==
    /\ Takes(c, "asking")
    /\ Become(c, "client", "none", FALSE) /\ Popped(c)
    /\ UNCHANGED shut

Opened(c) ==
    /\ Takes(c, "opening")
    /\ IF Expected(c) THEN Become(c, "stream", "none", FALSE) /\ Popped(c) ELSE Gone(c)
    /\ UNCHANGED shut

StreamAnswered(c) ==
    /\ Takes(c, "waiting") /\ Popped(c)
    /\ IF Unexpected(c) THEN Poison(c)
       ELSE /\ IF ~Expected(c) THEN Become(c, "stream", "none", client[c].started)
               ELSE CASE client[c].asked = "start" -> Become(c, "stream", "none", TRUE)
                      [] client[c].asked = "stop" -> Become(c, "stream", "none", FALSE)
                      [] client[c].asked = "close" -> Become(c, "closed", "none", FALSE)
                      [] OTHER -> Become(c, "stream", "none", client[c].started)
            /\ UNCHANGED shut

\* End-of-file, or the timeout the connection was made with; or parts of an answer that
\* a child reads at the same time.
NoAnswer(c) ==
    \/ toClient[c] = << >> /\ (Ended(c) \/ c \in Timed)
    \/ toClient[c] # << >> /\ child[c].used
Lost(c) == toClient' = [toClient EXCEPT ![c] = IF @ = << >> THEN @ ELSE Tail(@)]

\* mutant: a stream whose request timed out stays usable
FailsUnpoisoned(c) ==
    /\ client[c].pc \in {"connecting", "opening", "asking", "waiting"}
    /\ NoAnswer(c)
    /\ CASE client[c].pc \in {"connecting", "opening"} -> Gone(c)
         [] client[c].pc = "asking" -> Become(c, "client", "none", FALSE) /\ Lost(c)
         [] client[c].pc = "waiting" ->
                Become(c, "stream", "none", client[c].started) /\ Lost(c)
    /\ UNCHANGED <<daemonVars, toDaemon, shut, child>>

\* The request fails.
Fails(c) ==
    /\ client[c].pc \in {"connecting", "opening", "asking", "waiting"}
    /\ NoAnswer(c)
    /\ CASE client[c].pc \in {"connecting", "opening"} -> Gone(c) /\ UNCHANGED shut
         [] client[c].pc = "asking" -> Become(c, "client", "none", FALSE) /\ Lost(c) /\ UNCHANGED shut
         [] client[c].pc = "waiting" -> Poison(c) /\ Lost(c)
    /\ UNCHANGED <<daemonVars, toDaemon, child>>

\* A stream that waits for audio watches the control socket too (wait_until).
NoticesClosed(c) ==
    /\ client[c].pc = "stream" /\ Ended(c)
    /\ Poison(c)
    /\ UNCHANGED <<daemonVars, toDaemon, toClient, child>>

\* Drop sends CLOSE without waiting for its answer.
Drop(c) ==
    /\ client[c].pc \in {"client", "stream", "closed"}
    /\ IF client[c].pc = "stream" THEN Send(c, "close", c) ELSE UNCHANGED toDaemon
    /\ Gone(c)
    /\ UNCHANGED <<daemonVars, shut, child>>

Dies(c) ==
    /\ client[c].pc \notin {"new", "gone"}
    /\ Gone(c)
    /\ UNCHANGED <<daemonVars, toDaemon, shut, child>>

\* A child of a client is a client; one of a stream is refused every call.
Fork(c) ==
    /\ c \in Forking
    /\ client[c].pc \in {"client", "stream"} /\ child[c].pc = "none"
    /\ child' = [child EXCEPT ![c].pc = IF client[c].pc = "stream" THEN "refused" ELSE "client"]
    /\ UNCHANGED <<daemonVars, toDaemon, toClient, client, shut>>

ChildBecomes(c, pc, asked, started) ==
    child' = [child EXCEPT ![c] = [pc |-> pc, asked |-> asked, started |-> started,
                                   used |-> @.used \/ asked # "none"]]

\* Before OPEN nothing tells the child from the program that connected; the stream it
\* opens is its own.
ChildAsks(c, kind) ==
    /\ child[c].pc \in {"client", "stream"} /\ Busy(c) < MaxQueue
    /\ IF child[c].pc = "client"
       THEN /\ kind \in {"info", "stats", "open"}
            /\ ChildBecomes(c, IF kind = "open" THEN "opening" ELSE "asking", kind, FALSE)
       ELSE /\ kind \in Acks \cup {"stats"}
            /\ kind = "start" => ~child[c].started
            /\ kind = "stop" => child[c].started
            /\ ChildBecomes(c, "waiting", kind, child[c].started)
    /\ Send(c, kind, c)
    /\ UNCHANGED <<daemonVars, toClient, client, shut>>

\* What a call of the child ends with, on an answer that is as expected, that is of
\* another type or reports an error, or without an answer.
ChildEnds(c, how) ==
    LET e == child[c]
        poisons == e.pc = "waiting" /\ how \in {"unexpected", "none"}
    IN  /\ shut' = [shut EXCEPT ![c] = @ \/ poisons]
        /\ CASE e.pc = "asking" -> ChildBecomes(c, "client", "none", FALSE)
             [] e.pc = "opening" ->
                  ChildBecomes(c, IF how = "expected" THEN "stream" ELSE "none", "none", FALSE)
             [] e.pc = "waiting" ->
                  IF poisons \/ (how = "expected" /\ e.asked = "close")
                  THEN ChildBecomes(c, "closed", "none", FALSE)
                  ELSE ChildBecomes(c, "stream", "none",
                         IF how = "expected" /\ e.asked \in {"start", "stop"} THEN e.asked = "start"
                         ELSE e.started)

ChildWaits(c) ==
    /\ child[c].pc \in {"asking", "opening", "waiting"}
    /\ UNCHANGED <<daemonVars, toDaemon, client>>

\* The child reads the next answer, whoever asked for it.
ChildAnswered(c) ==
    /\ ChildWaits(c) /\ toClient[c] # << >> /\ Popped(c)
    /\ LET r == Head(toClient[c])
       IN  ChildEnds(c, IF r.result # "ok" THEN "error"
                        ELSE IF SameType(r.to, child[c].asked) THEN "expected" ELSE "unexpected")

ChildFails(c) == ChildWaits(c) /\ NoAnswer(c) /\ Lost(c) /\ ChildEnds(c, "none")

ChildNotices(c) ==
    /\ child[c].pc = "stream" /\ Ended(c)
    /\ ChildBecomes(c, "closed", "none", FALSE) /\ shut' = [shut EXCEPT ![c] = TRUE]
    /\ UNCHANGED <<daemonVars, toDaemon, toClient, client>>

\* mutant: a child closes the stream it inherited
ChildDropsCloses(c) ==
    /\ child[c].pc \in {"client", "stream", "closed", "refused"}
    /\ IF child[c].pc \in {"stream", "refused"} THEN Send(c, "close", c) ELSE UNCHANGED toDaemon
    /\ ChildBecomes(c, "none", "none", FALSE)
    /\ UNCHANGED <<daemonVars, toClient, client, shut>>

\* The drop of a child only closes the descriptor, unless the stream is its own.
ChildDrops(c) ==
    /\ child[c].pc \in {"client", "stream", "closed", "refused"}
    /\ IF child[c].pc = "stream" THEN Send(c, "close", c) ELSE UNCHANGED toDaemon
    /\ ChildBecomes(c, "none", "none", FALSE)
    /\ UNCHANGED <<daemonVars, toClient, client, shut>>

ChildDies(c) ==
    /\ child[c].pc # "none"
    /\ ChildBecomes(c, "none", "none", FALSE)
    /\ UNCHANGED <<daemonVars, toDaemon, toClient, client, shut>>

\* A program without the library.
RawSends(c, kind, of) ==
    /\ client[c].pc = "raw" /\ toDaemon[c] = << >> /\ ~DaemonGone(c)
    /\ kind \notin Acks => of = c
    /\ Send(c, kind, of)
    /\ UNCHANGED <<daemonVars, toClient, clientVars>>

RawTakes(c) ==
    /\ client[c].pc = "raw" /\ toClient[c] # << >>
    /\ Popped(c)
    /\ UNCHANGED <<daemonVars, toDaemon, clientVars>>

-----------------------------------------------------------------------------
ListenerStep(c) == Accept(c) \/ Refuse(c) \/ SpawnFails(c)

HandlerStep(c) ==
    \/ ReadFails(c) \/ Unknown(c) \/ HelloRequired(c) \/ Hello(c) \/ GetData(c)
    \/ Open(c) \/ StartStop(c) \/ Close(c)
    \/ Reply(c) \/ NothingToRead(c) \/ Leave(c)

ClientStep(c) ==
    \/ Connect(c) \/ Connected(c) \/ ClientAnswered(c) \/ Opened(c) \/ StreamAnswered(c)
    \/ \E kind \in {"info", "stats", "open"} : Ask(c, kind)
    \/ \E kind \in Acks \cup {"stats"} : Request(c, kind)
    \/ Fails(c) \/ NoticesClosed(c) \/ Drop(c) \/ Dies(c)
    \/ \E kind \in RawRequests, of \in Connections : RawSends(c, kind, of)
    \/ RawTakes(c)

ChildStep(c) ==
    \/ Fork(c) \/ ChildDrops(c) \/ ChildDies(c)
    \/ \E kind \in {"info", "open", "stats"} \cup Acks : ChildAsks(c, kind)
    \/ ChildAnswered(c) \/ ChildFails(c) \/ ChildNotices(c)

Next ==
    \/ \E c \in Connections : 
         ListenerStep(c) \/ HandlerStep(c) \/ ClientStep(c) \/ ChildStep(c)
    \/ DaemonExits

\* The listener and the handler threads are scheduled, and a read timeout expires.
Fairness == \A c \in Connections : WF_vars(ListenerStep(c)) /\ WF_vars(HandlerStep(c))

Spec == Init /\ [][Next]_vars /\ Fairness

-----------------------------------------------------------------------------
TypeOK ==
    /\ slots \in [Uids -> 0 .. MaxClients]
    /\ \A c \in Connections :
         /\ handler[c].pc \in Serving \cup {"none", "backlog", "gone"}
         /\ handler[c].before \in 0 .. MaxBeforeHello
         /\ client[c].pc \in {"new", "connecting", "client", "asking", "opening", "stream",
                              "waiting", "closed", "raw", "gone"}
         /\ child[c].pc \in {"none", "refused", "client", "asking", "opening", "stream",
                             "waiting", "closed"}

\* A slot is counted exactly while the thread it was taken for serves a connection.
SlotsAreThreads ==
    \A u \in Uids : slots[u] = Cardinality({c \in Connections : Served(c) /\ UidOf[c] = u})

\* A session is open exactly while the thread of the connection that opened it holds it.
SessionsAreHeld == sessions = {c \in Connections : Served(c) /\ handler[c].session}

\* The connections that no child has used.  A child forked before OPEN shares its
\* parent's socket whole, and only open_pro_direction refuses it.
Unshared == {c \in Library : ~child[c].used}

\* A stream has one request under way while it waits and none while it does not, so
\* no late answer is ever taken for another request's.
StreamsAreInStep ==
    \A c \in Unshared :
        /\ client[c].pc = "stream" => Busy(c) = 0
        /\ client[c].pc = "waiting" =>
             /\ Busy(c) <= 1
             /\ toClient[c] # << >> => Head(toClient[c]).to = client[c].asked

\* A stream that is not waiting knows whether the daemon runs it.
StreamsKnowTheirState ==
    \A c \in Unshared :
        client[c].pc = "stream" /\ ~DaemonGone(c) =>
            c \in sessions /\ (client[c].started <=> c \in running)

\* What the two ends of a connection keep agrees: slots and threads, sessions and
\* their guards, requests and answers, a stream and its session (control.rs and
\* client lib.rs, control_request).
EndsAgree == SlotsAreThreads /\ SessionsAreHeld /\ StreamsAreInStep /\ StreamsKnowTheirState

\* What ends a session of the library: its own program, or the daemon.
EndedByItsProgram ==
    up' => \A c \in Unshared :
        c \in sessions /\ c \notin sessions' =>
            \/ client[c].pc \in {"gone", "closed"}
            \/ client[c].pc = "waiting" /\ client[c].asked = "close"

\* While the program that opened a session goes on using it, nobody else ends it:
\* not a child that inherited the stream, not another connection that names it, not a
\* timeout.
OnlyTheCreatorCloses == [][EndedByItsProgram]_vars

\* A connection gives its slot back once its program is gone, if it never says HELLO
\* (whatever else it sends), and if it holds no session and falls silent.
ConnectionsLeave ==
    \A c \in Connections :
        /\ (PeerGone(c) /\ handler[c].pc # "none") ~> DaemonGone(c)
        /\ (Served(c) /\ ~handler[c].hello) ~> (DaemonGone(c) \/ handler[c].hello)
        /\ []<>~(Served(c) /\ ~handler[c].session /\ toDaemon[c] = << >> /\ toClient[c] = << >>)
=============================================================================
