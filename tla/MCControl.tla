------------------------------ MODULE MCControl ------------------------------
(* The daemon as the programs around it see it, one case at a time: one       *)
(* connection to the control socket, of a program with the client library or  *)
(* without it, two daemons of one card, two runs of sidealsa-admin apply, and *)
(* the worker that reconnects PipeWire to a new daemon.                       *)
EXTENDS Naturals, Sequences, FiniteSets, TLC

CONSTANTS c1, card, Nobody,
          MaxClients, MaxPerUid, MaxQueue, Daemons, Service, MaxFaults,
          Admins, Broken, MaxApplyFaults, Rounds, MaxChanges, MaxDaemons, MaxFailures

VARIABLE program    \* the case
VARIABLES up, slots, handler, sessions, running, toDaemon, toClient, client, shut, child
VARIABLES proc, path, holder, unit, faults
VARIABLES file, disk, service, lock, admin, applyFaults, report
VARIABLES cookie, port, links, daemon, worker, changes, failures, taken, refreshed

controlVars == <<up, slots, handler, sessions, running, toDaemon, toClient, client, shut, child>>
daemonVars == <<proc, path, holder, unit, faults>>
applyVars == <<file, disk, service, lock, admin, applyFaults, report>>
linkVars == <<cookie, port, links, daemon, worker, changes, failures, taken, refreshed>>
allVars == <<program, controlVars, daemonVars, applyVars, linkVars>>

UidOf == c1 :> "alice"
CardOf == [d \in Daemons |-> card]

Library == INSTANCE ControlConnection WITH
    Connections <- {c1}, Raw <- {}, RawRequests <- {}, Timed <- {c1}, Forking <- {c1}
Bare == INSTANCE ControlConnection WITH
    Connections <- {c1}, Raw <- {c1}, Timed <- {}, Forking <- {},
    RawRequests <- {"hello", "otherHello", "info", "open", "start", "stop", "close",
                    "unknown", "otherVersion", "malformed"}
Process == INSTANCE DaemonProcess WITH None <- Nobody

\* The profile has two settings.  One timing is invalid, the card refuses another.
Timing(rate, period) == ("rate" :> rate) @@ ("period" :> period)
Apply == INSTANCE ProfileApply WITH
    Settings <- {"rate", "period"}, Values <- {1, 2},
    Assignments <- {"rate" :> 2, "period" :> 2},
    Valid <- {Timing(1, 1), Timing(1, 2), Timing(2, 1)},
    Accepted <- {Timing(1, 1), Timing(1, 2)}, Rests <- {"rest", "otherRest"},
    Edits <- {Broken, [timing |-> Timing(1, 1), rest |-> "otherRest"],
              [timing |-> Timing(1, 2), rest |-> "rest"]},
    MaxFaults <- MaxApplyFaults, faults <- applyFaults, None <- Nobody

\* An application that may play to SideALSA or to another device, and one that may
\* record SideALSA or a microphone.
Links(outputs, inputs) == INSTANCE LinkRefresh WITH
    Outputs <- outputs, Inputs <- inputs, Ours <- {"side"}, Ids <- {1, 2}, None <- Nobody
App == {"app"}
Sinks == {"side", "other"}
Sources == {"side", "mic"}

ASSUME ProgramsAssumption ==
    /\ Library!ControlAssumption /\ Bare!ControlAssumption
    /\ Process!ProcessAssumption /\ Apply!ApplyAssumption
    /\ Links(App, Sinks)!RefreshAssumption /\ Links(Sources, App)!RefreshAssumption

ControlInit ==
    /\ program \in {"library", "bare", "daemon", "admin", "playback", "capture"}
    /\ Library!Init /\ Process!Init /\ Apply!Init
    /\ program # "daemon" => path = "none"
    /\ file = [timing |-> Timing(1, 1), rest |-> "rest"]
    /\ IF program = "capture" THEN Links(Sources, App)!Init /\ links[1].route = <<"side", "app">>
       ELSE Links(App, Sinks)!Init /\ links[1].route = <<"app", "side">>
    /\ program \notin {"playback", "capture"} => worker.initial /\ links[2].route = Nobody

LibraryRuns == program = "library" /\ UNCHANGED <<program, daemonVars, applyVars, linkVars>>
BareRuns == program = "bare" /\ UNCHANGED <<program, daemonVars, applyVars, linkVars>>
ProcessRuns == program = "daemon" /\ UNCHANGED <<program, controlVars, applyVars, linkVars>>
ApplyRuns == program = "admin" /\ UNCHANGED <<program, controlVars, daemonVars, linkVars>>
LinksRest == UNCHANGED <<program, controlVars, daemonVars, applyVars>>
PlaybackRuns == program = "playback" /\ LinksRest
CaptureRuns == program = "capture" /\ LinksRest

LibraryNext == LibraryRuns /\ Library!Next
BareNext == BareRuns /\ Bare!Next
ProcessNext == ProcessRuns /\ Process!Next
ApplyNext == ApplyRuns /\ Apply!Next
PlaybackNext == PlaybackRuns /\ Links(App, Sinks)!Next
CaptureNext == CaptureRuns /\ Links(Sources, App)!Next
ControlNext ==
    LibraryNext \/ BareNext \/ ProcessNext \/ ApplyNext \/ PlaybackNext \/ CaptureNext

ListenerStep == (LibraryRuns /\ Library!ListenerStep(c1)) \/ (BareRuns /\ Bare!ListenerStep(c1))
HandlerStep == (LibraryRuns /\ Library!HandlerStep(c1)) \/ (BareRuns /\ Bare!HandlerStep(c1))
WorkerStep ==
    (PlaybackRuns /\ Links(App, Sinks)!WorkerStep) \/ (CaptureRuns /\ Links(Sources, App)!WorkerStep)

\* The Fairness of each module, while its program runs.
ControlFairness ==
    /\ WF_allVars(ListenerStep) /\ WF_allVars(HandlerStep) /\ WF_allVars(WorkerStep)
    /\ \A d \in Daemons :
         /\ WF_allVars(ProcessRuns /\ Process!MainStep(d))
         /\ WF_allVars(ProcessRuns /\ Process!ListenerStep(d))
         /\ WF_allVars(ProcessRuns /\ Process!HardwareReady(d))
         /\ WF_allVars(ProcessRuns /\ proc[d].stop /\ Process!HardwareEnds(d))
    /\ \A a \in Admins :
         /\ WF_allVars(ApplyRuns /\ Apply!Acquire(a))
         /\ WF_allVars(ApplyRuns /\ Apply!AdminStep(a))

ControlSpec == ControlInit /\ [][ControlNext]_allVars /\ ControlFairness

-----------------------------------------------------------------------------
\* The two ends of the connection agree, whichever program it is.
EndsAgree ==
    /\ program = "library" => Library!TypeOK /\ Library!EndsAgree
    /\ program = "bare" => Bare!TypeOK /\ Bare!EndsAgree
    /\ program = "daemon" => Process!TypeOK

\* A connection gives its slot back.
ConnectionsLeave == Library!ConnectionsLeave

\* A child that inherits a stream, or a connection it does not use, leaves its parent's
\* session alone.
OnlyTheCreatorCloses == [][program = "library" => Library!EndedByItsProgram]_controlVars

\* A daemon leaves the socket of another one alone, unless their listeners start or end
\* together; the reconnecting worker leaves alone the links that are not the daemon's and
\* the routes that were chosen since.
OthersAreLeftAlone ==
    /\ Process!SocketsStand
    /\ [][program = "playback" => Links(App, Sinks)!RoutesRemain]_linkVars
    /\ [][program = "capture" => Links(Sources, App)!RoutesRemain]_linkVars

\* What a run of sidealsa-admin reports is true, its exit code included, and it replaces
\* no text that its user has not seen; a refresh that ends well has settled every link.
ReportsAreTrue ==
    /\ program = "admin" =>
         Apply!TypeOK /\ Apply!ReportStands /\ Apply!EditsAreKept /\ Apply!ClientsAreTold
    /\ program = "playback" => Links(App, Sinks)!TypeOK /\ Links(App, Sinks)!RefreshIsWhole
    /\ program = "capture" => Links(Sources, App)!TypeOK /\ Links(Sources, App)!RefreshIsWhole

\* ServiceReturns of DaemonProcess, AppliesEnd and RestartsAreSeen: the service comes
\* back and a daemon that is told to stop ends, every apply ends, and the worker gets to
\* see every daemon that stays.  Faults and starts are bounded, so that what each of them
\* leads to holds in the end.
Settled ==
    CASE program = "daemon" ->
           /\ unit # "active" \/ \E d \in Daemons : Process!Serving(d)
           /\ \A d \in Daemons : proc[d].stop => proc[d].main = "off"
      [] program = "admin" -> \A a \in Admins : ~Apply!Running(a)
      [] program \in {"playback", "capture"} ->
           \/ ~daemon.serving \/ worker.pc = "exited"
           \/ worker.pc = "watch" /\ worker.client = daemon.number /\ refreshed = daemon.number
      [] OTHER -> TRUE

ServiceReturns == []<>Settled
=============================================================================
