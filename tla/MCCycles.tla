------------------------------ MODULE MCCycles ------------------------------
(* What runs once per cycle, one part at a time: the commit barrier of the    *)
(* playback thread with two session threads, whose counters wrap at 8; the    *)
(* wakes between the hardware and a client with rings of two slots; and the   *)
(* ASIO worker with a host that calls the driver.                             *)
EXTENDS CommitBarrier

CONSTANTS s1, s2, h1, Kinds, Slots, Old, Hosts, MaxGeneration, None

VARIABLE part    \* the one that runs
VARIABLES live, start, overrun, cycle, captures, playbacks, heard, ready, late, hpc,
          kind, cpc, least, last, got, spc
VARIABLES state, stream, playback, worker, quiesce, observed, lifecycle, call, released,
          gate, stop, w, period, link

barrierVars == <<started, completed, waiting, target, polled>>
wakeVars == <<live, start, overrun, cycle, captures, playbacks, heard, ready, late, hpc,
              kind, cpc, least, last, got, spc>>
asioVars == <<state, stream, playback, worker, quiesce, observed, lifecycle, call, released,
              gate, stop, w, period, link>>
allVars == <<part, barrierVars, wakeVars, asioVars>>

Wakes == INSTANCE CycleWake
Asio == INSTANCE AsioDriver WITH cycle <- period

ASSUME CyclesAssumption == Wakes!WakeAssumption /\ Asio!AsioAssumption

CyclesInit ==
    /\ part \in {"barrier", "wakes", "asio"}
    /\ Init /\ Wakes!Init /\ Asio!Init
    /\ part # "barrier" => started = 0
    /\ part # "wakes" => kind = "wait"

BarrierRuns == part = "barrier" /\ UNCHANGED <<part, wakeVars, asioVars>>
WakesRun == part = "wakes" /\ UNCHANGED <<part, barrierVars, asioVars>>
AsioRuns == part = "asio" /\ UNCHANGED <<part, barrierVars, wakeVars>>

BarrierNext == BarrierRuns /\ Next
WakesNext == WakesRun /\ Wakes!Next
AsioNext == AsioRuns /\ Asio!Next
CyclesNext == BarrierNext \/ WakesNext \/ AsioNext

\* The Fairness of each module, while its part runs.
CyclesFairness ==
    /\ WF_allVars(BarrierRuns /\ End)
    /\ \A s \in Sessions : WF_allVars(BarrierRuns /\ Poll(s))
    /\ WF_allVars(WakesRun /\ Wakes!HardwareStep)
    /\ WF_allVars(WakesRun /\ Wakes!Deadline)
    /\ WF_allVars(WakesRun /\ Wakes!ClientStep)
    /\ \A k \in Asio!Callers : WF_allVars(AsioRuns /\ Asio!CallStep(k))
    /\ WF_allVars(AsioRuns /\ Asio!Enter(Asio!Cleanup, "close"))
    /\ WF_allVars(AsioRuns /\ Asio!WorkerStep)
    /\ WF_allVars(AsioRuns /\ Asio!EngineCycle)

CyclesSpec == CyclesInit /\ [][CyclesNext]_allVars /\ CyclesFairness

-----------------------------------------------------------------------------
(* Both directions keep their wakes, and no period is returned twice.         *)
WakesAreKept ==
    Wakes!TypeOK /\ Wakes!ClientIsWoken /\ Wakes!HardwareIsWoken /\ Wakes!PeriodsAreFresh

(* The host is called only while it runs the driver.                          *)
HostIsLeftAlone == Asio!HostIsLeftAlone

(* Stop returns when the worker is done, and nothing of the stream is lost.   *)
StreamStops == Asio!TypeOK /\ Asio!StopDrains /\ Asio!StreamIsKept

(* A session that waits for a commit goes on (WaitEnds of CommitBarrier), a    *)
(* client that sleeps is woken (WakesKeepComing of CycleWake), a driver that  *)
(* was released is freed (ReleaseEnds of AsioDriver): only one part runs.      *)
(* The sessions are alike, and s1 stands for each of them.                    *)
Waits == CASE part = "barrier" -> s1 \in waiting
           [] part = "wakes" -> cpc = "asleep"
           [] part = "asio" -> released /\ state # "Freed"
WaitsEnd == Waits ~> ~Waits
=============================================================================
