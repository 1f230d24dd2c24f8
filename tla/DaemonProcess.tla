---------------------------- MODULE DaemonProcess ----------------------------
(*****************************************************************************)
(* The daemon as a process (crates/sidealsa-daemon/src/main.rs): its main     *)
(* thread, the hardware thread and the listener of the control socket with    *)
(* the file that socket leaves behind (control.rs).  Several daemons may be   *)
(* started for one socket path; one of them is the service that systemd       *)
(* restarts (packaging/sidealsad.service.in).  Cards open for one process     *)
(* at a time; systemd and the cards are external.                             *)
(*****************************************************************************)
EXTENDS Naturals

CONSTANTS
    Daemons,
    Service,      \* the daemon that systemd runs
    CardOf,       \* the card of each daemon's profile
    None,
    MaxFaults     \* bound: manual starts, kills, failures and removals of the file

ProcessAssumption ==
    /\ Service \in Daemons /\ DOMAIN CardOf = Daemons /\ MaxFaults \in Nat
    /\ {"none", "stale", None} \cap Daemons = {}
Cards == {CardOf[d] : d \in Daemons}

VARIABLES
    proc,     \* per daemon: [main, hardware, ready, stop, listener], with
              \*   kept   the file at the path is the one its listener remembers
              \*   alone  history: no other listener was amid its own start or removal
              \*          when this one began to listen
    path,     \* the file at the socket path: none, stale, or the socket of a daemon
    holder,   \* per card: the process that has it open
    unit,     \* the systemd unit: active, failed, stopped
    faults    \* see MaxFaults

vars == <<proc, path, holder, unit, faults>>

Off == [main |-> "off", hardware |-> "none", ready |-> FALSE, stop |-> FALSE,
        listener |-> "none", kept |-> FALSE, alone |-> FALSE]

Init ==
    /\ proc = [d \in Daemons |-> Off]
    /\ path \in {"none", "stale"} /\ holder = [k \in Cards |-> None]
    /\ unit = "active" /\ faults = 0

Fault == faults < MaxFaults /\ faults' = faults + 1

\* A socket is listened on, and its descriptor is still open.
Listening(d) == proc[d].listener \in {"stat", "accept", "compare", "unlink"}
Accepting(d) == proc[d].listener = "accept"
Finished(d) == proc[d].hardware \in {"ended", "failed", "unqualified", "panicked"}
Serving(d) == Accepting(d) /\ ~Finished(d)

\* The process ends with a status: descriptors are closed, the file stays.  The unit
\* is restarted on failure, but not after EX_CONFIG.
Exit(d, status) ==
    /\ proc' = [proc EXCEPT ![d] = Off]
    /\ path' = IF path = d THEN "stale" ELSE path
    /\ holder' = [k \in Cards |-> IF holder[k] = d THEN None ELSE holder[k]]
    /\ unit' = IF d # Service \/ unit = "stopped" THEN unit
               ELSE CASE status = 0 -> "stopped" [] status = 78 -> "failed" [] OTHER -> unit

Start(d) ==
    /\ proc[d].main = "off"
    /\ IF d = Service THEN unit = "active" /\ UNCHANGED faults ELSE Fault
    /\ proc' = [proc EXCEPT ![d].main = "open"]
    /\ UNCHANGED <<path, holder, unit>>

\* SIGINT and SIGTERM before their handlers are registered, SIGKILL, a crash.
Killed(d) == proc[d].main # "off" /\ Fault /\ Exit(d, 137)

Terminated(d) ==
    /\ proc[d].main \notin {"off", "open"} /\ ~proc[d].stop /\ Fault
    /\ proc' = [proc EXCEPT ![d].stop = TRUE]
    /\ unit' = IF d = Service THEN "stopped" ELSE unit
    /\ UNCHANGED <<path, holder>>

-----------------------------------------------------------------------------
(* main.                                                                     *)

\* The arguments and the profile are read, the card is opened.
Open(d) ==
    /\ proc[d].main = "open"
    /\ \/ Fault /\ \E status \in {78, 2, 1} : Exit(d, status)
       \/ holder[CardOf[d]] # None /\ Exit(d, 1) /\ UNCHANGED faults
       \/ /\ holder[CardOf[d]] = None
          /\ holder' = [holder EXCEPT ![CardOf[d]] = d]
          /\ proc' = [proc EXCEPT ![d].main = "wait", ![d].hardware = "starting"]
          /\ UNCHANGED <<path, unit, faults>>

\* The hardware is ready: the listener is started.
Serve(d) ==
    /\ proc[d].main = "wait" /\ proc[d].ready /\ ~Finished(d)
    /\ proc' = [proc EXCEPT ![d].main = "run", ![d].listener = "look"]
    /\ UNCHANGED <<path, holder, unit, faults>>

Abort(d) ==
    /\ proc[d].main = "wait"
    /\ Finished(d) \/ (proc[d].stop /\ ~proc[d].ready)
    /\ proc' = [proc EXCEPT ![d].main = "abort", ![d].stop = TRUE]
    /\ UNCHANGED <<path, holder, unit, faults>>

Aborted(d) ==
    /\ proc[d].main = "abort" /\ Finished(d)
    /\ Exit(d, IF proc[d].hardware = "unqualified" THEN 78 ELSE 1)
    /\ UNCHANGED faults

\* mutant: the listener is not told that the hardware has ended
JoinHardwareQuietly(d) ==
    /\ proc[d].main = "run" /\ Finished(d)
    /\ IF proc[d].hardware = "panicked" THEN Exit(d, 1)
       ELSE /\ proc' = [proc EXCEPT ![d].main = "join"]
            /\ UNCHANGED <<path, holder, unit>>
    /\ UNCHANGED faults

\* A panic of the hardware thread ends the process at once.
JoinHardware(d) ==
    /\ proc[d].main = "run" /\ Finished(d)
    /\ IF proc[d].hardware = "panicked" THEN Exit(d, 1)
       ELSE /\ proc' = [proc EXCEPT ![d].main = "join", ![d].stop = TRUE]
            /\ UNCHANGED <<path, holder, unit>>
    /\ UNCHANGED faults

JoinListener(d) ==
    /\ proc[d].main = "join" /\ proc[d].listener \in {"ended", "failed"}
    /\ Exit(d, IF proc[d].hardware = "unqualified" THEN 78
               ELSE IF "failed" \in {proc[d].hardware, proc[d].listener} THEN 1 ELSE 0)
    /\ UNCHANGED faults

-----------------------------------------------------------------------------
(* The hardware thread: run_pro_with_ready and stop of the engine, which      *)
(* closes the card when the thread ends.                                      *)

HardwareReady(d) ==
    /\ proc[d].hardware = "starting"
    /\ proc' = [proc EXCEPT ![d].hardware = "running", ![d].ready = TRUE]
    /\ UNCHANGED <<path, holder, unit, faults>>

HardwareEnds(d) ==
    /\ proc[d].hardware \in {"starting", "running"}
    /\ \E result \in {"ended", "failed", "unqualified", "panicked"} :
         /\ IF result = "ended" THEN proc[d].stop /\ UNCHANGED faults ELSE Fault
         /\ proc' = [proc EXCEPT ![d].hardware = result]
    /\ holder' = [holder EXCEPT ![CardOf[d]] = None]
    /\ UNCHANGED <<path, unit>>

-----------------------------------------------------------------------------
(* run_control_listener.  While one daemon's listener starts or ends, another *)
(* may have opened the card and start its own: each step below is one system  *)
(* call on the path, whatever file is there by then.                          *)

\* The descriptors and the card are left alone; a failed listener sets stop.
Now(d, next) ==
    /\ proc' = [proc EXCEPT ![d].listener = next,
                            ![d].stop = IF next = "failed" THEN TRUE ELSE @]
    /\ UNCHANGED <<holder, unit, faults>>
Go(d, next) == Now(d, next) /\ UNCHANGED path
At(d, pc) == proc[d].listener = pc

\* A file that is removed does not come back: nobody has its device and inode any
\* more.  Bound: the file system gives no inode number out again.
Forgotten(p) == [d \in Daemons |-> [p[d] EXCEPT !.kept = FALSE]]
Remove(d, next) ==
    /\ proc' = Forgotten([proc EXCEPT ![d].listener = next]) /\ path' = "none"
    /\ UNCHANGED <<holder, unit, faults>>

\* remove_stale_socket: symlink_metadata, connect, remove_file.
Look(d) == At(d, "look") /\ Go(d, IF path = "none" THEN "bind" ELSE "connect")

Connect(d) ==
    /\ At(d, "connect")
    /\ Go(d, IF path \in Daemons /\ Listening(path) THEN "failed" ELSE "remove")

RemoveStale(d) ==
    /\ At(d, "remove")
    /\ IF path = "none" THEN Go(d, "failed") ELSE Remove(d, "bind")

\* UnixListener::bind: bind makes the file, listen lets it be connected to.
Bind(d) ==
    /\ At(d, "bind")
    /\ IF path = "none" THEN Now(d, "listen") /\ path' = d ELSE Go(d, "failed")

\* Another listener that has found the path unused or its own, or is about to.
Unsettled(e) == proc[e].kept \/ proc[e].listener \in {"remove", "listen", "stat", "unlink"}

Listen(d) ==
    /\ At(d, "listen")
    /\ proc' = [proc EXCEPT ![d].listener = "stat",
                            ![d].alone = \A e \in Daemons \ {d} : ~Unsettled(e)]
    /\ UNCHANGED <<path, holder, unit, faults>>

\* The device and inode are kept of the file that is at the path now, whoever made it.
Stat(d) ==
    /\ At(d, "stat")
    /\ IF path = "none" THEN Go(d, "failed")
       ELSE /\ proc' = [proc EXCEPT ![d].listener = "accept", ![d].kept = TRUE]
            /\ UNCHANGED <<path, holder, unit, faults>>

\* accept fails for good (a fault), or stop is set.
Leave(d) ==
    /\ At(d, "accept")
    /\ \/ proc[d].stop /\ Go(d, "compare")
       \/ /\ Fault
          /\ proc' = [proc EXCEPT ![d].listener = "failed", ![d].stop = TRUE]
          /\ UNCHANGED <<path, holder, unit>>

\* Device and inode are compared with the ones kept; the removal is of the path.
Compare(d) == At(d, "compare") /\ Go(d, IF proc[d].kept THEN "unlink" ELSE "ended")

Unlink(d) == At(d, "unlink") /\ Remove(d, "ended")

\* Somebody removes the file.
FileRemoved ==
    /\ path # "none" /\ Fault /\ path' = "none" /\ proc' = Forgotten(proc)
    /\ UNCHANGED <<holder, unit>>

-----------------------------------------------------------------------------
MainStep(d) == Start(d) \/ Open(d) \/ Serve(d) \/ Abort(d) \/ Aborted(d) \/ JoinHardware(d)
               \/ JoinListener(d)
HardwareStep(d) == HardwareReady(d) \/ HardwareEnds(d)
ListenerStep(d) == Look(d) \/ Connect(d) \/ RemoveStale(d) \/ Bind(d) \/ Listen(d) \/ Stat(d)
                   \/ Leave(d) \/ Compare(d) \/ Unlink(d)

Next ==
    \/ \E d \in Daemons : MainStep(d) \/ HardwareStep(d) \/ ListenerStep(d)
                          \/ Killed(d) \/ Terminated(d)
    \/ FileRemoved

\* Threads are scheduled, systemd restarts the service, the hardware gets ready or
\* obeys stop.
Fairness ==
    \A d \in Daemons :
        /\ WF_vars(MainStep(d)) /\ WF_vars(ListenerStep(d))
        /\ WF_vars(HardwareReady(d)) /\ WF_vars(proc[d].stop /\ HardwareEnds(d))

Spec == Init /\ [][Next]_vars /\ Fairness

-----------------------------------------------------------------------------
TypeOK ==
    /\ proc \in [Daemons -> [main : {"off", "open", "wait", "abort", "run", "join"},
                             hardware : {"none", "starting", "running", "ended", "failed",
                                         "unqualified", "panicked"},
                             ready : BOOLEAN, stop : BOOLEAN,
                             listener : {"none", "look", "connect", "remove", "bind", "listen",
                                         "stat", "accept", "compare", "unlink", "ended", "failed"},
                             kept : BOOLEAN, alone : BOOLEAN]]
    /\ path \in {"none", "stale"} \cup Daemons
    /\ holder \in [Cards -> Daemons \cup {None}]
    /\ unit \in {"active", "failed", "stopped"} /\ faults \in 0 .. MaxFaults

\* No daemon takes away the socket another one accepts on, not when it looks for a
\* stale one and not when it removes its own, when that one began to listen while no
\* other listener was unsettled (remove_stale_socket and the end of
\* run_control_listener): it is never found stale, nobody else remembers it as its
\* own.  Nothing in the code keeps a listener from beginning while another one is
\* unsettled, and then its socket may be taken away.
SocketsStand ==
    [][\A d \in Daemons :
         path = d /\ Accepting(d) /\ proc[d].alone /\ path' # d
           => path' = "stale" \/ faults' # faults]_vars

\* After every kill, panic and failed start a daemon serves its card again, unless
\* the service was stopped, or refused its configuration or its loopback: a stale file
\* never keeps the daemon from starting, and a stopped one ends.
ServiceReturns ==
    /\ []<>(unit # "active" \/ \E d \in Daemons : Serving(d))
    /\ \A d \in Daemons : proc[d].stop ~> proc[d].main = "off"
=============================================================================
