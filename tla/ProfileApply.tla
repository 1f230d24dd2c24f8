---------------------------- MODULE ProfileApply ----------------------------
(*****************************************************************************)
(* sidealsa-admin apply (crates/sidealsa-admin): a new timing is merged into  *)
(* the installed profile, the file is replaced, the service restarted and     *)
(* asked what it has loaded; what fails is undone.  Runs of it exclude each    *)
(* other with a lock; an editor, a crash and a power loss know no lock.       *)
(* A profile's text is its timing and the rest of the document, or Broken;     *)
(* FNV hashes of different texts differ.  systemd, the service and the file    *)
(* system are external.                                                       *)
(*****************************************************************************)
EXTENDS Naturals, FiniteSets

CONSTANTS
    Admins,       \* runs of the program
    Settings, Values,   \* the timing keys and their values
    Assignments,  \* what a user may ask for: values of some keys
    Rests,        \* the device, the ports and the comments
    Valid,        \* the timings that validate
    Accepted,     \* the timings the card takes
    None, Broken,
    Edits,        \* the texts that somebody may save by hand
    MaxFaults     \* bound: failed calls, crashes, power losses and edits by hand

Timings == [Settings -> Values]
WellFormed == [timing : Valid, rest : Rests]
Texts == WellFormed \cup {Broken}

ApplyAssumption ==
    /\ Assignments \subseteq UNION {[keys -> Values] : keys \in SUBSET Settings}
    /\ Accepted \subseteq Valid /\ Valid \subseteq Timings
    /\ Broken \notin WellFormed /\ None \notin Texts \cup Admins
    /\ IsFiniteSet(Admins) /\ Edits \subseteq Texts /\ MaxFaults \in Nat

VARIABLES
    file,      \* the text that open() finds at the profile's path
    disk,      \* the texts one of which a power loss leaves there
    service,   \* sidealsad: [pid, loaded, serving]
    lock,      \* the run that holds /run/sidealsa-admin.lock
    admin,     \* per run, see Fresh
    faults,    \* see MaxFaults
    report     \* history: the report that stands, [text, outcome], or None

vars == <<file, disk, service, lock, admin, faults, report>>

\* edited: history, somebody edited the file while the run held the lock
Fresh == [pc |-> "idle", expected |-> None, assigned |-> [s \in {} |-> 0], timing |-> None,
          original |-> None, previous |-> 0, undo |-> FALSE, unsynced |-> FALSE,
          restarted |-> FALSE, edited |-> FALSE, outcome |-> "none"]
Done(a, outcome) == [Fresh EXCEPT !.pc = "done", !.outcome = outcome,
                                  !.restarted = admin[a].restarted]

Init ==
    /\ file \in WellFormed /\ disk = {file}
    /\ service = [pid |-> 1, loaded |-> file, serving |-> file.timing \in Accepted]
    /\ lock = None /\ admin = [a \in Admins |-> Fresh]
    /\ faults = 0 /\ report = None

Fault == faults < MaxFaults /\ faults' = faults + 1

\* A pid that nobody remembers.
Pids == 0..(Cardinality(Admins) + 2)
NewPid == CHOOSE p \in Pids :
    p # 0 /\ p # service.pid /\ \A a \in Admins : p # admin[a].previous
Starting == [pid |-> NewPid, loaded |-> None, serving |-> FALSE]
Stopped == [pid |-> 0, loaded |-> None, serving |-> FALSE]

Succeeded == {"unchanged", "applied", "rolledBack"}

\* apply_timing: the document keeps everything else.
WithTiming(text, timing) == [text EXCEPT !.timing = timing]
Unchanged(a) == admin[a].timing = admin[a].original.timing

\* The text that the run wants the service to load.
Goal(a) == IF admin[a].undo THEN admin[a].original
           ELSE WithTiming(admin[a].original, admin[a].timing)

\* The process exits and its lock goes.
End(a, outcome) ==
    /\ admin' = [admin EXCEPT ![a] = Done(a, outcome)]
    /\ lock' = None
    /\ report' = IF outcome \in Succeeded /\ ~admin[a].edited
                 THEN [text |-> Goal(a), outcome |-> outcome] ELSE report

Goes(a, pc) ==
    /\ admin' = [admin EXCEPT ![a].pc = pc]
    /\ UNCHANGED <<lock, report>>

-----------------------------------------------------------------------------
(* The run: main, apply_transaction and rollback_after_failure.              *)

\* The user reads the profile with "show", and chooses values for some settings.
Show(a) ==
    /\ admin[a].pc = "idle" /\ file \in WellFormed
    /\ \E chosen \in Assignments :
         admin' = [admin EXCEPT ![a].pc = "lock", ![a].expected = file, ![a].assigned = chosen]
    /\ UNCHANGED <<file, disk, service, lock, faults, report>>

Acquire(a) ==
    /\ admin[a].pc = "lock" /\ lock = None
    /\ lock' = a
    /\ admin' = [admin EXCEPT ![a].pc = "read"]
    /\ UNCHANGED <<file, disk, service, faults, report>>

\* parse_timing_assignments on the timing that is there
Merge(timing, assigned) ==
    [s \in Settings |-> IF s \in DOMAIN assigned THEN assigned[s] ELSE timing[s]]

\* read_snapshot, and the pid that systemd reports now, if it reports one.
ReadSnapshot(a) ==
    /\ admin[a].pc = "read"
    /\ IF file \notin WellFormed THEN End(a, "invalid") /\ UNCHANGED faults
       ELSE /\ \/ admin' = [admin EXCEPT ![a].pc = "check", ![a].previous = service.pid,
                                         ![a].assigned = Fresh.assigned,
                                         ![a].timing = Merge(file.timing, admin[a].assigned)]
                  /\ UNCHANGED faults
               \/ Fault /\ admin' = [admin EXCEPT ![a].pc = "check", ![a].assigned = Fresh.assigned,
                                         ![a].timing = Merge(file.timing, admin[a].assigned)]
            /\ UNCHANGED <<lock, report>>
    /\ UNCHANGED <<file, disk, service>>

\* mutant: nothing is done for a timing that is saved already
CheckDoneIfSame(a) ==
    /\ admin[a].pc = "check"
    /\ CASE file # admin[a].expected -> End(a, "conflict")
         [] file = admin[a].expected /\ admin[a].timing = file.timing ->
              /\ admin' = [admin EXCEPT ![a] = Done(a, "unchanged")] /\ lock' = None
              /\ report' = [text |-> file, outcome |-> "unchanged"]
         [] file = admin[a].expected /\ admin[a].timing \notin Valid -> End(a, "invalid")
         [] OTHER -> /\ admin' = [admin EXCEPT ![a].original = file, ![a].pc = "replace"]
                     /\ UNCHANGED <<lock, report>>
    /\ UNCHANGED <<file, disk, service, faults>>

\* The second read: the revision is the one the user has seen.  A timing that is
\* saved already needs no replacement, but the service is restarted.
Check(a) ==
    /\ admin[a].pc = "check"
    /\ CASE file # admin[a].expected -> End(a, "conflict")
         [] file = admin[a].expected /\ admin[a].timing \notin Valid -> End(a, "invalid")
         [] OTHER -> /\ admin' = [admin EXCEPT ![a].original = file,
                         ![a].pc = IF admin[a].timing = file.timing THEN "restart" ELSE "replace"]
                     /\ UNCHANGED <<lock, report>>
    /\ UNCHANGED <<file, disk, service, faults>>

\* A step failed: the original text is put back, once.
Failed(a) ==
    CASE admin[a].undo -> End(a, "rollbackFailed")
      [] ~admin[a].undo /\ Unchanged(a) -> End(a, "runtime")
      [] OTHER -> /\ admin' = [admin EXCEPT ![a].pc = "replace", ![a].undo = TRUE]
                  /\ UNCHANGED <<lock, report>>

\* atomic_replace: the text is written and synchronized under another name and renamed.
Replace(a) ==
    /\ admin[a].pc = "replace"
    /\ \/ /\ Fault /\ End(a, IF admin[a].undo THEN "rollbackFailed" ELSE "io")
          /\ UNCHANGED <<file, disk>>
       \/ /\ file' = Goal(a) /\ disk' = disk \cup {file'}
          /\ admin' = [admin EXCEPT ![a].pc = "sync"]
          /\ report' = None
          /\ UNCHANGED <<lock, faults>>
    /\ UNCHANGED <<service>>

\* The directory is synchronized; a failure of that is an error that was committed.
Sync(a) ==
    /\ admin[a].pc = "sync"
    /\ \/ disk' = {file} /\ Goes(a, "restart") /\ UNCHANGED faults
       \/ /\ Fault /\ UNCHANGED disk
          /\ IF admin[a].undo
             THEN /\ admin' = [admin EXCEPT ![a].pc = "restart", ![a].unsynced = TRUE]
                  /\ UNCHANGED <<lock, report>>
             ELSE Failed(a)
    /\ UNCHANGED <<file, service>>

\* systemctl restart: the old process is gone when it returns.
Restart(a) ==
    /\ admin[a].pc = "restart"
    /\ \/ /\ service' = Starting /\ UNCHANGED <<faults, lock, report>>
          /\ admin' = [admin EXCEPT ![a].pc = "wait", ![a].restarted = TRUE]
       \/ Fault /\ service' \in {service, Stopped} /\ Failed(a)
    /\ UNCHANGED <<file, disk>>

\* wait_until_ready: the peer of a connection to the socket is the service, another
\* process than before, and answers with the fingerprint of that profile.
Ask(a) ==
    /\ admin[a].pc = "wait"
    /\ service.serving /\ service.pid # admin[a].previous /\ service.loaded = Goal(a)
    /\ End(a, CASE ~admin[a].undo /\ Unchanged(a) -> "unchanged"
                [] ~admin[a].undo /\ ~Unchanged(a) -> "applied"
                [] admin[a].undo /\ ~admin[a].unsynced -> "rolledBack"
                [] OTHER -> "rollbackFailed")
    /\ UNCHANGED <<file, disk, service, faults>>

\* Twelve seconds have passed.
TimeOut(a) ==
    /\ admin[a].pc = "wait" /\ Failed(a)
    /\ UNCHANGED <<file, disk, service, faults>>

Running(a) == admin[a].pc \notin {"idle", "done"}

\* The kernel takes the lock back.  A run that only waits for it leaves no trace.
Crash(a) ==
    /\ lock = a /\ Fault
    /\ admin' = [admin EXCEPT ![a] = Done(a, "crashed")]
    /\ lock' = None
    /\ UNCHANGED <<file, disk, service, report>>

-----------------------------------------------------------------------------
(* Everything else.                                                          *)

\* sidealsad reads the profile.  It is not restarted after EX_CONFIG.
Load ==
    /\ service.pid # 0 /\ service.loaded = None
    /\ service' = IF file \in WellFormed THEN [service EXCEPT !.loaded = file] ELSE Stopped
    /\ UNCHANGED <<file, disk, lock, admin, faults, report>>

Serve ==
    /\ service.loaded # None /\ service.loaded.timing \in Accepted /\ ~service.serving
    /\ service' = [service EXCEPT !.serving = TRUE]
    /\ UNCHANGED <<file, disk, lock, admin, faults, report>>

\* The card does not take the timing, or the process dies: systemd starts the next one.
Die ==
    /\ service.pid # 0 /\ service.loaded # None
    /\ IF service.loaded.timing \in Accepted THEN Fault ELSE UNCHANGED faults
    /\ service' = Starting
    /\ UNCHANGED <<file, disk, lock, admin, report>>

Edit ==
    /\ Fault
    /\ file' \in Edits \ {file}
    /\ disk' = disk \cup {file'}
    /\ report' = None
    /\ admin' = IF lock = None THEN admin ELSE [admin EXCEPT ![lock].edited = TRUE]
    /\ UNCHANGED <<service, lock>>

PowerLoss ==
    /\ Fault
    /\ file' \in disk /\ disk' = {file'}
    /\ service' = Starting /\ lock' = None
    /\ admin' = [a \in Admins |-> IF Running(a) THEN Done(a, "crashed") ELSE admin[a]]
    /\ report' = IF file' = file THEN report ELSE None

AdminStep(a) ==
    \/ ReadSnapshot(a) \/ Check(a) \/ Replace(a) \/ Sync(a)
    \/ Restart(a) \/ Ask(a) \/ TimeOut(a)

Next ==
    \/ \E a \in Admins : Show(a) \/ Acquire(a) \/ AdminStep(a) \/ Crash(a)
    \/ Load \/ Serve \/ Die \/ Edit \/ PowerLoss

\* A run goes on while it can, the kernel hands the lock on, and the clock runs out.
Fairness ==
    \A a \in Admins : WF_vars(Acquire(a)) /\ WF_vars(AdminStep(a))

Spec == Init /\ [][Next]_vars /\ Fairness

-----------------------------------------------------------------------------
Places == {"idle", "lock", "read", "check", "replace", "sync", "restart", "wait", "done"}
Outcomes == {"none", "invalid", "conflict", "io", "unchanged", "applied", "runtime",
             "rolledBack", "rollbackFailed", "crashed"}

TypeOK ==
    /\ file \in Texts /\ disk \subseteq Texts /\ file \in disk
    /\ service.pid \in Pids /\ service.loaded \in WellFormed \cup {None} /\ service.serving \in BOOLEAN
    /\ lock \in Admins \cup {None}
    /\ report \in [text : WellFormed, outcome : Succeeded] \cup {None}
    /\ \A a \in Admins :
         /\ admin[a].pc \in Places /\ admin[a].outcome \in Outcomes
         /\ admin[a].timing \in Timings \cup {None} /\ admin[a].original \in WellFormed \cup {None}
         /\ admin[a].expected \in WellFormed \cup {None}
         /\ admin[a].previous \in Pids
    /\ faults \in 0..MaxFaults

\* A run that reported success, or that its failure was undone, told the truth: the file
\* holds the text it named, any process of the service has loaded that text and, if the
\* run wrote it, a power loss keeps it, for as long as nobody changes the file.
ReportStands ==
    report # None =>
        /\ file = report.text
        /\ service.loaded \in {None, file}
        /\ report.outcome # "unchanged" => disk = {file}

\* A run that is about to replace the file replaces the text its user has seen, or its
\* own, unless somebody edited it without the lock.
EditsAreKept ==
    \A a \in Admins : admin[a].pc = "replace" =>
        \/ admin[a].edited
        \/ file = IF admin[a].undo THEN WithTiming(admin[a].original, admin[a].timing)
                  ELSE admin[a].expected

\* error_exit_code: a run that restarted the service never exits with the code that says
\* that clients have nothing to refresh.
ClientsAreTold ==
    \A a \in Admins : admin[a].restarted => admin[a].outcome \notin {"invalid", "conflict", "io"}

\* Every run ends, however often it has to wait.
AppliesEnd == \A a \in Admins : Running(a) ~> admin[a].pc = "done"
=============================================================================
