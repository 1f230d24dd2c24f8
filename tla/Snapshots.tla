------------------------------ MODULE Snapshots ------------------------------
(*****************************************************************************)
(* Records that are read without a lock while they are written:               *)
(*   calibration  HardwareTimeline.linked_phase_*, written by either duplex   *)
(*                worker (crates/sidealsa-core/src/timeline.rs)               *)
(*   timing       HardwareTimeline.pro_timing: a slot is labelled with the    *)
(*                capture sequence it belongs to                              *)
(*   miss         ProDiagnostics, whose reader gives up after three tries     *)
(*                (crates/sidealsa-daemon/src/diagnostics.rs)                 *)
(*   position     PositionSnapshot of the ASIO driver                         *)
(*                (crates/sidealsa-asio/src/lib.rs)                           *)
(* The epoch is odd while a record is written; a slot's label is u64::MAX     *)
(* then, which is the odd epoch here.  Stores and loads of fields are relaxed *)
(* and happen in any order between the two accesses of the epoch, which the   *)
(* fences keep on their sides.  The n-th record has the value n everywhere.   *)
(*****************************************************************************)
EXTENDS Naturals

CONSTANTS
    Kinds, Writers, Readers, Fields,
    MaxEpoch    \* bound: no write begins at this epoch

SingleWriter == {"timing", "miss", "position"}
Tries == 3      \* of a reader of the last miss

VARIABLES
    kind,       \* which of the records it is
    epoch,      \* linked_phase_result_epoch, version, sequence
    field,      \* the fields
    stored,     \* per writer: the fields it has stored
    writing,    \* the writers between their two updates of the epoch
    reader      \* per reader: [pc, start, got, loaded, tries]

vars == <<kind, epoch, field, stored, writing, reader>>

Idle == [pc |-> "idle", start |-> 0, got |-> [f \in Fields |-> 0], loaded |-> {}, tries |-> 0]

Init ==
    /\ kind \in Kinds
    /\ epoch = 0 /\ field = [f \in Fields |-> 0]
    /\ stored = [w \in Writers |-> {}] /\ writing = {}
    /\ reader = [r \in Readers |-> Idle]

Even(n) == n % 2 = 0

\* mutant: a second writer does not look whether the epoch is odd
AcquireOnOdd(w) ==
    /\ w \notin writing /\ epoch < MaxEpoch
    /\ kind \in SingleWriter => writing = {}
    /\ epoch' = epoch + 1
    /\ writing' = writing \cup {w} /\ stored' = [stored EXCEPT ![w] = {}]
    /\ UNCHANGED <<kind, field, reader>>

\* The first update of the epoch: a compare-and-exchange where there are two writers;
\* the others have one writer, in one thread or, of the position, one after the other.
Acquire(w) ==
    /\ w \notin writing /\ epoch < MaxEpoch
    /\ IF kind \in SingleWriter THEN writing = {} ELSE Even(epoch)
    /\ epoch' = epoch + 1
    /\ writing' = writing \cup {w} /\ stored' = [stored EXCEPT ![w] = {}]
    /\ UNCHANGED <<kind, field, reader>>

Store(w, f) ==
    /\ w \in writing /\ f \notin stored[w]
    /\ field' = [field EXCEPT ![f] = (epoch + 1) \div 2]
    /\ stored' = [stored EXCEPT ![w] = @ \cup {f}]
    /\ UNCHANGED <<kind, epoch, writing, reader>>

Release(w) ==
    /\ w \in writing /\ stored[w] = Fields
    /\ epoch' = epoch + 1 /\ writing' = writing \ {w}
    /\ UNCHANGED <<kind, field, stored, reader>>

-----------------------------------------------------------------------------
\* A try has failed.  A reader of a slot wanted one label, which it is too late for.
Again(t) ==
    CASE kind = "timing" -> [t EXCEPT !.pc = "none"]
      [] kind = "miss" -> [t EXCEPT !.pc = IF t.tries = Tries THEN "none" ELSE "first"]
      [] OTHER -> [t EXCEPT !.pc = "first"]

Begin(r) ==
    /\ reader[r].pc \in {"idle", "done", "none"}
    /\ reader' = [reader EXCEPT ![r] = [Idle EXCEPT !.pc = "first"]]
    /\ UNCHANGED <<kind, epoch, field, stored, writing>>

First(r) ==
    /\ reader[r].pc = "first"
    /\ LET t == [reader[r] EXCEPT !.tries = IF kind = "miss" THEN @ + 1 ELSE @] IN
       reader' = [reader EXCEPT ![r] =
                     IF Even(epoch) THEN [t EXCEPT !.pc = "load", !.start = epoch, !.loaded = {}]
                     ELSE Again(t)]
    /\ UNCHANGED <<kind, epoch, field, stored, writing>>

Load(r, f) ==
    /\ reader[r].pc = "load" /\ f \notin reader[r].loaded
    /\ reader' = [reader EXCEPT ![r].got[f] = field[f], ![r].loaded = @ \cup {f}]
    /\ UNCHANGED <<kind, epoch, field, stored, writing>>

Check(r) ==
    /\ reader[r].pc = "load" /\ reader[r].loaded = Fields
    /\ reader' = [reader EXCEPT ![r] = IF epoch = reader[r].start THEN [@ EXCEPT !.pc = "done"]
                                       ELSE Again(@)]
    /\ UNCHANGED <<kind, epoch, field, stored, writing>>

WriterStep(w) == Acquire(w) \/ (\E f \in Fields : Store(w, f)) \/ Release(w)
ReaderStep(r) == Begin(r) \/ First(r) \/ (\E f \in Fields : Load(r, f)) \/ Check(r)

Next == (\E w \in Writers : WriterStep(w)) \/ (\E r \in Readers : ReaderStep(r))

Spec == Init /\ [][Next]_vars

-----------------------------------------------------------------------------
Reading == [pc : {"idle", "first", "load", "done", "none"}, start : Nat,
            got : [Fields -> Nat], loaded : SUBSET Fields, tries : Nat]

TypeOK ==
    /\ kind \in Kinds
    /\ epoch \in Nat
    /\ field \in [Fields -> Nat]
    /\ stored \in [Writers -> SUBSET Fields] /\ writing \in SUBSET Writers
    /\ reader \in [Readers -> Reading]

\* A reader never returns a mixture: every field it returns is of the one record that
\* stood between its two looks at the epoch (linked_phase_calibration, snapshot,
\* pro_capture_elapsed_nanos, PositionSnapshot::load).
SnapshotsAreWhole ==
    \A r \in Readers : reader[r].pc = "done" =>
        \A f \in Fields : reader[r].got[f] = reader[r].start \div 2
=============================================================================
