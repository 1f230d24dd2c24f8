---------------------------- MODULE StreamsProofs ----------------------------
(* Proofs about three components of MCStreams: the records that are read      *)
(* without a lock (Snapshots), the capture side of the ALSA plugin             *)
(* (AlsaCapture), and the connections to the control socket                    *)
(* (ControlConnection).  Each has an inductive invariant over its own          *)
(* variables; a step of the harness is a step of the component or leaves its   *)
(* variables alone.                                                            *)
EXTENDS MCStreams, FiniteSetTheorems, SequenceTheorems, TLAPS

(* A write is in progress exactly while the epoch is odd, by one writer; the   *)
(* fields are of the last complete record, or of the next where that writer    *)
(* has stored them.                                                            *)
WriteInv ==
    /\ Records!Even(epoch) <=> writing = {}
    /\ \A v, w \in writing : v = w
    /\ \A f \in Fields : Records!Even(epoch) => field[f] = epoch \div 2
    /\ \A w \in writing, f \in Fields :
          field[f] = IF f \in stored[w] THEN (epoch + 1) \div 2 ELSE (epoch - 1) \div 2

(* What a reader has loaded is of the record it began with, as long as the     *)
(* epoch has not moved since; the epoch never moves back.                      *)
ReadInv ==
    \A r \in Readers :
        /\ reader[r].pc \in {"load", "done"} =>
              Records!Even(reader[r].start) /\ reader[r].start <= epoch
        /\ reader[r].pc = "load" /\ reader[r].start = epoch =>
              \A f \in reader[r].loaded : reader[r].got[f] = reader[r].start \div 2
        /\ reader[r].pc = "done" => reader[r].loaded = Fields
        /\ reader[r].pc = "done" =>
              \A f \in Fields : reader[r].got[f] = reader[r].start \div 2

RecordInv == Records!TypeOK /\ WriteInv /\ ReadInv

(* Parity of an epoch and of its neighbours.                                   *)
LEMMA Parity ==
    ASSUME NEW n \in Nat
    PROVE  /\ Records!Even(n) => ~Records!Even(n + 1) /\ n \div 2 = (n + 1 - 1) \div 2
           /\ ~Records!Even(n) => Records!Even(n + 1) /\ n >= 1
           /\ n \div 2 \in Nat /\ (n + 1) \div 2 \in Nat
  BY SMT DEF Records!Even

LEMMA RecordInit == Records!Init => RecordInv
  <1> SUFFICES ASSUME Records!Init PROVE RecordInv
    OBVIOUS
  <1>1. Records!Even(0) /\ 0 \div 2 = 0
    BY SMT DEF Records!Even
  <1>2. Records!TypeOK
    BY DEF Records!Init, Records!TypeOK, Records!Idle, Records!Reading
  <1>3. WriteInv
    BY <1>1 DEF Records!Init, WriteInv
  <1>4. ReadInv
    BY <1>1 DEF Records!Init, ReadInv, Records!Idle
  <1> QED BY <1>2, <1>3, <1>4 DEF RecordInv

(* A writer's steps.                                                           *)
LEMMA AcquireInv ==
  ASSUME RecordInv, NEW w \in Writers, Records!Acquire(w)
  PROVE  RecordInv'
  <1> USE DEF RecordInv, Records!Reading
  <1>1. Records!Even(epoch) /\ epoch \in Nat
    BY DEF Records!Acquire, WriteInv, Records!TypeOK
  <1>2. ~Records!Even(epoch') /\ epoch' = epoch + 1 /\ epoch' \in Nat
        /\ epoch \div 2 = (epoch' - 1) \div 2
    BY <1>1, Parity DEF Records!Acquire
  <1>3. writing = {} /\ writing' = {w} /\ stored'[w] = {}
    BY <1>1 DEF Records!Acquire, WriteInv, Records!TypeOK
  <1>4. Records!TypeOK'
    BY <1>2 DEF Records!Acquire, Records!TypeOK
  <1>5. WriteInv'
    <2>1. \A f \in Fields : field'[f] = (epoch' - 1) \div 2
      BY <1>1, <1>2 DEF Records!Acquire, WriteInv
    <2>2. ~Records!Even(epoch)'
      BY <1>2 DEF Records!Even
    <2> QED BY <2>1, <2>2, <1>3 DEF WriteInv
  <1>6. ReadInv'
    BY <1>1, <1>2, SMTT(30) DEF Records!Acquire, ReadInv, Records!TypeOK
  <1> QED BY <1>4, <1>5, <1>6

LEMMA StoreInv ==
  ASSUME RecordInv, NEW w \in Writers, NEW f \in Fields, Records!Store(w, f)
  PROVE  RecordInv'
  <1> USE DEF RecordInv, Records!Reading
  <1>1. epoch \in Nat /\ ~Records!Even(epoch) /\ w \in writing /\ epoch' = epoch
        /\ writing' = writing
    BY DEF Records!Store, WriteInv, Records!TypeOK
  <1>2. (epoch + 1) \div 2 \in Nat /\ ~Records!Even(epoch)'
    BY <1>1, Parity DEF Records!Even
  <1>3. Records!TypeOK'
    BY <1>2 DEF Records!Store, Records!TypeOK
  <1>4. WriteInv'
    <2>1. ASSUME NEW v \in writing', NEW g \in Fields
          PROVE  field'[g] = IF g \in stored'[v]
                             THEN (epoch' + 1) \div 2 ELSE (epoch' - 1) \div 2
      <3>1. v = w
        BY <1>1, <2>1 DEF WriteInv
      <3>2. CASE g = f
        BY <3>1, <3>2, <1>1 DEF Records!Store, Records!TypeOK
      <3>3. CASE g # f
        BY <3>1, <3>3, <1>1 DEF Records!Store, Records!TypeOK, WriteInv
      <3> QED BY <3>2, <3>3
    <2> QED BY <2>1, <1>1, <1>2 DEF WriteInv
  <1>5. ReadInv'
    BY <1>1 DEF Records!Store, ReadInv, Records!TypeOK
  <1> QED BY <1>3, <1>4, <1>5

LEMMA ReleaseInv ==
  ASSUME RecordInv, NEW w \in Writers, Records!Release(w)
  PROVE  RecordInv'
  <1> USE DEF RecordInv, Records!Reading
  <1>1. epoch \in Nat /\ ~Records!Even(epoch) /\ writing = {w} /\ writing' = {}
    BY DEF Records!Release, WriteInv, Records!TypeOK
  <1>2. epoch' = epoch + 1 /\ epoch' \in Nat /\ Records!Even(epoch')
    BY <1>1, Parity DEF Records!Release
  <1>3. Records!TypeOK'
    BY <1>2, <1>1 DEF Records!Release, Records!TypeOK
  <1>4. WriteInv'
    <2>1. \A f \in Fields : field'[f] = epoch' \div 2
      BY <1>1, <1>2 DEF Records!Release, WriteInv
    <2>2. Records!Even(epoch)'
      BY <1>2 DEF Records!Even
    <2> QED BY <1>1, <2>1, <2>2 DEF WriteInv
  <1>5. ReadInv'
    <2> SUFFICES ASSUME NEW r \in Readers PROVE ReadInv!(r)'
      BY DEF ReadInv
    <2>1. reader' = reader /\ (reader[r].pc \in {"load", "done"} => reader[r].start <= epoch)
          /\ (reader[r].start \in Nat)
      BY DEF Records!Release, ReadInv, Records!TypeOK
    <2>2. ReadInv!(r)
      BY DEF ReadInv
    <2> QED BY <2>1, <2>2, <1>1, <1>2
  <1> QED BY <1>3, <1>4, <1>5

(* A reader's steps change nothing but that reader.                            *)
LEMMA WriteKept ==
    ASSUME WriteInv, UNCHANGED <<kind, epoch, field, stored, writing>> PROVE WriteInv'
  BY DEF WriteInv, Records!Even

LEMMA ReaderInv ==
  ASSUME RecordInv, NEW r \in Readers, Records!ReaderStep(r)
  PROVE  RecordInv'
  <1> USE DEF RecordInv, Records!Reading
  <1>0. epoch \in Nat /\ UNCHANGED <<kind, epoch, field, stored, writing>>
    BY DEF Records!ReaderStep, Records!Begin, Records!First, Records!Load, Records!Check,
       Records!TypeOK
  <1>1. WriteInv'
    BY <1>0, WriteKept
  <1>2. ASSUME NEW t, t \in Records!Reading,
               reader' = [reader EXCEPT ![r] = t],
               t.pc \in {"load", "done"} => Records!Even(t.start) /\ t.start <= epoch,
               t.pc = "load" /\ t.start = epoch =>
                   \A f \in t.loaded : t.got[f] = t.start \div 2,
               t.pc = "done" => t.loaded = Fields
                                /\ \A f \in Fields : t.got[f] = t.start \div 2
        PROVE  Records!TypeOK' /\ ReadInv'
    <2>1. Records!TypeOK'
      BY <1>2, <1>0 DEF Records!TypeOK
    <2>2. reader'[r] = t /\ \A q \in Readers : q # r => reader'[q] = reader[q]
      BY <1>2 DEF Records!TypeOK
    <2>3. ReadInv'
      BY <2>2, <1>2, <1>0 DEF ReadInv, Records!Even
    <2> QED BY <2>1, <2>3
  <1>t. reader[r] \in Records!Reading
    BY DEF Records!TypeOK
  <1>3. CASE Records!Begin(r)
    <2> DEFINE t == [Records!Idle EXCEPT !.pc = "first"]
    <2>1. reader' = [reader EXCEPT ![r] = t] /\ t.pc = "first"
      BY <1>3 DEF Records!Begin, Records!Idle
    <2>2. t \in Records!Reading
      BY DEF Records!Idle
    <2> QED BY <2>1, <2>2, <1>2, <1>1
  <1>4. CASE Records!First(r)
    <2> DEFINE u == [reader[r] EXCEPT !.tries = IF kind = "miss" THEN @ + 1 ELSE @]
               t == IF Records!Even(epoch)
                    THEN [u EXCEPT !.pc = "load", !.start = epoch, !.loaded = {}]
                    ELSE Records!Again(u)
    <2>1. reader' = [reader EXCEPT ![r] = t]
      BY <1>4 DEF Records!First
    <2>2. t \in Records!Reading
      <3>1. u \in Records!Reading
        BY <1>t
      <3>2. [u EXCEPT !.pc = "load", !.start = epoch, !.loaded = {}]
              \in Records!Reading
        BY <3>1, <1>0
      <3>3. Records!Again(u) \in Records!Reading
        BY <3>1 DEF Records!Again
      <3> QED BY <3>2, <3>3
    <2>3. CASE Records!Even(epoch)
      <3>1. t.pc = "load" /\ t.start = epoch /\ t.loaded = {}
        BY <2>3, <1>t
      <3> HIDE DEF t, u
      <3>2. t.start <= epoch /\ Records!Even(t.start)
        BY <3>1, <2>3, <1>0
      <3>3. \A f \in t.loaded : t.got[f] = t.start \div 2
        BY <3>1
      <3> QED BY <3>1, <3>2, <3>3, <2>1, <2>2, <1>1, <1>2
    <2>4. CASE ~Records!Even(epoch)
      <3>1. t.pc \in {"none", "first"}
        <4>1. t = Records!Again(u)
          BY <2>4
        <4>2. u \in Records!Reading
          BY <1>t
        <4> HIDE DEF t, u
        <4> QED BY <4>1, <4>2 DEF Records!Again
      <3> QED BY <3>1, <2>1, <2>2, <1>1, <1>2
    <2> QED BY <2>3, <2>4
  <1>5. ASSUME NEW f \in Fields, Records!Load(r, f) PROVE Records!TypeOK' /\ ReadInv'
    <2> DEFINE t == [reader[r] EXCEPT !.got[f] = field[f], !.loaded = @ \cup {f}]
    <2>1. reader' = [reader EXCEPT ![r] = t] /\ reader[r].pc = "load"
      BY <1>5, <1>t DEF Records!Load
    <2>2. field[f] \in Nat
      BY DEF Records!TypeOK
    <2>3. t \in Records!Reading
      BY <1>t, <2>2
    <2>4. t.pc = "load" /\ t.start = reader[r].start /\ t.loaded = reader[r].loaded \cup {f}
          /\ t.got = [reader[r].got EXCEPT ![f] = field[f]]
      BY <1>t, <2>1
    <2>5. Records!Even(t.start) /\ t.start <= epoch
      BY <2>1, <2>4 DEF ReadInv
    <2>6. ASSUME t.start = epoch PROVE \A g \in t.loaded : t.got[g] = t.start \div 2
      <3>1. field[f] = epoch \div 2
        BY <2>5, <2>6 DEF WriteInv
      <3>2. \A g \in reader[r].loaded : reader[r].got[g] = epoch \div 2
        BY <2>1, <2>4, <2>6 DEF ReadInv
      <3>3. ASSUME NEW g \in t.loaded PROVE t.got[g] = epoch \div 2
        BY <3>1, <3>2, <2>4, <1>t
      <3> QED BY <3>3, <2>6
    <2> QED BY <2>1, <2>3, <2>4, <2>5, <2>6, <1>2
  <1>6. CASE Records!Check(r)
    <2> DEFINE t == IF epoch = reader[r].start THEN [reader[r] EXCEPT !.pc = "done"]
                    ELSE Records!Again(reader[r])
    <2>1. reader' = [reader EXCEPT ![r] = t] /\ reader[r].pc = "load"
          /\ reader[r].loaded = Fields
      BY <1>6 DEF Records!Check
    <2>2. t \in Records!Reading
      <3>1. [reader[r] EXCEPT !.pc = "done"]
              \in Records!Reading
        BY <1>t
      <3>2. Records!Again(reader[r]) \in Records!Reading
        BY <1>t DEF Records!Again
      <3> QED BY <3>1, <3>2
    <2>3. CASE epoch = reader[r].start
      <3>1. t.pc = "done" /\ t.start = epoch /\ t.loaded = Fields /\ t.got = reader[r].got
        BY <2>3, <2>1, <1>t
      <3>2. Records!Even(epoch) /\ \A f \in Fields : reader[r].got[f] = epoch \div 2
        BY <2>3, <2>1 DEF ReadInv
      <3> HIDE DEF t
      <3>3. t.start <= epoch /\ Records!Even(t.start)
        BY <3>1, <3>2, <1>0
      <3>4. \A f \in Fields : t.got[f] = t.start \div 2
        BY <3>1, <3>2
      <3> QED BY <3>1, <3>3, <3>4, <2>1, <2>2, <1>1, <1>2
    <2>4. CASE epoch # reader[r].start
      <3>1. t.pc \in {"none", "first"}
        BY <2>4, <1>t DEF Records!Again
      <3> QED BY <3>1, <2>1, <2>2, <1>1, <1>2
    <2> QED BY <2>3, <2>4
  <1> QED BY <1>1, <1>3, <1>4, <1>5, <1>6 DEF Records!ReaderStep

(* The strengthened invariant is inductive.                                    *)
LEMMA RecordStep == RecordInv /\ [Records!Next]_(Records!vars) => RecordInv'
  <1> SUFFICES ASSUME RecordInv, [Records!Next]_(Records!vars) PROVE RecordInv'
    OBVIOUS
  <1>1. CASE UNCHANGED Records!vars
    BY <1>1 DEF Records!vars, RecordInv, Records!TypeOK, WriteInv, ReadInv, Records!Even
  <1>2. ASSUME NEW w \in Writers, Records!WriterStep(w) PROVE RecordInv'
    BY <1>2, AcquireInv, StoreInv, ReleaseInv DEF Records!WriterStep
  <1>3. ASSUME NEW r \in Readers, Records!ReaderStep(r) PROVE RecordInv'
    BY <1>3, ReaderInv
  <1> QED BY <1>1, <1>2, <1>3 DEF Records!Next


(* A step of the harness is a step of the records, or leaves them alone.       *)
LEMMA RecordsPart ==
  /\ Init => Records!Init
  /\ [Next]_vars => [Records!Next]_(Records!vars)
  <1>1. Init => Records!Init
    BY DEF Init
  <1>2. UNCHANGED recordVars => UNCHANGED Records!vars
    BY DEF recordVars, Records!vars
  <1> QED BY <1>1, <1>2 DEF Next, PlaybackNext, CaptureNext, RecordsNext, ControlNext,
         FramesNext, PlaybackRuns, CaptureRuns, ControlRuns, FramesRun, vars

(* No reader of the calibration results, of a timing slot, of the last miss or *)
(* of the ASIO position returns fields of different records, for any number of *)
(* fields, readers and writers.                                                *)
THEOREM RecordsAreWhole == Spec => []SnapshotsAreWhole
  <1>1. RecordInv => SnapshotsAreWhole
    BY DEF RecordInv, ReadInv, Records!SnapshotsAreWhole, SnapshotsAreWhole
  <1> QED BY <1>1, RecordInit, RecordStep, RecordsPart, PTL DEF Spec

(* The values of the ioplug's state, of the transfer thread's state and of a   *)
(* callback in progress.                                                       *)
Pcm == [state : {"setup", "prepared", "running", "xrun"}, appl : Nat, hw : Nat,
        nonblock : BOOLEAN]
Stream == [running : BOOLEAN, scratch : Seq(Nat), error : {"none", "EPIPE", "EIO"}]
Callback == [op : {"none", "read", "pointer"}, pc : {"idle", "skip", "copy", "report"},
             left : Nat, copied : Seq(Nat)]
(* The frames of the scratch block, and those a read has copied so far.        *)
Held == Len(capture.scratch)
Given == Len(reading.copied)

CaptureTypes ==
    /\ source \in Pcm /\ expected \in Nat /\ capture \in Stream /\ retired \in Nat
    /\ ring \in Seq(Nat) /\ daemon \in [captured : Nat, lost : BOOLEAN]
    /\ reading \in Callback /\ read \in [index : Nat, frames : Seq(Nat)]
(* The first frame of the scratch block is the next to be retired, and the     *)
(* ring goes on where the block ends, as long as no period was lost.           *)
Aligned ==
    /\ \A i \in 1 .. Held : capture.scratch[i] = retired + i - 1
    /\ ~daemon.lost =>
          /\ Capture!Position = daemon.captured * P
          /\ \A i \in 1 .. Len(ring) : ring[i] = retired + Held + (i - 1) * P
(* The scratch block is at most one period, the ring at most one buffer.       *)
Sized == Held <= P /\ Capture!Ready <= Buffer
(* Nothing is promised or handed out before it is captured.                    *)
Produced ==
    /\ Capture!Position <= daemon.captured * P
    /\ source.state # "setup" => source.hw <= daemon.captured * P
(* Between callbacks the frames retired are those the application has been     *)
(* told of; within a read they are ahead of it by what the read has copied.    *)
Counted ==
    /\ reading.pc # "idle" => source.state = "running"
    /\ reading.pc # "copy" =>
          reading.copied = << >> /\ (source.state # "setup" => retired = expected)
    /\ reading.pc = "skip" => expected <= source.appl
    /\ reading.pc = "copy" =>
          /\ expected = source.appl /\ retired = expected + Given
          /\ \A i \in 1 .. Given : reading.copied[i] = source.appl + i - 1
CaptureInv ==
    CaptureTypes /\ Aligned /\ Sized /\ Produced /\ Counted /\ Capture!CaptureIsExact

LEMMA PositionIs ==
  /\ Capture!Position = retired + Held + Capture!Ready
  /\ (Capture!Position = retired + Held + Capture!Ready)'
  BY DEF Capture!Position, Held

(* The geometry: a buffer is a whole number of periods.                        *)
LEMMA Geometry == Capture!CaptureGeometry => P \in Nat \ {0} /\ Buffer \in Nat
  BY DEF Capture!CaptureGeometry

(* A multiple of the period below the buffer has room for one more period.     *)
LEMMA Places ==
  ASSUME NEW k \in Nat, Capture!CaptureGeometry
  PROVE  /\ k * P \in Nat /\ (k + 1) * P = k * P + P
         /\ k * P <= Buffer /\ k * P # Buffer => (k + 1) * P <= Buffer
  <1>1. P \in Nat /\ P > 0 /\ Buffer \in Nat /\ Buffer % P = 0
    BY DEF Capture!CaptureGeometry
  <1>2. k * P \in Nat
    BY <1>1
  <1>3. (k + 1) * P = k * P + P
    BY <1>1
  <1>4. PICK q \in Nat : Buffer = q * P
    <2>1. Buffer = P * (Buffer \div P) + (Buffer % P)
      BY <1>1
    <2>2. Buffer \div P \in Nat
      <3> DEFINE d == Buffer \div P
      <3>1. d \in Int
        BY <1>1
      <3> HIDE DEF d
      <3>2. ASSUME d < 0 PROVE FALSE
        <4>1. PICK e \in Nat : d = -1 - e
          BY <3>1, <3>2
        <4>2. P * d = -P - P * e /\ P * e \in Nat
          BY <4>1, <1>1
        <4>3. Buffer = P * d
          BY <2>1, <1>1 DEF d
        <4> QED BY <4>2, <4>3, <1>1
      <3> QED BY <3>1, <3>2 DEF d
    <2> QED BY <1>1, <2>1, <2>2
  <1>5. k < q => (k + 1) * P <= Buffer
    <2>1. ASSUME k < q PROVE (k + 1) * P <= q * P
      <3>1. PICK d \in Nat : q = k + 1 + d
        BY <2>1
      <3>2. q * P = (k + 1) * P + d * P
        BY <3>1, <1>1
      <3>3. d * P \in Nat /\ (k + 1) * P \in Nat
        BY <1>1
      <3> QED BY <3>2, <3>3
    <2> QED BY <2>1, <1>4
  <1>6. k = q => k * P = Buffer
    BY <1>4
  <1>7. k > q => k * P > Buffer
    <2>1. ASSUME k > q PROVE k * P > q * P
      <3>1. PICK d \in Nat : k = q + 1 + d
        BY <2>1
      <3>2. k * P = q * P + P + d * P
        BY <3>1, <1>1
      <3>3. d * P \in Nat /\ q * P \in Nat
        BY <1>1
      <3> QED BY <3>2, <3>3, <1>1
    <2> QED BY <2>1, <1>4
  <1> QED BY <1>1, <1>2, <1>3, <1>4, <1>5, <1>6, <1>7

(* The pieces of a sequence, the join of two, and a block of frames.           *)
LEMMA Cuts ==
  ASSUME NEW t \in Seq(Nat), NEW n \in 0 .. Len(t)
  PROVE  /\ SubSeq(t, n + 1, Len(t)) \in Seq(Nat) /\ SubSeq(t, 1, n) \in Seq(Nat)
         /\ Len(SubSeq(t, n + 1, Len(t))) = Len(t) - n /\ Len(SubSeq(t, 1, n)) = n
         /\ \A i \in 1 .. Len(t) - n : SubSeq(t, n + 1, Len(t))[i] = t[n + i]
         /\ \A i \in 1 .. n : SubSeq(t, 1, n)[i] = t[i]
  OBVIOUS

LEMMA Joins ==
  ASSUME NEW t \in Seq(Nat), NEW u \in Seq(Nat)
  PROVE  /\ t \o u \in Seq(Nat) /\ Len(t \o u) = Len(t) + Len(u)
         /\ \A i \in 1 .. Len(t) : (t \o u)[i] = t[i]
         /\ \A i \in 1 .. Len(u) : (t \o u)[Len(t) + i] = u[i]
  OBVIOUS

LEMMA Whole ==
  ASSUME Capture!CaptureGeometry, NEW first \in Nat
  PROVE  /\ Capture!Frames(first) \in Seq(Nat) /\ Len(Capture!Frames(first)) = P
         /\ \A i \in 1 .. P : Capture!Frames(first)[i] = first + i - 1
  BY Geometry DEF Capture!Frames

LEMMA CaptureInit == Capture!CaptureGeometry /\ Capture!Init => CaptureInv
  BY Geometry DEF Capture!Init, CaptureInv, CaptureTypes, Aligned, Sized, Produced, Counted,
     Capture!CaptureIsExact, Pcm, Stream, Callback, Capture!Idle, Capture!Fresh,
     Capture!Nothing, Held, Given, Capture!Ready, Capture!Position

(* The same types, field by field.                                             *)
CaptureTyped ==
  /\ source.state \in {"setup", "prepared", "running", "xrun"} /\ source.appl \in Nat
  /\ source.hw \in Nat
  /\ capture.scratch \in Seq(Nat) /\ Held \in Nat /\ (capture.scratch = << >> <=> Held = 0)
  /\ Given \in Nat /\ (reading.copied = << >> <=> Given = 0)
  /\ capture.error \in {"none", "EPIPE", "EIO"}
  /\ reading.copied \in Seq(Nat) /\ reading.left \in Nat
  /\ daemon.captured \in Nat /\ daemon.lost \in BOOLEAN /\ Len(ring) \in Nat

LEMMA Pieces == CaptureTypes => CaptureTyped
  BY DEF CaptureTypes, Pcm, Stream, Callback, CaptureTyped, Held, Given

(* A callback ends, with an error or with the frames it copied.                *)
LEMMA LeaveInv ==
  ASSUME Capture!CaptureGeometry, CaptureInv, NEW e \in {"none", "EAGAIN", "EPIPE", "EIO"},
         Capture!Leave(e), reading.pc \in {"skip", "copy"}
  PROVE  CaptureInv'
  <1> USE DEF CaptureInv
  <1> DEFINE n == Len(reading.copied)
  <1> USE DEF CaptureTyped
  <1>1. CaptureTyped
    BY Pieces
  <1>2. n \in Nat /\ source.state = "running" /\ expected + n = retired
        /\ (n # 0 => expected = source.appl)
        /\ (\A i \in 1 .. n : reading.copied[i] = source.appl + i - 1)
    <2>1. n = Given
      BY DEF Given
    <2> HIDE DEF n
    <2>2. CASE reading.pc = "copy"
      BY <1>1, <2>1, <2>2 DEF Counted, CaptureTypes
    <2>3. CASE reading.pc = "skip"
      BY <1>1, <2>1, <2>3 DEF Counted, CaptureTypes
    <2> QED BY <2>2, <2>3
  <1> HIDE DEF n
  <1>3. /\ reading' = Capture!Idle /\ retired' = retired /\ ring' = ring /\ daemon' = daemon
        /\ capture' = [capture EXCEPT !.error = IF e \in {"none", "EAGAIN"} THEN @ ELSE e]
        /\ read' = IF n = 0 THEN read ELSE [index |-> source.appl, frames |-> reading.copied]
        /\ source' = [source EXCEPT !.appl = @ + n,
                                    !.state = IF n = 0 THEN Capture!After(e) ELSE @]
        /\ expected' = IF n = 0 THEN expected ELSE source.appl + n
    BY DEF Capture!Leave, n
  <1>4. CaptureTypes'
    <2>1. source' \in Pcm
      <3>1. (IF n = 0 THEN Capture!After(e) ELSE source.state)
              \in {"setup", "prepared", "running", "xrun"}
        BY <1>1 DEF Capture!After
      <3>2. source \in Pcm /\ source.appl + n \in Nat
        BY <1>1, <1>2 DEF CaptureTypes
      <3>3. source' = [source EXCEPT
                         !.appl = source.appl + n,
                         !.state = IF n = 0 THEN Capture!After(e) ELSE source.state]
        BY <1>3
      <3> QED BY <3>1, <3>2, <3>3 DEF Pcm
    <2>2. capture' \in Stream
      BY <1>3 DEF CaptureTypes, Stream
    <2>3. reading' \in Callback
      BY <1>3 DEF Capture!Idle, Callback
    <2>4. read' \in [index : Nat, frames : Seq(Nat)]
      BY <1>1, <1>3 DEF CaptureTypes
    <2> QED BY <2>1, <2>2, <2>3, <2>4, <1>1, <1>2, <1>3 DEF CaptureTypes
  <1>5. capture'.scratch = capture.scratch /\ source'.hw = source.hw
        /\ source'.state \in {"running", "xrun"}
    BY <1>2, <1>3 DEF CaptureTypes, Stream, Pcm, Capture!After
  <1>6. Aligned' /\ Sized' /\ Produced'
    BY <1>2, <1>3, <1>5 DEF Aligned, Sized, Produced, Held, Capture!Position, Capture!Ready
  <1>7. Counted'
    BY <1>1, <1>2, <1>3 DEF Counted, Capture!Idle, Given
  <1>8. Capture!CaptureIsExact'
    BY <1>1, <1>2, <1>3 DEF Capture!CaptureIsExact, Given, n
  <1> QED BY <1>4, <1>6, <1>7, <1>8

(* The error of a call that finds the stream gone.                             *)
LEMMA FaultError ==
  CaptureTypes => /\ Capture!Fault \in {"EPIPE", "EIO"}
                  /\ Capture!After(Capture!Fault) \in {"running", "xrun", source.state}
  BY Pieces DEF Capture!Fault, Capture!After, CaptureTyped

(* Frames leave the front of the scratch block.                                *)
LEMMA RetireEffect ==
  ASSUME CaptureTypes, NEW n \in 1 .. Held, Capture!Retire(n)
  PROVE  /\ capture' \in Stream /\ retired' = retired + n /\ retired' \in Nat
         /\ capture'.error = capture.error /\ capture'.running = capture.running
         /\ Held' = Held - n
         /\ \A i \in 1 .. Held' : capture'.scratch[i] = capture.scratch[n + i]
  <1> USE DEF CaptureTyped
  <1>1. CaptureTyped
    BY Pieces
  <1> DEFINE rest == SubSeq(capture.scratch, n + 1, Len(capture.scratch))
  <1>2. rest \in Seq(Nat) /\ Len(rest) = Held - n
        /\ \A i \in 1 .. Held - n : rest[i] = capture.scratch[n + i]
    BY <1>1, Cuts DEF Held
  <1>3. capture' = [capture EXCEPT !.scratch = rest] /\ retired' = retired + n
    BY DEF Capture!Retire
  <1> HIDE DEF rest
  <1>4. capture \in Stream /\ retired \in Nat
    BY DEF CaptureTypes
  <1>5. capture' \in Stream /\ capture'.scratch = rest /\ capture'.error = capture.error
        /\ capture'.running = capture.running
    BY <1>2, <1>3, <1>4 DEF Stream
  <1> QED BY <1>2, <1>3, <1>4, <1>5 DEF Held

(* What is left of the scratch block after that keeps its place.               *)
LEMMA RetireKeeps ==
  ASSUME Capture!CaptureGeometry, CaptureInv, NEW n \in 1 .. Held, Capture!Retire(n),
         UNCHANGED <<ring, daemon, source>>
  PROVE  Aligned' /\ Sized' /\ Produced'
  <1> USE DEF CaptureTyped
  <1>1. CaptureTyped
    BY Pieces DEF CaptureInv
  <1>2. /\ retired' = retired + n /\ Held' = Held - n
        /\ \A i \in 1 .. Held' : capture'.scratch[i] = capture.scratch[n + i]
    BY RetireEffect DEF CaptureInv
  <1>3. retired \in Nat /\ P \in Nat
    BY Geometry DEF CaptureInv, CaptureTypes
  <1>4. Capture!Ready' = Capture!Ready /\ Capture!Position' = Capture!Position
    <2>1. Capture!Ready \in Nat
      BY <1>1, <1>3 DEF Capture!Ready
    <2>2. Capture!Ready' = Capture!Ready
      BY DEF Capture!Ready
    <2> QED BY <1>1, <1>2, <1>3, <2>1, <2>2, PositionIs
  <1>5. Sized' /\ Produced'
    BY <1>1, <1>2, <1>3, <1>4 DEF CaptureInv, Sized, Produced
  <1>l. Held \in Nat
    BY <1>1
  <1>6. retired' + Held' = retired + Held
    <2>1. Held' = Held - n
      BY <1>2
    <2>2. retired' = retired + n /\ n \in Nat
      BY <1>2, <1>l
    <2> QED BY <1>l, <2>1, <2>2, <1>3
  <1>7. \A i \in 1 .. Held' : capture'.scratch[i] = retired' + i - 1
    <2> SUFFICES ASSUME NEW i \in 1 .. Held' PROVE capture'.scratch[i] = retired' + i - 1
      OBVIOUS
    <2>1. n + i \in 1 .. Held /\ i \in Nat /\ n \in Nat
      <3>1. Held \in Nat /\ Held' = Held - n /\ n \in Nat
        BY <1>1, <1>2
      <3>2. i \in Nat /\ i >= 1 /\ i <= Held - n
        BY <3>1
      <3> QED BY <3>1, <3>2
    <2>2. capture.scratch[n + i] = retired + (n + i) - 1
      BY <2>1 DEF CaptureInv, Aligned
    <2> QED BY <2>1, <2>2, <1>2, <1>3
  <1> QED BY <1>4, <1>5, <1>6, <1>7 DEF CaptureInv, Aligned

(* The application's calls.                                                    *)
LEMMA ForwardInv ==
  ASSUME CaptureInv, NEW n \in Nat, Capture!Forward(n) \/ Capture!Rewind(n)
  PROVE  CaptureInv'
  <1> USE DEF CaptureTyped
  <1>1. CaptureTyped
    BY Pieces DEF CaptureInv
  <1>2. PICK a \in Nat : source' = [source EXCEPT !.appl = a]
    <2>1. CASE Capture!Forward(n)
      <3>1. source.appl + n \in Nat
        BY <1>1
      <3> QED BY <2>1, <3>1 DEF Capture!Forward
    <2>2. CASE Capture!Rewind(n)
      <3>1. source.appl - n \in Nat
        BY <1>1, <2>2 DEF Capture!Rewind
      <3> QED BY <2>2, <3>1 DEF Capture!Rewind
    <2> QED BY <2>1, <2>2
  <1>3. UNCHANGED <<expected, capture, retired, ring, daemon, reading, read>>
        /\ Capture!Quiet
    BY DEF Capture!Forward, Capture!Rewind
  <1>4. source' \in Pcm /\ source'.state = source.state /\ source'.hw = source.hw
    BY <1>2 DEF CaptureInv, CaptureTypes, Pcm
  <1> QED BY <1>3, <1>4 DEF CaptureInv, CaptureTypes, Aligned, Sized, Produced, Counted,
         Capture!CaptureIsExact, Capture!Quiet, Held, Given, Capture!Position, Capture!Ready

LEMMA PrepareInv ==
  ASSUME Capture!CaptureGeometry, CaptureInv, Capture!Prepare
  PROVE  CaptureInv'
  <1>1. PICK nonblock \in BOOLEAN :
           source' = [state |-> "prepared", appl |-> 0, hw |-> 0, nonblock |-> nonblock]
    BY DEF Capture!Prepare
  <1>2. reading' = reading /\ reading.pc = "idle"
    BY DEF Capture!Prepare, Capture!Quiet
  <1> QED BY <1>1, <1>2, Geometry DEF Capture!Prepare, CaptureInv, CaptureTypes, Aligned, Sized,
         Produced, Counted, Capture!CaptureIsExact, Pcm, Stream, Capture!Fresh, Capture!Nothing,
         Held, Given, Capture!Ready, Capture!Position

LEMMA StartInv == ASSUME CaptureInv, Capture!Start PROVE CaptureInv'
  <1>1. capture' \in Stream /\ capture'.scratch = capture.scratch
    BY DEF Capture!Start, CaptureInv, CaptureTypes, Stream
  <1>2. source' \in Pcm /\ source'.state = "running" /\ source'.hw = source.hw
        /\ source'.appl = source.appl
        /\ source.state = "prepared"
    BY DEF Capture!Start, CaptureInv, CaptureTypes, Pcm
  <1>3. UNCHANGED <<expected, retired, ring, daemon, reading, read>> /\ Capture!Quiet
    BY DEF Capture!Start
  <1> QED BY <1>1, <1>2, <1>3 DEF CaptureInv, CaptureTypes, Aligned, Sized, Produced, Counted,
         Capture!CaptureIsExact, Capture!Quiet, Held, Given, Capture!Position, Capture!Ready

LEMMA DropInv ==
  ASSUME Capture!CaptureGeometry, CaptureInv, Capture!Drop
  PROVE  CaptureInv'
  <1>1. capture' \in Stream /\ capture'.scratch = << >>
    <2>1. capture' = [Capture!Fresh EXCEPT !.error = capture.error]
          /\ capture.error \in {"none", "EPIPE", "EIO"}
      BY Pieces DEF CaptureTyped, Capture!Drop, CaptureInv
    <2>2. Capture!Fresh \in Stream /\ Capture!Fresh.scratch = << >>
      BY DEF Capture!Fresh, Stream
    <2> QED BY <2>1, <2>2 DEF Stream
  <1>2. source' \in Pcm /\ source'.state = "setup"
    BY DEF Capture!Drop, CaptureInv, CaptureTypes, Pcm
  <1>3. /\ UNCHANGED <<expected, reading>> /\ Capture!Quiet /\ retired' = 0 /\ ring' = << >>
        /\ daemon' = [captured |-> 0, lost |-> FALSE] /\ read' = Capture!Nothing
    BY DEF Capture!Drop
  <1> QED BY <1>1, <1>2, <1>3, Geometry DEF CaptureInv, CaptureTypes, Aligned, Sized, Produced,
         Counted, Capture!CaptureIsExact, Capture!Quiet, Held, Given, Capture!Position,
         Capture!Ready, Capture!Nothing

LEMMA BeginInv ==
  ASSUME CaptureInv, NEW op \in {"read", "pointer"}, NEW n \in Nat, Capture!Begin(op, n)
  PROVE  CaptureInv'
  <1> USE DEF CaptureTyped
  <1>1. CaptureTyped /\ Capture!Fault \in {"EPIPE", "EIO"}
        /\ Capture!After(Capture!Fault) \in {"running", "xrun", source.state}
    BY Pieces, FaultError DEF CaptureInv
  <1>2. source.state = "running" /\ reading.pc = "idle"
        /\ UNCHANGED <<expected, retired, ring, daemon, read>>
    BY DEF Capture!Begin, Capture!Quiet
  <1>3. CASE Capture!SyncFails
    <2>1. capture' = [capture EXCEPT !.error = Capture!Fault]
          /\ source' = [source EXCEPT !.state = Capture!After(Capture!Fault)]
          /\ reading' = reading
      BY <1>3 DEF Capture!Begin
    <2>2. capture' \in Stream /\ capture'.scratch = capture.scratch
      BY <1>1, <2>1 DEF CaptureInv, CaptureTypes, Stream
    <2>3. source' \in Pcm /\ source'.state \in {"running", "xrun"} /\ source'.hw = source.hw
      BY <1>1, <1>2, <2>1 DEF CaptureInv, CaptureTypes, Pcm
    <2> QED BY <1>2, <2>1, <2>2, <2>3 DEF CaptureInv, CaptureTypes, Aligned, Sized, Produced,
           Counted, Capture!CaptureIsExact, Held, Given, Capture!Position, Capture!Ready
  <1>4. CASE ~Capture!SyncFails
    <2>1. reading' = [Capture!Idle EXCEPT !.op = op, !.left = n, !.pc = "skip"]
          /\ UNCHANGED <<capture, source>>
      BY <1>4 DEF Capture!Begin
    <2>2. reading' \in Callback /\ reading'.pc = "skip" /\ reading'.copied = << >>
      <3>1. Capture!Idle \in Callback /\ Capture!Idle.copied = << >>
        BY DEF Capture!Idle, Callback
      <3> QED BY <2>1, <3>1 DEF Callback
    <2>3. expected <= source.appl
      BY <1>1, <1>4 DEF Capture!SyncFails, CaptureInv, CaptureTypes
    <2> QED BY <1>2, <2>1, <2>2, <2>3 DEF CaptureInv, CaptureTypes, Aligned, Sized, Produced,
           Counted, Capture!CaptureIsExact, Held, Given, Capture!Position, Capture!Ready
  <1> QED BY <1>3, <1>4

(* The steps of the transfer: the next block is taken, frames the application  *)
(* has skipped are dropped, the others are copied, the pointer is reported.    *)
LEMMA TakeBlockInv ==
  ASSUME Capture!CaptureGeometry, CaptureInv, Capture!Acquire
  PROVE  CaptureInv'
  <1> USE DEF CaptureTyped
  <1>1. CaptureTyped /\ Capture!Fault \in {"EPIPE", "EIO"}
        /\ Capture!After(Capture!Fault) \in {"running", "xrun", source.state}
    BY Pieces, FaultError DEF CaptureInv
  <1>2. reading.pc \in {"skip", "copy"} /\ capture.scratch = << >>
    BY DEF Capture!Acquire
  <1>3. CASE Capture!Invalid
    BY <1>1, <1>2, <1>3, LeaveInv DEF Capture!Acquire
  <1>4. CASE ~Capture!Invalid /\ ring # << >>
    <2>1. /\ capture' = [capture EXCEPT !.scratch = Capture!Frames(Head(ring))]
          /\ ring' = Tail(ring)
          /\ UNCHANGED <<source, expected, retired, daemon, reading, read>>
      BY <1>4 DEF Capture!Acquire
    <2>2. ring \in Seq(Nat)
          /\ Len(ring) >= 1 /\ retired \in Nat /\ P \in Nat \ {0} /\ capture \in Stream
      BY <1>4, Geometry DEF CaptureInv, CaptureTypes
    <2>3. /\ Head(ring) = ring[1] /\ Head(ring) \in Nat /\ Tail(ring) \in Seq(Nat)
          /\ Len(Tail(ring)) = Len(ring) - 1
          /\ \A i \in 1 .. Len(ring) - 1 : Tail(ring)[i] = ring[i + 1]
      BY <2>2
    <2>4. ~daemon.lost
      BY <1>4 DEF Capture!Invalid
    <2>5. /\ Capture!Position = daemon.captured * P /\ Held = 0
          /\ \A i \in 1 .. Len(ring) : ring[i] = retired + (i - 1) * P
      <3>1. Held = 0
        BY <1>1, <1>2
      <3>2. \A i \in 1 .. Len(ring) : retired + Held + (i - 1) * P = retired + (i - 1) * P
        BY <3>1, <2>2
      <3> QED BY <3>1, <3>2, <2>2, <2>4 DEF CaptureInv, Aligned
    <2>6. Head(ring) = retired
      BY <2>2, <2>3, <2>5
    <2>7. capture' \in Stream /\ Held' = P
          /\ \A i \in 1 .. P : capture'.scratch[i] = retired + i - 1
      <3>1. Capture!Frames(Head(ring)) \in Seq(Nat) /\ Len(Capture!Frames(Head(ring))) = P
            /\ \A i \in 1 .. P : Capture!Frames(Head(ring))[i] = retired + i - 1
        BY <2>3, <2>6, Whole
      <3>2. capture' \in Stream /\ capture'.scratch = Capture!Frames(Head(ring))
        BY <2>1, <2>2, <3>1 DEF Stream
      <3> QED BY <3>1, <3>2 DEF Held
    <2>8. Capture!Ready' = Capture!Ready - P /\ Capture!Ready \in Nat
          /\ Capture!Ready' \in Nat
      <3>1. Capture!Ready = (Len(ring) - 1) * P + P /\ (Len(ring) - 1) * P \in Nat
        BY <2>2 DEF Capture!Ready
      <3>2. Capture!Ready' = (Len(ring) - 1) * P
        BY <2>1, <2>3 DEF Capture!Ready
      <3> QED BY <3>1, <3>2, <2>2
    <2>9. Capture!Position' = Capture!Position
      BY <2>1, <2>2, <2>5, <2>7, <2>8, PositionIs
    <2>10. \A i \in 1 .. Len(ring') : ring'[i] = retired' + Held' + (i - 1) * P
      <3> SUFFICES ASSUME NEW i \in 1 .. Len(ring')
                   PROVE  ring'[i] = retired' + Held' + (i - 1) * P
        OBVIOUS
      <3>1. i + 1 \in 1 .. Len(ring) /\ ring'[i] = ring[i + 1] /\ i \in Nat
        BY <2>1, <2>2, <2>3
      <3>2. ring[i + 1] = retired + i * P
        BY <3>1, <2>5
      <3>3. i * P = P + (i - 1) * P
        BY <3>1, <2>2
      <3> QED BY <3>1, <3>2, <3>3, <2>1, <2>2, <2>7
    <2>11. CaptureTypes'
      BY <2>1, <2>3, <2>7 DEF CaptureInv, CaptureTypes
    <2>12. Aligned'
      BY <2>1, <2>5, <2>7, <2>9, <2>10 DEF Aligned
    <2>13. Sized' /\ Produced'
      BY <2>1, <2>2, <2>7, <2>8, <2>9, Geometry DEF CaptureInv, Sized, Produced
    <2>14. Counted' /\ Capture!CaptureIsExact'
      BY <2>1 DEF CaptureInv, Counted, Capture!CaptureIsExact, Given
    <2> QED BY <2>11, <2>12, <2>13, <2>14 DEF CaptureInv
  <1>5. CASE ~Capture!Invalid /\ ring = << >>
    BY <1>2, <1>5, LeaveInv DEF Capture!Acquire
  <1> QED BY <1>3, <1>4, <1>5

LEMMA TimesOutInv ==
  ASSUME Capture!CaptureGeometry, CaptureInv, Capture!TimesOut
  PROVE  CaptureInv'
  BY LeaveInv DEF Capture!TimesOut

LEMMA CopyEndsInv ==
  ASSUME Capture!CaptureGeometry, CaptureInv, Capture!CopyEnds
  PROVE  CaptureInv'
  BY LeaveInv, FaultError DEF Capture!CopyEnds, CaptureInv

LEMMA SkipOverInv ==
  ASSUME Capture!CaptureGeometry, CaptureInv, Capture!SkipOver
  PROVE  CaptureInv'
  <1> USE DEF CaptureTyped
  <1>1. CaptureTyped /\ Capture!Fault \in {"EPIPE", "EIO"}
        /\ Capture!After(Capture!Fault) \in {"running", "xrun", source.state}
    BY Pieces, FaultError DEF CaptureInv
  <1>2. reading.pc = "skip" /\ source.state = "running" /\ retired = expected
        /\ reading.copied = << >>
        /\ expected <= source.appl /\ expected \in Nat /\ retired \in Nat
    BY DEF Capture!SkipOver, CaptureInv, Counted, CaptureTypes
  <1>3. CASE source.appl = expected /\ Capture!Invalid
    BY <1>1, <1>2, <1>3, LeaveInv DEF Capture!SkipOver
  <1>4. CASE source.appl = expected /\ ~Capture!Invalid
    <2>1. /\ reading' = [reading EXCEPT !.pc = IF reading.op = "read" THEN "copy" ELSE "report"]
          /\ UNCHANGED <<capture, source, expected, retired, ring, daemon, read>>
      BY <1>4 DEF Capture!SkipOver
    <2>2. reading' \in Callback /\ reading'.pc \in {"copy", "report"}
          /\ reading'.copied = << >>
      BY <1>2, <2>1 DEF CaptureInv, CaptureTypes, Callback
    <2> QED BY <1>2, <1>4, <2>1, <2>2 DEF CaptureInv, CaptureTypes, Aligned, Sized, Produced,
           Counted, Capture!CaptureIsExact, Held, Given, Capture!Position, Capture!Ready
  <1>5. CASE source.appl # expected
    <2> DEFINE n == Capture!Least(Capture!Skip, Len(capture.scratch))
    <2>1. capture.scratch # << >> /\ Capture!Retire(n) /\ expected' = expected + n
          /\ UNCHANGED <<source, ring, daemon, reading, read>>
      BY <1>5 DEF Capture!SkipOver
    <2>2. n \in 1 .. Held /\ n <= source.appl - expected
      <3>1. n = Capture!Least(source.appl - expected, Held)
            /\ Held >= 1 /\ source.appl - expected >= 1
        <4>1. n = Capture!Least(source.appl - expected, Held)
          BY DEF Capture!Skip, Held
        <4> HIDE DEF n
        <4> QED BY <4>1, <1>1, <1>2, <1>5, <2>1
      <3> HIDE DEF n
      <3> QED BY <3>1, <1>1, <1>2 DEF Capture!Least
    <2> HIDE DEF n
    <2>3. Aligned' /\ Sized' /\ Produced'
      BY <2>1, <2>2, RetireKeeps
    <2>4. capture' \in Stream /\ retired' = retired + n /\ retired' \in Nat
      BY <2>1, <2>2, RetireEffect DEF CaptureInv
    <2>5. CaptureTypes'
      BY <1>2, <2>1, <2>2, <2>4 DEF CaptureInv, CaptureTypes
    <2>6. Counted' /\ Capture!CaptureIsExact'
      <3>1. n \in Nat /\ expected' <= source.appl /\ retired' = expected'
        BY <1>1, <1>2, <2>1, <2>2, <2>4
      <3> QED BY <1>2, <2>1, <3>1 DEF CaptureInv, Counted, Capture!CaptureIsExact
    <2> QED BY <2>3, <2>5, <2>6 DEF CaptureInv
  <1> QED BY <1>3, <1>4, <1>5

LEMMA CopyInv ==
  ASSUME Capture!CaptureGeometry, CaptureInv, Capture!Copy
  PROVE  CaptureInv'
  <1> USE DEF CaptureTyped
  <1>1. CaptureTyped /\ Capture!Fault \in {"EPIPE", "EIO"}
        /\ Capture!After(Capture!Fault) \in {"running", "xrun", source.state}
    BY Pieces, FaultError DEF CaptureInv
  <1>2. /\ reading.pc = "copy" /\ source.state = "running" /\ expected = source.appl
        /\ retired = expected + Given /\ expected \in Nat /\ retired \in Nat
        /\ \A i \in 1 .. Given : reading.copied[i] = source.appl + i - 1
        /\ reading.left > 0 /\ capture.scratch # << >>
    BY DEF Capture!Copy, CaptureInv, Counted, CaptureTypes
  <1>3. CASE Capture!Invalid
    BY <1>1, <1>2, <1>3, LeaveInv DEF Capture!Copy
  <1>4. CASE ~Capture!Invalid
    <2> DEFINE n == Capture!Least(reading.left, Len(capture.scratch))
               front == SubSeq(capture.scratch, 1, n)
    <2>1. /\ Capture!Retire(n)
          /\ reading' = [reading EXCEPT !.left = @ - n, !.copied = @ \o front]
          /\ UNCHANGED <<source, expected, ring, daemon, read>>
      BY <1>4 DEF Capture!Copy
    <2>2. n \in 1 .. Held /\ reading.left - n \in Nat
      <3>1. n = Capture!Least(reading.left, Held) /\ Held >= 1
        BY <1>1, <1>2 DEF Held
      <3> HIDE DEF n
      <3>0. \A a, b \in Nat :
               a > 0 /\ b > 0 => Capture!Least(a, b) \in 1 .. b /\ Capture!Least(a, b) <= a
        BY DEF Capture!Least
      <3>2. Capture!Least(reading.left, Held) \in 1 .. Held
            /\ Capture!Least(reading.left, Held) <= reading.left
        <4>1. Held \in Nat /\ reading.left \in Nat /\ Held > 0 /\ reading.left > 0
          BY <3>1, <1>1, <1>2
        <4> QED BY <3>0, <4>1, Zenon
      <3>3. n \in Nat /\ n <= reading.left
        BY <3>1, <3>2, <1>1
      <3> QED BY <3>1, <3>2, <3>3, <1>1
    <2>3. front \in Seq(Nat) /\ Len(front) = n /\ \A i \in 1 .. n : front[i] = capture.scratch[i]
      <3> HIDE DEF n
      <3>1. n \in 0 .. Len(capture.scratch)
        BY <1>1, <2>2 DEF Held
      <3> QED BY <1>1, <3>1, Cuts
    <2> HIDE DEF n, front
    <2>4. Aligned' /\ Sized' /\ Produced'
      BY <2>1, <2>2, RetireKeeps
    <2>5. capture' \in Stream /\ retired' = retired + n /\ retired' \in Nat
      BY <2>1, <2>2, RetireEffect DEF CaptureInv
    <2> DEFINE all == reading.copied \o front
    <2>6. all \in Seq(Nat) /\ Len(all) = Given + n
          /\ (\A i \in 1 .. Given : all[i] = reading.copied[i])
          /\ (\A i \in 1 .. n : all[Given + i] = front[i])
      BY <1>1, <2>3, Joins DEF Given
    <2>7. reading' \in Callback /\ reading'.pc = "copy" /\ reading'.copied = all
      BY <1>2, <2>1, <2>2, <2>6 DEF CaptureInv, CaptureTypes, Callback
    <2> HIDE DEF all
    <2>8. \A i \in 1 .. n : front[i] = retired + i - 1
      <3> SUFFICES ASSUME NEW i \in 1 .. n PROVE front[i] = retired + i - 1
        OBVIOUS
      <3>1. i \in 1 .. Held
        BY <1>1, <2>2
      <3> QED BY <3>1, <2>3 DEF CaptureInv, Aligned
    <2>9. \A i \in 1 .. Len(all) : all[i] = source.appl + i - 1
      <3> SUFFICES ASSUME NEW i \in 1 .. Len(all) PROVE all[i] = source.appl + i - 1
        OBVIOUS
      <3>1. CASE i <= Given
        BY <3>1, <2>6, <1>1, <1>2
      <3>2. CASE i > Given
        <4>1. i - Given \in 1 .. n /\ i = Given + (i - Given)
          BY <3>2, <2>2, <2>6, <1>1
        <4>2. all[i] = retired + (i - Given) - 1
          BY <4>1, <2>6, <2>8
        <4>3. Given \in Nat /\ i \in Nat /\ expected \in Nat
          BY <1>1, <1>2, <4>1
        <4>4. \A a, b, c \in Nat : a + b + (c - b) - 1 = a + c - 1
          OBVIOUS
        <4>5. expected + Given + (i - Given) - 1 = expected + i - 1
          BY <4>3, <4>4
        <4> QED BY <4>2, <4>5, <1>2
      <3> QED BY <3>1, <3>2, <1>1
    <2>10. CaptureTypes'
      BY <2>1, <2>5, <2>7 DEF CaptureInv, CaptureTypes
    <2>11. Counted' /\ Capture!CaptureIsExact'
      <3>1. Given' = Given + n /\ n \in Nat
        BY <1>1, <2>2, <2>6, <2>7 DEF Given
      <3>2. retired' = expected' + Given' /\ expected' = source'.appl
        BY <1>1, <1>2, <2>1, <2>5, <3>1
      <3>3. \A i \in 1 .. Given' : reading'.copied[i] = source'.appl + i - 1
        BY <2>1, <2>6, <2>7, <2>9, <3>1
      <3> QED BY <1>2, <2>1, <2>7, <3>2, <3>3 DEF CaptureInv, Counted, Capture!CaptureIsExact
    <2> QED BY <2>4, <2>10, <2>11 DEF CaptureInv
  <1> QED BY <1>3, <1>4

LEMMA ReportInv ==
  ASSUME Capture!CaptureGeometry, CaptureInv, Capture!Report
  PROVE  CaptureInv'
  <1> USE DEF CaptureTyped
  <1>1. CaptureTyped
    BY Pieces DEF CaptureInv
  <1>2. /\ reading.pc = "report" /\ reading' = Capture!Idle
        /\ UNCHANGED <<expected, capture, retired, ring, daemon, read>>
        /\ source.state = "running" /\ retired = expected
    BY DEF Capture!Report, CaptureInv, Counted
  <1>3. Capture!Position \in Nat
    <2>1. Capture!Ready \in Nat
      BY <1>1, Geometry DEF Capture!Ready
    <2>2. retired \in Nat /\ Held \in Nat
      BY <1>1 DEF CaptureInv, CaptureTypes
    <2>3. \A a, b, c \in Nat : a + b + c \in Nat
      OBVIOUS
    <2>4. retired + Held + Capture!Ready \in Nat
      BY <2>1, <2>2, <2>3
    <2> QED BY <2>4, PositionIs
  <1>4. source' \in Pcm /\ (source'.hw = source.hw \/ source'.hw = Capture!Position)
    BY <1>3 DEF Capture!Report, CaptureInv, CaptureTypes, Pcm
  <1>5. reading' \in Callback /\ reading'.pc = "idle" /\ reading'.copied = << >>
    BY <1>2 DEF Capture!Idle, Callback
  <1> QED BY <1>2, <1>3, <1>4, <1>5 DEF CaptureInv, CaptureTypes, Aligned, Sized, Produced,
         Counted, Capture!CaptureIsExact, Held, Given, Capture!Position, Capture!Ready

(* The daemon captures a period, or restarts with an empty ring.               *)
LEMMA ProducerInv ==
  ASSUME Capture!CaptureGeometry, CaptureInv, Capture!Capture \/ Capture!Restart
  PROVE  CaptureInv'
  <1> USE DEF CaptureTyped
  <1>1. CaptureTyped
    BY Pieces DEF CaptureInv
  <1>2. UNCHANGED <<source, expected, capture, retired, reading, read>> /\ retired \in Nat
        /\ P \in Nat \ {0}
        /\ ring \in Seq(Nat) /\ daemon \in [captured : Nat, lost : BOOLEAN]
    BY Geometry DEF Capture!Capture, Capture!Restart, CaptureInv, CaptureTypes
  <1>3. Capture!Ready \in Nat /\ daemon.captured * P \in Nat
        /\ (daemon.captured + 1) * P = daemon.captured * P + P
    BY <1>1, <1>2, Places DEF Capture!Ready
  <1>4. Counted' /\ Capture!CaptureIsExact'
    BY <1>2 DEF CaptureInv, Counted, Capture!CaptureIsExact, Given
  <1>p. Capture!Position \in Nat /\ Capture!Position <= daemon.captured * P
        /\ (source.state # "setup" => source.hw <= daemon.captured * P) /\ source.hw \in Nat
    <2>1. Held \in Nat
      BY <1>1
    <2> QED BY <2>1, <1>1, <1>2, <1>3, PositionIs DEF CaptureInv, Produced
  <1>5. ASSUME daemon'.lost, daemon' \in [captured : Nat, lost : BOOLEAN],
               daemon'.captured = daemon.captured + 1, ring' \in Seq(Nat),
               Capture!Ready' <= Capture!Ready, Capture!Ready' \in Nat
        PROVE  CaptureInv'
    <2>1. CaptureTypes'
      BY <1>2, <1>5 DEF CaptureInv, CaptureTypes
    <2>2. Aligned'
      BY <1>2, <1>5 DEF CaptureInv, Aligned, Held
    <2>3. Capture!Position' <= Capture!Position /\ Capture!Position \in Nat
      <3>1. Held' = Held
        BY <1>2 DEF Held
      <3>2. Capture!Position = retired + Held + Capture!Ready
            /\ Capture!Position' = retired + Held + Capture!Ready'
        BY <3>1, <1>2, PositionIs
      <3>3. Held \in Nat
        BY <1>1
      <3>4. retired \in Nat /\ Capture!Ready \in Nat /\ Capture!Ready' \in Nat
            /\ Capture!Ready' <= Capture!Ready
        BY <1>2, <1>3, <1>5
      <3>5. retired + Held + Capture!Ready' <= retired + Held + Capture!Ready
        <4> SUFFICES ASSUME NEW a \in Nat, NEW b \in Nat, NEW c \in Nat, NEW d \in Nat, c <= d
                     PROVE  a + b + c <= a + b + d
          BY <3>3, <3>4, Zenon
        <4> QED OBVIOUS
      <3> QED BY <3>2, <3>5, <1>p
    <2>4. Sized'
      <3>1. Held' = Held
        BY <1>2 DEF Held
      <3> QED BY <3>1, <1>3, <1>5, Geometry DEF CaptureInv, Sized
    <2>5. Produced'
      <3>1. daemon'.captured * P = daemon.captured * P + P
        BY <1>3, <1>5
      <3>2. Capture!Position' \in Nat
        BY <1>5, <1>2, <1>1, PositionIs DEF Held
      <3> QED BY <1>p, <1>2, <1>3, <2>3, <3>1, <3>2 DEF Produced
    <2> QED BY <1>4, <2>1, <2>2, <2>4, <2>5 DEF CaptureInv
  <1>6. CASE Capture!Restart
    <2>1. daemon' = [captured |-> daemon.captured + 1, lost |-> TRUE] /\ ring' \in {ring, << >>}
      BY <1>6 DEF Capture!Restart
    <2>2. Capture!Ready' <= Capture!Ready /\ Capture!Ready' \in Nat /\ ring' \in Seq(Nat)
      <3>1. CASE ring' = ring
        <4>1. Capture!Ready' = Capture!Ready
          BY <3>1 DEF Capture!Ready
        <4> QED BY <1>2, <1>3, <3>1, <4>1
      <3>2. CASE ring' = << >>
        <4>1. Capture!Ready' = 0
          BY <1>2, <3>2 DEF Capture!Ready
        <4> QED BY <1>3, <3>2, <4>1
      <3> QED BY <2>1, <3>1, <3>2
    <2> QED BY <1>1, <1>5, <2>1, <2>2
  <1>7. CASE Capture!Capture /\ Capture!Ready = Buffer
    <2>1. daemon' = [captured |-> daemon.captured + 1, lost |-> TRUE] /\ ring' = ring
      BY <1>7, <1>1 DEF Capture!Capture
    <2>2. Capture!Ready' = Capture!Ready
      BY <2>1 DEF Capture!Ready
    <2> QED BY <1>1, <1>2, <1>3, <1>5, <2>1, <2>2
  <1>8. CASE Capture!Capture /\ Capture!Ready # Buffer
    <2>1. daemon' = [captured |-> daemon.captured + 1, lost |-> daemon.lost]
          /\ ring' = Append(ring, daemon.captured * P)
      BY <1>8, <1>1 DEF Capture!Capture
    <2>2. /\ ring' \in Seq(Nat) /\ Len(ring') = Len(ring) + 1
          /\ ring'[Len(ring) + 1] = daemon.captured * P
          /\ \A i \in 1 .. Len(ring) : ring'[i] = ring[i]
      BY <1>2, <1>3, <2>1
    <2>3. Capture!Ready' = Capture!Ready + P /\ Capture!Ready' <= Buffer
      BY <1>1, <1>2, <1>3, <1>8, <2>2, Places DEF Capture!Ready, CaptureInv, Sized
    <2>4. Capture!Position' = Capture!Position + P /\ Capture!Position \in Nat
      <3>1. Held' = Held
        BY <1>2 DEF Held
      <3>2. retired \in Nat /\ Held \in Nat /\ Capture!Ready \in Nat /\ P \in Nat
        BY <1>1, <1>2, <1>3
      <3>3. \A a, b, c, d \in Nat : a + b + (c + d) = a + b + c + d
        OBVIOUS
      <3>4. retired + Held + (Capture!Ready + P) = retired + Held + Capture!Ready + P
        BY <3>2, <3>3
      <3> QED BY <3>1, <3>4, <1>2, <1>p, <2>3, PositionIs
    <2>5. CaptureTypes'
      BY <1>1, <1>2, <2>1, <2>2 DEF CaptureInv, CaptureTypes
    <2>6. Sized'
      BY <1>2, <2>3 DEF CaptureInv, Sized, Held
    <2>7. Produced'
      <3>1. daemon'.captured * P = daemon.captured * P + P
        BY <1>3, <2>1
      <3> QED BY <1>p, <1>2, <1>3, <2>4, <3>1 DEF Produced
    <2>8. ASSUME ~daemon.lost, NEW i \in 1 .. Len(ring')
          PROVE  ring'[i] = retired + Held + (i - 1) * P
      <3>1. CASE i \in 1 .. Len(ring)
        BY <2>2, <2>8, <3>1 DEF CaptureInv, Aligned
      <3>2. CASE i = Len(ring) + 1
        <4>1. daemon.captured * P = Capture!Position
          BY <2>8 DEF CaptureInv, Aligned
        <4>2. (i - 1) * P = Capture!Ready
          BY <3>2, <1>1, <1>2 DEF Capture!Ready
        <4> QED BY <4>1, <4>2, <2>2, <3>2, PositionIs
      <3> QED BY <3>1, <3>2, <2>2, <1>1
    <2>9. Aligned'
      <3>1. Held' = Held
        BY <1>2 DEF Held
      <3>2. daemon'.captured * P = daemon.captured * P + P
        BY <1>3, <2>1
      <3> QED BY <1>2, <1>3, <2>1, <2>4, <2>8, <3>1, <3>2 DEF CaptureInv, Aligned
    <2> QED BY <1>4, <2>5, <2>6, <2>7, <2>9 DEF CaptureInv
  <1> QED BY <1>6, <1>7, <1>8

(* The invariant is inductive.                                                 *)
LEMMA CaptureStep ==
  Capture!CaptureGeometry /\ CaptureInv /\ [Capture!Next]_(Capture!vars) => CaptureInv'
  <1> SUFFICES ASSUME Capture!CaptureGeometry, CaptureInv, [Capture!Next]_(Capture!vars)
               PROVE  CaptureInv'
    OBVIOUS
  <1>1. CASE UNCHANGED Capture!vars
    BY <1>1 DEF Capture!vars, CaptureInv, CaptureTypes, Aligned, Sized, Produced, Counted,
       Capture!CaptureIsExact, Held, Given, Capture!Position, Capture!Ready
  <1>2. CASE Capture!Application
    <2>1. ASSUME NEW n \in 1 .. Buffer,
                 Capture!Begin("read", n) \/ Capture!Forward(n) \/ Capture!Rewind(n)
          PROVE  CaptureInv'
      BY <2>1, BeginInv, ForwardInv
    <2> QED BY <1>2, <2>1, PrepareInv, StartInv, DropInv, BeginInv DEF Capture!Application
  <1>3. CASE Capture!Plugin
    BY <1>3, TakeBlockInv, TimesOutInv, SkipOverInv, CopyInv, CopyEndsInv, ReportInv DEF
       Capture!Plugin
  <1> QED BY <1>1, <1>2, <1>3, ProducerInv DEF Capture!Next

(* A step of the harness is a step of the capture PCM, or leaves it alone.    *)
LEMMA CapturePart ==
  /\ Init => Capture!Init
  /\ [Next]_vars => [Capture!Next]_(Capture!vars)
  <1>1. Init => Capture!Init
    BY DEF Init
  <1>2. UNCHANGED captureVars => UNCHANGED Capture!vars
    BY DEF captureVars, Capture!vars
  <1> QED BY <1>1, <1>2 DEF Next, PlaybackNext, CaptureNext, RecordsNext, ControlNext,
         FramesNext, PlaybackRuns, RecordsRun, ControlRuns, FramesRun, vars

(* For any period, buffer and number of captured periods: the application     *)
(* reads the frames that were captured, each at its ALSA index, and the        *)
(* pointer promises no frame that was not captured (lib.rs,                    *)
(* transfer_shared_capture, retire_skipped_capture).                           *)
THEOREM CaptureStaysExact == Spec => []CaptureIsExact
  <1>1. CaptureInv => CaptureIsExact
    BY DEF CaptureInv, CaptureIsExact, Capture!TypeOK, Capture!PointerIsProduced, CaptureTypes,
       Sized, Produced, Counted, Pcm, Stream, Callback, Held, Capture!Quiet
  <1> QED BY <1>1, CaptureInit, CaptureStep, CapturePart, StreamsAssumption, PTL DEF Spec

(* The connections to the control socket.  The invariant ControlInv says of     *)
(* each connection what its thread, the requests and answers in its socket and  *)
(* its program may be together (InStep): first for the values of one            *)
(* connection, step by step (the lemmas ...Keeps), then for the state (the      *)
(* lemmas ...Inv), where a step leaves every other connection alone.            *)
Asked == {"hello", "info", "stats", "open", "start", "stop", "close"}
Results == {"ok", "error", "busy", "unsupported", "none"}
Message == [kind : Two!Requests, of : Connections]
Response == [to : Two!Requests \cup {"none"}, result : Results]
Handler == [pc : Two!Serving \cup {"none", "backlog", "gone"}, hello : BOOLEAN,
            before : 0 .. Two!MaxBeforeHello, session : BOOLEAN,
            timer : {"handshake", "idle", "none"}, response : Response, last : BOOLEAN]
Stages == {"new", "connecting", "client", "asking", "opening", "stream", "waiting", "closed",
           "raw", "gone"}
Program == [pc : Stages, asked : Two!Requests \cup {"none"}, started : BOOLEAN]

(* A child that has asked anything has used the connection.                    *)
Kid == {m \in [pc : {"none", "refused", "client", "asking", "opening", "stream", "waiting", "closed"},
               asked : Two!Requests \cup {"none"}, started : BOOLEAN, used : BOOLEAN] :
          m.pc \notin {"none", "refused", "client"} => m.used}

ControlTypes ==
    /\ slots \in [Two!Uids -> 0 .. MaxClients]
    /\ handler \in [Connections -> Handler]
    /\ sessions \subseteq Connections /\ running \subseteq Connections
    /\ toDaemon \in [Connections -> Seq(Message)] /\ toClient \in [Connections -> Seq(Response)]
    /\ client \in [Connections -> Program]
    /\ shut \in [Connections -> BOOLEAN] /\ child \in [Connections -> Kid]

(* The thread h of a connection, the requests q and responses a in its socket, *)
(* its program k; whether its session is open and whether it runs.             *)
Thread(c, h, q, a, k, held, runs) ==
    /\ h.pc \in {"none", "backlog", "gone"} => ~h.session /\ h.before = 0
    /\ h.pc = "read" \/ (h.pc = "reply" /\ ~h.last) => h.before < Two!MaxBeforeHello
    /\ h.session => h.timer = "none"
    /\ held <=> h.session
    /\ runs => h.session
    /\ h.pc = "gone" => q = << >>
    /\ k.pc = "new" => h.pc \in {"none", "gone"}
    /\ k.pc = "raw" => c \in Raw

Active == {"connecting", "client", "asking", "opening", "stream", "waiting"}
Traffic(h, q, a) == Len(q) + Len(a) + (IF h.pc = "reply" THEN 1 ELSE 0)

(* What a program with the library has sent and may find, if no child has sent *)
(* anything on its connection (w).                                             *)
Polite(c, h, q, a, k, cut) ==
    /\ h.before = 0 /\ (h.pc = "reply" => ~h.last)
    /\ k.pc = "new" => q = << >> /\ a = << >>
    /\ \A i \in 1 .. Len(q) : q[i].kind \in Asked /\ q[i].of = c /\ (~h.hello => q[i].kind = "hello")
    /\ k.pc \in Active \ {"connecting"} /\ h.pc # "gone" => h.hello
    /\ k.pc \in Active /\ (h.pc = "reply" \/ (a # << >> /\ h.pc # "gone")) => h.hello
    /\ k.pc \in Active \cup {"new"} => ~cut
    /\ k.pc \in Active =>
         /\ Traffic(h, q, a) <= MaxQueue
         /\ h.session => h.pc \in {"read", "reply"}
    /\ k.pc \in {"new", "connecting", "client", "asking"} => ~h.session

UnderWay(h, q, a, kinds) ==
    /\ \A i \in 1 .. Len(q) : q[i].kind \in kinds
    /\ h.pc = "reply" => h.response.to \in kinds
    /\ \A i \in 1 .. Len(a) : a[i].to \in kinds

(* Once it was carried out, a request has had its effect.                      *)
Settled(h, k, runs, r) ==
    h.pc # "gone" =>
    /\ k.asked \in Two!Acks => r.result = "ok"
    /\ k.asked = "start" => h.session /\ runs
    /\ k.asked = "stop" => h.session /\ ~runs
    /\ k.asked = "stats" => h.session /\ (k.started <=> runs)
    /\ k.asked = "open" /\ r.to = "open" /\ r.result = "ok" => h.session /\ ~runs

Asking(h, q, a, k) ==
    /\ k.pc = "connecting" => k.asked = "hello" /\ Traffic(h, q, a) <= 1 /\ UnderWay(h, q, a, {"hello"})
    /\ k.pc \in {"client", "asking"} => UnderWay(h, q, a, {"hello", "info", "stats"})

(* A request to open the session is the last one that is under way.            *)
Opening(h, q, a, k) ==
    k.pc = "opening" =>
    /\ k.asked = "open" /\ UnderWay(h, q, a, {"hello", "info", "stats", "open"})
    /\ \A i \in 1 .. Len(q) : q[i].kind = "open" => i = Len(q)
    /\ h.pc = "reply" /\ h.response.to = "open" => q = << >>
    /\ \A i \in 1 .. Len(a) : a[i].to = "open" => i = Len(a) /\ q = << >> /\ h.pc # "reply"

Streaming(h, q, a, k, runs) ==
    /\ k.pc = "stream" =>
         /\ Traffic(h, q, a) = 0
         /\ h.pc # "gone" => h.session /\ (k.started <=> runs)
    /\ k.pc = "waiting" =>
         /\ k.asked \in Two!Acks \cup {"stats"} /\ Traffic(h, q, a) <= 1
         /\ UnderWay(h, q, a, {k.asked})
         /\ q # << >> => h.session /\ (k.started <=> runs)
    /\ k.pc \in {"opening", "waiting"} =>
         /\ h.pc = "reply" => Settled(h, k, runs, h.response)
         /\ \A i \in 1 .. Len(a) : Settled(h, k, runs, a[i])

InStep(c, w, h, q, a, k, cut, held, runs) ==
    /\ Thread(c, h, q, a, k, held, runs)
    /\ c \in Two!Library /\ ~w =>
         Polite(c, h, q, a, k, cut) /\ Asking(h, q, a, k) /\ Opening(h, q, a, k)
         /\ Streaming(h, q, a, k, runs)

Link(c) == InStep(c, child[c].used, handler[c], toDaemon[c], toClient[c], client[c], shut[c],
                  c \in sessions, c \in running)

ControlInv == ControlTypes /\ Two!SlotsAreThreads /\ \A c \in Connections : Link(c)

(* The sizes that ControlConnection counts.                                    *)
LEMMA SameSizes ==
  (\A S : Two!Cardinality(S) = Cardinality(S)) /\ (\A S : Two!IsFiniteSet(S) <=> IsFiniteSet(S))
  BY DEF Two!Cardinality, Cardinality, Two!IsFiniteSet, IsFiniteSet

LEMMA Tails ==
  ASSUME NEW S, NEW q \in Seq(S), q # << >>
  PROVE  /\ Head(q) = q[1] /\ q[1] \in S /\ Tail(q) \in Seq(S) /\ Len(q) \in Nat \ {0}
         /\ Len(Tail(q)) = Len(q) - 1 /\ (Tail(q) # << >> => Len(q) > 1)
         /\ \A i \in 1 .. Len(Tail(q)) : i + 1 \in 1 .. Len(q) /\ Tail(q)[i] = q[i + 1]
  <1>1. Len(q) \in Nat \ {0} /\ Head(q) = q[1] /\ q[1] \in S
    OBVIOUS
  <1>2. Tail(q) \in Seq(S) /\ Len(Tail(q)) = Len(q) - 1
        /\ \A i \in 1 .. Len(Tail(q)) : Tail(q)[i] = q[i + 1]
    BY HeadTailProperties
  <1>3. Tail(q) # << >> => Len(Tail(q)) # 0
    BY <1>2, EmptySeq
  <1> QED BY <1>1, <1>2, <1>3

LEMMA NoneIs ==
  /\ Two!NoResponse \in Response /\ Two!NoHandler \in Handler
  /\ [Two!NoHandler EXCEPT !.pc = "gone"] \in Handler
  /\ [Two!NoHandler EXCEPT !.pc = "gone"].pc = "gone"
  /\ ~[Two!NoHandler EXCEPT !.pc = "gone"].session
  /\ [Two!NoHandler EXCEPT !.pc = "gone"].before = 0
  <1>1. Two!NoResponse \in Response
    BY DEF Two!NoResponse, Response, Results
  <1>2. 0 \in 0 .. Two!MaxBeforeHello
    BY DEF Two!MaxBeforeHello
  <1>3. Two!NoHandler \in Handler
    BY <1>1, <1>2 DEF Two!NoHandler, Handler
  <1>4. [Two!NoHandler EXCEPT !.pc = "gone"] \in Handler
    BY <1>3 DEF Handler
  <1>5. Two!NoHandler = [pc |-> "none", hello |-> FALSE, before |-> 0, session |-> FALSE,
                     timer |-> "handshake", response |-> Two!NoResponse, last |-> FALSE]
    BY DEF Two!NoHandler
  <1> QED BY <1>1, <1>3, <1>4, <1>5

LEMMA Appends ==
  ASSUME NEW S, NEW q \in Seq(S), NEW e \in S
  PROVE  /\ Append(q, e) \in Seq(S) /\ Len(q) \in Nat /\ Len(Append(q, e)) = Len(q) + 1
         /\ Append(q, e) # << >>
         /\ \A i \in 1 .. Len(q) : Append(q, e)[i] = q[i]
         /\ Append(q, e)[Len(q) + 1] = e
         /\ \A i \in 1 .. Len(Append(q, e)) : i \in 1 .. Len(q) \/ i = Len(q) + 1
  <1>1. Len(q) \in Nat /\ Len(Append(q, e)) = Len(q) + 1
    BY AppendProperties, LenProperties
  <1>2. \A i \in 1 .. Len(Append(q, e)) : i \in 1 .. Len(q) \/ i = Len(q) + 1
    BY <1>1
  <1> QED BY <1>1, <1>2, AppendProperties

(* Traffic. *)
LEMMA TrafficIs ==
  ASSUME NEW h, NEW q \in Seq(Message), NEW a \in Seq(Response)
  PROVE  /\ Traffic(h, q, a) \in Nat
         /\ (Traffic(h, q, a) = 0 <=> q = << >> /\ a = << >> /\ h.pc # "reply")
         /\ (Traffic(h, q, a) <= 1 =>
                /\ q # << >> => a = << >> /\ h.pc # "reply" /\ Len(q) = 1 /\ Tail(q) = << >>
                /\ a # << >> => q = << >> /\ h.pc # "reply" /\ Len(a) = 1 /\ Tail(a) = << >>
                /\ h.pc = "reply" => q = << >> /\ a = << >>)
  <1>1. Len(q) \in Nat /\ Len(a) \in Nat /\ (q = << >> <=> Len(q) = 0) /\ (a = << >> <=> Len(a) = 0)
    OBVIOUS
  <1>2. (Len(q) = 1 => Tail(q) = << >>) /\ (Len(a) = 1 => Tail(a) = << >>)
    <2>1. ASSUME Len(q) = 1 PROVE Tail(q) = << >>
      <3>1. q # << >>
        BY <1>1, <2>1
      <3>2. Tail(q) # << >> => Len(q) > 1
        BY <3>1, Tails
      <3> QED BY <2>1, <3>2
    <2>2. ASSUME Len(a) = 1 PROVE Tail(a) = << >>
      <3>1. a # << >>
        BY <1>1, <2>2
      <3>2. Tail(a) # << >> => Len(a) > 1
        BY <3>1, Tails
      <3> QED BY <2>2, <3>2
    <2> QED BY <2>1, <2>2
  <1>3. CASE h.pc = "reply"
    <2>1. Traffic(h, q, a) = Len(q) + Len(a) + 1
      BY <1>3 DEF Traffic
    <2> QED BY <1>1, <1>2, <1>3, <2>1
  <1>4. CASE h.pc # "reply"
    <2>1. Traffic(h, q, a) = Len(q) + Len(a)
      BY <1>4, <1>1 DEF Traffic
    <2>2. \A l, m \in Nat : l + m \in Nat /\ (l + m = 0 <=> l = 0 /\ m = 0)
                             /\ (l + m <= 1 => (l # 0 => m = 0 /\ l = 1) /\ (m # 0 => l = 0 /\ m = 1))
      OBVIOUS
    <2> DEFINE l == Len(q)
               m == Len(a)
    <2>3. l \in Nat /\ m \in Nat /\ (q = << >> <=> l = 0) /\ (a = << >> <=> m = 0)
          /\ (l = 1 => Tail(q) = << >>) /\ (m = 1 => Tail(a) = << >>) /\ Traffic(h, q, a) = l + m
      BY <1>1, <1>2, <2>1
    <2>4. Len(q) = l /\ Len(a) = m
      OBVIOUS
    <2> HIDE DEF l, m
    <2> QED BY <2>2, <2>3, <2>4, <1>4
  <1> QED BY <1>3, <1>4

LEMMA TrafficMoves ==
  ASSUME NEW h, NEW q \in Seq(Message), NEW a \in Seq(Response), NEW h2
  PROVE  /\ q # << >> /\ h.pc # "reply" /\ h2.pc = "reply" => Traffic(h2, Tail(q), a) = Traffic(h, q, a)
         /\ q # << >> => Traffic(h, Tail(q), a) <= Traffic(h, q, a)
         /\ a # << >> => Traffic(h, q, Tail(a)) = Traffic(h, q, a) - 1
         /\ \A m \in Message : Traffic(h, Append(q, m), a) = Traffic(h, q, a) + 1
         /\ \A r \in Response : h.pc = "reply" /\ h2.pc # "reply" =>
                Traffic(h2, q, Append(a, r)) = Traffic(h, q, a)
         /\ (h.pc # "reply" /\ h2.pc # "reply" => Traffic(h2, q, a) = Traffic(h, q, a))
  <1>1. Len(q) \in Nat /\ Len(a) \in Nat
    OBVIOUS
  <1>2. (q # << >> => Len(Tail(q)) = Len(q) - 1 /\ Len(q) >= 1)
        /\ (a # << >> => Len(Tail(a)) = Len(a) - 1 /\ Len(a) >= 1)
    OBVIOUS
  <1>3. \A m \in Message : Len(Append(q, m)) = Len(q) + 1
    OBVIOUS
  <1>4. \A r \in Response : Len(Append(a, r)) = Len(a) + 1
    OBVIOUS
  <1> DEFINE b == IF h.pc = "reply" THEN 1 ELSE 0
             b2 == IF h2.pc = "reply" THEN 1 ELSE 0
  <1>5. b \in Nat /\ b2 \in Nat
    OBVIOUS
  <1>6. (h.pc = "reply" => b = 1) /\ (h.pc # "reply" => b = 0)
        /\ (h2.pc = "reply" => b2 = 1) /\ (h2.pc # "reply" => b2 = 0)
    OBVIOUS
  <1>7. \A t, u : Traffic(h, t, u) = Len(t) + Len(u) + b /\ Traffic(h2, t, u) = Len(t) + Len(u) + b2
    BY DEF Traffic
  <1> HIDE DEF b, b2
  <1> DEFINE l == Len(q)
             m == Len(a)
  <1>8. l \in Nat /\ m \in Nat
    BY <1>1
  <1>9. Traffic(h, q, a) = l + m + b /\ Traffic(h2, q, a) = l + m + b2
    BY <1>7
  <1>10. q # << >> => Traffic(h2, Tail(q), a) = l - 1 + m + b2 /\ Traffic(h, Tail(q), a) = l - 1 + m + b
    BY <1>2, <1>7
  <1>11. a # << >> => Traffic(h, q, Tail(a)) = l + (m - 1) + b
    BY <1>2, <1>7
  <1>12. \A e \in Message : Traffic(h, Append(q, e), a) = l + 1 + m + b
    BY <1>3, <1>7
  <1>13. \A r \in Response : Traffic(h2, q, Append(a, r)) = l + (m + 1) + b2
    BY <1>4, <1>7
  <1> HIDE DEF l, m
  <1> QED BY <1>5, <1>6, <1>8, <1>9, <1>10, <1>11, <1>12, <1>13

(* What carrying out the request at the head of q does to the thread and the   *)
(* session.                                                                    *)
Carried(q, h, runs, result, held2, runs2) ==
    LET verb == Head(q).kind IN
    /\ verb \in {"hello", "info", "stats"} => (held2 <=> h.session) /\ (runs2 <=> runs)
    /\ verb = "open" =>
         /\ runs2 <=> runs
         /\ result = "ok" => ~h.session /\ held2
         /\ result # "ok" => (held2 <=> h.session)
    /\ verb \in Two!Acks /\ h.session =>
         /\ result = "ok"
         /\ held2 <=> verb # "close"
         /\ runs2 <=> verb = "start"
    /\ verb \in Two!Acks /\ ~h.session => ~held2 /\ (runs2 <=> runs)

LEMMA AnswerKeeps ==
  ASSUME NEW c \in Two!Library, NEW w, ~w, NEW h, NEW q \in Seq(Message), NEW a \in Seq(Response), NEW k,
         NEW cut, NEW held, NEW runs, InStep(c, w, h, q, a, k, cut, held, runs),
         h.pc = "read", q # << >>, NEW h2, NEW held2, NEW runs2, held2 <=> h2.session,
         h2.pc = "reply", ~h2.last, h2.before = 0, h2.response.to = Head(q).kind,
         h2.hello <=> h.hello \/ Head(q).kind = "hello", h2.session => h2.timer = "none",
         Carried(q, h, runs, h2.response.result, held2, runs2)
  PROVE  InStep(c, w, h2, Tail(q), a, k, cut, held2, runs2)
  <1> DEFINE verb == Head(q).kind
  <1>1. /\ Thread(c, h, q, a, k, held, runs) /\ Polite(c, h, q, a, k, cut) /\ Asking(h, q, a, k)
        /\ Opening(h, q, a, k) /\ Streaming(h, q, a, k, runs)
    BY DEF InStep
  <1>2. /\ Head(q) = q[1] /\ Len(q) \in Nat \ {0} /\ 1 \in 1 .. Len(q)
        /\ Tail(q) # << >> => Len(q) > 1
        /\ \A i \in 1 .. Len(Tail(q)) : i + 1 \in 1 .. Len(q) /\ Tail(q)[i] = q[i + 1]
    BY Tails
  <1>3. verb \in Asked /\ (~h.hello => verb = "hello") /\ h2.hello
    BY <1>1, <1>2 DEF Polite
  <1>4. Traffic(h2, Tail(q), a) = Traffic(h, q, a)
    BY TrafficMoves
  <1>5. verb \in Two!Acks \/ verb = "open" \/ verb \in {"hello", "info", "stats"}
    BY <1>3 DEF Asked, Two!Acks
  <1>6. \A kinds : UnderWay(h, q, a, kinds) => UnderWay(h2, Tail(q), a, kinds) /\ verb \in kinds
    BY <1>2 DEF UnderWay
  <1>7. runs2 => h2.session
    <2>1. runs => h.session
      BY <1>1 DEF Thread
    <2> QED BY <2>1, <1>5 DEF Carried
  <1>8. Thread(c, h2, Tail(q), a, k, held2, runs2)
    <2>1. h2.before < Two!MaxBeforeHello
      BY DEF Two!MaxBeforeHello
    <2>2. k.pc # "new" /\ (k.pc = "raw" => c \in Raw)
      BY <1>1 DEF Thread
    <2> QED BY <2>1, <2>2, <1>7 DEF Thread
  <1>9. k.pc \in {"new", "connecting", "client", "asking"} => ~h2.session
    <2>1. ASSUME k.pc \in {"connecting", "client", "asking"} PROVE ~h2.session
      <3>1. verb \in {"hello", "info", "stats"}
        BY <2>1, <1>1, <1>6 DEF Asking
      <3> QED BY <2>1, <3>1, <1>1 DEF Carried, Polite
    <2> QED BY <2>1, <1>1 DEF Thread
  <1>10. Polite(c, h2, Tail(q), a, k, cut)
    <2>1. (k.pc \in Active \cup {"new"} => ~cut)
          /\ (k.pc \in Active => Traffic(h2, Tail(q), a) <= MaxQueue)
      BY <1>1, <1>4 DEF Polite
    <2>2. \A i \in 1 .. Len(Tail(q)) : Tail(q)[i].kind \in Asked /\ Tail(q)[i].of = c
      BY <1>1, <1>2 DEF Polite
    <2>3. k.pc # "new"
      BY <1>1 DEF Thread
    <2> QED BY <2>1, <2>2, <2>3, <1>3, <1>9 DEF Polite
  <1>11. Asking(h2, Tail(q), a, k)
    BY <1>1, <1>4, <1>6 DEF Asking
  <1>12. k.pc = "opening" => /\ k.asked = "open" /\ (verb = "open" => Tail(q) = << >>)
                             /\ \A i \in 1 .. Len(a) : a[i].to # "open"
    <2>1. verb = "open" /\ k.pc = "opening" => 1 = Len(q)
      BY <1>1, <1>2 DEF Opening
    <2> QED BY <2>1, <1>1, <1>2 DEF Opening
  <1>13. Opening(h2, Tail(q), a, k)
    <2> SUFFICES ASSUME k.pc = "opening" PROVE Opening(h2, Tail(q), a, k)
      BY DEF Opening
    <2>1. \A i \in 1 .. Len(Tail(q)) : Tail(q)[i].kind = "open" => i = Len(Tail(q))
      <3> SUFFICES ASSUME NEW i \in 1 .. Len(Tail(q)), Tail(q)[i].kind = "open"
                   PROVE  i = Len(Tail(q))
        OBVIOUS
      <3>1. i + 1 = Len(q)
        BY <1>1, <1>2 DEF Opening
      <3>2. Len(Tail(q)) = Len(q) - 1
        BY Tails
      <3> QED BY <3>1, <3>2, <1>2
    <2>2. UnderWay(h2, Tail(q), a, {"hello", "info", "stats", "open"})
      BY <1>1, <1>6 DEF Opening
    <2> QED BY <2>1, <2>2, <1>12 DEF Opening
  <1>14. k.pc = "waiting" => /\ verb = k.asked /\ k.asked \in Two!Acks \cup {"stats"}
                             /\ a = << >> /\ Tail(q) = << >> /\ h.session /\ (k.started <=> runs)
    BY <1>1, <1>6, TrafficIs DEF Streaming
  <1>15. k.pc # "stream"
    BY <1>1, TrafficIs DEF Streaming
  <1>16. Streaming(h2, Tail(q), a, k, runs2)
    <2>1. CASE k.pc = "opening"
      <3>1. Settled(h2, k, runs2, h2.response)
        <4>1. verb = "open" => (h.session <=> held) /\ (runs => h.session)
          BY <1>1 DEF Thread
        <4> QED BY <4>1, <1>12, <2>1 DEF Settled, Carried, Two!Acks
      <3>2. \A i \in 1 .. Len(a) : Settled(h2, k, runs2, a[i])
        BY <1>12, <2>1 DEF Settled, Two!Acks
      <3> QED BY <2>1, <3>1, <3>2 DEF Streaming
    <2>2. CASE k.pc = "waiting"
      <3>1. Settled(h2, k, runs2, h2.response)
        BY <1>14, <2>2 DEF Settled, Carried, Two!Acks
      <3>2. Len(a) = 0
        BY <1>14, <2>2
      <3>3. Traffic(h2, Tail(q), a) <= 1 /\ UnderWay(h2, Tail(q), a, {k.asked})
        BY <1>1, <1>4, <1>6, <2>2 DEF Streaming
      <3> QED BY <2>2, <3>1, <3>2, <3>3, <1>14 DEF Streaming
    <2> QED BY <2>1, <2>2, <1>15 DEF Streaming
  <1> QED BY <1>8, <1>10, <1>11, <1>13, <1>16 DEF InStep

(* The invariant of a connection, in parts.                                    *)
LEMMA Parts ==
  ASSUME NEW c, NEW w, NEW h, NEW q, NEW a, NEW k, NEW cut, NEW held, NEW runs,
         InStep(c, w, h, q, a, k, cut, held, runs)
  PROVE  /\ Thread(c, h, q, a, k, held, runs)
         /\ c \in Two!Library /\ ~w =>
              Polite(c, h, q, a, k, cut) /\ Asking(h, q, a, k) /\ Opening(h, q, a, k)
              /\ Streaming(h, q, a, k, runs)
  BY DEF InStep

(* A program that has closed or gone away is owed nothing.                     *)
LEMMA Retired ==
  ASSUME NEW c \in Connections, NEW w, NEW h, NEW q, NEW a, NEW k, NEW cut, NEW held, NEW runs,
         Thread(c, h, q, a, k, held, runs), k.pc \in {"closed", "gone", "raw"},
         c \in Two!Library /\ ~w =>
           /\ h.before = 0 /\ (h.pc = "reply" => ~h.last)
           /\ \A i \in 1 .. Len(q) : q[i].kind \in Asked /\ q[i].of = c
                                       /\ (~h.hello => q[i].kind = "hello")
  PROVE  InStep(c, w, h, q, a, k, cut, held, runs)
  <1>1. k.pc \notin Active \cup {"new"}
    BY DEF Active
  <1>2. c \in Two!Library /\ ~w => Polite(c, h, q, a, k, cut)
    BY <1>1 DEF Polite
  <1>3. Asking(h, q, a, k) /\ Opening(h, q, a, k) /\ Streaming(h, q, a, k, runs)
    BY DEF Asking, Opening, Streaming
  <1> QED BY <1>2, <1>3 DEF InStep

(* The thread has written its answer.                                          *)
LEMMA WrittenKeeps ==
  ASSUME NEW c \in Two!Library, NEW w, ~w, NEW h, NEW q \in Seq(Message), NEW a \in Seq(Response), NEW k,
         NEW cut, NEW held, NEW runs, InStep(c, w, h, q, a, k, cut, held, runs),
         h.pc = "reply", h.response \in Response, NEW h2, h2.pc = "read",
         h2.hello = h.hello, h2.before = h.before, h2.session = h.session, h2.timer = h.timer
  PROVE  InStep(c, w, h2, q, Append(a, h.response), k, cut, held, runs)
  <1> DEFINE b == Append(a, h.response)
  <1>1. /\ Thread(c, h, q, a, k, held, runs) /\ Polite(c, h, q, a, k, cut) /\ Asking(h, q, a, k)
        /\ Opening(h, q, a, k) /\ Streaming(h, q, a, k, runs)
    BY Parts
  <1>2. /\ Len(a) \in Nat /\ Len(b) = Len(a) + 1 /\ b # << >>
        /\ \A i \in 1 .. Len(a) : b[i] = a[i]
        /\ b[Len(a) + 1] = h.response
        /\ \A i \in 1 .. Len(b) : i \in 1 .. Len(a) \/ i = Len(a) + 1
    BY Appends
  <1>3. Traffic(h2, q, b) = Traffic(h, q, a)
    BY TrafficMoves
  <1> HIDE DEF b
  <1>4. \A kinds : UnderWay(h, q, a, kinds) => UnderWay(h2, q, b, kinds)
    <2> SUFFICES ASSUME NEW kinds, UnderWay(h, q, a, kinds), NEW i \in 1 .. Len(b)
                 PROVE  b[i].to \in kinds
      BY DEF UnderWay
    <2> QED BY <1>2 DEF UnderWay
  <1>5. Thread(c, h2, q, b, k, held, runs)
    <2>1. k.pc # "new" /\ h.before < Two!MaxBeforeHello
      BY <1>1 DEF Thread, Polite
    <2> QED BY <1>1, <2>1 DEF Thread
  <1>6. Polite(c, h2, q, b, k, cut)
    <2>1. k.pc # "new"
      BY <1>1 DEF Thread
    <2> QED BY <1>1, <1>3, <2>1 DEF Polite
  <1>7. Asking(h2, q, b, k)
    BY <1>1, <1>3, <1>4 DEF Asking
  <1>8. Opening(h2, q, b, k)
    <2> SUFFICES ASSUME k.pc = "opening" PROVE Opening(h2, q, b, k)
      BY DEF Opening
    <2>1. ASSUME NEW i \in 1 .. Len(b), b[i].to = "open" PROVE i = Len(b) /\ q = << >>
      <3>1. CASE i \in 1 .. Len(a)
        BY <3>1, <2>1, <1>1, <1>2 DEF Opening
      <3>2. CASE i = Len(a) + 1
        BY <3>2, <2>1, <1>1, <1>2 DEF Opening
      <3> QED BY <3>1, <3>2, <1>2
    <2> QED BY <2>1, <1>1, <1>4 DEF Opening
  <1>9. Streaming(h2, q, b, k, runs)
    <2>1. k.pc # "stream"
      BY <1>1, TrafficIs DEF Streaming
    <2>2. \A r : Settled(h, k, runs, r) => Settled(h2, k, runs, r)
      BY DEF Settled
    <2>3. ASSUME k.pc \in {"opening", "waiting"}, NEW i \in 1 .. Len(b)
          PROVE  Settled(h2, k, runs, b[i])
      BY <2>2, <2>3, <1>1, <1>2 DEF Streaming
    <2>4. k.pc = "waiting" =>
            /\ k.asked \in Two!Acks \cup {"stats"} /\ Traffic(h2, q, b) <= 1
            /\ UnderWay(h2, q, b, {k.asked})
            /\ q # << >> => h2.session /\ (k.started <=> runs)
      BY <1>1, <1>3, <1>4 DEF Streaming
    <2> QED BY <2>1, <2>3, <2>4 DEF Streaming
  <1> QED BY <1>5, <1>6, <1>7, <1>8, <1>9 DEF InStep, b

(* The thread goes away, or was never there: it lets go of the session and the *)
(* socket.                                                                     *)
LEMMA HungUpKeeps ==
  ASSUME NEW c \in Connections, NEW w, NEW h, NEW q \in Seq(Message), NEW a \in Seq(Response), NEW k,
         NEW cut, NEW held, NEW runs, InStep(c, w, h, q, a, k, cut, held, runs),
         NEW h2, h2.pc = "gone", ~h2.session, h2.before = 0, Two!ControlAssumption,
         NEW held2, ~held2, NEW runs2, ~runs2
  PROVE  InStep(c, w, h2, << >>, a, k, cut, held2, runs2)
  <1>0. << >> \in Seq(Message) /\ Len(<< >>) = 0
    OBVIOUS
  <1>1. /\ Thread(c, h, q, a, k, held, runs)
        /\ c \in Two!Library /\ ~w => /\ Polite(c, h, q, a, k, cut) /\ Asking(h, q, a, k)
                             /\ Opening(h, q, a, k) /\ Streaming(h, q, a, k, runs)
    BY Parts
  <1>2. Thread(c, h2, << >>, a, k, held2, runs2)
    BY <1>1 DEF Thread
  <1>3. Traffic(h2, << >>, a) <= Traffic(h, q, a) /\ Traffic(h2, << >>, a) \in Nat
        /\ Traffic(h, q, a) \in Nat
    <2>1. Traffic(h2, << >>, a) = Len(a)
      BY <1>0 DEF Traffic
    <2>2. Len(a) \in Nat /\ Len(q) \in Nat /\ (IF h.pc = "reply" THEN 1 ELSE 0) \in Nat
      OBVIOUS
    <2>3. \A l, m, n \in Nat : m <= l + m + n /\ l + m + n \in Nat
      OBVIOUS
    <2> QED BY <2>1, <2>2, <2>3 DEF Traffic
  <1>4. \A kinds : UnderWay(h, q, a, kinds) => UnderWay(h2, << >>, a, kinds)
    BY <1>0 DEF UnderWay
  <1>5. ASSUME c \in Two!Library, ~w
        PROVE  /\ Polite(c, h2, << >>, a, k, cut) /\ Asking(h2, << >>, a, k)
               /\ Opening(h2, << >>, a, k) /\ Streaming(h2, << >>, a, k, runs2)
    <2>0. (Traffic(h, q, a) <= MaxQueue => Traffic(h2, << >>, a) <= MaxQueue)
          /\ (Traffic(h, q, a) <= 1 => Traffic(h2, << >>, a) <= 1)
          /\ (Traffic(h, q, a) = 0 => Traffic(h2, << >>, a) = 0)
      BY <1>3 DEF Two!ControlAssumption
    <2>1. Polite(c, h2, << >>, a, k, cut)
      BY <1>0, <1>1, <1>5, <2>0 DEF Polite
    <2>2. Asking(h2, << >>, a, k)
      BY <1>1, <1>4, <1>5, <2>0 DEF Asking
    <2>3. Opening(h2, << >>, a, k)
      BY <1>0, <1>1, <1>4, <1>5 DEF Opening
    <2>4. Streaming(h2, << >>, a, k, runs2)
      BY <1>1, <1>4, <1>5, <2>0 DEF Streaming, Settled
    <2> QED BY <2>1, <2>2, <2>3, <2>4
  <1> QED BY <1>2, <1>5 DEF InStep

(* A thread moves on without touching the session or the socket: it begins to  *)
(* serve, or it is about to leave a connection that has no use for it.         *)
LEMMA MovedKeeps ==
  ASSUME NEW c \in Two!Library, NEW w, ~w, NEW h, NEW q \in Seq(Message), NEW a \in Seq(Response), NEW k,
         NEW cut, NEW held, NEW runs, InStep(c, w, h, q, a, k, cut, held, runs),
         NEW h2, h2.hello = h.hello, h2.before = h.before, h2.session = h.session,
         h2.timer = h.timer,
         \/ h.pc = "backlog" /\ h2.pc = "read"
         \/ h.pc = "read" /\ h2.pc = "leave" /\ (cut \/ k.pc = "gone" \/ h.timer # "none")
  PROVE  InStep(c, w, h2, q, a, k, cut, held, runs)
  <1>1. /\ Thread(c, h, q, a, k, held, runs) /\ Polite(c, h, q, a, k, cut) /\ Asking(h, q, a, k)
        /\ Opening(h, q, a, k) /\ Streaming(h, q, a, k, runs)
    BY Parts
  <1>2. h.pc # "reply" /\ h2.pc # "reply" /\ h.pc # "gone" /\ h2.pc # "gone"
    OBVIOUS
  <1>3. Traffic(h2, q, a) = Traffic(h, q, a)
    BY <1>2, TrafficMoves
  <1>4. \A kinds : UnderWay(h, q, a, kinds) => UnderWay(h2, q, a, kinds)
    BY <1>2 DEF UnderWay
  <1>5. k.pc \in Active => ~h.session
    <2>1. CASE h.pc = "backlog"
      BY <1>1, <2>1 DEF Thread
    <2>2. CASE h.pc = "read"
      BY <1>1, <2>2 DEF Thread, Polite, Active
    <2> QED BY <2>1, <2>2
  <1>6. Thread(c, h2, q, a, k, held, runs)
    <2>1. h2.pc = "read" => h2.before < Two!MaxBeforeHello
      BY <1>1 DEF Thread, Two!MaxBeforeHello
    <2>2. k.pc # "new" \/ h.pc = "none"
      BY <1>1, <1>2 DEF Thread
    <2> QED BY <1>1, <1>2, <2>1, <2>2 DEF Thread
  <1>7. Polite(c, h2, q, a, k, cut)
    BY <1>1, <1>2, <1>3, <1>5 DEF Polite
  <1>8. Asking(h2, q, a, k) /\ Opening(h2, q, a, k)
    BY <1>1, <1>2, <1>3, <1>4 DEF Asking, Opening
  <1>9. Streaming(h2, q, a, k, runs)
    <2>1. \A r : Settled(h, k, runs, r) => Settled(h2, k, runs, r)
      BY <1>2 DEF Settled
    <2> QED BY <1>1, <1>2, <1>3, <1>4, <2>1 DEF Streaming
  <1> QED BY <1>6, <1>7, <1>8, <1>9 DEF InStep

Sent(h, cut, q, m, p) == IF h.pc = "gone" \/ cut THEN p = q ELSE p = Append(q, m)

Longer(h, q, a, m, p) ==
    /\ p \in Seq(Message) /\ Len(p) \in Nat /\ Len(q) \in Nat
    /\ Traffic(h, p, a) <= Traffic(h, q, a) + 1
    /\ Traffic(h, p, a) \in Nat /\ Traffic(h, q, a) \in Nat
    /\ h.pc = "gone" => p = q
    /\ \A i \in 1 .. Len(p) : (i \in 1 .. Len(q) /\ p[i] = q[i])
                              \/ (i = Len(p) /\ p[i] = m /\ h.pc # "gone")

LEMMA SentIs ==
  ASSUME NEW h, NEW q \in Seq(Message), NEW a \in Seq(Response), NEW m \in Message, NEW p,
         NEW cut, Sent(h, cut, q, m, p)
  PROVE  Longer(h, q, a, m, p)
  <1> USE DEF Longer
  <1>1. CASE h.pc = "gone" \/ cut
    <2>1. p = q /\ Traffic(h, q, a) \in Nat
      BY <1>1, TrafficIs DEF Sent
    <2>2. Len(q) \in Nat
      OBVIOUS
    <2> QED BY <1>1, <2>1, <2>2
  <1>2. CASE h.pc # "gone" /\ ~cut
    <2>1. p = Append(q, m)
      BY <1>2 DEF Sent
    <2>2. p \in Seq(Message) /\ Len(p) = Len(q) + 1 /\ Len(q) \in Nat
          /\ (\A i \in 1 .. Len(q) : p[i] = q[i]) /\ p[Len(q) + 1] = m
          /\ \A i \in 1 .. Len(p) : i \in 1 .. Len(q) \/ i = Len(q) + 1
      BY <2>1, Appends
    <2>3. Traffic(h, q, a) \in Nat /\ Traffic(h, p, a) \in Nat
      BY <2>2, TrafficIs
    <2>4. Traffic(h, p, a) = Traffic(h, q, a) + 1
      BY <2>1, TrafficMoves
    <2> QED BY <1>2, <2>2, <2>3, <2>4
  <1> QED BY <1>1, <1>2

(* A program connects.                                                         *)
LEMMA ConnectedKeeps ==
  ASSUME NEW c \in Two!Library, NEW w, ~w, NEW h, NEW q \in Seq(Message), NEW a \in Seq(Response), NEW k,
         NEW cut, NEW held, NEW runs, InStep(c, w, h, q, a, k, cut, held, runs), k.pc = "new",
         Two!ControlAssumption, NEW m \in Message, m.kind = "hello", m.of = c, NEW p, Sent(h, cut, q, m, p),
         NEW h2, h2.pc = "backlog", h2.hello = h.hello, h2.before = h.before,
         h2.session = h.session, h2.timer = h.timer,
         NEW j, j.pc = "connecting", j.asked = "hello"
  PROVE  InStep(c, w, h2, p, a, j, cut, held, runs)
  <1>1. /\ Thread(c, h, q, a, k, held, runs) /\ Polite(c, h, q, a, k, cut)
        /\ q = << >> /\ a = << >> /\ h.pc \in {"none", "gone"} /\ ~h.session
    BY Parts DEF Thread, Polite
  <1>s. Longer(h, q, a, m, p)
    BY SentIs
  <1>l. Len(q) = 0 /\ Len(a) = 0
    BY <1>1
  <1>2. /\ p \in Seq(Message) /\ \A i \in 1 .. Len(p) : p[i] = m
    BY <1>s, <1>l DEF Longer
  <1>3. Traffic(h, q, a) = 0
    BY <1>1, TrafficIs
  <1>3a. Traffic(h, p, a) <= 1 /\ Traffic(h, p, a) \in Nat
    BY <1>s, <1>3 DEF Longer
  <1>3b. h.pc # "reply" /\ h2.pc # "reply"
    BY <1>1
  <1>3c. Traffic(h2, p, a) = Traffic(h, p, a)
    BY <1>2, <1>3b, TrafficMoves
  <1>4. Traffic(h2, p, a) <= 1 /\ MaxQueue >= 1 /\ MaxQueue \in Nat /\ Traffic(h2, p, a) \in Nat
    BY <1>3a, <1>3c DEF Two!ControlAssumption
  <1>5. Thread(c, h2, p, a, j, held, runs)
    BY <1>1 DEF Thread, Two!MaxBeforeHello
  <1>6. Polite(c, h2, p, a, j, cut)
    BY <1>1, <1>2, <1>4 DEF Polite, Active, Asked
  <1>7. Asking(h2, p, a, j)
    BY <1>1, <1>2, <1>4 DEF Asking, UnderWay
  <1>8. Opening(h2, p, a, j) /\ Streaming(h2, p, a, j, runs)
    BY DEF Opening, Streaming
  <1> QED BY <1>5, <1>6, <1>7, <1>8 DEF InStep

(* A client asks for information, or to open its session.                      *)
LEMMA AskedKeeps ==
  ASSUME NEW c \in Two!Library, NEW w, ~w, NEW h, NEW q \in Seq(Message), NEW a \in Seq(Response), NEW k,
         NEW cut, NEW held, NEW runs, InStep(c, w, h, q, a, k, cut, held, runs), k.pc = "client",
         Two!ControlAssumption, Traffic(h, q, a) < MaxQueue,
         NEW m \in Message, m.kind \in {"info", "stats", "open"}, m.of = c, NEW p, Sent(h, cut, q, m, p),
         NEW j, j.pc = IF m.kind = "open" THEN "opening" ELSE "asking", j.asked = m.kind
  PROVE  InStep(c, w, h, p, a, j, cut, held, runs)
  <1>1. /\ Thread(c, h, q, a, k, held, runs) /\ Polite(c, h, q, a, k, cut)
        /\ UnderWay(h, q, a, {"hello", "info", "stats"}) /\ ~h.session
    BY Parts DEF Asking, Polite
  <1>s. Longer(h, q, a, m, p)
    BY SentIs
  <1>2. /\ p \in Seq(Message) /\ Len(p) \in Nat
        /\ h.pc = "gone" => p = q
        /\ \A i \in 1 .. Len(p) : (i \in 1 .. Len(q) /\ p[i] = q[i])
                                   \/ (i = Len(p) /\ p[i] = m /\ h.pc # "gone")
    BY <1>s DEF Longer
  <1>3. Traffic(h, p, a) <= MaxQueue
    BY <1>s DEF Two!ControlAssumption, Longer
  <1>4. Thread(c, h, p, a, j, held, runs)
    BY <1>1, <1>2 DEF Thread
  <1>5. h.pc # "gone" => h.hello
    BY <1>1 DEF Polite, Active
  <1>6. \A i \in 1 .. Len(p) : p[i].kind \in Asked /\ p[i].of = c /\ (~h.hello => p[i].kind = "hello")
    BY <1>1, <1>2, <1>5 DEF Polite, Asked
  <1>7. Polite(c, h, p, a, j, cut)
    BY <1>1, <1>3, <1>5, <1>6 DEF Polite, Active
  <1>8. Asking(h, p, a, j)
    BY <1>1, <1>2 DEF Asking, UnderWay
  <1>9. Opening(h, p, a, j)
    <2> SUFFICES ASSUME j.pc = "opening" PROVE Opening(h, p, a, j)
      BY DEF Opening
    <2>1. UnderWay(h, p, a, {"hello", "info", "stats", "open"})
      BY <1>1, <1>2 DEF UnderWay
    <2>2. \A i \in 1 .. Len(p) : p[i].kind = "open" => i = Len(p)
      BY <1>1, <1>2 DEF UnderWay
    <2>3. (h.pc = "reply" => h.response.to # "open") /\ \A i \in 1 .. Len(a) : a[i].to # "open"
      BY <1>1 DEF UnderWay
    <2> QED BY <2>1, <2>2, <2>3 DEF Opening
  <1>10. Streaming(h, p, a, j, runs)
    <2>1. (h.pc = "reply" => h.response.to # "open") /\ \A i \in 1 .. Len(a) : a[i].to # "open"
      BY <1>1 DEF UnderWay
    <2> QED BY <2>1 DEF Streaming, Settled, Two!Acks
  <1> QED BY <1>4, <1>7, <1>8, <1>9, <1>10 DEF InStep

(* A stream makes a request.                                                   *)
LEMMA RequestedKeeps ==
  ASSUME NEW c \in Two!Library, NEW w, ~w, NEW h, NEW q \in Seq(Message), NEW a \in Seq(Response), NEW k,
         NEW cut, NEW held, NEW runs, InStep(c, w, h, q, a, k, cut, held, runs), k.pc = "stream",
         Two!ControlAssumption,
         NEW m \in Message, m.kind \in Two!Acks \cup {"stats"}, m.of = c, NEW p, Sent(h, cut, q, m, p),
         NEW j, j.pc = "waiting", j.asked = m.kind, j.started = k.started
  PROVE  InStep(c, w, h, p, a, j, cut, held, runs)
  <1>1. /\ Thread(c, h, q, a, k, held, runs) /\ Polite(c, h, q, a, k, cut)
        /\ Traffic(h, q, a) = 0 /\ (h.pc # "gone" => h.session /\ (k.started <=> runs))
    <2>1. Streaming(h, q, a, k, runs) /\ Thread(c, h, q, a, k, held, runs)
          /\ Polite(c, h, q, a, k, cut)
      BY Parts
    <2> QED BY <2>1 DEF Streaming
  <1>2. q = << >> /\ a = << >> /\ h.pc # "reply" /\ Len(q) = 0 /\ Len(a) = 0
    <2>1. q = << >> /\ a = << >> /\ h.pc # "reply"
      BY <1>1, TrafficIs
    <2> QED BY <2>1
  <1>s. Longer(h, q, a, m, p)
    BY SentIs
  <1>3. /\ p \in Seq(Message) /\ Traffic(h, p, a) <= 1 /\ Traffic(h, p, a) \in Nat
        /\ h.pc = "gone" => p = q
        /\ \A i \in 1 .. Len(p) : p[i] = m /\ h.pc # "gone"
    BY <1>s, <1>1, <1>2 DEF Longer
  <1>4. Traffic(h, p, a) <= MaxQueue
    BY <1>3 DEF Two!ControlAssumption
  <1>5. Thread(c, h, p, a, j, held, runs)
    BY <1>1, <1>3 DEF Thread
  <1>6. h.pc # "gone" => h.hello
    BY <1>1 DEF Polite, Active
  <1>7. Polite(c, h, p, a, j, cut)
    BY <1>1, <1>2, <1>3, <1>4, <1>6 DEF Polite, Active, Asked, Two!Acks
  <1>8. Asking(h, p, a, j) /\ Opening(h, p, a, j)
    BY DEF Asking, Opening
  <1>9. Streaming(h, p, a, j, runs)
    BY <1>1, <1>2, <1>3 DEF Streaming, UnderWay
  <1> QED BY <1>5, <1>7, <1>8, <1>9 DEF InStep

(* A program may take the first of its answers.                                *)
Fewer(a, b) == b = a \/ (a # << >> /\ b = Tail(a))

Shorter(h, q, a, b) ==
    /\ b \in Seq(Response) /\ Traffic(h, q, b) <= Traffic(h, q, a)
    /\ Traffic(h, q, b) \in Nat /\ Traffic(h, q, a) \in Nat
    /\ b # << >> => a # << >>
    /\ \A i \in 1 .. Len(b) : \E j \in 1 .. Len(a) : b[i] = a[j]

LEMMA FewerIs ==
  ASSUME NEW h, NEW q \in Seq(Message), NEW a \in Seq(Response), NEW b, Fewer(a, b)
  PROVE  Shorter(h, q, a, b)
  <1>1. CASE b = a
    BY <1>1, TrafficIs DEF Shorter
  <1>2. CASE a # << >> /\ b = Tail(a)
    <2>1. b \in Seq(Response) /\ \A i \in 1 .. Len(b) : i + 1 \in 1 .. Len(a) /\ b[i] = a[i + 1]
      BY <1>2, Tails
    <2>2. Traffic(h, q, b) \in Nat /\ Traffic(h, q, a) \in Nat
      BY <2>1, TrafficIs
    <2>3. Traffic(h, q, b) = Traffic(h, q, a) - 1
      BY <1>2, TrafficMoves
    <2>4. Traffic(h, q, b) <= Traffic(h, q, a)
      BY <2>2, <2>3
    <2> QED BY <1>2, <2>1, <2>2, <2>4 DEF Shorter
  <1> QED BY <1>1, <1>2 DEF Fewer

(* A program closes its stream, is dropped or dies.                            *)
LEMMA LeftKeeps ==
  ASSUME NEW c \in Connections, NEW w, NEW h, NEW q, NEW a, NEW b, NEW k, NEW cut, NEW cut2, NEW held,
         NEW runs, InStep(c, w, h, q, a, k, cut, held, runs), NEW j, j.pc \in {"closed", "gone"}
  PROVE  InStep(c, w, h, q, b, j, cut2, held, runs)
  <1>1. Thread(c, h, q, a, k, held, runs) /\ (c \in Two!Library /\ ~w => Polite(c, h, q, a, k, cut))
    BY Parts
  <1>2. Thread(c, h, q, b, j, held, runs)
    BY <1>1 DEF Thread
  <1> QED BY <1>1, <1>2, Retired DEF Polite

(* A stream that is dropped sends CLOSE.                                       *)
LEMMA DroppedKeeps ==
  ASSUME NEW c \in Two!Library, NEW w, ~w, NEW h, NEW q \in Seq(Message), NEW a \in Seq(Response), NEW b, NEW k,
         NEW cut, NEW held, NEW runs, InStep(c, w, h, q, a, k, cut, held, runs), k.pc = "stream",
         NEW m \in Message, m.kind = "close", m.of = c, NEW p, Sent(h, cut, q, m, p),
         NEW j, j.pc = "gone"
  PROVE  InStep(c, w, h, p, b, j, cut, held, runs)
  <1>1. Thread(c, h, q, a, k, held, runs) /\ Polite(c, h, q, a, k, cut)
    BY Parts
  <1>s. Longer(h, q, a, m, p)
    BY SentIs
  <1>2. Thread(c, h, p, b, j, held, runs)
    BY <1>1, <1>s DEF Thread, Longer
  <1>3. h.pc # "gone" => h.hello
    BY <1>1 DEF Polite, Active
  <1>4. \A i \in 1 .. Len(p) : p[i].kind \in Asked /\ p[i].of = c /\ (~h.hello => p[i].kind = "hello")
    BY <1>1, <1>3, <1>s DEF Polite, Asked, Longer
  <1> QED BY <1>1, <1>2, <1>4, Retired DEF Polite, Two!Library

(* The answer to HELLO makes a client.                                         *)
LEMMA WelcomedKeeps ==
  ASSUME NEW c \in Two!Library, NEW w, ~w, NEW h, NEW q \in Seq(Message), NEW a \in Seq(Response), NEW k,
         NEW cut, NEW held, NEW runs, InStep(c, w, h, q, a, k, cut, held, runs),
         k.pc = "connecting", a # << >>, Two!ControlAssumption, NEW j, j.pc = "client"
  PROVE  InStep(c, w, h, q, Tail(a), j, cut, held, runs)
  <1> DEFINE b == Tail(a)
  <1>1. /\ Thread(c, h, q, a, k, held, runs) /\ Polite(c, h, q, a, k, cut) /\ Asking(h, q, a, k)
    BY Parts
  <1>2. q = << >> /\ h.pc # "reply" /\ b = << >>
    <2>1. Traffic(h, q, a) <= 1
      BY <1>1 DEF Asking
    <2> QED BY <2>1, TrafficIs
  <1>3. Len(q) = 0 /\ Len(b) = 0
    BY <1>2
  <1>s. Shorter(h, q, a, b)
    BY FewerIs DEF Fewer
  <1> HIDE DEF b
  <1>4. Thread(c, h, q, b, j, held, runs)
    BY <1>1 DEF Thread
  <1>5. Polite(c, h, q, b, j, cut)
    <2>1. h.pc # "gone" => h.hello
      BY <1>1 DEF Polite, Active
    <2>2. Traffic(h, q, b) <= MaxQueue
      BY <1>1, <1>s DEF Polite, Active, Shorter, Two!ControlAssumption
    <2> QED BY <1>1, <1>3, <2>1, <2>2 DEF Polite, Active
  <1>6. Asking(h, q, b, j)
    BY <1>2, <1>3 DEF Asking, UnderWay
  <1>7. Opening(h, q, b, j) /\ Streaming(h, q, b, j, runs)
    BY DEF Opening, Streaming
  <1> QED BY <1>4, <1>5, <1>6, <1>7 DEF InStep, b

(* A client is answered, or gives up waiting for the answer.                   *)
LEMMA AnsweredKeeps ==
  ASSUME NEW c \in Two!Library, NEW w, ~w, NEW h, NEW q \in Seq(Message), NEW a \in Seq(Response), NEW k,
         NEW cut, NEW held, NEW runs, InStep(c, w, h, q, a, k, cut, held, runs),
         k.pc = "asking", NEW b, Fewer(a, b), Two!ControlAssumption, NEW j, j.pc = "client"
  PROVE  InStep(c, w, h, q, b, j, cut, held, runs)
  <1>1. /\ Thread(c, h, q, a, k, held, runs) /\ Polite(c, h, q, a, k, cut)
        /\ UnderWay(h, q, a, {"hello", "info", "stats"})
    <2>1. Thread(c, h, q, a, k, held, runs) /\ Polite(c, h, q, a, k, cut) /\ Asking(h, q, a, k)
      BY Parts
    <2> QED BY <2>1 DEF Asking
  <1>s. Shorter(h, q, a, b)
    BY FewerIs
  <1>4. Thread(c, h, q, b, j, held, runs)
    BY <1>1 DEF Thread
  <1>5. Polite(c, h, q, b, j, cut)
    <2>1. Traffic(h, q, b) <= MaxQueue
      BY <1>1, <1>s DEF Polite, Active, Shorter, Two!ControlAssumption
    <2> QED BY <1>1, <1>s, <2>1 DEF Polite, Active, Shorter
  <1>6. UnderWay(h, q, b, {"hello", "info", "stats"})
    BY <1>1, <1>s DEF UnderWay, Shorter
  <1>7. Asking(h, q, b, j) /\ Opening(h, q, b, j) /\ Streaming(h, q, b, j, runs)
    BY <1>6 DEF Asking, Opening, Streaming
  <1> QED BY <1>4, <1>5, <1>7 DEF InStep

(* The session is open: the client is a stream.                                *)
LEMMA OpenedKeeps ==
  ASSUME NEW c \in Two!Library, NEW w, ~w, NEW h, NEW q \in Seq(Message), NEW a \in Seq(Response), NEW k,
         NEW cut, NEW held, NEW runs \in BOOLEAN, InStep(c, w, h, q, a, k, cut, held, runs),
         k.pc = "opening", a # << >>, Head(a).result = "ok", Head(a).to = "open",
         Two!ControlAssumption, NEW j, j.pc = "stream", ~j.started
  PROVE  InStep(c, w, h, q, Tail(a), j, cut, held, runs)
  <1> DEFINE b == Tail(a)
  <1>1. /\ Thread(c, h, q, a, k, held, runs) /\ Polite(c, h, q, a, k, cut)
        /\ Opening(h, q, a, k)
        /\ Streaming(h, q, a, k, runs)
    BY Parts
  <1>2. Head(a) = a[1] /\ Len(a) \in Nat \ {0} /\ (b # << >> => Len(a) > 1)
    BY Tails
  <1>3. 1 \in 1 .. Len(a) /\ a[1].to = "open" /\ a[1].result = "ok"
    BY <1>2
  <1>4. Len(a) = 1 /\ q = << >> /\ h.pc # "reply" /\ k.asked = "open"
    BY <1>1, <1>3 DEF Opening
  <1>5. b = << >>
    BY <1>2, <1>4
  <1>6. Settled(h, k, runs, a[1])
    BY <1>1, <1>3 DEF Streaming
  <1>7. h.pc # "gone" => h.session /\ ~runs
    BY <1>3, <1>4, <1>6 DEF Settled
  <1> HIDE DEF b
  <1>8. Traffic(h, q, b) = 0 /\ Len(q) = 0
    BY <1>4, <1>5 DEF Traffic
  <1>9. Thread(c, h, q, b, j, held, runs)
    BY <1>1 DEF Thread
  <1>10. Polite(c, h, q, b, j, cut)
    <2>1. 0 <= MaxQueue
      BY DEF Two!ControlAssumption
    <2> QED BY <1>1, <1>5, <1>8, <2>1 DEF Polite, Active
  <1>11. Asking(h, q, b, j) /\ Opening(h, q, b, j) /\ Streaming(h, q, b, j, runs)
    BY <1>7, <1>8 DEF Asking, Opening, Streaming
  <1> QED BY <1>9, <1>10, <1>11 DEF InStep, b

(* A stream's request is answered.  The answer is to that request; if it       *)
(* reports an error the daemon is gone, or the request was for statistics.     *)
Due(h, q, a, k, runs) ==
    /\ Head(a).to = k.asked /\ k.asked \in Two!Acks \cup {"stats"}
    /\ Settled(h, k, runs, Head(a))
    /\ q = << >> /\ h.pc # "reply" /\ Tail(a) = << >>

LEMMA AnswerIs ==
  ASSUME NEW c \in Two!Library, NEW w, ~w, NEW h, NEW q \in Seq(Message), NEW a \in Seq(Response), NEW k,
         NEW cut, NEW held, NEW runs \in BOOLEAN, InStep(c, w, h, q, a, k, cut, held, runs),
         k.pc = "waiting", a # << >>
  PROVE  Due(h, q, a, k, runs)
  <1>1. Streaming(h, q, a, k, runs)
    BY Parts
  <1>2. Traffic(h, q, a) <= 1 /\ k.asked \in Two!Acks \cup {"stats"}
        /\ UnderWay(h, q, a, {k.asked})
        /\ \A i \in 1 .. Len(a) : Settled(h, k, runs, a[i])
    BY <1>1 DEF Streaming
  <1>3. q = << >> /\ h.pc # "reply" /\ Tail(a) = << >>
    BY <1>2, TrafficIs
  <1>4. Head(a) = a[1] /\ 1 \in 1 .. Len(a)
    BY Tails
  <1> QED BY <1>2, <1>3, <1>4 DEF UnderWay, Due

LEMMA StreamAnsweredKeeps ==
  ASSUME NEW c \in Two!Library, NEW w, ~w, NEW h, NEW q \in Seq(Message), NEW a \in Seq(Response), NEW k,
         NEW cut, NEW held, NEW runs \in BOOLEAN, InStep(c, w, h, q, a, k, cut, held, runs),
         k.pc = "waiting", a # << >>, Two!ControlAssumption, NEW j, j.pc = "stream",
         j.started \in BOOLEAN, k.asked # "close" \/ Head(a).result # "ok",
         j.started = IF Head(a).result = "ok" /\ k.asked = "start" THEN TRUE
                     ELSE IF Head(a).result = "ok" /\ k.asked = "stop" THEN FALSE
                     ELSE k.started
  PROVE  InStep(c, w, h, q, Tail(a), j, cut, held, runs)
  <1> DEFINE b == Tail(a)
  <1>1. Thread(c, h, q, a, k, held, runs) /\ Polite(c, h, q, a, k, cut)
    BY Parts
  <1>2. /\ k.asked \in Two!Acks \cup {"stats"} /\ Settled(h, k, runs, Head(a))
        /\ q = << >> /\ h.pc # "reply" /\ b = << >>
    <2>1. Due(h, q, a, k, runs)
      BY AnswerIs
    <2> QED BY <2>1 DEF Due
  <1> HIDE DEF b
  <1>3. h.pc # "gone" => h.session /\ (j.started <=> runs)
    BY <1>2 DEF Settled, Two!Acks
  <1>4. Traffic(h, q, b) = 0 /\ Len(q) = 0
    BY <1>2 DEF Traffic
  <1>5. Thread(c, h, q, b, j, held, runs)
    BY <1>1 DEF Thread
  <1>6. Polite(c, h, q, b, j, cut)
    <2>1. 0 <= MaxQueue
      BY DEF Two!ControlAssumption
    <2> QED BY <1>1, <1>2, <1>4, <2>1 DEF Polite, Active
  <1>7. Asking(h, q, b, j) /\ Opening(h, q, b, j) /\ Streaming(h, q, b, j, runs)
    BY <1>3, <1>4 DEF Asking, Opening, Streaming
  <1> QED BY <1>5, <1>6, <1>7 DEF InStep, b

(* The states of the two ends: every other connection is left alone.           *)
Same(d) ==
    /\ handler'[d] = handler[d] /\ toDaemon'[d] = toDaemon[d] /\ toClient'[d] = toClient[d]
    /\ client'[d] = client[d] /\ shut'[d] = shut[d] /\ child'[d].used = child[d].used
    /\ (d \in sessions' <=> d \in sessions) /\ (d \in running' <=> d \in running)

LEMMA SameKeeps == ASSUME NEW d, Link(d), Same(d) PROVE Link(d)'
  BY DEF Link, Same

Links == \A c \in Connections : Link(c)

LEMMA OneLink ==
  ASSUME Links, NEW c \in Connections, \A d \in Connections \ {c} : Same(d), Link(c)'
  PROVE  Links'
  BY SameKeeps DEF Links

(* The types of one connection.                                                *)
LEMMA EndTypes ==
  ASSUME ControlTypes, NEW c \in Connections
  PROVE  /\ handler[c] \in Handler /\ toDaemon[c] \in Seq(Message) /\ toClient[c] \in Seq(Response)
         /\ client[c] \in Program
         /\ (c \in running) \in BOOLEAN /\ (c \in sessions) \in BOOLEAN
  BY DEF ControlTypes

(* Threads serve the same connections as before.                               *)
LEMMA SameThreads ==
  ASSUME Two!SlotsAreThreads, slots' = slots,
         \A d \in Connections : handler'[d].pc \in Two!Serving <=> handler[d].pc \in Two!Serving
  PROVE  Two!SlotsAreThreads'
  <1>1. ASSUME NEW u \in Two!Uids
        PROVE  {d \in Connections : handler'[d].pc \in Two!Serving /\ UidOf[d] = u}
               = {d \in Connections : handler[d].pc \in Two!Serving /\ UidOf[d] = u}
    OBVIOUS
  <1> QED BY <1>1, SameSizes DEF Two!SlotsAreThreads, Two!Served

(* A thread begins to serve a connection, or ceases to.                        *)
LEMMA OneThread ==
  ASSUME Two!SlotsAreThreads, Two!ControlAssumption, ControlTypes, NEW c \in Connections,
         \A d \in Connections \ {c} : handler'[d].pc = handler[d].pc
  PROVE  /\ handler[c].pc \notin Two!Serving /\ handler'[c].pc \in Two!Serving
            /\ slots' = [slots EXCEPT ![UidOf[c]] = @ + 1] => Two!SlotsAreThreads'
         /\ handler[c].pc \in Two!Serving /\ handler'[c].pc \notin Two!Serving
            /\ slots' = [slots EXCEPT ![UidOf[c]] = @ - 1] =>
               Two!SlotsAreThreads' /\ slots[UidOf[c]] >= 1
  <1> DEFINE T(u) == {d \in Connections : handler[d].pc \in Two!Serving /\ UidOf[d] = u}
             N(u) == {d \in Connections : handler'[d].pc \in Two!Serving /\ UidOf[d] = u}
  <1>1. \A u \in Two!Uids : IsFiniteSet(T(u)) /\ Cardinality(T(u)) \in Nat
    BY FS_Subset, FS_CardinalityType, SameSizes DEF Two!ControlAssumption
  <1>2. \A u \in Two!Uids : slots[u] = Cardinality(T(u))
    BY SameSizes DEF Two!SlotsAreThreads, Two!Served
  <1>3. \A u \in Two!Uids : u # UidOf[c] => N(u) = T(u)
    OBVIOUS
  <1>4. UidOf[c] \in Two!Uids
    BY DEF Two!Uids
  <1>5. DOMAIN slots = Two!Uids /\ slots \in [Two!Uids -> 0 .. MaxClients]
    BY DEF ControlTypes
  <1>6. ASSUME handler[c].pc \notin Two!Serving, handler'[c].pc \in Two!Serving,
               slots' = [slots EXCEPT ![UidOf[c]] = @ + 1]
        PROVE  Two!SlotsAreThreads'
    <2>1. N(UidOf[c]) = T(UidOf[c]) \cup {c} /\ c \notin T(UidOf[c])
      BY <1>6
    <2>2. Cardinality(N(UidOf[c])) = Cardinality(T(UidOf[c])) + 1
      BY <2>1, <1>1, <1>4, FS_AddElement
    <2>a. slots'[UidOf[c]] = slots[UidOf[c]] + 1
          /\ \A u \in Two!Uids : u # UidOf[c] => slots'[u] = slots[u]
      BY <1>4, <1>5, <1>6
    <2>b. slots'[UidOf[c]] = Cardinality(N(UidOf[c]))
      BY <2>2, <2>a, <1>2, <1>4
    <2>c. \A u \in Two!Uids : u # UidOf[c] => slots'[u] = Cardinality(N(u))
      BY <2>a, <1>2, <1>3
    <2>3. \A u \in Two!Uids : slots'[u] = Cardinality(N(u))
      BY <2>b, <2>c
    <2> QED BY <2>3, SameSizes DEF Two!SlotsAreThreads, Two!Served
  <1>7. ASSUME handler[c].pc \in Two!Serving, handler'[c].pc \notin Two!Serving,
               slots' = [slots EXCEPT ![UidOf[c]] = @ - 1]
        PROVE  Two!SlotsAreThreads' /\ slots[UidOf[c]] >= 1
    <2>1. N(UidOf[c]) = T(UidOf[c]) \ {c} /\ c \in T(UidOf[c])
      BY <1>7
    <2>2. Cardinality(N(UidOf[c])) = Cardinality(T(UidOf[c])) - 1
      BY <2>1, <1>1, <1>4, FS_RemoveElement
    <2>a. slots'[UidOf[c]] = slots[UidOf[c]] - 1
          /\ \A u \in Two!Uids : u # UidOf[c] => slots'[u] = slots[u]
      BY <1>4, <1>5, <1>7
    <2>b. slots'[UidOf[c]] = Cardinality(N(UidOf[c]))
      BY <2>2, <2>a, <1>2, <1>4
    <2>c. \A u \in Two!Uids : u # UidOf[c] => slots'[u] = Cardinality(N(u))
      BY <2>a, <1>2, <1>3
    <2>3. \A u \in Two!Uids : slots'[u] = Cardinality(N(u))
      BY <2>b, <2>c
    <2>4. Cardinality(T(UidOf[c])) # 0
      BY <2>1, <1>1, <1>4, FS_EmptySet
    <2>5. slots[UidOf[c]] >= 1
      <3>1. Cardinality(T(UidOf[c])) \in Nat
        BY <1>1, <1>4
      <3>2. slots[UidOf[c]] = Cardinality(T(UidOf[c]))
        BY <1>2, <1>4
      <3> HIDE DEF T
      <3> QED BY <3>1, <3>2, <2>4
    <2> QED BY <2>3, <2>5, SameSizes DEF Two!SlotsAreThreads, Two!Served
  <1> QED BY <1>6, <1>7

(* A step of the program or of its socket that leaves the daemon alone.        *)
ProgramMoves(c, q, a, j, cut) ==
    /\ UNCHANGED <<slots, handler, sessions, running>>
    /\ q \in Seq(Message) /\ toDaemon' = [toDaemon EXCEPT ![c] = q]
    /\ a \in Seq(Response) /\ toClient' = [toClient EXCEPT ![c] = a]
    /\ j \in Program /\ client' = [client EXCEPT ![c] = j]
    /\ cut \in BOOLEAN /\ shut' = [shut EXCEPT ![c] = cut]
    /\ child' = child
    /\ InStep(c, child[c].used, handler[c], q, a, j, cut, c \in sessions, c \in running)

LEMMA ProgramStep ==
  ASSUME ControlInv, NEW c \in Connections, NEW q, NEW a, NEW j, NEW cut,
         ProgramMoves(c, q, a, j, cut)
  PROVE  ControlInv'
  <1> USE DEF ProgramMoves
  <1>1. ControlTypes /\ Two!SlotsAreThreads /\ Links
    BY DEF ControlInv, Links
  <1>2. ControlTypes'
    BY <1>1 DEF ControlTypes
  <1>3. Two!SlotsAreThreads'
    BY <1>1, SameThreads
  <1>4. \A d \in Connections \ {c} : Same(d)
    BY <1>1 DEF Same, ControlTypes
  <1>5. toDaemon'[c] = q /\ toClient'[c] = a /\ client'[c] = j /\ shut'[c] = cut
    BY <1>1 DEF ControlTypes
  <1>6. Link(c)'
    BY <1>5 DEF Link
  <1> QED BY <1>1, <1>2, <1>3, <1>4, <1>6, OneLink DEF ControlInv, Links

(* A step of the daemon for one connection, which leaves the program alone.    *)
LEMMA DaemonStep ==
  ASSUME ControlInv, NEW c \in Connections,
         UNCHANGED <<client, shut, child>>,
         NEW h, h \in Handler, handler' = [handler EXCEPT ![c] = h],
         NEW q, q \in Seq(Message), toDaemon' = [toDaemon EXCEPT ![c] = q],
         NEW a, a \in Seq(Response), toClient' = [toClient EXCEPT ![c] = a],
         sessions' \subseteq Connections, running' \subseteq Connections,
         \A d \in Connections \ {c} : (d \in sessions' <=> d \in sessions)
                                      /\ (d \in running' <=> d \in running),
         slots' \in [Two!Uids -> 0 .. MaxClients], Two!SlotsAreThreads',
         InStep(c, child[c].used, h, q, a, client[c], shut[c], c \in sessions', c \in running')
  PROVE  ControlInv'
  <1>1. ControlTypes /\ Links
    BY DEF ControlInv, Links
  <1>2. ControlTypes'
    BY <1>1 DEF ControlTypes
  <1>4. \A d \in Connections \ {c} : Same(d)
    BY <1>1 DEF Same, ControlTypes
  <1>5. toDaemon'[c] = q /\ toClient'[c] = a /\ handler'[c] = h
    BY <1>1 DEF ControlTypes
  <1>6. Link(c)'
    BY <1>5 DEF Link
  <1> QED BY <1>1, <1>2, <1>4, <1>6, OneLink DEF ControlInv, Links

(* The thread reads a request; a program with the library has sent it          *)
(* politely.                                                                   *)
LEMMA ReadIs ==
  ASSUME ControlInv, NEW c \in Connections, NEW kinds, Two!Receives(c, kinds)
  PROVE  /\ handler[c].pc = "read" /\ toDaemon[c] # << >> /\ handler[c] \in Handler
         /\ toDaemon[c] \in Seq(Message) /\ Tail(toDaemon[c]) \in Seq(Message)
         /\ Head(toDaemon[c]) \in Message /\ Head(toDaemon[c]).kind \in kinds
         /\ toDaemon' = [toDaemon EXCEPT ![c] = Tail(toDaemon[c])]
         /\ UNCHANGED <<slots, toClient, client, shut, child>>
         /\ handler[c].before < Two!MaxBeforeHello
         /\ c \in sessions <=> handler[c].session
         /\ c \in running => handler[c].session
         /\ handler[c].session => handler[c].timer = "none"
         /\ c \in Two!Library /\ ~child[c].used =>
              /\ Head(toDaemon[c]).kind \in Asked /\ Head(toDaemon[c]).of = c
              /\ ~handler[c].hello => Head(toDaemon[c]).kind = "hello"
              /\ handler[c].before = 0
  <1>1. ControlTypes /\ Link(c)
    BY DEF ControlInv
  <1>2. handler[c].pc = "read" /\ toDaemon[c] # << >> /\ Head(toDaemon[c]).kind \in kinds
        /\ toDaemon' = [toDaemon EXCEPT ![c] = Tail(toDaemon[c])]
        /\ UNCHANGED <<slots, toClient, client, shut, child>>
    BY DEF Two!Receives, Two!clientVars
  <1>3. toDaemon[c] \in Seq(Message) /\ handler[c] \in Handler
    BY <1>1, EndTypes
  <1>4. /\ Head(toDaemon[c]) = toDaemon[c][1] /\ toDaemon[c][1] \in Message
        /\ Tail(toDaemon[c]) \in Seq(Message) /\ Len(toDaemon[c]) \in Nat \ {0}
    BY <1>2, <1>3, Tails
  <1>5. /\ Thread(c, handler[c], toDaemon[c], toClient[c], client[c], c \in sessions, c \in running)
        /\ c \in Two!Library /\ ~child[c].used => Polite(c, handler[c], toDaemon[c], toClient[c], client[c], shut[c])
    BY <1>1, Parts DEF Link
  <1>6. c \in Two!Library /\ ~child[c].used =>
          /\ Head(toDaemon[c]).kind \in Asked /\ Head(toDaemon[c]).of = c
          /\ ~handler[c].hello => Head(toDaemon[c]).kind = "hello"
          /\ handler[c].before = 0
    BY <1>4, <1>5 DEF Polite
  <1>7. /\ handler[c].before < Two!MaxBeforeHello
        /\ c \in sessions <=> handler[c].session
        /\ c \in running => handler[c].session
        /\ handler[c].session => handler[c].timer = "none"
    BY <1>2, <1>5 DEF Thread
  <1> QED BY <1>2, <1>3, <1>4, <1>6, <1>7

Said(c, g, result, last) ==
    [g EXCEPT !.pc = "reply", !.last = last,
              !.response = IF c \in Raw THEN Two!NoResponse
                           ELSE [to |-> Head(toDaemon[c]).kind, result |-> result]]

LEMMA SaidIs ==
  ASSUME NEW c \in Connections, NEW g \in Handler, NEW result \in Results, NEW last \in BOOLEAN,
         Head(toDaemon[c]) \in Message
  PROVE  /\ Said(c, g, result, last) \in Handler
         /\ Said(c, g, result, last).pc = "reply" /\ Said(c, g, result, last).last = last
         /\ Said(c, g, result, last).hello = g.hello
         /\ Said(c, g, result, last).before = g.before
         /\ Said(c, g, result, last).session = g.session
         /\ Said(c, g, result, last).timer = g.timer
         /\ c \in Two!Library /\ ~child[c].used => /\ Said(c, g, result, last).response.to = Head(toDaemon[c]).kind
                              /\ Said(c, g, result, last).response.result = result
  <1> DEFINE r == IF c \in Raw THEN Two!NoResponse
                  ELSE [to |-> Head(toDaemon[c]).kind, result |-> result]
  <1>1. r \in Response
    BY DEF Two!NoResponse, Response, Message, Results
  <1>2. c \in Two!Library /\ ~child[c].used => r.to = Head(toDaemon[c]).kind /\ r.result = result
    BY DEF Two!Library
  <1>3. Said(c, g, result, last) = [g EXCEPT !.pc = "reply", !.last = last, !.response = r]
    BY DEF Said
  <1> HIDE DEF r
  <1> QED BY <1>1, <1>2, <1>3 DEF Handler, Two!Serving

(* The thread answers a request it has read, with g what carrying it out makes *)
(* of it.                                                                      *)
LEMMA RespondInv ==
  ASSUME ControlInv, NEW c \in Connections, NEW kinds, Two!Receives(c, kinds),
         NEW g \in Handler, NEW result \in Results, NEW last \in BOOLEAN,
         Two!Respond(c, g, result, last),
         sessions' \subseteq Connections, running' \subseteq Connections,
         \A d \in Connections \ {c} : (d \in sessions' <=> d \in sessions)
                                      /\ (d \in running' <=> d \in running),
         c \in sessions' <=> g.session, c \in running' => g.session,
         ~last => g.before < Two!MaxBeforeHello, g.session => g.timer = "none",
         c \in Two!Library /\ ~child[c].used =>
           /\ ~last /\ g.before = 0
           /\ g.hello <=> handler[c].hello \/ Head(toDaemon[c]).kind = "hello"
           /\ Carried(toDaemon[c], handler[c], c \in running, result, c \in sessions', c \in running')
  PROVE  ControlInv'
  <1> DEFINE h == Said(c, g, result, last)
             q == toDaemon[c]
  <1>1. ControlTypes /\ Two!SlotsAreThreads /\ Link(c)
    BY DEF ControlInv
  <1>2. /\ handler[c].pc = "read" /\ q # << >> /\ q \in Seq(Message) /\ Tail(q) \in Seq(Message)
        /\ Head(q) \in Message /\ toDaemon' = [toDaemon EXCEPT ![c] = Tail(q)]
        /\ UNCHANGED <<slots, toClient, client, shut, child>>
    BY ReadIs
  <1>3. /\ h \in Handler /\ h.pc = "reply" /\ h.last = last /\ h.hello = g.hello
        /\ h.before = g.before /\ h.session = g.session /\ h.timer = g.timer
        /\ c \in Two!Library /\ ~child[c].used => h.response.to = Head(q).kind /\ h.response.result = result
    BY <1>2, SaidIs
  <1>4. handler' = [handler EXCEPT ![c] = h]
    BY DEF Two!Respond, Said
  <1> HIDE DEF h
  <1>5. Two!SlotsAreThreads' /\ slots' \in [Two!Uids -> 0 .. MaxClients]
    <2>1. \A d \in Connections : handler'[d].pc \in Two!Serving <=> handler[d].pc \in Two!Serving
      BY <1>1, <1>2, <1>3, <1>4 DEF ControlTypes, Two!Serving
    <2> QED BY <2>1, <1>1, <1>2, SameThreads DEF ControlTypes
  <1>6. toClient[c] \in Seq(Response) /\ toClient' = [toClient EXCEPT ![c] = toClient[c]]
    BY <1>1, <1>2 DEF ControlTypes
  <1>7. InStep(c, child[c].used, handler[c], q, toClient[c], client[c], shut[c], c \in sessions, c \in running)
    BY <1>1 DEF Link
  <1>8. InStep(c, child[c].used, h, Tail(q), toClient[c], client[c], shut[c], c \in sessions', c \in running')
    <2>1. CASE c \in Two!Library /\ ~child[c].used
      <3>1. Carried(q, handler[c], c \in running, h.response.result, c \in sessions', c \in running')
        BY <2>1, <1>3
      <3>2. /\ ~h.last /\ h.before = 0 /\ h.response.to = Head(q).kind
            /\ (h.hello <=> handler[c].hello \/ Head(q).kind = "hello")
            /\ (h.session => h.timer = "none") /\ (c \in sessions' <=> h.session)
        BY <2>1, <1>3
      <3> HIDE DEF q
      <3> QED BY <2>1, <3>1, <3>2, <1>2, <1>3, <1>6, <1>7, AnswerKeeps
    <2>2. CASE ~(c \in Two!Library /\ ~child[c].used)
      <3>1. Thread(c, handler[c], q, toClient[c], client[c], c \in sessions, c \in running)
        BY <1>7, Parts
      <3>2. Thread(c, h, Tail(q), toClient[c], client[c], c \in sessions', c \in running')
        BY <3>1, <1>2, <1>3 DEF Thread
      <3> QED BY <2>2, <3>2 DEF InStep
    <2> QED BY <2>1, <2>2
  <1> HIDE DEF q
  <1> QED BY <1>2, <1>3, <1>4, <1>5, <1>6, <1>8, DaemonStep

(* The requests.                                                               *)
LEMMA RearmedIs ==
  ASSUME NEW g \in Handler
  PROVE  /\ Two!Rearmed(g) \in Handler /\ Two!Rearmed(g).session = g.session /\ Two!Rearmed(g).hello = g.hello
         /\ Two!Rearmed(g).before = g.before /\ (g.session => Two!Rearmed(g).timer = "none")
  BY DEF Two!Rearmed, Handler

LEMMA AnswerInv ==
  ASSUME ControlInv, NEW c \in Connections, NEW kinds, Two!Receives(c, kinds),
         NEW g \in Handler, NEW result \in Results, Two!Answer(c, g, result),
         sessions' \subseteq Connections, running' \subseteq Connections,
         \A d \in Connections \ {c} : (d \in sessions' <=> d \in sessions)
                                      /\ (d \in running' <=> d \in running),
         c \in sessions' <=> g.session, c \in running' => g.session,
         c \in Two!Library /\ ~child[c].used =>
           /\ g.before = 0
           /\ g.hello <=> handler[c].hello \/ Head(toDaemon[c]).kind = "hello"
           /\ Carried(toDaemon[c], handler[c], c \in running, result, c \in sessions', c \in running')
  PROVE  ControlInv'
  <1> DEFINE f == Two!Rearmed(g)
             last == g.before >= Two!MaxBeforeHello
  <1>1. /\ f \in Handler /\ f.session = g.session /\ f.hello = g.hello /\ f.before = g.before
        /\ g.session => f.timer = "none"
    BY RearmedIs
  <1>2. last \in BOOLEAN /\ Two!Respond(c, f, result, last)
    BY DEF Two!Answer
  <1>3. (~last => g.before < Two!MaxBeforeHello) /\ (g.before = 0 => ~last)
    BY DEF Handler, Two!MaxBeforeHello
  <1> HIDE DEF f, last
  <1>4. /\ ~last => f.before < Two!MaxBeforeHello
        /\ f.session => f.timer = "none"
        /\ c \in sessions' <=> f.session
        /\ c \in running' => f.session
        /\ c \in Two!Library /\ ~child[c].used =>
           /\ ~last /\ f.before = 0
           /\ f.hello <=> handler[c].hello \/ Head(toDaemon[c]).kind = "hello"
           /\ Carried(toDaemon[c], handler[c], c \in running, result, c \in sessions', c \in running')
    BY <1>1, <1>3
  <1> QED BY <1>1, <1>2, <1>4, RespondInv

(* What a request leaves alone.                                                *)
LEMMA KeptIs ==
  ASSUME ControlInv, NEW c \in Connections, Two!Kept
  PROVE  /\ sessions' \subseteq Connections /\ running' \subseteq Connections
         /\ \A d \in Connections : (d \in sessions' <=> d \in sessions)
                                   /\ (d \in running' <=> d \in running)
  BY DEF ControlInv, ControlTypes, Two!Kept

LEMMA ReadFailsInv ==
  ASSUME ControlInv, NEW c \in Connections, Two!ReadFails(c)
  PROVE  ControlInv'
  <1> DEFINE kinds == {"otherVersion", "malformed"}
  <1>1. Two!Receives(c, kinds) /\ Two!Kept
    BY DEF Two!ReadFails
  <1>2. /\ handler[c].pc = "read" /\ handler[c] \in Handler /\ toDaemon[c] \in Seq(Message)
        /\ Tail(toDaemon[c]) \in Seq(Message) /\ Head(toDaemon[c]).kind \in kinds
        /\ toDaemon' = [toDaemon EXCEPT ![c] = Tail(toDaemon[c])]
        /\ UNCHANGED <<slots, toClient, client, shut, child>>
        /\ c \in sessions <=> handler[c].session
        /\ c \in running => handler[c].session
        /\ handler[c].session => handler[c].timer = "none"
        /\ c \in Two!Library /\ ~child[c].used => Head(toDaemon[c]).kind \in Asked
    <2> HIDE DEF kinds
    <2> QED BY <1>1, ReadIs
  <1>3. ~(c \in Two!Library /\ ~child[c].used)
    BY <1>2 DEF Asked
  <1>4. CASE Head(toDaemon[c]).kind = "malformed"
    <2> DEFINE h == [handler[c] EXCEPT !.pc = "leave"]
    <2>1. handler' = [handler EXCEPT ![c] = h]
      BY <1>4 DEF Two!ReadFails, Two!Goto
    <2>2. h \in Handler /\ h.pc = "leave" /\ h.session = handler[c].session
          /\ h.timer = handler[c].timer
      BY <1>2 DEF Handler, Two!Serving
    <2> HIDE DEF h
    <2>3. ControlTypes /\ Two!SlotsAreThreads /\ Link(c)
      BY DEF ControlInv
    <2>4. Two!SlotsAreThreads' /\ slots' \in [Two!Uids -> 0 .. MaxClients]
      <3>1. \A d \in Connections : handler'[d].pc \in Two!Serving <=> handler[d].pc \in Two!Serving
        BY <2>1, <2>2, <2>3, <1>2 DEF ControlTypes, Two!Serving
      <3> QED BY <3>1, <2>3, <1>2, SameThreads DEF ControlTypes
    <2>5. toClient[c] \in Seq(Response) /\ toClient' = [toClient EXCEPT ![c] = toClient[c]]
      BY <2>3, <1>2 DEF ControlTypes
    <2>6. Thread(c, handler[c], toDaemon[c], toClient[c], client[c], c \in sessions, c \in running)
      BY <2>3, Parts DEF Link
    <2>7. Thread(c, h, Tail(toDaemon[c]), toClient[c], client[c], c \in sessions', c \in running')
      BY <1>1, <1>2, <2>2, <2>6 DEF Thread, Two!Kept
    <2>8. InStep(c, child[c].used, h, Tail(toDaemon[c]), toClient[c], client[c], shut[c], c \in sessions',
                 c \in running')
      BY <2>7, <1>3 DEF InStep
    <2> QED BY <1>1, <1>2, <2>1, <2>2, <2>4, <2>5, <2>8, KeptIs, DaemonStep
  <1>5. CASE Head(toDaemon[c]).kind # "malformed"
    <2>1. Two!Respond(c, handler[c], "error", TRUE)
      BY <1>5 DEF Two!ReadFails
    <2>2. "error" \in Results /\ TRUE \in BOOLEAN
      BY DEF Results
    <2>3. /\ c \in sessions' <=> handler[c].session
          /\ c \in running' => handler[c].session
      BY <1>1, <1>2 DEF Two!Kept
    <2> HIDE DEF kinds
    <2> QED BY <1>1, <1>2, <1>3, <2>1, <2>2, <2>3, KeptIs, RespondInv
  <1> QED BY <1>4, <1>5

(* Requests before HELLO and requests of another protocol do not come from the *)
(* library.                                                                    *)
LEMMA UncalledInv ==
  ASSUME ControlInv, NEW c \in Connections, Two!Unknown(c) \/ Two!HelloRequired(c)
  PROVE  ControlInv'
  <1>1. PICK kinds : /\ Two!Receives(c, kinds) /\ kinds \subseteq Two!Requests
                     /\ "hello" \notin kinds
                     /\ kinds \cap Asked = {} \/ ~handler[c].hello
    <2>1. CASE Two!Unknown(c)
      BY <2>1 DEF Two!Unknown, Asked, Two!Requests
    <2>2. CASE Two!HelloRequired(c)
      BY <2>2 DEF Two!HelloRequired, Two!Requests
    <2> QED BY <2>1, <2>2
  <1>2. /\ handler[c].pc = "read" /\ handler[c] \in Handler /\ Head(toDaemon[c]).kind \in kinds
        /\ handler[c].before < Two!MaxBeforeHello
        /\ c \in sessions <=> handler[c].session
        /\ c \in running => handler[c].session
        /\ handler[c].session => handler[c].timer = "none"
        /\ c \in Two!Library /\ ~child[c].used => Head(toDaemon[c]).kind \in Asked
                            /\ (~handler[c].hello => Head(toDaemon[c]).kind = "hello")
    BY <1>1, ReadIs
  <1>3. ~(c \in Two!Library /\ ~child[c].used)
    BY <1>1, <1>2
  <1>4. Two!Kept
    BY DEF Two!Unknown, Two!HelloRequired
  <1>5. PICK n \in {0, 1}, result \in {"error", "unsupported"} :
          Two!Respond(c, [handler[c] EXCEPT !.before = @ + n], result,
                  [handler[c] EXCEPT !.before = @ + n].before >= Two!MaxBeforeHello)
    <2>1. CASE Two!Unknown(c)
      BY <2>1 DEF Two!Unknown
    <2>2. CASE Two!HelloRequired(c)
      BY <2>2 DEF Two!HelloRequired
    <2> QED BY <2>1, <2>2
  <1> DEFINE g == [handler[c] EXCEPT !.before = @ + n]
             last == g.before >= Two!MaxBeforeHello
  <1>6. g \in Handler /\ g.session = handler[c].session /\ g.timer = handler[c].timer
    BY <1>2 DEF Handler, Two!MaxBeforeHello
  <1>7. ~last => g.before < Two!MaxBeforeHello
    BY <1>6 DEF Handler, Two!MaxBeforeHello
  <1>8. result \in Results /\ last \in BOOLEAN /\ Two!Respond(c, g, result, last)
    BY <1>5 DEF Results
  <1> HIDE DEF g, last
  <1>9. /\ c \in sessions' <=> g.session
        /\ c \in running' => g.session
        /\ g.session => g.timer = "none"
    BY <1>2, <1>4, <1>6 DEF Two!Kept
  <1> QED BY <1>1, <1>3, <1>4, <1>6, <1>7, <1>8, <1>9, KeptIs, RespondInv

LEMMA HelloInv ==
  ASSUME ControlInv, NEW c \in Connections, Two!Hello(c)
  PROVE  ControlInv'
  <1> DEFINE kinds == {"hello", "otherHello"}
             verb == Head(toDaemon[c]).kind
  <1>1. Two!Receives(c, kinds) /\ Two!Kept
    BY DEF Two!Hello
  <1>2. /\ handler[c].pc = "read" /\ handler[c] \in Handler /\ verb \in kinds
        /\ handler[c].before < Two!MaxBeforeHello
        /\ c \in sessions <=> handler[c].session
        /\ c \in running => handler[c].session
        /\ c \in Two!Library /\ ~child[c].used => verb \in Asked /\ handler[c].before = 0
    <2> HIDE DEF kinds
    <2> QED BY <1>1, ReadIs
  <1>3. PICK g \in Handler, result \in {"ok", "error"} :
          /\ Two!Answer(c, g, result)
          /\ g.session = handler[c].session
          /\ verb = "hello" => g.before = handler[c].before /\ g.hello = TRUE
    <2>1. CASE verb = "hello"
      <3> DEFINE g == [handler[c] EXCEPT !.hello = TRUE]
      <3>1. g \in Handler /\ g.session = handler[c].session /\ g.before = handler[c].before
            /\ g.hello = TRUE
        BY <1>2 DEF Handler
      <3>2. Two!Answer(c, g, "ok")
        BY <2>1 DEF Two!Hello
      <3> HIDE DEF g
      <3> QED BY <3>1, <3>2
    <2>2. CASE verb # "hello"
      <3> DEFINE g == [handler[c] EXCEPT !.before = @ + 1]
      <3>1. g \in Handler /\ g.session = handler[c].session
        BY <1>2 DEF Handler, Two!MaxBeforeHello
      <3>2. Two!Answer(c, g, "error")
        BY <2>2 DEF Two!Hello
      <3> HIDE DEF g
      <3> QED BY <2>2, <3>1, <3>2
    <2> QED BY <2>1, <2>2
  <1>4. /\ c \in sessions' <=> g.session
        /\ c \in running' => g.session
    BY <1>1, <1>2, <1>3 DEF Two!Kept
  <1>5. c \in Two!Library /\ ~child[c].used => verb = "hello"
    BY <1>2 DEF Asked
  <1>6. c \in Two!Library /\ ~child[c].used =>
           /\ g.before = 0
           /\ g.hello <=> handler[c].hello \/ verb = "hello"
           /\ Carried(toDaemon[c], handler[c], c \in running, result, c \in sessions', c \in running')
    <2>1. Two!Kept /\ (c \in sessions <=> handler[c].session)
      BY <1>1, <1>2
    <2>2. verb = "hello" => Carried(toDaemon[c], handler[c], c \in running, result, c \in sessions',
                                    c \in running')
      BY <2>1 DEF Two!Kept, Carried, Two!Acks
    <2> QED BY <1>2, <1>3, <1>5, <2>2
  <1>7. result \in Results
    BY DEF Results
  <1> HIDE DEF kinds
  <1> QED BY <1>1, <1>3, <1>4, <1>6, <1>7, KeptIs, AnswerInv

LEMMA GetDataInv ==
  ASSUME ControlInv, NEW c \in Connections, Two!GetData(c)
  PROVE  ControlInv'
  <1> DEFINE kinds == {"info", "stats"}
             verb == Head(toDaemon[c]).kind
  <1>1. Two!Receives(c, kinds) /\ Two!Kept /\ handler[c].hello
    BY DEF Two!GetData
  <1>2. /\ handler[c] \in Handler /\ verb \in kinds
        /\ c \in sessions <=> handler[c].session
        /\ c \in running => handler[c].session
        /\ c \in Two!Library /\ ~child[c].used => handler[c].before = 0
    <2> HIDE DEF kinds
    <2> QED BY <1>1, ReadIs
  <1>3. PICK result \in {"ok", "error"} : Two!Answer(c, handler[c], result)
    BY DEF Two!GetData
  <1>4. /\ c \in sessions' <=> handler[c].session
        /\ c \in running' => handler[c].session
    BY <1>1, <1>2 DEF Two!Kept
  <1>5. Carried(toDaemon[c], handler[c], c \in running, result, c \in sessions', c \in running')
    BY <1>1, <1>2 DEF Two!Kept, Carried, Two!Acks
  <1>6. result \in Results
    BY DEF Results
  <1>7. c \in Two!Library /\ ~child[c].used => (handler[c].hello <=> handler[c].hello \/ verb = "hello")
    BY <1>1
  <1> HIDE DEF kinds
  <1> QED BY <1>1, <1>2, <1>3, <1>4, <1>5, <1>6, <1>7, KeptIs, AnswerInv

LEMMA OpenInv ==
  ASSUME ControlInv, NEW c \in Connections, Two!Open(c)
  PROVE  ControlInv'
  <1> DEFINE kinds == {"open"}
             verb == Head(toDaemon[c]).kind
  <1>1. Two!Receives(c, kinds) /\ handler[c].hello
    BY DEF Two!Open
  <1>2. /\ handler[c] \in Handler /\ verb \in kinds
        /\ c \in sessions <=> handler[c].session
        /\ c \in running => handler[c].session
        /\ c \in Two!Library /\ ~child[c].used => handler[c].before = 0
    <2> HIDE DEF kinds
    <2> QED BY <1>1, ReadIs
  <1>3. ASSUME NEW result \in {"busy", "error"}, Two!Answer(c, handler[c], result), Two!Kept
        PROVE  ControlInv'
    <2>1. /\ c \in sessions' <=> handler[c].session
          /\ c \in running' => handler[c].session
      BY <1>2, <1>3 DEF Two!Kept
    <2>2. Carried(toDaemon[c], handler[c], c \in running, result, c \in sessions', c \in running')
      BY <1>2, <1>3 DEF Two!Kept, Carried, Two!Acks
    <2>3. result \in Results
      BY DEF Results
    <2>4. c \in Two!Library /\ ~child[c].used => (handler[c].hello <=> handler[c].hello \/ verb = "hello")
      BY <1>1
    <2> HIDE DEF kinds
    <2> QED BY <1>1, <1>2, <1>3, <2>1, <2>2, <2>3, <2>4, KeptIs, AnswerInv
  <1>4. ASSUME ~handler[c].session, Two!Answer(c, [handler[c] EXCEPT !.session = TRUE], "ok"),
               sessions' = sessions \cup {c}, running' = running
        PROVE  ControlInv'
    <2> DEFINE g == [handler[c] EXCEPT !.session = TRUE]
    <2>1. g \in Handler /\ g.session = TRUE /\ g.before = handler[c].before
          /\ g.hello = handler[c].hello
      BY <1>2 DEF Handler
    <2>2. Two!Answer(c, g, "ok")
      BY <1>4
    <2> HIDE DEF g
    <2>3. /\ sessions' \subseteq Connections /\ running' \subseteq Connections
          /\ \A d \in Connections \ {c} : (d \in sessions' <=> d \in sessions)
                                          /\ (d \in running' <=> d \in running)
      BY <1>4 DEF ControlInv, ControlTypes
    <2>4. /\ c \in sessions' <=> g.session
          /\ c \in running' => g.session
      BY <1>4, <2>1
    <2>5. Carried(toDaemon[c], handler[c], c \in running, "ok", c \in sessions', c \in running')
      BY <1>2, <1>4 DEF Carried, Two!Acks
    <2>6. "ok" \in Results
      BY DEF Results
    <2>7. c \in Two!Library /\ ~child[c].used => g.before = 0 /\ (g.hello <=> handler[c].hello \/ verb = "hello")
      BY <1>1, <1>2, <2>1
    <2> HIDE DEF kinds
    <2> QED BY <1>1, <2>1, <2>2, <2>3, <2>4, <2>5, <2>6, <2>7, AnswerInv
  <1> QED BY <1>3, <1>4 DEF Two!Open

LEMMA StartStopInv ==
  ASSUME ControlInv, NEW c \in Connections, Two!StartStop(c)
  PROVE  ControlInv'
  <1> DEFINE kinds == {"start", "stop"}
             verb == Head(toDaemon[c]).kind
  <1>1. Two!Receives(c, kinds) /\ handler[c].hello /\ sessions' = sessions
    BY DEF Two!StartStop
  <1>2. /\ handler[c] \in Handler /\ verb \in kinds
        /\ c \in sessions <=> handler[c].session
        /\ c \in running => handler[c].session
        /\ c \in Two!Library /\ ~child[c].used => handler[c].before = 0 /\ Head(toDaemon[c]).of = c
    <2> HIDE DEF kinds
    <2> QED BY <1>1, ReadIs
  <1>3. PICK result \in {"ok", "error"} :
          /\ Two!Answer(c, handler[c], result)
          /\ IF Two!Owns(c) THEN result = "ok" /\ running' = IF verb = "start" THEN running \cup {c}
                                                        ELSE running \ {c}
             ELSE running' = running
    BY DEF Two!StartStop
  <1>4. /\ sessions' \subseteq Connections /\ running' \subseteq Connections
        /\ \A d \in Connections \ {c} : (d \in sessions' <=> d \in sessions)
                                        /\ (d \in running' <=> d \in running)
    BY <1>1, <1>3 DEF ControlInv, ControlTypes
  <1>5. /\ c \in sessions' <=> handler[c].session
        /\ c \in running' => handler[c].session
    BY <1>1, <1>2, <1>3 DEF Two!Owns
  <1>6. c \in Two!Library /\ ~child[c].used =>
          Carried(toDaemon[c], handler[c], c \in running, result, c \in sessions', c \in running')
    <2>1. c \in Two!Library /\ ~child[c].used => (Two!Owns(c) <=> handler[c].session)
      BY <1>2 DEF Two!Owns
    <2> QED BY <2>1, <1>1, <1>2, <1>3 DEF Carried, Two!Acks
  <1>7. result \in Results
    BY DEF Results
  <1>8. c \in Two!Library /\ ~child[c].used => (handler[c].hello <=> handler[c].hello \/ verb = "hello")
    BY <1>1
  <1> HIDE DEF kinds
  <1> QED BY <1>1, <1>2, <1>3, <1>4, <1>5, <1>6, <1>7, <1>8, AnswerInv

LEMMA CloseInv ==
  ASSUME ControlInv, NEW c \in Connections, Two!Close(c)
  PROVE  ControlInv'
  <1> DEFINE kinds == {"close"}
             verb == Head(toDaemon[c]).kind
  <1>1. Two!Receives(c, kinds) /\ handler[c].hello
    BY DEF Two!Close
  <1>2. /\ handler[c] \in Handler /\ verb \in kinds
        /\ c \in sessions <=> handler[c].session
        /\ c \in running => handler[c].session
        /\ c \in Two!Library /\ ~child[c].used => handler[c].before = 0 /\ Head(toDaemon[c]).of = c
    <2> HIDE DEF kinds
    <2> QED BY <1>1, ReadIs
  <1>3. PICK g \in Handler, result \in {"ok", "error"} :
          /\ Two!Answer(c, g, result) /\ g.before = handler[c].before
          /\ g.hello = handler[c].hello
          /\ IF Two!Owns(c) THEN result = "ok" /\ ~g.session
                             /\ sessions' = sessions \ {c} /\ running' = running \ {c}
             ELSE g.session = handler[c].session /\ sessions' = sessions /\ running' = running
    <2>1. CASE Two!Owns(c)
      <3> DEFINE g == [handler[c] EXCEPT !.session = FALSE]
      <3>1. g \in Handler /\ ~g.session /\ g.before = handler[c].before
            /\ g.hello = handler[c].hello
        BY <1>2 DEF Handler
      <3>2. Two!Answer(c, g, "ok") /\ sessions' = sessions \ {c} /\ running' = running \ {c}
        BY <2>1 DEF Two!Close
      <3> HIDE DEF g
      <3> QED BY <2>1, <3>1, <3>2
    <2>2. CASE ~Two!Owns(c)
      BY <1>2, <2>2 DEF Two!Close, Two!Kept
    <2> QED BY <2>1, <2>2
  <1>4. /\ sessions' \subseteq Connections /\ running' \subseteq Connections
        /\ \A d \in Connections \ {c} : (d \in sessions' <=> d \in sessions)
                                        /\ (d \in running' <=> d \in running)
    BY <1>3 DEF ControlInv, ControlTypes
  <1>5. /\ c \in sessions' <=> g.session
        /\ c \in running' => g.session
    BY <1>2, <1>3 DEF Two!Owns
  <1>6. c \in Two!Library /\ ~child[c].used =>
          Carried(toDaemon[c], handler[c], c \in running, result, c \in sessions', c \in running')
    <2>1. c \in Two!Library /\ ~child[c].used => (Two!Owns(c) <=> handler[c].session)
      BY <1>2 DEF Two!Owns
    <2> QED BY <2>1, <1>2, <1>3 DEF Carried, Two!Acks
  <1>7. result \in Results
    BY DEF Results
  <1>8. c \in Two!Library /\ ~child[c].used => g.before = 0 /\ (g.hello <=> handler[c].hello \/ verb = "hello")
    BY <1>1, <1>2, <1>3
  <1> HIDE DEF kinds
  <1> QED BY <1>1, <1>3, <1>4, <1>5, <1>6, <1>7, <1>8, AnswerInv

(* The other steps of the daemon.                                              *)
LEMMA MoveInv ==
  ASSUME ControlInv, NEW c \in Connections, handler[c].pc \in {"read", "reply"},
         UNCHANGED <<slots, sessions, running, toDaemon, client, shut, child>>,
         NEW h, h \in Handler, h.pc \in Two!Serving, handler' = [handler EXCEPT ![c] = h],
         NEW a, a \in Seq(Response), toClient' = [toClient EXCEPT ![c] = a],
         InStep(c, child[c].used, h, toDaemon[c], a, client[c], shut[c], c \in sessions, c \in running)
  PROVE  ControlInv'
  <1>1. ControlTypes /\ Two!SlotsAreThreads
    BY DEF ControlInv
  <1>2. Two!SlotsAreThreads' /\ slots' \in [Two!Uids -> 0 .. MaxClients]
    <2>1. \A d \in Connections : handler'[d].pc \in Two!Serving <=> handler[d].pc \in Two!Serving
      BY <1>1 DEF ControlTypes, Two!Serving
    <2> QED BY <2>1, <1>1, SameThreads DEF ControlTypes
  <1>3. toDaemon[c] \in Seq(Message) /\ toDaemon' = [toDaemon EXCEPT ![c] = toDaemon[c]]
    BY <1>1 DEF ControlTypes
  <1>4. /\ sessions' \subseteq Connections /\ running' \subseteq Connections
        /\ \A d \in Connections \ {c} : (d \in sessions' <=> d \in sessions)
                                        /\ (d \in running' <=> d \in running)
    BY <1>1 DEF ControlTypes
  <1>5. InStep(c, child[c].used, h, toDaemon[c], a, client[c], shut[c], c \in sessions', c \in running')
    OBVIOUS
  <1> QED BY <1>2, <1>3, <1>4, <1>5, DaemonStep

(* The parts of a connection's invariant that every step of its thread needs.  *)
LEMMA LinkIs ==
  ASSUME ControlInv, NEW c \in Connections
  PROVE  /\ ControlTypes /\ Two!SlotsAreThreads
         /\ handler[c] \in Handler /\ toDaemon[c] \in Seq(Message)
         /\ toClient[c] \in Seq(Response)
         /\ client[c] \in Program /\ shut[c] \in BOOLEAN /\ child[c] \in Kid
         /\ InStep(c, child[c].used, handler[c], toDaemon[c], toClient[c], client[c], shut[c], c \in sessions,
                   c \in running)
         /\ Thread(c, handler[c], toDaemon[c], toClient[c], client[c], c \in sessions, c \in running)
         /\ c \in Two!Library /\ ~child[c].used => Polite(c, handler[c], toDaemon[c], toClient[c], client[c], shut[c])
  <1>1. ControlTypes /\ Two!SlotsAreThreads /\ Link(c)
    BY DEF ControlInv
  <1>2. handler[c] \in Handler /\ toDaemon[c] \in Seq(Message) /\ toClient[c] \in Seq(Response)
        /\ client[c] \in Program /\ shut[c] \in BOOLEAN /\ child[c] \in Kid
    BY <1>1 DEF ControlTypes
  <1>3. InStep(c, child[c].used, handler[c], toDaemon[c], toClient[c], client[c], shut[c], c \in sessions,
               c \in running)
    BY <1>1 DEF Link
  <1> QED BY <1>1, <1>2, <1>3, Parts

(* A program that has hung up is not using its client or its stream any more.  *)
LEMMA HasHungUp ==
  ASSUME ControlInv, NEW c \in Two!Library, ~child[c].used, shut[c] \/ client[c].pc = "gone"
  PROVE  client[c].pc \in {"closed", "gone"}
  <1>1. c \in Connections /\ c \notin Raw
    BY DEF Two!Library
  <1>2. /\ client[c] \in Program
        /\ Thread(c, handler[c], toDaemon[c], toClient[c], client[c], c \in sessions, c \in running)
        /\ Polite(c, handler[c], toDaemon[c], toClient[c], client[c], shut[c])
    BY <1>1, LinkIs
  <1>3. client[c].pc \in Stages /\ client[c].pc # "raw"
    BY <1>1, <1>2 DEF Program, Thread
  <1>4. client[c].pc \notin Active \cup {"new"}
    BY <1>2 DEF Polite, Active
  <1> QED BY <1>3, <1>4 DEF Stages, Active

LEMMA ReplyInv ==
  ASSUME ControlInv, Two!ControlAssumption, NEW c \in Connections, Two!Reply(c)
  PROVE  ControlInv'
  <1>1. /\ ControlTypes
        /\ handler[c] \in Handler /\ toDaemon[c] \in Seq(Message)
        /\ toClient[c] \in Seq(Response)
        /\ InStep(c, child[c].used, handler[c], toDaemon[c], toClient[c], client[c], shut[c], c \in sessions,
                  c \in running)
        /\ Thread(c, handler[c], toDaemon[c], toClient[c], client[c], c \in sessions, c \in running)
        /\ c \in Two!Library /\ ~child[c].used => Polite(c, handler[c], toDaemon[c], toClient[c], client[c], shut[c])
    BY LinkIs
  <1>2. handler[c].pc = "reply"
        /\ UNCHANGED <<slots, sessions, running, toDaemon, client, shut, child>>
    BY DEF Two!Reply, Two!clientVars
  <1>3. CASE Two!PeerGone(c) \/ Len(toClient[c]) >= MaxQueue
    <2> DEFINE h == [handler[c] EXCEPT !.pc = "leave"]
    <2>1. handler' = [handler EXCEPT ![c] = h]
          /\ toClient' = [toClient EXCEPT ![c] = toClient[c]]
      BY <1>1, <1>3 DEF Two!Reply, Two!Goto, ControlTypes
    <2>2. h \in Handler /\ h.pc = "leave" /\ h.session = handler[c].session
          /\ h.hello = handler[c].hello /\ h.before = handler[c].before
          /\ h.timer = handler[c].timer
      BY <1>1 DEF Handler, Two!Serving
    <2> HIDE DEF h
    <2>3. Thread(c, h, toDaemon[c], toClient[c], client[c], c \in sessions, c \in running)
      BY <1>1, <1>2, <2>2 DEF Thread
    <2>4. InStep(c, child[c].used, h, toDaemon[c], toClient[c], client[c], shut[c], c \in sessions, c \in running)
      <3>1. CASE c \in Two!Library /\ ~child[c].used
        <4>1. /\ Len(toDaemon[c]) \in Nat /\ Len(toClient[c]) \in Nat
              /\ Traffic(handler[c], toDaemon[c], toClient[c])
                 = Len(toDaemon[c]) + Len(toClient[c]) + 1
          <5>1. Len(toDaemon[c]) \in Nat /\ Len(toClient[c]) \in Nat
            BY <1>1
          <5>2. Traffic(handler[c], toDaemon[c], toClient[c])
                = Len(toDaemon[c]) + Len(toClient[c]) + 1
            BY <1>2 DEF Traffic
          <5> QED BY <5>1, <5>2
        <4>2. client[c].pc \in Active => ~(Len(toClient[c]) >= MaxQueue)
          <5>1. \A l, n, m \in Nat : l + n + 1 <= m => ~(n >= m)
            OBVIOUS
          <5>2. client[c].pc \in Active => Traffic(handler[c], toDaemon[c], toClient[c]) <= MaxQueue
            BY <3>1, <1>1 DEF Polite
          <5>3. MaxQueue \in Nat
            BY DEF Two!ControlAssumption
          <5> DEFINE l == Len(toDaemon[c])
                     n == Len(toClient[c])
          <5>4. l \in Nat /\ n \in Nat /\ (client[c].pc \in Active => l + n + 1 <= MaxQueue)
            BY <4>1, <5>2
          <5> HIDE DEF l
          <5>5. client[c].pc \in Active => ~(n >= MaxQueue)
            <6> HIDE DEF n
            <6> QED BY <5>1, <5>3, <5>4
          <5> QED BY <5>5
        <4>3. client[c].pc \in {"closed", "gone"}
          <5>1. CASE Two!PeerGone(c)
            BY <5>1, <3>1, HasHungUp DEF Two!PeerGone
          <5>2. CASE Len(toClient[c]) >= MaxQueue
            <6>1. client[c].pc \notin Active
              BY <4>2, <5>2
            <6>2. client[c].pc \in Stages /\ client[c].pc # "raw" /\ client[c].pc # "new"
              <7>1. client[c] \in Program
                BY LinkIs
              <7> QED BY <7>1, <1>1, <1>2, <3>1 DEF Program, Thread, Two!Library
            <6> QED BY <6>1, <6>2 DEF Stages, Active
          <5> QED BY <1>3, <5>1, <5>2
        <4>4. h.before = 0 /\ h.pc # "reply" /\ \A i \in 1 .. Len(toDaemon[c]) :
                toDaemon[c][i].kind \in Asked /\ toDaemon[c][i].of = c
                /\ (~h.hello => toDaemon[c][i].kind = "hello")
          BY <3>1, <1>1, <2>2 DEF Polite
        <4> QED BY <4>3, <4>4, <2>3, Retired
      <3>2. CASE ~(c \in Two!Library /\ ~child[c].used)
        BY <3>2, <2>3 DEF InStep
      <3> QED BY <3>1, <3>2
    <2>5. h.pc \in Two!Serving
      BY <2>2 DEF Two!Serving
    <2> QED BY <1>1, <1>2, <2>1, <2>2, <2>4, <2>5, MoveInv
  <1>4. CASE ~(Two!PeerGone(c) \/ Len(toClient[c]) >= MaxQueue)
    <2> DEFINE h == [handler[c] EXCEPT !.pc = IF handler[c].last THEN "leave" ELSE "read",
                                       !.response = Two!NoResponse]
               b == Append(toClient[c], handler[c].response)
    <2>1. handler' = [handler EXCEPT ![c] = h] /\ toClient' = [toClient EXCEPT ![c] = b]
      BY <1>1, <1>4 DEF Two!Reply, ControlTypes
    <2>2. h \in Handler /\ h.session = handler[c].session /\ h.pc \in Two!Serving \ {"reply"}
          /\ h.hello = handler[c].hello /\ h.before = handler[c].before
          /\ h.timer = handler[c].timer
          /\ (~handler[c].last => h.pc = "read") /\ (handler[c].last => h.pc = "leave")
          /\ handler[c].response \in Response
      BY <1>1 DEF Handler, Two!Serving, Two!NoResponse, Response, Results
    <2>3. b \in Seq(Response)
      BY <1>1, <2>2
    <2> HIDE DEF h
    <2>4. Thread(c, h, toDaemon[c], b, client[c], c \in sessions, c \in running)
      BY <1>1, <1>2, <2>2 DEF Thread, Two!Serving
    <2>5. InStep(c, child[c].used, h, toDaemon[c], b, client[c], shut[c], c \in sessions, c \in running)
      <3>1. CASE c \in Two!Library /\ ~child[c].used
        <4>1. h.pc = "read"
          BY <3>1, <1>1, <1>2, <2>2 DEF Polite
        <4> QED BY <3>1, <4>1, <1>1, <1>2, <2>2, WrittenKeeps
      <3>2. CASE ~(c \in Two!Library /\ ~child[c].used)
        BY <3>2, <2>4 DEF InStep
      <3> QED BY <3>1, <3>2
    <2> HIDE DEF b
    <2> QED BY <1>2, <2>1, <2>2, <2>3, <2>5, MoveInv
  <1> QED BY <1>3, <1>4

LEMMA NothingToReadInv ==
  ASSUME ControlInv, NEW c \in Connections, Two!NothingToRead(c)
  PROVE  ControlInv'
  <1>1. /\ ControlTypes
        /\ handler[c] \in Handler /\ toDaemon[c] \in Seq(Message)
        /\ toClient[c] \in Seq(Response)
        /\ InStep(c, child[c].used, handler[c], toDaemon[c], toClient[c], client[c], shut[c], c \in sessions,
                  c \in running)
        /\ Thread(c, handler[c], toDaemon[c], toClient[c], client[c], c \in sessions, c \in running)
    BY LinkIs
  <1>2. handler[c].pc = "read"
        /\ UNCHANGED <<slots, sessions, running, toDaemon, client, shut, child>>
        /\ (shut[c] \/ client[c].pc = "gone" \/ handler[c].timer # "none")
    BY DEF Two!NothingToRead, Two!clientVars, Two!PeerGone
  <1> DEFINE h == [handler[c] EXCEPT !.pc = "leave"]
  <1>3. handler' = [handler EXCEPT ![c] = h] /\ toClient' = [toClient EXCEPT ![c] = toClient[c]]
    BY <1>1 DEF Two!NothingToRead, Two!Goto, ControlTypes
  <1>4. h \in Handler /\ h.pc = "leave" /\ h.session = handler[c].session
        /\ h.hello = handler[c].hello /\ h.before = handler[c].before
        /\ h.timer = handler[c].timer
    BY <1>1 DEF Handler, Two!Serving
  <1> HIDE DEF h
  <1>5. Thread(c, h, toDaemon[c], toClient[c], client[c], c \in sessions, c \in running)
    BY <1>1, <1>2, <1>4 DEF Thread
  <1>6. InStep(c, child[c].used, h, toDaemon[c], toClient[c], client[c], shut[c], c \in sessions, c \in running)
    <2>1. CASE c \in Two!Library /\ ~child[c].used
      BY <2>1, <1>1, <1>2, <1>4, MovedKeeps
    <2>2. CASE ~(c \in Two!Library /\ ~child[c].used)
      BY <2>2, <1>5 DEF InStep
    <2> QED BY <2>1, <2>2
  <1>7. h.pc \in Two!Serving
    BY <1>4 DEF Two!Serving
  <1> QED BY <1>1, <1>2, <1>3, <1>4, <1>6, <1>7, MoveInv

(* The socket of a connection is closed, and its session with it.              *)
LEMMA HangUpInv ==
  ASSUME ControlInv, Two!ControlAssumption, NEW c \in Connections, Two!HangUp(c),
         UNCHANGED <<toClient, client, shut, child>>,
         sessions' = sessions \ {c}, running' = running \ {c},
         slots' \in [Two!Uids -> 0 .. MaxClients], Two!SlotsAreThreads'
  PROVE  ControlInv'
  <1>1. /\ ControlTypes /\ toDaemon[c] \in Seq(Message) /\ toClient[c] \in Seq(Response)
        /\ InStep(c, child[c].used, handler[c], toDaemon[c], toClient[c], client[c], shut[c], c \in sessions,
                  c \in running)
    BY LinkIs
  <1> DEFINE h == [Two!NoHandler EXCEPT !.pc = "gone"]
  <1>2. handler' = [handler EXCEPT ![c] = h] /\ toDaemon' = [toDaemon EXCEPT ![c] = << >>]
        /\ toClient' = [toClient EXCEPT ![c] = toClient[c]]
    BY <1>1 DEF Two!HangUp, ControlTypes
  <1>3. h \in Handler /\ h.pc = "gone" /\ ~h.session /\ h.before = 0
    BY NoneIs
  <1> HIDE DEF h
  <1>4. c \notin sessions' /\ c \notin running' /\ << >> \in Seq(Message)
    OBVIOUS
  <1>5. InStep(c, child[c].used, h, << >>, toClient[c], client[c], shut[c], c \in sessions', c \in running')
    BY <1>1, <1>3, <1>4, HungUpKeeps
  <1>6. /\ sessions' \subseteq Connections /\ running' \subseteq Connections
        /\ \A d \in Connections \ {c} : (d \in sessions' <=> d \in sessions)
                                        /\ (d \in running' <=> d \in running)
    BY <1>1 DEF ControlTypes
  <1> QED BY <1>1, <1>2, <1>3, <1>4, <1>5, <1>6, DaemonStep

LEMMA ThreadEndsInv ==
  ASSUME ControlInv, Two!ControlAssumption, NEW c \in Connections, Two!Leave(c)
  PROVE  ControlInv'
  <1>1. ControlTypes /\ Two!SlotsAreThreads
    BY LinkIs
  <1>2. /\ handler[c].pc = "leave" /\ Two!HangUp(c) /\ sessions' = sessions \ {c}
        /\ running' = running \ {c} /\ slots' = [slots EXCEPT ![UidOf[c]] = @ - 1]
        /\ UNCHANGED <<toClient, client, shut, child>>
    BY DEF Two!Leave, Two!clientVars
  <1>3. handler'[c].pc = "gone" /\ \A d \in Connections \ {c} : handler'[d].pc = handler[d].pc
    BY <1>1, <1>2 DEF Two!HangUp, ControlTypes, Two!NoHandler
  <1>4. handler[c].pc \in Two!Serving /\ handler'[c].pc \notin Two!Serving
    BY <1>2, <1>3 DEF Two!Serving
  <1>5. Two!SlotsAreThreads' /\ slots[UidOf[c]] >= 1
    BY <1>1, <1>2, <1>3, <1>4, OneThread
  <1>6. slots' \in [Two!Uids -> 0 .. MaxClients]
    <2>1. UidOf[c] \in Two!Uids /\ slots[UidOf[c]] \in 0 .. MaxClients /\ MaxClients \in Nat
      BY <1>1 DEF ControlTypes, Two!Uids, Two!ControlAssumption
    <2>2. slots[UidOf[c]] - 1 \in 0 .. MaxClients
      BY <2>1, <1>5
    <2> QED BY <2>2, <1>1, <1>2 DEF ControlTypes
  <1> QED BY <1>2, <1>5, <1>6, HangUpInv

LEMMA ListenerInv ==
  ASSUME ControlInv, Two!ControlAssumption, NEW c \in Connections, Two!ListenerStep(c)
  PROVE  ControlInv'
  <1>1. /\ ControlTypes /\ Two!SlotsAreThreads
        /\ handler[c] \in Handler /\ toDaemon[c] \in Seq(Message)
        /\ toClient[c] \in Seq(Response)
        /\ InStep(c, child[c].used, handler[c], toDaemon[c], toClient[c], client[c], shut[c], c \in sessions,
                  c \in running)
        /\ Thread(c, handler[c], toDaemon[c], toClient[c], client[c], c \in sessions, c \in running)
    BY LinkIs
  <1>2. handler[c].pc = "backlog" /\ c \notin sessions /\ c \notin running
    <2>1. handler[c].pc = "backlog"
      BY DEF Two!ListenerStep, Two!Accept, Two!Refuse, Two!SpawnFails
    <2> QED BY <2>1, <1>1 DEF Thread
  <1>3. CASE Two!Accept(c)
    <2> DEFINE h == [handler[c] EXCEPT !.pc = "read"]
    <2>1. /\ handler' = [handler EXCEPT ![c] = h] /\ slots[UidOf[c]] < MaxPerUid
          /\ slots' = [slots EXCEPT ![UidOf[c]] = @ + 1]
          /\ UNCHANGED <<sessions, running, toDaemon, toClient, client, shut, child>>
      BY <1>3 DEF Two!Accept, Two!HasSlot, Two!clientVars
    <2>2. h \in Handler /\ h.pc = "read" /\ h.session = handler[c].session
          /\ h.hello = handler[c].hello /\ h.before = handler[c].before
          /\ h.timer = handler[c].timer
      BY <1>1 DEF Handler, Two!Serving
    <2> HIDE DEF h
    <2>3. handler[c].pc \notin Two!Serving /\ handler'[c].pc \in Two!Serving
          /\ \A d \in Connections \ {c} : handler'[d].pc = handler[d].pc
      BY <1>1, <1>2, <2>1, <2>2 DEF ControlTypes, Two!Serving
    <2>4. Two!SlotsAreThreads'
      BY <1>1, <2>1, <2>3, OneThread
    <2>5. slots' \in [Two!Uids -> 0 .. MaxClients]
      <3>1. UidOf[c] \in Two!Uids /\ slots[UidOf[c]] \in 0 .. MaxClients
            /\ {MaxClients, MaxPerUid} \subseteq Nat /\ MaxPerUid <= MaxClients
        BY <1>1 DEF ControlTypes, Two!Uids, Two!ControlAssumption
      <3>2. slots[UidOf[c]] + 1 \in 0 .. MaxClients
        BY <3>1, <2>1
      <3> QED BY <3>2, <1>1, <2>1 DEF ControlTypes
    <2>6. InStep(c, child[c].used, h, toDaemon[c], toClient[c], client[c], shut[c], c \in sessions', c \in running')
      <3>1. CASE c \in Two!Library /\ ~child[c].used
        BY <3>1, <1>1, <1>2, <2>1, <2>2, MovedKeeps
      <3>2. CASE ~(c \in Two!Library /\ ~child[c].used)
        <4>1. Thread(c, h, toDaemon[c], toClient[c], client[c], c \in sessions', c \in running')
          BY <1>1, <1>2, <2>1, <2>2 DEF Thread, Two!MaxBeforeHello
        <4> QED BY <3>2, <4>1 DEF InStep
      <3> QED BY <3>1, <3>2
    <2>7. /\ sessions' \subseteq Connections /\ running' \subseteq Connections
          /\ \A d \in Connections \ {c} : (d \in sessions' <=> d \in sessions)
                                          /\ (d \in running' <=> d \in running)
          /\ toDaemon' = [toDaemon EXCEPT ![c] = toDaemon[c]]
          /\ toClient' = [toClient EXCEPT ![c] = toClient[c]]
      BY <1>1, <2>1 DEF ControlTypes
    <2> QED BY <1>1, <2>1, <2>2, <2>4, <2>5, <2>6, <2>7, DaemonStep
  <1>4. CASE Two!Refuse(c) \/ Two!SpawnFails(c)
    <2>1. Two!HangUp(c) /\ UNCHANGED <<slots, sessions, running, toClient, client, shut, child>>
      BY <1>4 DEF Two!Refuse, Two!SpawnFails, Two!clientVars
    <2>2. sessions' = sessions \ {c} /\ running' = running \ {c}
      BY <1>2, <2>1
    <2>3. \A d \in Connections : handler'[d].pc \in Two!Serving <=> handler[d].pc \in Two!Serving
      BY <1>1, <1>2, <2>1 DEF Two!HangUp, ControlTypes, Two!NoHandler, Two!Serving
    <2>4. Two!SlotsAreThreads' /\ slots' \in [Two!Uids -> 0 .. MaxClients]
      BY <1>1, <2>1, <2>3, SameThreads DEF ControlTypes
    <2> QED BY <2>1, <2>2, <2>4, HangUpInv
  <1> QED BY <1>3, <1>4 DEF Two!ListenerStep

LEMMA DaemonExitsInv ==
  ASSUME ControlInv, Two!ControlAssumption, Two!DaemonExits
  PROVE  ControlInv'
  <1> DEFINE h == [Two!NoHandler EXCEPT !.pc = "gone"]
  <1>1. /\ handler' = [c \in Connections |-> h] /\ toDaemon' = [c \in Connections |-> << >>]
        /\ sessions' = {} /\ running' = {} /\ slots' = [u \in Two!Uids |-> 0]
        /\ UNCHANGED <<toClient, client, shut, child>>
    BY DEF Two!DaemonExits, Two!clientVars
  <1>2. h \in Handler /\ h.pc = "gone" /\ ~h.session /\ h.before = 0
    BY NoneIs
  <1> HIDE DEF h
  <1>3. ControlTypes'
    <2>1. << >> \in Seq(Message) /\ 0 \in 0 .. MaxClients
      BY DEF Two!ControlAssumption
    <2> QED BY <2>1, <1>1, <1>2 DEF ControlInv, ControlTypes
  <1>4. Two!SlotsAreThreads'
    <2>1. \A u \in Two!Uids : {c \in Connections : handler'[c].pc \in Two!Serving /\ UidOf[c] = u} = {}
      BY <1>1, <1>2 DEF Two!Serving
    <2>2. \A u \in Two!Uids : slots'[u] = Cardinality({c \in Connections :
                                          handler'[c].pc \in Two!Serving /\ UidOf[c] = u})
      BY <2>1, <1>1, FS_EmptySet
    <2> QED BY <2>2, SameSizes DEF Two!SlotsAreThreads, Two!Served
  <1>5. ASSUME NEW c \in Connections PROVE Link(c)'
    <2>1. /\ toDaemon[c] \in Seq(Message) /\ toClient[c] \in Seq(Response)
          /\ InStep(c, child[c].used, handler[c], toDaemon[c], toClient[c], client[c], shut[c], c \in sessions,
                    c \in running)
      BY LinkIs
    <2>2. c \notin sessions' /\ c \notin running'
      BY <1>1
    <2>3. InStep(c, child[c].used, h, << >>, toClient[c], client[c], shut[c], c \in sessions', c \in running')
      BY <1>2, <2>1, <2>2, HungUpKeeps
    <2>4. handler'[c] = h /\ toDaemon'[c] = << >>
      BY <1>1
    <2> QED BY <2>3, <2>4, <1>1 DEF Link
  <1> QED BY <1>3, <1>4, <1>5 DEF ControlInv

(* The steps of the programs.                                                  *)
LEMMA SendIs ==
  ASSUME ControlTypes, NEW c \in Connections, NEW verb \in Two!Requests, NEW of \in Connections,
         Two!Send(c, verb, of)
  PROVE  \E p \in Seq(Message) :
           /\ toDaemon' = [toDaemon EXCEPT ![c] = p]
           /\ Sent(handler[c], shut[c], toDaemon[c], [kind |-> verb, of |-> of], p)
           /\ [kind |-> verb, of |-> of] \in Message
  <1> DEFINE m == [kind |-> verb, of |-> of]
             p == IF handler[c].pc = "gone" \/ shut[c] THEN toDaemon[c] ELSE Append(toDaemon[c], m)
  <1>1. m \in Message
    BY DEF Message
  <1>2. toDaemon[c] \in Seq(Message) /\ toDaemon = [toDaemon EXCEPT ![c] = toDaemon[c]]
    BY DEF ControlTypes
  <1>3. p \in Seq(Message)
    BY <1>1, <1>2
  <1>4. toDaemon' = [toDaemon EXCEPT ![c] = p]
    BY <1>2 DEF Two!Send, Two!Ended, Two!DaemonGone
  <1>5. Sent(handler[c], shut[c], toDaemon[c], m, p)
    BY DEF Sent
  <1> HIDE DEF m, p
  <1>6. \E r \in Seq(Message) : /\ toDaemon' = [toDaemon EXCEPT ![c] = r]
                                /\ Sent(handler[c], shut[c], toDaemon[c], m, r) /\ m \in Message
    BY <1>1, <1>3, <1>4, <1>5
  <1> QED BY <1>6 DEF m

Becomes(c, pc, asked, started) ==
    \E j \in Program : /\ client' = [client EXCEPT ![c] = j]
                       /\ j.pc = pc /\ j.asked = asked /\ j.started = started

LEMMA BecomeIs ==
  ASSUME NEW c, NEW pc, NEW asked, NEW started, Two!Become(c, pc, asked, started),
         pc \in Stages, asked \in Two!Requests \cup {"none"}, started \in BOOLEAN
  PROVE  Becomes(c, pc, asked, started)
  <1>1. [pc |-> pc, asked |-> asked, started |-> started] \in Program
    BY DEF Program
  <1> QED BY <1>1 DEF Two!Become, Becomes

LEMMA ConnectInv ==
  ASSUME ControlInv, Two!ControlAssumption, NEW c \in Connections, Two!Connect(c)
  PROVE  ControlInv'
  <1>1. /\ ControlTypes /\ Two!SlotsAreThreads
        /\ handler[c] \in Handler /\ toDaemon[c] \in Seq(Message)
        /\ toClient[c] \in Seq(Response)
        /\ InStep(c, child[c].used, handler[c], toDaemon[c], toClient[c], client[c], shut[c], c \in sessions,
                  c \in running)
        /\ Thread(c, handler[c], toDaemon[c], toClient[c], client[c], c \in sessions, c \in running)
    BY LinkIs
  <1> DEFINE h == [handler[c] EXCEPT !.pc = "backlog"]
  <1>2. /\ client[c].pc = "new" /\ handler' = [handler EXCEPT ![c] = h]
        /\ UNCHANGED <<slots, sessions, running, toClient, shut, child>>
    BY DEF Two!Connect
  <1>3. h \in Handler /\ h.pc = "backlog" /\ h.session = handler[c].session
        /\ h.hello = handler[c].hello /\ h.before = handler[c].before
        /\ h.timer = handler[c].timer
    BY <1>1 DEF Handler
  <1>4. handler[c].pc \in {"none", "gone"}
    BY <1>1, <1>2 DEF Thread
  <1> HIDE DEF h
  <1>5. Two!SlotsAreThreads'
    <2>1. \A d \in Connections : handler'[d].pc \in Two!Serving <=> handler[d].pc \in Two!Serving
      BY <1>1, <1>2, <1>3, <1>4 DEF ControlTypes, Two!Serving
    <2> QED BY <2>1, <1>1, <1>2, SameThreads
  <1>6. PICK q \in Seq(Message), j \in Program :
          /\ toDaemon' = [toDaemon EXCEPT ![c] = q] /\ client' = [client EXCEPT ![c] = j]
          /\ InStep(c, child[c].used, h, q, toClient[c], j, shut[c], c \in sessions, c \in running)
    <2>1. CASE c \in Raw
      <3>1. Two!Become(c, "raw", "none", FALSE) /\ toDaemon' = toDaemon
        BY <2>1 DEF Two!Connect
      <3>2. PICK j \in Program : client' = [client EXCEPT ![c] = j] /\ j.pc = "raw"
        <4>b. Becomes(c, "raw", "none", FALSE)
          BY <3>1, BecomeIs DEF Stages
        <4> QED BY <4>b DEF Becomes
      <3>3. toDaemon' = [toDaemon EXCEPT ![c] = toDaemon[c]]
        BY <1>1, <3>1 DEF ControlTypes
      <3>4. Thread(c, h, toDaemon[c], toClient[c], j, c \in sessions, c \in running)
        BY <1>1, <1>3, <1>4, <2>1, <3>2 DEF Thread
      <3>5. InStep(c, child[c].used, h, toDaemon[c], toClient[c], j, shut[c], c \in sessions, c \in running)
        BY <2>1, <3>4 DEF InStep, Two!Library
      <3> QED BY <1>1, <3>2, <3>3, <3>5
    <2>2. CASE c \notin Raw
      <3>0. c \in Two!Library
        BY <2>2 DEF Two!Library
      <3>1. Two!Become(c, "connecting", "hello", FALSE) /\ Two!Send(c, "hello", c)
        BY <2>2 DEF Two!Connect
      <3>2. PICK j \in Program : client' = [client EXCEPT ![c] = j] /\ j.pc = "connecting"
                                 /\ j.asked = "hello"
        <4>b. Becomes(c, "connecting", "hello", FALSE)
          BY <3>1, BecomeIs DEF Stages, Two!Requests
        <4> QED BY <4>b DEF Becomes
      <3> DEFINE m == [kind |-> "hello", of |-> c]
      <3>3. PICK p \in Seq(Message) : /\ toDaemon' = [toDaemon EXCEPT ![c] = p]
                                      /\ Sent(handler[c], shut[c], toDaemon[c], m, p) /\ m \in Message
        BY <1>1, <3>1, SendIs DEF Two!Requests
      <3>4. m.kind = "hello" /\ m.of = c
        OBVIOUS
      <3> HIDE DEF m
      <3>5. InStep(c, child[c].used, h, p, toClient[c], j, shut[c], c \in sessions, c \in running)
        <4>1. CASE ~child[c].used
          BY <4>1, <1>1, <1>2, <1>3, <3>0, <3>2, <3>3, <3>4, ConnectedKeeps
        <4>2. CASE child[c].used
          <5>1. Thread(c, h, p, toClient[c], j, c \in sessions, c \in running)
            BY <1>1, <1>3, <1>4, <3>2 DEF Thread
          <5> QED BY <4>2, <5>1 DEF InStep
        <4> QED BY <4>1, <4>2
      <3> QED BY <3>2, <3>3, <3>5
    <2> QED BY <2>1, <2>2
  <1>7. ControlTypes'
    BY <1>1, <1>2, <1>3, <1>6 DEF ControlTypes
  <1>8. \A d \in Connections \ {c} : Same(d)
    BY <1>1, <1>2, <1>6 DEF Same, ControlTypes
  <1>9. Link(c)'
    <2>1. handler'[c] = h /\ toDaemon'[c] = q /\ client'[c] = j
      BY <1>1, <1>2, <1>6 DEF ControlTypes
    <2> QED BY <2>1, <1>2, <1>6 DEF Link
  <1>10. Links
    BY DEF ControlInv, Links
  <1> QED BY <1>5, <1>7, <1>8, <1>9, <1>10, OneLink DEF ControlInv, Links

(* The library's requests.                                                     *)
LEMMA AskInv ==
  ASSUME ControlInv, Two!ControlAssumption, NEW c \in Connections, NEW verb \in {"info", "stats", "open"},
         Two!Ask(c, verb)
  PROVE  ControlInv'
  <1>1. /\ ControlTypes
        /\ toDaemon[c] \in Seq(Message) /\ toClient[c] \in Seq(Response) /\ shut[c] \in BOOLEAN
        /\ InStep(c, child[c].used, handler[c], toDaemon[c], toClient[c], client[c], shut[c], c \in sessions,
                  c \in running)
        /\ Thread(c, handler[c], toDaemon[c], toClient[c], client[c], c \in sessions, c \in running)
    BY LinkIs
  <1>2. /\ client[c].pc = "client" /\ Traffic(handler[c], toDaemon[c], toClient[c]) < MaxQueue
        /\ Two!Become(c, IF verb = "open" THEN "opening" ELSE "asking", verb, FALSE)
        /\ Two!Send(c, verb, c)
        /\ UNCHANGED <<slots, handler, sessions, running, toClient, shut, child>>
    BY DEF Two!Ask, Two!Busy, Traffic, Two!daemonVars
  <1>3. PICK j \in Program : /\ client' = [client EXCEPT ![c] = j]
                             /\ j.pc = IF verb = "open" THEN "opening" ELSE "asking"
                             /\ j.asked = verb
    <2>b. Becomes(c, IF verb = "open" THEN "opening" ELSE "asking", verb, FALSE)
      BY <1>2, BecomeIs DEF Stages, Two!Requests
    <2> QED BY <2>b DEF Becomes
  <1> DEFINE m == [kind |-> verb, of |-> c]
  <1>4. PICK p \in Seq(Message) : /\ toDaemon' = [toDaemon EXCEPT ![c] = p]
                                  /\ Sent(handler[c], shut[c], toDaemon[c], m, p) /\ m \in Message
    BY <1>1, <1>2, SendIs DEF Two!Requests
  <1>5. m.kind = verb /\ m.of = c
    OBVIOUS
  <1> HIDE DEF m
  <1>6. InStep(c, child[c].used, handler[c], p, toClient[c], j, shut[c], c \in sessions, c \in running)
    <2>1. CASE c \in Two!Library /\ ~child[c].used
      BY <2>1, <1>1, <1>2, <1>3, <1>4, <1>5, AskedKeeps
    <2>2. CASE ~(c \in Two!Library /\ ~child[c].used)
      <3>1. Thread(c, handler[c], p, toClient[c], j, c \in sessions, c \in running)
        BY <1>1, <1>2, <1>3, <1>4 DEF Thread, Sent
      <3> QED BY <2>2, <3>1 DEF InStep
    <2> QED BY <2>1, <2>2
  <1>7. /\ toClient' = [toClient EXCEPT ![c] = toClient[c]]
        /\ shut' = [shut EXCEPT ![c] = shut[c]]
        /\ child' = child
    BY <1>1, <1>2 DEF ControlTypes
  <1>m. ProgramMoves(c, p, toClient[c], j, shut[c])
    BY <1>1, <1>2, <1>3, <1>4, <1>6, <1>7 DEF ProgramMoves
  <1> QED BY <1>m, ProgramStep

LEMMA RequestInv ==
  ASSUME ControlInv, Two!ControlAssumption, NEW c \in Connections, NEW verb \in Two!Acks \cup {"stats"},
         Two!Request(c, verb)
  PROVE  ControlInv'
  <1>1. /\ ControlTypes /\ client[c] \in Program
        /\ toDaemon[c] \in Seq(Message) /\ toClient[c] \in Seq(Response) /\ shut[c] \in BOOLEAN
        /\ InStep(c, child[c].used, handler[c], toDaemon[c], toClient[c], client[c], shut[c], c \in sessions,
                  c \in running)
        /\ Thread(c, handler[c], toDaemon[c], toClient[c], client[c], c \in sessions, c \in running)
    BY LinkIs
  <1>2. /\ client[c].pc = "stream"
        /\ Two!Become(c, "waiting", verb, client[c].started)
        /\ Two!Send(c, verb, c)
        /\ UNCHANGED <<slots, handler, sessions, running, toClient, shut, child>>
    BY DEF Two!Request, Two!daemonVars
  <1>3. PICK j \in Program : /\ client' = [client EXCEPT ![c] = j] /\ j.pc = "waiting"
                             /\ j.asked = verb /\ j.started = client[c].started
    <2>1. client[c].started \in BOOLEAN
      BY <1>1 DEF Program
    <2> QED BY <2>1, <1>2, BecomeIs DEF Becomes, Stages, Two!Requests, Two!Acks
  <1> DEFINE m == [kind |-> verb, of |-> c]
  <1>4. PICK p \in Seq(Message) : /\ toDaemon' = [toDaemon EXCEPT ![c] = p]
                                  /\ Sent(handler[c], shut[c], toDaemon[c], m, p) /\ m \in Message
    BY <1>1, <1>2, SendIs DEF Two!Requests, Two!Acks
  <1>5. m.kind = verb /\ m.of = c
    OBVIOUS
  <1> HIDE DEF m
  <1>6. InStep(c, child[c].used, handler[c], p, toClient[c], j, shut[c], c \in sessions, c \in running)
    <2>1. CASE c \in Two!Library /\ ~child[c].used
      BY <2>1, <1>1, <1>2, <1>3, <1>4, <1>5, RequestedKeeps
    <2>2. CASE ~(c \in Two!Library /\ ~child[c].used)
      <3>1. Thread(c, handler[c], p, toClient[c], j, c \in sessions, c \in running)
        BY <1>1, <1>2, <1>3, <1>4 DEF Thread, Sent
      <3> QED BY <2>2, <3>1 DEF InStep
    <2> QED BY <2>1, <2>2
  <1>7. /\ toClient' = [toClient EXCEPT ![c] = toClient[c]]
        /\ shut' = [shut EXCEPT ![c] = shut[c]]
        /\ child' = child
    BY <1>1, <1>2 DEF ControlTypes
  <1>m. ProgramMoves(c, p, toClient[c], j, shut[c])
    BY <1>1, <1>2, <1>3, <1>4, <1>6, <1>7 DEF ProgramMoves
  <1> QED BY <1>m, ProgramStep

(* A program leaves its connection, or closes its stream, without sending      *)
(* anything.                                                                   *)
LEMMA LeavesInv ==
  ASSUME ControlInv, NEW c \in Connections,
         UNCHANGED <<slots, handler, sessions, running, toDaemon, child>>,
         NEW a \in Seq(Response), toClient' = [toClient EXCEPT ![c] = a],
         NEW pc \in {"closed", "gone"}, Two!Become(c, pc, "none", FALSE),
         shut' = shut \/ shut' = [shut EXCEPT ![c] = TRUE]
  PROVE  ControlInv'
  <1>1. /\ ControlTypes /\ toDaemon[c] \in Seq(Message) /\ shut[c] \in BOOLEAN
        /\ InStep(c, child[c].used, handler[c], toDaemon[c], toClient[c], client[c], shut[c], c \in sessions,
                  c \in running)
    BY LinkIs
  <1>2. PICK j \in Program : client' = [client EXCEPT ![c] = j] /\ j.pc = pc
    <2>1. pc \in Stages /\ "none" \in Two!Requests \cup {"none"} /\ FALSE \in BOOLEAN
      BY DEF Stages
    <2>2. Becomes(c, pc, "none", FALSE)
      BY <2>1, BecomeIs
    <2> QED BY <2>2 DEF Becomes
  <1>3. PICK cut \in BOOLEAN : shut' = [shut EXCEPT ![c] = cut]
    BY <1>1 DEF ControlTypes
  <1>4. InStep(c, child[c].used, handler[c], toDaemon[c], a, j, cut, c \in sessions, c \in running)
    BY <1>1, <1>2, LeftKeeps
  <1>5. /\ toDaemon' = [toDaemon EXCEPT ![c] = toDaemon[c]]
        /\ child' = child
    BY <1>1 DEF ControlTypes
  <1>m. ProgramMoves(c, toDaemon[c], a, j, cut)
    BY <1>1, <1>2, <1>3, <1>4, <1>5 DEF ProgramMoves
  <1> QED BY <1>m, ProgramStep

(* The answers the library takes.                                              *)
LEMMA TakesIs ==
  ASSUME ControlInv, NEW c \in Connections, NEW pc, Two!Takes(c, pc)
  PROVE  /\ client[c].pc = pc /\ toClient[c] # << >>
         /\ Head(toClient[c]) \in Response /\ Tail(toClient[c]) \in Seq(Response)
         /\ UNCHANGED <<slots, handler, sessions, running, toDaemon, child>>
  <1>1. toClient[c] \in Seq(Response)
    BY LinkIs
  <1>2. toClient[c] # << >> /\ client[c].pc = pc
        /\ UNCHANGED <<slots, handler, sessions, running, toDaemon, child>>
    BY DEF Two!Takes, Two!daemonVars
  <1>3. Head(toClient[c]) = toClient[c][1] /\ toClient[c][1] \in Response
        /\ Tail(toClient[c]) \in Seq(Response)
    BY <1>1, <1>2, Tails
  <1> QED BY <1>2, <1>3

LEMMA GoneInv ==
  ASSUME ControlInv, NEW c \in Connections, Two!Gone(c),
         UNCHANGED <<slots, handler, sessions, running, toDaemon, child, shut>>
  PROVE  ControlInv'
  <1> DEFINE a == IF child[c].pc = "none" THEN << >> ELSE toClient[c]
  <1>1. toClient[c] \in Seq(Response) /\ << >> \in Seq(Response)
    BY LinkIs
  <1>2. a \in Seq(Response)
    BY <1>1
  <1>3. toClient' = [toClient EXCEPT ![c] = a] /\ Two!Become(c, "gone", "none", FALSE)
    BY DEF Two!Gone
  <1> HIDE DEF a
  <1> QED BY <1>2, <1>3, LeavesInv

(* An answer moves the program on.                                             *)
LEMMA MovesOn ==
  ASSUME ControlInv, NEW c \in Connections,
         UNCHANGED <<slots, handler, sessions, running, toDaemon, child, shut>>,
         NEW a \in Seq(Response), toClient' = [toClient EXCEPT ![c] = a],
         NEW j \in Program, client' = [client EXCEPT ![c] = j], j.pc \notin {"new", "raw"},
         client[c].pc # "new",
         c \in Two!Library /\ ~child[c].used => InStep(c, child[c].used, handler[c], toDaemon[c], a, j, shut[c], c \in sessions,
                                 c \in running)
  PROVE  ControlInv'
  <1>1. /\ ControlTypes /\ toDaemon[c] \in Seq(Message) /\ shut[c] \in BOOLEAN
        /\ Thread(c, handler[c], toDaemon[c], toClient[c], client[c], c \in sessions, c \in running)
    BY LinkIs
  <1>2. InStep(c, child[c].used, handler[c], toDaemon[c], a, j, shut[c], c \in sessions, c \in running)
    <2>1. CASE ~(c \in Two!Library /\ ~child[c].used)
      <3>1. Thread(c, handler[c], toDaemon[c], a, j, c \in sessions, c \in running)
        BY <1>1 DEF Thread
      <3> QED BY <2>1, <3>1 DEF InStep
    <2> QED BY <2>1
  <1>3. /\ toDaemon' = [toDaemon EXCEPT ![c] = toDaemon[c]]
        /\ child' = child
        /\ shut' = [shut EXCEPT ![c] = shut[c]]
    BY <1>1 DEF ControlTypes
  <1>m. ProgramMoves(c, toDaemon[c], a, j, shut[c])
    BY <1>1, <1>2, <1>3 DEF ProgramMoves
  <1> QED BY <1>m, ProgramStep

LEMMA ConnectedInv ==
  ASSUME ControlInv, Two!ControlAssumption, NEW c \in Connections, Two!Connected(c)
  PROVE  ControlInv'
  <1>1. Two!Takes(c, "connecting") /\ shut' = shut
    BY DEF Two!Connected
  <1>2. /\ client[c].pc = "connecting" /\ toClient[c] # << >>
        /\ Tail(toClient[c]) \in Seq(Response)
        /\ UNCHANGED <<slots, handler, sessions, running, toDaemon, child>>
    BY <1>1, TakesIs
  <1>3. CASE Two!Expected(c)
    <2>1. Two!Become(c, "client", "none", FALSE) /\ Two!Popped(c)
      BY <1>3 DEF Two!Connected
    <2>2. PICK j \in Program : client' = [client EXCEPT ![c] = j] /\ j.pc = "client"
      <3>b. Becomes(c, "client", "none", FALSE)
        BY <2>1, BecomeIs DEF Stages
      <3> QED BY <3>b DEF Becomes
    <2>3. toClient' = [toClient EXCEPT ![c] = Tail(toClient[c])]
      BY <2>1 DEF Two!Popped
    <2>4. /\ toDaemon[c] \in Seq(Message) /\ toClient[c] \in Seq(Response)
          /\ InStep(c, child[c].used, handler[c], toDaemon[c], toClient[c], client[c], shut[c], c \in sessions,
                    c \in running)
      BY LinkIs
    <2>5. c \in Two!Library /\ ~child[c].used => InStep(c, child[c].used, handler[c], toDaemon[c], Tail(toClient[c]), j, shut[c],
                                  c \in sessions, c \in running)
      BY <1>2, <2>2, <2>4, WelcomedKeeps
    <2> QED BY <1>1, <1>2, <2>2, <2>3, <2>5, MovesOn
  <1>4. CASE ~Two!Expected(c)
    BY <1>1, <1>2, <1>4, GoneInv DEF Two!Connected
  <1> QED BY <1>3, <1>4

LEMMA ClientAnsweredInv ==
  ASSUME ControlInv, Two!ControlAssumption, NEW c \in Connections, client[c].pc = "asking",
         UNCHANGED <<slots, handler, sessions, running, toDaemon, child, shut>>,
         Two!Become(c, "client", "none", FALSE), NEW a \in Seq(Response), Fewer(toClient[c], a),
         toClient' = [toClient EXCEPT ![c] = a]
  PROVE  ControlInv'
  <1>1. PICK j \in Program : client' = [client EXCEPT ![c] = j] /\ j.pc = "client"
    <2>b. Becomes(c, "client", "none", FALSE)
      BY BecomeIs DEF Stages
    <2> QED BY <2>b DEF Becomes
  <1>2. /\ toDaemon[c] \in Seq(Message) /\ toClient[c] \in Seq(Response)
        /\ InStep(c, child[c].used, handler[c], toDaemon[c], toClient[c], client[c], shut[c], c \in sessions,
                  c \in running)
    BY LinkIs
  <1>3. c \in Two!Library /\ ~child[c].used => InStep(c, child[c].used, handler[c], toDaemon[c], a, j, shut[c], c \in sessions,
                                c \in running)
    BY <1>1, <1>2, AnsweredKeeps
  <1> QED BY <1>1, <1>3, MovesOn

LEMMA OpenedInv ==
  ASSUME ControlInv, Two!ControlAssumption, NEW c \in Connections, Two!Opened(c)
  PROVE  ControlInv'
  <1>1. Two!Takes(c, "opening") /\ shut' = shut
    BY DEF Two!Opened
  <1>2. /\ client[c].pc = "opening" /\ toClient[c] # << >>
        /\ Tail(toClient[c]) \in Seq(Response)
        /\ UNCHANGED <<slots, handler, sessions, running, toDaemon, child>>
    BY <1>1, TakesIs
  <1>3. CASE Two!Expected(c)
    <2>1. Two!Become(c, "stream", "none", FALSE) /\ Two!Popped(c)
      BY <1>3 DEF Two!Opened
    <2>2. PICK j \in Program : /\ client' = [client EXCEPT ![c] = j]
                               /\ j.pc = "stream" /\ ~j.started
      <3>b. Becomes(c, "stream", "none", FALSE)
        BY <2>1, BecomeIs DEF Stages
      <3> QED BY <3>b DEF Becomes
    <2>3. toClient' = [toClient EXCEPT ![c] = Tail(toClient[c])]
      BY <2>1 DEF Two!Popped
    <2>4. /\ toDaemon[c] \in Seq(Message) /\ toClient[c] \in Seq(Response)
          /\ InStep(c, child[c].used, handler[c], toDaemon[c], toClient[c], client[c], shut[c], c \in sessions,
                    c \in running)
      BY LinkIs
    <2>5. ASSUME c \in Two!Library, ~child[c].used
          PROVE  InStep(c, child[c].used, handler[c], toDaemon[c], Tail(toClient[c]), j, shut[c], c \in sessions,
                        c \in running)
      <3>1. client[c].asked = "open"
        <4>1. Opening(handler[c], toDaemon[c], toClient[c], client[c])
          BY <2>4, <2>5, Parts
        <4> QED BY <1>2, <4>1 DEF Opening
      <3>2. Head(toClient[c]).result = "ok" /\ Head(toClient[c]).to = "open"
        BY <1>3, <3>1 DEF Two!Expected, Two!SameType, Two!Acks
      <3>3. (c \in running) \in BOOLEAN
        OBVIOUS
      <3>4. /\ client[c].pc = "opening" /\ toClient[c] # << >> /\ Two!ControlAssumption
            /\ j.pc = "stream" /\ ~j.started
        BY <1>2, <2>2
      <3> QED BY <2>4, <2>5, <3>2, <3>3, <3>4, OpenedKeeps
    <2> QED BY <1>1, <1>2, <2>2, <2>3, <2>5, MovesOn
  <1>4. CASE ~Two!Expected(c)
    BY <1>1, <1>2, <1>4, GoneInv DEF Two!Opened
  <1> QED BY <1>3, <1>4

LEMMA StreamAnsweredInv ==
  ASSUME ControlInv, Two!ControlAssumption, NEW c \in Connections, Two!StreamAnswered(c)
  PROVE  ControlInv'
  <1>1. Two!Takes(c, "waiting") /\ toClient' = [toClient EXCEPT ![c] = Tail(toClient[c])]
    BY DEF Two!StreamAnswered, Two!Popped
  <1>2. /\ client[c].pc = "waiting" /\ toClient[c] # << >>
        /\ Tail(toClient[c]) \in Seq(Response)
        /\ UNCHANGED <<slots, handler, sessions, running, toDaemon, child>>
    BY <1>1, TakesIs
  <1>3. CASE Two!Unexpected(c)
    BY <1>1, <1>2, <1>3, LeavesInv DEF Two!StreamAnswered, Two!Poison
  <1>4. CASE ~Two!Unexpected(c)
    <2> DEFINE ok == Two!Expected(c)
               asked == client[c].asked
    <2>0. client[c] \in Program /\ client[c].started \in BOOLEAN
      <3>1. client[c] \in Program
        BY LinkIs
      <3> QED BY <3>1 DEF Program
    <2>1. shut' = shut
          /\ IF ~ok THEN Two!Become(c, "stream", "none", client[c].started)
             ELSE CASE asked = "start" -> Two!Become(c, "stream", "none", TRUE)
                    [] asked = "stop" -> Two!Become(c, "stream", "none", FALSE)
                    [] asked = "close" -> Two!Become(c, "closed", "none", FALSE)
                    [] OTHER -> Two!Become(c, "stream", "none", client[c].started)
      BY <1>4 DEF Two!StreamAnswered
    <2>2. CASE Two!Become(c, "closed", "none", FALSE)
      BY <1>1, <1>2, <2>1, <2>2, LeavesInv
    <2>3. ASSUME ~(ok /\ asked = "close")
          PROVE  Two!Become(c, "stream", "none",
                        IF ok /\ asked = "start" THEN TRUE
                        ELSE IF ok /\ asked = "stop" THEN FALSE ELSE client[c].started)
      <3>1. CASE ~ok
        <4>1. Two!Become(c, "stream", "none", client[c].started)
          BY <3>1, <2>1
        <4> QED BY <3>1, <4>1, Zenon
      <3>2. CASE ok /\ asked = "start"
        BY <3>2, <2>1
      <3>3. CASE ok /\ asked = "stop"
        BY <3>3, <2>1
      <3>4. CASE ok /\ asked \notin {"start", "stop", "close"}
        BY <3>4, <2>1
      <3> QED BY <2>3, <3>1, <3>2, <3>3, <3>4
    <2>4. ASSUME ok, asked = "close" PROVE Two!Become(c, "closed", "none", FALSE)
      BY <2>1, <2>4
    <2>5. CASE ~(ok /\ asked = "close")
      <3> DEFINE started == IF ok /\ asked = "start" THEN TRUE
                            ELSE IF ok /\ asked = "stop" THEN FALSE ELSE client[c].started
      <3>1. started \in BOOLEAN
        BY <2>0
      <3>2. Two!Become(c, "stream", "none", started)
        BY <2>3, <2>5
      <3> HIDE DEF started
      <3>3. PICK j \in Program : /\ client' = [client EXCEPT ![c] = j]
                                 /\ j.pc = "stream" /\ j.started = started
        BY <3>1, <3>2, BecomeIs DEF Becomes, Stages
      <3>4. /\ toDaemon[c] \in Seq(Message) /\ toClient[c] \in Seq(Response)
            /\ InStep(c, child[c].used, handler[c], toDaemon[c], toClient[c], client[c], shut[c], c \in sessions,
                      c \in running)
        BY LinkIs
      <3>5. ASSUME c \in Two!Library, ~child[c].used
            PROVE  InStep(c, child[c].used, handler[c], toDaemon[c], Tail(toClient[c]), j, shut[c], c \in sessions,
                          c \in running)
        <4>0. (c \in running) \in BOOLEAN
          OBVIOUS
        <4>1. Due(handler[c], toDaemon[c], toClient[c], client[c], c \in running)
          BY <1>2, <3>4, <3>5, <4>0, AnswerIs
        <4>2. Head(toClient[c]).to = asked
          BY <4>1 DEF Due
        <4>3. ok <=> Head(toClient[c]).result = "ok"
          BY <4>2 DEF Two!Expected, Two!SameType
        <4>4. asked # "close" \/ Head(toClient[c]).result # "ok"
          BY <2>5, <4>3
        <4>5. j.started = IF Head(toClient[c]).result = "ok" /\ client[c].asked = "start" THEN TRUE
                          ELSE IF Head(toClient[c]).result = "ok" /\ client[c].asked = "stop"
                          THEN FALSE ELSE client[c].started
          BY <3>3, <4>3 DEF started
        <4>6. j.started \in BOOLEAN
          BY <3>1, <3>3
        <4> HIDE DEF ok
        <4> QED BY <1>2, <3>3, <3>4, <3>5, <4>0, <4>4, <4>5, <4>6, StreamAnsweredKeeps
      <3> QED BY <1>1, <1>2, <2>1, <3>3, <3>5, MovesOn
    <2> QED BY <2>2, <2>4, <2>5
  <1> QED BY <1>3, <1>4

LEMMA FailsInv ==
  ASSUME ControlInv, Two!ControlAssumption, NEW c \in Connections, Two!Fails(c)
  PROVE  ControlInv'
  <1>1. /\ client[c].pc \in {"connecting", "opening", "asking", "waiting"}
        /\ UNCHANGED <<slots, handler, sessions, running, toDaemon, child>>
    BY DEF Two!Fails, Two!daemonVars
  <1> DEFINE a == IF toClient[c] = << >> THEN toClient[c] ELSE Tail(toClient[c])
  <1>2. a \in Seq(Response) /\ Fewer(toClient[c], a)
    <2>1. toClient[c] \in Seq(Response)
      BY LinkIs
    <2> QED BY <2>1 DEF Fewer
  <1>3. CASE client[c].pc \in {"connecting", "opening"}
    <2>1. Two!Gone(c) /\ shut' = shut
      BY <1>3 DEF Two!Fails
    <2> QED BY <1>1, <2>1, GoneInv
  <1>4. CASE client[c].pc = "asking"
    <2>1. Two!Become(c, "client", "none", FALSE) /\ Two!Lost(c) /\ shut' = shut
      BY <1>4 DEF Two!Fails
    <2>2. toClient' = [toClient EXCEPT ![c] = a]
      BY <2>1 DEF Two!Lost
    <2> HIDE DEF a
    <2> QED BY <1>1, <1>2, <1>4, <2>1, <2>2, ClientAnsweredInv
  <1>5. CASE client[c].pc = "waiting"
    <2>1. Two!Poison(c) /\ Two!Lost(c)
      BY <1>5 DEF Two!Fails
    <2>2. toClient' = [toClient EXCEPT ![c] = a]
      BY <2>1 DEF Two!Lost
    <2> HIDE DEF a
    <2> QED BY <1>1, <1>2, <2>1, <2>2, LeavesInv DEF Two!Poison
  <1> QED BY <1>1, <1>3, <1>4, <1>5

LEMMA StreamDropsInv ==
  ASSUME ControlInv, NEW c \in Connections, Two!Drop(c)
  PROVE  ControlInv'
  <1>1. /\ client[c].pc \in {"client", "stream", "closed"} /\ Two!Gone(c)
        /\ UNCHANGED <<slots, handler, sessions, running, shut, child>>
    BY DEF Two!Drop, Two!daemonVars
  <1>2. CASE client[c].pc # "stream"
    <2>1. toDaemon' = toDaemon
      BY <1>2 DEF Two!Drop
    <2> QED BY <1>1, <2>1, GoneInv
  <1>3. CASE client[c].pc = "stream"
    <2>1. /\ ControlTypes
          /\ toDaemon[c] \in Seq(Message) /\ toClient[c] \in Seq(Response)
          /\ shut[c] \in BOOLEAN
          /\ InStep(c, child[c].used, handler[c], toDaemon[c], toClient[c], client[c], shut[c], c \in sessions,
                    c \in running)
          /\ Thread(c, handler[c], toDaemon[c], toClient[c], client[c], c \in sessions, c \in running)
      BY LinkIs
    <2> DEFINE m == [kind |-> "close", of |-> c]
    <2>2. Two!Send(c, "close", c)
      BY <1>3 DEF Two!Drop
    <2>3. PICK p \in Seq(Message) : /\ toDaemon' = [toDaemon EXCEPT ![c] = p]
                                    /\ Sent(handler[c], shut[c], toDaemon[c], m, p) /\ m \in Message
      BY <2>1, <2>2, SendIs DEF Two!Requests
    <2>4. m.kind = "close" /\ m.of = c
      OBVIOUS
    <2> HIDE DEF m
    <2> DEFINE a == IF child[c].pc = "none" THEN << >> ELSE toClient[c]
    <2>5. Two!Become(c, "gone", "none", FALSE) /\ toClient' = [toClient EXCEPT ![c] = a]
      BY <1>1 DEF Two!Gone
    <2>6. PICK j \in Program : client' = [client EXCEPT ![c] = j] /\ j.pc = "gone"
      <3>b. Becomes(c, "gone", "none", FALSE)
        BY <2>5, BecomeIs DEF Stages
      <3> QED BY <3>b DEF Becomes
    <2>7. a \in Seq(Response)
      BY <2>1
    <2> HIDE DEF a
    <2>8. InStep(c, child[c].used, handler[c], p, a, j, shut[c], c \in sessions, c \in running)
      <3>1. CASE c \in Two!Library /\ ~child[c].used
        BY <3>1, <1>3, <2>1, <2>3, <2>4, <2>6, DroppedKeeps
      <3>2. CASE ~(c \in Two!Library /\ ~child[c].used)
        <4>1. Thread(c, handler[c], p, a, j, c \in sessions, c \in running)
          BY <2>1, <2>3, <2>6 DEF Thread, Sent
        <4> QED BY <3>2, <4>1 DEF InStep
      <3> QED BY <3>1, <3>2
    <2>9. child' = child /\ shut' = [shut EXCEPT ![c] = shut[c]]
      BY <1>1, <2>1 DEF ControlTypes
    <2>m. ProgramMoves(c, p, a, j, shut[c])
      BY <1>1, <2>1, <2>3, <2>5, <2>6, <2>7, <2>8, <2>9 DEF ProgramMoves
    <2> QED BY <2>m, ProgramStep
  <1> QED BY <1>2, <1>3

(* A step of a child: it leaves the socket alone, or it has used it.           *)
ChildMoves(c, q, a, cut, m) ==
    /\ UNCHANGED <<slots, handler, sessions, running, client>>
    /\ q \in Seq(Message) /\ toDaemon' = [toDaemon EXCEPT ![c] = q]
    /\ a \in Seq(Response) /\ toClient' = [toClient EXCEPT ![c] = a]
    /\ cut \in BOOLEAN /\ shut' = [shut EXCEPT ![c] = cut]
    /\ m \in Kid /\ child' = [child EXCEPT ![c] = m]
    /\ handler[c].pc = "gone" => q = toDaemon[c]
    /\ \/ m.used
       \/ q = toDaemon[c] /\ a = toClient[c] /\ cut = shut[c] /\ m.used = child[c].used

LEMMA ChildMovesInv ==
  ASSUME ControlInv, NEW c \in Connections, NEW q, NEW a, NEW cut, NEW m,
         ChildMoves(c, q, a, cut, m)
  PROVE  ControlInv'
  <1> USE DEF ChildMoves
  <1>1. ControlTypes /\ Two!SlotsAreThreads /\ Links
    BY DEF ControlInv, Links
  <1>2. ControlTypes'
    BY <1>1 DEF ControlTypes
  <1>3. Two!SlotsAreThreads'
    BY <1>1, SameThreads
  <1>4. \A d \in Connections \ {c} : Same(d)
    BY <1>1 DEF Same, ControlTypes
  <1>5. toDaemon'[c] = q /\ toClient'[c] = a /\ shut'[c] = cut /\ child'[c] = m
    BY <1>1 DEF ControlTypes
  <1>6. Link(c)'
    <2>1. /\ InStep(c, child[c].used, handler[c], toDaemon[c], toClient[c], client[c], shut[c],
                    c \in sessions, c \in running)
          /\ Thread(c, handler[c], toDaemon[c], toClient[c], client[c], c \in sessions, c \in running)
      BY LinkIs
    <2>2. InStep(c, m.used, handler[c], q, a, client[c], cut, c \in sessions, c \in running)
      <3>1. CASE m.used
        <4>1. Thread(c, handler[c], q, a, client[c], c \in sessions, c \in running)
          BY <2>1 DEF Thread
        <4> QED BY <3>1, <4>1 DEF InStep
      <3>2. CASE ~m.used
        BY <3>2, <2>1
      <3> QED BY <3>1, <3>2
    <2> QED BY <1>5, <2>2 DEF Link
  <1> QED BY <1>1, <1>2, <1>3, <1>4, <1>6, OneLink DEF ControlInv, Links

(* What a child becomes.                                                       *)
LEMMA ChildBecomesIs ==
  ASSUME ControlInv, NEW c \in Connections, NEW pc, NEW asked, NEW started,
         Two!ChildBecomes(c, pc, asked, started),
         pc \in {"none", "refused", "client", "asking", "opening", "stream", "waiting", "closed"},
         asked \in Two!Requests \cup {"none"}, started \in BOOLEAN,
         pc \notin {"none", "refused", "client"} => asked # "none" \/ child[c].used
  PROVE  \E m \in Kid : /\ child' = [child EXCEPT ![c] = m]
                        /\ m.used <=> child[c].used \/ asked # "none"
                        /\ asked = "none" => m.used = child[c].used
  <1>1. child[c] \in Kid /\ child \in [Connections -> Kid]
    BY LinkIs DEF ControlTypes
  <1> DEFINE m == [pc |-> pc, asked |-> asked, started |-> started,
                   used |-> child[c].used \/ asked # "none"]
  <1>2. child[c].used \in BOOLEAN
    BY <1>1 DEF Kid
  <1>3. m \in Kid
    BY <1>2 DEF Kid
  <1>4. child' = [child EXCEPT ![c] = m]
    BY <1>1 DEF Two!ChildBecomes
  <1>5. (m.used <=> child[c].used \/ asked # "none") /\ (asked = "none" => m.used = child[c].used)
    BY <1>2
  <1> HIDE DEF m
  <1> QED BY <1>3, <1>4, <1>5

(* A fork, and a child that leaves without a word, change nothing but who      *)
(* holds the connection.                                                       *)
LEMMA ChildQuiet ==
  ASSUME ControlInv, NEW c \in Connections,
         UNCHANGED <<slots, handler, sessions, running, toDaemon, toClient, client, shut>>,
         NEW m \in Kid, child' = [child EXCEPT ![c] = m], m.used = child[c].used
  PROVE  ControlInv'
  <1>1. ControlTypes /\ toDaemon[c] \in Seq(Message) /\ toClient[c] \in Seq(Response) /\ shut[c] \in BOOLEAN
    BY LinkIs
  <1>2. ChildMoves(c, toDaemon[c], toClient[c], shut[c], m)
    BY <1>1 DEF ChildMoves, ControlTypes
  <1> QED BY <1>2, ChildMovesInv

(* Every other step is one of a child that has used the connection.            *)
LEMMA ChildUses ==
  ASSUME ControlInv, NEW c \in Connections, UNCHANGED <<slots, handler, sessions, running, client>>,
         \/ toDaemon' = toDaemon
         \/ \E verb \in Two!Requests : Two!Send(c, verb, c),
         NEW a \in Seq(Response), toClient' = [toClient EXCEPT ![c] = a],
         shut' = shut \/ \E cut \in BOOLEAN : shut' = [shut EXCEPT ![c] = cut],
         NEW m \in Kid, child' = [child EXCEPT ![c] = m], m.used
  PROVE  ControlInv'
  <1>1. ControlTypes /\ toDaemon[c] \in Seq(Message) /\ shut[c] \in BOOLEAN
    BY LinkIs
  <1>2. PICK q \in Seq(Message) : /\ toDaemon' = [toDaemon EXCEPT ![c] = q]
                                  /\ handler[c].pc = "gone" => q = toDaemon[c]
    <2>1. CASE toDaemon' = toDaemon
      BY <2>1, <1>1 DEF ControlTypes
    <2>2. ASSUME NEW verb \in Two!Requests, Two!Send(c, verb, c)
          PROVE  \E q \in Seq(Message) : /\ toDaemon' = [toDaemon EXCEPT ![c] = q]
                                         /\ handler[c].pc = "gone" => q = toDaemon[c]
      <3>1. PICK p \in Seq(Message) :
              /\ toDaemon' = [toDaemon EXCEPT ![c] = p]
              /\ Sent(handler[c], shut[c], toDaemon[c], [kind |-> verb, of |-> c], p)
        BY <1>1, <2>2, SendIs
      <3> QED BY <3>1 DEF Sent
    <2> QED BY <2>1, <2>2
  <1>3. PICK cut \in BOOLEAN : shut' = [shut EXCEPT ![c] = cut]
    BY <1>1 DEF ControlTypes
  <1>4. ChildMoves(c, q, a, cut, m)
    BY <1>2, <1>3 DEF ChildMoves
  <1> QED BY <1>4, ChildMovesInv

(* A program without the library sends what it likes.                          *)
LEMMA RawInv ==
  ASSUME ControlInv, Two!ControlAssumption, NEW c \in Connections,
         Two!RawTakes(c) \/ \E verb \in RawRequests, of \in Connections : Two!RawSends(c, verb, of)
  PROVE  ControlInv'
  <1>1. /\ ControlTypes /\ client[c] \in Program
        /\ toDaemon[c] \in Seq(Message) /\ toClient[c] \in Seq(Response) /\ shut[c] \in BOOLEAN
        /\ Thread(c, handler[c], toDaemon[c], toClient[c], client[c], c \in sessions, c \in running)
    BY LinkIs
  <1>2. /\ client[c].pc = "raw"
        /\ UNCHANGED <<slots, handler, sessions, running, client, shut, child>>
    BY DEF Two!RawTakes, Two!RawSends, Two!daemonVars, Two!clientVars
  <1>3. c \in Raw
    BY <1>1, <1>2 DEF Thread
  <1>4. PICK p \in Seq(Message), a \in Seq(Response) :
          /\ toDaemon' = [toDaemon EXCEPT ![c] = p] /\ toClient' = [toClient EXCEPT ![c] = a]
          /\ handler[c].pc = "gone" => p = toDaemon[c]
    <2>1. CASE Two!RawTakes(c)
      <3>1. toClient[c] # << >> /\ toDaemon' = toDaemon
            /\ toClient' = [toClient EXCEPT ![c] = Tail(toClient[c])]
        BY <2>1 DEF Two!RawTakes, Two!Popped
      <3>2. Tail(toClient[c]) \in Seq(Response)
            /\ toDaemon' = [toDaemon EXCEPT ![c] = toDaemon[c]]
        BY <1>1, <3>1 DEF ControlTypes
      <3> QED BY <1>1, <3>1, <3>2
    <2>2. ASSUME NEW verb \in RawRequests, NEW of \in Connections, Two!RawSends(c, verb, of)
          PROVE  \E p \in Seq(Message), a \in Seq(Response) :
                   /\ toDaemon' = [toDaemon EXCEPT ![c] = p]
                   /\ toClient' = [toClient EXCEPT ![c] = a]
                   /\ handler[c].pc = "gone" => p = toDaemon[c]
      <3>1. Two!Send(c, verb, of) /\ toClient' = toClient /\ verb \in Two!Requests
        BY <2>2 DEF Two!RawSends, Two!ControlAssumption
      <3>2. PICK p \in Seq(Message) :
              /\ toDaemon' = [toDaemon EXCEPT ![c] = p]
              /\ Sent(handler[c], shut[c], toDaemon[c], [kind |-> verb, of |-> of], p)
        BY <1>1, <3>1, SendIs
      <3>3. toClient' = [toClient EXCEPT ![c] = toClient[c]]
        BY <1>1, <3>1 DEF ControlTypes
      <3> QED BY <1>1, <3>2, <3>3 DEF Sent
    <2> QED BY <2>1, <2>2
  <1>5. Thread(c, handler[c], p, a, client[c], c \in sessions, c \in running)
    BY <1>1, <1>2, <1>4 DEF Thread
  <1>6. InStep(c, child[c].used, handler[c], p, a, client[c], shut[c], c \in sessions, c \in running)
    BY <1>3, <1>5 DEF InStep, Two!Library
  <1>7. /\ client' = [client EXCEPT ![c] = client[c]] /\ shut' = [shut EXCEPT ![c] = shut[c]]
        /\ child' = child
    BY <1>1, <1>2 DEF ControlTypes
  <1>m. ProgramMoves(c, p, a, client[c], shut[c])
    BY <1>1, <1>2, <1>4, <1>6, <1>7 DEF ProgramMoves
  <1> QED BY <1>m, ProgramStep
(* The specification.                                                          *)
LEMMA ClientStepInv ==
  ASSUME ControlInv, Two!ControlAssumption, NEW c \in Connections, Two!ClientStep(c)
  PROVE  ControlInv'
  <1>1. CASE Two!ClientAnswered(c)
    <2>1. Two!Takes(c, "asking") /\ Two!Become(c, "client", "none", FALSE) /\ Two!Popped(c)
          /\ UNCHANGED shut
      BY <1>1 DEF Two!ClientAnswered
    <2>2. /\ client[c].pc = "asking" /\ toClient[c] # << >>
          /\ Tail(toClient[c]) \in Seq(Response)
          /\ UNCHANGED <<slots, handler, sessions, running, toDaemon, child>>
      BY <2>1, TakesIs
    <2>3. toClient[c] \in Seq(Response)
      BY LinkIs
    <2>4. Fewer(toClient[c], Tail(toClient[c]))
      BY <2>2, <2>3 DEF Fewer
    <2>5. toClient' = [toClient EXCEPT ![c] = Tail(toClient[c])]
      BY <2>1 DEF Two!Popped
    <2> QED BY <2>1, <2>2, <2>4, <2>5, ClientAnsweredInv
  <1>2. CASE Two!NoticesClosed(c)
    <2>1. /\ UNCHANGED <<slots, handler, sessions, running, toDaemon, child, toClient>>
          /\ Two!Become(c, "closed", "none", FALSE) /\ shut' = [shut EXCEPT ![c] = TRUE]
      BY <1>2 DEF Two!NoticesClosed, Two!Poison, Two!daemonVars
    <2>2. toClient[c] \in Seq(Response) /\ toClient' = [toClient EXCEPT ![c] = toClient[c]]
      BY <2>1 DEF ControlInv, ControlTypes
    <2> QED BY <2>1, <2>2, LeavesInv
  <1>3. CASE Two!Dies(c)
    BY <1>3, GoneInv DEF Two!Dies, Two!daemonVars
  <1>4. CASE \E verb \in {"info", "stats", "open"} : Two!Ask(c, verb)
    BY <1>4, AskInv
  <1>5. CASE \E verb \in Two!Acks \cup {"stats"} : Two!Request(c, verb)
    BY <1>5, RequestInv
  <1>6. CASE Two!Connect(c)
    BY <1>6, ConnectInv
  <1>7. CASE Two!Connected(c)
    BY <1>7, ConnectedInv
  <1>8. CASE Two!Opened(c)
    BY <1>8, OpenedInv
  <1>9. CASE Two!StreamAnswered(c)
    BY <1>9, StreamAnsweredInv
  <1>10. CASE Two!Fails(c)
    BY <1>10, FailsInv
  <1>11. CASE Two!Drop(c)
    BY <1>11, StreamDropsInv
  <1>13. CASE Two!RawTakes(c) \/ \E verb \in RawRequests, of \in Connections : Two!RawSends(c, verb, of)
    BY <1>13, RawInv
  <1> QED BY <1>1, <1>2, <1>3, <1>4, <1>5, <1>6, <1>7, <1>8, <1>9, <1>10, <1>11, <1>13
         DEF Two!ClientStep

LEMMA ChildStepInv ==
  ASSUME ControlInv, Two!ControlAssumption, NEW c \in Connections, Two!ChildStep(c)
  PROVE  ControlInv'
  <1>1. /\ child[c] \in Kid /\ child \in [Connections -> Kid]
        /\ toClient[c] \in Seq(Response) /\ toClient = [toClient EXCEPT ![c] = toClient[c]]
    BY LinkIs DEF ControlTypes
  <1>2. child[c].started \in BOOLEAN /\ child[c].used \in BOOLEAN
        /\ (child[c].pc \in {"asking", "opening", "stream", "waiting", "closed"} => child[c].used)
    BY <1>1 DEF Kid
  <1>3. CASE Two!Fork(c)
    <2> DEFINE m == [child[c] EXCEPT !.pc = IF client[c].pc = "stream" THEN "refused" ELSE "client"]
    <2>1. m \in Kid /\ m.used = child[c].used
      BY <1>1 DEF Kid
    <2>2. child' = [child EXCEPT ![c] = m]
          /\ UNCHANGED <<slots, handler, sessions, running, toDaemon, toClient, client, shut>>
      BY <1>3, <1>1 DEF Two!Fork, Two!daemonVars
    <2> HIDE DEF m
    <2> QED BY <2>1, <2>2, ChildQuiet
  <1>4. CASE Two!ChildDies(c) \/ (Two!ChildDrops(c) /\ child[c].pc # "stream")
    <2>1. /\ Two!ChildBecomes(c, "none", "none", FALSE)
          /\ UNCHANGED <<slots, handler, sessions, running, toDaemon, toClient, client, shut>>
      BY <1>4 DEF Two!ChildDies, Two!ChildDrops, Two!daemonVars
    <2>2. PICK m \in Kid : child' = [child EXCEPT ![c] = m] /\ m.used = child[c].used
      BY <2>1, ChildBecomesIs
    <2> QED BY <2>1, <2>2, ChildQuiet
  <1>5. CASE Two!ChildDrops(c) /\ child[c].pc = "stream"
    <2>1. /\ Two!ChildBecomes(c, "none", "none", FALSE) /\ Two!Send(c, "close", c)
          /\ UNCHANGED <<slots, handler, sessions, running, toClient, client, shut>>
      BY <1>5 DEF Two!ChildDrops, Two!daemonVars
    <2>2. PICK m \in Kid : child' = [child EXCEPT ![c] = m] /\ m.used
      BY <1>2, <1>5, <2>1, ChildBecomesIs
    <2>3. "close" \in Two!Requests
      BY DEF Two!Requests
    <2> QED BY <1>1, <2>1, <2>2, <2>3, ChildUses
  <1>6. ASSUME NEW verb \in {"info", "open", "stats"} \cup Two!Acks, Two!ChildAsks(c, verb)
        PROVE  ControlInv'
    <2>1. /\ Two!Send(c, verb, c)
          /\ UNCHANGED <<slots, handler, sessions, running, toClient, client, shut>>
      BY <1>6 DEF Two!ChildAsks, Two!daemonVars
    <2>2. verb \in Two!Requests /\ verb # "none"
      BY DEF Two!Requests, Two!Acks
    <2>3. PICK pc \in {"asking", "opening", "waiting"}, started \in BOOLEAN :
            Two!ChildBecomes(c, pc, verb, started)
      <3>1. CASE child[c].pc = "client"
        <4>1. Two!ChildBecomes(c, IF verb = "open" THEN "opening" ELSE "asking", verb, FALSE)
          BY <1>6, <3>1 DEF Two!ChildAsks
        <4>2. (IF verb = "open" THEN "opening" ELSE "asking") \in {"asking", "opening", "waiting"}
          OBVIOUS
        <4> QED BY <4>1, <4>2
      <3>2. CASE child[c].pc # "client"
        <4>1. Two!ChildBecomes(c, "waiting", verb, child[c].started)
          BY <1>6, <3>2 DEF Two!ChildAsks
        <4> QED BY <1>2, <4>1
      <3> QED BY <3>1, <3>2
    <2>4. PICK m \in Kid : child' = [child EXCEPT ![c] = m] /\ m.used
      BY <2>2, <2>3, ChildBecomesIs
    <2> QED BY <1>1, <2>1, <2>2, <2>4, ChildUses
  <1>7. ASSUME NEW how \in {"expected", "unexpected", "error", "none"}, Two!ChildEnds(c, how),
               Two!ChildWaits(c), NEW a \in Seq(Response), toClient' = [toClient EXCEPT ![c] = a]
        PROVE  ControlInv'
    <2>1. /\ child[c].pc \in {"asking", "opening", "waiting"} /\ child[c].used
          /\ UNCHANGED <<slots, handler, sessions, running, toDaemon, client>>
      BY <1>2, <1>7 DEF Two!ChildWaits, Two!daemonVars
    <2>2. \E cut \in BOOLEAN : shut' = [shut EXCEPT ![c] = cut]
      <3>1. shut[c] \in BOOLEAN
        BY LinkIs
      <3> DEFINE cut == shut[c] \/ (child[c].pc = "waiting" /\ how \in {"unexpected", "none"})
      <3>2. cut \in BOOLEAN /\ shut' = [shut EXCEPT ![c] = cut]
        BY <1>7, <3>1 DEF Two!ChildEnds
      <3> HIDE DEF cut
      <3> QED BY <3>2
    <2>3. PICK pc \in {"none", "client", "stream", "closed"}, started \in BOOLEAN :
            Two!ChildBecomes(c, pc, "none", started)
      <3>1. CASE child[c].pc = "asking"
        BY <1>7, <3>1 DEF Two!ChildEnds
      <3>2. CASE child[c].pc = "opening"
        <4>1. Two!ChildBecomes(c, IF how = "expected" THEN "stream" ELSE "none", "none", FALSE)
          BY <1>7, <3>2 DEF Two!ChildEnds
        <4>2. (IF how = "expected" THEN "stream" ELSE "none") \in {"none", "client", "stream", "closed"}
          OBVIOUS
        <4> QED BY <4>1, <4>2
      <3>3. CASE child[c].pc = "waiting"
        <4> DEFINE ends == how \in {"unexpected", "none"} \/ (how = "expected" /\ child[c].asked = "close")
                   started == IF how = "expected" /\ child[c].asked \in {"start", "stop"}
                              THEN child[c].asked = "start" ELSE child[c].started
        <4>1. IF ends THEN Two!ChildBecomes(c, "closed", "none", FALSE)
              ELSE Two!ChildBecomes(c, "stream", "none", started)
          BY <1>7, <3>3 DEF Two!ChildEnds
        <4>2. started \in BOOLEAN
          BY <1>2
        <4> HIDE DEF ends, started
        <4> QED BY <4>1, <4>2
      <3> QED BY <2>1, <3>1, <3>2, <3>3
    <2>4. PICK m \in Kid : child' = [child EXCEPT ![c] = m] /\ m.used
      BY <2>1, <2>3, ChildBecomesIs
    <2> QED BY <1>7, <2>1, <2>2, <2>4, ChildUses
  <1>8. CASE Two!ChildAnswered(c)
    <2>1. /\ Two!ChildWaits(c) /\ toClient[c] # << >>
          /\ toClient' = [toClient EXCEPT ![c] = Tail(toClient[c])]
      BY <1>8 DEF Two!ChildAnswered, Two!Popped
    <2>2. Tail(toClient[c]) \in Seq(Response)
      BY <1>1, <2>1
    <2>3. \E how \in {"expected", "unexpected", "error", "none"} : Two!ChildEnds(c, how)
      BY <1>8 DEF Two!ChildAnswered
    <2> QED BY <1>7, <2>1, <2>2, <2>3
  <1>9. CASE Two!ChildFails(c)
    <2> DEFINE a == IF toClient[c] = << >> THEN toClient[c] ELSE Tail(toClient[c])
    <2>1. /\ Two!ChildWaits(c) /\ Two!ChildEnds(c, "none")
          /\ toClient' = [toClient EXCEPT ![c] = a]
      BY <1>9 DEF Two!ChildFails, Two!Lost
    <2>2. a \in Seq(Response)
      BY <1>1
    <2> HIDE DEF a
    <2> QED BY <1>7, <2>1, <2>2
  <1>10. CASE Two!ChildNotices(c)
    <2>1. /\ Two!ChildBecomes(c, "closed", "none", FALSE) /\ child[c].used
          /\ UNCHANGED <<slots, handler, sessions, running, toDaemon, toClient, client>>
          /\ shut' = [shut EXCEPT ![c] = TRUE]
      BY <1>2, <1>10 DEF Two!ChildNotices, Two!daemonVars
    <2>2. PICK m \in Kid : child' = [child EXCEPT ![c] = m] /\ m.used
      BY <2>1, ChildBecomesIs
    <2>3. \E cut \in BOOLEAN : shut' = [shut EXCEPT ![c] = cut]
      BY <2>1
    <2> QED BY <1>1, <2>1, <2>2, <2>3, ChildUses
  <1> QED BY <1>3, <1>4, <1>5, <1>6, <1>8, <1>9, <1>10 DEF Two!ChildStep

LEMMA HandlerStepInv ==
  ASSUME ControlInv, Two!ControlAssumption, NEW c \in Connections, Two!HandlerStep(c)
  PROVE  ControlInv'
  <1>1. CASE Two!ReadFails(c) \/ Two!Unknown(c) \/ Two!HelloRequired(c) \/ Two!Hello(c)
    BY <1>1, ReadFailsInv, UncalledInv, HelloInv
  <1>2. CASE Two!GetData(c) \/ Two!Open(c) \/ Two!StartStop(c) \/ Two!Close(c)
    BY <1>2, GetDataInv, OpenInv, StartStopInv, CloseInv
  <1>3. CASE Two!Reply(c) \/ Two!NothingToRead(c) \/ Two!Leave(c)
    BY <1>3, ReplyInv, NothingToReadInv, ThreadEndsInv
  <1> QED BY <1>1, <1>2, <1>3 DEF Two!HandlerStep

LEMMA ControlInit ==
  Two!ControlAssumption /\ Two!Init => ControlInv
  <1> SUFFICES ASSUME Two!ControlAssumption, Two!Init PROVE ControlInv
    OBVIOUS
  <1>1. Two!NoHandler \in Handler
    BY NoneIs
  <1>2. [pc |-> "new", asked |-> "none", started |-> FALSE] \in Program
    BY DEF Program, Stages
  <1>3. << >> \in Seq(Message) /\ << >> \in Seq(Response) /\ 0 \in 0 .. MaxClients
    BY DEF Two!ControlAssumption
  <1>c. Two!NoChild \in Kid
    BY DEF Two!NoChild, Kid
  <1>4. ControlTypes
    BY <1>1, <1>2, <1>3, <1>c DEF Two!Init, ControlTypes
  <1>5. Two!SlotsAreThreads
    <2> SUFFICES ASSUME NEW u \in Two!Uids
                 PROVE  slots[u] = Cardinality({c \in Connections : Two!Served(c) /\ UidOf[c] = u})
      BY SameSizes DEF Two!SlotsAreThreads
    <2>1. \A c \in Connections : ~Two!Served(c)
      BY DEF Two!Init, Two!Served, Two!Serving, Two!NoHandler
    <2>2. {c \in Connections : Two!Served(c) /\ UidOf[c] = u} = {}
      BY <2>1
    <2>3. slots[u] = 0
      BY DEF Two!Init
    <2> QED BY <2>2, <2>3, FS_EmptySet
  <1>6. ASSUME NEW c \in Connections PROVE Link(c)
    <2> DEFINE k == client[c]
    <2>1. /\ handler[c] = Two!NoHandler /\ toDaemon[c] = << >> /\ toClient[c] = << >>
          /\ k.pc = "new" /\ ~shut[c] /\ c \notin sessions /\ c \notin running
      BY DEF Two!Init
    <2>2. Len(<< >>) = 0
      OBVIOUS
    <2> HIDE DEF k
    <2>3. Thread(c, Two!NoHandler, << >>, << >>, k, c \in sessions, c \in running)
      BY <2>1 DEF Thread, Two!NoHandler
    <2>4. Polite(c, Two!NoHandler, << >>, << >>, k, shut[c])
      BY <2>1, <2>2 DEF Polite, Two!NoHandler, Active
    <2>5. /\ Asking(Two!NoHandler, << >>, << >>, k) /\ Opening(Two!NoHandler, << >>, << >>, k)
          /\ Streaming(Two!NoHandler, << >>, << >>, k, c \in running)
      BY <2>1 DEF Asking, Opening, Streaming
    <2>6. InStep(c, child[c].used, Two!NoHandler, << >>, << >>, k, shut[c], c \in sessions, c \in running)
      BY <2>3, <2>4, <2>5 DEF InStep
    <2> QED BY <2>1, <2>6 DEF Link, k
  <1> QED BY <1>4, <1>5, <1>6 DEF ControlInv

LEMMA ControlStep ==
  Two!ControlAssumption /\ ControlInv /\ [Two!Next]_(Two!vars) => ControlInv'
  <1> SUFFICES ASSUME Two!ControlAssumption, ControlInv, [Two!Next]_(Two!vars) PROVE ControlInv'
    OBVIOUS
  <1>1. ASSUME NEW c \in Connections,
               Two!ListenerStep(c) \/ Two!HandlerStep(c) \/ Two!ClientStep(c) \/ Two!ChildStep(c)
        PROVE  ControlInv'
    BY <1>1, ListenerInv, HandlerStepInv, ClientStepInv, ChildStepInv
  <1>2. CASE Two!DaemonExits
    BY <1>2, DaemonExitsInv
  <1>3. CASE UNCHANGED Two!vars
    <2>1. /\ UNCHANGED <<slots, handler, sessions, running>>
          /\ UNCHANGED <<toDaemon, toClient, client, shut, child>>
      BY <1>3 DEF Two!vars, Two!daemonVars, Two!clientVars
    <2>2. ControlTypes' /\ Two!SlotsAreThreads'
      BY <2>1 DEF ControlInv, ControlTypes, Two!SlotsAreThreads, Two!Served
    <2>3. \A c \in Connections : Link(c)'
      BY <2>1 DEF ControlInv, Link
    <2> QED BY <2>2, <2>3 DEF ControlInv
  <1> QED BY <1>1, <1>2, <1>3 DEF Two!Next

(* What follows.                                                               *)
LEMMA InStepIs ==
  ASSUME ControlInv, NEW c \in Two!Library, ~child[c].used
  PROVE  /\ client[c].pc = "stream" =>
              /\ Two!Busy(c) = 0
              /\ ~Two!DaemonGone(c) => c \in sessions /\ (client[c].started <=> c \in running)
         /\ client[c].pc = "waiting" =>
              /\ Two!Busy(c) <= 1
              /\ toClient[c] # << >> => Head(toClient[c]).to = client[c].asked
  <1> DEFINE h == handler[c]
             q == toDaemon[c]
             a == toClient[c]
             k == client[c]
  <1>1. c \in Connections
    BY DEF Two!Library
  <1>2. InStep(c, child[c].used, h, q, a, k, shut[c], c \in sessions, c \in running)
        /\ Thread(c, h, q, a, k, c \in sessions, c \in running) /\ a \in Seq(Response)
    BY <1>1, LinkIs
  <1>3. Streaming(h, q, a, k, c \in running)
    BY <1>2, Parts
  <1>4. Two!Busy(c) = Traffic(h, q, a)
    BY DEF Two!Busy, Traffic
  <1>5. k.pc = "waiting" /\ a # << >> => Head(a).to = k.asked
    <2> SUFFICES ASSUME k.pc = "waiting", a # << >> PROVE Head(a).to = k.asked
      OBVIOUS
    <2>1. Head(a) = a[1] /\ Len(a) \in Nat \ {0}
      BY <1>2, Tails
    <2>2. 1 \in 1 .. Len(a)
      BY <2>1
    <2>3. UnderWay(h, q, a, {k.asked})
      BY <1>3 DEF Streaming
    <2> HIDE DEF a, k
    <2> QED BY <2>1, <2>2, <2>3 DEF UnderWay
  <1>6. k.pc = "stream" /\ ~Two!DaemonGone(c) => c \in sessions /\ (k.started <=> c \in running)
    BY <1>2, <1>3 DEF Streaming, Thread, Two!DaemonGone
  <1>7. (k.pc = "stream" => Traffic(h, q, a) = 0) /\ (k.pc = "waiting" => Traffic(h, q, a) <= 1)
    BY <1>3 DEF Streaming
  <1> QED BY <1>4, <1>5, <1>6, <1>7

LEMMA ControlAgrees ==
  Two!ControlAssumption /\ ControlInv => Two!TypeOK /\ Two!EndsAgree
  <1> SUFFICES ASSUME Two!ControlAssumption, ControlInv PROVE Two!TypeOK /\ Two!EndsAgree
    OBVIOUS
  <1>1. Two!TypeOK
    BY DEF Two!TypeOK, ControlInv, ControlTypes, Handler, Program, Stages, Kid
  <1>2. Two!SlotsAreThreads
    BY DEF ControlInv
  <1>3. Two!SessionsAreHeld
    <2>1. ASSUME NEW c \in Connections
          PROVE  c \in sessions <=> Two!Served(c) /\ handler[c].session
      <3>1. Thread(c, handler[c], toDaemon[c], toClient[c], client[c], c \in sessions, c \in running)
            /\ handler[c] \in Handler
        BY LinkIs
      <3>2. handler[c].pc \in Two!Serving \cup {"none", "backlog", "gone"}
        BY <3>1 DEF Handler
      <3> QED BY <3>1, <3>2 DEF Thread, Two!Served
    <2>2. sessions \subseteq Connections
      BY DEF ControlInv, ControlTypes
    <2> QED BY <2>1, <2>2 DEF Two!SessionsAreHeld
  <1>4. Two!StreamsAreInStep /\ Two!StreamsKnowTheirState
    BY InStepIs DEF Two!StreamsAreInStep, Two!StreamsKnowTheirState, Two!Unshared
  <1> QED BY <1>1, <1>2, <1>3, <1>4 DEF Two!EndsAgree

(* A session ends by CLOSE, with its thread or with the daemon.                *)
LEMMA Endings ==
  ASSUME ControlInv, [Two!Next]_(Two!vars), NEW d \in sessions, d \notin sessions'
  PROVE  up' = FALSE \/ Two!Leave(d) \/ (Two!Close(d) /\ Two!Owns(d))
  <1>1. CASE Two!DaemonExits
    BY <1>1 DEF Two!DaemonExits
  <1>2. ASSUME NEW c \in Connections, Two!ListenerStep(c) \/ Two!ClientStep(c) \/ Two!ChildStep(c)
        PROVE  sessions' = sessions
    <2>1. CASE Two!ListenerStep(c)
      BY <2>1 DEF Two!ListenerStep, Two!Accept, Two!Refuse, Two!SpawnFails
    <2>2. CASE Two!ClientStep(c)
      <3>1. UNCHANGED Two!daemonVars => sessions' = sessions
        BY DEF Two!daemonVars
      <3>2. Two!Connect(c) => sessions' = sessions
        BY DEF Two!Connect
      <3> QED BY <2>2, <3>1, <3>2 DEF Two!ClientStep, Two!Connected, Two!ClientAnswered,
             Two!Opened, Two!StreamAnswered, Two!Takes, Two!Ask, Two!Request, Two!Fails,
             Two!NoticesClosed, Two!Drop, Two!Dies, Two!RawSends, Two!RawTakes
    <2>3. CASE Two!ChildStep(c)
      BY <2>3 DEF Two!ChildStep, Two!Fork, Two!ChildDrops, Two!ChildDies, Two!ChildAsks,
         Two!ChildAnswered, Two!ChildFails, Two!ChildWaits, Two!ChildNotices, Two!daemonVars
    <2> QED BY <1>2, <2>1, <2>2, <2>3
  <1>3. ASSUME NEW c \in Connections, Two!HandlerStep(c)
        PROVE  \/ sessions \subseteq sessions'
               \/ (Two!Leave(c) \/ (Two!Close(c) /\ Two!Owns(c))) /\ sessions' = sessions \ {c}
    <2>1. CASE Two!ReadFails(c) \/ Two!Unknown(c) \/ Two!HelloRequired(c) \/ Two!Hello(c) \/ Two!GetData(c)
      BY <2>1 DEF Two!ReadFails, Two!Unknown, Two!HelloRequired, Two!Hello, Two!GetData,
         Two!Kept
    <2>2. CASE Two!Open(c)
      BY <2>2 DEF Two!Open, Two!Kept
    <2>3. CASE Two!StartStop(c) \/ Two!Reply(c) \/ Two!NothingToRead(c)
      BY <2>3 DEF Two!StartStop, Two!Reply, Two!NothingToRead
    <2>4. CASE Two!Close(c)
      BY <2>4 DEF Two!Close, Two!Kept
    <2>5. CASE Two!Leave(c)
      BY <2>5 DEF Two!Leave
    <2> QED BY <1>3, <2>1, <2>2, <2>3, <2>4, <2>5 DEF Two!HandlerStep
  <1>4. CASE UNCHANGED Two!vars
    BY <1>4 DEF Two!vars, Two!daemonVars
  <1> QED BY <1>1, <1>2, <1>3, <1>4 DEF Two!Next

LEMMA CreatorCloses ==
  ASSUME ControlInv, [Two!Next]_(Two!vars), up', NEW c \in Two!Library, ~child[c].used, c \in sessions, c \notin sessions'
  PROVE  \/ client[c].pc \in {"gone", "closed"}
         \/ client[c].pc = "waiting" /\ client[c].asked = "close"
  <1> DEFINE h == handler[c]
             q == toDaemon[c]
             a == toClient[c]
             k == client[c]
  <1>1. c \in Connections
    BY DEF Two!Library
  <1>2. /\ InStep(c, child[c].used, h, q, a, k, shut[c], c \in sessions, c \in running)
        /\ Thread(c, h, q, a, k, c \in sessions, c \in running)
        /\ Polite(c, h, q, a, k, shut[c]) /\ k \in Program
        /\ q \in Seq(Message) /\ a \in Seq(Response)
    BY <1>1, LinkIs
  <1>3. Asking(h, q, a, k) /\ Opening(h, q, a, k) /\ Streaming(h, q, a, k, c \in running)
    BY <1>2, Parts
  <1>4. h.session
    BY <1>2 DEF Thread
  <1>5. k.pc \notin {"new", "connecting", "client", "asking", "raw"}
    BY <1>2, <1>4 DEF Polite, Thread, Two!Library
  <1>6. k.pc \in {"opening", "stream", "waiting", "closed", "gone"}
    BY <1>2, <1>5 DEF Program, Stages
  <1>7. Two!Leave(c) \/ (Two!Close(c) /\ Two!Owns(c))
    BY Endings
  <1>8. CASE Two!Leave(c)
    <2>1. h.pc = "leave"
      BY <1>8 DEF Two!Leave
    <2>2. k.pc \notin Active
      BY <1>2, <1>4, <2>1 DEF Polite
    <2> QED BY <1>6, <2>2 DEF Active
  <1>9. CASE Two!Close(c)
    <2>1. q # << >> /\ Head(q).kind = "close"
      BY <1>9 DEF Two!Close, Two!Receives
    <2>2. Head(q) = q[1] /\ 1 \in 1 .. Len(q)
      BY <1>2, <2>1, Tails
    <2>3. k.pc # "stream"
      BY <1>2, <1>3, <2>1, TrafficIs DEF Streaming
    <2>4. \A kinds : UnderWay(h, q, a, kinds) => "close" \in kinds
      BY <2>1, <2>2 DEF UnderWay
    <2>5. k.pc # "opening"
      BY <1>3, <2>4 DEF Opening
    <2>6. k.pc = "waiting" => k.asked = "close"
      BY <1>3, <2>4 DEF Streaming
    <2> QED BY <1>6, <2>3, <2>5, <2>6
  <1> QED BY <1>7, <1>8, <1>9

(* A step of the harness is a step of the connections, or leaves them alone.   *)
LEMMA ControlPart ==
  /\ Init => Two!Init
  /\ [Next]_vars => [Two!Next]_(Two!vars)
  <1>1. Init => Two!Init
    BY DEF Init
  <1>2. UNCHANGED controlVars => UNCHANGED Two!vars
    BY DEF controlVars, Two!vars, Two!daemonVars, Two!clientVars
  <1> QED BY <1>1, <1>2 DEF Next, PlaybackNext, CaptureNext, RecordsNext, ControlNext,
         FramesNext, PlaybackRuns, CaptureRuns, RecordsRun, FramesRun, vars

(* For any finite number of connections of any users, any of them without the  *)
(* library, with forked children that use what they inherit, and any limits:   *)
(* slots are held by the threads that serve, sessions by the thread of the     *)
(* connection that opened them; a stream on a connection that no child has     *)
(* used takes no answer but that of its request and knows whether the daemon   *)
(* runs it (control.rs, handle_client; client lib.rs, control_request and      *)
(* inherited).                                                                 *)
THEOREM BothEndsAgree == Spec => []EndsAgree
  <1>1. Two!ControlAssumption /\ ControlInv => EndsAgree
    BY ControlAgrees DEF EndsAgree
  <1> QED BY <1>1, ControlInit, ControlStep, ControlPart, StreamsAssumption, PTL DEF Spec

(* A session that the client library opened ends only when its program closes  *)
(* it or is gone, or with the daemon: no child that inherited the stream, no   *)
(* other connection and no timeout ends it (control.rs, SessionGuard; client   *)
(* lib.rs, Drop).                                                              *)
THEOREM CreatorsClose == Spec => OnlyTheCreatorCloses
  <1>1. ControlInv /\ [Two!Next]_(Two!vars) => [Two!EndedByItsProgram]_(Two!vars)
    BY CreatorCloses DEF Two!EndedByItsProgram, Two!Unshared
  <1>2. Spec => [][Two!EndedByItsProgram]_(Two!vars)
    BY <1>1, ControlInit, ControlStep, ControlPart, StreamsAssumption, PTL DEF Spec
  <1> QED BY <1>2 DEF OnlyTheCreatorCloses, Two!OnlyTheCreatorCloses
=============================================================================
