------------------------------ MODULE QueueProofs ------------------------------
(***************************************************************************)
(* The two queues of MCStreams.  That of the ALSA plugin (AlsaPlayback),   *)
(* for every period, buffer, lead, number of pads and bound on frames and  *)
(* cycles; and that of the engine (FrameBudget), for every set of          *)
(* profiles.                                                               *)
(*                                                                         *)
(* The plugin.  The frames that are queued are due one after the other,    *)
(* up to where the plugin last saw the application's pointer; so what is   *)
(* dropped, padded or taken back changes the ends of the queue and never   *)
(* its order.  With the label it will get, the first frame queued has at   *)
(* most the latency of the block sent last, and just that where no label   *)
(* was skipped.  On PRO no frame is due before its label, and what was     *)
(* reported lies behind the cycle the engine plays.  A frame is due at its *)
(* place: a write that timed out leaves what it has copied in the queue    *)
(* (extra), and all that follows is due so much after its ALSA index.      *)
(*                                                                         *)
(* The engine.  What a loop finds queued when it writes and what it writes *)
(* fit into the buffer together; and each loop keeps what is queued and    *)
(* what is captured together constant, so that an early capture is a late  *)
(* underrun.  The arguments are at FramesInv and at Lasts.                 *)
(***************************************************************************)
EXTENDS MCStreams, SequenceTheorems, TLAPS

(* The pieces of a sequence, the join of two, and a block of frames.           *)
LEMMA Cuts ==
  ASSUME NEW t \in Seq(Nat), NEW n \in 0 .. Len(t)
  PROVE  /\ SubSeq(t, n + 1, Len(t)) \in Seq(Nat) /\ SubSeq(t, 1, n) \in Seq(Nat)
         /\ Len(SubSeq(t, n + 1, Len(t))) = Len(t) - n /\ Len(SubSeq(t, 1, n)) = n
         /\ \A i \in 1 .. Len(t) - n : SubSeq(t, n + 1, Len(t))[i] = t[n + i]
         /\ \A i \in 1 .. n : SubSeq(t, 1, n)[i] = t[i]
  OBVIOUS

LEMMA Joins ==
  ASSUME NEW t \in Seq(Nat), NEW u \in Seq(Nat)
  PROVE  /\ t \o u \in Seq(Nat) /\ Len(t \o u) = Len(t) + Len(u)
         /\ \A i \in 1 .. Len(t) : (t \o u)[i] = t[i]
         /\ \A i \in 1 .. Len(u) : (t \o u)[Len(t) + i] = u[i]
  OBVIOUS

(* The frames of n periods.  The invariant is stated with it, so that most     *)
(* proofs need no arithmetic of products.                                      *)
Span(n) == n * P
Periodic(n) == \E k \in Nat : n = Span(k)

(* A FIFO whose frames are due one after the other, the last before end.       *)
Follows(fifo, end) ==
    Len(fifo) <= end /\ \A i \in 1 .. Len(fifo) : fifo[i] = end - Len(fifo) + i - 1

(* The values of the playback PCM, of the plugin and of the engine.            *)
MaybeNat == Nat \cup {None}
PlayStates == {"setup", "prepared", "running", "draining", "xrun"}
PlayPcm == [state : PlayStates, appl : Nat, hw : Nat, nonblock : BOOLEAN]
Cursors == [appl : Nat, hw : Nat]
Transfer == [fifo : Seq(Nat), next : MaybeNat, cycle : MaybeNat, last : MaybeNat,
             origin : MaybeNat, position : Nat, hidden : Nat, extra : Nat, locked : Nat, running : BOOLEAN]
Cycles == [cycle : Nat, play : Nat, start : MaybeNat, rebased : BOOLEAN]
PlayCall == [op : {"none", "start", "begin", "write", "pointer", "drain"},
             pc : {"idle", "copy", "flush", "publish", "report", "pad", "drain", "drained"},
             left : Nat, done : Nat, full : BOOLEAN, progressed : BOOLEAN]
Block == [label : Nat, frames : Seq(Nat), reset : BOOLEAN]

PlayTypes ==
    /\ mode \in Modes /\ pcm \in PlayPcm /\ seen \in Cursors /\ s \in Transfer
    /\ heard \in MaybeNat /\ engine \in Cycles /\ call \in PlayCall
    /\ sent # None => sent \in Block /\ Len(sent.frames) = P

Queued == Len(s.fifo)
NextDue == seen.appl + call.done + s.hidden + s.extra     \* when the next frame queued is due
FirstDue == NextDue - Queued                    \* and the first that is queued
Live == pcm.state \in {"prepared", "running", "draining"}
Starting == call.op \in {"start", "begin"}

Bounded == Queued <= Buffer /\ s.locked <= Queued

(* What a callback may rely on at its place.                                   *)
Called ==
    /\ call.pc = "idle" => call = Playback!Idle
    /\ call.pc # "idle" => Live /\ pcm.appl = seen.appl /\ pcm.hw = seen.hw
    /\ call.pc = "copy" => call.op = "write"
    /\ call.pc = "report" => call.op = "pointer"
    /\ call.pc \in {"pad", "drain", "drained"} => call.op = "drain"
    /\ call.pc \in {"flush", "publish"} => call.op # "none"
    /\ call.op # "write" => call.done = 0
    /\ call.op = "start" => pcm.state = "prepared"
    /\ call.op \in {"begin", "drain"} => pcm.state = "draining"
    /\ call.op = "write" => pcm.state \in {"prepared", "running"}
    /\ call.pc = "publish" => Queued >= P /\ s.cycle # None
    /\ call.pc \notin {"idle", "copy", "report"} => s.running \/ Starting
    /\ ~s.running => call.done = 0
    /\ Starting => ~s.running
    /\ pcm.state = "prepared" => ~s.running
    /\ pcm.hw \in {0, seen.hw}
    /\ pcm.state = "draining" => Playback!SeenNow = seen

(* A stream that was not started has submitted nothing; a cycle it observed    *)
(* is one the engine ran while it was active.                                  *)
Begun ==
    /\ Live /\ ~s.running /\ ~Starting =>
          sent = None /\ s.next = None /\ s.cycle = None /\ s.position = 0
    /\ Live /\ ~s.running => seen.hw = 0
    /\ Live /\ sent # None => s.last = sent.label
    /\ s.cycle # None => engine.start # None /\ s.cycle <= engine.cycle

(* The first frame queued has at most the latency of the block sent last, and  *)
(* just that where no label was skipped since.                                 *)
Labelled ==
    Live /\ sent # None =>
        /\ s.next # None /\ sent.label < s.next
        /\ ~sent.reset =>
              /\ Span(s.next) + sent.frames[1] <= Span(sent.label) + FirstDue
              /\ Playback!Pro \/ s.next = sent.label + 1 =>
                    Span(s.next) + sent.frames[1] = Span(sent.label) + FirstDue

(* PRO: nothing that is queued or was sent is due before its label, counted    *)
(* from the first, and what was reported was taken by the engine.              *)
Pointed ==
    Playback!Pro /\ Live =>
        /\ s.position = 0 /\ engine.play \in {engine.cycle, engine.cycle + 1}
        /\ s.origin # None => s.next # None /\ Span(s.next) <= FirstDue + Span(s.origin)
        /\ sent # None =>
              s.origin # None /\ Span(sent.label) <= sent.frames[1] + Span(s.origin)
        /\ seen.hw > 0 /\ pcm.state # "draining" =>
              /\ s.origin # None /\ s.origin <= engine.play
              /\ seen.hw + s.hidden + Span(s.origin) <= Span(engine.play)

(* A drain pads the last period, and ends behind the last label.               *)
Drained ==
    /\ call.op = "drain" /\ call.pc # "pad" => Periodic(Queued)
    /\ call.pc = "drained" =>
          /\ Queued = 0
          /\ sent # None => s.cycle # None /\ Playback!Consumed(sent.label, s.cycle)

Ordered == Live => Follows(s.fifo, NextDue)

PlayInv ==
    /\ PlayTypes /\ Bounded /\ Called /\ Ordered
    /\ Begun /\ Labelled /\ Pointed /\ Drained

(* The types of the constants.                                                 *)
LEMMA PlayGeometry ==
  /\ P \in Nat /\ P >= 1 /\ Latency \in Nat /\ Latency >= 1
  /\ Buffer \in Nat /\ Buffer >= P /\ None \notin Nat
  <1>1. Playback!PlaybackGeometry /\ Capture!CaptureGeometry /\ Frames!ProfilesAreSettings
    BY StreamsAssumption
  <1>2. P \in Nat /\ P >= 1 /\ Latency \in Nat /\ Latency >= 1 /\ Buffer >= P
    BY <1>1 DEF Playback!PlaybackGeometry
  <1>3. Buffer \in Nat
    BY <1>1 DEF Capture!CaptureGeometry
  <1>4. None \notin Nat
    BY <1>1 DEF Frames!ProfilesAreSettings
  <1> QED BY <1>2, <1>3, <1>4

(* The frames of periods add up, and more periods have more frames.            *)
LEMMA Spans ==
  ASSUME NEW a \in Nat, NEW b \in Nat
  PROVE  /\ Span(a) \in Nat /\ Span(0) = 0 /\ Span(1) = P
         /\ Span(a + 1) = Span(a) + P /\ Span(a + b) = Span(a) + Span(b)
         /\ a <= b => Span(a) <= Span(b) /\ b - a \in Nat /\ Span(b - a) = Span(b) - Span(a)
  BY PlayGeometry, SMT DEF Span

(* The types, field by field.                                                  *)
PlayTyped ==
    /\ mode \in Modes
    /\ pcm.state \in PlayStates /\ pcm.appl \in Nat /\ pcm.hw \in Nat
    /\ pcm.nonblock \in BOOLEAN
    /\ seen.appl \in Nat /\ seen.hw \in Nat /\ seen = [appl |-> seen.appl, hw |-> seen.hw]
    /\ s.fifo \in Seq(Nat) /\ s.next \in MaybeNat /\ s.cycle \in MaybeNat
    /\ s.last \in MaybeNat
    /\ s.origin \in MaybeNat /\ s.position \in Nat /\ s.hidden \in Nat /\ s.extra \in Nat /\ s.locked \in Nat
    /\ s.running \in BOOLEAN /\ heard \in MaybeNat
    /\ engine.cycle \in Nat /\ engine.play \in Nat /\ engine.start \in MaybeNat
    /\ engine.rebased \in BOOLEAN
    /\ call.left \in Nat /\ call.done \in Nat /\ call.full \in BOOLEAN
    /\ call.progressed \in BOOLEAN
    /\ Queued \in Nat /\ (s.fifo = << >> <=> Queued = 0)
    /\ sent # None => sent.label \in Nat /\ sent.frames \in Seq(Nat) /\ sent.frames[1] \in Nat

LEMMA PlayPieces == PlayTypes => PlayTyped
  <1> SUFFICES ASSUME PlayTypes PROVE PlayTyped
    OBVIOUS
  <1>1. s.fifo \in Seq(Nat)
    BY DEF PlayTypes, Transfer
  <1>2. Queued \in Nat /\ (s.fifo = << >> <=> Queued = 0)
    BY <1>1 DEF Queued
  <1>3. sent # None => sent.label \in Nat /\ sent.frames \in Seq(Nat) /\ sent.frames[1] \in Nat
    BY PlayGeometry DEF PlayTypes, Block
  <1>4. seen = [appl |-> seen.appl, hw |-> seen.hw]
    BY DEF PlayTypes, Cursors
  <1>5. s.running \in BOOLEAN /\ engine.rebased \in BOOLEAN /\ pcm.nonblock \in BOOLEAN
        /\ call.full \in BOOLEAN /\ call.progressed \in BOOLEAN
    BY DEF PlayTypes, Transfer, Cycles, PlayPcm, PlayCall
  <1> QED BY <1>1, <1>2, <1>3, <1>4, <1>5 DEF PlayTypes, PlayTyped, PlayPcm, Cursors,
         Transfer, Cycles, PlayCall

(* Frames in order stay so when a run of the next ones is appended, and when   *)
(* the last or the first ones are dropped.                                     *)
LEMMA Runs ==
  ASSUME NEW from \in Nat, NEW n \in Nat
  PROVE  /\ Playback!Run(from, n) \in Seq(Nat) /\ Len(Playback!Run(from, n)) = n
         /\ \A i \in 1 .. n : Playback!Run(from, n)[i] = from + i - 1
  BY DEF Playback!Run

LEMMA Appended ==
  ASSUME NEW t \in Seq(Nat), NEW end \in Nat, NEW n \in Nat, Follows(t, end)
  PROVE  /\ t \o Playback!Run(end, n) \in Seq(Nat) /\ Len(t \o Playback!Run(end, n)) = Len(t) + n
         /\ Follows(t \o Playback!Run(end, n), end + n)
  <1> DEFINE u == Playback!Run(end, n)
  <1>1. u \in Seq(Nat) /\ Len(u) = n /\ \A i \in 1 .. n : u[i] = end + i - 1
    BY Runs
  <1> HIDE DEF u
  <1>2. /\ t \o u \in Seq(Nat) /\ Len(t \o u) = Len(t) + n
        /\ \A i \in 1 .. Len(t) : (t \o u)[i] = t[i]
        /\ \A i \in 1 .. n : (t \o u)[Len(t) + i] = u[i]
    BY <1>1, Joins
  <1>3. ASSUME NEW i \in 1 .. Len(t) + n
        PROVE  (t \o u)[i] = (end + n) - (Len(t) + n) + i - 1
    <2> Len(t) \in Nat /\ i \in Nat /\ i >= 1
      OBVIOUS
    <2>1. CASE i <= Len(t)
      <3>1. i \in 1 .. Len(t)
        BY <2>1
      <3>2. (t \o u)[i] = t[i] /\ t[i] = end - Len(t) + i - 1
        BY <3>1, <1>2 DEF Follows
      <3> QED BY <3>2
    <2>2. CASE i > Len(t)
      <3>1. i - Len(t) \in 1 .. n /\ i = Len(t) + (i - Len(t))
        BY <2>2
      <3> QED BY <3>1, <1>1, <1>2
    <2>3. i <= Len(t) \/ i > Len(t)
      OBVIOUS
    <2> QED BY <2>1, <2>2, <2>3, Zenon
  <1>4. Follows(t \o u, end + n)
    BY <1>2, <1>3, SMTT(30) DEF Follows
  <1> QED BY <1>2, <1>4 DEF u

LEMMA Shortened ==
  ASSUME NEW t \in Seq(Nat), NEW end \in Nat, NEW n \in 0 .. Len(t), Follows(t, end)
  PROVE  /\ Follows(SubSeq(t, 1, Len(t) - n), end - n)
         /\ Follows(SubSeq(t, n + 1, Len(t)), end)
  <1>1. Len(t) \in Nat /\ Len(t) - n \in 0 .. Len(t)
    OBVIOUS
  <1>2. Follows(SubSeq(t, 1, Len(t) - n), end - n)
    <2> DEFINE u == SubSeq(t, 1, Len(t) - n)
    <2>1. Len(u) = Len(t) - n /\ \A i \in 1 .. Len(t) - n : u[i] = t[i]
      BY <1>1, Cuts
    <2>2. \A i \in 1 .. Len(t) : t[i] = end - Len(t) + i - 1
      BY DEF Follows
    <2>3. ASSUME NEW i \in 1 .. Len(t) - n PROVE u[i] = (end - n) - (Len(t) - n) + i - 1
      <3>1. i \in 1 .. Len(t) /\ u[i] = t[i]
        BY <2>1, SMTT(30)
      <3>2. t[i] = end - Len(t) + i - 1
        BY <3>1, <2>2
      <3> QED BY <3>1, <3>2, <1>1
    <2>4. Len(t) <= end
      BY DEF Follows
    <2> HIDE DEF u
    <2>5. Len(u) <= end - n
      BY <1>1, <2>1, <2>4
    <2>6. \A i \in 1 .. Len(u) : u[i] = (end - n) - Len(u) + i - 1
      BY <2>1, <2>3
    <2> QED BY <2>5, <2>6 DEF Follows, u
  <1>3. Follows(SubSeq(t, n + 1, Len(t)), end)
    <2> DEFINE u == SubSeq(t, n + 1, Len(t))
    <2>1. Len(u) = Len(t) - n /\ \A i \in 1 .. Len(t) - n : u[i] = t[n + i]
      BY Cuts
    <2>2. \A i \in 1 .. Len(t) : t[i] = end - Len(t) + i - 1
      BY DEF Follows
    <2>3. ASSUME NEW i \in 1 .. Len(t) - n PROVE u[i] = end - (Len(t) - n) + i - 1
      <3>0. n \in Nat /\ i \in Nat /\ 1 <= i /\ i <= Len(t) - n
        BY <1>1
      <3>1. n + i \in 1 .. Len(t)
        <4> DEFINE l == Len(t)
        <4>1. l \in Nat /\ i <= l - n
          BY <1>1, <3>0
        <4> HIDE DEF l
        <4>2. n + i \in 1 .. l
          BY <3>0, <4>1
        <4> QED BY <4>2 DEF l
      <3>2. t[n + i] = end - Len(t) + (n + i) - 1
        BY <3>1, <2>2
      <3>3. u[i] = t[n + i]
        BY <2>1
      <3> QED BY <3>0, <3>2, <3>3, <1>1
    <2>4. Len(t) <= end
      BY DEF Follows
    <2> HIDE DEF u
    <2>5. Len(u) <= end
      BY <1>1, <2>1, <2>4
    <2>6. \A i \in 1 .. Len(u) : u[i] = end - Len(u) + i - 1
      BY <2>1, <2>3
    <2> QED BY <2>5, <2>6 DEF Follows, u
  <1> QED BY <1>2, <1>3

LEMMA Emptied == ASSUME NEW end \in Nat PROVE Follows(<< >>, end)
  BY DEF Follows

(* A run that has not begun: after prepare, and after a drop.                  *)
Unbegun ==
    /\ call = Playback!Idle /\ sent = None /\ heard = None /\ engine = Playback!FirstCycle
    /\ \E p \in Nat : s = Playback!Stopped(p) /\ (Live => p = 0)
    /\ Live => seen.hw = 0
    /\ mode \in Modes /\ pcm \in PlayPcm /\ seen \in Cursors /\ pcm.hw \in {0, seen.hw}
    /\ pcm.state = "draining" => Playback!SeenNow = seen

LEMMA UnbegunInv == Unbegun => PlayInv
  <1> SUFFICES ASSUME Unbegun PROVE PlayInv
    OBVIOUS
  <1> USE DEF Unbegun
  <1>1. PICK p \in Nat : s = Playback!Stopped(p) /\ (Live => p = 0)
    OBVIOUS
  <1>2. s = [fifo |-> << >>, next |-> None, cycle |-> None, last |-> None, origin |-> None,
             position |-> p, hidden |-> 0, extra |-> 0, locked |-> 0, running |-> FALSE]
    BY <1>1 DEF Playback!Stopped, Playback!NewTransfer
  <1>3. call = [op |-> "none", pc |-> "idle", left |-> 0, done |-> 0, full |-> FALSE,
                progressed |-> FALSE]
    BY DEF Playback!Idle
  <1>4. engine = [cycle |-> 1, play |-> 1, start |-> None, rebased |-> FALSE]
    BY DEF Playback!FirstCycle
  <1>5. PlayTypes
    BY <1>2, <1>3, <1>4 DEF PlayTypes, MaybeNat, Transfer, Cycles, PlayCall
  <1>6. Bounded /\ Called
    BY <1>2, <1>3, PlayGeometry DEF Bounded, Called, Queued, Playback!Idle
  <1>7. Ordered
    <2>1. NextDue \in Nat
      BY <1>2, <1>3 DEF NextDue, Cursors
    <2> QED BY <1>2, <2>1, Emptied DEF Ordered
  <1>8. Begun /\ Labelled /\ Drained
    BY <1>1, <1>2, <1>3 DEF Begun, Labelled, Drained
  <1>9. Pointed
    BY <1>1, <1>2, <1>4 DEF Pointed
  <1> QED BY <1>5, <1>6, <1>7, <1>8, <1>9 DEF PlayInv

LEMMA Unmoved == Playback!Stopped(0) = Playback!NewTransfer
  <1>1. Playback!NewTransfer =
          [fifo |-> << >>, next |-> None, cycle |-> None, last |-> None, origin |-> None,
           position |-> 0, hidden |-> 0, extra |-> 0, locked |-> 0, running |-> FALSE]
    BY DEF Playback!NewTransfer
  <1>2. ASSUME NEW t, t = Playback!Stopped(0), NEW p \in Nat, p = 0
        PROVE  t = [fifo |-> << >>, next |-> None, cycle |-> None, last |-> None, origin |-> None,
                    position |-> p, hidden |-> 0, extra |-> 0, locked |-> 0, running |-> FALSE]
    BY <1>2 DEF Playback!NewTransfer, Playback!Stopped
  <1> QED BY <1>1, <1>2

LEMMA PlayInit == Playback!Init => PlayInv
  <1> SUFFICES ASSUME Playback!Init PROVE Unbegun
    BY UnbegunInv
  <1>1. s = Playback!Stopped(0)
    BY Unmoved DEF Playback!Init
  <1> QED BY <1>1 DEF Playback!Init, Unbegun, Live, PlayPcm, Cursors, PlayStates

(* The pointer is a number.                                                    *)
LEMMA PositionIsNat == PlayTypes => Playback!RunningPosition \in Nat /\ Playback!Position \in Nat
  <1> SUFFICES ASSUME PlayTypes PROVE Playback!RunningPosition \in Nat /\ Playback!Position \in Nat
    OBVIOUS
  <1>1. PlayTyped
    BY PlayPieces
  <1>2. ASSUME NEW a \in Nat, NEW b \in Nat, a >= b PROVE (a - b) * P \in Nat
    <2>1. a - b \in Nat
      BY <1>2
    <2> QED BY <2>1, PlayGeometry, SMT
  <1>3. Playback!RunningPosition \in Nat
    BY <1>1, <1>2 DEF PlayTyped, MaybeNat, Playback!RunningPosition
  <1> QED BY <1>1, <1>3, SMTT(30) DEF PlayTyped, Playback!Position, Playback!Minus

LEMMA PlayPrepareInv == ASSUME PlayInv, Playback!Prepare PROVE PlayInv'
  <1> SUFFICES Unbegun'
    BY UnbegunInv, PTL
  <1>1. s' = Playback!Stopped(0)
    BY Unmoved DEF Playback!Prepare
  <1>2. PICK b \in BOOLEAN :
          pcm' = [state |-> "prepared", appl |-> 0, hw |-> 0, nonblock |-> b]
    BY DEF Playback!Prepare
  <1>3. seen' = [appl |-> 0, hw |-> 0] /\ call' = call /\ mode' = mode /\ sent' = None
        /\ heard' = None /\ engine' = Playback!FirstCycle /\ call = Playback!Idle
    BY DEF Playback!Prepare, Playback!Forget, Playback!Quiet, PlayInv, Called
  <1>4. pcm' \in PlayPcm
    BY <1>2 DEF PlayPcm, PlayStates
  <1> QED BY <1>1, <1>2, <1>3, <1>4 DEF Unbegun, Live, Cursors, PlayInv, PlayTypes

LEMMA PlayDropInv == ASSUME PlayInv, Playback!Drop PROVE PlayInv'
  <1> SUFFICES Unbegun'
    BY UnbegunInv, PTL
  <1>1. PlayTyped /\ Playback!Position \in Nat
    BY PlayPieces, PositionIsNat DEF PlayInv
  <1>2. s' = Playback!Stopped(Playback!Position) /\ pcm' = [pcm EXCEPT !.state = "setup"]
        /\ call' = Playback!Idle /\ seen' = seen /\ mode' = mode /\ sent' = None
        /\ heard' = None /\ engine' = Playback!FirstCycle
    BY DEF Playback!Drop, Playback!Forget
  <1>3. pcm' \in PlayPcm /\ pcm'.state = "setup" /\ pcm'.hw = pcm.hw
    BY <1>2 DEF PlayInv, PlayTypes, PlayPcm, PlayStates
  <1> QED BY <1>1, <1>2, <1>3 DEF Unbegun, Live, PlayInv, PlayTypes, Called

(* libasound moves its own cursors: nothing the plugin keeps changes.          *)
LEMMA CursorsInv ==
  ASSUME PlayInv, Playback!Quiet, Playback!Keep, pcm.state # "draining",
         NEW a \in Nat, NEW h \in {0, pcm.hw}, pcm' = [pcm EXCEPT !.appl = a, !.hw = h]
  PROVE  PlayInv'
  <1>1. PlayTyped
    BY PlayPieces DEF PlayInv
  <1>2. UNCHANGED <<mode, seen, s, heard, engine, call, sent>> /\ call.pc = "idle"
    BY DEF Playback!Keep, Playback!Quiet
  <1>3. pcm' \in PlayPcm /\ pcm'.state = pcm.state /\ pcm'.hw \in {0, seen.hw}
    <2>1. pcm \in PlayPcm /\ h \in Nat /\ pcm.hw \in {0, seen.hw} /\ h \in {0, seen.hw}
      BY <1>1, SMTT(30) DEF PlayInv, PlayTypes, PlayTyped, Called
    <2> QED BY <2>1 DEF PlayPcm
  <1>4. PlayTypes' /\ Bounded'
    BY <1>2, <1>3 DEF PlayInv, PlayTypes, Bounded, Queued
  <1>5. Called'
    BY <1>2, <1>3 DEF PlayInv, Called, Live, Starting, Queued, Playback!Idle
  <1>6. Ordered' /\ Begun' /\ Drained'
    BY <1>2, <1>3 DEF PlayInv, Ordered, Begun, Drained, Live, Starting, Queued, NextDue,
       Playback!Consumed, Playback!Pro
  <1>7. Labelled'
    BY <1>2, <1>3 DEF PlayInv, Labelled, Live, Queued, FirstDue, NextDue, Playback!Pro
  <1>8. Pointed'
    BY <1>2, <1>3 DEF PlayInv, Pointed, Live, Queued, FirstDue, NextDue, Playback!Pro
  <1> QED BY <1>4, <1>5, <1>6, <1>7, <1>8 DEF PlayInv

LEMMA MovesInv ==
  ASSUME PlayInv, NEW n \in 1 .. Buffer,
         Playback!Rewind(n) \/ Playback!Forward(n) \/ Playback!Reset
  PROVE  PlayInv'
  <1>1. PlayTyped /\ pcm \in PlayPcm /\ n \in Nat
    BY PlayPieces, PlayGeometry DEF PlayInv, PlayTypes
  <1>t. pcm.appl \in Nat /\ pcm.hw \in Nat
    BY <1>1 DEF PlayTyped
  <1>2. Playback!Quiet /\ Playback!Keep /\ pcm.state # "draining"
    BY DEF Playback!Rewind, Playback!Forward, Playback!Reset
  <1>3. CASE Playback!Rewind(n)
    <2>1. pcm.appl - n \in Nat
      BY <1>1, <1>t, <1>3 DEF Playback!Rewind
    <2>2. pcm' = [pcm EXCEPT !.appl = pcm.appl - n, !.hw = pcm.hw]
      BY <1>1, <1>3 DEF Playback!Rewind, PlayPcm
    <2> QED BY <2>1, <2>2, <1>2, CursorsInv
  <1>4. CASE Playback!Forward(n)
    <2>1. pcm.appl + n \in Nat
      BY <1>1, <1>t
    <2>2. pcm' = [pcm EXCEPT !.appl = pcm.appl + n, !.hw = pcm.hw]
      BY <1>1, <1>4 DEF Playback!Forward, PlayPcm
    <2> QED BY <2>1, <2>2, <1>2, CursorsInv
  <1>5. CASE Playback!Reset
    BY <1>2, <1>5, CursorsInv DEF Playback!Reset
  <1> QED BY <1>3, <1>4, <1>5

(* The engine goes on.                                                         *)
LEMMA EngineInv ==
  ASSUME PlayInv, Playback!Tick \/ Playback!Take \/ Playback!Activate \/ Playback!Rebase
  PROVE  PlayInv'
  <1>1. PlayTyped
    BY PlayPieces DEF PlayInv
  <1>2. engine \in Cycles /\ heard \in MaybeNat
    BY DEF PlayInv, PlayTypes
  <1>3. UNCHANGED <<mode, pcm, seen, s, call, sent>>
    BY DEF Playback!Tick, Playback!Take, Playback!Activate, Playback!Rebase
  <1>4. /\ engine' \in Cycles /\ heard' \in MaybeNat
        /\ engine'.cycle >= engine.cycle /\ engine'.play >= engine.play
        /\ engine.start # None => engine'.start # None
        /\ Playback!Pro /\ engine.play \in {engine.cycle, engine.cycle + 1} =>
              engine'.play \in {engine'.cycle, engine'.cycle + 1}
    <2>1. CASE Playback!Tick
      <3>1. engine' = [engine EXCEPT !.cycle = engine.cycle + 1] /\ heard' = heard
            /\ (Playback!Pro => engine.play = engine.cycle + 1)
        BY <2>1 DEF Playback!Tick
      <3> QED BY <3>1, <1>2 DEF Cycles
    <2>2. CASE Playback!Take
      <3>1. engine' = [engine EXCEPT !.play = engine.play + 1] /\ heard' = heard
            /\ engine.play = engine.cycle
        BY <2>2 DEF Playback!Take
      <3> QED BY <3>1, <1>2 DEF Cycles
    <2>3. CASE Playback!Activate
      <3>1. engine' = [engine EXCEPT !.start = engine.cycle] /\ heard' = heard
            /\ engine.start = None
        BY <2>3 DEF Playback!Activate
      <3> QED BY <3>1, <1>2 DEF Cycles, MaybeNat
    <2>4. CASE Playback!Rebase
      <3>1. engine' = [engine EXCEPT !.rebased = TRUE] /\ heard' \in {heard, None}
        BY <2>4 DEF Playback!Rebase
      <3>2. engine' \in Cycles /\ heard' \in MaybeNat
        BY <3>1, <1>2 DEF Cycles, MaybeNat
      <3>3. /\ engine'.cycle = engine.cycle /\ engine'.play = engine.play
            /\ engine'.start = engine.start /\ engine.cycle \in Nat /\ engine.play \in Nat
        BY <3>1, <1>2 DEF Cycles
      <3> QED BY <3>2, <3>3
    <2> QED BY <2>1, <2>2, <2>3, <2>4
  <1>5. engine' \in Cycles /\ heard' \in MaybeNat
    BY <1>4
  <1>6. PlayTypes' /\ Bounded' /\ Called' /\ Ordered' /\ Labelled' /\ Drained'
    BY <1>3, <1>5 DEF PlayInv, PlayTypes, Bounded, Called, Ordered, Labelled, Drained,
       Queued, Live, Starting, NextDue, FirstDue, Playback!Idle, Playback!SeenNow,
       Playback!Consumed, Playback!Pro
  <1>7. Begun'
    <2>1. s.cycle # None => s.cycle \in Nat
      BY <1>1 DEF PlayTyped, MaybeNat
    <2>2. engine.cycle \in Nat /\ engine'.cycle \in Nat
      BY <1>2, <1>5 DEF Cycles
    <2> QED BY <1>3, <1>4, <2>1, <2>2 DEF PlayInv, Begun, Live, Starting
  <1>8. Pointed'
    <2>1. s.origin # None => s.origin \in Nat
      BY <1>1 DEF PlayTyped, MaybeNat
    <2>2. engine.play \in Nat /\ engine'.play \in Nat
      BY <1>2, <1>5 DEF Cycles
    <2>3. Span(engine.play) <= Span(engine'.play) /\ Span(engine.play) \in Nat
          /\ Span(engine'.play) \in Nat
      BY <2>2, <1>4, Spans
    <2>4. s.origin # None => Span(s.origin) \in Nat
      BY <2>1, Spans
    <2>5. Pointed /\ seen.hw \in Nat /\ s.hidden \in Nat /\ s.extra \in Nat
      BY <1>1 DEF PlayInv, PlayTyped
    <2>6. Playback!Pro' = Playback!Pro /\ Live' = Live /\ FirstDue' = FirstDue
      BY <1>3 DEF Live, FirstDue, NextDue, Queued, Playback!Pro
    <2> QED BY <1>3, <1>4, <2>1, <2>2, <2>3, <2>4, <2>5, <2>6 DEF Pointed
  <1> QED BY <1>6, <1>7, <1>8 DEF PlayInv

(* A stream that fails keeps no promise but its types.                         *)
LEMMA DeadInv ==
  ASSUME PlayInv, pcm' = [pcm EXCEPT !.state = "xrun"],
         call' = Playback!Idle, mode' = mode, s' \in Transfer, Bounded', engine' \in Cycles,
         heard' \in MaybeNat, sent' \in {sent, None}, seen' \in Cursors, pcm.hw \in {0, seen'.hw},
         s'.cycle # None => s'.cycle = s.cycle /\ engine' = engine
  PROVE  PlayInv'
  <1>1. pcm' \in PlayPcm /\ pcm'.state = "xrun" /\ pcm'.hw = pcm.hw
    BY DEF PlayInv, PlayTypes, PlayPcm, PlayStates
  <1>2. call' = [op |-> "none", pc |-> "idle", left |-> 0, done |-> 0, full |-> FALSE,
                 progressed |-> FALSE]
    BY DEF Playback!Idle
  <1>3. ~Live'
    BY <1>1 DEF Live
  <1>4. PlayTypes'
    BY <1>1, <1>2 DEF PlayInv, PlayTypes, PlayCall
  <1>5. Called'
    BY <1>1, <1>2 DEF Called, Starting, Playback!Idle
  <1>6. Ordered' /\ Labelled' /\ Pointed' /\ Drained'
    BY <1>2, <1>3 DEF Ordered, Labelled, Pointed, Drained
  <1>7. Begun'
    BY <1>3 DEF PlayInv, Begun
  <1> QED BY <1>4, <1>5, <1>6, <1>7 DEF PlayInv

LEMMA NewTransferTypes ==
  /\ Playback!NewTransfer \in Transfer /\ Len(Playback!NewTransfer.fifo) = 0
  /\ Playback!NewTransfer.locked = 0 /\ Playback!NewTransfer.cycle = None
  /\ Playback!FirstCycle \in Cycles
  BY DEF Playback!NewTransfer, Playback!FirstCycle, Transfer, Cycles, MaybeNat

(* A callback that fails while it flushes.                                     *)
LEMMA PlayFailsInv ==
  ASSUME PlayInv, NEW t \in Transfer, Playback!Fails(t), t.cycle \in {None, s.cycle},
         Len(t.fifo) <= Buffer, t.locked <= Len(t.fifo)
  PROVE  PlayInv'
  <1>1. /\ pcm' = [pcm EXCEPT !.state = "xrun"] /\ call' = Playback!Idle
        /\ mode' = mode /\ seen' = seen
    BY DEF Playback!Fails
  <1>2. \/ s' = Playback!NewTransfer /\ heard' = None /\ sent' = None
           /\ engine' = Playback!FirstCycle
        \/ s' = t /\ heard' = heard /\ engine' = engine /\ sent' = sent
    BY DEF Playback!Fails, Playback!Forget
  <1>3. s' \in Transfer /\ engine' \in Cycles /\ heard' \in MaybeNat
        /\ sent' \in {sent, None}
    BY <1>2, NewTransferTypes DEF PlayInv, PlayTypes, MaybeNat
  <1>4. Bounded'
    BY <1>2, NewTransferTypes, PlayGeometry DEF Bounded, Queued
  <1>5. s'.cycle # None => s'.cycle = s.cycle /\ engine' = engine
    BY <1>2, NewTransferTypes
  <1>6. seen' \in Cursors /\ pcm.hw \in {0, seen'.hw}
    BY <1>1 DEF PlayInv, PlayTypes, Called
  <1> QED BY <1>1, <1>3, <1>4, <1>5, <1>6, DeadInv

LEMMA DiscontinuityInv == ASSUME PlayInv, Playback!Discontinuity PROVE PlayInv'
  <1>1. Playback!Fails(s) /\ s \in Transfer /\ Len(s.fifo) <= Buffer
        /\ s.locked <= Len(s.fifo)
    BY DEF Playback!Discontinuity, PlayInv, PlayTypes, Bounded, Queued
  <1> QED BY <1>1, PlayFailsInv

LEMMA PlayTimesOutInv == ASSUME PlayInv, Playback!TimesOut PROVE PlayInv'
  <1>1. /\ PlayTyped /\ Called /\ Drained /\ Begun /\ Live /\ call.pc \in {"flush", "drain"}
        /\ s \in Transfer /\ pcm.appl = seen.appl
    BY PlayPieces DEF PlayInv, PlayTypes, Called, Playback!TimesOut, Playback!Waits, Playback!Flushing
  <1>2. call' = Playback!Idle /\ UNCHANGED <<mode, pcm, seen>>
    BY DEF Playback!TimesOut
  <1>3. CASE Starting
    <2>1. s' = Playback!Stopped(0) /\ heard' = None /\ sent' = None
          /\ engine' = Playback!FirstCycle
      BY <1>3, Unmoved DEF Starting, Playback!TimesOut, Playback!Forget
    <2>2. seen.hw = 0 /\ pcm.hw \in {0, seen.hw}
          /\ (pcm.state = "draining" => Playback!SeenNow = seen)
      BY <1>1, <1>3 DEF Called, Begun
    <2>3. Live' = Live /\ Playback!SeenNow' = Playback!SeenNow
      BY <1>2 DEF Live, Playback!SeenNow
    <2>4. Unbegun'
      BY <1>2, <2>1, <2>2, <2>3 DEF Unbegun, PlayInv, PlayTypes
    <2> QED BY <2>4, UnbegunInv, PTL
  <1>4. CASE ~Starting
    <2>1. s' = [s EXCEPT !.extra = s.extra + call.done] /\ UNCHANGED <<heard, engine, sent>>
      BY <1>1, <1>4 DEF Starting, Playback!TimesOut, Transfer
    <2>2. s.extra \in Nat /\ call.done \in Nat /\ seen.appl \in Nat /\ s.hidden \in Nat
      BY <1>1 DEF PlayTyped
    <2>3. s' \in Transfer /\ s'.extra = s.extra + call.done
          /\ UNCHANGED <<s.fifo, s.next, s.cycle, s.last, s.origin, s.position, s.hidden,
                         s.locked, s.running>>
      <3>1. s.extra + call.done \in Nat
        BY <2>2
      <3> QED BY <1>1, <2>1, <3>1 DEF Transfer
    <2>4. call' \in PlayCall /\ call'.done = 0 /\ call'.pc = "idle" /\ call'.op = "none"
      BY <1>2 DEF PlayCall, Playback!Idle
    <2>5. PlayTypes' /\ Bounded'
      BY <1>2, <2>1, <2>3, <2>4 DEF PlayInv, PlayTypes, Bounded, Queued
    <2>6. Called'
      BY <1>1, <1>2, <2>3, <2>4 DEF Called, Starting, Playback!SeenNow
    <2>7. NextDue' = NextDue /\ Queued' = Queued /\ Live' /\ Playback!Pro' = Playback!Pro
      BY <1>1, <1>2, <2>2, <2>3, <2>4, SMTT(30) DEF NextDue, Queued, Live, Playback!Pro
    <2>8. FirstDue' = FirstDue
      BY <2>7 DEF FirstDue
    <2>9. Ordered' /\ Drained'
      BY <1>1, <2>3, <2>4, <2>7 DEF PlayInv, Ordered, Drained
    <2>10. Begun'
      BY <1>1, <1>2, <1>4, <2>1, <2>3, <2>7 DEF Begun
    <2>11. Labelled'
      BY <1>1, <2>1, <2>3, <2>7, <2>8 DEF PlayInv, Labelled
    <2>12. Pointed'
      BY <1>1, <1>2, <2>1, <2>3, <2>7, <2>8 DEF PlayInv, Pointed
    <2> QED BY <2>5, <2>6, <2>9, <2>10, <2>11, <2>12 DEF PlayInv
  <1> QED BY <1>3, <1>4

(* A move that cannot be applied.                                              *)
LEMMA SyncXrunInv ==
  ASSUME PlayInv, Playback!Quiet, Playback!SyncXrun
  PROVE  PlayInv'
  <1>1. /\ pcm' = [pcm EXCEPT !.state = "xrun"] /\ call' = Playback!Idle
        /\ mode' = mode /\ seen' = [appl |-> pcm.appl, hw |-> pcm.hw]
        /\ UNCHANGED <<heard, engine, sent>>
    BY DEF Playback!SyncXrun, Playback!SeenNow, Playback!Quiet, PlayInv, Called
  <1>2. s' \in {s, Playback!Cleared(s)}
    BY DEF Playback!SyncXrun
  <1>3. s \in Transfer /\ Bounded /\ PlayTyped
    BY PlayPieces DEF PlayInv, PlayTypes
  <1>4. s' \in Transfer
    <2>1. << >> \in Seq(Nat) /\ None \in MaybeNat /\ 0 \in Nat
      BY DEF MaybeNat
    <2>2. Playback!Cleared(s) \in Transfer
      BY <1>3, <2>1 DEF Playback!Cleared, Transfer
    <2> QED BY <1>2, <1>3, <2>2
  <1>5. Bounded' /\ s'.cycle \in {None, s.cycle}
    <2>1. Playback!Cleared(s).fifo = << >> /\ Playback!Cleared(s).locked = 0
          /\ Playback!Cleared(s).cycle = None
      BY <1>3 DEF Playback!Cleared, Transfer
    <2> QED BY <2>1, <1>2, <1>3, PlayGeometry DEF Bounded, Queued
  <1>6. s'.cycle \in {None, s.cycle}
    BY <1>5
  <1>7. seen' \in Cursors /\ pcm.hw = seen'.hw
    BY <1>1, <1>3 DEF PlayTyped, Cursors
  <1>8. heard' \in MaybeNat /\ engine' \in Cycles
    BY <1>1 DEF PlayInv, PlayTypes
  <1> QED BY <1>1, <1>4, <1>5, <1>6, <1>7, <1>8, DeadInv

(* The label of the next period is its own, unless it is late.                 *)
LEMMA PlanIs ==
  ASSUME PlayInv, s.cycle # None, NEW plan, plan = Playback!Plan(s.cycle)
  PROVE  /\ plan.sequence \in Nat /\ plan.expired \in Nat
         /\ s.next # None /\ plan.expired = 0 => plan.sequence = s.next
         /\ s.next # None /\ plan.expired > 0 => plan.sequence = s.next + plan.expired
  <1>1. PlayTyped /\ s.cycle \in Nat
    BY PlayPieces DEF PlayInv, PlayTyped, MaybeNat
  <1>2. Playback!Size \div P \in Nat
    <2>1. Playback!Size \in Nat
      BY <1>1 DEF PlayTyped, Queued, Playback!Size
    <2>2. \A n \in Nat : n \div P \in Nat
      BY PlayGeometry, SMT
    <2> QED BY <2>1, <2>2
  <1>3. Playback!Earliest(s.cycle) \in Nat /\ Playback!Newest(s.cycle) \in Nat
    BY <1>1, PlayGeometry DEF Playback!Earliest, Playback!Newest, Playback!Minus
  <1> DEFINE aligned == Playback!Minus(Playback!Newest(s.cycle) + 1, Playback!Size \div P)
             first == IF s.next # None THEN s.next
                      ELSE IF aligned < Playback!Earliest(s.cycle)
                           THEN Playback!Earliest(s.cycle) ELSE aligned
             floor == IF Playback!Pro /\ engine.play > Playback!Earliest(s.cycle) THEN engine.play
                      ELSE Playback!Earliest(s.cycle)
  <1>4. aligned \in Nat
    BY <1>2, <1>3 DEF Playback!Minus
  <1>5. first \in Nat /\ (s.next # None => first = s.next)
    BY <1>1, <1>3, <1>4 DEF PlayTyped, MaybeNat
  <1>6. floor \in Nat
    BY <1>1, <1>3 DEF PlayTyped
  <1>7. plan = IF first < floor THEN [sequence |-> floor, expired |-> floor - first]
               ELSE [sequence |-> first, expired |-> 0]
    BY DEF Playback!Plan
  <1> HIDE DEF first, floor
  <1> QED BY <1>5, <1>6, <1>7

(* Periods that leave the front of the FIFO.                                   *)
LEMMA Discards ==
  ASSUME PlayInv, NEW e \in Nat, NEW t, t = Playback!Discard(s, e),
         NEW d, d = IF Span(e) < Queued THEN Span(e) ELSE Queued
  PROVE  /\ t \in Transfer /\ d \in 0 .. Queued /\ Span(e) \in Nat
         /\ Len(t.fifo) = Queued - d /\ t.locked <= Len(t.fifo)
         /\ Live => Follows(t.fifo, NextDue)
         /\ t.next = s.next /\ t.cycle = s.cycle /\ t.last = s.last /\ t.origin = s.origin
         /\ t.position = s.position /\ t.hidden = s.hidden /\ t.extra = s.extra /\ t.running = s.running
  <1>1. PlayTyped /\ s \in Transfer /\ Bounded /\ Queued = Len(s.fifo)
    BY PlayPieces DEF PlayInv, PlayTypes, Queued
  <1>2. Span(e) \in Nat /\ d \in 0 .. Queued /\ d = Playback!Least(e * P, Len(s.fifo))
    <2>1. Span(e) \in Nat /\ Span(e) = e * P
      BY Spans DEF Span
    <2>2. Queued \in Nat
      BY <1>1 DEF PlayTyped
    <2>3. d \in 0 .. Queued
      BY <2>1, <2>2
    <2>4. d = Playback!Least(e * P, Len(s.fifo))
      BY <1>1, <2>1 DEF Playback!Least
    <2> QED BY <2>1, <2>3, <2>4
  <1>3. t = [s EXCEPT !.fifo = SubSeq(s.fifo, d + 1, Len(s.fifo)),
                      !.locked = Playback!Minus(s.locked, Span(e))]
    BY <1>1, <1>2 DEF Playback!Discard, Span, Transfer
  <1>4. SubSeq(s.fifo, d + 1, Len(s.fifo)) \in Seq(Nat)
        /\ Len(SubSeq(s.fifo, d + 1, Len(s.fifo))) = Len(s.fifo) - d
    BY <1>1, <1>2, Cuts DEF PlayTyped
  <1>5. Playback!Minus(s.locked, Span(e)) \in Nat
        /\ Playback!Minus(s.locked, Span(e)) <= Queued - d
    <2>1. s.locked \in Nat /\ Queued \in Nat /\ s.locked <= Queued
      BY <1>1 DEF PlayTyped, Bounded
    <2> QED BY <1>2, <2>1 DEF Playback!Minus
  <1>6. t \in Transfer
    BY <1>1, <1>3, <1>4, <1>5 DEF Transfer
  <1>7. t.fifo = SubSeq(s.fifo, d + 1, Len(s.fifo))
        /\ t.locked = Playback!Minus(s.locked, Span(e))
    BY <1>1, <1>3 DEF Transfer
  <1>8. Live => Follows(t.fifo, NextDue)
    <2>1. NextDue \in Nat
      BY <1>1, SMTT(30) DEF PlayTyped, NextDue
    <2> QED BY <1>1, <1>2, <1>7, <2>1, Shortened DEF PlayTyped, PlayInv, Ordered
  <1>9. t.next = s.next /\ t.cycle = s.cycle /\ t.last = s.last /\ t.origin = s.origin
        /\ t.position = s.position /\ t.hidden = s.hidden /\ t.extra = s.extra /\ t.running = s.running
    BY <1>1, <1>3 DEF Transfer
  <1> QED BY <1>1, <1>2, <1>4, <1>5, <1>6, <1>7, <1>8, <1>9

(* A callback goes on without touching the FIFO or the cursors.                *)
LEMMA StageInv ==
  ASSUME PlayInv, UNCHANGED <<mode, pcm, seen, engine, sent>>, heard' \in MaybeNat,
         call' \in PlayCall, call'.done = call.done, Called', Drained', s' \in Transfer,
         s.running \/ call'.op \in {"start", "begin"},
         UNCHANGED <<s.fifo, s.hidden, s.extra, s.locked, s.last, s.origin, s.position, s.running>>,
         s.next # None => s'.next = s.next,
         s'.cycle # None => engine.start # None /\ s'.cycle <= engine.cycle
  PROVE  PlayInv'
  <1>1. PlayTypes'
    BY DEF PlayInv, PlayTypes
  <1>2. Bounded' /\ Live' = Live /\ NextDue' = NextDue /\ Queued' = Queued
        /\ FirstDue' = FirstDue /\ Playback!Pro' = Playback!Pro
    BY DEF PlayInv, Bounded, Queued, Live, NextDue, FirstDue, Playback!Pro
  <1>3. Ordered'
    BY <1>2 DEF PlayInv, Ordered
  <1>4. Begun'
    BY <1>2 DEF PlayInv, Begun, Starting
  <1>5. Labelled'
    BY <1>2 DEF PlayInv, Labelled
  <1>6. Pointed'
    BY <1>2 DEF PlayInv, Pointed
  <1> QED BY <1>1, <1>2, <1>3, <1>4, <1>5, <1>6 DEF PlayInv

LEMMA ObserveInv == ASSUME PlayInv, Playback!Observe PROVE PlayInv'
  <1>1. PlayTyped /\ s \in Transfer /\ call \in PlayCall /\ Called /\ Drained /\ Begun
    BY PlayPieces DEF PlayInv, PlayTypes
  <1>2. /\ call.pc = "flush" /\ Queued >= P /\ call' = [call EXCEPT !.pc = "publish"]
        /\ UNCHANGED <<mode, pcm, seen, engine, sent>>
    BY DEF Playback!Observe, Playback!Flushing, Playback!Size, Queued
  <1>3. \/ s' = s /\ heard' = heard /\ s.cycle = engine.cycle
        \/ s' = [s EXCEPT !.cycle = engine.cycle] /\ heard' = engine.cycle /\ engine.start # None
    BY DEF Playback!Observe, Playback!Reuses, Playback!CycleReady
  <1>4. engine.cycle \in MaybeNat /\ engine.cycle # None /\ engine.cycle <= engine.cycle
    <2>1. engine.cycle \in Nat
      BY <1>1 DEF PlayTyped
    <2> QED BY <2>1, PlayGeometry DEF MaybeNat
  <1>5. s' \in Transfer /\ heard' \in MaybeNat /\ s'.cycle = engine.cycle
        /\ engine.start # None
        /\ UNCHANGED <<s.fifo, s.next, s.hidden, s.extra, s.locked, s.last, s.origin, s.position, s.running>>
    BY <1>1, <1>3, <1>4 DEF Transfer, PlayTyped, Begun
  <1>6. call' \in PlayCall /\ call'.pc = "publish" /\ call'.op = call.op
        /\ call'.done = call.done
    BY <1>1, <1>2 DEF PlayCall
  <1>7. Called'
    BY <1>1, <1>2, <1>4, <1>5, <1>6 DEF Called, Live, Starting, Queued, Playback!SeenNow
  <1>8. Drained'
    BY <1>1, <1>2, <1>5, <1>6 DEF Drained, Queued
  <1>9. s.running \/ call'.op \in {"start", "begin"}
    BY <1>1, <1>2, <1>6 DEF Called, Starting
  <1> QED BY <1>2, <1>4, <1>5, <1>6, <1>7, <1>8, <1>9, StageInv

LEMMA TooEarlyInv == ASSUME PlayInv, Playback!TooEarly PROVE PlayInv'
  <1>1. PlayTyped /\ s \in Transfer /\ call \in PlayCall /\ Called /\ Drained /\ Labelled
        /\ heard \in MaybeNat
    BY PlayPieces DEF PlayInv, PlayTypes
  <1> DEFINE plan == Playback!Plan(s.cycle)
  <1>2. /\ call.pc = "publish" /\ plan.expired = 0 /\ call' = [call EXCEPT !.pc = "flush"]
        /\ s' = [s EXCEPT !.next = plan.sequence, !.cycle = None]
        /\ UNCHANGED <<mode, pcm, seen, heard, engine, sent>>
    BY DEF Playback!TooEarly
  <1>3. Live /\ s.cycle # None
    BY <1>1, <1>2 DEF Called
  <1>4. plan.sequence \in MaybeNat /\ (s.next # None => plan.sequence = s.next)
    BY <1>2, <1>3, PlanIs DEF MaybeNat
  <1> HIDE DEF plan
  <1>5. s' \in Transfer /\ s'.cycle = None /\ s'.next = plan.sequence
        /\ UNCHANGED <<s.fifo, s.hidden, s.extra, s.locked, s.last, s.origin, s.position, s.running>>
    BY <1>1, <1>2, <1>4 DEF Transfer, MaybeNat
  <1>6. s.next # None => s'.next = s.next
    BY <1>4, <1>5
  <1>7. call' \in PlayCall /\ call'.pc = "flush" /\ call'.op = call.op
        /\ call'.done = call.done
    BY <1>1, <1>2 DEF PlayCall
  <1>8. Called'
    BY <1>1, <1>2, <1>5, <1>7 DEF Called, Live, Starting, Queued, Playback!SeenNow
  <1>9. Drained'
    BY <1>1, <1>2, <1>5, <1>7 DEF Drained, Queued
  <1>10. s.running \/ call'.op \in {"start", "begin"}
    BY <1>1, <1>2, <1>7 DEF Called, Starting
  <1> QED BY <1>1, <1>2, <1>5, <1>6, <1>7, <1>8, <1>9, <1>10, StageInv

(* The cursors and the call after a flush.                                     *)
LEMMA Returns ==
  ASSUME PlayInv, call.pc \in {"flush", "publish"}, Playback!FlushReturns
  PROVE  /\ pcm' \in PlayPcm /\ seen' \in Cursors /\ call' \in PlayCall
         /\ seen'.hw = seen.hw /\ pcm'.hw = pcm.hw
         /\ seen'.appl + call'.done = seen.appl + call.done
         /\ Live' /\ (pcm'.state = "draining" <=> pcm.state = "draining")
         /\ pcm'.state # "prepared"
         /\ \/ call' = Playback!Idle /\ pcm'.appl = seen'.appl /\ pcm.state # "draining"
            \/ /\ pcm' = pcm /\ seen' = seen /\ call'.done = call.done
               /\ \/ call.op = "write" /\ call'.op = "write" /\ call'.pc = "copy"
                  \/ call.op = "pointer" /\ call'.op = "pointer" /\ call'.pc = "report"
                  \/ call.op = "drain" /\ call'.op = "drain" /\ call'.pc = "drain"
                  \/ call.op = "begin" /\ call'.op = "drain" /\ call'.pc = "pad"
  <1>1. PlayTyped /\ pcm \in PlayPcm /\ call \in PlayCall /\ seen \in Cursors /\ Called
    BY PlayPieces DEF PlayInv, PlayTypes
  <1>2. Live /\ pcm.appl = seen.appl /\ pcm.hw = seen.hw /\ call.op # "none"
        /\ (call.op # "start" => pcm.state # "prepared")
    BY <1>1 DEF Called, Starting
  <1>3. CASE /\ call.op \in {"write", "start"} /\ call' = Playback!Idle
             /\ pcm' = [pcm EXCEPT !.appl = pcm.appl + call.done,
                                   !.state = IF call.op = "start" THEN "running" ELSE pcm.state]
             /\ seen' = [seen EXCEPT !.appl = seen.appl + call.done]
    <2>1. call'.done = 0 /\ call' \in PlayCall
      BY <1>3 DEF Playback!Idle, PlayCall
    <2>2. pcm.appl + call.done \in Nat /\ seen.appl + call.done \in Nat
          /\ seen.appl + call.done + 0 = seen.appl + call.done
      <3>1. pcm.appl \in Nat /\ seen.appl \in Nat /\ call.done \in Nat
        BY <1>1 DEF PlayTyped
      <3> QED BY <3>1
    <2>3. pcm' \in PlayPcm /\ pcm'.hw = pcm.hw /\ pcm'.appl = pcm.appl + call.done
      BY <1>1, <1>3, <2>2 DEF PlayPcm, PlayStates
    <2>4. seen' \in Cursors /\ seen'.hw = seen.hw /\ seen'.appl = seen.appl + call.done
      BY <1>1, <1>3, <2>2 DEF Cursors
    <2>5. pcm'.state = "running" /\ pcm.state \in {"prepared", "running"}
      BY <1>1, <1>2, <1>3 DEF Called, PlayPcm
    <2> QED BY <1>2, <1>3, <2>1, <2>2, <2>3, <2>4, <2>5 DEF Live
  <1>4. CASE /\ pcm' = pcm /\ seen' = seen
             /\ call' = CASE call.op = "write" -> [call EXCEPT !.pc = "copy"]
                          [] call.op = "pointer" -> [call EXCEPT !.pc = "report"]
                          [] call.op = "drain" -> [call EXCEPT !.pc = "drain"]
                          [] call.op = "begin" -> [call EXCEPT !.op = "drain", !.pc = "pad"]
             /\ call.op # "start"
    <2>1. call.op \in {"write", "pointer", "drain", "begin"}
      BY <1>1, <1>2, <1>4 DEF PlayCall
    <2>2. \/ call.op = "write" /\ call' = [call EXCEPT !.pc = "copy"]
          \/ call.op = "pointer" /\ call' = [call EXCEPT !.pc = "report"]
          \/ call.op = "drain" /\ call' = [call EXCEPT !.pc = "drain"]
          \/ call.op = "begin" /\ call' = [call EXCEPT !.op = "drain", !.pc = "pad"]
      BY <1>4, <2>1
    <2>3. call' \in PlayCall /\ call'.done = call.done
      BY <1>1, <2>2 DEF PlayCall
    <2>4. \/ call.op = "write" /\ call'.op = "write" /\ call'.pc = "copy"
          \/ call.op = "pointer" /\ call'.op = "pointer" /\ call'.pc = "report"
          \/ call.op = "drain" /\ call'.op = "drain" /\ call'.pc = "drain"
          \/ call.op = "begin" /\ call'.op = "drain" /\ call'.pc = "pad"
      BY <1>1, <2>2 DEF PlayCall
    <2>5. pcm' = pcm /\ seen' = seen
      BY <1>4
    <2> QED BY <1>1, <1>2, <2>3, <2>4, <2>5 DEF Live
  <1> QED BY <1>1, <1>2, <1>3, <1>4 DEF Playback!FlushReturns

LEMMA FlushedInv ==
  ASSUME PlayInv, call.pc \in {"flush", "publish"}, Playback!FlushReturns,
         UNCHANGED <<mode, heard, engine, sent>>, s' \in Transfer, s'.running = TRUE,
         UNCHANGED <<s.fifo, s.hidden, s.extra, s.locked, s.last, s.origin, s.position>>,
         s.next # None => s'.next = s.next, s'.cycle \in {None, s.cycle}
  PROVE  PlayInv'
  <1>1. PlayTyped /\ Called /\ Live
    BY PlayPieces DEF PlayInv, Called
  <1>2. /\ pcm' \in PlayPcm /\ seen' \in Cursors /\ call' \in PlayCall
        /\ seen'.hw = seen.hw /\ pcm'.hw = pcm.hw
        /\ seen'.appl + call'.done = seen.appl + call.done
        /\ Live' /\ (pcm'.state = "draining" <=> pcm.state = "draining")
        /\ pcm'.state # "prepared"
    BY Returns
  <1>3. \/ call' = Playback!Idle /\ pcm'.appl = seen'.appl /\ pcm.state # "draining"
        \/ /\ pcm' = pcm /\ seen' = seen /\ call'.done = call.done
           /\ \/ call.op = "write" /\ call'.op = "write" /\ call'.pc = "copy"
              \/ call.op = "pointer" /\ call'.op = "pointer" /\ call'.pc = "report"
              \/ call.op = "drain" /\ call'.op = "drain" /\ call'.pc = "drain"
              \/ call.op = "begin" /\ call'.op = "drain" /\ call'.pc = "pad"
    BY Returns
  <1>4. PlayTypes' /\ Bounded'
    BY <1>2 DEF PlayInv, PlayTypes, Bounded, Queued
  <1>5. NextDue' = NextDue /\ Queued' = Queued /\ FirstDue' = FirstDue
        /\ Playback!Pro' = Playback!Pro
    <2>1. NextDue' = NextDue /\ Queued' = Queued /\ Playback!Pro' = Playback!Pro
      BY <1>2 DEF NextDue, Queued, Playback!Pro
    <2> QED BY <2>1 DEF FirstDue
  <1>6. Called'
    <2>1. CASE call' = Playback!Idle /\ pcm'.appl = seen'.appl /\ pcm.state # "draining"
      BY <1>1, <1>2, <2>1 DEF Called, Starting, Playback!Idle
    <2>2. CASE /\ pcm' = pcm /\ seen' = seen /\ call'.done = call.done
               /\ \/ call.op = "write" /\ call'.op = "write" /\ call'.pc = "copy"
                  \/ call.op = "pointer" /\ call'.op = "pointer" /\ call'.pc = "report"
                  \/ call.op = "drain" /\ call'.op = "drain" /\ call'.pc = "drain"
                  \/ call.op = "begin" /\ call'.op = "drain" /\ call'.pc = "pad"
      BY <1>1, <1>2, <2>2 DEF Called, Starting, Playback!SeenNow
    <2> QED BY <1>3, <2>1, <2>2
  <1>7. Drained'
    <2>1. call'.op # "drain" \/ call'.pc = "pad"
          \/ (call.op = "drain" /\ call'.pc = "drain")
      BY <1>3 DEF Playback!Idle
    <2>2. call'.pc # "drained"
      BY <1>3 DEF Playback!Idle
    <2> QED BY <1>5, <2>1, <2>2 DEF PlayInv, Drained
  <1>8. Ordered'
    BY <1>1, <1>5 DEF PlayInv, Ordered
  <1>9. Begun'
    BY <1>1, <1>2 DEF PlayInv, Begun
  <1>10. Labelled'
    BY <1>1, <1>5 DEF PlayInv, Labelled
  <1>11. Pointed'
    BY <1>1, <1>2, <1>5 DEF PlayInv, Pointed
  <1> QED BY <1>4, <1>6, <1>7, <1>8, <1>9, <1>10, <1>11 DEF PlayInv

LEMMA FlushEndsInv == ASSUME PlayInv, Playback!FlushEnds PROVE PlayInv'
  <1>1. s \in Transfer /\ call.pc = "flush" /\ (s.running \/ Starting)
    BY DEF PlayInv, PlayTypes, Called, Playback!FlushEnds, Playback!Flushing
  <1>2. s' = [s EXCEPT !.running = TRUE]
    BY <1>1 DEF Playback!FlushEnds, Playback!Running, Starting, Transfer
  <1>3. s' \in Transfer /\ s'.running = TRUE /\ s'.next = s.next /\ s'.cycle = s.cycle
        /\ UNCHANGED <<s.fifo, s.hidden, s.extra, s.locked, s.last, s.origin, s.position>>
    BY <1>1, <1>2 DEF Transfer
  <1>4. Playback!FlushReturns /\ UNCHANGED <<mode, heard, engine, sent>>
    BY DEF Playback!FlushEnds
  <1> QED BY <1>1, <1>3, <1>4, FlushedInv

LEMMA RingFullInv == ASSUME PlayInv, Playback!RingFull PROVE PlayInv'
  <1> DEFINE plan == Playback!Plan(s.cycle)
  <1>1. s \in Transfer /\ call.pc = "publish" /\ (s.running \/ Starting) /\ Live /\ s.cycle # None
        /\ Labelled /\ plan.expired = 0
    BY DEF PlayInv, PlayTypes, Called, Playback!RingFull
  <1>2. s' = [s EXCEPT !.next = plan.sequence, !.cycle = None, !.running = TRUE]
    BY <1>1 DEF Playback!RingFull, Playback!Running, Starting
  <1>3. plan.sequence \in MaybeNat /\ (s.next # None => plan.sequence = s.next)
    BY <1>1, PlanIs DEF MaybeNat
  <1> HIDE DEF plan
  <1>4. s' \in Transfer /\ s'.running = TRUE /\ s'.next = plan.sequence /\ s'.cycle = None
        /\ UNCHANGED <<s.fifo, s.hidden, s.extra, s.locked, s.last, s.origin, s.position>>
    BY <1>1, <1>2, <1>3 DEF Transfer, MaybeNat
  <1>5. Playback!FlushReturns /\ UNCHANGED <<mode, heard, engine, sent>>
    BY DEF Playback!RingFull
  <1>6. s.next # None => s'.next = s.next
    BY <1>3, <1>4
  <1> QED BY <1>1, <1>4, <1>5, <1>6, FlushedInv

(* Periods too late for their labels leave the FIFO: SHARED goes on with the   *)
(* labels that follow, PRO fails.                                              *)
LEMMA ExpiredInv == ASSUME PlayInv, Playback!Expired PROVE PlayInv'
  <1> DEFINE plan == Playback!Plan(s.cycle)
             dropped == Playback!Least(plan.expired, Playback!Size \div P)
             t == Playback!Discard(s, plan.expired)
             gone == IF Span(plan.expired) < Queued THEN Span(plan.expired) ELSE Queued
             next == Playback!Minus(plan.sequence + dropped, plan.expired)
  <1>1. call.pc = "publish"
        /\ plan.expired > 0 /\ Called /\ Labelled /\ Drained /\ PlayTyped
        /\ call \in PlayCall /\ heard \in MaybeNat
    BY PlayPieces DEF Playback!Expired, PlayInv, PlayTypes
  <1>2. s.cycle # None /\ Live /\ Queued >= P /\ (s.running \/ Starting)
    BY <1>1 DEF Called
  <1>3. plan.sequence \in Nat /\ plan.expired \in Nat
        /\ (s.next # None => plan.sequence = s.next + plan.expired)
    BY <1>1, <1>2, PlanIs
  <1>4. /\ t \in Transfer /\ gone \in 0 .. Queued /\ Span(plan.expired) \in Nat
        /\ Len(t.fifo) = Queued - gone /\ t.locked <= Len(t.fifo)
        /\ Follows(t.fifo, NextDue)
        /\ t.cycle = s.cycle /\ t.last = s.last /\ t.origin = s.origin
        /\ t.position = s.position /\ t.hidden = s.hidden /\ t.extra = s.extra /\ t.running = s.running
    <2> HIDE DEF gone, t, plan
    <2>1. t = Playback!Discard(s, plan.expired)
          /\ gone = IF Span(plan.expired) < Queued THEN Span(plan.expired) ELSE Queued
      BY DEF t, gone
    <2> QED BY <1>2, <1>3, <2>1, Discards
  <1>5. CASE Playback!Pro
    <2>1. Playback!Fails([t EXCEPT !.next = plan.sequence])
      BY <1>5 DEF Playback!Expired
    <2> DEFINE u == [t EXCEPT !.next = plan.sequence]
    <2> HIDE DEF t, plan, gone
    <2>2. u \in Transfer /\ u.cycle = s.cycle /\ Len(u.fifo) <= Buffer
          /\ u.locked <= Len(u.fifo)
      <3>1. u \in Transfer /\ u.fifo = t.fifo /\ u.locked = t.locked /\ u.cycle = t.cycle
        BY <1>3, <1>4 DEF Transfer, MaybeNat
      <3>2. Queued \in Nat /\ Queued <= Buffer
        BY <1>1 DEF PlayTyped, PlayInv, Bounded
      <3> QED BY <3>1, <3>2, <1>4, PlayGeometry
    <2> HIDE DEF u
    <2> QED BY <2>1, <2>2, PlayFailsInv DEF u
  <1>6. CASE ~Playback!Pro
    <2>1. /\ s' = [t EXCEPT !.next = next]
          /\ call' = [call EXCEPT !.pc = "flush", !.progressed = TRUE]
          /\ UNCHANGED <<mode, pcm, seen, heard, engine, sent>>
      BY <1>6 DEF Playback!Expired
    <2>2. dropped \in Nat /\ dropped >= 1 /\ Span(dropped) <= gone
      <3>1. Playback!Size = Queued /\ Queued \in Nat
        BY <1>1 DEF PlayTyped, Playback!Size, Queued
      <3>2. \A n \in Nat : n >= P => n \div P \in Nat /\ n \div P >= 1 /\ (n \div P) * P <= n
        BY PlayGeometry, SMT
      <3>3. Playback!Size \div P \in Nat /\ Playback!Size \div P >= 1
            /\ Span(Playback!Size \div P) <= Queued
        BY <3>1, <3>2, <1>2 DEF Span
      <3>4. dropped \in Nat /\ dropped >= 1 /\ dropped <= plan.expired
            /\ dropped <= Playback!Size \div P
        BY <3>3, <1>1, <1>3 DEF Playback!Least
      <3>5. Span(dropped) <= Span(plan.expired)
            /\ Span(dropped) <= Span(Playback!Size \div P)
            /\ Span(dropped) \in Nat /\ Span(Playback!Size \div P) \in Nat
        BY <3>3, <3>4, <1>3, Spans
      <3> HIDE DEF dropped, plan
      <3> QED BY <3>1, <3>3, <3>4, <3>5, <1>4 DEF gone
    <2>3. next \in Nat /\ (s.next # None => next = s.next + dropped)
      <3>1. s.next # None => s.next \in Nat
        BY <1>1 DEF PlayTyped, MaybeNat
      <3> HIDE DEF dropped, plan
      <3> QED BY <2>2, <1>3, <3>1 DEF Playback!Minus
    <2> HIDE DEF t, plan, gone, next, dropped
    <2>4. /\ s' \in Transfer /\ s'.next = next /\ s'.fifo = t.fifo /\ s'.locked = t.locked
          /\ UNCHANGED <<s.cycle, s.last, s.origin, s.position, s.hidden, s.extra, s.running>>
      BY <1>4, <2>1, <2>3 DEF Transfer, MaybeNat
    <2>5. call' \in PlayCall /\ call'.pc = "flush" /\ call'.op = call.op
          /\ call'.done = call.done
      BY <1>1, <2>1 DEF PlayCall
    <2>6. PlayTypes'
      BY <2>1, <2>4, <2>5 DEF PlayInv, PlayTypes
    <2>7. Queued' = Queued - gone /\ NextDue' = NextDue /\ Live' = Live
          /\ ~Playback!Pro'
      BY <1>4, <1>6, <2>1, <2>4, <2>5 DEF Queued, NextDue, Live, Playback!Pro
    <2>8. Bounded'
      <3>1. Queued \in Nat /\ Queued <= Buffer
        BY <1>1 DEF PlayTyped, PlayInv, Bounded
      <3>2. s'.locked <= Queued'
        BY <1>4, <2>4 DEF Queued
      <3>3. Queued' <= Buffer
        BY <3>1, <2>7, <1>4, PlayGeometry
      <3> QED BY <3>2, <3>3 DEF Bounded
    <2>9. Called'
      BY <1>1, <2>1, <2>4, <2>5 DEF Called, Live, Starting, Playback!SeenNow
    <2>10. Ordered'
      BY <1>4, <2>4, <2>7 DEF Ordered
    <2>11. Begun'
      BY <1>2, <2>1, <2>4, <2>5 DEF PlayInv, Begun, Live, Starting
    <2>12. Labelled'
      <3> SUFFICES ASSUME sent # None
                   PROVE  /\ s'.next # None /\ sent.label < s'.next /\ s'.next # sent.label + 1
                          /\ ~sent.reset =>
                                Span(s'.next) + sent.frames[1] <= Span(sent.label) + FirstDue'
        BY <2>1, <2>7 DEF Labelled
      <3>1. s.next # None /\ sent.label < s.next
            /\ (~sent.reset => Span(s.next) + sent.frames[1] <= Span(sent.label) + FirstDue)
        BY <1>1, <1>2 DEF Labelled
      <3>2. s.next \in Nat /\ sent.label \in Nat /\ sent.frames[1] \in Nat
        BY <1>1, <3>1 DEF PlayTyped, MaybeNat
      <3>3. s'.next = s.next + dropped
        BY <2>3, <2>4, <3>1
      <3>4. Span(s'.next) = Span(s.next) + Span(dropped) /\ Span(s.next) \in Nat
            /\ Span(dropped) \in Nat /\ Span(sent.label) \in Nat
        <4>1. Span(s.next + dropped) = Span(s.next) + Span(dropped) /\ Span(s.next) \in Nat
              /\ Span(dropped) \in Nat
          BY <3>2, <2>2, <3>1, Spans
        <4>2. Span(sent.label) \in Nat
          BY <3>2, Spans
        <4> QED BY <3>3, <4>1, <4>2
      <3>5. NextDue \in Nat /\ Queued \in Nat /\ gone \in Nat
        <4>1. seen.appl \in Nat /\ call.done \in Nat /\ s.hidden \in Nat /\ s.extra \in Nat /\ Queued \in Nat
          BY <1>1 DEF PlayTyped
        <4> QED BY <4>1, <1>4, SMTT(30) DEF NextDue
      <3>6. FirstDue' = FirstDue + gone /\ FirstDue = NextDue - Queued
        BY <2>7, <3>5, <1>4 DEF FirstDue
      <3>7. s'.next # None /\ sent.label < s'.next /\ s'.next # sent.label + 1
        BY <3>1, <3>2, <3>3, <2>2, PlayGeometry
      <3>8. ~sent.reset => Span(s'.next) + sent.frames[1] <= Span(sent.label) + FirstDue'
        <4>1. FirstDue \in Int /\ Span(dropped) <= gone
          BY <3>5, <3>6, <2>2
        <4> SUFFICES ASSUME ~sent.reset PROVE Span(s'.next) + sent.frames[1] <= Span(sent.label) + FirstDue'
          OBVIOUS
        <4>2. Span(s.next) + sent.frames[1] <= Span(sent.label) + FirstDue
          BY <3>1
        <4>3. sent.frames[1] \in Nat
          BY <3>2
        <4> QED BY <3>4, <3>5, <3>6, <4>1, <4>2, <4>3
      <3> QED BY <3>7, <3>8
    <2>13. Pointed'
      BY <2>7 DEF Pointed
    <2>14. Drained'
      <3>1. call.op = "drain" => Periodic(Queued - gone)
        <4> SUFFICES ASSUME call.op = "drain" PROVE Periodic(Queued - gone)
          OBVIOUS
        <4>1. PICK k \in Nat : Queued = Span(k)
          BY <1>1 DEF Drained, Periodic
        <4>2. CASE Span(plan.expired) < Queued
          <5>1. gone = Span(plan.expired)
            BY <4>2 DEF gone
          <5>2. plan.expired <= k
            <6>1. k <= plan.expired => Span(k) <= Span(plan.expired)
              BY <1>3, Spans
            <6>2. Span(k) \in Nat /\ Span(plan.expired) \in Nat /\ plan.expired \in Nat
              BY <1>3, <1>4, Spans
            <6> QED BY <6>1, <6>2, <4>1, <4>2
          <5>3. k - plan.expired \in Nat
                /\ Span(k - plan.expired) = Span(k) - Span(plan.expired)
            BY <5>2, <1>3, Spans
          <5> QED BY <4>1, <5>1, <5>3 DEF Periodic
        <4>3. CASE ~(Span(plan.expired) < Queued)
          <5>1. gone = Queued /\ Queued \in Nat
            BY <4>3, <1>1 DEF gone, PlayTyped
          <5>2. Queued - gone = Span(0)
            BY <5>1, Spans
          <5> QED BY <5>2 DEF Periodic
        <4> QED BY <4>2, <4>3
      <3> QED BY <3>1, <2>5, <2>7 DEF Drained
    <2> QED BY <2>6, <2>8, <2>9, <2>10, <2>11, <2>12, <2>13, <2>14 DEF PlayInv
  <1> QED BY <1>5, <1>6

(* A period is sent with the next label.                                       *)
LEMMA Published ==
  ASSUME PlayInv, Playback!Publish, NEW q, q = Playback!Plan(s.cycle).sequence
  PROVE  /\ call.pc = "publish" /\ Live /\ Queued >= P /\ (s.running \/ Starting)
         /\ engine.start # None /\ s.cycle # None /\ q \in Nat /\ (s.next # None => q = s.next)
         /\ s' \in Transfer /\ s'.next = q + 1 /\ s'.last = q /\ s'.locked <= Len(s'.fifo)
         /\ Len(s'.fifo) = Queued - P /\ Follows(s'.fifo, NextDue)
         /\ s'.origin = IF Playback!Pro /\ s.origin = None THEN q ELSE s.origin
         /\ Playback!Pro => s'.position = s.position
         /\ UNCHANGED <<s.cycle, s.hidden, s.extra, s.running>>
         /\ sent' \in Block /\ Len(sent'.frames) = P /\ sent'.label = q /\ ~sent'.reset
         /\ sent'.frames[1] = FirstDue
         /\ call' \in PlayCall /\ call'.pc = "flush" /\ call'.op = call.op
         /\ call'.done = call.done
         /\ UNCHANGED <<mode, pcm, seen, heard, engine>>
  <1> DEFINE plan == Playback!Plan(s.cycle)
             t == Playback!Discard(s, 1)
             origin == IF Playback!Pro /\ s.origin = None THEN q ELSE s.origin
             place == IF Playback!Pro THEN s.position ELSE Playback!Minus(q, engine.start) * P
  <1>1. call.pc = "publish" /\ plan.expired = 0 /\ Called /\ Begun /\ Ordered /\ PlayTyped
        /\ call \in PlayCall
    BY PlayPieces DEF Playback!Publish, PlayInv, PlayTypes
  <1>2. s.cycle # None /\ Live /\ Queued >= P /\ (s.running \/ Starting) /\ engine.start # None
    BY <1>1 DEF Called, Begun
  <1>3. q \in Nat /\ (s.next # None => q = s.next)
    BY <1>1, <1>2, PlanIs
  <1>4. /\ sent' = [label |-> q, frames |-> SubSeq(s.fifo, 1, P), reset |-> FALSE]
        /\ call' = [call EXCEPT !.pc = "flush", !.progressed = TRUE]
        /\ UNCHANGED <<mode, pcm, seen, heard, engine>>
    BY DEF Playback!Publish
  <1>5. /\ t \in Transfer /\ Len(t.fifo) = Queued - P /\ t.locked <= Len(t.fifo)
        /\ Follows(t.fifo, NextDue)
        /\ t.cycle = s.cycle /\ t.last = s.last /\ t.origin = s.origin
        /\ t.position = s.position /\ t.hidden = s.hidden /\ t.extra = s.extra /\ t.running = s.running
    <2>1. Span(1) = P /\ Queued \in Nat
      BY <1>1, Spans DEF PlayTyped
    <2> DEFINE d == IF Span(1) < Queued THEN Span(1) ELSE Queued
    <2>2. d = P
      BY <2>1, <1>2, PlayGeometry
    <2> HIDE DEF t
    <2>3. t = Playback!Discard(s, 1)
      BY DEF t
    <2> QED BY <1>2, <2>2, <2>3, Discards
  <1>6. s' = [t EXCEPT !.next = q + 1, !.last = q, !.origin = origin, !.position = place]
    <2>1. s' = [t EXCEPT !.next = q + 1, !.last = q,
                         !.origin = IF Playback!Pro /\ @ = None THEN q ELSE @,
                         !.position = IF Playback!Pro THEN @
                                      ELSE Playback!Minus(q, engine.start) * P]
      BY DEF Playback!Publish
    <2> HIDE DEF t
    <2> QED BY <1>5, <2>1 DEF Transfer
  <1>7. origin \in MaybeNat /\ place \in Nat
    <2>1. origin \in MaybeNat
      BY <1>1, <1>3 DEF PlayTyped, MaybeNat
    <2>2. engine.start \in Nat /\ s.position \in Nat
      BY <1>1, <1>2 DEF PlayTyped, MaybeNat
    <2>3. Playback!Minus(q, engine.start) \in Nat
      BY <1>3, <2>2 DEF Playback!Minus
    <2>4. \A n \in Nat : n * P \in Nat
      BY PlayGeometry, SMT
    <2> QED BY <2>1, <2>2, <2>3, <2>4
  <1> HIDE DEF t, place, plan
  <1>8. /\ s' \in Transfer /\ s'.next = q + 1 /\ s'.last = q /\ s'.origin = origin
        /\ s'.position = place /\ s'.fifo = t.fifo /\ s'.locked = t.locked
        /\ s'.cycle = t.cycle /\ s'.hidden = t.hidden /\ s'.extra = t.extra
        /\ s'.running = t.running
    <2>1. q + 1 \in MaybeNat /\ q \in MaybeNat
      BY <1>3 DEF MaybeNat
    <2> HIDE DEF origin
    <2> QED BY <1>5, <1>6, <1>7, <2>1 DEF Transfer
  <1>9. /\ sent' \in Block /\ Len(sent'.frames) = P /\ sent'.label = q /\ ~sent'.reset
        /\ sent'.frames[1] = FirstDue
    <2>1. P \in 0 .. Len(s.fifo) /\ s.fifo \in Seq(Nat) /\ 1 \in 1 .. P
          /\ 1 \in 1 .. Len(s.fifo)
      BY <1>1, <1>2, PlayGeometry DEF PlayTyped, Queued
    <2>2. SubSeq(s.fifo, 1, P) \in Seq(Nat) /\ Len(SubSeq(s.fifo, 1, P)) = P
          /\ SubSeq(s.fifo, 1, P)[1] = s.fifo[1]
      BY <2>1, Cuts
    <2>3. s.fifo[1] = NextDue - Len(s.fifo) + 1 - 1
      BY <1>1, <1>2, <2>1 DEF Ordered, Follows
    <2>4. s.fifo[1] = FirstDue
      <3>1. seen.appl \in Nat /\ call.done \in Nat /\ s.hidden \in Nat /\ s.extra \in Nat /\ Queued \in Nat
        BY <1>1 DEF PlayTyped
      <3>2. NextDue \in Nat
        BY <3>1 DEF NextDue
      <3> QED BY <2>3, <3>1, <3>2 DEF FirstDue, Queued
    <2> QED BY <1>3, <1>4, <2>2, <2>4 DEF Block
  <1>10. call' \in PlayCall /\ call'.pc = "flush" /\ call'.op = call.op
         /\ call'.done = call.done
    BY <1>1, <1>4 DEF PlayCall
  <1>11. Playback!Pro => s'.position = s.position
    BY <1>8 DEF place
  <1>12. call.pc = "publish" /\ UNCHANGED <<mode, pcm, seen, heard, engine>>
    BY <1>1, <1>4
  <1> QED BY <1>2, <1>3, <1>5, <1>8, <1>9, <1>10, <1>11, <1>12

LEMMA PublishInv == ASSUME PlayInv, Playback!Publish PROVE PlayInv'
  <1> DEFINE q == Playback!Plan(s.cycle).sequence
  <1>1. /\ call.pc = "publish" /\ Live /\ Queued >= P /\ (s.running \/ Starting)
        /\ engine.start # None /\ s.cycle # None /\ q \in Nat /\ (s.next # None => q = s.next)
        /\ s' \in Transfer /\ s'.next = q + 1 /\ s'.last = q /\ s'.locked <= Len(s'.fifo)
        /\ Len(s'.fifo) = Queued - P /\ Follows(s'.fifo, NextDue)
        /\ s'.origin = IF Playback!Pro /\ s.origin = None THEN q ELSE s.origin
        /\ Playback!Pro => s'.position = s.position
        /\ UNCHANGED <<s.cycle, s.hidden, s.extra, s.running>>
        /\ sent' \in Block /\ Len(sent'.frames) = P /\ sent'.label = q /\ ~sent'.reset
        /\ sent'.frames[1] = FirstDue
        /\ call' \in PlayCall /\ call'.pc = "flush" /\ call'.op = call.op
        /\ call'.done = call.done
        /\ UNCHANGED <<mode, pcm, seen, heard, engine>>
    BY Published
  <1> HIDE DEF q
  <1>2. PlayTyped /\ Called /\ Begun /\ Pointed /\ Drained /\ Labelled
    BY PlayPieces DEF PlayInv
  <1>3. PlayTypes'
    BY <1>1 DEF PlayInv, PlayTypes
  <1>4. q + 1 # None /\ q + 1 \in Nat /\ q < q + 1
    BY <1>1, PlayGeometry
  <1>5. NextDue \in Nat /\ Queued \in Nat /\ FirstDue \in Int
    <2>1. seen.appl \in Nat /\ call.done \in Nat /\ s.hidden \in Nat /\ s.extra \in Nat /\ Queued \in Nat
      BY <1>2 DEF PlayTyped
    <2> QED BY <2>1 DEF NextDue, FirstDue
  <1>6. NextDue' = NextDue /\ Queued' = Queued - P /\ Live' /\ Playback!Pro' = Playback!Pro
    BY <1>1 DEF NextDue, Queued, Live, Playback!Pro
  <1>7. FirstDue' = FirstDue + P
    BY <1>5, <1>6, PlayGeometry DEF FirstDue
  <1>8. Bounded'
    <2>1. Queued <= Buffer
      BY DEF PlayInv, Bounded
    <2> QED BY <1>1, <1>5, <1>6, <2>1, PlayGeometry DEF Bounded, Queued
  <1>9. Called'
    BY <1>1, <1>2 DEF Called, Live, Starting, Playback!SeenNow
  <1>10. Ordered'
    BY <1>1, <1>6 DEF Ordered
  <1>11. Begun'
    BY <1>1, <1>2, <1>4 DEF Begun, Live, Starting
  <1>12. Span(q) \in Nat /\ Span(q + 1) = Span(q) + P
    BY <1>1, Spans
  <1>13. Labelled'
    BY <1>1, <1>4, <1>5, <1>7, <1>12, PlayGeometry DEF Labelled
  <1>14. Pointed'
    <2> SUFFICES ASSUME Playback!Pro
                 PROVE  /\ s'.position = 0 /\ engine.play \in {engine.cycle, engine.cycle + 1}
                        /\ s'.origin # None /\ s'.next # None
                        /\ Span(s'.next) <= FirstDue' + Span(s'.origin)
                        /\ Span(sent'.label) <= sent'.frames[1] + Span(s'.origin)
                        /\ seen.hw > 0 /\ pcm.state # "draining" =>
                              /\ s.origin # None /\ s'.origin <= engine.play
                              /\ seen.hw + s.hidden + Span(s'.origin) <= Span(engine.play)
      BY <1>1, <1>6 DEF Pointed
    <2> s'.next # None
      BY <1>1, <1>4
    <2>1. s.position = 0 /\ engine.play \in {engine.cycle, engine.cycle + 1}
      BY <1>1, <1>2 DEF Pointed
    <2>2. CASE s.origin = None
      <3>1. s'.origin = q /\ s'.origin # None
        BY <1>1, <2>2, PlayGeometry
      <3>2. ~(seen.hw > 0 /\ pcm.state # "draining")
        BY <1>1, <1>2, <2>2 DEF Pointed
      <3>3. 0 <= FirstDue
        <4>1. Len(s.fifo) <= NextDue
          BY <1>1 DEF PlayInv, Ordered, Follows
        <4> QED BY <4>1, <1>5 DEF FirstDue, Queued
      <3>4. Span(s'.next) <= FirstDue' + Span(s'.origin)
            /\ Span(sent'.label) <= sent'.frames[1] + Span(s'.origin)
        <4>1. Span(s'.origin) = Span(q) /\ Span(s'.next) = Span(q) + P /\ sent'.label = q
              /\ sent'.frames[1] = FirstDue
          BY <3>1, <1>1, <1>12
        <4> QED BY <4>1, <3>3, <1>5, <1>7, <1>12, PlayGeometry
      <3> QED BY <1>1, <2>1, <3>1, <3>2, <3>4
    <2>3. CASE s.origin # None
      <3>1. s'.origin = s.origin /\ s.origin \in Nat
        BY <1>1, <1>2, <2>3 DEF PlayTyped, MaybeNat
      <3>3. s.next # None /\ q = s.next /\ Span(q) <= FirstDue + Span(s.origin)
        BY <1>1, <1>2, <2>3 DEF Pointed
      <3>4. Span(s.origin) \in Nat
        BY <3>1, Spans
      <3>5. Span(s'.next) <= FirstDue' + Span(s'.origin)
            /\ Span(sent'.label) <= sent'.frames[1] + Span(s'.origin)
        BY <3>1, <3>3, <3>4, <1>1, <1>5, <1>7, <1>12, PlayGeometry
      <3>6. seen.hw > 0 /\ pcm.state # "draining" =>
              /\ s.origin # None /\ s.origin <= engine.play
              /\ seen.hw + s.hidden + Span(s.origin) <= Span(engine.play)
        BY <1>1, <1>2 DEF Pointed
      <3> QED BY <1>1, <2>1, <2>3, <3>1, <3>5, <3>6
    <2> QED BY <2>2, <2>3
  <1>15. Drained'
    <2>1. call.op = "drain" => Periodic(Queued - P)
      <3> SUFFICES ASSUME call.op = "drain" PROVE Periodic(Queued - P)
        OBVIOUS
      <3>1. PICK k \in Nat : Queued = Span(k)
        BY <1>1, <1>2 DEF Drained, Periodic
      <3>2. k >= 1
        BY <3>1, <1>1, Spans, PlayGeometry
      <3>3. k - 1 \in Nat /\ Span(k - 1) = Span(k) - P
        BY <3>2, Spans
      <3> QED BY <3>1, <3>3 DEF Periodic
    <2> QED BY <1>1, <1>6, <2>1 DEF Drained
  <1> QED BY <1>3, <1>8, <1>9, <1>10, <1>11, <1>13, <1>14, <1>15 DEF PlayInv

(* The application's moves are applied to the FIFO.                            *)
LEMMA SyncedIs ==
  ASSUME PlayInv, call.pc = "idle", Live, ~Playback!SyncFails, NEW t, t = Playback!Synced,
         Playback!Moved # "reset"
  PROVE  /\ t \in Transfer /\ Len(t.fifo) <= Buffer /\ t.locked <= Len(t.fifo)
         /\ t.next = s.next /\ t.cycle = s.cycle /\ t.last = s.last /\ t.origin = s.origin
         /\ t.running = s.running /\ t.hidden = s.hidden /\ t.extra = s.extra /\ t.position = s.position
         /\ Follows(t.fifo, pcm.appl + s.hidden + s.extra)
         /\ (pcm.appl + s.hidden + s.extra) - Len(t.fifo) = FirstDue /\ pcm.hw = seen.hw
  <1>1. PlayTyped /\ s \in Transfer /\ Bounded /\ Queued = Len(s.fifo)
        /\ Follows(s.fifo, NextDue)
    BY PlayPieces DEF PlayInv, PlayTypes, Queued, Ordered
  <1>2. call.done = 0 /\ pcm.hw = seen.hw
    BY DEF PlayInv, Called, Playback!Idle, Playback!Moved
  <1>3. /\ pcm.appl \in Nat /\ seen.appl \in Nat /\ s.hidden \in Nat /\ s.extra \in Nat /\ Queued \in Nat
        /\ s.locked \in Nat /\ s.locked <= Queued /\ Queued <= Buffer /\ s.fifo \in Seq(Nat)
    BY <1>1 DEF PlayTyped, Bounded
  <1>4. NextDue = seen.appl + s.hidden + s.extra /\ NextDue \in Nat
    BY <1>2, <1>3 DEF NextDue
  <1>5. CASE Playback!Moved = "forward"
    <2> DEFINE n == pcm.appl - seen.appl
               fifo == s.fifo \o Playback!Run(NextDue, n)
    <2>1. n \in Nat /\ Queued + n <= Buffer /\ NextDue + n = pcm.appl + s.hidden + s.extra
      <3>1. pcm.appl > seen.appl
        BY <1>5 DEF Playback!Moved
      <3>2. ~(Queued + pcm.appl - seen.appl > Buffer)
        BY <1>1, <1>5 DEF Playback!SyncFails, Playback!Size
      <3>3. n \in Nat
        BY <3>1, <1>3
      <3>4. NextDue + n = pcm.appl + s.hidden + s.extra
        BY <1>3, <1>4
      <3>5. Queued + n <= Buffer
        BY <3>1, <3>2, <1>3, PlayGeometry
      <3> QED BY <3>3, <3>4, <3>5
    <2>2. t = [s EXCEPT !.fifo = fifo]
      BY <1>1, <1>4, <1>5 DEF Playback!Synced, Transfer
    <2>3. fifo \in Seq(Nat) /\ Len(fifo) = Queued + n /\ Follows(fifo, NextDue + n)
      BY <1>1, <1>3, <1>4, <2>1, Appended
    <2> HIDE DEF fifo, n
    <2>4. t \in Transfer /\ t.fifo = fifo /\ t.locked = s.locked
          /\ t.next = s.next /\ t.cycle = s.cycle /\ t.last = s.last /\ t.origin = s.origin
          /\ t.running = s.running /\ t.hidden = s.hidden /\ t.extra = s.extra /\ t.position = s.position
      BY <1>1, <2>2, <2>3 DEF Transfer
    <2>5. (pcm.appl + s.hidden + s.extra) - Len(t.fifo) = FirstDue
      <3>1. (pcm.appl + s.hidden + s.extra) - Len(t.fifo) = (NextDue + n) - (Queued + n)
        BY <2>1, <2>3, <2>4
      <3>2. (NextDue + n) - (Queued + n) = NextDue - Queued
        BY <2>1, <1>3, <1>4
      <3> QED BY <3>1, <3>2 DEF FirstDue
    <2>6. Len(t.fifo) <= Buffer /\ t.locked <= Len(t.fifo)
      BY <2>1, <2>3, <2>4, <1>3, PlayGeometry
    <2>7. Follows(t.fifo, pcm.appl + s.hidden + s.extra)
      BY <2>1, <2>3, <2>4
    <2> QED BY <2>4, <2>5, <2>6, <2>7, <1>2
  <1>6. CASE Playback!Moved = "rewind"
    <2> DEFINE n == seen.appl - pcm.appl
               fifo == SubSeq(s.fifo, 1, Len(s.fifo) - n)
    <2>1. n \in 0 .. Len(s.fifo) /\ n <= Queued - s.locked
          /\ NextDue - n = pcm.appl + s.hidden + s.extra
      <3>1. seen.appl > pcm.appl
        BY <1>3, <1>6 DEF Playback!Moved
      <3>2. ~(seen.appl - pcm.appl > Playback!Minus(Queued, s.locked))
        BY <1>1, <1>6 DEF Playback!SyncFails, Playback!Size
      <3>3. Playback!Minus(Queued, s.locked) = Queued - s.locked
        BY <1>3 DEF Playback!Minus
      <3>4. n \in Nat /\ n <= Queued - s.locked
        BY <3>1, <3>2, <3>3, <1>3
      <3>5. NextDue - n = pcm.appl + s.hidden + s.extra
        BY <1>3, <1>4
      <3>6. n \in 0 .. Len(s.fifo)
        BY <3>4, <1>1, <1>3
      <3> QED BY <3>4, <3>5, <3>6
    <2>2. t = [s EXCEPT !.fifo = fifo]
      BY <1>1, <1>6 DEF Playback!Synced, Playback!Rewound, Transfer
    <2>3. fifo \in Seq(Nat) /\ Len(fifo) = Queued - n
      <3>1. Len(s.fifo) - n \in 0 .. Len(s.fifo)
        BY <2>1, <1>1, <1>3
      <3> QED BY <3>1, <1>1, <1>3, Cuts
    <2>4. Follows(fifo, NextDue - n)
      BY <1>1, <1>3, <1>4, <2>1, Shortened
    <2> HIDE DEF fifo, n
    <2>5. t \in Transfer /\ t.fifo = fifo /\ t.locked = s.locked
          /\ t.next = s.next /\ t.cycle = s.cycle /\ t.last = s.last /\ t.origin = s.origin
          /\ t.running = s.running /\ t.hidden = s.hidden /\ t.extra = s.extra /\ t.position = s.position
      BY <1>1, <2>2, <2>3 DEF Transfer
    <2>6. (pcm.appl + s.hidden + s.extra) - Len(t.fifo) = FirstDue /\ Len(t.fifo) <= Buffer
          /\ t.locked <= Len(t.fifo)
      <3>1. n \in Nat /\ n <= Queued
        BY <2>1, <1>1, <1>3
      <3>2. (pcm.appl + s.hidden + s.extra) - Len(t.fifo) = (NextDue - n) - (Queued - n)
        BY <2>1, <2>3, <2>5
      <3>3. (NextDue - n) - (Queued - n) = NextDue - Queued
        BY <3>1, <1>3, <1>4
      <3>4. Len(t.fifo) <= Buffer /\ t.locked <= Len(t.fifo)
        BY <3>1, <2>1, <2>3, <2>5, <1>3, PlayGeometry, SMTT(30)
      <3> QED BY <3>2, <3>3, <3>4 DEF FirstDue
    <2> QED BY <2>1, <2>4, <2>5, <2>6, <1>2
  <1>7. CASE Playback!Moved \notin {"reset", "forward", "rewind"}
    <2>1. t = s
      BY <1>7 DEF Playback!Synced
    <2>2. pcm.appl = seen.appl
      BY <1>2, <1>3, <1>7 DEF Playback!Moved
    <2> QED BY <2>1, <2>2, <1>1, <1>2, <1>3, <1>4 DEF FirstDue
  <1> QED BY <1>5, <1>6, <1>7

LEMMA ResetIs ==
  ASSUME PlayInv, call.pc = "idle", Live, NEW t, t = Playback!Synced, Playback!Moved = "reset"
  PROVE  /\ t \in Transfer /\ Len(t.fifo) = 0 /\ t.locked = 0
         /\ t.next = s.next /\ t.cycle = s.cycle /\ t.last = s.last /\ t.origin = s.origin
         /\ t.running = s.running /\ s.running /\ t.position = s.position /\ t.extra = s.extra
         /\ t.hidden \in Nat
         /\ t.hidden >= Playback!RunningPosition + seen.appl - seen.hw - Queued
         /\ pcm.hw = 0 /\ seen.hw > 0 /\ pcm.state # "draining"
  <1>1. PlayTyped /\ s \in Transfer /\ Called /\ Begun /\ Playback!RunningPosition \in Nat
    BY PlayPieces, PositionIsNat DEF PlayInv, PlayTypes
  <1>2. pcm.hw # seen.hw /\ seen.hw \in Nat /\ seen.appl \in Nat /\ Queued \in Nat
    BY <1>1 DEF Playback!Moved, PlayTyped
  <1>3. pcm.hw = 0 /\ seen.hw > 0 /\ pcm.state # "draining"
    BY <1>1, <1>2 DEF Called, Playback!SeenNow
  <1>4. s.running
    BY <1>1, <1>3 DEF Called, Begun, Starting, Playback!Idle
  <1> DEFINE submitted == Playback!Minus(Playback!Minus(seen.appl, seen.hw), Playback!Size)
             hidden == Playback!RunningPosition + submitted
  <1>5. t = [s EXCEPT !.fifo = << >>, !.locked = 0, !.hidden = hidden]
    BY <1>1, <1>4 DEF Playback!Synced, Playback!ResetPlayback, Transfer
  <1>6. hidden \in Nat /\ hidden >= Playback!RunningPosition + seen.appl - seen.hw - Queued
    <2>1. Playback!Size = Queued
      BY DEF Playback!Size, Queued
    <2>2. submitted \in Nat /\ submitted >= seen.appl - seen.hw - Queued
      BY <1>2, <2>1 DEF Playback!Minus
    <2> HIDE DEF submitted
    <2> QED BY <1>1, <1>2, <2>2
  <1> HIDE DEF hidden
  <1>7. << >> \in Seq(Nat) /\ Len(<< >>) = 0 /\ 0 \in Nat
    OBVIOUS
  <1>8. t \in Transfer /\ t.fifo = << >> /\ t.locked = 0 /\ t.hidden = hidden
        /\ t.next = s.next /\ t.cycle = s.cycle /\ t.last = s.last /\ t.origin = s.origin
        /\ t.running = s.running /\ t.position = s.position /\ t.extra = s.extra
    BY <1>1, <1>5, <1>6, <1>7 DEF Transfer
  <1> QED BY <1>3, <1>4, <1>6, <1>7, <1>8

LEMMA SyncInv ==
  ASSUME PlayInv, call.pc = "idle", Live, ~Playback!SyncFails, Playback!Sync,
         UNCHANGED <<mode, pcm, heard, engine>>, call' \in PlayCall, call'.done = 0,
         \/ call'.pc = "copy" /\ call'.op = "write" /\ pcm.state \in {"prepared", "running"}
         \/ call'.pc = "report" /\ call'.op = "pointer"
         \/ call'.pc = "flush" /\ call'.op = "pointer" /\ s.running
  PROVE  PlayInv'
  <1>1. PlayTyped /\ Called /\ Begun /\ Labelled /\ Pointed /\ call = Playback!Idle
    BY PlayPieces DEF PlayInv, Called
  <1>2. s' = Playback!Synced /\ seen' = [appl |-> pcm.appl, hw |-> pcm.hw]
    BY DEF Playback!Sync, Playback!SeenNow
  <1>3. s' \in Transfer /\ Len(s'.fifo) <= Buffer /\ s'.locked <= Len(s'.fifo)
        /\ UNCHANGED <<s.next, s.cycle, s.last, s.origin, s.running, s.position, s.extra>>
        /\ (pcm.state = "draining" => pcm.hw = seen.hw)
    <2>1. CASE Playback!Moved = "reset"
      BY <1>2, <2>1, ResetIs, PlayGeometry
    <2>2. CASE Playback!Moved # "reset"
      BY <1>2, <2>2, SyncedIs
    <2> QED BY <2>1, <2>2
  <1>4. \/ sent' = sent
        \/ sent # None /\ sent' = [sent EXCEPT !.reset = TRUE] /\ Playback!Moved = "reset"
    BY DEF Playback!Sync
  <1>5. sent' # None => /\ sent # None /\ sent' \in Block /\ Len(sent'.frames) = P
                        /\ sent'.label = sent.label /\ sent'.frames = sent.frames
    <2>1. sent # None => sent \in Block /\ Len(sent.frames) = P
      BY DEF PlayInv, PlayTypes
    <2>2. ASSUME sent # None, sent' = [sent EXCEPT !.reset = TRUE]
          PROVE  sent' \in Block /\ sent'.label = sent.label /\ sent'.frames = sent.frames
      BY <2>1, <2>2 DEF Block
    <2> QED BY <1>4, <2>1, <2>2
  <1>6. PlayTypes'
    <2>1. seen' \in Cursors
      BY <1>1, <1>2 DEF PlayTyped, Cursors
    <2> QED BY <1>3, <1>5, <2>1 DEF PlayInv, PlayTypes
  <1>7. Bounded'
    BY <1>3 DEF Bounded, Queued
  <1>8. Called'
    <2>1. seen'.appl = pcm.appl /\ seen'.hw = pcm.hw
      BY <1>2
    <2> QED BY <1>1, <1>2, <1>3, <2>1 DEF Called, Live, Starting, Playback!SeenNow
  <1>9. seen'.appl = pcm.appl /\ seen'.hw = pcm.hw /\ NextDue' = pcm.appl + s'.hidden + s'.extra
        /\ Live' = Live /\ Playback!Pro' = Playback!Pro /\ Queued' = Len(s'.fifo)
        /\ FirstDue' = (pcm.appl + s'.hidden + s'.extra) - Len(s'.fifo) /\ s'.hidden \in Nat /\ s'.extra \in Nat
    <2>1. seen'.appl = pcm.appl /\ seen'.hw = pcm.hw
      BY <1>2
    <2>2. s'.hidden \in Nat /\ s'.extra \in Nat /\ pcm.appl \in Nat /\ pcm.appl + 0 = pcm.appl
      BY <1>1, <1>3, SMTT(30) DEF Transfer, PlayTyped
    <2>3. NextDue' = pcm.appl + s'.hidden + s'.extra
      BY <2>1, <2>2 DEF NextDue
    <2> QED BY <2>1, <2>2, <2>3 DEF FirstDue, Live, Playback!Pro, Queued
  <1>10. Begun'
    <2>1. Live /\ ~s.running => seen.hw = 0 /\ pcm.hw = 0
      BY <1>1 DEF Begun, Called, Starting, Playback!Idle
    <2> QED BY <1>1, <1>3, <1>5, <1>9, <2>1 DEF Begun, Starting, Playback!Idle
  <1>11. Drained'
    BY DEF Drained
  <1>12. CASE Playback!Moved = "reset"
    <2>1. /\ Len(s'.fifo) = 0 /\ s.running /\ pcm.hw = 0 /\ seen.hw > 0 /\ s'.extra = s.extra
          /\ s'.hidden >= Playback!RunningPosition + seen.appl - seen.hw - Queued
          /\ pcm.state # "draining"
      BY <1>2, <1>12, ResetIs
    <2>2. Ordered'
      <3>1. pcm.appl \in Nat
        BY <1>1 DEF PlayTyped
      <3>2. pcm.appl + s'.hidden + s'.extra \in Nat /\ s'.extra \in Nat
        BY <3>1, <1>9
      <3>3. Follows(s'.fifo, pcm.appl + s'.hidden + s'.extra)
        BY <2>1, <3>2 DEF Follows
      <3> QED BY <1>9, <3>3 DEF Ordered
    <2>3. sent # None => sent'.reset
      BY <1>5, <1>12 DEF Playback!Sync, PlayInv, PlayTypes, Block
    <2>4. Labelled'
      BY <1>1, <1>3, <1>5, <1>9, <2>3 DEF Labelled
    <2>5. Pointed'
      <3> SUFFICES ASSUME Playback!Pro, s.origin # None
                   PROVE  Span(s.next) <= FirstDue'
                                          + Span(s.origin)
        BY <1>1, <1>3, <1>5, <1>9, <2>1 DEF Pointed
      <3>1. /\ s.origin # None /\ s.origin <= engine.play /\ s.next # None
            /\ seen.hw + s.hidden + Span(s.origin) <= Span(engine.play)
            /\ Span(s.next) <= FirstDue + Span(s.origin)
        BY <1>1, <2>1 DEF Pointed
      <3>2. s.origin \in Nat /\ s.next \in Nat /\ engine.play \in Nat /\ seen.hw \in Nat
            /\ seen.appl \in Nat /\ s.hidden \in Nat /\ s.extra \in Nat
            /\ Queued \in Nat /\ pcm.appl \in Nat /\ s'.extra = s.extra
        BY <1>1, <2>1, <3>1 DEF PlayTyped, MaybeNat
      <3>3. /\ Span(s.origin) \in Nat /\ Span(engine.play) \in Nat
            /\ Span(engine.play - s.origin) = Span(engine.play) - Span(s.origin)
        BY <3>1, <3>2, Spans
      <3>4. Span(s.next) \in Nat
        BY <3>2, Spans
      <3>5. Playback!RunningPosition = Span(engine.play) - Span(s.origin)
        BY <3>1, <3>2, <3>3 DEF Playback!RunningPosition, Span
      <3>6. FirstDue = seen.appl + s.hidden + s.extra - Queued
        BY <1>1, <3>2 DEF FirstDue, NextDue, Playback!Idle
      <3>7. FirstDue' = pcm.appl + s'.hidden + s'.extra
        BY <1>9, <2>1, <3>2
      <3>8. s'.hidden \in Nat /\ s'.extra \in Nat
            /\ s'.hidden >= Span(engine.play) - Span(s.origin) + seen.appl - seen.hw - Queued
        BY <1>9, <2>1, <3>5
      <3>9. FirstDue' >= FirstDue + (Span(engine.play) - Span(s.origin) - seen.hw - s.hidden)
        BY <3>2, <3>3, <3>6, <3>7, <3>8
      <3>10. FirstDue' \in Int /\ FirstDue \in Int
        BY <3>2, <3>6, <3>7, <3>8
      <3> QED BY <3>1, <3>2, <3>3, <3>4, <3>9, <3>10
    <2> QED BY <1>6, <1>7, <1>8, <1>10, <1>11, <2>2, <2>4, <2>5 DEF PlayInv
  <1>13. CASE Playback!Moved # "reset"
    <2>1. /\ s'.hidden = s.hidden /\ s'.extra = s.extra /\ Follows(s'.fifo, pcm.appl + s.hidden + s.extra)
          /\ (pcm.appl + s.hidden + s.extra) - Len(s'.fifo) = FirstDue /\ pcm.hw = seen.hw
      BY <1>2, <1>13, SyncedIs
    <2>2. sent' = sent
      BY <1>4, <1>13
    <2>3. Ordered'
      BY <1>9, <2>1 DEF Ordered
    <2>4. FirstDue' = FirstDue
      BY <1>9, <2>1
    <2>5. Labelled'
      BY <1>1, <1>3, <1>9, <2>2, <2>4 DEF Labelled
    <2>6. Pointed'
      BY <1>1, <1>3, <1>9, <2>1, <2>2, <2>4 DEF Pointed
    <2> QED BY <1>6, <1>7, <1>8, <1>10, <1>11, <2>3, <2>5, <2>6 DEF PlayInv
  <1> QED BY <1>12, <1>13

LEMMA WritesInv ==
  ASSUME PlayInv, NEW n \in 1 .. Buffer, Playback!Write(n)
  PROVE  PlayInv'
  <1>1. Playback!Quiet /\ Live /\ pcm.state \in {"prepared", "running"} /\ n \in Nat
    BY PlayGeometry DEF Playback!Write, Live
  <1>2. CASE Playback!SyncFails
    BY <1>1, <1>2, SyncXrunInv DEF Playback!Write
  <1>3. CASE ~Playback!SyncFails
    <2>1. /\ Playback!Sync /\ UNCHANGED <<mode, pcm, heard, engine>>
          /\ call' = [Playback!Idle EXCEPT !.op = "write", !.pc = "copy", !.left = n]
      BY <1>3 DEF Playback!Write
    <2>2. call' \in PlayCall /\ call'.pc = "copy" /\ call'.op = "write" /\ call'.done = 0
      BY <1>1, <2>1 DEF PlayCall, Playback!Idle
    <2> QED BY <1>1, <1>3, <2>1, <2>2, SyncInv DEF Playback!Quiet
  <1> QED BY <1>2, <1>3

LEMMA PointerInv == ASSUME PlayInv, Playback!Pointer PROVE PlayInv'
  <1>1. Playback!Quiet /\ Live
    BY DEF Playback!Pointer, Live
  <1>2. CASE Playback!SyncFails
    BY <1>1, <1>2, SyncXrunInv DEF Playback!Pointer
  <1>3. CASE ~Playback!SyncFails
    <2>1. /\ Playback!Sync /\ UNCHANGED <<mode, pcm, heard, engine>>
          /\ \/ call' = [Playback!Idle EXCEPT !.op = "pointer", !.pc = "flush"] /\ s.running
             \/ call' = [Playback!Idle EXCEPT !.op = "pointer", !.pc = "report"]
      BY <1>3 DEF Playback!Pointer
    <2>2. call' \in PlayCall /\ call'.op = "pointer" /\ call'.done = 0
          /\ (call'.pc = "report" \/ (call'.pc = "flush" /\ s.running))
      <3>1. CASE call' = [Playback!Idle EXCEPT !.op = "pointer", !.pc = "flush"]
            /\ s.running
        BY <3>1 DEF PlayCall, Playback!Idle
      <3>2. CASE call' = [Playback!Idle EXCEPT !.op = "pointer", !.pc = "report"]
        BY <3>2 DEF PlayCall, Playback!Idle
      <3> QED BY <2>1, <3>1, <3>2
    <2> QED BY <1>1, <1>3, <2>1, <2>2, SyncInv DEF Playback!Quiet
  <1> QED BY <1>2, <1>3

(* Padding completes the last period.                                          *)
LEMMA WholePeriods ==
  ASSUME NEW n \in Nat, n <= Buffer, NEW pad, pad = (P - (n % P)) % P
  PROVE  /\ pad \in Nat /\ n + pad <= Buffer /\ (n = 0 => pad = 0)
         /\ \E k \in Nat : n + pad = k * P
  <1>1. P \in Nat /\ P >= 1 /\ Buffer \in Nat
    BY PlayGeometry
  <1>2. Buffer % P = 0
    BY StreamsAssumption DEF Playback!PlaybackGeometry
  <1>3. PICK q \in Nat : Buffer = q * P
    <2>1. Buffer = P * (Buffer \div P) + (Buffer % P) /\ Buffer \div P \in Nat
      BY <1>1, SMT
    <2>2. P * (Buffer \div P) = (Buffer \div P) * P
      BY <1>1, <2>1, SMT
    <2>3. P * (Buffer \div P) \in Nat
      BY <1>1, <2>1, SMT
    <2>4. Buffer = (Buffer \div P) * P
      BY <1>1, <1>2, <2>1, <2>2, <2>3
    <2> QED BY <2>1, <2>4
  <1> DEFINE r == n % P
             m == n \div P
  <1>4. n = P * m + r /\ m \in Nat /\ r \in Nat /\ r < P
    BY <1>1, SMT
  <1>5. P * m = m * P /\ (m + 1) * P = m * P + P /\ m * P \in Nat
    BY <1>1, <1>4, SMT
  <1> HIDE DEF r, m
  <1>6. CASE r = 0
    <2>1. pad = 0
      <3>1. pad = P % P
        BY <1>1, <1>6 DEF r
      <3> QED BY <3>1, <1>1, SMT
    <2> QED BY <2>1, <1>1, <1>4, <1>5, <1>6
  <1>7. CASE r # 0
    <2>1. pad = P - r /\ pad \in Nat
      <3>1. P - r \in Nat /\ P - r < P /\ pad = (P - r) % P
        BY <1>1, <1>4, <1>7 DEF r
      <3>2. \A x \in Nat : x < P => x % P = x
        BY <1>1, SMT
      <3> QED BY <3>1, <3>2
    <2>2. n + pad = (m + 1) * P /\ m + 1 \in Nat
      BY <2>1, <1>1, <1>4, <1>5
    <2>3. n + pad <= Buffer
      <3>1. m * P < q * P
        BY <1>1, <1>3, <1>4, <1>5, <1>7
      <3>2. m < q
        BY <3>1, <1>1, <1>4, SMT
      <3>3. (m + 1) * P <= q * P
        BY <3>2, <1>1, <1>4, SMT
      <3> QED BY <2>2, <3>3, <1>3
    <2>4. n # 0
      BY <1>1, <1>7, SMT DEF r
    <2> QED BY <2>1, <2>2, <2>3, <2>4
  <1> QED BY <1>4, <1>6, <1>7

LEMMA PaddedIs ==
  ASSUME PlayInv, Live, NEW t, t = Playback!Padded(s)
  PROVE  /\ t \in Transfer /\ Len(t.fifo) <= Buffer /\ t.locked <= Len(t.fifo)
         /\ t.next = s.next /\ t.cycle = s.cycle /\ t.last = s.last /\ t.origin = s.origin
         /\ t.running = s.running /\ t.position = s.position /\ t.extra = s.extra
         /\ Follows(t.fifo, seen.appl + call.done + t.hidden + t.extra)
         /\ (seen.appl + call.done + t.hidden + t.extra) - Len(t.fifo) = FirstDue
         /\ Periodic(Len(t.fifo))
  <1> DEFINE pad == (P - (Len(s.fifo) % P)) % P
  <1>1. PlayTyped /\ s \in Transfer /\ Bounded /\ Queued = Len(s.fifo)
        /\ Follows(s.fifo, NextDue)
    BY PlayPieces DEF PlayInv, PlayTypes, Queued, Ordered
  <1>2. /\ seen.appl \in Nat /\ call.done \in Nat /\ s.hidden \in Nat /\ s.extra \in Nat /\ Queued \in Nat
        /\ s.fifo \in Seq(Nat) /\ Queued <= Buffer /\ s.locked <= Queued /\ s.locked \in Nat
    BY <1>1 DEF PlayTyped, Bounded
  <1>3. NextDue = seen.appl + call.done + s.hidden + s.extra /\ NextDue \in Nat
    BY <1>2 DEF NextDue
  <1>4. /\ pad \in Nat /\ Queued + pad <= Buffer /\ (Queued = 0 => pad = 0)
        /\ Periodic(Queued + pad)
    BY <1>1, <1>2, WholePeriods, SMTT(30) DEF Periodic, Span
  <1>5. CASE pad = 0
    <2>1. t = s
      BY <1>5 DEF Playback!Padded
    <2>2. Queued + 0 = Queued
      BY <1>2
    <2> HIDE DEF pad
    <2> QED BY <1>1, <1>2, <1>3, <1>4, <1>5, <2>1, <2>2 DEF FirstDue
  <1>6. CASE pad # 0
    <2> DEFINE fifo == s.fifo \o Playback!Run(NextDue, pad)
    <2>1. Playback!Last(s.fifo) + 1 = NextDue
      <3>1. Len(s.fifo) \in 1 .. Len(s.fifo)
        BY <1>1, <1>2, <1>4, <1>6
      <3>2. s.fifo[Len(s.fifo)] = NextDue - Len(s.fifo) + Len(s.fifo) - 1
        BY <1>1, <3>1 DEF Follows
      <3> QED BY <1>1, <1>2, <1>3, <3>2 DEF Playback!Last
    <2>2. t = [s EXCEPT !.fifo = s.fifo \o Playback!Run(Playback!Last(s.fifo) + 1, pad),
                        !.hidden = s.hidden + pad, !.locked = Len(s.fifo) + pad]
      BY <1>1, <1>6 DEF Playback!Padded, Transfer
    <2>3. fifo \in Seq(Nat) /\ Len(fifo) = Queued + pad /\ Follows(fifo, NextDue + pad)
      BY <1>1, <1>2, <1>3, <1>4, Appended
    <2>4. t = [s EXCEPT !.fifo = fifo, !.hidden = s.hidden + pad, !.locked = Queued + pad]
      BY <1>1, <2>1, <2>2
    <2> HIDE DEF fifo, pad
    <2>5. s.hidden + pad \in Nat /\ Queued + pad \in Nat
      BY <1>2, <1>4
    <2>6. t \in Transfer /\ t.fifo = fifo /\ t.hidden = s.hidden + pad
          /\ t.locked = Queued + pad /\ t.extra = s.extra
          /\ t.next = s.next /\ t.cycle = s.cycle /\ t.last = s.last /\ t.origin = s.origin
          /\ t.running = s.running /\ t.position = s.position
      BY <1>1, <2>3, <2>4, <2>5 DEF Transfer
    <2>7. seen.appl + call.done + t.hidden + t.extra = NextDue + pad
      BY <1>2, <1>3, <1>4, <2>6, SMTT(30)
    <2>8. (NextDue + pad) - (Queued + pad) = NextDue - Queued
      BY <1>2, <1>3, <1>4
    <2>9. Len(t.fifo) = Queued + pad /\ Len(t.fifo) <= Buffer /\ t.locked <= Len(t.fifo)
      BY <1>4, <2>3, <2>5, <2>6
    <2> QED BY <1>4, <2>3, <2>6, <2>7, <2>8, <2>9 DEF FirstDue
  <1> QED BY <1>5, <1>6

(* START: the stream runs from here on, and what is queued is flushed.         *)
LEMMA BeganInv ==
  ASSUME PlayInv, call.pc = "idle", Live, NEW op \in {"start", "begin"}, Playback!Began(op, s),
         UNCHANGED <<mode, seen, heard, engine, sent>>, Playback!SeenNow = seen, pcm' \in PlayPcm,
         pcm'.appl = pcm.appl, pcm'.hw = pcm.hw,
         pcm'.state = IF op = "start" THEN "prepared" ELSE "draining",
         ~s.running
  PROVE  PlayInv'
  <1>1. PlayTyped /\ s \in Transfer /\ Bounded /\ Called /\ Begun /\ Labelled /\ Pointed
        /\ Ordered
        /\ call = Playback!Idle /\ call.done = 0
    BY PlayPieces DEF PlayInv, PlayTypes, Called, Playback!Idle
  <1>2. sent = None /\ s.next = None /\ s.cycle = None /\ seen.hw = 0
    BY <1>1 DEF Begun, Starting, Playback!Idle
  <1> DEFINE t == IF Len(s.fifo) < P THEN Playback!Padded(s) ELSE s
  <1>3. s' = [t EXCEPT !.position = 0]
        /\ call' = [Playback!Idle EXCEPT !.op = op, !.pc = "flush"]
    BY DEF Playback!Began
  <1>4. /\ t \in Transfer /\ Len(t.fifo) <= Buffer /\ t.locked <= Len(t.fifo)
        /\ t.next = s.next /\ t.cycle = s.cycle /\ t.last = s.last /\ t.origin = s.origin
        /\ t.running = s.running /\ t.extra = s.extra
        /\ Follows(t.fifo, seen.appl + call.done + t.hidden + t.extra)
        /\ (seen.appl + call.done + t.hidden + t.extra) - Len(t.fifo) = FirstDue
    <2>1. CASE Len(s.fifo) < P
      BY <2>1, PaddedIs
    <2>2. CASE ~(Len(s.fifo) < P)
      BY <2>2, <1>1 DEF Bounded, Queued, Ordered, NextDue, FirstDue
    <2> QED BY <2>1, <2>2
  <1> HIDE DEF t
  <1>5. /\ s' \in Transfer /\ s'.fifo = t.fifo /\ s'.locked = t.locked /\ s'.next = s.next
        /\ s'.cycle = s.cycle /\ s'.last = s.last /\ s'.origin = s.origin
        /\ s'.running = s.running /\ s'.hidden = t.hidden /\ s'.extra = t.extra
        /\ s'.position = 0
    BY <1>3, <1>4 DEF Transfer
  <1>6. call' \in PlayCall /\ call'.pc = "flush" /\ call'.op = op /\ call'.done = 0
    BY <1>3 DEF PlayCall, Playback!Idle
  <1>7. PlayTypes' /\ Bounded'
    BY <1>4, <1>5, <1>6 DEF PlayInv, PlayTypes, Bounded, Queued
  <1>8. pcm.appl = seen.appl /\ pcm.hw = seen.hw
    BY DEF Playback!SeenNow
  <1>9. Called'
    BY <1>1, <1>5, <1>6, <1>8 DEF Called, Live, Starting, Playback!SeenNow
  <1>10. NextDue' = seen.appl + call.done + t.hidden + t.extra /\ FirstDue' = FirstDue
         /\ Playback!Pro' = Playback!Pro
    <2>1. NextDue' = seen.appl + call.done + t.hidden + t.extra
      BY <1>1, <1>5, <1>6 DEF NextDue
    <2> QED BY <2>1, <1>4, <1>5 DEF FirstDue, Queued, Playback!Pro
  <1>11. Ordered'
    BY <1>4, <1>5, <1>10 DEF Ordered
  <1>12. Begun' /\ Drained' /\ Labelled'
    BY <1>2, <1>5, <1>6 DEF Begun, Starting, Drained, Labelled
  <1>13. Pointed'
    BY <1>1, <1>2, <1>5, <1>10 DEF Pointed
  <1> QED BY <1>7, <1>9, <1>11, <1>12, <1>13 DEF PlayInv

LEMMA PlayStartInv == ASSUME PlayInv, Playback!Start PROVE PlayInv'
  <1>1. /\ call.pc = "idle" /\ pcm.state = "prepared" /\ Playback!SeenNow = seen
        /\ Playback!Began("start", s) /\ UNCHANGED <<mode, pcm, seen, heard, engine, sent>>
    BY DEF Playback!Start, Playback!Quiet
  <1>2. pcm \in PlayPcm /\ Live /\ ~s.running
    BY <1>1 DEF PlayInv, PlayTypes, Live, Called
  <1> QED BY <1>1, <1>2, BeganInv

LEMMA DrainInv == ASSUME PlayInv, Playback!Drain PROVE PlayInv'
  <1>1. /\ call.pc = "idle" /\ Live /\ Playback!SeenNow = seen
        /\ pcm' = [pcm EXCEPT !.state = "draining"]
        /\ UNCHANGED <<mode, seen, heard, engine, sent>>
    BY DEF Playback!Drain, Playback!Quiet, Live
  <1>2. pcm' \in PlayPcm /\ pcm'.state = "draining" /\ pcm'.appl = pcm.appl
        /\ pcm'.hw = pcm.hw
    BY <1>1 DEF PlayInv, PlayTypes, PlayPcm, PlayStates
  <1>3. CASE ~s.running
    <2>1. Playback!Began("begin", s)
      BY <1>3 DEF Playback!Drain
    <2> QED BY <1>1, <1>2, <1>3, <2>1, BeganInv
  <1>4. CASE s.running
    <2>1. s' = s /\ call' = [Playback!Idle EXCEPT !.op = "drain", !.pc = "pad"]
      BY <1>4 DEF Playback!Drain
    <2>2. call' \in PlayCall /\ call'.op = "drain" /\ call'.pc = "pad" /\ call'.done = 0
      BY <2>1 DEF PlayCall, Playback!Idle
    <2>3. call.done = 0 /\ call.pc = "idle" /\ Called
      BY <1>1 DEF PlayInv, Called, Playback!Idle
    <2>4. PlayTypes' /\ Bounded'
      BY <1>1, <1>2, <2>1, <2>2 DEF PlayInv, PlayTypes, Bounded, Queued
    <2>5. NextDue' = NextDue /\ FirstDue' = FirstDue /\ Queued' = Queued
          /\ Playback!Pro' = Playback!Pro /\ Live'
      <3>1. NextDue' = NextDue /\ Queued' = Queued
        BY <1>1, <2>1, <2>2, <2>3 DEF NextDue, Queued
      <3> QED BY <3>1, <1>1, <1>2 DEF FirstDue, Playback!Pro, Live
    <2>6. pcm.appl = seen.appl /\ pcm.hw = seen.hw
      BY <1>1 DEF Playback!SeenNow
    <2>7. Called'
      BY <1>1, <1>2, <1>4, <2>1, <2>2, <2>3, <2>5, <2>6 DEF Called, Starting,
         Playback!SeenNow
    <2>8. Ordered' /\ Drained'
      BY <1>1, <2>1, <2>2, <2>5 DEF PlayInv, Ordered, Drained
    <2>9. Begun'
      BY <1>1, <1>4, <2>1, <2>5 DEF PlayInv, Begun
    <2>10. Labelled'
      BY <1>1, <2>1, <2>5 DEF PlayInv, Labelled
    <2>11. Pointed'
      BY <1>1, <1>2, <2>1, <2>5 DEF PlayInv, Pointed
    <2> QED BY <2>4, <2>7, <2>8, <2>9, <2>10, <2>11 DEF PlayInv
  <1> QED BY <1>3, <1>4

(* A drain pads, flushes and waits.                                            *)
LEMMA DrainPadsInv == ASSUME PlayInv, Playback!DrainPads PROVE PlayInv'
  <1>1. /\ call.pc = "pad" /\ s' = Playback!Padded(s)
        /\ call' = [call EXCEPT !.pc = "flush", !.progressed = FALSE]
        /\ UNCHANGED <<mode, pcm, seen, heard, engine, sent>>
    BY DEF Playback!DrainPads
  <1>2. Called /\ Begun /\ Labelled /\ Pointed /\ call \in PlayCall /\ Live
        /\ call.op = "drain"
        /\ pcm.state = "draining" /\ s.running
    BY <1>1 DEF PlayInv, PlayTypes, Called, Starting
  <1>3. /\ s' \in Transfer /\ Len(s'.fifo) <= Buffer /\ s'.locked <= Len(s'.fifo)
        /\ UNCHANGED <<s.next, s.cycle, s.last, s.origin, s.running, s.position, s.extra>>
        /\ Follows(s'.fifo, seen.appl + call.done + s'.hidden + s'.extra)
        /\ (seen.appl + call.done + s'.hidden + s'.extra) - Len(s'.fifo) = FirstDue
        /\ Periodic(Len(s'.fifo))
    BY <1>1, <1>2, PaddedIs
  <1>4. call' \in PlayCall /\ call'.pc = "flush" /\ call'.op = call.op
        /\ call'.done = call.done
    BY <1>1, <1>2 DEF PlayCall
  <1>5. PlayTypes' /\ Bounded'
    BY <1>1, <1>3, <1>4 DEF PlayInv, PlayTypes, Bounded, Queued
  <1>6. NextDue' = seen.appl + call.done + s'.hidden + s'.extra /\ FirstDue' = FirstDue
        /\ Playback!Pro' = Playback!Pro /\ Live' /\ Queued' = Len(s'.fifo)
    <2>1. NextDue' = seen.appl + call.done + s'.hidden + s'.extra
      BY <1>1, <1>4 DEF NextDue
    <2> QED BY <2>1, <1>1, <1>2, <1>3 DEF FirstDue, Queued, Playback!Pro, Live
  <1>7. Called'
    BY <1>1, <1>2, <1>3, <1>4, <1>6 DEF Called, Starting, Playback!SeenNow
  <1>8. Ordered' /\ Drained'
    BY <1>3, <1>4, <1>6 DEF Ordered, Drained
  <1>9. Begun'
    BY <1>1, <1>2, <1>3, <1>6 DEF Begun
  <1>10. Labelled'
    BY <1>1, <1>2, <1>3, <1>6 DEF Labelled
  <1>11. Pointed'
    BY <1>1, <1>2, <1>3, <1>6 DEF Pointed
  <1> QED BY <1>5, <1>7, <1>8, <1>9, <1>10, <1>11 DEF PlayInv

LEMMA DrainFlushesInv == ASSUME PlayInv, Playback!DrainFlushes PROVE PlayInv'
  <1>1. /\ call.pc = "drain" /\ UNCHANGED <<mode, pcm, seen, s, heard, engine, sent>>
        /\ \/ call' = Playback!Idle
           \/ call' = [call EXCEPT !.pc = "flush", !.progressed = FALSE]
    BY DEF Playback!DrainFlushes
  <1>2. Called /\ Begun /\ Drained /\ call \in PlayCall /\ Live /\ call.op = "drain"
        /\ s.running
        /\ call.done = 0 /\ s \in Transfer /\ heard \in MaybeNat
    BY <1>1 DEF PlayInv, PlayTypes, Called, Starting
  <1>3. /\ call' \in PlayCall /\ call'.done = 0
        /\ \/ call' = Playback!Idle
           \/ call'.pc = "flush" /\ call'.op = "drain"
    <2>1. CASE call' = Playback!Idle
      BY <2>1 DEF PlayCall, Playback!Idle
    <2>2. CASE call' = [call EXCEPT !.pc = "flush", !.progressed = FALSE]
      BY <1>2, <2>2 DEF PlayCall
    <2> QED BY <1>1, <2>1, <2>2
  <1>4. Called'
    <2>1. CASE call' = Playback!Idle
      BY <1>1, <1>2, <2>1 DEF Called, Live, Starting, Playback!Idle, Playback!SeenNow
    <2>2. CASE call'.pc = "flush" /\ call'.op = "drain"
      BY <1>1, <1>2, <1>3, <2>2 DEF Called, Live, Starting, Playback!SeenNow
    <2> QED BY <1>3, <2>1, <2>2
  <1>5. Drained'
    <2>1. CASE call' = Playback!Idle
      BY <2>1 DEF Drained, Playback!Idle
    <2>2. CASE call'.pc = "flush" /\ call'.op = "drain"
      BY <1>1, <1>2, <2>2 DEF Drained, Queued
    <2> QED BY <1>3, <2>1, <2>2
  <1> QED BY <1>1, <1>2, <1>3, <1>4, <1>5, StageInv DEF Begun

LEMMA DrainWaitsInv == ASSUME PlayInv, Playback!DrainWaits PROVE PlayInv'
  <1>1. /\ call.pc = "drain" /\ Queued < P /\ UNCHANGED <<mode, pcm, seen, engine, sent>>
        /\ \/ /\ s.last = None \/ (s.cycle # None /\ Playback!Consumed(s.last, s.cycle))
              /\ call' = [call EXCEPT !.pc = "drained"] /\ UNCHANGED <<s, heard>>
           \/ /\ engine.start # None /\ heard' = engine.cycle /\ call' = call
              /\ s' = [s EXCEPT !.cycle = engine.cycle]
           \/ call' = Playback!Idle /\ UNCHANGED <<s, heard>>
    BY DEF Playback!DrainWaits, Playback!Passed, Playback!CycleReady, Playback!Size, Queued
  <1>2. Called /\ Begun /\ Drained /\ call \in PlayCall /\ Live /\ call.op = "drain"
        /\ s.running
        /\ call.done = 0 /\ s \in Transfer /\ heard \in MaybeNat /\ PlayTyped
    BY <1>1, PlayPieces DEF PlayInv, PlayTypes, Called, Starting
  <1>3. engine.cycle \in MaybeNat /\ engine.cycle <= engine.cycle
    <2>1. engine.cycle \in Nat
      BY <1>2 DEF PlayTyped
    <2> QED BY <2>1 DEF MaybeNat
  <1>4. CASE /\ s.last = None \/ (s.cycle # None /\ Playback!Consumed(s.last, s.cycle))
             /\ call' = [call EXCEPT !.pc = "drained"] /\ UNCHANGED <<s, heard>>
    <2>1. call' \in PlayCall /\ call'.pc = "drained" /\ call'.op = "drain"
          /\ call'.done = call.done
      BY <1>2, <1>4 DEF PlayCall
    <2>2. Called'
      BY <1>1, <1>2, <1>4, <2>1 DEF Called, Live, Starting, Playback!SeenNow
    <2>3. Queued = 0
      <3>1. PICK k \in Nat : Queued = Span(k)
        BY <1>1, <1>2 DEF Drained, Periodic
      <3>2. k = 0
        <4>1. 1 <= k => Span(1) <= Span(k) /\ Span(1) = P
          BY Spans
        <4>2. Span(k) \in Nat
          BY Spans
        <4> QED BY <4>1, <4>2, <3>1, <1>1, PlayGeometry
      <3> QED BY <3>1, <3>2, Spans
    <2>4. sent # None => s.last = sent.label /\ s.last # None
      BY <1>2, PlayGeometry DEF Begun, PlayTyped
    <2>5. Drained'
      BY <1>1, <1>2, <1>4, <2>1, <2>3, <2>4 DEF Drained, Queued, Playback!Consumed,
         Playback!Pro
    <2> QED BY <1>1, <1>2, <1>4, <2>1, <2>2, <2>5, StageInv DEF Begun
  <1>5. CASE /\ engine.start # None /\ heard' = engine.cycle /\ call' = call
             /\ s' = [s EXCEPT !.cycle = engine.cycle]
    <2>1. s' \in Transfer /\ s'.cycle = engine.cycle
          /\ UNCHANGED <<s.fifo, s.next, s.hidden, s.extra, s.locked, s.last, s.origin, s.position, s.running>>
      BY <1>2, <1>3, <1>5 DEF Transfer
    <2>2. Called'
      BY <1>1, <1>2, <1>5, <2>1 DEF Called, Live, Starting, Playback!SeenNow
    <2>3. Drained'
      BY <1>1, <1>2, <1>5, <2>1 DEF Drained, Queued
    <2> QED BY <1>1, <1>2, <1>3, <1>5, <2>1, <2>2, <2>3, StageInv
  <1>6. CASE call' = Playback!Idle /\ UNCHANGED <<s, heard>>
    <2>1. call' \in PlayCall /\ call'.done = 0
      BY <1>6 DEF PlayCall, Playback!Idle
    <2>2. Called'
      BY <1>1, <1>2, <1>6 DEF Called, Live, Starting, Playback!Idle, Playback!SeenNow
    <2>3. Drained'
      BY <1>6 DEF Drained, Playback!Idle
    <2> QED BY <1>1, <1>2, <1>6, <2>1, <2>2, <2>3, StageInv DEF Begun
  <1> QED BY <1>1, <1>4, <1>5, <1>6

(* A write copies what fits, and reports or flushes it.                        *)
LEMMA PlayCopyInv ==
  ASSUME PlayInv, Playback!Copy
  PROVE  PlayInv'
  <1> DEFINE n == Playback!Least(call.left, Buffer - Playback!Size)
  <1>1. /\ call.pc = "copy" /\ Called /\ Begun /\ Labelled /\ Pointed /\ PlayTyped
        /\ Bounded
        /\ s \in Transfer /\ call \in PlayCall /\ pcm \in PlayPcm /\ seen \in Cursors
        /\ heard \in MaybeNat
        /\ UNCHANGED <<mode, heard, engine, sent>>
    BY PlayPieces DEF Playback!Copy, PlayInv, PlayTypes
  <1>2. Live /\ call.op = "write" /\ pcm.appl = seen.appl /\ pcm.hw = seen.hw
        /\ pcm.state \in {"prepared", "running"}
    BY <1>1 DEF Called
  <1>3. /\ seen.appl \in Nat /\ call.done \in Nat /\ call.left \in Nat /\ s.hidden \in Nat /\ s.extra \in Nat
        /\ Queued \in Nat /\ Queued <= Buffer /\ s.locked <= Queued /\ s.fifo \in Seq(Nat)
        /\ Queued = Len(s.fifo) /\ Playback!Size = Queued
    BY <1>1 DEF PlayTyped, Bounded, Queued, Playback!Size
  <1>4. n \in Nat /\ Queued + n <= Buffer /\ call.left - n \in Nat
    BY <1>3, PlayGeometry, SMTT(30) DEF Playback!Least
  <1>5. CASE n = 0 /\ s.running
    <2>1. /\ call' = [call EXCEPT !.pc = "flush", !.full = TRUE, !.progressed = FALSE]
          /\ UNCHANGED <<pcm, seen, s>>
      BY <1>5 DEF Playback!Copy
    <2>2. call' \in PlayCall /\ call'.pc = "flush" /\ call'.op = "write"
          /\ call'.done = call.done
      BY <1>1, <1>2, <2>1 DEF PlayCall
    <2>3. Called'
      BY <1>1, <1>2, <1>5, <2>1, <2>2 DEF Called, Live, Starting, Playback!SeenNow
    <2>4. Drained'
      BY <2>2 DEF Drained
    <2> QED BY <1>1, <1>5, <2>1, <2>2, <2>3, <2>4, StageInv DEF Begun
  <1>6. CASE ~(n = 0 /\ s.running)
    <2> DEFINE fifo == s.fifo \o Playback!Run(pcm.appl + call.done + s.hidden + s.extra, n)
    <2>1. NextDue = pcm.appl + call.done + s.hidden + s.extra /\ NextDue \in Nat
      BY <1>2, <1>3 DEF NextDue
    <2>2. s' = [s EXCEPT !.fifo = fifo]
      BY <1>1, <1>6 DEF Playback!Copy, Transfer
    <2>3. \/ /\ s.running /\ UNCHANGED <<pcm, seen>>
             /\ call' = [call EXCEPT !.pc = "flush", !.full = FALSE, !.left = call.left - n,
                                     !.done = call.done + n]
          \/ /\ ~s.running /\ call' = Playback!Idle
             /\ pcm' = [pcm EXCEPT !.appl = pcm.appl + n]
             /\ seen' = [seen EXCEPT !.appl = pcm.appl + n]
      BY <1>1, <1>6 DEF Playback!Copy, PlayCall, PlayPcm
    <2>4. fifo \in Seq(Nat) /\ Len(fifo) = Queued + n /\ Follows(fifo, NextDue + n)
      <3>1. Follows(s.fifo, NextDue)
        BY <1>2 DEF PlayInv, Ordered
      <3> QED BY <3>1, <1>3, <1>4, <2>1, Appended
    <2> HIDE DEF fifo, n
    <2>5. s' \in Transfer /\ s'.fifo = fifo
          /\ UNCHANGED <<s.next, s.cycle, s.last, s.origin, s.position, s.hidden, s.extra, s.locked, s.running>>
      BY <1>1, <2>2, <2>4 DEF Transfer
    <2>6. /\ pcm' \in PlayPcm /\ seen' \in Cursors /\ call' \in PlayCall
          /\ seen'.appl + call'.done = seen.appl + call.done + n
          /\ pcm'.state = pcm.state /\ pcm'.hw = pcm.hw /\ seen'.hw = seen.hw
          /\ pcm'.appl = seen'.appl /\ call'.op # "drain" /\ call'.pc # "drained"
          /\ \/ s.running /\ call'.op = "write" /\ call'.pc = "flush"
             \/ ~s.running /\ call' = Playback!Idle
      <3>1. CASE /\ s.running /\ UNCHANGED <<pcm, seen>>
                 /\ call' = [call EXCEPT !.pc = "flush", !.full = FALSE, !.left = call.left - n,
                                         !.done = call.done + n]
        <4>1. call.done + n \in Nat
          BY <1>3, <1>4
        <4>2. call' \in PlayCall /\ call'.done = call.done + n /\ call'.op = "write"
              /\ call'.pc = "flush"
          BY <1>1, <1>2, <1>4, <3>1, <4>1 DEF PlayCall
        <4>3. seen'.appl + call'.done = seen.appl + call.done + n
          BY <1>3, <1>4, <3>1, <4>2
        <4> QED BY <1>1, <1>2, <3>1, <4>2, <4>3
      <3>2. CASE /\ ~s.running /\ call' = Playback!Idle
                 /\ pcm' = [pcm EXCEPT !.appl = pcm.appl + n]
                 /\ seen' = [seen EXCEPT !.appl = pcm.appl + n]
        <4>1. pcm.appl + n \in Nat /\ call.done = 0
          BY <1>1, <1>2, <1>3, <1>4, <3>2, SMTT(30) DEF Called
        <4>2. call' \in PlayCall /\ call'.done = 0 /\ call'.op # "drain"
              /\ call'.pc # "drained"
          BY <3>2 DEF PlayCall, Playback!Idle
        <4>3. pcm' \in PlayPcm /\ pcm'.state = pcm.state /\ pcm'.hw = pcm.hw
              /\ pcm'.appl = pcm.appl + n
          BY <1>1, <3>2, <4>1 DEF PlayPcm
        <4>4. seen' \in Cursors /\ seen'.hw = seen.hw /\ seen'.appl = pcm.appl + n
          BY <1>1, <3>2, <4>1 DEF Cursors
        <4>5. seen'.appl + call'.done = seen.appl + call.done + n
          BY <1>2, <1>3, <1>4, <4>1, <4>2, <4>4
        <4> QED BY <3>2, <4>2, <4>3, <4>4, <4>5
      <3> QED BY <2>3, <3>1, <3>2
    <2>7. PlayTypes' /\ Bounded'
      <3>1. s'.locked <= Len(s'.fifo) /\ Len(s'.fifo) <= Buffer
        BY <1>3, <1>4, <2>4, <2>5, SMTT(30) DEF Transfer
      <3> QED BY <1>1, <2>5, <2>6, <3>1 DEF PlayInv, PlayTypes, Bounded, Queued
    <2>8. Called'
      <3>1. CASE s.running /\ call'.op = "write" /\ call'.pc = "flush"
        BY <1>1, <1>2, <2>5, <2>6, <3>1 DEF Called, Live, Starting, Playback!SeenNow
      <3>2. CASE ~s.running /\ call' = Playback!Idle
        BY <1>1, <1>2, <2>5, <2>6, <3>2 DEF Called, Live, Starting, Playback!Idle,
           Playback!SeenNow
      <3> QED BY <2>6, <3>1, <3>2
    <2>9. /\ NextDue' = NextDue + n /\ FirstDue' = FirstDue /\ Playback!Pro' = Playback!Pro
          /\ Live' = Live
      <3>1. NextDue' = NextDue + n
        <4>1. seen'.appl \in Nat /\ call'.done \in Nat
          BY <2>6 DEF Cursors, PlayCall
        <4>2. NextDue' = (seen.appl + call.done + n) + s.hidden + s.extra
          BY <2>5, <2>6 DEF NextDue
        <4>3. NextDue = (seen.appl + call.done) + s.hidden + s.extra
          BY DEF NextDue
        <4> QED BY <1>3, <1>4, <4>2, <4>3, SMTT(30)
      <3>2. Queued' = Queued + n
        BY <2>4, <2>5 DEF Queued
      <3>3. (NextDue + n) - (Queued + n) = NextDue - Queued
        BY <1>3, <1>4, <2>1
      <3> QED BY <1>1, <2>6, <3>1, <3>2, <3>3 DEF FirstDue, Playback!Pro, Live
    <2>10. Ordered' /\ Drained'
      BY <2>4, <2>5, <2>6, <2>9 DEF Ordered, Drained
    <2>11. Begun'
      BY <1>1, <1>2, <2>5, <2>6, <2>9 DEF Begun, Starting, Playback!Idle
    <2>12. Labelled'
      BY <1>1, <2>5, <2>9 DEF Labelled
    <2>13. Pointed'
      BY <1>1, <2>5, <2>6, <2>9 DEF Pointed
    <2> QED BY <2>7, <2>8, <2>10, <2>11, <2>12, <2>13 DEF PlayInv
  <1> QED BY <1>5, <1>6

(* The pointer is reported.                                                    *)
LEMMA PlayReportInv == ASSUME PlayInv, Playback!Report PROVE PlayInv'
  <1>1. /\ call.pc = "report" /\ Called /\ Begun /\ Labelled /\ Pointed /\ Drained
        /\ PlayTyped
        /\ pcm \in PlayPcm /\ seen \in Cursors /\ engine \in Cycles /\ s \in Transfer
        /\ call' = Playback!Idle /\ UNCHANGED <<mode, s, heard, engine, sent>>
        /\ Playback!Position \in Nat /\ heard \in MaybeNat
    BY PlayPieces, PositionIsNat DEF Playback!Report, PlayInv, PlayTypes
  <1>2. Live /\ call.op = "pointer" /\ pcm.appl = seen.appl /\ pcm.hw = seen.hw
        /\ call.done = 0
    BY <1>1 DEF Called
  <1>3. \/ pcm' = [pcm EXCEPT !.state = "xrun"] /\ seen' = seen
        \/ pcm' = [pcm EXCEPT !.hw = Playback!Position]
           /\ seen' = [seen EXCEPT !.hw = Playback!Position]
    BY DEF Playback!Report
  <1>4. CASE pcm' = [pcm EXCEPT !.state = "xrun"] /\ seen' = seen
    <2>1. Bounded' /\ s' \in Transfer
      BY <1>1 DEF PlayInv, Bounded, Queued
    <2> QED BY <1>1, <1>2, <1>4, <2>1, DeadInv
  <1>5. CASE /\ pcm' = [pcm EXCEPT !.hw = Playback!Position]
             /\ seen' = [seen EXCEPT !.hw = Playback!Position]
    <2>1. /\ pcm' \in PlayPcm /\ pcm'.state = pcm.state /\ pcm'.appl = pcm.appl
          /\ pcm'.hw = Playback!Position
      BY <1>1, <1>5 DEF PlayPcm
    <2>2. seen' \in Cursors /\ seen'.appl = seen.appl /\ seen'.hw = Playback!Position
      BY <1>1, <1>5 DEF Cursors
    <2>3. call' \in PlayCall /\ call'.done = 0 /\ call'.op = "none" /\ call'.pc = "idle"
      BY <1>1 DEF PlayCall, Playback!Idle
    <2>4. PlayTypes' /\ Bounded'
      BY <1>1, <2>1, <2>2, <2>3 DEF PlayInv, PlayTypes, Bounded, Queued
    <2>5. Playback!SeenNow' = seen'
      BY <1>1, <1>2, <2>1, <2>2 DEF Playback!SeenNow, Cursors
    <2>6. Called'
      BY <1>1, <2>1, <2>2, <2>3, <2>5 DEF Called, Starting
    <2>7. /\ NextDue' = NextDue /\ FirstDue' = FirstDue /\ Queued' = Queued
          /\ Playback!Pro' = Playback!Pro /\ Live' = Live
      <3>1. NextDue' = NextDue /\ Queued' = Queued
        BY <1>1, <1>2, <2>2, <2>3 DEF NextDue, Queued
      <3> QED BY <3>1, <1>1, <2>1 DEF FirstDue, Playback!Pro, Live
    <2>8. Ordered' /\ Drained'
      BY <1>1, <2>3, <2>7 DEF PlayInv, Ordered, Drained
    <2>9. Begun'
      <3>1. ~s.running => Playback!Position = 0
        BY <1>1, <1>2 DEF Begun, Starting, Playback!Position
      <3> QED BY <1>1, <1>2, <2>2, <2>3, <2>7, <3>1 DEF Begun, Starting
    <2>10. Labelled'
      BY <1>1, <2>7 DEF Labelled
    <2>11. Pointed'
      <3> SUFFICES ASSUME Playback!Pro, Playback!Position > 0
                   PROVE  /\ s.origin # None /\ s.origin <= engine.play
                          /\ Playback!Position + s.hidden + Span(s.origin) <= Span(engine.play)
        BY <1>1, <1>2, <2>2, <2>7 DEF Pointed
      <3>1. s.position = 0 /\ engine.play \in Nat /\ s.hidden \in Nat /\ s.extra \in Nat
        BY <1>1, <1>2 DEF Pointed, PlayTyped
      <3>2. s.running
            /\ Playback!Position = Playback!Minus(Playback!RunningPosition, s.hidden)
        BY <3>1 DEF Playback!Position
      <3>3. s.origin # None /\ s.origin <= engine.play
            /\ Playback!RunningPosition = (engine.play - s.origin) * P
        <4>1. Playback!Minus(0, s.hidden) = 0
          BY <3>1 DEF Playback!Minus
        <4> QED BY <3>1, <3>2, <4>1 DEF Playback!RunningPosition
      <3>4. s.origin \in Nat
        BY <1>1, <3>3 DEF PlayTyped, MaybeNat
      <3>5. /\ Span(engine.play) \in Nat /\ Span(s.origin) \in Nat
            /\ Playback!RunningPosition = Span(engine.play) - Span(s.origin)
        BY <3>1, <3>3, <3>4, Spans DEF Span
      <3>6. Playback!Position = Playback!RunningPosition - s.hidden
        BY <3>1, <3>2, <3>5 DEF Playback!Minus
      <3> QED BY <3>1, <3>3, <3>5, <3>6
    <2> QED BY <2>4, <2>6, <2>8, <2>9, <2>10, <2>11 DEF PlayInv
  <1> QED BY <1>3, <1>4, <1>5

(* The strengthened invariant is inductive.                                    *)
LEMMA PlayStep == PlayInv /\ [Playback!Next]_(Playback!vars) => PlayInv'
  <1> SUFFICES ASSUME PlayInv, [Playback!Next]_(Playback!vars) PROVE PlayInv'
    OBVIOUS
  <1>1. CASE UNCHANGED Playback!vars
    BY <1>1 DEF Playback!vars, PlayInv, PlayTypes, Bounded, Called, Ordered, Begun,
       Labelled, Pointed, Drained, Queued, NextDue, FirstDue, Live, Starting, Playback!Idle,
       Playback!SeenNow, Playback!Pro, Playback!Consumed
  <1>2. CASE Playback!Application
    BY <1>2, PlayPrepareInv, PlayDropInv, PlayStartInv, PointerInv, DrainInv, MovesInv,
       WritesInv, PlayGeometry DEF Playback!Application
  <1>3. CASE Playback!Plugin
    BY <1>3, FlushEndsInv, ObserveInv, ExpiredInv, TooEarlyInv, PublishInv, RingFullInv,
       DiscontinuityInv, PlayTimesOutInv, PlayCopyInv, PlayReportInv, DrainPadsInv,
       DrainFlushesInv, DrainWaitsInv DEF Playback!Plugin
  <1>4. CASE Playback!Tick \/ Playback!Take \/ Playback!Activate \/ Playback!Rebase
    BY <1>4, EngineInv
  <1> QED BY <1>1, <1>2, <1>3, <1>4 DEF Playback!Next

LEMMA PlayPart == Spec => []PlayInv
  <1>1. Init => PlayInv
    BY PlayInit DEF Init
  <1>2. PlayInv /\ [Next]_vars => PlayInv'
    <2> SUFFICES ASSUME PlayInv, [Next]_vars PROVE [Playback!Next]_(Playback!vars)
      BY PlayStep
    <2> QED BY DEF Next, vars, Playback!vars, playbackVars, PlaybackNext, PlaybackRuns,
           CaptureNext, CaptureRuns, RecordsNext, RecordsRun, ControlNext, ControlRuns,
           FramesNext, FramesRun
  <1> QED BY <1>1, <1>2, PTL DEF Spec

(* The FIFO of a playback PCM holds what libasound believes is queued last, in *)
(* order and once, and besides only the frames that writes which timed out     *)
(* have left in it (lib.rs, transfer_playback), for any period, buffer,        *)
(* latency and length of the run.                                              *)
THEOREM QueueFollowsAlsa == Spec => []FifoFollowsAlsa
  <1>1. PlayInv => FifoFollowsAlsa
    <2> SUFFICES ASSUME PlayInv PROVE Playback!TypeOK /\ Playback!FifoFollowsAlsa
      BY DEF FifoFollowsAlsa
    <2>1. PlayTyped /\ Bounded /\ call \in PlayCall /\ mode \in Modes
      BY PlayPieces DEF PlayInv, PlayTypes
    <2>2. Playback!TypeOK
      BY <2>1 DEF Playback!TypeOK, Playback!Size, Queued, Bounded, PlayCall
    <2>3. Playback!FifoFollowsAlsa
      <3> SUFFICES ASSUME Live, s.fifo # << >>
                   PROVE  /\ \A i \in 1 .. Len(s.fifo) - 1 : s.fifo[i + 1] = s.fifo[i] + 1
                          /\ Playback!Last(s.fifo) + 1 = seen.appl + call.done + s.hidden + s.extra
        BY DEF Playback!FifoFollowsAlsa, Playback!Size, Live
      <3>1. /\ \A i \in 1 .. Len(s.fifo) : s.fifo[i] = NextDue - Len(s.fifo) + i - 1
            /\ Len(s.fifo) \in Nat /\ Len(s.fifo) # 0
        BY <2>1 DEF PlayInv, Ordered, Follows, PlayTyped, Queued
      <3>2. NextDue = seen.appl + call.done + s.hidden + s.extra /\ NextDue \in Nat
        <4>1. seen.appl \in Nat /\ call.done \in Nat /\ s.hidden \in Nat /\ s.extra \in Nat
          BY <2>1 DEF PlayTyped
        <4> QED BY <4>1 DEF NextDue
      <3>3. ASSUME NEW i \in 1 .. Len(s.fifo) - 1 PROVE s.fifo[i + 1] = s.fifo[i] + 1
        <4>1. i \in 1 .. Len(s.fifo) /\ i + 1 \in 1 .. Len(s.fifo)
          BY <3>1
        <4>2. s.fifo[i] = NextDue - Len(s.fifo) + i - 1
              /\ s.fifo[i + 1] = NextDue - Len(s.fifo) + (i + 1) - 1
          BY <3>1, <4>1
        <4> QED BY <3>1, <3>2, <4>1, <4>2
      <3>4. Playback!Last(s.fifo) + 1 = NextDue
        <4>1. Len(s.fifo) \in 1 .. Len(s.fifo)
          BY <3>1
        <4>2. s.fifo[Len(s.fifo)] = NextDue - Len(s.fifo) + Len(s.fifo) - 1
          BY <3>1, <4>1
        <4> QED BY <3>1, <3>2, <4>2 DEF Playback!Last
      <3> QED BY <3>2, <3>3, <3>4
    <2> QED BY <2>2, <2>3
  <1> QED BY <1>1, PlayPart, PTL

(* The pointer of a PRO stream counts no frame the engine has not taken, but   *)
(* for as many as writes that timed out have left queued, and a drain that     *)
(* succeeds has left nothing behind (lib.rs, position and drain).              *)
THEOREM PointerNeverLeads == Spec => []PlayedIsTaken
  <1>1. PlayInv => PlayedIsTaken
    <2> SUFFICES ASSUME PlayInv PROVE Playback!PointerIsSafe /\ Playback!DrainIsComplete
      BY DEF PlayedIsTaken
    <2>1. PlayTyped /\ Called /\ Begun /\ Pointed /\ Drained
      BY PlayPieces DEF PlayInv
    <2>2. Playback!PointerIsSafe
      <3> SUFFICES ASSUME Playback!Pro, sent # None, Live
                   PROVE  (sent.label - s.origin) * P <= sent.frames[1]
        BY DEF Playback!PointerIsSafe, Live
      <3>1. s.origin # None /\ Span(sent.label) <= sent.frames[1] + Span(s.origin)
        BY <2>1 DEF Pointed
      <3>2. s.origin \in Nat /\ sent.label \in Nat /\ sent.frames[1] \in Nat
        BY <2>1, <3>1 DEF PlayTyped, MaybeNat
      <3>3. (sent.label - s.origin) * P = Span(sent.label) - Span(s.origin)
        BY <3>2, PlayGeometry, SMT DEF Span
      <3>4. Span(sent.label) \in Nat /\ Span(s.origin) \in Nat
        BY <3>2, Spans
      <3> QED BY <3>1, <3>2, <3>3, <3>4
    <2>3. Playback!DrainIsComplete
      <3> SUFFICES ASSUME call.pc = "drained"
                   PROVE  /\ s.fifo = << >>
                          /\ sent # None => IF Playback!Pro THEN engine.play > sent.label
                                            ELSE engine.cycle >= sent.label + Latency
        BY DEF Playback!DrainIsComplete
      <3>1. s.fifo = << >> /\ Live
        BY <2>1 DEF Drained, Called, PlayTyped
      <3>2. ASSUME sent # None
            PROVE  IF Playback!Pro THEN engine.play > sent.label
                   ELSE engine.cycle >= sent.label + Latency
        <4>1. s.cycle # None /\ Playback!Consumed(sent.label, s.cycle)
              /\ s.cycle <= engine.cycle
          BY <2>1, <3>2 DEF Drained, Begun
        <4>2. s.cycle \in Nat /\ engine.cycle \in Nat /\ engine.play \in Nat
              /\ sent.label \in Nat
          BY <2>1, <3>2, <4>1 DEF PlayTyped, MaybeNat
        <4>3. Playback!Pro => engine.play \in {engine.cycle, engine.cycle + 1}
          BY <2>1, <3>1 DEF Pointed
        <4> QED BY <4>1, <4>2, <4>3, PlayGeometry DEF Playback!Consumed
      <3> QED BY <3>1, <3>2
    <2> QED BY <2>2, <2>3
  <1> QED BY <1>1, PlayPart, PTL

(* Padding, rewinds, skips, waits and expired periods add no latency to what   *)
(* follows, and a write that timed out just the frames it left queued; a PRO   *)
(* stream keeps its latency exactly (lib.rs, flush_playback_blocks).           *)
THEOREM LatencyStays == Spec => LatencyIsKept
  <1>1. PlayInv /\ [Next]_vars =>
          [sent # None /\ sent' # None /\ ~sent.reset =>
             /\ Playback!Delay(sent') <= Playback!Delay(sent)
             /\ Playback!Pro \/ sent'.label = sent.label + 1 =>
                  Playback!Delay(sent') = Playback!Delay(sent)]_sent
    <2> SUFFICES ASSUME PlayInv, [Next]_vars, sent' # sent, sent # None, sent' # None, ~sent.reset
                 PROVE  /\ Playback!Delay(sent') <= Playback!Delay(sent)
                        /\ Playback!Pro \/ sent'.label = sent.label + 1 =>
                             Playback!Delay(sent') = Playback!Delay(sent)
      OBVIOUS
    <2>1. Playback!Next
      BY DEF Next, vars, playbackVars, PlaybackNext, PlaybackRuns, CaptureNext, CaptureRuns,
         RecordsNext, RecordsRun, ControlNext, ControlRuns, FramesNext, FramesRun
    <2>2. PlayTyped /\ Labelled /\ sent \in Block
      BY PlayPieces DEF PlayInv, PlayTypes
    <2>3. /\ sent.label \in Nat /\ sent.frames[1] \in Nat
          /\ Playback!Delay(sent) = Span(sent.label) - sent.frames[1]
          /\ Span(sent.label) \in Nat
      BY <2>2, Spans DEF PlayTyped, Playback!Delay, Span
    <2>4. Playback!Publish \/ Playback!Sync
      BY <2>1 DEF Playback!Next, Playback!Application, Playback!Plugin, Playback!Prepare,
         Playback!Drop, Playback!Start, Playback!Pointer, Playback!Drain, Playback!Reset,
         Playback!Write, Playback!Rewind, Playback!Forward, Playback!Keep, Playback!Forget,
         Playback!SyncXrun, Playback!FlushEnds, Playback!Observe, Playback!Expired,
         Playback!Fails, Playback!TooEarly, Playback!RingFull, Playback!Discontinuity,
         Playback!TimesOut, Playback!Copy, Playback!Report, Playback!DrainPads,
         Playback!DrainFlushes, Playback!DrainWaits, Playback!Tick, Playback!Take,
         Playback!Activate, Playback!Rebase
    <2>5. CASE Playback!Sync
      <3>1. sent' = [sent EXCEPT !.reset = TRUE]
        BY <2>5 DEF Playback!Sync
      <3>2. sent'.label = sent.label /\ sent'.frames = sent.frames
        BY <2>2, <3>1 DEF Block
      <3>3. Playback!Delay(sent') = Playback!Delay(sent)
        BY <3>2 DEF Playback!Delay
      <3> QED BY <2>3, <3>3
    <2>6. CASE Playback!Publish
      <3> DEFINE q == Playback!Plan(s.cycle).sequence
      <3>1. /\ Live /\ q \in Nat /\ (s.next # None => q = s.next)
            /\ sent'.label = q /\ sent'.frames[1] = FirstDue
        BY <2>6, Published
      <3> HIDE DEF q
      <3>2. /\ s.next # None /\ q = s.next
            /\ Span(s.next) + sent.frames[1] <= Span(sent.label) + FirstDue
            /\ Playback!Pro \/ s.next = sent.label + 1 =>
                 Span(s.next) + sent.frames[1] = Span(sent.label) + FirstDue
        BY <2>2, <3>1 DEF Labelled
      <3>3. Span(q) \in Nat /\ Playback!Delay(sent') = Span(q) - FirstDue
        BY <3>1, Spans DEF Playback!Delay, Span
      <3>4. FirstDue \in Int
        <4>1. seen.appl \in Nat /\ call.done \in Nat /\ s.hidden \in Nat /\ s.extra \in Nat /\ Queued \in Nat
          BY <2>2 DEF PlayTyped
        <4> QED BY <4>1 DEF FirstDue, NextDue
      <3>5. Playback!Delay(sent') <= Playback!Delay(sent)
        BY <2>3, <3>2, <3>3, <3>4
      <3>6. ASSUME Playback!Pro \/ sent'.label = sent.label + 1
            PROVE  Playback!Delay(sent') = Playback!Delay(sent)
        <4>1. Span(s.next) + sent.frames[1] = Span(sent.label) + FirstDue
          BY <3>1, <3>2, <3>6
        <4> QED BY <2>3, <3>2, <3>3, <3>4, <4>1
      <3> QED BY <3>5, <3>6
    <2> QED BY <2>4, <2>5, <2>6
  <1> QED BY <1>1, PlayPart, PTL DEF Spec, LatencyIsKept, Playback!LatencyIsKept

-----------------------------------------------------------------------------
(* From a profile to frames (FrameBudget), for every set of profiles: the  *)
(* engine never waits for room within a write.  Two facts carry the proof. *)
(* What a valid profile lets a loop keep queued when it decides to write,  *)
(* and the piece it writes, fit into the buffer together (EnoughFits); and *)
(* nothing adds to the queue between that decision and the end of the      *)
(* write, while the direct loop even waits for its client in between       *)
(* (Fits).                                                                 *)

Exempt(p) == Frames!Loop(p) = "timer" /\ p.buffer < 2 * p.period

RunPlaces == {"closed", "refused", "ready", "capture", "client", "target", "write", "room", "xrun"}

RunRecords == [pc : RunPlaces, queued : Nat, captured : Nat, phase : Nat, wait : Nat,
         got : Nat, left : Nat, chunk : Nat]

(* What holds of a run that has started.                                   *)
Fits ==
    /\ run.pc \notin {"closed", "refused"} => Frames!Valid(profile) /\ run.queued <= profile.buffer
    /\ run.got = 0 \/ run.got <= Frames!Piece(profile)
    /\ Frames!Loop(profile) = "direct" => run.pc \notin {"capture", "target"}
    /\ run.pc = "client" /\ Frames!Loop(profile) = "direct" =>
         run.queued + profile.period <= profile.buffer
    /\ run.pc \in {"write", "room"} =>
         \/ Exempt(profile)
         \/ run.queued + run.left <= profile.buffer

FramesInv == profile \in Profiles /\ run \in RunRecords /\ Fits

-----------------------------------------------------------------------------
(* Numbers                                                                 *)

LEMMA DividedIsNat ==
    ASSUME NEW a \in Nat, NEW b \in Nat, b # 0 PROVE Frames!Divided(a, b) \in Nat
  BY SMTT(30) DEF Frames!Divided

LEMMA ValidSizesOf ==
    ASSUME None \notin Int, NEW p \in Frames!Settings, Frames!Valid(p)
    PROVE  /\ Frames!HardwarePeriod(p) \in Nat \ {0} /\ p.period \in Nat \ {0} /\ p.rate \in Nat \ {0}
           /\ Frames!HardwarePeriod(p) <= p.period /\ p.period <= p.buffer /\ p.buffer \in Nat
  <1>1. Frames!HardwarePeriod(p) \in Nat
    BY DEF Frames!HardwarePeriod, Frames!Or, Frames!Settings
  <1>2. Frames!ValidSizes(p) BY DEF Frames!Valid
  <1>3. p.period \in Nat /\ p.rate \in Nat /\ p.buffer \in Nat BY DEF Frames!Settings
  <1> QED BY <1>1, <1>2, <1>3 DEF Frames!ValidSizes

LEMMA HandoffIsNat ==
    ASSUME None \notin Int, NEW p \in Frames!Settings, Frames!Valid(p)
    PROVE  Frames!Handoff(p) \in Nat /\ Frames!Reserve(p) \in Nat
  <1>1. p.period \in Nat /\ p.rate \in Nat /\ p.handoff \in Nat BY DEF Frames!Settings
  <1>2. Frames!Divided(p.period, 4) \in Nat /\ Frames!Divided(p.rate, 3000) \in Nat
    BY <1>1, DividedIsNat
  <1>3. Frames!Reserve(p) \in Nat BY <1>2 DEF Frames!Reserve, Frames!Least
  <1>4. Frames!Most(p.period - Frames!Reserve(p), 0) \in Nat BY <1>1, <1>3 DEF Frames!Most
  <1> QED BY <1>1, <1>3, <1>4 DEF Frames!Handoff

LEMMA QueueIsBounded ==
    ASSUME None \notin Int, NEW p \in Frames!Settings
    PROVE  Frames!Queue(p) \in Int /\ Frames!Queue(p) <= p.buffer
  <1>1. p.buffer \in Nat /\ p.period \in Nat BY DEF Frames!Settings
  <1>2. (IF p.queue = None THEN p.buffer ELSE p.queue * p.period) \in Int
    <2>1. CASE p.queue = None BY <1>1, <2>1
    <2>2. CASE p.queue # None
      <3>1. p.queue \in Nat BY <2>2 DEF Frames!Settings
      <3> QED BY <1>1, <2>2, <3>1
    <2> QED BY <2>1, <2>2
  <1>3. \A x \in Int : Frames!Least(x, p.buffer) \in Int /\ Frames!Least(x, p.buffer) <= p.buffer
    BY <1>1 DEF Frames!Least
  <1> QED BY <1>2, <1>3 DEF Frames!Queue

LEMMA GuardFits ==
    ASSUME None \notin Int, NEW p \in Frames!Settings, Frames!Valid(p)
    PROVE  /\ Frames!Guard(p) \in Nat
           /\ p.link /\ p.lead = 1 /\ p.buffer >= p.period + Frames!HardwarePeriod(p) =>
                Frames!Guard(p) + Frames!HardwarePeriod(p) <= p.buffer
  <1>1. Frames!ValidGuard(p) BY DEF Frames!Valid
  <1>2. CASE p.guard = None
    <2>1. Frames!Guard(p) = Frames!HardwarePeriod(p) BY <1>2 DEF Frames!Guard, Frames!Or
    <2> QED BY <2>1, ValidSizesOf
  <1>3. CASE p.guard # None
    <2>1. Frames!Guard(p) = p.guard /\ p.guard \in Nat
      BY <1>3 DEF Frames!Guard, Frames!Or, Frames!Settings
    <2>2. p.lead = 1 => p.guard <= p.buffer - Frames!HardwarePeriod(p)
      BY <1>1, <1>3 DEF Frames!ValidGuard
    <2> QED BY <2>1, <2>2, ValidSizesOf
  <1> QED BY <1>2, <1>3

LEMMA FloorFits ==
    ASSUME None \notin Int, NEW p \in Frames!Settings, Frames!Valid(p)
    PROVE  /\ Frames!Floor(p) \in Nat
           /\ p.lead = 0 => Frames!Floor(p) + p.period <= p.buffer
           /\ p.lead # 0 => Frames!Floor(p) = Frames!Guard(p)
  <1>1. Frames!Guard(p) \in Nat BY GuardFits
  <1>2. Frames!HardwarePeriod(p) \in Nat /\ p.period \in Nat /\ p.buffer \in Nat
        /\ p.period <= p.buffer
    BY ValidSizesOf
  <1> QED BY <1>1, <1>2 DEF Frames!Floor, Frames!Least

LEMMA LoopOf ==
    ASSUME None \notin Int, NEW p \in Frames!Settings
    PROVE  /\ Frames!Loop(p) \in {"direct", "scheduled", "ahead", "packet", "timer", "split"}
           /\ Frames!Loop(p) = "scheduled" => p.lead = 0
           /\ Frames!Loop(p) \in {"ahead", "packet"} =>
                p.link /\ p.lead = 1 /\ p.buffer >= p.period + Frames!HardwarePeriod(p)
           /\ Frames!Loop(p) = "ahead" => ~(Frames!HardwarePeriod(p) < p.period)
           /\ Frames!Loop(p) = "split" => ~p.timer /\ ~Frames!EventDriven(p)
  <1>1. p.lead \in Nat /\ p.link \in BOOLEAN /\ p.timer \in BOOLEAN BY DEF Frames!Settings
  <1>2. CASE p.link /\ p.lead = 0
    <2>1. Frames!Lead(p) = 0 BY <1>2 DEF Frames!Lead
    <2> QED BY <1>2, <2>1 DEF Frames!Loop
  <1>3. CASE p.link /\ p.lead = 1 /\ p.buffer >= p.period + Frames!HardwarePeriod(p)
    <2>1. Frames!Lead(p) = 1 BY <1>3 DEF Frames!Lead
    <2> QED BY <1>3, <2>1 DEF Frames!Loop
  <1>4. CASE ~(p.link /\ p.lead = 0)
        /\ ~(p.link /\ p.lead = 1 /\ p.buffer >= p.period + Frames!HardwarePeriod(p))
    <2>1. Frames!Lead(p) = None /\ Frames!Lead(p) # 0 /\ Frames!Lead(p) # 1
      BY <1>4 DEF Frames!Lead
    <2> QED BY <1>1, <1>4, <2>1 DEF Frames!Loop, Frames!EventDriven
  <1> QED BY <1>2, <1>3, <1>4

(* What a loop may find queued when it decides to write, and what it       *)
(* writes then.                                                            *)
LEMMA EnoughFits ==
    ASSUME None \notin Int, NEW p \in Frames!Settings, Frames!Valid(p), Frames!Loop(p) # "direct"
    PROVE  /\ Frames!Enough(p) \in Int /\ Frames!Piece(p) \in Nat
           /\ ~Exempt(p) => Frames!Enough(p) + Frames!Piece(p) <= p.buffer
  <1>1. /\ Frames!HardwarePeriod(p) \in Nat \ {0} /\ p.period \in Nat \ {0} /\ p.buffer \in Nat
        /\ Frames!HardwarePeriod(p) <= p.period /\ p.period <= p.buffer
    BY ValidSizesOf
  <1>2. CASE Frames!Loop(p) = "scheduled"
    BY <1>1, <1>2, LoopOf, FloorFits DEF Frames!Enough, Frames!Piece
  <1>3. CASE Frames!Loop(p) = "ahead"
    <2>1. /\ p.link /\ p.lead = 1 /\ p.buffer >= p.period + Frames!HardwarePeriod(p)
          /\ Frames!HardwarePeriod(p) = p.period
      BY <1>1, <1>3, LoopOf
    <2>2. Frames!Floor(p) = Frames!Guard(p) /\ Frames!Guard(p) \in Nat
          /\ Frames!Guard(p) + Frames!HardwarePeriod(p) <= p.buffer
      BY <2>1, FloorFits, GuardFits
    <2> QED BY <1>1, <1>3, <2>1, <2>2 DEF Frames!Enough, Frames!Piece
  <1>4. CASE Frames!Loop(p) = "packet"
    <2>1. p.link /\ p.lead = 1 /\ p.buffer >= p.period + Frames!HardwarePeriod(p)
      BY <1>4, LoopOf
    <2>2. Frames!Floor(p) = Frames!Guard(p) /\ Frames!Guard(p) \in Nat
          /\ Frames!Guard(p) + Frames!HardwarePeriod(p) <= p.buffer
      BY <2>1, FloorFits, GuardFits
    <2> QED BY <1>1, <1>4, <2>2 DEF Frames!Enough, Frames!Piece
  <1>5. CASE Frames!Loop(p) = "timer"
    BY <1>1, <1>5 DEF Frames!Enough, Frames!Piece, Exempt
  <1>6. CASE Frames!Loop(p) = "split"
    <2>1. Frames!AvailMin(p) = p.buffer - Frames!Queue(p) + p.period
      BY <1>6, LoopOf DEF Frames!AvailMin
    <2>2. Frames!Queue(p) \in Int /\ Frames!Queue(p) <= p.buffer BY QueueIsBounded
    <2>3. Frames!Enough(p) = p.buffer - Frames!AvailMin(p) /\ Frames!Piece(p) = p.period
      BY <1>6 DEF Frames!Enough, Frames!Piece
    <2> QED BY <1>1, <2>1, <2>2, <2>3
  <1> QED BY <1>2, <1>3, <1>4, <1>5, <1>6, LoopOf

LEMMA StartIsNat ==
    ASSUME None \notin Int, NEW p \in Frames!Settings, Frames!Valid(p)
    PROVE  Frames!StartFrames(p) \in Nat /\ Frames!StartFrames(p) <= p.buffer
  <1>1. /\ Frames!HardwarePeriod(p) \in Nat \ {0} /\ p.period \in Nat \ {0} /\ p.buffer \in Nat
    BY ValidSizesOf
  <1>2. \A x \in Nat : Frames!Least(p.buffer, x) \in Nat /\ Frames!Least(p.buffer, x) <= p.buffer
    BY <1>1 DEF Frames!Least
  <1>3. Frames!Or(p.queue, 2) \in Nat BY DEF Frames!Or, Frames!Settings
  <1>4. p.period * Frames!Or(p.queue, 2) \in Nat BY <1>1, <1>3
  <1>5. p.period + Frames!Floor(p) + Frames!Handoff(p) \in Nat
    BY <1>1, FloorFits, HandoffIsNat
  <1>6. 2 * p.period \in Nat /\ p.period + Frames!HardwarePeriod(p) \in Nat BY <1>1
  <1>7. Frames!StartFrames(p) \in {Frames!Least(p.buffer, p.period * Frames!Or(p.queue, 2)),
                            Frames!Least(p.buffer, p.period + Frames!Floor(p) + Frames!Handoff(p)),
                            Frames!Least(p.buffer, p.period + Frames!HardwarePeriod(p)),
                            Frames!Least(p.buffer, 2 * p.period), Frames!Least(p.buffer, p.buffer)}
    BY LoopOf DEF Frames!StartFrames
  <1> QED BY <1>1, <1>2, <1>4, <1>5, <1>6, <1>7

-----------------------------------------------------------------------------
(* The run                                                                 *)

LEMMA InitFits == ASSUME Frames!ProfilesAreSettings, Frames!Init PROVE FramesInv
  BY DEF Frames!ProfilesAreSettings, Frames!Init, Frames!Opened, FramesInv, RunRecords, RunPlaces,
     Fits

LEMMA NextFits ==
    ASSUME Frames!ProfilesAreSettings, FramesInv, [Frames!Next]_(Frames!vars) PROVE FramesInv'
  <1>0. profile \in Frames!Settings /\ None \notin Int
    BY DEF FramesInv, Frames!ProfilesAreSettings
  <1>s. ASSUME Frames!Valid(profile)
        PROVE  /\ Frames!HardwarePeriod(profile) \in Nat \ {0} /\ profile.period \in Nat \ {0}
               /\ profile.buffer \in Nat /\ Frames!HardwarePeriod(profile) <= profile.period
               /\ profile.period <= profile.buffer
               /\ Frames!Handoff(profile) \in Nat /\ Frames!Reserve(profile) \in Nat
               /\ Frames!Piece(profile) \in Nat
    BY <1>0, <1>s, ValidSizesOf, HandoffIsNat DEF Frames!Piece
  <1>l. Frames!Loop(profile) \in {"direct", "scheduled", "ahead", "packet", "timer", "split"}
    BY <1>0, LoopOf
  <1>1. CASE Frames!Open
    <2>1. CASE Frames!Valid(profile)
          /\ Frames!Step([run EXCEPT !.pc = Frames!Top, !.queued = Frames!StartFrames(profile)])
      <3>1. Frames!StartFrames(profile) \in Nat /\ Frames!StartFrames(profile) <= profile.buffer
        BY <1>0, <2>1, StartIsNat
      <3>2. Frames!Top \in {"ready", "capture", "client", "target"}
          /\ (Frames!Loop(profile) = "direct" => Frames!Top = "ready")
        BY <1>l DEF Frames!Top
      <3> QED BY <1>0, <2>1, <3>1, <3>2 DEF FramesInv, RunRecords, RunPlaces, Fits, Frames!Step
    <2>2. CASE Frames!Step([run EXCEPT !.pc = "refused"])
      BY <2>2 DEF FramesInv, RunRecords, RunPlaces, Fits, Frames!Step
    <2> QED BY <1>1, <2>1, <2>2 DEF Frames!Open
  <1>2. CASE Frames!Ready
    <2>1. Frames!Valid(profile) BY <1>2 DEF Frames!Ready, FramesInv, Fits
    <2>2. \A x \in Int : Frames!Least(Frames!Handoff(profile), Frames!Most(x, 0)) \in Nat
      BY <1>s, <2>1 DEF Frames!Least, Frames!Most
    <2>3. run.queued - Frames!Reserve(profile) \in Int BY <1>s, <2>1 DEF FramesInv, RunRecords
    <2>4. run.captured - profile.period \in Nat
      BY <1>s, <1>2, <2>1 DEF Frames!Ready, FramesInv, RunRecords
    <2>5. run.queued + profile.period <= profile.buffer
      BY <1>s, <1>2, <2>1 DEF Frames!Ready, FramesInv, RunRecords
    <2> QED BY <1>2, <2>1, <2>2, <2>3, <2>4, <2>5 DEF Frames!Ready, FramesInv, RunRecords, RunPlaces,
           Fits, Frames!Step
  <1>3. CASE Frames!Capture
    <2> DEFINE n == Frames!Least(run.captured, Frames!Piece(profile) - run.got)
               taken == [run EXCEPT !.captured = @ - n, !.got = @ + n]
               full == [taken EXCEPT !.got = 0]
    <2>1. Frames!Valid(profile) /\ Frames!Loop(profile) # "direct"
      BY <1>3 DEF Frames!Capture, FramesInv, Fits
    <2>2. Frames!Piece(profile) \in Nat /\ Frames!Handoff(profile) \in Nat
          /\ profile.period \in Nat
      BY <1>s, <2>1
    <2>3. run.captured - n \in Nat /\ run.got + n \in Nat
          /\ run.got + n <= Frames!Piece(profile)
      BY <2>2 DEF FramesInv, RunRecords, Fits, Frames!Least
    <2>4. taken \in RunRecords /\ full \in RunRecords BY <2>3 DEF FramesInv, RunRecords
    <2>5. \A x \in Int : Frames!Least(Frames!Handoff(profile), Frames!Most(x, 0)) \in Nat
      BY <2>2 DEF Frames!Least, Frames!Most
    <2>6. run.queued - profile.period \in Int BY <2>2 DEF FramesInv, RunRecords
    <2>7. run.pc = "capture" BY <1>3 DEF Frames!Capture
    <2>8. /\ profile' = profile /\ run' \in RunRecords /\ run'.got \in {0, taken.got}
          /\ run'.queued = run.queued /\ run'.left = run.left
          /\ run'.pc \in {"capture", "client", "target"}
      <3> DEFINE bounded == Frames!Least(Frames!Handoff(profile), Frames!Most(run.queued - profile.period, 0))
                 more == (run.chunk + 1) * Frames!Piece(profile) < profile.period
      <3>1. bounded \in Nat BY <2>5, <2>6
      <3>2. full.chunk = run.chunk /\ run.chunk + 1 \in Nat BY DEF FramesInv, RunRecords
      <3>3. \/ Frames!Step(taken)
            \/ Frames!Step([full EXCEPT !.pc = "client", !.wait = bounded])
            \/ Frames!Step([full EXCEPT !.pc = "client", !.wait = Frames!Handoff(profile)])
            \/ Frames!Step([full EXCEPT !.pc = "target", !.chunk = @ + 1])
            \/ Frames!Step([full EXCEPT !.pc = "target", !.chunk = 0, !.wait = Frames!Handoff(profile)])
        <4>1. CASE taken.got < Frames!Piece(profile) BY <1>3, <4>1 DEF Frames!Capture
        <4>2. CASE taken.got = Frames!Piece(profile) /\ Frames!Loop(profile) = "scheduled"
          BY <1>3, <4>2, <2>2 DEF Frames!Capture
        <4>3. CASE taken.got = Frames!Piece(profile) /\ Frames!Loop(profile) = "ahead"
          BY <1>3, <4>3, <2>2 DEF Frames!Capture
        <4>4. CASE /\ ~(taken.got < Frames!Piece(profile))
                   /\ ~(taken.got = Frames!Piece(profile) /\ Frames!Loop(profile) \in {"scheduled", "ahead"})
          <5>1. IF more THEN Frames!Step([full EXCEPT !.pc = "target", !.chunk = @ + 1])
                ELSE Frames!Step([full EXCEPT !.pc = "target", !.chunk = 0, !.wait = Frames!Handoff(profile)])
            BY <1>3, <4>4 DEF Frames!Capture
          <5> QED BY <5>1
        <4> QED BY <4>1, <4>2, <4>3, <4>4
      <3>4. /\ taken.queued = run.queued /\ taken.left = run.left /\ taken.pc = "capture"
            /\ full.queued = run.queued /\ full.left = run.left /\ full.got = 0
        BY <2>7 DEF FramesInv, RunRecords
      <3> HIDE DEF taken, full, bounded
      <3>5. full.chunk + 1 \in Nat BY <3>2
      <3>6. CASE Frames!Step(taken) BY <2>4, <3>4, <3>6 DEF Frames!Step
      <3>7. full.wait \in Nat /\ full.chunk \in Nat BY <2>4, SMTT(30) DEF RunRecords
      <3>8. ASSUME ~Frames!Step(taken)
            PROVE  \E place \in {"client", "target"}, w \in Nat, c \in Nat :
                     Frames!Step([full EXCEPT !.pc = place, !.wait = w, !.chunk = c])
        <4>1. CASE Frames!Step([full EXCEPT !.pc = "client", !.wait = bounded])
          <5>1. [full EXCEPT !.pc = "client", !.wait = bounded]
                  = [full EXCEPT !.pc = "client", !.wait = bounded, !.chunk = full.chunk]
            BY <2>4 DEF RunRecords
          <5> QED BY <3>1, <3>7, <4>1, <5>1
        <4>2. CASE Frames!Step([full EXCEPT !.pc = "client", !.wait = Frames!Handoff(profile)])
          <5>1. [full EXCEPT !.pc = "client", !.wait = Frames!Handoff(profile)]
                  = [full EXCEPT !.pc = "client", !.wait = Frames!Handoff(profile), !.chunk = full.chunk]
            BY <2>4 DEF RunRecords
          <5> QED BY <2>2, <3>7, <4>2, <5>1
        <4>3. CASE Frames!Step([full EXCEPT !.pc = "target", !.chunk = @ + 1])
          <5>1. [full EXCEPT !.pc = "target", !.chunk = @ + 1]
                  = [full EXCEPT !.pc = "target", !.wait = full.wait, !.chunk = full.chunk + 1]
            BY <2>4 DEF RunRecords
          <5> QED BY <3>5, <3>7, <4>3, <5>1
        <4>4. CASE Frames!Step([full EXCEPT !.pc = "target", !.chunk = 0, !.wait = Frames!Handoff(profile)])
          <5>1. [full EXCEPT !.pc = "target", !.chunk = 0, !.wait = Frames!Handoff(profile)]
                  = [full EXCEPT !.pc = "target", !.wait = Frames!Handoff(profile), !.chunk = 0]
            BY <2>4 DEF RunRecords
          <5> QED BY <2>2, <4>4, <5>1
        <4> QED BY <3>3, <3>8, <4>1, <4>2, <4>3, <4>4
      <3>9. CASE ~Frames!Step(taken)
        <4>1. PICK place \in {"client", "target"}, w \in Nat, c \in Nat :
                Frames!Step([full EXCEPT !.pc = place, !.wait = w, !.chunk = c])
          BY <3>8, <3>9
        <4>2. run' = [full EXCEPT !.pc = place, !.wait = w, !.chunk = c]
              /\ profile' = profile
          BY <4>1 DEF Frames!Step
        <4>3. /\ run' \in RunRecords /\ run'.got = 0 /\ run'.pc = place
              /\ run'.queued = run.queued /\ run'.left = run.left
          BY <2>4, <3>4, <4>2 DEF RunRecords, RunPlaces
        <4> QED BY <4>2, <4>3
      <3> QED BY <3>6, <3>9
    <2>9. taken.got <= Frames!Piece(profile) BY <2>3 DEF FramesInv, RunRecords
    <2> HIDE DEF taken, full, n
    <2> QED BY <2>1, <2>2, <2>7, <2>8, <2>9 DEF FramesInv, Fits
  <1>4. CASE Frames!Answer
    <2>1. Frames!Valid(profile) BY <1>4 DEF Frames!Answer, FramesInv, Fits
    <2> QED BY <1>s, <1>l, <1>4, <2>1 DEF Frames!Answer, FramesInv, RunRecords, RunPlaces, Fits,
           Frames!Step
  <1>5. CASE Frames!Target
    <2>1. Frames!Valid(profile) /\ Frames!Loop(profile) # "direct"
      BY <1>5 DEF Frames!Target, FramesInv, Fits
    <2>2. /\ Frames!Enough(profile) \in Int /\ Frames!Piece(profile) \in Nat
          /\ ~Exempt(profile) => Frames!Enough(profile) + Frames!Piece(profile) <= profile.buffer
      BY <1>0, <2>1, EnoughFits
    <2>3. profile.buffer \in Nat BY <1>s, <2>1
    <2>4. ~Exempt(profile) => run.queued + Frames!Piece(profile) <= profile.buffer
      BY <1>5, <2>2, <2>3 DEF Frames!Target, FramesInv, RunRecords
    <2> QED BY <1>5, <2>1, <2>2, <2>4 DEF Frames!Target, FramesInv, RunRecords, RunPlaces, Fits,
           Frames!Step
  <1>6. CASE Frames!Write
    <2> DEFINE n == Frames!Least(run.left, profile.buffer - run.queued)
    <2>1. Frames!Valid(profile) /\ run.queued <= profile.buffer
      BY <1>6 DEF Frames!Write, FramesInv, Fits
    <2>2. profile.buffer \in Nat BY <1>s, <2>1
    <2>3. n \in Nat /\ n <= run.left /\ run.queued + n <= profile.buffer
      BY <2>1, <2>2 DEF FramesInv, RunRecords, Frames!Least
    <2>4. run.pc = "write" BY <1>6 DEF Frames!Write
    <2>5. \/ Frames!Step([run EXCEPT !.pc = "room"])
          \/ Frames!Step([run EXCEPT !.queued = @ + n, !.left = @ - n])
          \/ \E place \in {"ready", "capture", "client", "target"} :
               /\ Frames!Step([run EXCEPT !.queued = @ + n, !.left = 0, !.pc = place])
               /\ Frames!Loop(profile) = "direct" => place = "ready"
      <3>1. Frames!Top \in {"ready", "capture", "client", "target"} /\ (Frames!Loop(profile) = "direct" => Frames!Top = "ready")
        BY <1>l DEF Frames!Top
      <3> DEFINE after == CASE Frames!Loop(profile) = "packet" -> IF run.chunk = 0 THEN "client" ELSE "capture"
                           [] Frames!Loop(profile) = "ahead" -> "capture"
                           [] OTHER -> Frames!Top
      <3>2. /\ after \in {"ready", "capture", "client", "target"}
            /\ Frames!Loop(profile) = "direct" => after = "ready"
        BY <1>l, <3>1
      <3>3. \/ Frames!Step([run EXCEPT !.pc = "room"])
            \/ Frames!Step([run EXCEPT !.queued = @ + n, !.left = @ - n])
            \/ Frames!Step([run EXCEPT !.queued = @ + n, !.left = 0, !.pc = after])
        BY <1>6 DEF Frames!Write
      <3> HIDE DEF n, after
      <3> QED BY <3>2, <3>3
    <2>6. run.left - n \in Nat /\ run.queued + n \in Nat BY <2>3 DEF FramesInv, RunRecords
    <2> HIDE DEF n
    <2>7. CASE Frames!Step([run EXCEPT !.pc = "room"])
      BY <2>1, <2>4, <2>7 DEF FramesInv, RunRecords, RunPlaces, Fits, Frames!Step
    <2>8. CASE Frames!Step([run EXCEPT !.queued = @ + n, !.left = @ - n])
      <3>1. /\ profile' = profile /\ run' \in RunRecords /\ run'.pc = run.pc
            /\ run'.got = run.got
            /\ run'.queued = run.queued + n /\ run'.left = run.left - n
        BY <2>6, <2>8 DEF FramesInv, RunRecords, Frames!Step
      <3>2. run'.queued + run'.left = run.queued + run.left
        BY <2>3, <3>1 DEF FramesInv, RunRecords
      <3> QED BY <2>1, <2>3, <2>4, <3>1, <3>2 DEF FramesInv, Fits
    <2>9. ASSUME NEW place \in {"ready", "capture", "client", "target"},
                 Frames!Step([run EXCEPT !.queued = @ + n, !.left = 0, !.pc = place]),
                 Frames!Loop(profile) = "direct" => place = "ready"
          PROVE  FramesInv'
      <3>1. /\ profile' = profile /\ run' \in RunRecords /\ run'.pc = place
            /\ run'.got = run.got
            /\ run'.queued = run.queued + n
        BY <2>6, <2>9 DEF FramesInv, RunRecords, RunPlaces, Frames!Step
      <3> QED BY <2>1, <2>3, <2>4, <2>9, <3>1 DEF FramesInv, Fits
    <2> QED BY <2>5, <2>7, <2>8, <2>9
  <1>7. CASE Frames!Room
    BY <1>7 DEF Frames!Room, FramesInv, RunRecords, RunPlaces, Fits, Frames!Step
  <1>8. CASE Frames!Tick
    <2>1. Frames!Valid(profile) /\ run.pc \notin {"closed", "refused", "write"}
          /\ profile' = profile
      <3>1. run.pc \in {"ready", "capture", "client", "target", "room"}
        BY <1>8 DEF Frames!Tick, Frames!Idle
      <3> QED BY <1>8, <3>1 DEF Frames!Tick, Frames!Step, FramesInv, Fits
    <2>2. Frames!HardwarePeriod(profile) \in Nat /\ profile.buffer \in Nat
          /\ profile.period \in Nat
      BY <1>s, <2>1
    <2>3. run' \in RunRecords /\ run'.queued <= run.queued /\ run'.left = run.left
          /\ run'.got = run.got
          /\ run'.pc \in {run.pc, "xrun"}
      <3> DEFINE moves == run.phase + 1 = Frames!HardwarePeriod(profile)
                 played == IF moves THEN Frames!HardwarePeriod(profile) ELSE 0
                 later == [run EXCEPT !.phase = IF moves THEN 0 ELSE @ + 1, !.queued = @ - played,
                                      !.captured = @ + played, !.wait = Frames!Most(@ - 1, 0)]
      <3>1. played \in Nat /\ (IF moves THEN 0 ELSE run.phase + 1) \in Nat /\ Frames!Most(run.wait - 1, 0) \in Nat
        BY <2>2 DEF FramesInv, RunRecords, Frames!Most
      <3>2. \/ run' = [run EXCEPT !.pc = "xrun"]
            \/ ~(later.queued <= 0) /\ run' \in {[later EXCEPT !.captured = 0], later}
        BY <1>8 DEF Frames!Tick, Frames!Step
      <3>3. /\ run.queued - played \in Int /\ run.queued - played <= run.queued
            /\ run.captured + played \in Nat
        BY <3>1 DEF FramesInv, RunRecords
      <3>4. CASE run' = [run EXCEPT !.pc = "xrun"]
        BY <3>4 DEF FramesInv, RunRecords, RunPlaces
      <3>5. CASE ~(later.queued <= 0) /\ run' \in {[later EXCEPT !.captured = 0], later}
        <4>1. later.queued = run.queued - played BY DEF FramesInv, RunRecords
        <4>2. later \in RunRecords /\ [later EXCEPT !.captured = 0] \in RunRecords
          <5>1. run.queued - played \in Nat BY <3>3, <3>5, <4>1
          <5> HIDE DEF moves, played
          <5> QED BY <3>1, <3>3, <5>1 DEF FramesInv, RunRecords
        <4> HIDE DEF moves, played
        <4> QED BY <3>3, <3>5, <4>1, <4>2 DEF FramesInv, RunRecords
      <3> QED BY <3>2, <3>4, <3>5
    <2> QED BY <2>1, <2>2, <2>3 DEF FramesInv, RunRecords, Fits
  <1>9. CASE UNCHANGED Frames!vars BY <1>9 DEF Frames!vars, FramesInv, RunRecords, Fits
  <1> QED BY <1>1, <1>2, <1>3, <1>4, <1>5, <1>6, <1>7, <1>8, <1>9 DEF Frames!Next

-----------------------------------------------------------------------------
(* Whole hardware periods                                                  *)
Multiple(x, h) == \E k \in Int : x = k * h

LEMMA Multiples ==
    ASSUME NEW h \in Nat \ {0}
    PROVE  /\ Multiple(0, h) /\ Multiple(h, h)
           /\ \A k \in Int : Multiple(k * h, h)
           /\ \A x \in Int : x % h = 0 => Multiple(x, h)
  <1>1. 0 = 0 * h /\ h = 1 * h OBVIOUS
  <1>2. ASSUME NEW x \in Int, x % h = 0 PROVE Multiple(x, h)
    <2>1. x \div h \in Int /\ x = (x \div h) * h + (x % h) OBVIOUS
    <2>2. x = (x \div h) * h BY <1>2, <2>1
    <2> QED BY <2>1, <2>2 DEF Multiple
  <1>3. Multiple(0, h) /\ Multiple(h, h) BY <1>1 DEF Multiple
  <1>4. \A k \in Int : Multiple(k * h, h) BY DEF Multiple
  <1> QED BY <1>2, <1>3, <1>4

LEMMA SumOfMultiples ==
    ASSUME NEW h \in Nat \ {0}
    PROVE  \A x, y \in Int : Multiple(x, h) /\ Multiple(y, h) =>
             Multiple(x + y, h) /\ Multiple(x - y, h)
  <1> SUFFICES ASSUME NEW x \in Int, NEW y \in Int, Multiple(x, h), Multiple(y, h)
               PROVE  Multiple(x + y, h) /\ Multiple(x - y, h)
    OBVIOUS
  <1>1. PICK j \in Int : x = j * h BY DEF Multiple
  <1>2. PICK k \in Int : y = k * h BY DEF Multiple
  <1> DEFINE sum == j + k
             rest == j - k
  <1>3. sum \in Int /\ rest \in Int /\ x + y = sum * h /\ x - y = rest * h BY <1>1, <1>2
  <1> HIDE DEF sum, rest
  <1> QED BY <1>3 DEF Multiple

LEMMA MultiplesApart ==
    ASSUME NEW h \in Nat \ {0}, NEW x \in Int, NEW y \in Int, Multiple(x, h), Multiple(y, h), x < y
    PROVE  x + h <= y
  <1>1. PICK j \in Int : x = j * h BY DEF Multiple
  <1>2. PICK k \in Int : y = k * h BY DEF Multiple
  <1>3. j < k
    <2>1. SUFFICES ASSUME k <= j PROVE FALSE OBVIOUS
    <2>2. (j - k) * h >= 0 BY <2>1
    <2>3. j * h - k * h >= 0 BY <2>2
    <2> QED BY <1>1, <1>2, <2>3
  <1>4. (k - j - 1) * h >= 0 BY <1>3
  <1>5. k * h - j * h - h >= 0 BY <1>4
  <1> QED BY <1>1, <1>2, <1>5

-----------------------------------------------------------------------------
(* What a valid profile is good for                                        *)

LEMMA DividedIsPositive ==
    ASSUME NEW a \in Nat \ {0}, NEW b \in Nat \ {0} PROVE Frames!Divided(a, b) \in Nat \ {0}
  <1>1. a + b - 1 >= b OBVIOUS
  <1>2. (a + b - 1) \div b >= 1
    <2> DEFINE d == (a + b - 1) \div b
               r == (a + b - 1) % b
    <2>1. d \in Int /\ r \in 0..(b - 1) /\ a + b - 1 = d * b + r OBVIOUS
    <2>2. ASSUME d <= 0 PROVE FALSE
      <3>1. (0 - d) * b >= 0 BY <2>1, <2>2
      <3>2. d * b <= 0 BY <2>1, <3>1
      <3> HIDE DEF d, r
      <3> QED BY <1>1, <2>1, <3>2
    <2> HIDE DEF d
    <2>3. d >= 1 BY <2>1, <2>2
    <2> QED BY <2>3 DEF d
  <1> QED BY <1>2 DEF Frames!Divided

LEMMA ReserveIsPositive ==
    ASSUME None \notin Int, NEW p \in Frames!Settings, Frames!Valid(p)
    PROVE  Frames!Reserve(p) \in Nat \ {0}
  <1>1. p.period \in Nat \ {0} /\ p.rate \in Nat \ {0} BY ValidSizesOf
  <1>2. Frames!Divided(p.period, 4) \in Nat \ {0} /\ Frames!Divided(p.rate, 3000) \in Nat \ {0}
    <2>1. \A a \in Nat \ {0} : Frames!Divided(a, 4) \in Nat \ {0} BY DividedIsPositive
    <2>2. \A a \in Nat \ {0} : Frames!Divided(a, 3000) \in Nat \ {0} BY DividedIsPositive
    <2> QED BY <1>1, <2>1, <2>2
  <1> QED BY <1>2 DEF Frames!Reserve, Frames!Least

(* What an engine may count on that runs a valid profile.                  *)
LEMMA SizesOf ==
    ASSUME None \notin Int, NEW p \in Frames!Settings, Frames!Valid(p)
    PROVE  /\ Frames!HardwarePeriod(p) \in Nat \ {0} /\ p.period \in Nat \ {0} /\ p.buffer \in Nat \ {0}
           /\ Frames!HardwarePeriod(p) <= p.period /\ p.period <= p.buffer
           /\ Multiple(p.period, Frames!HardwarePeriod(p))
           /\ Frames!Handoff(p) \in Nat
  <1>1. /\ Frames!HardwarePeriod(p) \in Nat \ {0} /\ p.period \in Nat \ {0} /\ p.buffer \in Nat
        /\ Frames!HardwarePeriod(p) <= p.period /\ p.period <= p.buffer
    BY ValidSizesOf
  <1>2. p.period % Frames!HardwarePeriod(p) = 0 BY DEF Frames!Valid, Frames!ValidSizes
  <1>3. Multiple(p.period, Frames!HardwarePeriod(p)) BY <1>1, <1>2, Multiples
  <1> QED BY <1>1, <1>3, HandoffIsNat

LEMMA GuardIsAtLeast ==
    ASSUME None \notin Int, NEW p \in Frames!Settings, Frames!Valid(p)
    PROVE  Frames!Guard(p) \in Nat /\ Frames!Guard(p) >= Frames!HardwarePeriod(p)
  <1>1. Frames!Guard(p) \in Nat BY GuardFits
  <1>2. p.guard # None => p.guard >= Frames!HardwarePeriod(p)
    BY DEF Frames!Valid, Frames!ValidGuard
  <1>3. p.guard = None => Frames!Guard(p) = Frames!HardwarePeriod(p)
    BY DEF Frames!Guard, Frames!Or
  <1>4. p.guard # None => Frames!Guard(p) = p.guard BY DEF Frames!Guard, Frames!Or
  <1>5. Frames!HardwarePeriod(p) \in Nat BY ValidSizesOf
  <1> QED BY <1>1, <1>2, <1>3, <1>4, <1>5

-----------------------------------------------------------------------------
(* The steps, field by field                                               *)

Started == FramesInv /\ run.pc \notin {"closed", "refused"}

LEMMA StartedIs ==
    ASSUME Frames!ProfilesAreSettings, Started
    PROVE  /\ profile \in Frames!Settings /\ None \notin Int /\ Frames!Valid(profile)
           /\ run \in RunRecords
  BY DEF Started, FramesInv, Fits, Frames!ProfilesAreSettings

LEMMA ReadyIs ==
    ASSUME run \in RunRecords, Frames!Ready
    PROVE  /\ profile' = profile /\ run.pc = "ready" /\ run'.pc = "client"
           /\ profile.buffer - run.queued >= profile.period /\ run.captured >= profile.period
           /\ run'.captured = run.captured - profile.period /\ run'.queued = run.queued
           /\ run'.phase = run.phase /\ run'.got = run.got
           /\ run'.wait = Frames!Least(Frames!Handoff(profile),
                                       Frames!Most(run.queued - Frames!Reserve(profile), 0))
  BY DEF Frames!Ready, Frames!Step, RunRecords

LEMMA AnswerIs ==
    ASSUME run \in RunRecords, Frames!Answer
    PROVE  /\ profile' = profile /\ run.pc = "client"
           /\ run'.pc = CASE Frames!Loop(profile) = "direct" -> "write"
                          [] Frames!Loop(profile) = "packet" -> "capture"
                          [] OTHER -> "target"
           /\ run'.captured = run.captured /\ run'.queued = run.queued
           /\ run'.phase = run.phase /\ run'.got = run.got /\ run'.wait = 0
           /\ run'.chunk = run.chunk
           /\ Frames!Loop(profile) = "direct" => run'.left = profile.period
  <1>1. CASE Frames!Loop(profile) = "direct"
    BY <1>1 DEF Frames!Answer, Frames!Step, RunRecords
  <1>2. CASE Frames!Loop(profile) = "packet"
    BY <1>2 DEF Frames!Answer, Frames!Step, RunRecords
  <1>3. CASE Frames!Loop(profile) \notin {"direct", "packet"}
    BY <1>3 DEF Frames!Answer, Frames!Step, RunRecords
  <1> QED BY <1>1, <1>2, <1>3

LEMMA TargetIs ==
    ASSUME run \in RunRecords, Frames!Target
    PROVE  /\ profile' = profile /\ run.pc = "target" /\ run'.pc = "write"
           /\ run.queued <= Frames!Enough(profile)
           /\ run'.captured = run.captured /\ run'.queued = run.queued
           /\ run'.phase = run.phase /\ run'.got = run.got /\ run'.wait = run.wait
           /\ run'.chunk = run.chunk /\ run'.left = Frames!Piece(profile)
  BY DEF Frames!Target, Frames!Step, RunRecords

AfterWrite == CASE Frames!Loop(profile) = "packet" -> IF run.chunk = 0 THEN "client" ELSE "capture"
                [] Frames!Loop(profile) = "ahead" -> "capture"
                [] OTHER -> Frames!Top

LEMMA WriteIs ==
    ASSUME run \in RunRecords, Frames!Write
    PROVE  /\ profile' = profile /\ run.pc = "write"
           /\ run'.captured = run.captured /\ run'.phase = run.phase /\ run'.got = run.got
           /\ run'.wait = run.wait /\ run'.chunk = run.chunk
           /\ LET n == Frames!Least(run.left, profile.buffer - run.queued) IN
              \/ n = 0 /\ run'.pc = "room" /\ run'.queued = run.queued /\ run'.left = run.left
              \/ /\ n > 0 /\ n < run.left /\ run'.pc = "write"
                 /\ run'.queued = run.queued + n /\ run'.left = run.left - n
              \/ /\ ~(n = 0) /\ ~(n > 0 /\ n < run.left) /\ run'.pc = AfterWrite
                 /\ run'.queued = run.queued + n /\ run'.left = 0
  <1> DEFINE n == Frames!Least(run.left, profile.buffer - run.queued)
  <1>1. /\ run.pc = "write"
        /\ \/ n = 0 /\ Frames!Step([run EXCEPT !.pc = "room"])
           \/ n > 0 /\ n < run.left /\ Frames!Step([run EXCEPT !.queued = @ + n, !.left = @ - n])
           \/ /\ ~(n = 0) /\ ~(n > 0 /\ n < run.left)
              /\ Frames!Step([run EXCEPT !.queued = @ + n, !.left = 0, !.pc = AfterWrite])
    BY DEF Frames!Write, AfterWrite
  <1> HIDE DEF n
  <1>2. CASE n = 0 /\ Frames!Step([run EXCEPT !.pc = "room"])
    BY <1>1, <1>2 DEF Frames!Step, RunRecords, n
  <1>3. CASE n > 0 /\ n < run.left /\ Frames!Step([run EXCEPT !.queued = @ + n, !.left = @ - n])
    BY <1>1, <1>3 DEF Frames!Step, RunRecords, n
  <1>4. CASE /\ ~(n = 0) /\ ~(n > 0 /\ n < run.left)
             /\ Frames!Step([run EXCEPT !.queued = @ + n, !.left = 0, !.pc = AfterWrite])
    BY <1>1, <1>4 DEF Frames!Step, RunRecords, n
  <1> QED BY <1>1, <1>2, <1>3, <1>4

LEMMA RoomIs ==
    ASSUME run \in RunRecords, Frames!Room
    PROVE  /\ profile' = profile /\ run.pc = "room" /\ run'.pc = "write"
           /\ run'.captured = run.captured /\ run'.queued = run.queued
           /\ run'.phase = run.phase /\ run'.got = run.got /\ run'.wait = run.wait
           /\ run'.chunk = run.chunk /\ run'.left = run.left
  BY DEF Frames!Room, Frames!Step, RunRecords

LEMMA CaptureIs ==
    ASSUME run \in RunRecords, Frames!Capture, Frames!Piece(profile) \in Nat, run.got <= Frames!Piece(profile)
    PROVE  /\ profile' = profile /\ run.pc = "capture" /\ run.captured > 0
           /\ run'.queued = run.queued /\ run'.phase = run.phase
           /\ LET n == Frames!Least(run.captured, Frames!Piece(profile) - run.got) IN
              /\ run'.captured = run.captured - n
              /\ run.got + n < Frames!Piece(profile) =>
                   /\ run'.pc = "capture" /\ run'.got = run.got + n
                   /\ run'.wait = run.wait /\ run'.chunk = run.chunk
              /\ ~(run.got + n < Frames!Piece(profile)) =>
                   /\ run.got + n = Frames!Piece(profile) /\ run'.got = 0
                   /\ CASE Frames!Loop(profile) = "scheduled" ->
                             /\ run'.pc = "client"
                             /\ run'.wait = Frames!Least(Frames!Handoff(profile),
                                                         Frames!Most(run.queued - profile.period, 0))
                        [] Frames!Loop(profile) = "ahead" ->
                             run'.pc = "client" /\ run'.wait = Frames!Handoff(profile)
                        [] OTHER ->
                             /\ run'.pc = "target"
                             /\ IF (run.chunk + 1) * Frames!Piece(profile) < profile.period
                                THEN run'.chunk = run.chunk + 1 /\ run'.wait = run.wait
                                ELSE run'.chunk = 0 /\ run'.wait = Frames!Handoff(profile)
  <1> DEFINE n == Frames!Least(run.captured, Frames!Piece(profile) - run.got)
             taken == [run EXCEPT !.captured = @ - n, !.got = @ + n]
             full == [taken EXCEPT !.got = 0]
             bounded == Frames!Least(Frames!Handoff(profile), Frames!Most(run.queued - profile.period, 0))
             more == (run.chunk + 1) * Frames!Piece(profile) < profile.period
  <1>1. n \in Nat /\ run.got + n <= Frames!Piece(profile) BY DEF RunRecords, Frames!Least
  <1>2. run.pc = "capture" /\ run.captured > 0 BY DEF Frames!Capture
  <1>3. /\ taken.got = run.got + n /\ taken.queued = run.queued /\ taken.phase = run.phase
        /\ taken.captured = run.captured - n /\ taken.pc = run.pc /\ taken.wait = run.wait
        /\ taken.chunk = run.chunk
    BY DEF RunRecords
  <1>4. DOMAIN full = DOMAIN run /\ full.got = 0 /\ full.queued = run.queued /\ full.phase = run.phase
        /\ full.captured = run.captured - n /\ full.wait = run.wait /\ full.chunk = run.chunk
    BY DEF RunRecords
  <1>5. CASE taken.got < Frames!Piece(profile)
    <2>1. Frames!Step(taken) BY <1>5 DEF Frames!Capture
    <2> HIDE DEF n, taken, full, bounded, more
    <2>2. run' = taken /\ profile' = profile BY <2>1 DEF Frames!Step
    <2>3. run.got + n < Frames!Piece(profile) BY <1>3, <1>5
    <2> QED BY <1>2, <1>3, <2>2, <2>3 DEF n
  <1>6. CASE ~(taken.got < Frames!Piece(profile)) /\ Frames!Loop(profile) = "scheduled"
    <2>1. taken.got = Frames!Piece(profile) BY <1>1, <1>3, <1>6 DEF RunRecords
    <2>2. Frames!Step([full EXCEPT !.pc = "client", !.wait = bounded])
      BY <1>6, <2>1 DEF Frames!Capture
    <2>3. run' = [full EXCEPT !.pc = "client", !.wait = bounded] /\ profile' = profile
      BY <2>2 DEF Frames!Step
    <2> HIDE DEF n, taken, full, bounded, more
    <2>4. DOMAIN run = {"pc", "queued", "captured", "phase", "wait", "got", "left", "chunk"}
      BY DEF RunRecords
    <2>5. /\ run'.queued = full.queued /\ run'.phase = full.phase /\ run'.captured = full.captured
          /\ run'.got = full.got /\ run'.pc = "client" /\ run'.wait = bounded
      BY <1>4, <2>3, <2>4
    <2>6. ~(run.got + n < Frames!Piece(profile)) /\ run.got + n = Frames!Piece(profile)
      BY <1>3, <1>6, <2>1
    <2> QED BY <1>2, <1>4, <1>6, <2>3, <2>5, <2>6 DEF n, bounded
  <1>7. CASE ~(taken.got < Frames!Piece(profile)) /\ Frames!Loop(profile) = "ahead"
    <2>1. taken.got = Frames!Piece(profile) BY <1>1, <1>3, <1>7 DEF RunRecords
    <2>2. Frames!Step([full EXCEPT !.pc = "client", !.wait = Frames!Handoff(profile)])
      BY <1>7, <2>1 DEF Frames!Capture
    <2>3. run' = [full EXCEPT !.pc = "client", !.wait = Frames!Handoff(profile)] /\ profile' = profile
      BY <2>2 DEF Frames!Step
    <2> HIDE DEF n, taken, full, bounded, more
    <2>4. DOMAIN run = {"pc", "queued", "captured", "phase", "wait", "got", "left", "chunk"}
      BY DEF RunRecords
    <2>5. /\ run'.queued = full.queued /\ run'.phase = full.phase /\ run'.captured = full.captured
          /\ run'.got = full.got /\ run'.pc = "client" /\ run'.wait = Frames!Handoff(profile)
      BY <1>4, <2>3, <2>4
    <2>6. ~(run.got + n < Frames!Piece(profile)) /\ run.got + n = Frames!Piece(profile)
      BY <1>3, <1>7, <2>1
    <2> QED BY <1>2, <1>4, <1>7, <2>3, <2>5, <2>6 DEF n
  <1>8. CASE ~(taken.got < Frames!Piece(profile)) /\ Frames!Loop(profile) \notin {"scheduled", "ahead"}
    <2>1. taken.got = Frames!Piece(profile) BY <1>1, <1>3, <1>8 DEF RunRecords
    <2>2. IF more THEN Frames!Step([full EXCEPT !.pc = "target", !.chunk = @ + 1])
          ELSE Frames!Step([full EXCEPT !.pc = "target", !.chunk = 0, !.wait = Frames!Handoff(profile)])
      BY <1>8 DEF Frames!Capture
    <2> HIDE DEF n, taken, full, bounded, more
    <2>4. DOMAIN run = {"pc", "queued", "captured", "phase", "wait", "got", "left", "chunk"}
      BY DEF RunRecords
    <2>6. ~(run.got + n < Frames!Piece(profile)) /\ run.got + n = Frames!Piece(profile)
      BY <1>3, <1>8, <2>1
    <2>7. CASE more
      <3>1. run' = [full EXCEPT !.pc = "target", !.chunk = @ + 1] /\ profile' = profile
        BY <2>2, <2>7 DEF Frames!Step
      <3>2. /\ run'.queued = full.queued /\ run'.phase = full.phase /\ run'.captured = full.captured
            /\ run'.got = full.got /\ run'.pc = "target" /\ run'.wait = full.wait
            /\ run'.chunk = full.chunk + 1
        BY <1>4, <2>4, <3>1
      <3>3. (run.chunk + 1) * Frames!Piece(profile) < profile.period BY <2>7 DEF more
      <3> QED BY <1>2, <1>4, <1>8, <2>6, <3>1, <3>2, <3>3 DEF n
    <2>8. CASE ~more
      <3>1. /\ run' = [full EXCEPT !.pc = "target", !.chunk = 0, !.wait = Frames!Handoff(profile)]
            /\ profile' = profile
        BY <2>2, <2>8 DEF Frames!Step
      <3>2. /\ run'.queued = full.queued /\ run'.phase = full.phase /\ run'.captured = full.captured
            /\ run'.got = full.got /\ run'.pc = "target" /\ run'.wait = Frames!Handoff(profile)
            /\ run'.chunk = 0
        BY <1>4, <2>4, <3>1
      <3>3. ~((run.chunk + 1) * Frames!Piece(profile) < profile.period) BY <2>8 DEF more
      <3> QED BY <1>2, <1>4, <1>8, <2>6, <3>1, <3>2, <3>3 DEF n
    <2> QED BY <2>7, <2>8
  <1> QED BY <1>5, <1>6, <1>7, <1>8

LEMMA TickIs ==
    ASSUME run \in RunRecords, Frames!HardwarePeriod(profile) \in Nat, Frames!Tick
    PROVE  /\ profile' = profile /\ Frames!Idle
           /\ \E played \in {0, Frames!HardwarePeriod(profile)} :
                /\ played = IF run.phase + 1 = Frames!HardwarePeriod(profile)
                            THEN Frames!HardwarePeriod(profile) ELSE 0
                /\ \/ /\ run.queued - played <= 0 \/ run.captured + played >= profile.buffer
                      /\ run'.pc = "xrun"
                   \/ /\ run'.pc = run.pc /\ run'.queued = run.queued - played
                      /\ run'.captured = IF Frames!Loop(profile) \in {"split", "timer"} THEN 0
                                         ELSE run.captured + played
                      /\ run'.phase = IF run.phase + 1 = Frames!HardwarePeriod(profile) THEN 0
                                      ELSE run.phase + 1
                      /\ run'.wait = Frames!Most(run.wait - 1, 0)
                      /\ run'.got = run.got /\ run'.left = run.left /\ run'.chunk = run.chunk
  <1> DEFINE moves == run.phase + 1 = Frames!HardwarePeriod(profile)
             played == IF moves THEN Frames!HardwarePeriod(profile) ELSE 0
             next == IF moves THEN 0 ELSE run.phase + 1
             less == Frames!Most(run.wait - 1, 0)
             later == [run EXCEPT !.phase = IF moves THEN 0 ELSE @ + 1, !.queued = @ - played,
                                  !.captured = @ + played, !.wait = Frames!Most(@ - 1, 0)]
  <1>1. /\ Frames!Idle
        /\ IF later.queued <= 0 \/ later.captured >= profile.buffer
           THEN Frames!Step([run EXCEPT !.pc = "xrun"])
           ELSE Frames!Step(IF Frames!Loop(profile) \in {"split", "timer"}
                            THEN [later EXCEPT !.captured = 0] ELSE later)
    BY DEF Frames!Tick
  <1>2. /\ DOMAIN run = {"pc", "queued", "captured", "phase", "wait", "got", "left", "chunk"}
        /\ DOMAIN later = DOMAIN run
        /\ later.pc = run.pc /\ later.queued = run.queued - played
        /\ later.captured = run.captured + played /\ later.phase = next /\ later.wait = less
        /\ later.got = run.got /\ later.left = run.left /\ later.chunk = run.chunk
    BY DEF RunRecords
  <1> HIDE DEF later
  <1>3. CASE later.queued <= 0 \/ later.captured >= profile.buffer
    <2>1. run' = [run EXCEPT !.pc = "xrun"] /\ profile' = profile BY <1>1, <1>3 DEF Frames!Step
    <2>2. run'.pc = "xrun" BY <1>2, <2>1
    <2> QED BY <1>1, <1>2, <1>3, <2>1, <2>2
  <1>4. CASE ~(later.queued <= 0 \/ later.captured >= profile.buffer)
    <2>1. /\ profile' = profile
          /\ run' = IF Frames!Loop(profile) \in {"split", "timer"} THEN [later EXCEPT !.captured = 0]
                    ELSE later
      BY <1>1, <1>4 DEF Frames!Step
    <2> HIDE DEF moves, played, next, less
    <2>2. /\ run'.pc = run.pc /\ run'.queued = run.queued - played
          /\ run'.captured = IF Frames!Loop(profile) \in {"split", "timer"} THEN 0
                             ELSE run.captured + played
          /\ run'.phase = next /\ run'.wait = less
          /\ run'.got = run.got /\ run'.left = run.left /\ run'.chunk = run.chunk
      <3>1. CASE Frames!Loop(profile) \in {"split", "timer"} BY <1>2, <2>1, <3>1
      <3>2. CASE Frames!Loop(profile) \notin {"split", "timer"} BY <1>2, <2>1, <3>2
      <3> QED BY <3>1, <3>2
    <2> QED BY <1>1, <2>1, <2>2 DEF moves, played, next, less
  <1> QED BY <1>3, <1>4

-----------------------------------------------------------------------------
(* The hardware moves both pointers by whole periods of its own, and so    *)
(* does the engine: what is captured, and what it holds of a block, are    *)
(* whole hardware periods.                                                 *)
InStep(p, r) ==
    /\ r.phase < Frames!HardwarePeriod(p)
    /\ Multiple(r.captured, Frames!HardwarePeriod(p))
    /\ Multiple(r.got, Frames!HardwarePeriod(p))

LEMMA PieceOf ==
    ASSUME None \notin Int, NEW p \in Frames!Settings, Frames!Valid(p)
    PROVE  /\ Frames!Piece(p) \in Nat \ {0} /\ Frames!Piece(p) <= p.period
           /\ Multiple(Frames!Piece(p), Frames!HardwarePeriod(p))
  BY SizesOf, Multiples DEF Frames!Piece

LEMMA LeastIs ==
    ASSUME NEW a \in Int, NEW b \in Int
    PROVE  /\ Frames!Least(a, b) \in {a, b} /\ Frames!Least(a, b) <= a /\ Frames!Least(a, b) <= b
           /\ Frames!Most(a, b) \in {a, b} /\ Frames!Most(a, b) >= a /\ Frames!Most(a, b) >= b
  BY DEF Frames!Least, Frames!Most

LEMMA TickIsMultiple ==
    ASSUME Frames!ProfilesAreSettings, Started, InStep(profile, run), Frames!Tick, run'.pc # "xrun"
    PROVE  InStep(profile', run')
  <1>1. /\ profile \in Frames!Settings /\ None \notin Int /\ Frames!Valid(profile)
        /\ run \in RunRecords
    BY StartedIs
  <1> DEFINE H == Frames!HardwarePeriod(profile)
  <1>2. H \in Nat \ {0} BY <1>1, SizesOf
  <1>3. /\ profile' = profile /\ run'.got = run.got
        /\ run'.captured \in {0, run.captured, run.captured + H}
        /\ run'.phase \in {0, run.phase + 1} /\ (run.phase + 1 = H => run'.phase = 0)
    <2>1. PICK played \in {0, H} :
            /\ profile' = profile
            /\ run'.captured = IF Frames!Loop(profile) \in {"split", "timer"} THEN 0
                               ELSE run.captured + played
            /\ run'.phase = IF run.phase + 1 = H THEN 0 ELSE run.phase + 1
            /\ run'.got = run.got
      BY <1>1, <1>2, TickIs
    <2>2. run.captured + 0 = run.captured BY <1>1 DEF RunRecords
    <2> HIDE DEF H
    <2> QED BY <2>1, <2>2
  <1>4. Multiple(run.captured, H) /\ Multiple(run.got, H) /\ run.phase < H
        /\ run.captured \in Int /\ run.phase \in Nat
    BY <1>1 DEF InStep, RunRecords
  <1>5. Multiple(0, H) /\ Multiple(H, H) /\ H \in Int BY <1>2, Multiples
  <1>m. Multiple(run.captured + H, H) BY <1>2, <1>4, <1>5, SumOfMultiples
  <1> HIDE DEF H
  <1>6. run'.phase < H BY <1>2, <1>3, <1>4
  <1> QED BY <1>3, <1>4, <1>5, <1>m, <1>6 DEF InStep, H

LEMMA CaptureIsMultiple ==
    ASSUME Frames!ProfilesAreSettings, Started, InStep(profile, run), Frames!Capture
    PROVE  InStep(profile', run')
  <1>1. /\ profile \in Frames!Settings /\ None \notin Int /\ Frames!Valid(profile)
        /\ run \in RunRecords
    BY StartedIs
  <1> DEFINE H == Frames!HardwarePeriod(profile)
             n == Frames!Least(run.captured, Frames!Piece(profile) - run.got)
  <1>2. H \in Nat \ {0} /\ Frames!Piece(profile) \in Nat \ {0} /\ Multiple(Frames!Piece(profile), H)
    BY <1>1, SizesOf, PieceOf
  <1>3. run.got <= Frames!Piece(profile) BY <1>2 DEF Started, FramesInv, Fits
  <1>4. Multiple(run.captured, H) /\ Multiple(run.got, H) /\ run.captured \in Int /\ run.got \in Int
    BY <1>1 DEF InStep, RunRecords
  <1>5. Frames!Piece(profile) \in Int BY <1>2
  <1>m. Multiple(Frames!Piece(profile) - run.got, H) BY <1>2, <1>4, <1>5, SumOfMultiples
  <1>6. n \in Int /\ Multiple(n, H) BY <1>2, <1>4, <1>5, <1>m DEF Frames!Least
  <1>7. Multiple(run.captured - n, H) /\ Multiple(run.got + n, H) /\ Multiple(0, H)
    BY <1>2, <1>4, <1>6, SumOfMultiples, Multiples
  <1>8. /\ profile' = profile /\ run'.phase = run.phase /\ run'.captured = run.captured - n
        /\ run'.got \in {0, run.got + n}
    BY <1>1, <1>2, <1>3, CaptureIs
  <1> HIDE DEF H, n
  <1> QED BY <1>7, <1>8 DEF InStep, H

LEMMA StaysInStep ==
    ASSUME Frames!ProfilesAreSettings, Started, InStep(profile, run), Frames!Next, run'.pc # "xrun"
    PROVE  InStep(profile', run')
  <1>1. /\ profile \in Frames!Settings /\ None \notin Int /\ Frames!Valid(profile)
        /\ run \in RunRecords /\ run.pc # "closed"
    BY StartedIs DEF Started
  <1>2. CASE Frames!Open BY <1>1, <1>2 DEF Frames!Open
  <1>3. CASE Frames!Ready
    <2> DEFINE H == Frames!HardwarePeriod(profile)
    <2>1. H \in Nat \ {0} /\ profile.period \in Nat /\ Multiple(profile.period, H) BY <1>1, SizesOf
    <2>2. run.captured \in Int /\ Multiple(run.captured, H) BY <1>1 DEF InStep, RunRecords
    <2>4. profile.period \in Int BY <2>1
    <2>3. Multiple(run.captured - profile.period, H) BY <2>1, <2>2, <2>4, SumOfMultiples
    <2> QED BY <1>1, <1>3, <2>3, ReadyIs DEF InStep
  <1>4. CASE Frames!Capture BY <1>4, CaptureIsMultiple
  <1>5. CASE Frames!Answer BY <1>1, <1>5, AnswerIs DEF InStep
  <1>6. CASE Frames!Target BY <1>1, <1>6, TargetIs DEF InStep
  <1>7. CASE Frames!Write BY <1>1, <1>7, WriteIs DEF InStep
  <1>8. CASE Frames!Room BY <1>1, <1>8, RoomIs DEF InStep
  <1>9. CASE Frames!Tick BY <1>9, TickIsMultiple
  <1> QED BY <1>2, <1>3, <1>4, <1>5, <1>6, <1>7, <1>8, <1>9 DEF Frames!Next

-----------------------------------------------------------------------------
(* A split engine fills the buffer and tops it up by a period whenever the *)
(* hardware lets it.                                                       *)
SplitLasts(p, r) ==
    /\ r.pc \in {"target", "write"} /\ r.captured = 0
    /\ Multiple(p.buffer - r.queued, Frames!HardwarePeriod(p))
    /\ r.pc = "write" => r.left = p.period /\ r.queued + p.period <= Frames!Queue(p)

LEMMA SplitSizes ==
    ASSUME None \notin Int, NEW p \in Frames!Settings, Frames!Valid(p), Frames!Loop(p) = "split"
    PROVE  /\ Frames!Enough(p) = Frames!Queue(p) - p.period /\ Frames!Piece(p) = p.period
           /\ Frames!StartFrames(p) = p.buffer
           /\ Frames!Queue(p) \in Int /\ Frames!Queue(p) <= p.buffer
           /\ Frames!Headroom(p) => Frames!Queue(p) > p.period
           /\ Frames!Queue(p) > p.period => \/ Frames!Queue(p) = p.buffer
                                            \/ Frames!Queue(p) >= 2 * p.period
  <1>1. p.period \in Nat \ {0} /\ p.buffer \in Nat \ {0} /\ p.period <= p.buffer BY SizesOf
  <1>2. Frames!Queue(p) \in Int /\ Frames!Queue(p) <= p.buffer BY QueueIsBounded
  <1>3. Frames!AvailMin(p) = p.buffer - Frames!Queue(p) + p.period BY LoopOf DEF Frames!AvailMin
  <1>4. Frames!Enough(p) = p.buffer - Frames!AvailMin(p) /\ Frames!Piece(p) = p.period
    BY DEF Frames!Enough, Frames!Piece
  <1>5. Frames!StartFrames(p) = p.buffer BY <1>1 DEF Frames!StartFrames, Frames!Least
  <1>6. Frames!Headroom(p) => Frames!AvailMin(p) < p.buffer BY DEF Frames!Headroom
  <1>7. ASSUME Frames!Queue(p) > p.period, Frames!Queue(p) # p.buffer
        PROVE  Frames!Queue(p) >= 2 * p.period
    <2>1. p.queue # None BY <1>1, <1>7 DEF Frames!Queue, Frames!Least
    <2>2. p.queue \in Nat BY <2>1 DEF Frames!Settings
    <2>3. Frames!Queue(p) = p.queue * p.period BY <1>7, <2>1 DEF Frames!Queue, Frames!Least
    <2>4. p.queue >= 2
      <3>1. SUFFICES ASSUME p.queue \in 0..1 PROVE FALSE BY <2>2
      <3>2. p.queue = 0 \/ p.queue = 1 BY <3>1
      <3>3. Frames!Queue(p) \in {0, p.period} BY <1>1, <2>3, <3>2
      <3> QED BY <1>1, <1>7, <3>3
    <2>5. (p.queue - 2) * p.period >= 0 BY <1>1, <2>2, <2>4
    <2>6. p.queue * p.period >= 2 * p.period BY <1>1, <2>2, <2>5
    <2> QED BY <2>3, <2>6
  <1> QED BY <1>1, <1>2, <1>3, <1>4, <1>5, <1>6, <1>7

LEMMA SplitRunStep ==
    ASSUME Frames!ProfilesAreSettings, Started, Frames!Loop(profile) = "split",
           Frames!Headroom(profile), InStep(profile, run), SplitLasts(profile, run), Frames!Next
    PROVE  run'.pc # "xrun" /\ SplitLasts(profile', run')
  <1>1. /\ profile \in Frames!Settings /\ None \notin Int /\ Frames!Valid(profile)
        /\ run \in RunRecords /\ run.pc # "closed"
    BY StartedIs DEF Started
  <1> DEFINE H == Frames!HardwarePeriod(profile)
             N == profile.period
             B == profile.buffer
             Q == Frames!Queue(profile)
  <1>2. /\ H \in Nat \ {0} /\ N \in Nat \ {0} /\ B \in Nat \ {0} /\ H <= N /\ N <= B
        /\ Multiple(N, H)
    BY <1>1, SizesOf
  <1>3. /\ Frames!Enough(profile) = Q - N /\ Frames!Piece(profile) = N
        /\ Q \in Int /\ Q <= B /\ Q > N /\ (Q = B \/ Q >= 2 * N)
    BY <1>1, SplitSizes
  <1>4. /\ run.pc \in {"target", "write"} /\ run.captured = 0 /\ Multiple(B - run.queued, H)
        /\ run.pc = "write" => run.left = N /\ run.queued + N <= Q
    BY DEF SplitLasts
  <1>5. run.queued \in Nat /\ run.phase \in Nat BY <1>1 DEF RunRecords
  <1> HIDE DEF H, N, B, Q
  <1>6. CASE Frames!Target
    <2>1. /\ profile' = profile /\ run.queued <= Q - N /\ run'.pc = "write" /\ run'.left = N
          /\ run'.captured = 0 /\ run'.queued = run.queued
      BY <1>1, <1>3, <1>4, <1>6, TargetIs
    <2>2. run.queued + N <= Q BY <1>2, <1>3, <1>5, <2>1
    <2> QED BY <1>4, <2>1, <2>2 DEF SplitLasts, H, N, B, Q
  <1>7. CASE Frames!Write
    <2>1. run.pc = "write" BY <1>1, <1>7, WriteIs
    <2>2. Frames!Least(run.left, B - run.queued) = N /\ run.left = N
      BY <1>2, <1>3, <1>4, <1>5, <2>1 DEF Frames!Least
    <2>3. /\ profile' = profile /\ run'.pc = AfterWrite /\ run'.captured = 0
          /\ run'.queued = run.queued + N
      BY <1>1, <1>2, <1>4, <1>7, <2>2, WriteIs DEF B
    <2>4. AfterWrite = "target" BY DEF AfterWrite, Frames!Top
    <2>5. B - run'.queued = (B - run.queued) - N /\ B - run.queued \in Int
      BY <1>2, <1>5, <2>3
    <2>m. N \in Int BY <1>2
    <2>6. Multiple((B - run.queued) - N, H) BY <1>2, <1>4, <2>5, <2>m, SumOfMultiples
    <2> QED BY <2>3, <2>4, <2>5, <2>6 DEF SplitLasts, H, B
  <1>8. CASE Frames!Tick
    <2>1. PICK played \in {0, H} :
            /\ profile' = profile /\ Frames!Idle
            /\ \/ /\ run.queued - played <= 0 \/ run.captured + played >= B
                  /\ run'.pc = "xrun"
               \/ /\ run'.pc = run.pc /\ run'.queued = run.queued - played
                  /\ run'.captured = 0
      BY <1>1, <1>2, <1>8, TickIs DEF H, B
    <2>2. run.pc = "target" /\ run.queued > Q - N BY <1>3, <1>4, <2>1 DEF Frames!Idle
    <2>3. run.queued - H > 0
      <3>1. CASE Q = B
        <4>1. B - run.queued < N /\ B - run.queued \in Int BY <1>2, <1>5, <2>2, <3>1
        <4>2. (B - run.queued) + H <= N BY <1>2, <1>4, <4>1, MultiplesApart
        <4> QED BY <1>2, <1>3, <1>5, <3>1, <4>2
      <3>2. CASE Q >= 2 * N BY <1>2, <1>3, <1>5, <2>2, <3>2
      <3> QED BY <1>3, <3>1, <3>2
    <2>4. run.queued - played > 0 /\ 0 + played < B BY <1>2, <1>3, <1>5, <2>1, <2>3
    <2>5. /\ run'.pc = "target" /\ run'.queued = run.queued - played /\ run'.captured = 0
      BY <1>2, <1>4, <1>5, <2>1, <2>2, <2>4
    <2>6. Multiple(played, H) /\ played \in Int BY <1>2, <2>1, Multiples
    <2>7. B - run'.queued = (B - run.queued) + played /\ B - run.queued \in Int
      BY <1>2, <1>5, <2>5, <2>6
    <2>8. Multiple(B - run'.queued, H) BY <1>2, <1>4, <2>6, <2>7, SumOfMultiples
    <2> QED BY <2>1, <2>5, <2>8 DEF SplitLasts, H, B
  <1>9. Frames!Target \/ Frames!Write \/ Frames!Tick
    BY <1>1, <1>4 DEF Frames!Next, Frames!Open, Frames!Ready, Frames!Capture, Frames!Answer, Frames!Room
  <1> QED BY <1>6, <1>7, <1>8, <1>9

-----------------------------------------------------------------------------
(* A split engine with timer scheduling writes a period when one is left,  *)
(* and may sleep within the write when the buffer has no room for two.     *)
TimerLasts(p, r) ==
    /\ r.pc \in {"target", "write", "room"} /\ r.captured = 0
    /\ r.pc # "target" => r.left \in 1..p.period
    /\ r.pc = "room" => Multiple(p.buffer - r.queued, Frames!HardwarePeriod(p))

LEMMA TimerSizes ==
    ASSUME None \notin Int, NEW p \in Frames!Settings, Frames!Valid(p), Frames!Loop(p) = "timer"
    PROVE  /\ Frames!Enough(p) = p.period /\ Frames!Piece(p) = p.period
           /\ Frames!AvailMin(p) = p.period
           /\ Frames!Headroom(p) => p.buffer > p.period
  <1>1. p.timer BY DEF Frames!Loop
  <1> QED BY <1>1 DEF Frames!Enough, Frames!Piece, Frames!AvailMin, Frames!Headroom

LEMMA TimerStep ==
    ASSUME Frames!ProfilesAreSettings, Started, Frames!Loop(profile) = "timer",
           Frames!Headroom(profile), InStep(profile, run), TimerLasts(profile, run), Frames!Next
    PROVE  run'.pc # "xrun" /\ TimerLasts(profile', run')
  <1>1. /\ profile \in Frames!Settings /\ None \notin Int /\ Frames!Valid(profile)
        /\ run \in RunRecords /\ run.pc # "closed"
    BY StartedIs DEF Started
  <1> DEFINE H == Frames!HardwarePeriod(profile)
             N == profile.period
             B == profile.buffer
  <1>2. /\ H \in Nat \ {0} /\ N \in Nat \ {0} /\ B \in Nat \ {0} /\ H <= N /\ Multiple(N, H)
    BY <1>1, SizesOf
  <1>3. /\ Frames!Enough(profile) = N /\ Frames!Piece(profile) = N /\ Frames!AvailMin(profile) = N
        /\ B > N
    BY <1>1, TimerSizes
  <1>4. /\ run.pc \in {"target", "write", "room"} /\ run.captured = 0
        /\ run.pc # "target" => run.left \in 1..N
        /\ run.pc = "room" => Multiple(B - run.queued, H)
    BY DEF TimerLasts
  <1>5. run.queued \in Nat /\ run.phase \in Nat BY <1>1 DEF RunRecords
  <1>i. run.queued <= B BY <1>1 DEF Started, FramesInv, Fits
  <1> HIDE DEF H, N, B
  <1>6. CASE Frames!Target
    <2>1. profile' = profile /\ run'.pc = "write" /\ run'.left = N /\ run'.captured = 0
      BY <1>1, <1>3, <1>4, <1>6, TargetIs
    <2> QED BY <1>2, <2>1 DEF TimerLasts, N
  <1>7. CASE Frames!Write
    <2> DEFINE n == Frames!Least(run.left, B - run.queued)
    <2>1. /\ profile' = profile /\ run.pc = "write" /\ run'.captured = 0
          /\ \/ n = 0 /\ run'.pc = "room" /\ run'.queued = run.queued /\ run'.left = run.left
             \/ n > 0 /\ n < run.left /\ run'.pc = "write" /\ run'.left = run.left - n
             \/ run'.pc = AfterWrite
      BY <1>1, <1>4, <1>7, WriteIs DEF B
    <2>2. AfterWrite = "target" BY DEF AfterWrite, Frames!Top
    <2>3. run.left \in 1..N /\ n \in Int BY <1>2, <1>4, <1>5, <2>1 DEF Frames!Least
    <2>4. CASE n = 0 /\ run'.pc = "room" /\ run'.queued = run.queued /\ run'.left = run.left
      <3>1. B - run'.queued = 0 BY <1>2, <1>5, <2>3, <2>4 DEF Frames!Least
      <3> QED BY <1>2, <2>1, <2>3, <2>4, <3>1, Multiples DEF TimerLasts, N, H, B
    <2>5. CASE n > 0 /\ n < run.left /\ run'.pc = "write" /\ run'.left = run.left - n
      <3>1. run'.left \in 1..N BY <1>2, <2>3, <2>5
      <3> QED BY <2>1, <2>5, <3>1 DEF TimerLasts, N
    <2>6. CASE run'.pc = AfterWrite BY <2>1, <2>2, <2>6 DEF TimerLasts
    <2> QED BY <2>1, <2>4, <2>5, <2>6
  <1>8. CASE Frames!Room
    <2>1. /\ profile' = profile /\ run'.pc = "write" /\ run'.left = run.left /\ run'.captured = 0
          /\ run.pc = "room"
      BY <1>1, <1>4, <1>8, RoomIs
    <2> QED BY <1>4, <2>1 DEF TimerLasts, N
  <1>9. CASE Frames!Tick
    <2>1. PICK played \in {0, H} :
            /\ profile' = profile /\ Frames!Idle
            /\ \/ /\ run.queued - played <= 0 \/ run.captured + played >= B
                  /\ run'.pc = "xrun"
               \/ /\ run'.pc = run.pc /\ run'.queued = run.queued - played
                  /\ run'.captured = 0 /\ run'.left = run.left
      BY <1>1, <1>2, <1>9, TickIs DEF H, B
    <2>2. \/ run.pc = "target" /\ run.queued > N
          \/ run.pc = "room" /\ B - run.queued < N
      BY <1>3, <1>4, <2>1 DEF Frames!Idle, B
    <2>3. run.queued - H > 0
      <3>1. CASE run.pc = "target" /\ run.queued > N BY <1>2, <1>5, <3>1
      <3>2. CASE run.pc = "room" /\ B - run.queued < N
        <4>1. B - run.queued \in Int /\ N \in Int BY <1>2, <1>5
        <4>2. (B - run.queued) + H <= N BY <1>2, <1>4, <3>2, <4>1, MultiplesApart
        <4> QED BY <1>2, <1>3, <1>5, <4>2
      <3> QED BY <2>2, <3>1, <3>2
    <2>4. run.queued - played > 0 /\ 0 + played < B BY <1>2, <1>3, <1>5, <2>1, <2>3
    <2>5. /\ run'.pc = run.pc /\ run'.queued = run.queued - played /\ run'.captured = 0
          /\ run'.left = run.left
      BY <1>2, <1>4, <1>5, <2>1, <2>4
    <2>6. Multiple(played, H) /\ played \in Int BY <1>2, <2>1, Multiples
    <2>7. B - run'.queued = (B - run.queued) + played /\ B - run.queued \in Int
      BY <1>2, <1>5, <2>5, <2>6
    <2>8. ASSUME run.pc = "room" PROVE Multiple(B - run'.queued, H)
      <3>1. Multiple((B - run.queued) + played, H)
        BY <1>2, <1>4, <2>6, <2>7, <2>8, SumOfMultiples
      <3> QED BY <2>7, <3>1
    <2> QED BY <1>4, <2>1, <2>2, <2>5, <2>8 DEF TimerLasts, H, B, N
  <1> QED BY <1>1, <1>4, <1>6, <1>7, <1>8, <1>9
          DEF Frames!Next, Frames!Open, Frames!Ready, Frames!Capture, Frames!Answer

-----------------------------------------------------------------------------
(* The direct loop reads a period as soon as it is captured, and gives the *)
(* client less time than what is queued then lasts.                        *)
DirectLasts(p, r) ==
    LET left == Frames!StartFrames(p) - p.period IN
    /\ r.pc \in {"ready", "client", "write"} /\ r.got = 0
    /\ r.queued + r.captured = IF r.pc = "ready" THEN left + p.period ELSE left
    /\ r.captured + r.phase + (IF r.pc = "client" THEN r.wait ELSE 0) <= p.period
    /\ r.pc = "client" /\ r.wait > 0 => r.queued - r.phase >= r.wait + 1
    /\ r.pc = "write" => r.left = p.period

LEMMA DirectSizes ==
    ASSUME None \notin Int, NEW p \in Frames!Settings, Frames!Valid(p), Frames!Loop(p) = "direct"
    PROVE  /\ Frames!StartFrames(p) \in Nat /\ Frames!StartFrames(p) <= p.buffer
           /\ Frames!Headroom(p) => Frames!StartFrames(p) > p.period /\ Frames!Handoff(p) <= p.period
  BY StartIsNat DEF Frames!Headroom

LEMMA DirectStep ==
    ASSUME Frames!ProfilesAreSettings, Started, Frames!Loop(profile) = "direct",
           Frames!Headroom(profile), InStep(profile, run), DirectLasts(profile, run), Frames!Next
    PROVE  run'.pc # "xrun" /\ DirectLasts(profile', run')
  <1>1. /\ profile \in Frames!Settings /\ None \notin Int /\ Frames!Valid(profile)
        /\ run \in RunRecords /\ run.pc # "closed"
    BY StartedIs DEF Started
  <1> DEFINE H == Frames!HardwarePeriod(profile)
             N == profile.period
             B == profile.buffer
             S == Frames!StartFrames(profile)
             extra == IF run.pc = "client" THEN run.wait ELSE 0
  <1>2. /\ H \in Nat \ {0} /\ N \in Nat \ {0} /\ B \in Nat \ {0} /\ H <= N /\ Multiple(N, H)
        /\ Frames!Handoff(profile) \in Nat /\ Frames!Reserve(profile) \in Nat \ {0}
    BY <1>1, SizesOf, ReserveIsPositive
  <1>3. S \in Nat /\ S <= B /\ S > N /\ Frames!Handoff(profile) <= N
    BY <1>1, DirectSizes
  <1>4. /\ run.pc \in {"ready", "client", "write"} /\ run.got = 0
        /\ run.queued + run.captured = IF run.pc = "ready" THEN S - N + N ELSE S - N
        /\ run.captured + run.phase + extra <= N
        /\ run.pc = "client" /\ run.wait > 0 => run.queued - run.phase >= run.wait + 1
        /\ run.pc = "write" => run.left = N
    BY DEF DirectLasts
  <1>5. run.queued \in Nat /\ run.phase \in Nat /\ run.captured \in Nat /\ run.wait \in Nat
    BY <1>1 DEF RunRecords
  <1>6. run.phase < H /\ Multiple(run.captured, H) BY DEF InStep
  <1> HIDE DEF H, N, B, S
  <1>7. CASE Frames!Ready
    <2>1. /\ profile' = profile /\ run.pc = "ready" /\ run'.pc = "client" /\ run.captured >= N
          /\ run'.captured = run.captured - N /\ run'.queued = run.queued
          /\ run'.phase = run.phase /\ run'.got = 0
          /\ run'.wait = Frames!Least(Frames!Handoff(profile),
                                      Frames!Most(run.queued - Frames!Reserve(profile), 0))
      BY <1>1, <1>4, <1>7, ReadyIs DEF N
    <2>2. run.captured = N /\ run.phase = 0 BY <1>2, <1>4, <1>5, <2>1
    <2>3. run'.wait <= N /\ (run'.wait > 0 => run'.wait + 1 <= run.queued)
      BY <1>2, <1>3, <1>5, <2>1 DEF Frames!Least, Frames!Most
    <2>4. run'.wait \in Int BY <1>2, <1>5, <2>1 DEF Frames!Least, Frames!Most
    <2>5. /\ run'.captured = 0 /\ run'.queued = S - N /\ run'.phase = 0
      BY <1>2, <1>3, <1>4, <1>5, <2>1, <2>2
    <2>6. /\ run'.queued + run'.captured = S - N
          /\ run'.captured + run'.phase + run'.wait <= N
          /\ run'.wait > 0 => run'.queued - run'.phase >= run'.wait + 1
      BY <1>2, <1>3, <1>5, <2>1, <2>3, <2>4, <2>5
    <2> QED BY <2>1, <2>6 DEF DirectLasts, N, S
  <1>8. CASE Frames!Answer
    <2>1. /\ profile' = profile /\ run.pc = "client" /\ run'.pc = "write"
          /\ run'.captured = run.captured /\ run'.queued = run.queued
          /\ run'.phase = run.phase /\ run'.got = 0 /\ run'.left = N
      BY <1>1, <1>4, <1>8, AnswerIs DEF N
    <2>2. run'.captured + run'.phase + 0 <= N BY <1>2, <1>4, <1>5, <2>1
    <2> QED BY <1>4, <2>1, <2>2 DEF DirectLasts, N, S
  <1>9. CASE Frames!Write
    <2>1. run.pc = "write" BY <1>1, <1>9, WriteIs
    <2>2. Frames!Least(run.left, B - run.queued) = N /\ run.left = N
      BY <1>2, <1>3, <1>4, <1>5, <2>1 DEF Frames!Least
    <2>3. /\ profile' = profile /\ run'.pc = AfterWrite /\ run'.captured = run.captured
          /\ run'.queued = run.queued + N /\ run'.got = 0 /\ run'.phase = run.phase
      BY <1>1, <1>2, <1>4, <1>9, <2>2, WriteIs DEF B
    <2>4. AfterWrite = "ready" BY DEF AfterWrite, Frames!Top
    <2>5. /\ run'.queued + run'.captured = S - N + N
          /\ run'.captured + run'.phase + 0 <= N
      BY <1>2, <1>3, <1>4, <1>5, <2>1, <2>3
    <2> QED BY <2>3, <2>4, <2>5 DEF DirectLasts, N, S
  <1>10. CASE Frames!Tick
    <2>1. PICK played \in {0, H} :
            /\ profile' = profile /\ Frames!Idle
            /\ played = IF run.phase + 1 = H THEN H ELSE 0
            /\ \/ /\ run.queued - played <= 0 \/ run.captured + played >= B
                  /\ run'.pc = "xrun"
               \/ /\ run'.pc = run.pc /\ run'.queued = run.queued - played
                  /\ run'.captured = run.captured + played
                  /\ run'.phase = IF run.phase + 1 = H THEN 0 ELSE run.phase + 1
                  /\ run'.wait = Frames!Most(run.wait - 1, 0) /\ run'.got = 0
      BY <1>1, <1>2, <1>4, <1>10, TickIs DEF H, B
    <2> DEFINE wait == Frames!Most(run.wait - 1, 0)
               phase == IF run.phase + 1 = H THEN 0 ELSE run.phase + 1
    <2>2. CASE run.pc = "ready"
      <3>1. B - run.queued < N \/ run.captured < N
        BY <1>2, <1>5, <2>1, <2>2 DEF Frames!Idle, B, N
      <3>2. run.captured < N BY <1>2, <1>3, <1>4, <1>5, <2>2, <3>1
      <3>3. run.captured \in Int /\ N \in Int BY <1>2, <1>5
      <3>4. run.captured + H <= N BY <1>2, <1>6, <3>2, <3>3, MultiplesApart
      <3>5. run.queued - played > 0 /\ run.captured + played < B
        BY <1>2, <1>3, <1>4, <1>5, <2>1, <2>2, <3>4
      <3>6. /\ run'.pc = "ready" /\ run'.queued = run.queued - played
            /\ run'.captured = run.captured + played /\ run'.phase = phase /\ run'.got = 0
        BY <1>2, <1>5, <2>1, <2>2, <3>5
      <3>7. /\ run'.queued + run'.captured = S - N + N
            /\ run'.captured + run'.phase + 0 <= N
        BY <1>2, <1>3, <1>4, <1>5, <1>6, <2>1, <2>2, <3>4, <3>6
      <3> QED BY <2>1, <3>6, <3>7 DEF DirectLasts, N, S
    <2>3. CASE run.pc = "client"
      <3>1. run.wait > 0 BY <2>1, <2>3 DEF Frames!Idle
      <3>2. wait = run.wait - 1 BY <1>5, <3>1 DEF Frames!Most
      <3>3. run.queued - run.phase >= run.wait + 1 /\ run.captured + run.phase + run.wait <= N
        BY <1>4, <2>3, <3>1
      <3>4. run.queued - played > 0 /\ run.captured + played < B
        BY <1>2, <1>3, <1>5, <2>1, <3>1, <3>3
      <3>5. /\ run'.pc = "client" /\ run'.queued = run.queued - played
            /\ run'.captured = run.captured + played /\ run'.phase = phase /\ run'.got = 0
            /\ run'.wait = run.wait - 1
        BY <1>2, <1>5, <2>1, <2>3, <3>2, <3>4
      <3>6. /\ run'.queued + run'.captured = S - N
            /\ run'.captured + run'.phase + run'.wait <= N
            /\ run'.wait > 0 => run'.queued - run'.phase >= run'.wait + 1
        BY <1>2, <1>3, <1>4, <1>5, <1>6, <2>1, <2>3, <3>1, <3>3, <3>5
      <3> QED BY <2>1, <3>5, <3>6 DEF DirectLasts, N, S
    <2> QED BY <1>4, <2>1, <2>2, <2>3 DEF Frames!Idle
  <1> QED BY <1>1, <1>4, <1>7, <1>8, <1>9, <1>10
          DEF Frames!Next, Frames!Open, Frames!Capture, Frames!Target, Frames!Room

-----------------------------------------------------------------------------
(* The scheduled loop asks its client for no more than what outlasts the   *)
(* period it is about to write, and starts with the floor, a period and    *)
(* the handoff.                                                            *)
ScheduledLasts(p, r) ==
    LET left == Frames!StartFrames(p) - p.period IN
    /\ r.pc \in {"capture", "client", "target", "write"}
    /\ r.got < p.period /\ (r.pc # "capture" => r.got = 0)
    /\ r.queued + r.captured + r.got = IF r.pc = "capture" THEN left + p.period ELSE left
    /\ r.pc = "client" /\ r.wait > 0 =>
         r.queued - r.phase >= p.period - Frames!HardwarePeriod(p) + 1 + r.wait
    /\ r.pc = "write" => r.left = p.period /\ r.queued + p.period <= p.buffer

LEMMA ScheduledSizes ==
    ASSUME None \notin Int, NEW p \in Frames!Settings, Frames!Valid(p), Frames!Loop(p) = "scheduled"
    PROVE  /\ Frames!StartFrames(p) \in Nat /\ Frames!StartFrames(p) <= p.buffer
           /\ Frames!Enough(p) = Frames!Floor(p) /\ Frames!Piece(p) = p.period
           /\ Frames!Floor(p) \in Nat /\ Frames!Floor(p) + p.period <= p.buffer
           /\ Frames!Headroom(p) => p.buffer > p.period
           /\ p.buffer > p.period =>
                /\ Frames!StartFrames(p) > p.period
                /\ \/ Frames!Floor(p) >= 4 * Frames!HardwarePeriod(p)
                   \/ /\ Frames!Floor(p) = p.buffer - p.period
                      /\ Frames!StartFrames(p) = p.buffer
  <1>1. p.lead = 0 BY LoopOf
  <1>2. /\ Frames!HardwarePeriod(p) \in Nat \ {0} /\ p.period \in Nat \ {0} /\ p.buffer \in Nat \ {0}
        /\ p.period <= p.buffer /\ Frames!Handoff(p) \in Nat
    BY SizesOf
  <1>3. Frames!Guard(p) \in Nat /\ Frames!Guard(p) >= Frames!HardwarePeriod(p) BY GuardIsAtLeast
  <1>4. Frames!Floor(p) \in Nat /\ Frames!Floor(p) + p.period <= p.buffer BY <1>1, FloorFits
  <1>5. Frames!Floor(p) = Frames!Least(p.buffer - p.period, Frames!Guard(p) + 3 * Frames!HardwarePeriod(p))
    BY <1>1 DEF Frames!Floor
  <1>6. \/ Frames!Floor(p) >= 4 * Frames!HardwarePeriod(p)
        \/ Frames!Floor(p) = p.buffer - p.period
    BY <1>2, <1>3, <1>5 DEF Frames!Least
  <1>7. Frames!StartFrames(p) = Frames!Least(p.buffer, p.period + Frames!Floor(p) + Frames!Handoff(p))
    BY DEF Frames!StartFrames
  <1>8. Frames!Floor(p) = p.buffer - p.period => Frames!StartFrames(p) = p.buffer
    BY <1>2, <1>7 DEF Frames!Least
  <1>9. p.buffer > p.period => Frames!Floor(p) > 0 BY <1>2, <1>4, <1>6
  <1>10. p.buffer > p.period => Frames!StartFrames(p) > p.period
    BY <1>2, <1>4, <1>7, <1>9 DEF Frames!Least
  <1> QED BY <1>4, <1>6, <1>8, <1>10, StartIsNat DEF Frames!Enough, Frames!Piece, Frames!Headroom

LEMMA ScheduledStep ==
    ASSUME Frames!ProfilesAreSettings, Started, Frames!Loop(profile) = "scheduled",
           Frames!Headroom(profile), InStep(profile, run), ScheduledLasts(profile, run), Frames!Next
    PROVE  run'.pc # "xrun" /\ ScheduledLasts(profile', run')
  <1>1. /\ profile \in Frames!Settings /\ None \notin Int /\ Frames!Valid(profile)
        /\ run \in RunRecords /\ run.pc # "closed"
    BY StartedIs DEF Started
  <1> DEFINE H == Frames!HardwarePeriod(profile)
             N == profile.period
             B == profile.buffer
             S == Frames!StartFrames(profile)
             F == Frames!Floor(profile)
  <1>2. /\ H \in Nat \ {0} /\ N \in Nat \ {0} /\ B \in Nat \ {0} /\ H <= N /\ Multiple(N, H)
        /\ Frames!Handoff(profile) \in Nat
    BY <1>1, SizesOf
  <1>3. /\ S \in Nat /\ S <= B /\ S > N /\ F \in Nat /\ F + N <= B
        /\ (F >= 4 * H \/ (F = B - N /\ S = B))
        /\ Frames!Enough(profile) = F /\ Frames!Piece(profile) = N
    BY <1>1, ScheduledSizes
  <1>4. /\ run.pc \in {"capture", "client", "target", "write"}
        /\ run.got < N /\ (run.pc # "capture" => run.got = 0)
        /\ run.queued + run.captured + run.got = IF run.pc = "capture" THEN S - N + N ELSE S - N
        /\ run.pc = "client" /\ run.wait > 0 => run.queued - run.phase >= N - H + 1 + run.wait
        /\ run.pc = "write" => run.left = N /\ run.queued + N <= B
    BY DEF ScheduledLasts
  <1>5. /\ run.queued \in Nat /\ run.phase \in Nat /\ run.captured \in Nat /\ run.wait \in Nat
        /\ run.got \in Nat
    BY <1>1 DEF RunRecords
  <1>6. run.phase < H /\ Multiple(run.got, H) BY DEF InStep
  <1> HIDE DEF H, N, B, S, F
  <1>7. CASE Frames!Capture
    <2> DEFINE n == Frames!Least(run.captured, N - run.got)
    <2>1. /\ profile' = profile /\ run.pc = "capture" /\ run'.queued = run.queued
          /\ run'.phase = run.phase /\ run'.captured = run.captured - n
          /\ run.got + n < N => run'.pc = "capture" /\ run'.got = run.got + n
          /\ ~(run.got + n < N) =>
               /\ run.got + n = N /\ run'.got = 0 /\ run'.pc = "client"
               /\ run'.wait = Frames!Least(Frames!Handoff(profile), Frames!Most(run.queued - N, 0))
      <3>1. Frames!Piece(profile) \in Nat /\ run.got <= Frames!Piece(profile)
        BY <1>2, <1>3, <1>4, <1>5
      <3> QED BY <1>1, <1>3, <1>7, <3>1, CaptureIs DEF N
    <2>2. n \in Int BY <1>2, <1>5 DEF Frames!Least
    <2> HIDE DEF n
    <2>3. CASE run.got + n < N
      <3>1. run'.queued + run'.captured + run'.got = S - N + N
        BY <1>2, <1>3, <1>4, <1>5, <2>1, <2>2, <2>3
      <3> QED BY <2>1, <2>3, <3>1 DEF ScheduledLasts, N, S
    <2>4. CASE ~(run.got + n < N)
      <3>1. run'.queued + run'.captured + run'.got = S - N
        BY <1>2, <1>3, <1>4, <1>5, <2>1, <2>2, <2>4
      <3>2. run'.wait \in Int /\ (run'.wait > 0 => run'.wait + N <= run.queued)
        BY <1>2, <1>5, <2>1, <2>4 DEF Frames!Least, Frames!Most
      <3>3. run'.wait > 0 => run'.queued - run'.phase >= N - H + 1 + run'.wait
        BY <1>2, <1>5, <1>6, <2>1, <3>2
      <3> QED BY <1>2, <2>1, <2>4, <3>1, <3>3 DEF ScheduledLasts, N, S, H
    <2> QED BY <2>3, <2>4
  <1>8. CASE Frames!Answer
    <2>1. /\ profile' = profile /\ run.pc = "client" /\ run'.pc = "target"
          /\ run'.captured = run.captured /\ run'.queued = run.queued
          /\ run'.phase = run.phase /\ run'.got = 0
      BY <1>1, <1>4, <1>8, AnswerIs
    <2> QED BY <1>4, <2>1 DEF ScheduledLasts, N, S
  <1>9. CASE Frames!Target
    <2>1. /\ profile' = profile /\ run.pc = "target" /\ run'.pc = "write" /\ run'.left = N
          /\ run.queued <= F /\ run'.captured = run.captured /\ run'.queued = run.queued
          /\ run'.got = 0
      BY <1>1, <1>3, <1>4, <1>9, TargetIs
    <2>2. run'.queued + N <= B BY <1>2, <1>3, <1>5, <2>1
    <2> QED BY <1>4, <2>1, <2>2 DEF ScheduledLasts, N, S, B
  <1>10. CASE Frames!Write
    <2>1. run.pc = "write" BY <1>1, <1>10, WriteIs
    <2>2. Frames!Least(run.left, B - run.queued) = N /\ run.left = N
      BY <1>2, <1>3, <1>4, <1>5, <2>1 DEF Frames!Least
    <2>3. /\ profile' = profile /\ run'.pc = AfterWrite /\ run'.captured = run.captured
          /\ run'.queued = run.queued + N /\ run'.got = 0
      BY <1>1, <1>2, <1>4, <1>10, <2>1, <2>2, WriteIs DEF B
    <2>4. AfterWrite = "capture" BY DEF AfterWrite, Frames!Top
    <2>5. run'.queued + run'.captured + run'.got = S - N + N
      BY <1>2, <1>3, <1>4, <1>5, <2>1, <2>3
    <2> QED BY <1>2, <2>3, <2>4, <2>5 DEF ScheduledLasts, N, S
  <1>11. CASE Frames!Tick
    <2>1. PICK played \in {0, H} :
            /\ profile' = profile /\ Frames!Idle
            /\ played = IF run.phase + 1 = H THEN H ELSE 0
            /\ \/ /\ run.queued - played <= 0 \/ run.captured + played >= B
                  /\ run'.pc = "xrun"
               \/ /\ run'.pc = run.pc /\ run'.queued = run.queued - played
                  /\ run'.captured = run.captured + played
                  /\ run'.phase = IF run.phase + 1 = H THEN 0 ELSE run.phase + 1
                  /\ run'.wait = Frames!Most(run.wait - 1, 0) /\ run'.got = run.got
      BY <1>1, <1>2, <1>11, TickIs DEF H, B
    <2>2. \/ run.pc = "capture" /\ run.captured = 0
          \/ run.pc = "client" /\ run.wait > 0
          \/ run.pc = "target" /\ run.queued > F
      BY <1>3, <1>4, <2>1 DEF Frames!Idle
    <2>3. run.queued - played > 0 /\ run.captured + played < B
      <3>1. CASE run.pc = "capture" /\ run.captured = 0
        <4>1. run.got \in Int /\ N \in Int /\ run.got < N BY <1>2, <1>4, <1>5
        <4>2. run.got + H <= N BY <1>2, <1>6, <4>1, MultiplesApart
        <4> QED BY <1>2, <1>3, <1>4, <1>5, <2>1, <3>1, <4>2
      <3>2. CASE run.pc = "client" /\ run.wait > 0
        <4>1. run.queued - run.phase >= N - H + 1 + run.wait BY <1>4, <3>2
        <4>2. run.queued + run.captured = S - N /\ run.captured < B
          BY <1>2, <1>3, <1>4, <1>5, <3>2
        <4>3. CASE run.phase + 1 = H
          <5>1. run.queued >= N + run.wait BY <1>2, <1>5, <4>1, <4>3
          <5> QED BY <1>2, <1>3, <1>5, <2>1, <3>2, <4>2, <4>3, <5>1
        <4>4. CASE run.phase + 1 # H BY <1>2, <1>5, <2>1, <3>2, <4>1, <4>2, <4>4
        <4> QED BY <4>3, <4>4
      <3>3. CASE run.pc = "target" /\ run.queued > F
        <4>1. run.queued + run.captured = S - N BY <1>2, <1>3, <1>4, <1>5, <3>3
        <4>2. ASSUME F = B - N, S = B PROVE FALSE BY <1>2, <1>3, <1>5, <3>3, <4>1, <4>2
        <4>3. F >= 4 * H BY <1>3, <4>2
        <4> QED BY <1>2, <1>3, <1>5, <2>1, <3>3, <4>1, <4>3
      <3> QED BY <2>2, <3>1, <3>2, <3>3
    <2>4. /\ run'.pc = run.pc /\ run'.queued = run.queued - played
          /\ run'.captured = run.captured + played
          /\ run'.phase = IF run.phase + 1 = H THEN 0 ELSE run.phase + 1
          /\ run'.wait = Frames!Most(run.wait - 1, 0) /\ run'.got = run.got
      BY <1>2, <1>5, <2>1, <2>3
    <2>5. /\ run'.got < N /\ (run'.pc # "capture" => run'.got = 0)
          /\ run'.queued + run'.captured + run'.got = IF run'.pc = "capture" THEN S - N + N ELSE S - N
      BY <1>2, <1>3, <1>4, <1>5, <2>1, <2>4
    <2>6. ASSUME run'.pc = "client", run'.wait > 0
          PROVE  run'.queued - run'.phase >= N - H + 1 + run'.wait
      <3>1. run.pc = "client" /\ run.wait > 0 BY <2>2, <2>4, <2>6
      <3>2. run'.wait = run.wait - 1 BY <1>5, <2>4, <3>1 DEF Frames!Most
      <3>3. run.queued - run.phase >= N - H + 1 + run.wait BY <1>4, <3>1
      <3>4. CASE run.phase + 1 = H BY <1>2, <1>5, <2>1, <2>4, <3>2, <3>3, <3>4
      <3>5. CASE run.phase + 1 # H BY <1>2, <1>5, <2>1, <2>4, <3>2, <3>3, <3>5
      <3> QED BY <3>4, <3>5
    <2> QED BY <1>4, <2>1, <2>2, <2>4, <2>5, <2>6 DEF ScheduledLasts, N, S, H
  <1> QED BY <1>1, <1>4, <1>7, <1>8, <1>9, <1>10, <1>11
          DEF Frames!Next, Frames!Open, Frames!Ready, Frames!Room
-----------------------------------------------------------------------------
(* The loop that renders a period ahead keeps two periods between the      *)
(* pointers, and three while it waits for a block.                         *)
AheadLasts(p, r) ==
    /\ r.pc \in {"client", "target", "write", "capture"} /\ r.got = 0
    /\ r.queued + r.captured = (IF r.pc = "capture" THEN 3 ELSE 2) * p.period
    /\ r.captured + r.phase + (IF r.pc = "client" THEN r.wait ELSE 0) <= p.period
    /\ r.pc = "write" => r.left = p.period /\ r.queued + p.period <= p.buffer

LEMMA AheadSizes ==
    ASSUME None \notin Int, NEW p \in Frames!Settings, Frames!Valid(p), Frames!Loop(p) = "ahead"
    PROVE  /\ Frames!HardwarePeriod(p) = p.period /\ p.buffer >= 2 * p.period
           /\ Frames!StartFrames(p) = 2 * p.period /\ Frames!Piece(p) = p.period
           /\ Frames!Enough(p) \in Nat /\ Frames!Enough(p) >= p.period
           /\ Frames!Enough(p) + p.period <= p.buffer
           /\ Frames!Headroom(p) => Frames!Handoff(p) <= p.period
  <1>1. /\ Frames!HardwarePeriod(p) \in Nat \ {0} /\ p.period \in Nat \ {0} /\ p.buffer \in Nat \ {0}
        /\ Frames!HardwarePeriod(p) <= p.period
    BY SizesOf
  <1>2. /\ p.link /\ p.lead = 1 /\ p.buffer >= p.period + Frames!HardwarePeriod(p)
        /\ ~(Frames!HardwarePeriod(p) < p.period)
    BY LoopOf
  <1>3. Frames!HardwarePeriod(p) = p.period BY <1>1, <1>2
  <1>4. Frames!StartFrames(p) = Frames!Least(p.buffer, p.period + Frames!HardwarePeriod(p))
    BY DEF Frames!StartFrames
  <1>5. Frames!StartFrames(p) = 2 * p.period BY <1>1, <1>2, <1>3, <1>4 DEF Frames!Least
  <1>6. Frames!Enough(p) = Frames!Guard(p) BY <1>2 DEF Frames!Enough, Frames!Floor
  <1>7. /\ Frames!Guard(p) \in Nat /\ Frames!Guard(p) >= Frames!HardwarePeriod(p)
        /\ Frames!Guard(p) + Frames!HardwarePeriod(p) <= p.buffer
    BY <1>2, GuardFits, GuardIsAtLeast
  <1>8. p.buffer >= 2 * p.period BY <1>1, <1>2, <1>3
  <1> QED BY <1>3, <1>5, <1>6, <1>7, <1>8 DEF Frames!Piece, Frames!Headroom

LEMMA AheadStep ==
    ASSUME Frames!ProfilesAreSettings, Started, Frames!Loop(profile) = "ahead",
           Frames!Headroom(profile), InStep(profile, run), AheadLasts(profile, run), Frames!Next
    PROVE  run'.pc # "xrun" /\ AheadLasts(profile', run')
  <1>1. /\ profile \in Frames!Settings /\ None \notin Int /\ Frames!Valid(profile)
        /\ run \in RunRecords /\ run.pc # "closed"
    BY StartedIs DEF Started
  <1> DEFINE N == profile.period
             B == profile.buffer
             G == Frames!Enough(profile)
             extra == IF run.pc = "client" THEN run.wait ELSE 0
             round == (IF run.pc = "capture" THEN 3 ELSE 2) * N
  <1>2. /\ N \in Nat \ {0} /\ B \in Nat \ {0} /\ Frames!HardwarePeriod(profile) = N
        /\ Frames!Piece(profile) = N /\ B >= 2 * N /\ Frames!Handoff(profile) \in Nat
        /\ Frames!Handoff(profile) <= N /\ G \in Nat /\ G >= N /\ G + N <= B
    BY <1>1, SizesOf, AheadSizes
  <1>4. /\ run.pc \in {"client", "target", "write", "capture"} /\ run.got = 0
        /\ run.queued + run.captured = round
        /\ run.captured + run.phase + extra <= N
        /\ run.pc = "write" => run.left = N /\ run.queued + N <= B
    BY DEF AheadLasts
  <1>5. run.queued \in Nat /\ run.phase \in Nat /\ run.captured \in Nat /\ run.wait \in Nat
    BY <1>1 DEF RunRecords
  <1>6. run.phase < N /\ Multiple(run.captured, N) BY <1>2 DEF InStep
  <1>r. round = IF run.pc = "capture" THEN 3 * N ELSE 2 * N OBVIOUS
  <1> HIDE DEF N, B, G, round
  <1>7. run.captured = 0 \/ (run.captured = N /\ run.phase = 0)
    <2>1. run.captured <= N BY <1>2, <1>4, <1>5
    <2>2. run.captured > 0 => 0 + N <= run.captured BY <1>2, <1>5, <1>6, Multiples, MultiplesApart
    <2> QED BY <1>2, <1>4, <1>5, <2>1, <2>2
  <1>8. CASE Frames!Answer
    <2>1. /\ profile' = profile /\ run.pc = "client" /\ run'.pc = "target"
          /\ run'.captured = run.captured /\ run'.queued = run.queued
          /\ run'.phase = run.phase /\ run'.got = 0
      BY <1>1, <1>4, <1>8, AnswerIs
    <2>2. run'.captured + run'.phase + 0 <= N BY <1>2, <1>4, <1>5, <2>1
    <2>3. run'.queued + run'.captured = 2 * N BY <1>4, <1>r, <2>1
    <2> QED BY <2>1, <2>2, <2>3 DEF AheadLasts, N
  <1>9. CASE Frames!Target
    <2>1. /\ profile' = profile /\ run.pc = "target" /\ run'.pc = "write" /\ run'.left = N
          /\ run.queued <= G /\ run'.captured = run.captured /\ run'.queued = run.queued
          /\ run'.phase = run.phase /\ run'.got = 0
      BY <1>1, <1>2, <1>4, <1>9, TargetIs DEF G
    <2>2. run'.queued + N <= B BY <1>2, <1>5, <2>1
    <2>3. run'.captured + run'.phase + 0 <= N /\ run'.queued + run'.captured = 2 * N
      BY <1>2, <1>4, <1>5, <1>r, <2>1
    <2> QED BY <2>1, <2>2, <2>3 DEF AheadLasts, N, B
  <1>10. CASE Frames!Write
    <2>1. run.pc = "write" BY <1>1, <1>10, WriteIs
    <2>2. Frames!Least(run.left, B - run.queued) = N /\ run.left = N
      BY <1>2, <1>4, <1>5, <2>1 DEF Frames!Least
    <2>3. /\ profile' = profile /\ run'.pc = AfterWrite /\ run'.captured = run.captured
          /\ run'.queued = run.queued + N /\ run'.got = 0 /\ run'.phase = run.phase
      BY <1>1, <1>2, <1>4, <1>10, <2>1, <2>2, WriteIs DEF B
    <2>4. AfterWrite = "capture" BY DEF AfterWrite
    <2>5. run'.queued + run'.captured = 3 * N /\ run'.captured + run'.phase + 0 <= N
      BY <1>2, <1>4, <1>5, <1>r, <2>1, <2>3
    <2> QED BY <2>3, <2>4, <2>5 DEF AheadLasts, N
  <1>11. CASE Frames!Capture
    <2>1. run.pc = "capture" /\ run.captured > 0 BY <1>11 DEF Frames!Capture
    <2>2. run.captured = N /\ run.phase = 0 /\ run.queued = 2 * N BY <1>2, <1>4, <1>5, <1>7, <1>r, <2>1
    <2>3. Frames!Least(run.captured, N - run.got) = N BY <1>2, <1>4, <2>2 DEF Frames!Least
    <2>4. /\ profile' = profile /\ run'.queued = run.queued /\ run'.phase = run.phase
          /\ run'.captured = run.captured - N
          /\ run'.got = 0 /\ run'.pc = "client" /\ run'.wait = Frames!Handoff(profile)
      <3>1. Frames!Piece(profile) \in Nat /\ run.got <= Frames!Piece(profile) BY <1>2, <1>4
      <3>2. ~(run.got + N < N) BY <1>2, <1>4
      <3> QED BY <1>1, <1>2, <1>11, <2>3, <3>1, <3>2, CaptureIs
    <2>5. run'.queued + run'.captured = 2 * N /\ run'.captured + run'.phase + run'.wait <= N
      BY <1>2, <2>2, <2>4
    <2> QED BY <2>4, <2>5 DEF AheadLasts, N
  <1>12. CASE Frames!Tick
    <2>1. PICK played \in {0, N} :
            /\ profile' = profile /\ Frames!Idle
            /\ played = IF run.phase + 1 = N THEN N ELSE 0
            /\ \/ /\ run.queued - played <= 0 \/ run.captured + played >= B
                  /\ run'.pc = "xrun"
               \/ /\ run'.pc = run.pc /\ run'.queued = run.queued - played
                  /\ run'.captured = run.captured + played
                  /\ run'.phase = IF run.phase + 1 = N THEN 0 ELSE run.phase + 1
                  /\ run'.wait = Frames!Most(run.wait - 1, 0) /\ run'.got = run.got
      BY <1>1, <1>2, <1>12, TickIs DEF B
    <2>2. \/ run.pc = "capture" /\ run.captured = 0
          \/ run.pc = "client" /\ run.wait > 0
          \/ run.pc = "target" /\ run.queued > G
      BY <1>4, <2>1 DEF Frames!Idle, G
    <2>3. run.captured = 0 /\ run.queued >= 2 * N BY <1>2, <1>4, <1>5, <1>7, <1>r, <2>2
    <2>4. run.queued - played > 0 /\ run.captured + played < B BY <1>2, <1>5, <2>1, <2>3
    <2>5. /\ run'.pc = run.pc /\ run'.queued = run.queued - played
          /\ run'.captured = run.captured + played
          /\ run'.phase = IF run.phase + 1 = N THEN 0 ELSE run.phase + 1
          /\ run'.wait = Frames!Most(run.wait - 1, 0) /\ run'.got = 0
      BY <1>2, <1>4, <1>5, <2>1, <2>4
    <2>6. run'.queued + run'.captured = round BY <1>2, <1>4, <1>5, <2>1, <2>5
    <2>7. run'.captured + run'.phase <= N BY <1>2, <1>5, <1>6, <2>1, <2>3, <2>5
    <2>8. ASSUME run.pc = "client" PROVE run'.captured + run'.phase + run'.wait <= N
      <3>1. run.wait > 0 /\ run'.wait = run.wait - 1 BY <1>5, <2>2, <2>5, <2>8 DEF Frames!Most
      <3>2. run.phase + run.wait <= N BY <1>2, <1>4, <1>5, <2>3, <2>8
      <3> QED BY <1>2, <1>5, <2>1, <2>3, <2>5, <3>1, <3>2
    <2>9. run'.captured + run'.phase + 0 <= N BY <1>2, <1>5, <2>1, <2>5, <2>7
    <2> QED BY <1>4, <2>1, <2>2, <2>5, <2>6, <2>8, <2>9 DEF AheadLasts, N, round
  <1> QED BY <1>1, <1>4, <1>8, <1>9, <1>10, <1>11, <1>12
          DEF Frames!Next, Frames!Open, Frames!Ready, Frames!Room

-----------------------------------------------------------------------------
(* The loop that stages packets writes a period in pieces of a hardware    *)
(* period.  Between two pieces the queue holds the pieces written so far,  *)
(* or is above the guard; and a client that is asked after the last piece  *)
(* has less time than what is queued, and than capture has room.           *)
PacketLasts(p, r) ==
    LET H == Frames!HardwarePeriod(p)
        written == r.chunk * H
        soon == r.captured + r.phase + r.wait < p.buffer IN
    /\ r.pc \in {"target", "write", "client", "capture"} /\ r.got = 0
    /\ written + H <= p.period
    /\ r.queued + r.captured = IF r.pc \in {"target", "write"} THEN p.period + H ELSE p.period + 2 * H
    /\ r.pc \in {"target", "write"} =>
         IF r.chunk = 0 THEN r.wait > 0 => soon /\ r.queued + H - r.phase > r.wait
         ELSE \/ r.queued >= written
              \/ r.queued > Frames!Guard(p)
              \/ r.queued + H > Frames!Guard(p) /\ r.phase = 0
    /\ r.pc = "write" => r.left = H /\ r.queued <= Frames!Guard(p)
    /\ r.pc = "client" =>
         r.chunk = 0 /\ r.queued >= H /\ (r.wait > 0 => soon /\ r.queued - r.phase > r.wait)
    /\ r.pc = "capture" => r.queued >= written + H \/ (r.queued > Frames!Guard(p) /\ r.phase = 0)

LEMMA PacketSizes ==
    ASSUME None \notin Int, NEW p \in Frames!Settings, Frames!Valid(p), Frames!Loop(p) = "packet"
    PROVE  LET H == Frames!HardwarePeriod(p) IN
           /\ H < p.period /\ p.buffer >= p.period + H
           /\ Frames!StartFrames(p) = p.period + H /\ Frames!Piece(p) = H
           /\ Frames!Enough(p) = Frames!Guard(p) /\ Frames!Guard(p) \in Nat
           /\ Frames!Guard(p) >= H /\ Frames!Guard(p) + H <= p.buffer
           /\ Frames!Headroom(p) => /\ Frames!Handoff(p) <= Frames!Guard(p)
                                    /\ Frames!Handoff(p) <= p.period
                                    /\ Frames!Handoff(p) <= p.buffer - p.period
  <1> DEFINE H == Frames!HardwarePeriod(p)
  <1>1. H \in Nat \ {0} /\ p.period \in Nat \ {0} /\ p.buffer \in Nat \ {0} /\ Frames!Handoff(p) \in Nat
    BY SizesOf
  <1>2. /\ p.link /\ p.lead = 1 /\ p.buffer >= p.period + H BY LoopOf
  <1>3. H < p.period
    <2>1. Frames!Lead(p) = 1 BY <1>2 DEF Frames!Lead
    <2> QED BY <2>1 DEF Frames!Loop
  <1>4. Frames!StartFrames(p) = Frames!Least(p.buffer, p.period + H) BY DEF Frames!StartFrames
  <1>5. Frames!StartFrames(p) = p.period + H BY <1>1, <1>2, <1>4 DEF Frames!Least
  <1>6. Frames!Enough(p) = Frames!Guard(p) BY <1>2 DEF Frames!Enough, Frames!Floor
  <1>7. Frames!Guard(p) \in Nat /\ Frames!Guard(p) >= H /\ Frames!Guard(p) + H <= p.buffer
    BY <1>2, GuardFits, GuardIsAtLeast
  <1>8. ASSUME Frames!Headroom(p)
        PROVE  /\ Frames!Handoff(p) <= Frames!Guard(p) /\ Frames!Handoff(p) <= p.period
               /\ Frames!Handoff(p) <= p.buffer - p.period
    <2>1. Frames!Handoff(p) <= Frames!Least(Frames!Least(Frames!Guard(p), p.period), p.buffer - p.period)
      BY <1>8 DEF Frames!Headroom
    <2>2. Frames!Least(Frames!Guard(p), p.period) \in Int BY <1>1, <1>7 DEF Frames!Least
    <2>3. /\ Frames!Handoff(p) <= Frames!Least(Frames!Guard(p), p.period)
          /\ Frames!Handoff(p) <= p.buffer - p.period
      <3> HIDE DEF H
      <3> QED BY <1>1, <2>1, <2>2 DEF Frames!Least
    <2> QED BY <1>1, <1>7, <2>3 DEF Frames!Least
  <1> QED BY <1>2, <1>3, <1>5, <1>6, <1>7, <1>8 DEF Frames!Piece

LEMMA PacketStep ==
    ASSUME Frames!ProfilesAreSettings, Started, Frames!Loop(profile) = "packet",
           Frames!Headroom(profile), InStep(profile, run), PacketLasts(profile, run), Frames!Next
    PROVE  run'.pc # "xrun" /\ PacketLasts(profile', run')
  <1>1. /\ profile \in Frames!Settings /\ None \notin Int /\ Frames!Valid(profile)
        /\ run \in RunRecords /\ run.pc # "closed"
    BY StartedIs DEF Started
  <1> DEFINE H == Frames!HardwarePeriod(profile)
             N == profile.period
             B == profile.buffer
             G == Frames!Guard(profile)
             W == Frames!Handoff(profile)
             written == run.chunk * H
             soon == run.captured + run.phase + run.wait < B
  <1>2. /\ H \in Nat \ {0} /\ N \in Nat \ {0} /\ B \in Nat \ {0} /\ H < N /\ Multiple(N, H)
        /\ B >= N + H /\ Frames!Piece(profile) = H /\ Frames!Enough(profile) = G
        /\ G \in Nat /\ G >= H /\ G + H <= B
        /\ W \in Nat /\ W <= G /\ W <= N /\ W <= B - N
    BY <1>1, SizesOf, PacketSizes
  <1>3. N >= 2 * H
    <2>1. H \in Int /\ N \in Int /\ Multiple(H, H) BY <1>2, Multiples
    <2>2. H + H <= N BY <1>2, <2>1, MultiplesApart
    <2> QED BY <1>2, <2>2
  <1>4. /\ run.pc \in {"target", "write", "client", "capture"} /\ run.got = 0
        /\ written + H <= N
        /\ run.queued + run.captured = IF run.pc \in {"target", "write"} THEN N + H ELSE N + 2 * H
        /\ run.pc \in {"target", "write"} /\ run.chunk = 0 /\ run.wait > 0 =>
             soon /\ run.queued + H - run.phase > run.wait
        /\ run.pc \in {"target", "write"} /\ run.chunk # 0 =>
             \/ run.queued >= written
             \/ run.queued > G
             \/ run.queued + H > G /\ run.phase = 0
        /\ run.pc = "write" => run.left = H /\ run.queued <= G
        /\ run.pc = "client" =>
             run.chunk = 0 /\ run.queued >= H /\ (run.wait > 0 => soon /\ run.queued - run.phase > run.wait)
        /\ run.pc = "capture" => run.queued >= written + H \/ (run.queued > G /\ run.phase = 0)
    BY DEF PacketLasts
  <1>5. /\ run.queued \in Nat /\ run.phase \in Nat /\ run.captured \in Nat /\ run.wait \in Nat
        /\ run.chunk \in Nat /\ written \in Nat /\ (run.chunk = 0 => written = 0)
    <2>1. /\ run.queued \in Nat /\ run.phase \in Nat /\ run.captured \in Nat /\ run.wait \in Nat
          /\ run.chunk \in Nat
      BY <1>1 DEF RunRecords
    <2>2. written \in Nat /\ (run.chunk = 0 => written = 0) BY <1>2, <2>1
    <2> QED BY <2>1, <2>2
  <1>6. run.phase < H /\ Multiple(run.captured, H) BY DEF InStep
  <1>s. \A x, y \in Int : Multiple(x, H) /\ Multiple(y, H) => Multiple(x + y, H) /\ Multiple(x - y, H)
    BY <1>2, SumOfMultiples
  <1>7. Multiple(run.queued, H) /\ Multiple(written, H)
    <2>1. /\ Multiple(N + H, H) /\ Multiple(N + 2 * H, H) /\ N + H \in Int /\ N + 2 * H \in Int
          /\ run.captured \in Int /\ run.queued \in Int
      <3>1. Multiple(2 * H, H) /\ Multiple(H, H) /\ 2 * H \in Int /\ N \in Int /\ H \in Int
        BY <1>2, Multiples
      <3>2. run.captured \in Int /\ run.queued \in Int BY <1>5
      <3>3. N + H \in Int /\ N + 2 * H \in Int BY <1>2
      <3> QED BY <1>s, <1>2, <3>1, <3>2, <3>3
    <2>2. Multiple((N + H) - run.captured, H) /\ Multiple((N + 2 * H) - run.captured, H)
      <3> DEFINE x == N + H
                 y == N + 2 * H
      <3>1. Multiple(x, H) /\ Multiple(y, H) /\ x \in Int /\ y \in Int BY <2>1
      <3> HIDE DEF x, y
      <3>2. Multiple(x - run.captured, H) /\ Multiple(y - run.captured, H) BY <1>s, <1>6, <2>1, <3>1
      <3> QED BY <3>2 DEF x, y
    <2>3. run.queued = (N + H) - run.captured \/ run.queued = (N + 2 * H) - run.captured
      <3> HIDE DEF written, H, N, B, G, W
      <3> QED BY <1>2, <1>4, <1>5
    <2>4. Multiple(written, H)
      <3>1. run.chunk \in Int BY <1>5
      <3> QED BY <1>2, <3>1, Multiples
    <2> QED BY <2>2, <2>3, <2>4
  <1> HIDE DEF H, N, B, G, W, written
  <1>8. CASE Frames!Target
    <2>1. /\ profile' = profile /\ run.pc = "target" /\ run'.pc = "write" /\ run'.left = H
          /\ run.queued <= G /\ run'.captured = run.captured /\ run'.queued = run.queued
          /\ run'.phase = run.phase /\ run'.got = 0 /\ run'.wait = run.wait /\ run'.chunk = run.chunk
      BY <1>1, <1>2, <1>4, <1>8, TargetIs
    <2> QED BY <1>4, <2>1 DEF PacketLasts, H, N, B, G, written
  <1>9. CASE Frames!Write
    <2>1. run.pc = "write" BY <1>1, <1>9, WriteIs
    <2>2. Frames!Least(run.left, B - run.queued) = H /\ run.left = H
      BY <1>2, <1>4, <1>5, <2>1 DEF Frames!Least
    <2>3. /\ profile' = profile /\ run'.pc = AfterWrite /\ run'.captured = run.captured
          /\ run'.queued = run.queued + H /\ run'.got = 0 /\ run'.phase = run.phase
          /\ run'.wait = run.wait /\ run'.chunk = run.chunk
      BY <1>1, <1>2, <1>4, <1>9, <2>1, <2>2, WriteIs DEF B
    <2>4. AfterWrite = IF run.chunk = 0 THEN "client" ELSE "capture" BY DEF AfterWrite
    <2>5. run'.queued + run'.captured = N + 2 * H BY <1>2, <1>4, <1>5, <2>1, <2>3
    <2>6. CASE run.chunk = 0
      <3>1. run'.wait > 0 => soon /\ run'.queued - run'.phase > run'.wait
        BY <1>2, <1>4, <1>5, <2>1, <2>3, <2>6
      <3>2. run'.queued >= H BY <1>2, <1>5, <2>3
      <3> QED BY <1>4, <2>3, <2>4, <2>5, <2>6, <3>1, <3>2 DEF PacketLasts, H, N, B, G, written
    <2>7. CASE run.chunk # 0
      <3>1. run'.queued >= written + H \/ (run'.queued > G /\ run'.phase = 0)
        <4> QED BY <1>2, <1>4, <1>5, <2>1, <2>3, <2>7
      <3> QED BY <1>4, <2>3, <2>4, <2>5, <2>7, <3>1 DEF PacketLasts, H, N, B, G, written
    <2> QED BY <2>6, <2>7
  <1>10. CASE Frames!Answer
    <2>1. /\ profile' = profile /\ run.pc = "client" /\ run'.pc = "capture"
          /\ run'.captured = run.captured /\ run'.queued = run.queued
          /\ run'.phase = run.phase /\ run'.got = 0 /\ run'.chunk = run.chunk
      BY <1>1, <1>4, <1>10, AnswerIs
    <2>2. run'.queued >= written + H
      <3> QED BY <1>2, <1>4, <1>5, <2>1
    <2> QED BY <1>4, <2>1, <2>2 DEF PacketLasts, H, N, B, G, written
  <1>11. CASE Frames!Capture
    <2>1. run.pc = "capture" /\ run.captured > 0 BY <1>11 DEF Frames!Capture
    <2>2. run.captured >= H
      <3>1. Multiple(0, H) /\ 0 \in Int /\ run.captured \in Int /\ 0 < run.captured
        BY <1>2, <1>5, <2>1, Multiples
      <3>2. 0 + H <= run.captured BY <1>2, <1>6, <3>1, MultiplesApart
      <3> QED BY <1>2, <3>2
    <2>3. Frames!Least(run.captured, H - run.got) = H BY <1>2, <1>4, <1>5, <2>2 DEF Frames!Least
    <2>4. /\ profile' = profile /\ run'.queued = run.queued /\ run'.phase = run.phase
          /\ run'.captured = run.captured - H /\ run'.got = 0 /\ run'.pc = "target"
          /\ IF (run.chunk + 1) * H < N
             THEN run'.chunk = run.chunk + 1 /\ run'.wait = run.wait
             ELSE run'.chunk = 0 /\ run'.wait = W
      <3>1. Frames!Piece(profile) \in Nat /\ run.got <= Frames!Piece(profile) BY <1>2, <1>4
      <3>2. ~(run.got + H < H) BY <1>2, <1>4
      <3> QED BY <1>1, <1>2, <1>11, <2>3, <3>1, <3>2, CaptureIs DEF N, W
    <2>5. (run.chunk + 1) * H = written + H BY <1>2, <1>5 DEF written
    <2>6. run'.queued + run'.captured = N + H BY <1>2, <1>4, <1>5, <2>1, <2>4
    <2>7. CASE (run.chunk + 1) * H < N
      <3>1. run'.chunk * H = written + H /\ run'.chunk # 0 BY <1>5, <2>4, <2>5, <2>7
      <3>2. Multiple(written + H, H) /\ written + H \in Int /\ N \in Int /\ written + H < N
        <4>1. Multiple(H, H) /\ H \in Int /\ written \in Int BY <1>2, <1>5, Multiples
        <4>2. Multiple(written + H, H) BY <1>s, <1>7, <4>1
        <4>3. written + H < N BY <2>5, <2>7
        <4> QED BY <1>2, <4>1, <4>2, <4>3
      <3>3. written + H + H <= N BY <1>2, <3>2, MultiplesApart
      <3>4. run'.queued >= written + H \/ run'.queued > G BY <1>4, <2>1, <2>4
      <3> QED BY <2>4, <2>6, <3>1, <3>3, <3>4 DEF PacketLasts, H, N, B, G, written
    <2>8. CASE ~((run.chunk + 1) * H < N)
      <3>1. run'.chunk = 0 /\ run'.wait = W /\ run'.chunk * H = 0 BY <1>2, <2>4, <2>8
      <3>2. written + H = N BY <1>2, <1>4, <1>5, <2>5, <2>8
      <3>3. run'.captured + run'.phase + run'.wait < B
        <4>1. CASE run.queued >= N
          BY <1>2, <1>3, <1>4, <1>5, <1>6, <2>1, <2>4, <3>1, <4>1
        <4>2. CASE run.queued > G /\ run.phase = 0
          BY <1>2, <1>4, <1>5, <2>1, <2>4, <3>1, <4>2
        <4> QED BY <1>4, <2>1, <3>2, <4>1, <4>2
      <3>4. run'.queued + H - run'.phase > run'.wait
        <4>1. CASE run.queued >= N BY <1>2, <1>5, <1>6, <2>4, <3>1, <4>1
        <4>2. CASE run.queued > G /\ run.phase = 0 BY <1>2, <1>5, <2>4, <3>1, <4>2
        <4> QED BY <1>4, <2>1, <3>2, <4>1, <4>2
      <3>5. run'.chunk * H + H <= N BY <1>2, <3>1
      <3> QED BY <2>4, <2>6, <3>1, <3>3, <3>4, <3>5 DEF PacketLasts, H, N, B, G, written
    <2> QED BY <2>7, <2>8
  <1>12. CASE Frames!Tick
    <2>1. PICK played \in {0, H} :
            /\ profile' = profile /\ Frames!Idle
            /\ played = IF run.phase + 1 = H THEN H ELSE 0
            /\ \/ /\ run.queued - played <= 0 \/ run.captured + played >= B
                  /\ run'.pc = "xrun"
               \/ /\ run'.pc = run.pc /\ run'.queued = run.queued - played
                  /\ run'.captured = run.captured + played
                  /\ run'.phase = IF run.phase + 1 = H THEN 0 ELSE run.phase + 1
                  /\ run'.wait = Frames!Most(run.wait - 1, 0) /\ run'.got = run.got
                  /\ run'.chunk = run.chunk
      BY <1>1, <1>2, <1>12, TickIs DEF H, B
    <2>2. \/ run.pc = "capture" /\ run.captured = 0
          \/ run.pc = "client" /\ run.wait > 0
          \/ run.pc = "target" /\ run.queued > G
      BY <1>2, <1>4, <2>1 DEF Frames!Idle
    <2>3. run.queued - played > 0 /\ run.captured + played < B
      <3>1. CASE run.pc = "capture" /\ run.captured = 0
        BY <1>2, <1>3, <1>4, <1>5, <2>1, <3>1
      <3>2. CASE run.pc = "client" /\ run.wait > 0
        BY <1>2, <1>4, <1>5, <2>1, <3>2
      <3>3. CASE run.pc = "target" /\ run.queued > G
        BY <1>2, <1>4, <1>5, <2>1, <3>3
      <3> QED BY <2>2, <3>1, <3>2, <3>3
    <2>4. /\ run'.pc = run.pc /\ run'.queued = run.queued - played
          /\ run'.captured = run.captured + played
          /\ run'.phase = IF run.phase + 1 = H THEN 0 ELSE run.phase + 1
          /\ run'.wait = Frames!Most(run.wait - 1, 0) /\ run'.got = 0
          /\ run'.chunk = run.chunk
      BY <1>2, <1>4, <1>5, <2>1, <2>3
    <2>5. run'.queued + run'.captured = run.queued + run.captured BY <1>2, <1>5, <2>1, <2>4
    <2>6. ASSUME run'.wait > 0
          PROVE  /\ run'.wait = run.wait - 1 /\ run.wait > 0
                 /\ soon => run'.captured + run'.phase + run'.wait < B
      <3>1. run'.wait = run.wait - 1 /\ run.wait > 0 BY <1>5, <2>4, <2>6 DEF Frames!Most
      <3> QED BY <1>2, <1>5, <2>1, <2>4, <3>1
    <2>7. CASE run.pc = "capture" /\ run.captured = 0
      <3>1. run.queued = N + 2 * H BY <1>2, <1>4, <1>5, <2>7
      <3>2. run'.queued >= written + H
        <4> QED BY <1>2, <1>4, <1>5, <2>1, <2>4, <3>1
      <3> QED BY <1>4, <2>1, <2>4, <2>5, <2>7, <3>2 DEF PacketLasts, H, N, B, G, written
    <2>8. CASE run.pc = "client" /\ run.wait > 0
      <3>1. run'.queued >= H
        <4>1. run'.queued \in Int /\ Multiple(run'.queued, H)
          <5>1. Multiple(played, H) /\ played \in Int /\ run.queued \in Int
            BY <1>2, <1>5, <2>1, Multiples
          <5> QED BY <1>s, <1>2, <1>7, <2>4, <5>1
        <4>2. Multiple(0, H) /\ 0 < run'.queued BY <1>2, <2>3, <2>4, Multiples
        <4>3. 0 + H <= run'.queued BY <1>2, <4>1, <4>2, MultiplesApart
        <4> QED BY <1>2, <4>3
      <3>2. run'.wait > 0 => run'.captured + run'.phase + run'.wait < B
        BY <1>4, <2>6, <2>8
      <3>3. run'.wait > 0 => run'.queued - run'.phase > run'.wait
        BY <1>2, <1>4, <1>5, <2>1, <2>4, <2>6, <2>8
      <3> QED BY <1>4, <2>1, <2>4, <2>5, <2>8, <3>1, <3>2, <3>3 DEF PacketLasts, H, N, B, G, written
    <2>9. CASE run.pc = "target" /\ run.queued > G
      <3>1. run'.queued > G \/ (run'.queued + H > G /\ run'.phase = 0)
        BY <1>2, <1>5, <2>1, <2>4, <2>9
      <3>2. run'.wait > 0 /\ run.chunk = 0 =>
              run'.captured + run'.phase + run'.wait < B /\ run'.queued + H - run'.phase > run'.wait
        BY <1>2, <1>4, <1>5, <2>1, <2>4, <2>6, <2>9
      <3> QED BY <1>4, <2>1, <2>4, <2>5, <2>9, <3>1, <3>2 DEF PacketLasts, H, N, B, G, written
    <2> QED BY <2>2, <2>7, <2>8, <2>9
  <1> QED BY <1>1, <1>4, <1>8, <1>9, <1>10, <1>11, <1>12
          DEF Frames!Next, Frames!Open, Frames!Ready, Frames!Room

-----------------------------------------------------------------------------
(* Both streams last (Lasts).  Every loop that is not late keeps the sum   *)
(* of what is queued and what is captured, so the two streams can only run *)
(* dry and over together; each loop has its own reason why neither does.   *)
(* What is left when a client's time is up is bounded by the sum, and the  *)
(* hardware's last step by hardware periods being whole.                   *)

LoopLasts(p, r) ==
    /\ Frames!Loop(p) = "split" => SplitLasts(p, r)
    /\ Frames!Loop(p) = "timer" => TimerLasts(p, r)
    /\ Frames!Loop(p) = "direct" => DirectLasts(p, r)
    /\ Frames!Loop(p) = "scheduled" => ScheduledLasts(p, r)
    /\ Frames!Loop(p) = "ahead" => AheadLasts(p, r)
    /\ Frames!Loop(p) = "packet" => PacketLasts(p, r)

Lasts ==
    /\ run.pc = "closed" => run = Frames!Opened
    /\ run.pc \notin {"closed", "refused"} /\ Frames!Headroom(profile) =>
         run.pc # "xrun" /\ InStep(profile, run) /\ LoopLasts(profile, run)

LEMMA OpenLasts ==
    ASSUME Frames!ProfilesAreSettings, FramesInv, Lasts, Frames!Open PROVE Lasts'
  <1>1. profile \in Frames!Settings /\ None \notin Int /\ run = Frames!Opened /\ profile' = profile
    BY DEF FramesInv, Lasts, Frames!ProfilesAreSettings, Frames!Open, Frames!Step
  <1>2. CASE Frames!Step([run EXCEPT !.pc = "refused"])
    <2>1. run'.pc = "refused" BY <1>1, <1>2 DEF Frames!Step, Frames!Opened
    <2> QED BY <2>1 DEF Lasts
  <1>3. CASE /\ Frames!Valid(profile)
             /\ Frames!Step([run EXCEPT !.pc = Frames!Top, !.queued = Frames!StartFrames(profile)])
    <2> DEFINE H == Frames!HardwarePeriod(profile)
               N == profile.period
               B == profile.buffer
               S == Frames!StartFrames(profile)
    <2>1. /\ run'.pc = Frames!Top /\ run'.queued = S /\ run'.captured = 0 /\ run'.phase = 0
          /\ run'.wait = 0 /\ run'.got = 0 /\ run'.left = 0 /\ run'.chunk = 0
      BY <1>1, <1>3 DEF Frames!Step, Frames!Opened
    <2>2. /\ H \in Nat \ {0} /\ N \in Nat \ {0} /\ B \in Nat \ {0} /\ H <= N /\ N <= B
      BY <1>1, <1>3, SizesOf
    <2>3. S \in Nat /\ S <= B BY <1>1, <1>3, StartIsNat
    <2>4. InStep(profile, run') BY <2>1, <2>2, Multiples DEF InStep
    <2>5. Frames!Loop(profile) \in {"direct", "scheduled", "ahead", "packet", "timer", "split"}
      BY <1>1, LoopOf
    <2>6. SUFFICES ASSUME Frames!Headroom(profile)
                   PROVE  run'.pc \notin {"closed", "xrun"} /\ LoopLasts(profile, run')
      <3>1. Frames!Top # "closed" BY <2>5 DEF Frames!Top
      <3> QED BY <1>1, <2>1, <2>4, <2>6, <3>1 DEF Lasts
    <2> HIDE DEF H, N, B, S
    <2>7. CASE Frames!Loop(profile) = "split"
      <3>1. Frames!Top = "target" BY <2>7 DEF Frames!Top
      <3>2. S = B BY <1>1, <1>3, <2>7, SplitSizes DEF S, B
      <3>3. B - run'.queued = 0 BY <2>1, <2>2, <3>2
      <3>4. SplitLasts(profile, run') BY <2>1, <2>2, <3>1, <3>3, Multiples DEF SplitLasts, H, B
      <3> QED BY <2>1, <2>7, <3>1, <3>4 DEF LoopLasts
    <2>8. CASE Frames!Loop(profile) = "timer"
      <3>1. Frames!Top = "target" BY <2>8 DEF Frames!Top
      <3>2. TimerLasts(profile, run') BY <2>1, <3>1 DEF TimerLasts
      <3> QED BY <2>1, <2>8, <3>1, <3>2 DEF LoopLasts
    <2>9. CASE Frames!Loop(profile) = "direct"
      <3>1. Frames!Top = "ready" BY <2>9 DEF Frames!Top
      <3>2. S + 0 = S - N + N /\ 0 + 0 + 0 <= N BY <2>2, <2>3
      <3>3. DirectLasts(profile, run') BY <2>1, <3>1, <3>2 DEF DirectLasts, S, N
      <3> QED BY <2>1, <2>9, <3>1, <3>3 DEF LoopLasts
    <2>10. CASE Frames!Loop(profile) = "scheduled"
      <3>1. Frames!Top = "capture" BY <2>10 DEF Frames!Top
      <3>2. S + 0 + 0 = S - N + N /\ 0 < N BY <2>2, <2>3
      <3>3. ScheduledLasts(profile, run') BY <2>1, <3>1, <3>2 DEF ScheduledLasts, S, N
      <3> QED BY <2>1, <2>10, <3>1, <3>3 DEF LoopLasts
    <2>11. CASE Frames!Loop(profile) = "ahead"
      <3>1. Frames!Top = "client" BY <2>11 DEF Frames!Top
      <3>2. S = 2 * N BY <1>1, <1>3, <2>11, AheadSizes DEF S, N
      <3>3. S + 0 = 2 * N /\ 0 + 0 + 0 <= N BY <2>2, <2>3, <3>2
      <3>4. AheadLasts(profile, run') BY <2>1, <3>1, <3>3 DEF AheadLasts, N
      <3> QED BY <2>1, <2>11, <3>1, <3>4 DEF LoopLasts
    <2>12. CASE Frames!Loop(profile) = "packet"
      <3>1. Frames!Top = "target" BY <2>12 DEF Frames!Top
      <3>2. S = N + H /\ H < N BY <1>1, <1>3, <2>12, PacketSizes DEF S, N, H
      <3>3. S + 0 = N + H /\ 0 * H + H <= N BY <2>2, <2>3, <3>2
      <3>4. PacketLasts(profile, run') BY <2>1, <3>1, <3>3 DEF PacketLasts, N, H
      <3> QED BY <2>1, <2>12, <3>1, <3>4 DEF LoopLasts
    <2> QED BY <2>5, <2>7, <2>8, <2>9, <2>10, <2>11, <2>12
  <1> QED BY <1>2, <1>3 DEF Frames!Open

LEMMA NextLasts ==
    ASSUME Frames!ProfilesAreSettings, FramesInv, Lasts, [Frames!Next]_(Frames!vars) PROVE Lasts'
  <1>1. CASE Frames!Open BY <1>1, OpenLasts
  <1>2. CASE UNCHANGED Frames!vars BY <1>2 DEF Frames!vars, Lasts
  <1>3. CASE Frames!Next /\ ~Frames!Open
    <2>1. /\ run.pc \notin {"closed", "refused"} /\ profile' = profile
          /\ run.pc # "closed" => run'.pc # "closed"
      <3>0. run \in RunRecords BY DEF FramesInv
      <3>1. CASE Frames!Ready BY <3>0, <3>1, ReadyIs
      <3>2. CASE Frames!Capture
        <4>1. run.pc = "capture" BY <3>2 DEF Frames!Capture
        <4>2. Started BY <4>1 DEF Started
        <4>3. Frames!Piece(profile) \in Nat /\ run.got <= Frames!Piece(profile)
          <5>1. Frames!Piece(profile) \in Nat BY <4>2, StartedIs, PieceOf
          <5> QED BY <5>1 DEF FramesInv, Fits
        <4>4. profile' = profile /\ run'.pc \in {"capture", "client", "target"}
          BY <3>0, <3>2, <4>3, CaptureIs
        <4> QED BY <4>1, <4>4
      <3>3. CASE Frames!Answer BY <3>0, <3>3, AnswerIs
      <3>4. CASE Frames!Target BY <3>0, <3>4, TargetIs
      <3>5. CASE Frames!Write
        <4>1. profile' = profile /\ run.pc = "write" /\ run'.pc \in {"room", "write", AfterWrite}
          BY <3>0, <3>5, WriteIs
        <4>2. AfterWrite # "closed" BY DEF AfterWrite, Frames!Top
        <4> QED BY <4>1, <4>2
      <3>6. CASE Frames!Room BY <3>0, <3>6, RoomIs
      <3>7. CASE Frames!Tick
        <4>1. run.pc \in {"ready", "capture", "client", "target", "room"}
          BY <3>7 DEF Frames!Tick, Frames!Idle
        <4>2. Started BY <4>1 DEF Started
        <4>3. Frames!HardwarePeriod(profile) \in Nat BY <4>2, StartedIs, SizesOf
        <4>4. profile' = profile /\ run'.pc \in {run.pc, "xrun"} BY <3>0, <3>7, <4>3, TickIs
        <4> QED BY <4>1, <4>4
      <3> QED BY <1>3, <3>1, <3>2, <3>3, <3>4, <3>5, <3>6, <3>7 DEF Frames!Next
    <2>2. Started BY <2>1 DEF Started
    <2>3. SUFFICES ASSUME Frames!Headroom(profile)
                   PROVE  run'.pc # "xrun" /\ InStep(profile', run') /\ LoopLasts(profile', run')
      BY <2>1, <2>3 DEF Lasts
    <2>4. InStep(profile, run) /\ LoopLasts(profile, run) BY <2>1, <2>3 DEF Lasts
    <2>5. Frames!Loop(profile) \in {"direct", "scheduled", "ahead", "packet", "timer", "split"}
      BY <2>2, StartedIs, LoopOf
    <2>6. run'.pc # "xrun" /\ LoopLasts(profile', run')
      <3>1. CASE Frames!Loop(profile) = "split"
        <4>1. run'.pc # "xrun" /\ SplitLasts(profile', run')
          BY <1>3, <2>2, <2>3, <2>4, <3>1, SplitRunStep DEF LoopLasts
        <4> QED BY <2>1, <3>1, <4>1 DEF LoopLasts
      <3>2. CASE Frames!Loop(profile) = "timer"
        <4>1. run'.pc # "xrun" /\ TimerLasts(profile', run')
          BY <1>3, <2>2, <2>3, <2>4, <3>2, TimerStep DEF LoopLasts
        <4> QED BY <2>1, <3>2, <4>1 DEF LoopLasts
      <3>3. CASE Frames!Loop(profile) = "direct"
        <4>1. run'.pc # "xrun" /\ DirectLasts(profile', run')
          BY <1>3, <2>2, <2>3, <2>4, <3>3, DirectStep DEF LoopLasts
        <4> QED BY <2>1, <3>3, <4>1 DEF LoopLasts
      <3>4. CASE Frames!Loop(profile) = "scheduled"
        <4>1. run'.pc # "xrun" /\ ScheduledLasts(profile', run')
          BY <1>3, <2>2, <2>3, <2>4, <3>4, ScheduledStep DEF LoopLasts
        <4> QED BY <2>1, <3>4, <4>1 DEF LoopLasts
      <3>5. CASE Frames!Loop(profile) = "ahead"
        <4>1. run'.pc # "xrun" /\ AheadLasts(profile', run')
          BY <1>3, <2>2, <2>3, <2>4, <3>5, AheadStep DEF LoopLasts
        <4> QED BY <2>1, <3>5, <4>1 DEF LoopLasts
      <3>6. CASE Frames!Loop(profile) = "packet"
        <4>1. run'.pc # "xrun" /\ PacketLasts(profile', run')
          BY <1>3, <2>2, <2>3, <2>4, <3>6, PacketStep DEF LoopLasts
        <4> QED BY <2>1, <3>6, <4>1 DEF LoopLasts
      <3> QED BY <2>5, <3>1, <3>2, <3>3, <3>4, <3>5, <3>6
    <2>7. InStep(profile', run') BY <1>3, <2>2, <2>4, <2>6, StaysInStep
    <2> QED BY <2>6, <2>7
  <1> QED BY <1>1, <1>2, <1>3

-----------------------------------------------------------------------------
(* What the clients are given                                              *)

LEMMA DivisionIs ==
    ASSUME NEW y \in Nat \ {0}, NEW m \in Int, NEW r \in 0..(y - 1)
    PROVE  (m * y + r) \div y = m /\ (m * y + r) % y = r
  <1> DEFINE x == m * y + r
             d == x \div y
             q == x % y
  <1>1. x \in Int /\ d \in Int /\ q \in 0..(y - 1) /\ x = d * y + q
    <2>1. x \in Int OBVIOUS
    <2> HIDE DEF x
    <2> QED BY <2>1
  <1>2. d * y + q = m * y + r BY <1>1
  <1> HIDE DEF x, d, q
  <1>3. ~(d < m)
    <2>1. SUFFICES ASSUME d < m PROVE FALSE OBVIOUS
    <2>2. (m - d - 1) * y >= 0 BY <1>1, <2>1
    <2>3. m * y - d * y - y >= 0 BY <1>1, <2>2
    <2> QED BY <1>1, <1>2, <2>3
  <1>4. ~(m < d)
    <2>1. SUFFICES ASSUME m < d PROVE FALSE OBVIOUS
    <2>2. (d - m - 1) * y >= 0 BY <1>1, <2>1
    <2>3. d * y - m * y - y >= 0 BY <1>1, <2>2
    <2> QED BY <1>1, <1>2, <2>3
  <1>5. d = m BY <1>1, <1>3, <1>4
  <1>6. q = r BY <1>1, <1>2, <1>5
  <1> QED BY <1>5, <1>6 DEF x, d, q

LEMMA DividesIs ==
    ASSUME NEW y \in Nat \ {0}
    PROVE  \A m \in Int : /\ (m * y) % y = 0 /\ (y * m) % y = 0 /\ (y * m) \div y = m
                          /\ Frames!Divided(m * y, y) = m
  <1> SUFFICES ASSUME NEW m \in Int
               PROVE  /\ (m * y) % y = 0 /\ (y * m) % y = 0 /\ (y * m) \div y = m
                      /\ Frames!Divided(m * y, y) = m
    OBVIOUS
  <1>1. 0 \in 0..(y - 1) /\ y - 1 \in 0..(y - 1) OBVIOUS
  <1>2. (m * y + 0) \div y = m /\ (m * y + 0) % y = 0 BY <1>1, DivisionIs
  <1>3. (m * y + (y - 1)) \div y = m BY <1>1, DivisionIs
  <1>4. m * y + 0 = m * y /\ y * m = m * y /\ m * y + y - 1 = m * y + (y - 1) OBVIOUS
  <1> QED BY <1>2, <1>3, <1>4 DEF Frames!Divided

LEMMA CeilingIs ==
    ASSUME NEW y \in Nat \ {0}, NEW x \in Nat
    PROVE  Frames!Divided(x, y) \in Nat /\ y * Frames!Divided(x, y) >= x
  <1> DEFINE a == x + y - 1
             d == a \div y
             r == a % y
  <1>1. a \in Nat OBVIOUS
  <1> HIDE DEF a
  <1>2. d \in Int /\ r \in 0..(y - 1) /\ a = d * y + r BY <1>1
  <1>3. y * d = d * y BY <1>2
  <1>4. a = x + y - 1 BY DEF a
  <1> HIDE DEF d, r
  <1>5. y * d >= x BY <1>2, <1>3, <1>4
  <1>6. Frames!Divided(x, y) = d BY DEF Frames!Divided, a, d
  <1>7. d \in Nat BY <1>6, DividedIsNat
  <1> QED BY <1>5, <1>6, <1>7

(* The SHARED buffer is a whole number of periods, from two to eight.      *)
LEMMA SharedPeriods ==
    ASSUME None \notin Int, NEW p \in Frames!Settings, Frames!Valid(p)
    PROVE  \E m \in 2..8 : Frames!SharedBuffer(p) = m * p.period
  <1>1. p.period \in Nat \ {0} /\ p.buffer \in Nat \ {0} BY SizesOf
  <1>2. CASE p.shared = None
    <2> DEFINE m == Frames!Least(Frames!Most(Frames!Divided(p.buffer, p.period), 2), 8)
    <2>1. Frames!Divided(p.buffer, p.period) \in Nat BY <1>1, DividedIsNat
    <2>2. m \in 2..8 BY <2>1 DEF Frames!Least, Frames!Most
    <2>3. Frames!SharedBuffer(p) = p.period * m
      BY <1>2 DEF Frames!SharedBuffer, Frames!Or, Frames!MaxSharedBuffer
    <2> HIDE DEF m
    <2>4. p.period * m = m * p.period BY <1>1, <2>2
    <2> QED BY <2>2, <2>3, <2>4
  <1>3. CASE p.shared # None
    <2>1. p.shared \in 2 * p.period..8 * p.period /\ p.shared % p.period = 0
      BY <1>3 DEF Frames!Valid, Frames!ValidSizes, Frames!MaxSharedBuffer
    <2>2. p.shared \in Int /\ Multiple(p.shared, p.period) BY <1>1, <2>1, Multiples
    <2>3. PICK k \in Int : p.shared = k * p.period BY <2>2 DEF Multiple
    <2>4. k >= 2
      <3>1. SUFFICES ASSUME k <= 1 PROVE FALSE BY <2>3
      <3>2. (1 - k) * p.period >= 0 BY <1>1, <2>3, <3>1
      <3>3. p.period - k * p.period >= 0 BY <1>1, <2>3, <3>2
      <3> QED BY <1>1, <2>1, <2>3, <3>3
    <2>5. k <= 8
      <3>1. SUFFICES ASSUME k >= 9 PROVE FALSE BY <2>3
      <3>2. (k - 9) * p.period >= 0 BY <1>1, <2>3, <3>1
      <3>3. k * p.period - 9 * p.period >= 0 BY <1>1, <2>3, <3>2
      <3> QED BY <1>1, <2>1, <2>3, <3>3
    <2>6. Frames!SharedBuffer(p) = p.shared BY <1>3 DEF Frames!SharedBuffer, Frames!Or
    <2> QED BY <2>3, <2>4, <2>5, <2>6
  <1> QED BY <1>2, <1>3

(* The period the plugin offers is a whole number of periods that divides  *)
(* the SHARED buffer and fits into it twice.                               *)
LEMMA PluginPeriods ==
    ASSUME None \notin Int, NEW p \in Frames!Settings, Frames!Valid(p)
    PROVE  \E m \in 2..8, k \in 1..4, t \in 2..8 :
             /\ Frames!SharedBuffer(p) = m * p.period /\ m = t * k
             /\ Frames!WholePeriods(p.period, Frames!SharedBuffer(p)) = p.period * m
             /\ Frames!PluginPeriod(p) = p.period * k
  <1>1. p.period \in Nat \ {0} BY SizesOf
  <1>2. PICK m \in 2..8 : Frames!SharedBuffer(p) = m * p.period BY SharedPeriods
  <1>3. Frames!Divided(m * p.period, p.period) = m /\ (p.period * m) \div p.period = m
    <2>1. m \in Int BY <1>2
    <2> QED BY <1>1, <2>1, DividesIs
  <1>4. Frames!WholePeriods(p.period, Frames!SharedBuffer(p)) = p.period * m
    BY <1>2, <1>3 DEF Frames!WholePeriods, Frames!Most
  <1> DEFINE parts == {k \in 1..Frames!Most(m \div 2, 1) : m % k = 0}
             largest == CHOOSE k \in parts : \A j \in parts : j <= k
  <1>5. Frames!PluginPeriod(p) = p.period * largest
    BY <1>3, <1>4 DEF Frames!PluginPeriod
  <1>6. \E k \in parts : \A j \in parts : j <= k
    <2>1. m \in {2, 3, 4, 5, 6, 7, 8} BY <1>2
    <2>2. CASE m \in {2, 3}
      <3>1. Frames!Most(m \div 2, 1) = 1 BY <2>2 DEF Frames!Most
      <3>2. m % 1 = 0 BY <2>2
      <3>3. parts = {1} BY <3>1, <3>2
      <3> QED BY <3>3
    <2>3. CASE m \in {4, 5}
      <3>1. Frames!Most(m \div 2, 1) = 2 BY <2>3 DEF Frames!Most
      <3>2. 1..2 = {1, 2} /\ m % 1 = 0 BY <2>3
      <3>3. parts = {1} \/ parts = {1, 2} BY <3>1, <3>2
      <3> QED BY <3>3
    <2>4. CASE m \in {6, 7}
      <3>1. Frames!Most(m \div 2, 1) = 3 BY <2>4 DEF Frames!Most
      <3>2. 1..3 = {1, 2, 3} /\ m % 1 = 0 /\ (m % 3 # 0 => m % 2 # 0) BY <2>4
      <3>3. parts \subseteq {1, 2, 3} /\ 1 \in parts /\ (3 \notin parts => 2 \notin parts)
        BY <3>1, <3>2
      <3> HIDE DEF parts
      <3>4. CASE 3 \in parts BY <3>3, <3>4
      <3>5. CASE 3 \notin parts BY <3>3, <3>5
      <3> QED BY <3>4, <3>5
    <2>5. CASE m = 8
      <3>1. Frames!Most(m \div 2, 1) = 4 BY <2>5 DEF Frames!Most
      <3>2. 1..4 = {1, 2, 3, 4} /\ m % 4 = 0 BY <2>5
      <3>3. parts \subseteq {1, 2, 3, 4} /\ 4 \in parts BY <3>1, <3>2
      <3> HIDE DEF parts
      <3> QED BY <3>3
    <2> QED BY <2>1, <2>2, <2>3, <2>4, <2>5
  <1>7. largest \in parts
    <2> HIDE DEF parts
    <2> QED BY <1>6
  <1> HIDE DEF largest
  <1>8. largest \in 1..Frames!Most(m \div 2, 1) /\ m % largest = 0 BY <1>7
  <1>9. largest \in 1..4 /\ 2 * largest <= m BY <1>2, <1>8 DEF Frames!Most
  <1>10. \E t \in 2..8 : m = t * largest
    <2>1. largest \in {1, 2, 3, 4} BY <1>9
    <2>2. CASE largest = 1 BY <1>2, <2>2
    <2>3. CASE largest = 2
      <3>1. m \in {4, 6, 8} BY <1>2, <1>8, <1>9, <2>3
      <3> QED BY <2>3, <3>1
    <2>4. CASE largest = 3
      <3>1. m = 6 BY <1>2, <1>8, <1>9, <2>4
      <3> QED BY <2>4, <3>1
    <2>5. CASE largest = 4
      <3>1. m = 8 BY <1>2, <1>8, <1>9, <2>5
      <3> QED BY <2>5, <3>1
    <2> QED BY <2>1, <2>2, <2>3, <2>4, <2>5
  <1> QED BY <1>2, <1>4, <1>5, <1>9, <1>10

PortFits(p, direction) ==
    LET period == Frames!PluginPeriod(p)
        least == Frames!PluginMinimum(p, direction)
        most == Frames!PluginBuffer(p, direction) IN
    /\ least <= most /\ least >= 2 * period
    /\ period % p.period = 0 /\ least % period = 0 /\ most % period = 0
    /\ least >= Frames!Least((p.sharedLatency + 1) * p.period, most)

LEMMA CapturePortFits ==
    ASSUME None \notin Int, NEW p \in Frames!Settings, Frames!Valid(p) PROVE PortFits(p, "capture")
  <1> DEFINE N == p.period
             period == Frames!PluginPeriod(p)
             most == Frames!PluginBuffer(p, "capture")
  <1>1. N \in Nat \ {0} /\ p.sharedLatency \in Nat BY SizesOf DEF Frames!Settings
  <1>2. PICK m \in 2..8, k \in 1..4, t \in 2..8 :
          Frames!SharedBuffer(p) = m * N /\ m = t * k /\ period = N * k
    BY PluginPeriods
  <1>3. Frames!SharedBuffer(p) \div N = m
    <2>1. m * N = N * m BY <1>1, <1>2
    <2>2. m \in Int BY <1>2
    <2>3. (N * m) \div N = m BY <1>1, <2>2, DividesIs
    <2> QED BY <1>2, <2>1, <2>3
  <1>4. Frames!CaptureSlots(p) = 2 * m
    BY <1>2, <1>3 DEF Frames!CaptureSlots, Frames!Least, Frames!Most
  <1>5. most = N * (2 * m) /\ Frames!PluginMinimum(p, "capture") = most
    BY <1>4 DEF Frames!PluginBuffer, Frames!PluginMinimum
  <1>6. period \in Nat \ {0} /\ k \in Nat \ {0} BY <1>1, <1>2
  <1>7. most = (2 * t) * period /\ 2 * t \in Int /\ t \in 2..8 BY <1>1, <1>2, <1>5
  <1>8. (N * k) % N = 0
    <2>1. k \in Int BY <1>6
    <2> QED BY <1>1, <2>1, DividesIs
  <1> HIDE DEF N, period, most
  <1>9. most % period = 0
    <2>1. ((2 * t) * period) % period = 0 BY <1>6, <1>7, DividesIs
    <2> QED BY <1>7, <2>1
  <1>10. most >= 2 * period /\ most \in Int
    <2>1. (2 * t - 2) * period >= 0 BY <1>6, <1>7
    <2>2. (2 * t) * period - 2 * period >= 0 BY <1>6, <1>7, <2>1
    <2> QED BY <1>6, <1>7, <2>2
  <1>11. \A x \in Int : Frames!Least(x, most) <= most BY <1>10 DEF Frames!Least
  <1>12. (p.sharedLatency + 1) * N \in Int BY <1>1
  <1>13. /\ most <= most /\ most >= Frames!Least((p.sharedLatency + 1) * N, most)
    BY <1>10, <1>11, <1>12
  <1> QED BY <1>2, <1>5, <1>8, <1>9, <1>10, <1>13 DEF PortFits, N, period, most

LEMMA PlaybackPortFits ==
    ASSUME None \notin Int, NEW p \in Frames!Settings, Frames!Valid(p) PROVE PortFits(p, "playback")
  <1> DEFINE N == p.period
             period == Frames!PluginPeriod(p)
             most == Frames!PluginBuffer(p, "playback")
             asked == Frames!Most(N * Frames!Most(p.sharedLatency + 1, 2), 3 * period)
             u == Frames!Most(Frames!Divided(asked, period), 2)
  <1>1. N \in Nat \ {0} /\ p.sharedLatency \in Nat BY SizesOf DEF Frames!Settings
  <1>2. PICK m \in 2..8, k \in 1..4, t \in 2..8 :
          /\ Frames!SharedBuffer(p) = m * N /\ m = t * k /\ period = N * k
          /\ Frames!WholePeriods(N, Frames!SharedBuffer(p)) = N * m
    BY PluginPeriods
  <1>3. period \in Nat \ {0} BY <1>1, <1>2
  <1>4. N * m = t * period BY <1>1, <1>2
  <1>5. (N * k) % N = 0
    <2>1. k \in Int BY <1>2
    <2> QED BY <1>1, <2>1, DividesIs
  <1>6. Frames!WholePeriods(period, N * m) = period * t
    <2>0. t \in Int BY <1>2
    <2>1. Frames!Divided(t * period, period) = t BY <1>3, <2>0, DividesIs
    <2> HIDE DEF N, period
    <2> QED BY <1>2, <1>4, <2>1 DEF Frames!WholePeriods, Frames!Most
  <1>7. most = Frames!Most(period * t, 3 * period)
    BY <1>2, <1>6 DEF Frames!PluginBuffer
  <1>8. Frames!PluginMinimum(p, "playback") = Frames!Least(period * u, most)
    BY DEF Frames!PluginMinimum, Frames!WholePeriods
  <1>9. N * Frames!Most(p.sharedLatency + 1, 2) \in Nat
    <2>1. Frames!Most(p.sharedLatency + 1, 2) \in Nat BY <1>1 DEF Frames!Most
    <2> QED BY <1>1, <2>1
  <1>10. N * Frames!Most(p.sharedLatency + 1, 2) >= (p.sharedLatency + 1) * N
         /\ (p.sharedLatency + 1) * N \in Nat
    <2>1. CASE Frames!Most(p.sharedLatency + 1, 2) = p.sharedLatency + 1 BY <1>1, <2>1
    <2>2. CASE Frames!Most(p.sharedLatency + 1, 2) = 2 /\ p.sharedLatency = 0 BY <1>1, <2>2
    <2> QED BY <1>1, <2>1, <2>2 DEF Frames!Most
  <1> HIDE DEF N, period, most
  <1>11. /\ asked \in Nat /\ asked >= 3 * period
         /\ asked >= N * Frames!Most(p.sharedLatency + 1, 2)
    BY <1>3, <1>9 DEF Frames!Most
  <1> HIDE DEF asked
  <1>12. Frames!Divided(asked, period) \in Nat /\ period * Frames!Divided(asked, period) >= asked
    BY <1>3, <1>11, CeilingIs
  <1>13. u \in Nat /\ u >= 2 /\ u >= Frames!Divided(asked, period) BY <1>12 DEF Frames!Most
  <1> HIDE DEF u
  <1>14. period * u >= asked
    <2> DEFINE d == Frames!Divided(asked, period)
    <2>1. d \in Nat /\ period * d >= asked /\ u >= d BY <1>12, <1>13
    <2> HIDE DEF d
    <2>2. (u - d) * period >= 0 BY <1>3, <1>13, <2>1
    <2>3. period * u - period * d >= 0 BY <1>3, <1>13, <2>1, <2>2
    <2>4. period * u \in Int /\ period * d \in Int BY <1>3, <1>13, <2>1
    <2> QED BY <1>11, <2>1, <2>3, <2>4
  <1>15. period * u \in Int /\ period * t \in Int BY <1>2, <1>3, <1>13
  <1>16. /\ most \in Int /\ most >= 3 * period /\ most \in {period * t, 3 * period}
    BY <1>3, <1>7, <1>15 DEF Frames!Most
  <1>17. /\ (period * u) % period = 0 /\ (period * t) % period = 0 /\ (3 * period) % period = 0
    <2>1. u \in Int /\ t \in Int BY <1>2, <1>13
    <2>2. 3 \in Int OBVIOUS
    <2>3. (3 * period) % period = 0 BY <1>3, <2>2, DividesIs
    <2> QED BY <1>3, <2>1, <2>3, DividesIs
  <1> DEFINE least == Frames!PluginMinimum(p, "playback")
  <1>18. /\ least \in {period * u, most} /\ least <= most /\ least \in Int
    BY <1>8, <1>15, <1>16 DEF Frames!Least
  <1>19. least >= 2 * period /\ least % period = 0 /\ most % period = 0
    BY <1>3, <1>11, <1>14, <1>15, <1>16, <1>17, <1>18
  <1>20. least >= Frames!Least((p.sharedLatency + 1) * N, most)
    <2> DEFINE wanted == (p.sharedLatency + 1) * N
    <2>1. wanted \in Int /\ period * u >= wanted
      <3>1. N * Frames!Most(p.sharedLatency + 1, 2) >= wanted /\ wanted \in Int BY <1>10
      <3> HIDE DEF wanted
      <3> QED BY <1>9, <1>11, <1>14, <1>15, <3>1
    <2> HIDE DEF wanted, least
    <2>2. least >= Frames!Least(wanted, most)
      BY <1>15, <1>16, <1>18, <2>1 DEF Frames!Least
    <2> QED BY <2>2 DEF wanted
  <1> QED BY <1>2, <1>5, <1>18, <1>19, <1>20 DEF PortFits, N, period, most, least

LEMMA ClientsFitIn ==
    ASSUME Frames!ProfilesAreSettings, profile \in Profiles PROVE Frames!ClientsFit
  <1>1. profile \in Frames!Settings /\ None \notin Int BY DEF Frames!ProfilesAreSettings
  <1>2. SUFFICES ASSUME Frames!Valid(profile)
                 PROVE
          /\ Frames!StagedPackets(profile) <=> Frames!Loop(profile) = "packet"
          /\ Frames!ProPriority(profile) < Frames!Most(profile.priority - 1, 1)
          /\ profile.sharedLatency < Frames!Slots
          /\ Frames!SharedBuffer(profile) % profile.period = 0
          /\ \A direction \in {"playback", "capture"} : PortFits(profile, direction)
    BY <1>2 DEF Frames!ClientsFit, PortFits
  <1>3. Frames!StagedPackets(profile) <=> Frames!Loop(profile) = "packet"
    <2>1. CASE Frames!StagedPackets(profile)
      <3>1. Frames!Lead(profile) = 1 BY <2>1 DEF Frames!StagedPackets, Frames!Lead
      <3> QED BY <2>1, <3>1 DEF Frames!StagedPackets, Frames!Loop
    <2>2. CASE Frames!Loop(profile) = "packet"
      BY <1>1, <1>2, <2>2, LoopOf, PacketSizes DEF Frames!StagedPackets
    <2> QED BY <2>1, <2>2
  <1>4. Frames!ProPriority(profile) < Frames!Most(profile.priority - 1, 1)
    <2>1. /\ profile.priority \in Nat /\ profile.realtime \in BOOLEAN
          /\ profile.proPriority \in Nat \cup {None}
      BY <1>1 DEF Frames!Settings
    <2>2. profile.proPriority # None /\ profile.realtime =>
            profile.proPriority <= Frames!Most(profile.priority - 2, 0)
      BY <1>2 DEF Frames!Valid, Frames!ValidTuning
    <2>3. CASE ~profile.realtime \/ profile.priority <= 2
      BY <2>1, <2>3 DEF Frames!ProPriority, Frames!Most
    <2>4. CASE profile.realtime /\ ~(profile.priority <= 2)
      <3>1. Frames!Most(profile.priority - 2, 0) = profile.priority - 2
            /\ Frames!Most(profile.priority - 1, 1) = profile.priority - 1
        BY <2>1, <2>4 DEF Frames!Most
      <3>2. Frames!ProPriority(profile) = IF profile.proPriority = None THEN profile.priority - 2
                                          ELSE profile.proPriority
        BY <2>4 DEF Frames!ProPriority, Frames!Or
      <3> QED BY <2>1, <2>2, <2>4, <3>1, <3>2
    <2> QED BY <2>3, <2>4
  <1>5. profile.sharedLatency < Frames!Slots
    <2>1. profile.sharedLatency \in Nat BY <1>1 DEF Frames!Settings
    <2> QED BY <1>2, <2>1 DEF Frames!Valid, Frames!ValidTuning, Frames!MaxSharedLatency, Frames!Slots
  <1>6. Frames!SharedBuffer(profile) % profile.period = 0
    <2>1. PICK m \in 2..8 : Frames!SharedBuffer(profile) = m * profile.period
      BY <1>1, <1>2, SharedPeriods
    <2>2. profile.period \in Nat \ {0} BY <1>1, <1>2, SizesOf
    <2>3. m \in Int BY <2>1
    <2>4. (m * profile.period) % profile.period = 0 BY <2>2, <2>3, DividesIs
    <2> QED BY <2>1, <2>4
  <1>7. \A direction \in {"playback", "capture"} : PortFits(profile, direction)
    BY <1>1, <1>2, CapturePortFits, PlaybackPortFits
  <1> QED BY <1>3, <1>4, <1>5, <1>6, <1>7

-----------------------------------------------------------------------------
(* The theorems                                                            *)

FramesHold == FramesInv /\ Lasts

LEMMA FramesInit == ASSUME Frames!ProfilesAreSettings, Frames!Init PROVE FramesHold
  BY InitFits DEF FramesHold, Lasts, Frames!Init, Frames!Opened

LEMMA FramesStep ==
    ASSUME Frames!ProfilesAreSettings, FramesHold, [Frames!Next]_(Frames!vars) PROVE FramesHold'
  BY NextFits, NextLasts DEF FramesHold

LEMMA FramesHoldAlways == ASSUME Frames!ProfilesAreSettings PROVE Frames!Spec => []FramesHold
  <1>1. Frames!Init => FramesHold BY FramesInit
  <1>2. FramesHold /\ [Frames!Next]_(Frames!vars) => FramesHold' BY FramesStep
  <1> QED BY <1>1, <1>2, PTL DEF Frames!Spec

LEMMA FrameTypesIn == ASSUME Frames!ProfilesAreSettings, FramesHold PROVE Frames!TypeOK
  BY DEF FramesHold, FramesInv, RunRecords, RunPlaces, Frames!ProfilesAreSettings, Frames!TypeOK

LEMMA FrameWritesIn == FramesHold => Frames!WritesFit
  BY DEF FramesHold, FramesInv, Fits, Frames!WritesFit, Exempt

LEMMA FrameQueueIn == FramesHold => Frames!NeverStarves
  BY DEF FramesHold, Lasts, Frames!NeverStarves

(* A run has its type whatever profiles there are: none of its counts      *)
(* becomes negative, although hardware periods and handoffs are taken off  *)
(* them.                                                                   *)
THEOREM FrameTypes == ASSUME Frames!ProfilesAreSettings PROVE Frames!Spec => []Frames!TypeOK
  <1>1. FramesHold => Frames!TypeOK BY FrameTypesIn
  <1> QED BY <1>1, FramesHoldAlways, PTL

(* The engine never sleeps within a write to the card, with any profile    *)
(* that validates, except with timer scheduling and a buffer below two     *)
(* periods.                                                                *)
THEOREM FrameWritesFit == ASSUME Frames!ProfilesAreSettings PROVE Frames!Spec => []Frames!WritesFit
  BY FrameWritesIn, FramesHoldAlways, PTL

(* With any profile that leaves some headroom, an engine that is not late  *)
(* stops neither stream, in any of its six loops, whatever time its client *)
(* takes of what it is given.                                              *)
THEOREM FramesLast == ASSUME Frames!ProfilesAreSettings PROVE Frames!Spec => []Frames!NeverStarves
  BY FrameQueueIn, FramesHoldAlways, PTL

(* With any profile that validates, client and engine choose the same      *)
(* loop, the client runs below both workers, the SHARED target fits into   *)
(* the ring, and what the plugin offers to ALSA can be taken.              *)
THEOREM FrameClientsFit == ASSUME Frames!ProfilesAreSettings PROVE Frames!Spec => []Frames!ClientsFit
  <1>1. FramesHold => Frames!ClientsFit BY ClientsFitIn DEF FramesHold, FramesInv
  <1> QED BY <1>1, FramesHoldAlways, PTL

(* All of it, for the part of MCStreams that runs the engine's queue.      *)
THEOREM ProfilesRun == Spec => []ValidProfilesRun
  <1> DEFINE Inv == part = "frames" => FramesHold
  <1>1. Frames!ProfilesAreSettings BY StreamsAssumption
  <1>2. Init => Inv BY <1>1, FramesInit DEF Init
  <1>3. Inv /\ [Next]_vars => Inv'
    <2> SUFFICES ASSUME Inv, [Next]_vars, part' = "frames" PROVE FramesHold'
      OBVIOUS
    <2>1. part = "frames"
      BY DEF Next, vars, PlaybackNext, PlaybackRuns, CaptureNext, CaptureRuns, RecordsNext,
             RecordsRun, ControlNext, ControlRuns, FramesNext, FramesRun
    <2>2. [Frames!Next]_(Frames!vars)
      BY DEF Next, vars, PlaybackNext, PlaybackRuns, CaptureNext, CaptureRuns, RecordsNext,
             RecordsRun, ControlNext, ControlRuns, FramesNext, FramesRun, frameVars, Frames!vars
    <2> QED BY <1>1, <2>1, <2>2, FramesStep
  <1>4. Inv => ValidProfilesRun
    BY <1>1, FrameTypesIn, FrameWritesIn, FrameQueueIn, ClientsFitIn
       DEF ValidProfilesRun, FramesHold, FramesInv
  <1> QED BY <1>2, <1>3, <1>4, PTL DEF Spec
=============================================================================
