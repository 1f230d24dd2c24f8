----------------------------- MODULE AlsaCapture -----------------------------
(*****************************************************************************)
(* A capture PCM of the ALSA plugin (crates/sidealsa-alsa): blocks are taken  *)
(* from the session's ring into a scratch block and copied out in any amounts *)
(* the application asks for, while the pointer counts what was produced.      *)
(* libasound and the daemon that fills the ring are external.                 *)
(*                                                                           *)
(* A frame is the number of the captured frame since the run began.           *)
(*****************************************************************************)
EXTENDS Naturals, Sequences, SequencesExt

CONSTANTS
    P,            \* period_frames
    Buffer,       \* the PCM's buffer_size, the capacity of the ring
    MaxPeriods    \* bound: the daemon captures this many periods in a run

CaptureGeometry == {P, Buffer} \subseteq Nat \ {0} /\ Buffer % P = 0

VARIABLES
    pcm,        \* libasound: [state, appl, hw, nonblock]
    expected,   \* capture_expected_appl_ptr
    s,          \* SideAlsaStream: [running, scratch, error]
    retired,    \* capture_retired_frames
    ring,       \* first frames of the READY blocks, oldest first
    daemon,     \* [captured, lost]: periods captured; a loss the client has not seen
    call,       \* the callback in progress: [op, pc, left, copied]
    read        \* frames the last transfer gave to the application: [index, frames]

vars == <<pcm, expected, s, retired, ring, daemon, call, read>>

Idle == [op |-> "none", pc |-> "idle", left |-> 0, copied |-> << >>]
Fresh == [running |-> FALSE, scratch |-> << >>, error |-> "none"]
Nothing == [index |-> 0, frames |-> << >>]

Init ==
    /\ pcm = [state |-> "setup", appl |-> 0, hw |-> 0, nonblock |-> FALSE]
    /\ expected = 0 /\ s = Fresh /\ retired = 0 /\ ring = << >>
    /\ daemon = [captured |-> 0, lost |-> FALSE]
    /\ call = Idle /\ read = Nothing

Least(a, b) == IF a < b THEN a ELSE b
Frames(first) == [i \in 1 .. P |-> first + i - 1]
Quiet == call.pc = "idle"
Ready == Len(ring) * P
Position == retired + Len(s.scratch) + Ready

\* validate_capture: an error sticks until prepare.
Invalid == s.error # "none" \/ daemon.lost
Fault == IF s.error # "none" THEN s.error ELSE "EPIPE"

\* sidealsa_set_error_state: of the errors of capture, only EPIPE is an XRUN.
After(error) == IF error = "EPIPE" THEN "xrun" ELSE pcm.state

Retire(n) == s' = [s EXCEPT !.scratch = SubSeq(@, n + 1, Len(@))] /\ retired' = retired + n

\* mutant: an error found at the end of a read is not remembered
LeaveForgets(error) ==
    /\ call' = Idle
    /\ LET n == Len(call.copied) IN
       /\ read' = IF n = 0 THEN read ELSE [index |-> pcm.appl, frames |-> call.copied]
       /\ pcm' = [pcm EXCEPT !.appl = @ + n, !.state = IF n = 0 THEN After(error) ELSE @]
       /\ expected' = IF n = 0 THEN expected ELSE pcm.appl + n
    /\ daemon' = [daemon EXCEPT !.lost = FALSE]
    /\ UNCHANGED <<s, retired, ring>>

\* The callback returns; an error other than EAGAIN sticks, and is reported unless a
\* prefix was copied before it.
Leave(error) ==
    /\ s' = [s EXCEPT !.error = IF error \in {"none", "EAGAIN"} THEN @ ELSE error]
    /\ call' = Idle
    /\ LET n == Len(call.copied) IN
       /\ read' = IF n = 0 THEN read ELSE [index |-> pcm.appl, frames |-> call.copied]
       /\ pcm' = [pcm EXCEPT !.appl = @ + n, !.state = IF n = 0 THEN After(error) ELSE @]
       /\ expected' = IF n = 0 THEN expected ELSE pcm.appl + n
    /\ UNCHANGED <<retired, ring, daemon>>

-----------------------------------------------------------------------------
(* libasound moves appl_ptr without telling the plugin.                       *)

Forward(n) ==
    /\ Quiet /\ pcm.state = "running" /\ pcm.appl + n <= pcm.hw
    /\ pcm' = [pcm EXCEPT !.appl = @ + n]
    /\ UNCHANGED <<expected, s, retired, ring, daemon, call, read>>

Rewind(n) ==
    /\ Quiet /\ pcm.state = "running" /\ n <= pcm.appl /\ pcm.appl - n + Buffer >= pcm.hw
    /\ pcm' = [pcm EXCEPT !.appl = @ - n]
    /\ UNCHANGED <<expected, s, retired, ring, daemon, call, read>>

-----------------------------------------------------------------------------
(* Start, stop and prepare.                                                  *)

Prepare ==
    /\ Quiet
    /\ \E nonblock \in BOOLEAN :
         pcm' = [state |-> "prepared", appl |-> 0, hw |-> 0, nonblock |-> nonblock]
    /\ expected' = 0 /\ s' = Fresh /\ retired' = 0 /\ ring' = << >> /\ read' = Nothing
    /\ daemon' = [captured |-> 0, lost |-> FALSE]
    /\ UNCHANGED call

Start ==
    /\ Quiet /\ pcm.state = "prepared"
    /\ s' = [s EXCEPT !.running = TRUE]
    /\ pcm' = [pcm EXCEPT !.state = "running"]
    /\ UNCHANGED <<expected, retired, ring, daemon, call, read>>

Drop ==
    /\ Quiet /\ pcm.state = "running"
    /\ pcm' = [pcm EXCEPT !.state = "setup"]
    /\ s' = [Fresh EXCEPT !.error = s.error] /\ retired' = 0 /\ ring' = << >>
    /\ daemon' = [captured |-> 0, lost |-> FALSE] /\ read' = Nothing
    /\ UNCHANGED <<expected, call>>

-----------------------------------------------------------------------------
(* sidealsa_capture_sync: frames the application has skipped are retired.     *)

Skip == pcm.appl - expected

SyncFails ==
    \/ Invalid
    \/ pcm.appl < expected                    \* a rewind: the distance is near the boundary
    \/ Skip > Buffer \/ Skip > Len(s.scratch) + Ready

Begin(op, n) ==
    /\ Quiet /\ pcm.state = "running"
    /\ IF SyncFails
       THEN /\ s' = [s EXCEPT !.error = Fault]
            /\ pcm' = [pcm EXCEPT !.state = After(Fault)]
            /\ UNCHANGED call
       ELSE /\ call' = [Idle EXCEPT !.op = op, !.left = n, !.pc = "skip"]
            /\ UNCHANGED <<s, pcm>>
    /\ UNCHANGED <<expected, retired, ring, daemon, read>>

\* acquire_shared_capture: nothing ready after all is an error of the skip, and
\* EAGAIN for a read; a loss found after the block was taken sticks.
Acquire ==
    /\ call.pc \in {"skip", "copy"} /\ s.scratch = << >>
    /\ IF call.pc = "skip" THEN pcm.appl > expected ELSE call.left > 0
    /\ IF Invalid THEN Leave(Fault)
       ELSE IF ring # << >>
       THEN /\ s' = [s EXCEPT !.scratch = Frames(Head(ring))]
            /\ ring' = Tail(ring)
            /\ UNCHANGED <<pcm, expected, retired, daemon, call, read>>
       ELSE /\ call.pc = "skip" \/ pcm.nonblock
            /\ Leave(IF call.pc = "skip" THEN "EPIPE" ELSE "EAGAIN")

\* Ten blocking waits of a second ran out.
TimesOut ==
    /\ call.pc = "copy" /\ call.left > 0 /\ s.scratch = << >>
    /\ ring = << >> /\ ~pcm.nonblock
    /\ Leave("EIO")

SkipOver ==
    /\ call.pc = "skip"
    /\ IF pcm.appl = expected
       THEN /\ IF Invalid THEN Leave(Fault)
               ELSE /\ call' = [call EXCEPT !.pc = IF call.op = "read" THEN "copy" ELSE "report"]
                    /\ UNCHANGED <<s, pcm, expected, retired, ring, daemon, read>>
       ELSE /\ s.scratch # << >>
            /\ LET n == Least(Skip, Len(s.scratch)) IN Retire(n) /\ expected' = expected + n
            /\ UNCHANGED <<pcm, ring, daemon, call, read>>

-----------------------------------------------------------------------------
(* transfer and pointer.                                                     *)

Copy ==
    /\ call.pc = "copy" /\ call.left > 0 /\ s.scratch # << >>
    /\ IF Invalid THEN Leave(Fault)
       ELSE LET n == Least(call.left, Len(s.scratch)) IN
            /\ Retire(n)
            /\ call' = [call EXCEPT !.left = @ - n, !.copied = @ \o SubSeq(s.scratch, 1, n)]
            /\ UNCHANGED <<pcm, expected, ring, daemon, read>>

CopyEnds == call.pc = "copy" /\ call.left = 0 /\ Leave(IF Invalid THEN Fault ELSE "none")

\* A pointer that has run a whole buffer ahead of the application is an XRUN.
Report ==
    /\ call.pc = "report"
    /\ pcm' = IF Position > pcm.appl + Buffer THEN [pcm EXCEPT !.state = "xrun"]
              ELSE [pcm EXCEPT !.hw = Position]
    /\ call' = Idle
    /\ UNCHANGED <<expected, s, retired, ring, daemon, read>>

-----------------------------------------------------------------------------
(* The daemon: a full ring loses the period and counts a discontinuity; a    *)
(* restart of the hardware counts one too.                                   *)

Capture ==
    /\ s.running /\ daemon.captured < MaxPeriods
    /\ daemon' = [captured |-> daemon.captured + 1,
                  lost |-> daemon.lost \/ Ready = Buffer]
    /\ ring' = IF Ready = Buffer THEN ring ELSE Append(ring, daemon.captured * P)
    /\ UNCHANGED <<pcm, expected, s, retired, call, read>>

Restart ==
    /\ s.running /\ ~daemon.lost
    /\ daemon' = [captured |-> daemon.captured + 1, lost |-> TRUE]
    /\ ring' \in {ring, << >>}
    /\ UNCHANGED <<pcm, expected, s, retired, call, read>>

-----------------------------------------------------------------------------
Application ==
    \/ Prepare \/ Start \/ Drop \/ Begin("pointer", 0)
    \/ \E n \in 1 .. Buffer : Begin("read", n) \/ Forward(n) \/ Rewind(n)

Plugin == Acquire \/ TimesOut \/ SkipOver \/ Copy \/ CopyEnds \/ Report

Next == Application \/ Plugin \/ Capture \/ Restart

Spec == Init /\ [][Next]_vars

-----------------------------------------------------------------------------
TypeOK ==
    /\ pcm.state \in {"setup", "prepared", "running", "xrun"}
    /\ s.error \in {"none", "EPIPE", "EIO"}
    /\ Len(s.scratch) <= P /\ Ready <= Buffer
    /\ call.pc \in {"idle", "skip", "copy", "report"}

\* The application finds the k-th captured frame at ALSA index k: partial reads,
\* skips and lost periods never shift what it reads, and after a loss it reads
\* nothing more until it prepares the stream (lib.rs, transfer_shared_capture).
CaptureIsExact ==
    \A i \in 1 .. Len(read.frames) : read.frames[i] = read.index + i - 1

\* The pointer promises no frame that was not captured, and none of a transfer is
\* forgotten: what is retired is what libasound believes was read.
PointerIsProduced ==
    pcm.state = "running" =>
        /\ pcm.hw <= daemon.captured * P
        /\ Quiet /\ s.error = "none" => retired = expected

=============================================================================
