----------------------------- MODULE MCSlotRing -----------------------------
(* SlotRing with three slots and sequences that wrap soon after the run    *)
(* starts, at twice Half.                                                  *)
EXTENDS SlotRing, TLC

(* Four captured blocks overtake a scan and find the ring full. *)
BlocksOfEach == ("playback" :> 2) @@ ("capture" :> 4)
BlocksOfCapture == "capture" :> 2
=============================================================================
