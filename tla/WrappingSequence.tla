-------------------------- MODULE WrappingSequence --------------------------
(***************************************************************************)
(* Sequence numbers that wrap: u64 counters compared by forward distance,  *)
(* sequence_order of crates/sidealsa-protocol/src/lib.rs (and its copy     *)
(* sequence_before in crates/sidealsa-core/src/engine.rs).                 *)
(***************************************************************************)
EXTENDS Integers

CONSTANT Half        \* half the range of a counter: 2^63 in the code

ASSUME HalfAssumption == Half \in Nat /\ Half > 1

Range2 == 2 * Half
Sequence == 0..(Range2 - 1)

(* to.wrapping_sub(from), for counters                                     *)
Distance(from, to) == IF to >= from THEN to - from ELSE to - from + Range2

(* wrapping_add                                                            *)
Advance(a, n) == IF a + n >= Range2 THEN a + n - Range2 ELSE a + n

(* wrapping_sub, of a distance                                             *)
Retreat(a, n) == IF a >= n THEN a - n ELSE a - n + Range2

(* sequence_is_after, sequence_is_before: exactly half the range apart is  *)
(* neither.                                                                *)
IsAfter(a, b) == 0 < Distance(b, a) /\ Distance(b, a) < Half
IsBefore(a, b) == Distance(b, a) > Half
=============================================================================
