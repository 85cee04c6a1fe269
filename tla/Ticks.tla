-------------------------------- MODULE Ticks --------------------------------
(***************************************************************************)
(* The millisecond tick that every timed part of picomesh takes as an      *)
(* argument: an unsigned integer that wraps.  The code uses 32 bits; here  *)
(* the modulus is 2 * HalfRange, so that a small HalfRange lets TLC reach  *)
(* the wrap and the proofs hold for every width, 2^32 included.            *)
(***************************************************************************)
EXTENDS Integers

CONSTANT HalfRange   \* 2^31 in the code: the number of non-negative int32_t

ASSUME HalfRangeAssumption == HalfRange \in Nat \ {0}

TickModulus == 2 * HalfRange

TickValue == 0 .. TickModulus - 1

\* The conversion of an integer to the unsigned type of a tick.
Wrap(x) == x % TickModulus

-----------------------------------------------------------------------------
(* What an unwary comparison of two ticks would be. *)

deadline_passed_unsigned(now_ms, deadline_ms) == now_ms >= deadline_ms

-----------------------------------------------------------------------------

(***************************************************************************)
(* The signed 32-bit reading of now_ms - deadline_ms is not negative: the  *)
(* deadline lies in the half of the tick circle that ends at now_ms.       *)
(***************************************************************************)
deadline_reached(now_ms, deadline_ms) == Wrap(now_ms - deadline_ms) < HalfRange
==============================================================================
