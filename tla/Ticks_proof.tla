----------------------------- MODULE Ticks_proof -----------------------------
(***************************************************************************)
(* What the wrapping of a tick does, for every width of the tick.          *)
(***************************************************************************)
EXTENDS Ticks, TLAPS

(***************************************************************************)
(* Wrapping an integer at most one modulus away from the range of a tick   *)
(* adds or subtracts one modulus.                                          *)
(***************************************************************************)
LEMMA WrapNear ==
  /\ \A x \in 0 .. TickModulus - 1 : Wrap(x) = x
  /\ \A x \in TickModulus .. 2 * TickModulus - 1 : Wrap(x) = x - TickModulus
  /\ \A x \in (-TickModulus) .. -1 : Wrap(x) = x + TickModulus
<1>1. \A x \in 0 .. TickModulus - 1 : Wrap(x) = x
  BY HalfRangeAssumption DEF Wrap, TickModulus
<1>2. \A x \in TickModulus .. 2 * TickModulus - 1 : Wrap(x) = x - TickModulus
  BY HalfRangeAssumption DEF Wrap, TickModulus
<1>3. \A x \in (-TickModulus) .. -1 : Wrap(x) = x + TickModulus
  BY HalfRangeAssumption DEF Wrap, TickModulus
<1>4. QED
  BY <1>1, <1>2, <1>3

(* The conversion to the unsigned type always yields a tick. *)
LEMMA WrapType ==
  ASSUME NEW x \in Int
  PROVE  Wrap(x) \in TickValue
BY HalfRangeAssumption DEF Wrap, TickModulus, TickValue

(***************************************************************************)
(* A deadline wait - elapsed ticks ahead of now_ms is found reached exactly *)
(* when it is past, and past by less than half the tick range.             *)
(***************************************************************************)
LEMMA DeadlineReachedIffPast ==
  ASSUME NEW now \in TickValue,
         NEW elapsed \in Nat, NEW wait \in 0 .. HalfRange,
         elapsed < wait + HalfRange
  PROVE  deadline_reached(now, Wrap(now - elapsed + wait)) <=> elapsed >= wait
<1>. DEFINE d == Wrap(now - elapsed + wait)
<1>1. d \in {now - elapsed + wait, now - elapsed + wait + TickModulus,
             now - elapsed + wait - TickModulus}
  BY WrapNear, HalfRangeAssumption DEF TickModulus, TickValue
<1>2. d \in 0 .. TickModulus - 1
  BY WrapType DEF TickValue
<1>3. CASE elapsed >= wait
  <2>1. Wrap(now - d) = elapsed - wait
    BY <1>1, <1>2, <1>3, WrapNear, HalfRangeAssumption DEF TickModulus, TickValue
  <2>2. QED
    BY <2>1, <1>3, HalfRangeAssumption DEF deadline_reached
<1>4. CASE elapsed < wait
  <2>1. Wrap(now - d) = elapsed - wait + TickModulus
    BY <1>1, <1>2, <1>4, WrapNear, HalfRangeAssumption DEF TickModulus, TickValue
  <2>2. QED
    BY <2>1, <1>4, HalfRangeAssumption DEF deadline_reached, TickModulus
<1>5. QED
  BY <1>3, <1>4

(***************************************************************************)
(* As a tick and a time span both grow by one, what lies that span before  *)
(* the tick stays where it is.                                             *)
(***************************************************************************)
LEMMA WrapOfTheNextTick ==
  ASSUME NEW now \in TickValue,
         NEW x \in (1 - TickModulus) .. HalfRange
  PROVE  Wrap(Wrap(now + 1) + x - 1) = Wrap(now + x)
<1>1. CASE now + 1 < TickModulus
  BY <1>1, WrapNear, HalfRangeAssumption DEF TickModulus, TickValue
<1>2. CASE now + 1 = TickModulus
  <2>1. Wrap(now + 1) = 0
    BY <1>2, WrapNear, HalfRangeAssumption DEF TickModulus, TickValue
  <2>2. CASE x >= 1
    BY <1>2, <2>1, <2>2, WrapNear, HalfRangeAssumption DEF TickModulus, TickValue
  <2>3. CASE x <= 0
    BY <1>2, <2>1, <2>3, WrapNear, HalfRangeAssumption DEF TickModulus, TickValue
  <2>4. QED
    BY <2>2, <2>3
<1>3. QED
  BY <1>1, <1>2, HalfRangeAssumption DEF TickValue, TickModulus
==============================================================================
