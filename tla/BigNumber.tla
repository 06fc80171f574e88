-------------------------------- MODULE BigNumber --------------------------------
(***************************************************************************)
(* The big integers of src/core.c: limbs, the least first, each below Base *)
(* (2^32 in the code), at most Limbs of them (160).  An operation that     *)
(* would need another limb is refused: Refused.                            *)
(***************************************************************************)
EXTENDS Integers, Sequences

CONSTANTS LimbBits, Limbs, Refused

ASSUME BigAssumption == {LimbBits, Limbs} \subseteq Nat \ {0}

\* Powers of two.
TwoTo[n \in Nat] == IF n = 0 THEN 1 ELSE 2 * TwoTo[n - 1]
Base == TwoTo[LimbBits]
Limb == 0..(Base - 1)
\* No number is Refused.
ASSUME RefusedAssumption ==
  Refused \notin Seq(Limb) /\ Refused \notin [quotient : Nat, remainder : Seq(Limb)]

Weight(i) == TwoTo[LimbBits * (i - 1)]

\* The value of the lowest limbs, of none to all.
LowValues(v) ==
  LET low[n \in 0..Len(v)] == IF n = 0 THEN 0 ELSE low[n - 1] + v[n] * Weight(n)
  IN  low
ValueOf(v) == LowValues(v)[Len(v)]

\* Without the zeros at the end.
SignificantLimbs(v) ==
  CHOOSE n \in 0..Len(v) : (n > 0 => v[n] # 0) /\ \A i \in (n + 1)..Len(v) : v[i] = 0
big_normalise(v) == SubSeq(v, 1, SignificantLimbs(v))

\* Limb by limb, what exceeds one is carried to the next, the last to a new one.
LimbCarries(v, factor, addend) ==
  LET carry[n \in 0..Len(v)] ==
        IF n = 0 THEN addend ELSE (v[n] * factor + carry[n - 1]) \div Base
  IN  carry
ScaledLimbs(v, factor, carry) == [i \in 1..Len(v) |-> (v[i] * factor + carry[i - 1]) % Base]
WithCarry(limbs, carry) == IF carry = 0 THEN limbs ELSE Append(limbs, carry)

big_mul_add_small(v, factor, addend) ==
  LET carry == LimbCarries(v, factor, addend)
  IN  IF carry[Len(v)] # 0 /\ Len(v) >= Limbs THEN Refused
      ELSE WithCarry(ScaledLimbs(v, factor, carry), carry[Len(v)])

\* The highest limb is halved until nothing is left of it.
BitsOf(limb) ==
  CHOOSE n \in 0..LimbBits : limb \div TwoTo[n] = 0 /\ (n > 0 => limb \div TwoTo[n - 1] # 0)
big_bit_length(v) ==
  IF v = << >> THEN 0 ELSE (Len(v) - 1) * LimbBits + BitsOf(v[Len(v)])

\* Whether left is less than right: the highest limb that differs decides.
IsLess(left, right) ==
  \/ Len(left) < Len(right)
  \/ /\ Len(left) = Len(right)
     /\ \E i \in 1..Len(left) : /\ left[i] < right[i]
                                /\ \A j \in (i + 1)..Len(left) : left[j] = right[j]

\* Whole limbs are moved, then the bits; a shift by a part of a limb is refused
\* for want of room even where nothing would be carried into the new limb.
NoRoomLeft(v, words, bits) == words + Len(v) > Limbs \* mutant: no room for the carry
NoRoom(v, words, bits) == words + Len(v) + (IF bits > 0 THEN 1 ELSE 0) > Limbs
big_shift_left(v, shift) ==
  LET words == shift \div LimbBits
      bits == shift % LimbBits
      carry == LimbCarries(v, TwoTo[bits], 0)
  IN  IF v = << >> \/ shift = 0 THEN v
      ELSE IF NoRoom(v, words, bits) THEN Refused
      ELSE [i \in 1..words |-> 0]
             \o WithCarry(ScaledLimbs(v, TwoTo[bits], carry), carry[Len(v)])

LimbAt(v, i) == IF i <= Len(v) THEN v[i] ELSE 0

\* The lowest bit of each limb is carried to the top of the one below.
big_shift_right_one(v) ==
  big_normalise([i \in 1..Len(v) |-> v[i] \div 2 + (LimbAt(v, i + 1) % 2) * (Base \div 2)])

\* Where the left is not less than the right, as every caller makes sure.
Borrows(left, right) ==
  LET borrow[n \in 0..Len(left)] ==
        IF n = 0 THEN 0 ELSE IF left[n] < LimbAt(right, n) + borrow[n - 1] THEN 1 ELSE 0
  IN  borrow
big_subtract(left, right) ==
  LET borrow == Borrows(left, right)
  IN  big_normalise([i \in 1..Len(left) |->
                       (left[i] - (LimbAt(right, i) + borrow[i - 1])) % Base])

\* By a divisor not zero: bit by bit, the shifted divisor is taken away where it
\* can be.
DivisionStep(step) ==
  LET fits == ~IsLess(step.remainder, step.divisor)
  IN  [quotient |-> 2 * step.quotient + (IF fits THEN 1 ELSE 0),
       remainder |-> IF fits THEN big_subtract(step.remainder, step.divisor) ELSE step.remainder,
       divisor |-> big_shift_right_one(step.divisor)]
DivisionSteps(numerator, shifted, count) ==
  LET step[n \in 0..count] ==
        IF n = 0 THEN [quotient |-> 0, remainder |-> numerator, divisor |-> shifted]
        ELSE DivisionStep(step[n - 1])
  IN  step
big_divide_u64(numerator, denominator) ==
  LET shift == big_bit_length(numerator) - big_bit_length(denominator)
      shifted == big_shift_left(denominator, shift)
      end == DivisionSteps(numerator, shifted, shift + 1)[shift + 1]
  IN  IF IsLess(numerator, denominator) THEN [quotient |-> 0, remainder |-> numerator]
      ELSE IF shifted = Refused THEN Refused
      ELSE [quotient |-> end.quotient, remainder |-> end.remainder]

----------------------------------------------------------------------------------
(* What they promise, for numbers without leading zeros.                         *)

Number(v) == Len(v) <= Limbs /\ (v # << >> => v[Len(v)] # 0)
BigNumbers == {v \in Seq(Limb) : Number(v)}
Is(v, x) == v # Refused /\ Number(v) /\ ValueOf(v) = x

\* A product or a shift is exact, or has no room; a shift is refused early, but
\* never where a limb would be left.
ScalesExactly(v, factor, addend, shift) ==
  LET product == big_mul_add_small(v, factor, addend)
      shifted == big_shift_left(v, shift)
      exact == ValueOf(v) * factor + addend
      moved == ValueOf(v) * TwoTo[shift]
      tooLarge == TwoTo[LimbBits * Limbs]
  IN  /\ IF product = Refused THEN exact >= tooLarge ELSE Is(product, exact)
      /\ IF shifted = Refused THEN moved * Base > tooLarge ELSE Is(shifted, moved)

\* A division is exact, or refused where the shifted divisor has no room.
DividesExactly(numerator, denominator) ==
  LET result == big_divide_u64(numerator, denominator)
      n == ValueOf(numerator)
      d == ValueOf(denominator)
  IN  /\ IsLess(numerator, denominator) <=> n < d
      /\ IF result = Refused THEN Len(numerator) = Limbs
         ELSE result.quotient = n \div d /\ Is(result.remainder, n % d)
==================================================================================
