--------------------------- MODULE CheckedArithmetic ---------------------------
(***************************************************************************)
(* src/arithmetic.c and the unsigned helpers of src/core.c: sums, products *)
(* and differences that are checked, or saturate, before they would        *)
(* overflow, and the growth of an array.  Their guards never compute what  *)
(* they guard; a false return is Overflow here.                            *)
(***************************************************************************)
EXTENDS MachineIntegers

CONSTANT Overflow

ASSUME OverflowAssumption == Overflow \notin Int

i64_floor_divmod(value, divisor) ==
  LET r == Rem(value, divisor)
  IN  IF r < 0 THEN [quotient |-> Quot(value, divisor) - 1, remainder |-> r + divisor]
      ELSE [quotient |-> Quot(value, divisor), remainder |-> r]

SumTooLarge(left, right) == right > 0 /\ left > IntMax - right
SumTooSmall(left, right) == right < 0 /\ left < IntMin - right
i64_add_checked(left, right) ==
  IF SumTooLarge(left, right) \/ SumTooSmall(left, right) THEN Overflow ELSE left + right

TowardsMax(left, right) == \* mutant: the signs are not told apart
  left # 0 /\ right # 0 /\ left > Quot(IntMax, right)
ProductTooLarge(left, right) ==
  \/ left > 0 /\ right > 0 /\ left > Quot(IntMax, right)
  \/ left > 0 /\ right < 0 /\ right < Quot(IntMin, left)
  \/ left < 0 /\ right > 0 /\ left < Quot(IntMin, right)
  \/ left < 0 /\ right < 0 /\ left < Quot(IntMax, right)
i64_multiply_checked(left, right) ==
  IF ProductTooLarge(left, right) THEN Overflow ELSE left * right

i64_add_saturating(left, right) ==
  IF i64_add_checked(left, right) # Overflow THEN left + right
  ELSE IF right >= 0 THEN IntMax ELSE IntMin
i64_subtract_saturating(left, right) ==
  IF right > 0 /\ left < IntMin + right THEN IntMin
  ELSE IF right < 0 /\ left > IntMax + right THEN IntMax
  ELSE left - right
i64_multiply_saturating(left, right) ==
  IF i64_multiply_checked(left, right) # Overflow THEN left * right
  ELSE IF (left < 0) # (right < 0) THEN IntMin ELSE IntMax

--------------------------------------------------------------------------------
(* Unsigned; sizes are the same.                                               *)

u64_add_checked(left, right) == IF right > Max - left THEN Overflow ELSE left + right
u64_subtract_checked(left, right) == IF right > left THEN Overflow ELSE left - right
u64_multiply_checked(left, right) ==
  IF left # 0 /\ right > Max \div left THEN Overflow ELSE left * right
u64_add_saturating(left, right) == IF right > Max - left THEN Max ELSE left + right
u64_multiply_saturating(left, right) ==
  IF left # 0 /\ right > Max \div left THEN Max ELSE left * right
u64_counter_delta(current, previous) ==
  IF current < previous THEN Overflow ELSE current - previous

\* The capacity doubles until it is enough; the last doubling before an
\* overflow settles for what is required.
NextCapacity(next, required) == IF next > Max \div 2 THEN required ELSE next * 2
Grown(start, required) ==
  LET grown[n \in U] == IF n >= required THEN n ELSE grown[NextCapacity(n, required)]
  IN  grown[start]

\* array_reserve: the new capacity, or Overflow where the bytes do not fit.
array_reserve(capacity, element_size, required, initial_capacity) ==
  LET start == IF capacity # 0 THEN capacity
               ELSE IF initial_capacity > 0 THEN initial_capacity ELSE 1
      next == Grown(start, required)
  IN  IF required <= capacity THEN capacity
      ELSE IF u64_multiply_checked(next, element_size) = Overflow THEN Overflow
      ELSE next

--------------------------------------------------------------------------------
(* What they promise, for two machine integers.                                *)

Clamped(x, lo, hi) == IF x < lo THEN lo ELSE IF x > hi THEN hi ELSE x
IsChecked(result, x, Domain) == result = IF x \in Domain THEN x ELSE Overflow

SignedIsExact(a, b) ==
  /\ IsChecked(i64_add_checked(a, b), a + b, S)
  /\ IsChecked(i64_multiply_checked(a, b), a * b, S)
  /\ i64_add_saturating(a, b) = Clamped(a + b, IntMin, IntMax)
  /\ i64_subtract_saturating(a, b) = Clamped(a - b, IntMin, IntMax)
  /\ i64_multiply_saturating(a, b) = Clamped(a * b, IntMin, IntMax)
  /\ b > 0 => i64_floor_divmod(a, b) = [quotient |-> a \div b, remainder |-> a % b]
UnsignedIsExact(a, b) ==
  /\ IsChecked(u64_add_checked(a, b), a + b, U)
  /\ IsChecked(u64_subtract_checked(a, b), a - b, U)
  /\ IsChecked(u64_multiply_checked(a, b), a * b, U)
  /\ IsChecked(u64_counter_delta(a, b), a - b, U)
  /\ u64_add_saturating(a, b) = Clamped(a + b, 0, Max)
  /\ u64_multiply_saturating(a, b) = Clamped(a * b, 0, Max)

\* Enough, never less than before, less than twice what is needed unless it was
\* so at the start; refused only where twice the need could not be allocated.
ReservesEnough(capacity, element_size, required, initial_capacity) ==
  LET new == array_reserve(capacity, element_size, required, initial_capacity)
      first == IF capacity = 0 THEN Clamped(initial_capacity, 1, Max) ELSE capacity
  IN  IF new = Overflow THEN Clamped(2 * required, first, 2 * Max) * element_size > Max
      ELSE /\ new >= required /\ new >= capacity /\ new <= Max
           /\ new < 2 * required \/ new \in {capacity, first}
           /\ new > capacity => new * element_size <= Max
================================================================================
