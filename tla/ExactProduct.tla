------------------------------ MODULE ExactProduct ------------------------------
(***************************************************************************)
(* u64_product_divmod of timing.c: the quotient and the remainder of       *)
(* multiplicand * multiplier by divisor, although the product may not fit  *)
(* an unsigned integer, and infiltratr_cycle_partition_u64 on top of it.   *)
(*                                                                         *)
(* Every sum and product is taken modulo Max + 1, as the machine does.     *)
(***************************************************************************)
EXTENDS MachineIntegers

VARIABLES
  multiplicand, multiplier, divisor,  \* the arguments
  add_quotient, add_remainder,        \* the running addend
  result_quotient, result_remainder,  \* the accumulator
  factor,
  pc  \* start, add and double in the loop, done: true, overflow: false

arguments == <<multiplicand, multiplier, divisor>>
addend == <<add_quotient, add_remainder>>
accumulator == <<result_quotient, result_remainder>>
vars == <<arguments, addend, accumulator, factor, pc>>

TypeOK ==
  /\ multiplicand \in U /\ multiplier \in U /\ divisor \in U \ {0}
  /\ add_quotient \in U /\ add_remainder \in U
  /\ result_quotient \in U /\ result_remainder \in U
  /\ factor \in U
  /\ pc \in {"start", "add", "double", "done", "overflow"}

\* No caller passes a zero divisor.
Init ==
  /\ multiplicand \in U /\ multiplier \in U /\ divisor \in U \ {0}
  /\ add_quotient = 0 /\ add_remainder = 0
  /\ result_quotient = 0 /\ result_remainder = 0
  /\ factor = multiplier
  /\ pc = "start"

------------------------------------------------------------------------------

\* infiltratr_u64_multiply_checked succeeds.
Fits == multiplicand # 0 => multiplier <= Max \div multiplicand

Direct ==
  /\ pc = "start" /\ Fits
  /\ result_quotient' = Wrap(multiplicand * multiplier) \div divisor
  /\ result_remainder' = Wrap(multiplicand * multiplier) % divisor
  /\ pc' = "done"
  /\ UNCHANGED <<arguments, addend, factor>>

StartLoop ==
  /\ pc = "start" /\ ~Fits
  /\ add_quotient' = multiplicand \div divisor
  /\ add_remainder' = multiplicand % divisor
  /\ pc' = "add"
  /\ UNCHANGED <<arguments, accumulator, factor>>

\* What is left of a remainder r once s was added to it and divisor taken away.
Reduced(r, s) == Wrap(Max + 1 + r - (divisor - s))

PastDivisor(r, s) == s # 0 /\ r > divisor - s \* mutant: one too many
Carries(r, s) == s # 0 /\ r >= divisor - s

PlusOne(q) == Wrap(q + 1)

\* The first half of an iteration: the addend goes to the accumulator if the
\* lowest bit is set.  An overflow returns false.
AddTerm ==
  /\ pc = "add"
  /\ LET sum == Wrap(result_quotient + add_quotient)
         carries == Carries(result_remainder, add_remainder)
     IN  \/ /\ factor % 2 = 0
            /\ UNCHANGED accumulator
            /\ pc' = "double"
         \/ /\ factor % 2 = 1
            /\ result_quotient <= Max - add_quotient
            /\ carries => sum # Max
            /\ result_quotient' = IF carries THEN PlusOne(sum) ELSE sum
            /\ result_remainder' = IF carries THEN Reduced(result_remainder, add_remainder)
                                   ELSE Wrap(result_remainder + add_remainder)
            /\ pc' = IF factor \div 2 = 0 THEN "done" ELSE "double"
         \/ /\ factor % 2 = 1
            /\ result_quotient > Max - add_quotient \/ (carries /\ sum = Max)
            /\ UNCHANGED accumulator
            /\ pc' = "overflow"
  /\ factor' = factor \div 2
  /\ UNCHANGED <<arguments, addend>>

AtHalf(carry) == add_quotient >= (Max - carry) \div 2 \* mutant: one too early
TooLarge(carry) == add_quotient > (Max - carry) \div 2

\* The second half: the addend is doubled.
Double ==
  /\ pc = "double"
  /\ LET carries == Carries(add_remainder, add_remainder)
         carry == IF carries THEN 1 ELSE 0
     IN  \/ /\ ~TooLarge(carry)
            /\ add_quotient' = Wrap(add_quotient * 2 + carry)
            /\ add_remainder' = IF carries THEN Reduced(add_remainder, add_remainder)
                                ELSE Wrap(add_remainder + add_remainder)
            /\ pc' = "add"
         \/ /\ TooLarge(carry)
            /\ UNCHANGED addend
            /\ pc' = "overflow"
  /\ UNCHANGED <<arguments, accumulator, factor>>

Next == Direct \/ StartLoop \/ AddTerm \/ Double

Spec == Init /\ [][Next]_vars

------------------------------------------------------------------------------
(* infiltratr_cycle_partition_u64, the remainder being the one of a phase    *)
(* times a number of partitions by the length of the cycle.                  *)

RoundedDown == (divisor - result_remainder) \div multiplier \* mutant
units_until_next ==
  LET distance == divisor - result_remainder
      whole == distance \div multiplier
  IN  IF distance % multiplier # 0 THEN Wrap(whole + 1) ELSE whole

------------------------------------------------------------------------------
(* Properties.                                                               *)

product == multiplicand * multiplier

\* A result is exact for all arguments, also where the product does not fit.
Exact ==
  pc = "done" => /\ result_quotient = product \div divisor
                 /\ result_remainder = product % divisor

\* False is returned only where the quotient itself does not fit.
OverflowIsReal == pc = "overflow" => product \div divisor > Max

\* What is still to be added: factor times the addend, twice that once the
\* factor was halved.
Pending ==
  LET addend_value == add_quotient * divisor + add_remainder
  IN  CASE pc = "add" -> factor * addend_value
        [] pc = "double" -> 2 * factor * addend_value
        [] OTHER -> 0

\* Why they hold: the accumulator and what is pending make up the product.
LoopInvariant ==
  /\ result_remainder < divisor /\ add_remainder < divisor
  /\ pc = "start" => result_quotient = 0 /\ result_remainder = 0 /\ factor = multiplier
  /\ pc \in {"add", "double"} => factor # 0
  /\ pc \in {"add", "double", "done"} =>
       result_quotient * divisor + result_remainder + Pending = product

\* A partition of a cycle is left after units_until_next, not a unit earlier.
BoundaryIsNext ==
  pc = "done" /\ multiplicand < divisor /\ multiplier # 0 =>
    LET index(position) == (position * multiplier) \div divisor
    IN  /\ result_quotient < multiplier
        /\ units_until_next > 0
        /\ index(multiplicand + units_until_next) > result_quotient
        /\ index(multiplicand + units_until_next - 1) = result_quotient
==============================================================================
