---------------------------- MODULE ArithmeticProofs ----------------------------
(***************************************************************************)
(* Proofs about Arithmetic, for every width, every argument and every unit *)
(* of time.                                                                *)
(***************************************************************************)
EXTENDS Arithmetic, WellFoundedInduction, TLAPS

(* The wide product and its division.                                        *)

LEMMA DivModIs ==
  ASSUME NEW p \in Nat, NEW d \in Nat, d # 0
  PROVE  /\ p \div d \in Nat /\ p % d \in Nat
         /\ p = (p \div d) * d + (p % d) /\ p % d < d /\ p \div d <= p
<1>1. /\ p \div d \in Nat /\ p % d \in Nat /\ p % d < d
  OBVIOUS
<1>2. p = (p \div d) * d + (p % d)
  OBVIOUS
<1>3. p \div d <= p
  BY <1>1, <1>2
<1> QED
  BY <1>1, <1>2, <1>3

LEMMA DivModUnique ==
  ASSUME NEW q \in Nat, NEW r \in Nat, NEW d \in Nat, r < d
  PROVE  (q * d + r) \div d = q /\ (q * d + r) % d = r
OBVIOUS

LEMMA QuotientAtLeast ==
  ASSUME NEW p \in Nat, NEW d \in Nat, NEW k \in Nat, d # 0, p >= k * d
  PROVE  p \div d >= k
<1> DEFINE q == p \div d
<1>1. q \in Nat /\ p % d \in Nat /\ p = q * d + (p % d) /\ p % d < d
  BY DivModIs
<1> HIDE DEF q
<1>2. CASE q + 1 <= k
  <2>1. (q + 1) * d <= k * d
    BY <1>1, <1>2
  <2>2. (q + 1) * d = q * d + d
    BY <1>1
  <2> QED
    BY <1>1, <2>1, <2>2
<1>3. q >= k
  BY <1>1, <1>2
<1> QED
  BY <1>3 DEF q

LEMMA WrapIs == ASSUME NEW x \in U PROVE Wrap(x) = x
BY WidthAssumption DEF Wrap, U

\* The value of a quotient and a remainder.
Value(q, r) == q * divisor + r

LEMMA Sum ==
  ASSUME TypeOK, NEW q \in Nat, NEW r \in Nat, NEW p \in Nat, NEW s \in Nat, r < divisor, s < divisor
  PROVE  /\ Carries(r, s) <=> r + s >= divisor
         /\ Value(q, r) + Value(p, s) = Value(q + p, r + s)
         /\ r + s >= divisor => /\ Value(q, r) + Value(p, s) = Value(q + p + 1, r + s - divisor)
                                /\ r + s - divisor \in 0..(divisor - 1)
<1>1. divisor \in Nat
  BY WidthAssumption DEF TypeOK, U
<1>2. Carries(r, s) <=> r + s >= divisor
  BY <1>1 DEF Carries
<1>3. (q + p) * divisor = q * divisor + p * divisor /\ (q + p + 1) * divisor = q * divisor + p * divisor + divisor
  BY <1>1
<1>4. q * divisor \in Nat /\ p * divisor \in Nat
  BY <1>1
<1>5. Value(q, r) + Value(p, s) = Value(q + p, r + s)
  BY <1>1, <1>3, <1>4 DEF Value
<1>6. r + s >= divisor => /\ Value(q, r) + Value(p, s) = Value(q + p + 1, r + s - divisor)
                          /\ r + s - divisor \in 0..(divisor - 1)
  BY <1>1, <1>3, <1>4 DEF Value
<1> QED
  BY <1>2, <1>5, <1>6

LEMMA ReducedIs ==
  ASSUME TypeOK, NEW r \in Nat, NEW s \in Nat, r < divisor, s < divisor, r + s >= divisor
  PROVE  Reduced(r, s) = r + s - divisor /\ Reduced(r, s) < divisor /\ Reduced(r, s) \in U
<1>1. /\ divisor \in Nat /\ divisor <= Max /\ Max \in Nat
  BY WidthAssumption DEF TypeOK, U
<1>2. r + s - divisor \in 0..Max /\ r + s - divisor < divisor
  BY <1>1
<1> DEFINE x == r + s - divisor
<1>3. Max + 1 + r - (divisor - s) = 1 * (Max + 1) + x
  BY <1>1
<1>4. (1 * (Max + 1) + x) % (Max + 1) = x
  <2> HIDE DEF x
  <2> QED
    BY <1>1, <1>2, DivModUnique DEF x
<1> QED
  BY <1>2, <1>3, <1>4 DEF Reduced, Wrap, U

------------------------------------------------------------------------------
(* The invariant is inductive, one lemma per action.                         *)

LEMMA DirectStep == TypeOK /\ LoopInvariant /\ Direct => TypeOK' /\ LoopInvariant'
<1> SUFFICES ASSUME TypeOK, LoopInvariant, Direct PROVE TypeOK' /\ LoopInvariant'
  OBVIOUS
<1>1. /\ multiplicand \in Nat /\ multiplier \in Nat /\ divisor \in Nat /\ divisor # 0 /\ Max \in Nat
      /\ multiplicand <= Max /\ multiplier <= Max
  BY WidthAssumption DEF TypeOK, U
<1>2. product \in U
  <2>1. CASE multiplicand = 0
    BY <1>1, <2>1 DEF product, U
  <2>2. CASE multiplicand # 0
    <3>1. multiplier <= Max \div multiplicand
      BY <2>2 DEF Direct, Fits
    <3>2. (Max \div multiplicand) * multiplicand <= Max
      BY <1>1, <2>2, DivModIs
    <3>3. multiplier * multiplicand <= (Max \div multiplicand) * multiplicand
      BY <1>1, <2>2, <3>1, DivModIs
    <3> QED
      BY <1>1, <3>2, <3>3 DEF product, U
  <2> QED
    BY <2>1, <2>2
<1>3. result_quotient' = product \div divisor /\ result_remainder' = product % divisor
  BY <1>2, WrapIs DEF Direct, product
<1>4. /\ result_quotient' \in Nat /\ result_quotient' <= product
      /\ result_remainder' \in Nat /\ result_remainder' < divisor
      /\ result_quotient' * divisor + result_remainder' = product
  BY <1>1, <1>2, <1>3, DivModIs DEF U
<1>5. result_quotient' \in U /\ result_remainder' \in U
  BY <1>2, <1>4, WidthAssumption DEF TypeOK, U
<1>6. TypeOK'
  BY <1>5 DEF TypeOK, Direct, arguments, addend
<1>7. pc' = "done" /\ divisor' = divisor /\ add_remainder' = add_remainder /\ product' = product
  BY DEF Direct, arguments, addend, product
<1>8. Pending' = 0
  BY <1>7 DEF Pending
<1>9. result_quotient' * divisor + result_remainder' + 0 = product
  BY <1>1, <1>4
<1> QED
  BY <1>4, <1>6, <1>7, <1>8, <1>9 DEF LoopInvariant

LEMMA StartStep == TypeOK /\ LoopInvariant /\ StartLoop => TypeOK' /\ LoopInvariant'
<1> SUFFICES ASSUME TypeOK, LoopInvariant, StartLoop PROVE TypeOK' /\ LoopInvariant'
  OBVIOUS
<1>1. /\ multiplicand \in Nat /\ multiplier \in Nat /\ divisor \in Nat /\ divisor # 0 /\ Max \in Nat
      /\ multiplicand <= Max
  BY WidthAssumption DEF TypeOK, U
<1>2. /\ add_quotient' \in Nat /\ add_remainder' \in Nat /\ add_quotient' <= multiplicand
      /\ add_remainder' < divisor /\ add_quotient' * divisor + add_remainder' = multiplicand
  BY <1>1, DivModIs DEF StartLoop
<1>3. /\ pc' = "add" /\ factor' = factor /\ divisor' = divisor /\ product' = product
      /\ result_quotient' = result_quotient /\ result_remainder' = result_remainder
      /\ factor = multiplier /\ result_quotient = 0 /\ result_remainder = 0
  BY DEF StartLoop, LoopInvariant, arguments, accumulator, product
<1>4. multiplier # 0
  BY <1>1, DivModIs DEF StartLoop, Fits
<1>5. TypeOK'
  BY <1>1, <1>2 DEF TypeOK, StartLoop, arguments, accumulator, U
<1>6. Pending' = multiplier * multiplicand
  BY <1>2, <1>3 DEF Pending
<1>7. 0 * divisor + 0 + multiplier * multiplicand = product
  BY <1>1 DEF product
<1> QED
  BY <1>1, <1>2, <1>3, <1>4, <1>5, <1>6, <1>7 DEF LoopInvariant

\* A factor is twice its half, and its lowest bit.
LEMMA Halves ==
  ASSUME NEW f \in Nat
  PROVE  /\ f \div 2 \in Nat /\ f \div 2 <= f
         /\ f % 2 = 0 => f = 2 * (f \div 2)
         /\ f % 2 = 1 => f = 2 * (f \div 2) + 1
         /\ f % 2 = 0 \/ f % 2 = 1
OBVIOUS

LEMMA AddStep == TypeOK /\ LoopInvariant /\ AddTerm => TypeOK' /\ LoopInvariant'
<1> SUFFICES ASSUME TypeOK, LoopInvariant, AddTerm PROVE TypeOK' /\ LoopInvariant'
  OBVIOUS
<1>1. /\ divisor \in Nat /\ divisor # 0 /\ divisor <= Max /\ Max \in Nat /\ factor \in Nat
      /\ add_quotient \in Nat /\ add_remainder \in Nat /\ add_remainder < divisor
      /\ result_quotient \in Nat /\ result_remainder \in Nat /\ result_remainder < divisor
      /\ factor <= Max
  BY WidthAssumption DEF TypeOK, LoopInvariant, U
<1>2. /\ pc = "add" /\ factor # 0 /\ factor' = factor \div 2 /\ divisor' = divisor
      /\ add_quotient' = add_quotient /\ add_remainder' = add_remainder /\ product' = product
      /\ UNCHANGED arguments
  BY DEF AddTerm, LoopInvariant, arguments, addend, product
<1> DEFINE half == factor \div 2
           term == Value(add_quotient, add_remainder)
           total == Value(result_quotient, result_remainder)
<1>3. term \in Nat /\ total \in Nat
  BY <1>1 DEF Value
<1>4. total + factor * term = product
  BY <1>1, <1>2 DEF LoopInvariant, Pending, Value
<1>5. half \in Nat /\ half <= factor /\ factor' = half
  BY <1>1, <1>2, Halves
<1>6. factor' \in U
  BY <1>1, <1>5 DEF U
<1>7. CASE factor % 2 = 0
  <2>1. UNCHANGED accumulator /\ pc' = "double"
    BY <1>7 DEF AddTerm
  <2>2. factor = 2 * half /\ half # 0
    BY <1>1, <1>2, <1>7, Halves
  <2>3. Pending' = 2 * half * term
    BY <1>2, <1>5, <2>1 DEF Pending, Value
  <2>4. total + 2 * half * term = product
    BY <1>4, <2>2
  <2>5. TypeOK'
    BY <1>2, <1>6, <2>1 DEF TypeOK, arguments, accumulator
  <2>6. result_quotient' * divisor' + result_remainder' = total
    BY <1>2, <2>1 DEF accumulator, Value
  <2> QED
    BY <1>1, <1>2, <1>5, <2>1, <2>2, <2>3, <2>4, <2>5, <2>6 DEF LoopInvariant, accumulator
<1>8. CASE factor % 2 = 1 /\ pc' # "overflow"
  <2> DEFINE sum == result_quotient + add_quotient
  <2>1. factor = 2 * half + 1
    BY <1>1, <1>8, Halves
  <2>2. sum \in U /\ Wrap(sum) = sum
    BY <1>1, <1>8, WrapIs DEF AddTerm, U
  <2>3. /\ result_quotient' \in U /\ result_remainder' \in U /\ result_remainder' < divisor
        /\ Value(result_quotient', result_remainder') = total + term
    <3>1. CASE result_remainder + add_remainder >= divisor
      <4>1. Carries(result_remainder, add_remainder)
        BY <1>1, <3>1, Sum
      <4>2. sum # Max /\ result_quotient' = PlusOne(sum)
            /\ result_remainder' = Reduced(result_remainder, add_remainder)
        BY <1>8, <2>2, <4>1 DEF AddTerm
      <4>3. sum + 1 \in U
        BY <1>1, <2>2, <4>2 DEF U
      <4>4. result_quotient' = sum + 1
        BY <4>2, <4>3, WrapIs DEF PlusOne
      <4>5. /\ result_remainder' = result_remainder + add_remainder - divisor
            /\ result_remainder' < divisor /\ result_remainder' \in U
        BY <1>1, <3>1, <4>2, ReducedIs
      <4>6. total + term = Value(sum + 1, result_remainder + add_remainder - divisor)
        BY <1>1, <3>1, Sum
      <4> QED
        BY <4>3, <4>4, <4>5, <4>6
    <3>2. CASE result_remainder + add_remainder < divisor
      <4>1. ~Carries(result_remainder, add_remainder)
        BY <1>1, <3>2, Sum
      <4>2. result_remainder + add_remainder \in U
        BY <1>1, <3>2 DEF U
      <4>3. /\ result_quotient' = sum
            /\ result_remainder' = result_remainder + add_remainder
        BY <1>8, <2>2, <4>1, <4>2, WrapIs DEF AddTerm
      <4>4. total + term = Value(sum, result_remainder + add_remainder)
        BY <1>1, Sum
      <4> QED
        BY <2>2, <3>2, <4>2, <4>3, <4>4
    <3> QED
      BY <1>1, <3>1, <3>2
  <2>4. pc' = IF half = 0 THEN "done" ELSE "double"
    BY <1>8 DEF AddTerm
  <2>5. Pending' = 2 * half * term
    BY <1>2, <1>3, <1>5, <2>4 DEF Pending, Value
  <2>6. (total + term) + 2 * half * term = product
    <3>1. (2 * half + 1) * term = 2 * half * term + term
      BY <1>3, <1>5
    <3> QED
      BY <1>3, <1>4, <1>5, <2>1, <3>1
  <2>7. TypeOK'
    BY <1>2, <1>6, <2>3, <2>4 DEF TypeOK, arguments
  <2>8. result_quotient' * divisor' + result_remainder' = total + term
    BY <1>2, <2>3 DEF Value
  <2> QED
    BY <1>1, <1>2, <1>5, <2>3, <2>4, <2>5, <2>6, <2>7, <2>8 DEF LoopInvariant
<1>9. CASE pc' = "overflow"
  <2>1. UNCHANGED accumulator
    BY <1>1, <1>9 DEF AddTerm
  <2> QED
    BY <1>1, <1>2, <1>6, <1>9, <2>1 DEF TypeOK, LoopInvariant, arguments, accumulator
<1> QED
  BY <1>1, <1>7, <1>8, <1>9, Halves

LEMMA DoubleStep == TypeOK /\ LoopInvariant /\ Double => TypeOK' /\ LoopInvariant'
<1> SUFFICES ASSUME TypeOK, LoopInvariant, Double PROVE TypeOK' /\ LoopInvariant'
  OBVIOUS
<1>1. /\ divisor \in Nat /\ divisor # 0 /\ divisor <= Max /\ Max \in Nat /\ factor \in Nat
      /\ add_quotient \in Nat /\ add_remainder \in Nat /\ add_remainder < divisor
      /\ result_quotient \in Nat /\ result_remainder \in Nat /\ result_remainder < divisor
  BY WidthAssumption DEF TypeOK, LoopInvariant, U
<1>2. /\ pc = "double" /\ factor # 0 /\ factor' = factor /\ divisor' = divisor /\ product' = product
      /\ result_quotient' = result_quotient /\ result_remainder' = result_remainder
      /\ UNCHANGED arguments
  BY DEF Double, LoopInvariant, arguments, accumulator, product
<1> DEFINE term == Value(add_quotient, add_remainder)
           total == Value(result_quotient, result_remainder)
           carry == IF Carries(add_remainder, add_remainder) THEN 1 ELSE 0
<1>3. term \in Nat /\ total \in Nat
  BY <1>1 DEF Value
<1>4. total + 2 * factor * term = product
  BY <1>1, <1>2 DEF LoopInvariant, Pending, Value
<1>5. CASE ~TooLarge(carry)
  <2>1. /\ pc' = "add" /\ add_quotient' = Wrap(add_quotient * 2 + carry)
        /\ add_remainder' = IF Carries(add_remainder, add_remainder)
                              THEN Reduced(add_remainder, add_remainder)
                              ELSE Wrap(add_remainder + add_remainder)
    BY <1>5 DEF Double
  <2>2. Max # 0 /\ carry \in {0, 1}
    BY <1>1
  <2>3. Max - carry \in Nat
    BY <1>1, <2>2
  <2>4. add_quotient <= (Max - carry) \div 2
    <3>1. add_quotient \in Nat /\ (Max - carry) \div 2 \in Nat
      BY <1>1, <2>3
    <3> QED
      BY <1>5, <3>1 DEF TooLarge
  <2>5. add_quotient * 2 <= Max - carry
    <3> DEFINE rest == Max - carry
    <3>1. rest \in Nat /\ add_quotient <= rest \div 2
      BY <2>4, <2>3
    <3> HIDE DEF rest
    <3>2. 2 * (rest \div 2) <= rest
      BY <3>1
    <3>3. add_quotient * 2 <= rest
      BY <1>1, <3>1, <3>2
    <3> QED
      BY <3>3 DEF rest
  <2>6. add_quotient * 2 + carry \in U /\ add_quotient' = add_quotient * 2 + carry
    <3>1. add_quotient * 2 + carry \in U
      BY <1>1, <2>4, <2>5 DEF U
    <3> HIDE DEF carry
    <3> QED
      BY <2>1, <3>1, WrapIs
  <2>7. /\ add_remainder' \in U /\ add_remainder' < divisor
        /\ Value(add_quotient', add_remainder') = term + term
    <3>1. CASE add_remainder + add_remainder >= divisor
      <4>1. Carries(add_remainder, add_remainder)
        BY <1>1, <3>1, Sum
      <4>2. /\ add_remainder' = add_remainder + add_remainder - divisor
            /\ add_remainder' < divisor /\ add_remainder' \in U
        BY <1>1, <2>1, <3>1, <4>1, ReducedIs
      <4>3. add_quotient' = add_quotient + add_quotient + 1
        BY <1>1, <2>6, <4>1
      <4>4. term + term = Value(add_quotient + add_quotient + 1, add_remainder + add_remainder - divisor)
        BY <1>1, <3>1, Sum
      <4> QED
        BY <4>2, <4>3, <4>4
    <3>2. CASE add_remainder + add_remainder < divisor
      <4>1. ~Carries(add_remainder, add_remainder)
        BY <1>1, <3>2, Sum
      <4>2. add_remainder + add_remainder \in U
        BY <1>1, <3>2 DEF U
      <4>3. add_remainder' = add_remainder + add_remainder /\ add_quotient' = add_quotient + add_quotient
        BY <1>1, <2>1, <2>6, <4>1, <4>2, WrapIs
      <4>4. term + term = Value(add_quotient + add_quotient, add_remainder + add_remainder)
        BY <1>1, Sum
      <4> QED
        BY <3>2, <4>2, <4>3, <4>4
    <3> QED
      BY <1>1, <3>1, <3>2
  <2>8. TypeOK'
    BY <1>2, <2>1, <2>6, <2>7 DEF TypeOK, arguments
  <2>9. Pending' = factor * (term + term)
    BY <1>2, <2>1, <2>7 DEF Pending, Value
  <2>10. factor * (term + term) = 2 * factor * term
    BY <1>1, <1>3
  <2>11. result_quotient' * divisor' + result_remainder' + Pending' = product
    BY <1>2, <1>4, <2>9, <2>10 DEF Value
  <2> QED
    BY <1>1, <1>2, <2>1, <2>7, <2>8, <2>11 DEF LoopInvariant
<1>6. CASE TooLarge(carry)
  <2>1. UNCHANGED addend /\ pc' = "overflow"
    BY <1>6 DEF Double
  <2> QED
    BY <1>1, <1>2, <2>1 DEF TypeOK, LoopInvariant, arguments, addend
<1> QED
  BY <1>5, <1>6

\* Every argument and intermediate value stays an unsigned integer of the width,
\* and the accumulator and what is pending always make up the product.
THEOREM Inductive == Spec => [](TypeOK /\ LoopInvariant)
<1>1. Init => TypeOK /\ LoopInvariant
  BY WidthAssumption DEF Init, TypeOK, LoopInvariant, U
<1>2. TypeOK /\ LoopInvariant /\ UNCHANGED vars => TypeOK' /\ LoopInvariant'
  <2> SUFFICES ASSUME TypeOK, LoopInvariant, UNCHANGED vars PROVE TypeOK' /\ LoopInvariant'
    OBVIOUS
  <2>1. Pending' = Pending /\ product' = product
    BY DEF vars, arguments, addend, accumulator, Pending, product
  <2> QED
    BY <2>1 DEF vars, arguments, addend, accumulator, TypeOK, LoopInvariant
<1>3. TypeOK /\ LoopInvariant /\ [Next]_vars => (TypeOK /\ LoopInvariant)'
  BY <1>2, DirectStep, StartStep, AddStep, DoubleStep DEF Next
<1> QED
  BY <1>1, <1>3, PTL DEF Spec

\* The result is the exact quotient and remainder, for all arguments.
THEOREM AlwaysExact == Spec => []Exact
<1>1. TypeOK /\ LoopInvariant => Exact
  <2> SUFFICES ASSUME TypeOK, LoopInvariant, pc = "done"
               PROVE  result_quotient = product \div divisor /\ result_remainder = product % divisor
    BY DEF Exact
  <2>1. /\ result_quotient \in Nat /\ result_remainder \in Nat /\ divisor \in Nat
        /\ result_remainder < divisor
    BY WidthAssumption DEF TypeOK, LoopInvariant, U
  <2>2. result_quotient * divisor + result_remainder = product
    <3>1. Pending = 0
      BY DEF Pending
    <3> QED
      BY <2>1, <3>1 DEF LoopInvariant
  <2> QED
    BY <2>1, <2>2, DivModUnique
<1> QED
  BY <1>1, Inductive, PTL

\* False is returned for a quotient that has no representation, and only then.
THEOREM OverflowAlwaysReal == Spec => []OverflowIsReal
<1>1. Init => OverflowIsReal
  BY DEF Init, OverflowIsReal
<1>2. TypeOK /\ LoopInvariant /\ OverflowIsReal /\ [Next]_vars => OverflowIsReal'
  <2> SUFFICES ASSUME TypeOK, LoopInvariant, OverflowIsReal, [Next]_vars, pc' = "overflow"
               PROVE  (product \div divisor > Max)'
    BY DEF OverflowIsReal
  <2>1. /\ divisor \in Nat /\ divisor # 0 /\ divisor <= Max /\ Max \in Nat /\ factor \in Nat
        /\ add_quotient \in Nat /\ add_remainder \in Nat /\ add_remainder < divisor
        /\ result_quotient \in Nat /\ result_remainder \in Nat /\ result_remainder < divisor
        /\ multiplicand \in Nat /\ multiplier \in Nat
    BY WidthAssumption DEF TypeOK, LoopInvariant, U
  <2>2. product' = product /\ divisor' = divisor /\ product \in Nat
    BY <2>1 DEF Next, Direct, StartLoop, AddTerm, Double, vars, arguments, product
  <2> DEFINE term == Value(add_quotient, add_remainder)
             total == Value(result_quotient, result_remainder)
  <2>3. term \in Nat /\ total \in Nat
    BY <2>1 DEF Value
  <2>4. CASE AddTerm
    <3>1. pc = "add" /\ factor % 2 = 1
      BY <2>4 DEF AddTerm
    <3>2. total + factor * term = product
      BY <2>1, <3>1 DEF LoopInvariant, Pending, Value
    <3>3. factor * term >= term
      BY <2>1, <2>3, <3>1
    <3>4. total + term <= product
      BY <2>1, <2>3, <3>2, <3>3
    <3>5. total + term >= (Max + 1) * divisor
      <4>1. CASE result_quotient > Max - add_quotient
        <5>1. result_quotient + add_quotient >= Max + 1
          BY <2>1, <4>1
        <5>2. (result_quotient + add_quotient) * divisor >= (Max + 1) * divisor
          BY <2>1, <5>1
        <5>3. total + term = (result_quotient + add_quotient) * divisor + (result_remainder + add_remainder)
          BY <2>1, Sum DEF Value
        <5> QED
          BY <2>1, <5>2, <5>3
      <4>2. CASE result_quotient <= Max - add_quotient
        <5>1. result_quotient + add_quotient \in U
          BY <2>1, <4>2 DEF U
        <5>2. Carries(result_remainder, add_remainder) /\ result_quotient + add_quotient = Max
          BY <2>1, <2>4, <4>2, <5>1, WrapIs DEF AddTerm
        <5>3. result_remainder + add_remainder >= divisor
          BY <2>1, <5>2, Sum
        <5>4. total + term = (Max + 1) * divisor + (result_remainder + add_remainder - divisor)
          BY <2>1, <5>2, <5>3, Sum DEF Value
        <5> QED
          BY <2>1, <5>3, <5>4
      <4> QED
        BY <2>1, <4>1, <4>2
    <3> QED
      <4>1. product >= (Max + 1) * divisor
        BY <2>1, <2>2, <2>3, <3>4, <3>5
      <4>2. product \div divisor >= Max + 1
        BY <2>1, <2>2, <4>1, QuotientAtLeast
      <4> QED
        BY <2>1, <2>2, <4>2, DivModIs
  <2>5. CASE Double
    <3> DEFINE carry == IF Carries(add_remainder, add_remainder) THEN 1 ELSE 0
    <3>1. pc = "double" /\ factor # 0 /\ TooLarge(carry)
      BY <2>5 DEF Double, LoopInvariant
    <3>2. total + 2 * factor * term = product
      BY <2>1, <3>1 DEF LoopInvariant, Pending, Value
    <3>3. 2 * factor * term >= term + term
      BY <2>1, <2>3, <3>1
    <3>4. term + term <= product
      BY <2>1, <2>2, <2>3, <3>2, <3>3
    <3>5. add_quotient + add_quotient + carry >= Max + 1
      <4>1. add_quotient >= ((Max - carry) \div 2) + 1
        BY <2>1, <3>1 DEF TooLarge
      <4>2. 2 * ((Max - carry) \div 2) + 1 >= Max - carry
        BY <2>1
      <4> QED
        BY <2>1, <4>1, <4>2
    <3>6. term + term >= (add_quotient + add_quotient + carry) * divisor
      <4>1. CASE add_remainder + add_remainder >= divisor
        BY <2>1, <4>1, Sum DEF Value
      <4>2. CASE add_remainder + add_remainder < divisor
        BY <2>1, <4>2, Sum DEF Value
      <4> QED
        BY <2>1, <4>1, <4>2
    <3>7. (add_quotient + add_quotient + carry) * divisor >= (Max + 1) * divisor
      BY <2>1, <3>5
    <3> QED
      <4>1. product >= (Max + 1) * divisor
        BY <2>1, <2>2, <2>3, <3>4, <3>6, <3>7
      <4>2. product \div divisor >= Max + 1
        BY <2>1, <2>2, <4>1, QuotientAtLeast
      <4> QED
        BY <2>1, <2>2, <4>2, DivModIs
  <2>6. CASE UNCHANGED vars
    BY <2>2, <2>6 DEF vars, OverflowIsReal
  <2> QED
    BY <2>4, <2>5, <2>6 DEF Next, Direct, StartLoop
<1> QED
  BY <1>1, <1>2, Inductive, PTL DEF Spec

LEMMA RoundedUp ==
  ASSUME NEW x \in Nat, NEW d \in Nat, d # 0, x # 0, x <= Max,
         NEW u, u = IF x % d # 0 THEN Wrap(x \div d + 1) ELSE x \div d
  PROVE  u \in Nat \ {0} /\ u * d >= x /\ (u - 1) * d < x
<1> DEFINE q == x \div d
           r == x % d
<1>1. q \in Nat /\ r \in Nat /\ x = q * d + r /\ r < d
  BY DivModIs
<1>2. Max \in Nat
  BY WidthAssumption
<1>3. u = IF r # 0 THEN Wrap(q + 1) ELSE q
  OBVIOUS
<1> HIDE DEF q, r
<1>4. CASE r # 0
  <2>1. q + 1 \in U
    <3>1. d >= 2
      BY <1>1, <1>4
    <3>2. q * d >= q * 2
      BY <1>1, <3>1
    <3>3. q * 2 + 1 <= Max
      BY <1>1, <1>2, <1>4, <3>2
    <3> QED
      BY <1>1, <1>2, <3>3 DEF U
  <2>2. u = q + 1
    BY <1>3, <1>4, <2>1, WrapIs
  <2>3. u * d = q * d + d /\ (u - 1) * d = q * d
    <3>1. u - 1 = q
      BY <1>1, <2>2
    <3>2. (q + 1) * d = q * d + d
      BY <1>1
    <3> QED
      BY <2>2, <3>1, <3>2
  <2> QED
    BY <1>1, <1>4, <2>2, <2>3
<1>5. CASE r = 0
  <2>1. u = q /\ u * d = x
    BY <1>1, <1>3, <1>5
  <2>2. q # 0
    BY <1>1, <1>5
  <2>3. (u - 1) * d = x - d
    BY <1>1, <2>1, <2>2
  <2> QED
    BY <1>1, <2>1, <2>2, <2>3
<1> QED
  BY <1>4, <1>5

\* The boundary of a partition is the next one, neither earlier nor later, for
\* every cycle and every number of partitions.
THEOREM BoundaryAlwaysNext == Spec => []BoundaryIsNext
<1>1. TypeOK /\ LoopInvariant => BoundaryIsNext
  <2> SUFFICES ASSUME TypeOK, LoopInvariant, pc = "done", multiplicand < divisor, multiplier # 0
               PROVE  /\ result_quotient < multiplier
                      /\ units_until_next > 0
                      /\ ((multiplicand + units_until_next) * multiplier) \div divisor > result_quotient
                      /\ ((multiplicand + units_until_next - 1) * multiplier) \div divisor = result_quotient
    BY DEF BoundaryIsNext
  <2>1. /\ result_quotient \in Nat /\ result_remainder \in Nat /\ divisor \in Nat /\ divisor # 0
        /\ result_remainder < divisor /\ multiplicand \in Nat /\ multiplier \in Nat /\ divisor <= Max
        /\ Max \in Nat
    BY WidthAssumption DEF TypeOK, LoopInvariant, U
  <2>2. result_quotient * divisor + result_remainder = multiplicand * multiplier
    <3>1. Pending = 0
      BY DEF Pending
    <3> QED
      BY <2>1, <3>1 DEF LoopInvariant, product
  <2> DEFINE u == units_until_next
             distance == divisor - result_remainder
  <2>3. distance \in Nat /\ distance # 0 /\ distance <= Max
    BY <2>1
  <2>4. u = IF distance % multiplier # 0 THEN Wrap(distance \div multiplier + 1) ELSE distance \div multiplier
    BY DEF units_until_next
  <2> HIDE DEF u
  <2>5. u \in Nat \ {0} /\ u * multiplier >= distance /\ (u - 1) * multiplier < distance
    <3> HIDE DEF distance
    <3> QED
      BY <2>1, <2>3, <2>4, RoundedUp
  <2>6. result_quotient < multiplier
    <3>1. multiplicand * multiplier < divisor * multiplier
      BY <2>1
    <3>2. CASE result_quotient >= multiplier
      <4>1. result_quotient * divisor >= multiplier * divisor
        BY <2>1, <3>2
      <4> QED
        BY <2>1, <2>2, <3>1, <4>1
    <3> QED
      BY <2>1, <3>2
  <2>7. ((multiplicand + u) * multiplier) \div divisor > result_quotient
    <3>1. (multiplicand + u) * multiplier = multiplicand * multiplier + u * multiplier
      BY <2>1, <2>5
    <3>2. (result_quotient + 1) * divisor = result_quotient * divisor + divisor
      BY <2>1
    <3>3. (multiplicand + u) * multiplier >= (result_quotient + 1) * divisor
      BY <2>1, <2>2, <2>5, <3>1, <3>2
    <3>4. (multiplicand + u) * multiplier \in Nat
      BY <2>1, <2>5
    <3>5. ((multiplicand + u) * multiplier) \div divisor >= result_quotient + 1
      BY <2>1, <3>3, <3>4, QuotientAtLeast
    <3> QED
      BY <2>1, <3>4, <3>5, DivModIs
  <2>8. ((multiplicand + u - 1) * multiplier) \div divisor = result_quotient
    <3> DEFINE rest == result_remainder + (u - 1) * multiplier
    <3>1. (u - 1) * multiplier \in Nat
      BY <2>1, <2>5
    <3>2. rest \in Nat /\ rest < divisor
      BY <2>1, <2>5, <3>1
    <3>3. (multiplicand + u - 1) * multiplier = multiplicand * multiplier + (u - 1) * multiplier
      BY <2>1, <2>5
    <3>4. (multiplicand + u - 1) * multiplier = result_quotient * divisor + rest
      BY <2>1, <2>2, <3>1, <3>3
    <3> HIDE DEF rest
    <3> QED
      BY <2>1, <3>2, <3>4, DivModUnique
  <2> QED
    BY <2>1, <2>5, <2>6, <2>7, <2>8 DEF u
<1> QED
  BY <1>1, Inductive, PTL

---------------------------------------------------------------------------------
(* The checked and saturating operations, and the deadlines made of them.    *)
\* A product is larger where one factor is not less and the other is.
LEMMA TimesMonotone ==
  ASSUME NEW a \in Nat, NEW b \in Nat, NEW d \in Nat, a <= b
  PROVE  a * d <= b * d /\ a * d \in Nat /\ b * d \in Nat
OBVIOUS

LEMMA ThreeTimes ==
  ASSUME NEW a \in Nat, NEW b \in Nat, NEW c \in Nat, NEW d \in Nat
  PROVE  (a + b + c) * d = a * d + b * d + c * d
OBVIOUS

\* The guard of the checked product, which divides, against the product itself.
LEMMA GuardIsExact ==
  ASSUME NEW left \in Nat, NEW right \in Nat, NEW m \in Nat, left # 0
  PROVE  (right > m \div left) <=> (left * right > m)
<1> DEFINE q == m \div left
<1>1. q \in Nat /\ m = q * left + (m % left) /\ m % left \in Nat /\ m % left < left
  BY DivModIs
<1>2. left * right = right * left /\ (q + 1) * left = q * left + left
  BY <1>1
<1>3. CASE right > q
  <2>1. (q + 1) * left <= right * left
    BY <1>1, <1>3, TimesMonotone
  <2> QED
    BY <1>1, <1>2, <1>3, <2>1
<1>4. CASE right <= q
  <2>1. right * left <= q * left
    BY <1>1, <1>4, TimesMonotone
  <2> QED
    BY <1>1, <1>2, <1>4, <2>1
<1> QED
  BY <1>1, <1>3, <1>4

\* Checked sums, differences and products of unsigned integers tell exactly
\* whether the result fits and return it; saturating ones stop at the largest
\* (src/arithmetic.c, src/core.c).
THEOREM UnsignedAlwaysExact ==
  ASSUME NEW a \in U, NEW b \in U
  PROVE  UnsignedIsExact(a, b)
<1>1. a \in Nat /\ b \in Nat /\ a <= Max /\ b <= Max /\ Max \in Nat
  BY WidthAssumption DEF U
<1>2. IsChecked(u64_add_checked(a, b), a + b, U)
  BY <1>1 DEF IsChecked, u64_add_checked, U
<1>3. IsChecked(u64_subtract_checked(a, b), a - b, U)
  BY <1>1 DEF IsChecked, u64_subtract_checked, U
<1>4. /\ IsChecked(u64_multiply_checked(a, b), a * b, U)
      /\ u64_multiply_saturating(a, b) = Clamped(a * b, 0, Max)
  <2>1. a * b \in Nat
    BY <1>1
  <2>2. a = 0 => a * b = 0
    BY <1>1
  <2>3. a # 0 => (b > Max \div a <=> a * b > Max)
    BY <1>1, GuardIsExact
  <2> QED
    BY <1>1, <2>1, <2>2, <2>3
    DEF IsChecked, u64_multiply_checked, u64_multiply_saturating, Clamped, U
<1>5. IsChecked(u64_counter_delta(a, b), a - b, U)
  BY <1>1 DEF IsChecked, u64_counter_delta, U
<1>6. u64_add_saturating(a, b) = Clamped(a + b, 0, Max)
  BY <1>1 DEF u64_add_saturating, Clamped
<1> QED
  BY <1>2, <1>3, <1>4, <1>5, <1>6 DEF UnsignedIsExact

LEMMA SignedHalves ==
  /\ IntMax \in Nat /\ IntMin \in Int /\ IntMin = -(IntMax + 1)
  /\ \A x \in S : x \in Int /\ IntMin <= x /\ x <= IntMax
  /\ \A x \in Int : IntMin <= x /\ x <= IntMax => x \in S
BY WidthAssumption DEF IntMax, IntMin, S

\* A quotient of C from that of the magnitudes.
LEMMA QuotIs ==
  ASSUME NEW x \in Nat, NEW y \in Nat, y # 0
  PROVE  /\ Quot(x, y) = x \div y
         /\ Quot(x, -y) = -(x \div y)
         /\ x # 0 => Quot(-x, y) = -(x \div y)
<1>1. Quot(x, y) = x \div y
  BY DEF Quot
<1>2. Quot(x, -y) = -(x \div y)
  BY DEF Quot
<1>3. x # 0 => Quot(-x, y) = -(x \div y)
  BY DEF Quot
<1> QED
  BY <1>1, <1>2, <1>3

LEMMA FloorIsUnique ==
  ASSUME NEW a \in Int, NEW d \in Nat, NEW q \in Int, NEW r \in Nat, r < d, a = q * d + r
  PROVE  a \div d = q /\ a % d = r
OBVIOUS

\* The four guards of the signed product, which divide, against the product.
LEMMA SignedGuardIsExact ==
  ASSUME NEW a \in S, NEW b \in S
  PROVE  ProductTooLarge(a, b) <=> (a * b > IntMax \/ a * b < IntMin)
<1> DEFINE H == IntMax
           L == IntMin
<1>1. H \in Nat /\ H + 1 \in Nat /\ H + 1 # 0 /\ L = -(H + 1) /\ a \in Int /\ b \in Int
  BY SignedHalves
<1> HIDE DEF H, L
<1>2. CASE a > 0 /\ b > 0
  <2>1. (a > H \div b) <=> (b * a > H)
    BY <1>1, <1>2, GuardIsExact
  <2>2. Quot(H, b) = H \div b
    BY <1>1, <1>2, QuotIs
  <2>3. a * b = b * a /\ a * b > 0 /\ a * b \in Int
    BY <1>1, <1>2
  <2>4. ProductTooLarge(a, b) <=> a > Quot(H, b)
    BY <1>1, <1>2 DEF ProductTooLarge, H
  <2>5. ProductTooLarge(a, b) <=> a * b > H
    BY <2>1, <2>2, <2>3, <2>4
  <2>6. ~(a * b < L)
    BY <1>1, <2>3
  <2> QED
    BY <2>5, <2>6 DEF H, L
<1>3. CASE a > 0 /\ b < 0
  <2> DEFINE c == -b
             p == a * c
  <2>1. c \in Nat /\ c # 0 /\ a \in Nat /\ a # 0 /\ b = -c
    BY <1>1, <1>3
  <2>2. p \in Nat /\ p > 0 /\ a * b = -p
    BY <2>1
  <2>3. (c > (H + 1) \div a) <=> (p > H + 1)
    <3> HIDE DEF c
    <3> QED
      BY <1>1, <2>1, GuardIsExact
  <2>4. Quot(L, a) = -((H + 1) \div a) /\ (H + 1) \div a \in Nat
    BY <1>1, <2>1, QuotIs, DivModIs
  <2>5. ProductTooLarge(a, b) <=> b < Quot(L, a)
    BY <1>1, <1>3 DEF ProductTooLarge, L
  <2> HIDE DEF c, p
  <2>6. (b < Quot(L, a)) <=> (c > (H + 1) \div a)
    <3> DEFINE z == (H + 1) \div a
    <3> HIDE DEF z
    <3>1. (b < -z) <=> (c > z)
      BY <2>1, <2>4 DEF z
    <3> QED
      BY <2>4, <3>1 DEF z
  <2>7. (p > H + 1) <=> (a * b < L)
    BY <1>1, <2>2
  <2>8. ~(a * b > H)
    BY <1>1, <2>2
  <2> QED
    BY <2>3, <2>5, <2>6, <2>7, <2>8 DEF H, L
<1>4. CASE a < 0 /\ b > 0
  <2> DEFINE c == -a
             p == b * c
  <2>1. c \in Nat /\ c # 0 /\ b \in Nat /\ b # 0 /\ a = -c
    BY <1>1, <1>4
  <2>2. p \in Nat /\ p > 0 /\ a * b = -p
    BY <2>1
  <2>3. (c > (H + 1) \div b) <=> (p > H + 1)
    <3> HIDE DEF c
    <3> QED
      BY <1>1, <2>1, GuardIsExact
  <2>4. Quot(L, b) = -((H + 1) \div b) /\ (H + 1) \div b \in Nat
    BY <1>1, <2>1, QuotIs, DivModIs
  <2>5. ProductTooLarge(a, b) <=> a < Quot(L, b)
    BY <1>1, <1>4 DEF ProductTooLarge, L
  <2> HIDE DEF c, p
  <2>6. (a < Quot(L, b)) <=> (c > (H + 1) \div b)
    <3> DEFINE z == (H + 1) \div b
    <3> HIDE DEF z
    <3>1. (a < -z) <=> (c > z)
      BY <2>1, <2>4 DEF z
    <3> QED
      BY <2>4, <3>1 DEF z
  <2>7. (p > H + 1) <=> (a * b < L)
    BY <1>1, <2>2
  <2>8. ~(a * b > H)
    BY <1>1, <2>2
  <2> QED
    BY <2>3, <2>5, <2>6, <2>7, <2>8 DEF H, L
<1>5. CASE a < 0 /\ b < 0
  <2> DEFINE c == -a
             d == -b
             p == d * c
  <2>1. c \in Nat /\ c # 0 /\ d \in Nat /\ d # 0 /\ a = -c /\ b = -d
    BY <1>1, <1>5
  <2>2. p \in Nat /\ p > 0 /\ a * b = p
    BY <2>1
  <2>3. (c > H \div d) <=> (p > H)
    <3> HIDE DEF c, d
    <3> QED
      BY <1>1, <2>1, GuardIsExact
  <2>4. Quot(H, b) = -(H \div d) /\ H \div d \in Nat
    <3> HIDE DEF c, d
    <3>1. Quot(H, -d) = -(H \div d)
      BY <1>1, <2>1, QuotIs
    <3> QED
      BY <1>1, <2>1, <3>1, DivModIs
  <2>5. ProductTooLarge(a, b) <=> a < Quot(H, b)
    BY <1>1, <1>5 DEF ProductTooLarge, H
  <2> HIDE DEF c, d, p
  <2>6. (a < Quot(H, b)) <=> (c > H \div d)
    <3> DEFINE z == H \div d
    <3> HIDE DEF z
    <3>1. (a < -z) <=> (c > z)
      BY <2>1, <2>4 DEF z
    <3> QED
      BY <2>4, <3>1 DEF z
  <2>7. ~(a * b < L)
    BY <1>1, <2>2
  <2> QED
    BY <2>2, <2>3, <2>5, <2>6, <2>7 DEF H, L
<1>6. CASE a = 0 \/ b = 0
  <2>1. a * b = 0
    BY <1>1, <1>6
  <2>2. ~ProductTooLarge(a, b)
    BY <1>1, <1>6 DEF ProductTooLarge
  <2> QED
    BY <1>1, <2>1, <2>2 DEF H, L
<1> QED
  BY <1>1, <1>2, <1>3, <1>4, <1>5, <1>6

\* Checked signed sums and products tell exactly whether the result fits and
\* return it, saturating ones stop at the end they pass, and the floored
\* quotient and remainder are the mathematical ones (src/arithmetic.c).
THEOREM SignedAlwaysExact ==
  ASSUME NEW a \in S, NEW b \in S
  PROVE  SignedIsExact(a, b)
<1>1. /\ IntMax \in Nat /\ IntMin \in Int /\ IntMin = -(IntMax + 1)
      /\ a \in Int /\ b \in Int /\ a + b \in Int /\ a - b \in Int /\ a * b \in Int
      /\ IntMin <= a /\ a <= IntMax /\ IntMin <= b /\ b <= IntMax
      /\ \A x \in Int : x \in S <=> IntMin <= x /\ x <= IntMax
  BY SignedHalves
<1>2. (SumTooLarge(a, b) <=> a + b > IntMax) /\ (SumTooSmall(a, b) <=> a + b < IntMin)
  BY <1>1 DEF SumTooLarge, SumTooSmall
<1>3. IsChecked(i64_add_checked(a, b), a + b, S)
  BY <1>1, <1>2 DEF IsChecked, i64_add_checked
<1>4. i64_add_saturating(a, b) = Clamped(a + b, IntMin, IntMax)
  <2>1. a + b # Overflow
    BY <1>1, OverflowAssumption
  <2>2. i64_add_checked(a, b) # Overflow <=> IntMin <= a + b /\ a + b <= IntMax
    BY <1>1, <1>2, <2>1 DEF i64_add_checked
  <2> QED
    BY <1>1, <2>2 DEF i64_add_saturating, Clamped
<1>5. IsChecked(i64_multiply_checked(a, b), a * b, S)
  BY <1>1, SignedGuardIsExact DEF IsChecked, i64_multiply_checked
<1>6. i64_multiply_saturating(a, b) = Clamped(a * b, IntMin, IntMax)
  <2>1. a * b # Overflow
    BY <1>1, OverflowAssumption
  <2>2. i64_multiply_checked(a, b) # Overflow <=> IntMin <= a * b /\ a * b <= IntMax
    BY <1>1, <2>1, SignedGuardIsExact DEF i64_multiply_checked
  <2>3. /\ (a < 0) # (b < 0) => a * b <= 0
        /\ (a < 0) = (b < 0) => a * b >= 0
    BY <1>1
  <2> QED
    BY <1>1, <2>2, <2>3 DEF i64_multiply_saturating, Clamped
<1>7. i64_subtract_saturating(a, b) = Clamped(a - b, IntMin, IntMax)
  BY <1>1 DEF i64_subtract_saturating, Clamped
<1>8. ASSUME b > 0
      PROVE  i64_floor_divmod(a, b) = [quotient |-> a \div b, remainder |-> a % b]
  <2>1. b \in Nat /\ b # 0
    BY <1>1, <1>8
  <2>2. CASE a >= 0
    <3>1. Quot(a, b) = a \div b
      BY <1>1, <2>1, <2>2, QuotIs
    <3>2. /\ a \div b \in Nat /\ a = (a \div b) * b + (a % b)
          /\ a % b \in Nat
      BY <1>1, <2>1, <2>2, DivModIs
    <3>3. b * (a \div b) = (a \div b) * b /\ (a \div b) * b \in Nat
      BY <2>1, <3>2
    <3>4. Rem(a, b) = a % b
      BY <1>1, <3>1, <3>2, <3>3 DEF Rem
    <3> QED
      BY <3>1, <3>2, <3>4 DEF i64_floor_divmod
  <2>3. CASE a < 0
    <3> DEFINE c == -a
               q == c \div b
               r == c % b
    <3>1. c \in Nat /\ c # 0 /\ a = -c
      BY <1>1, <2>3
    <3>2. q \in Nat /\ r \in Nat /\ r < b /\ c = q * b + r
      <4> HIDE DEF c
      <4> QED
        BY <2>1, <3>1, DivModIs
    <3>3. Quot(a, b) = -q
      <4> HIDE DEF c
      <4>1. Quot(-c, b) = -(c \div b)
        BY <2>1, <3>1, QuotIs
      <4> QED
        BY <3>1, <4>1
    <3> HIDE DEF c, q, r
    <3>4. Rem(a, b) = -r
      <4>1. b * (-q) = -(q * b) /\ q * b \in Nat
        BY <2>1, <3>2
      <4> QED
        BY <3>1, <3>2, <3>3, <4>1 DEF Rem
    <3>5. CASE r = 0
      <4>1. a = (-q) * b + 0
        BY <2>1, <3>1, <3>2, <3>5
      <4>2. a \div b = -q /\ a % b = 0
        BY <1>1, <2>1, <3>2, <4>1, FloorIsUnique
      <4> QED
        BY <3>3, <3>4, <3>5, <4>2 DEF i64_floor_divmod
    <3>6. CASE r > 0
      <4>1. (-q - 1) * b = -(q * b) - b /\ q * b \in Nat
        BY <2>1, <3>2
      <4>2. a = (-q - 1) * b + (b - r) /\ b - r \in Nat /\ b - r < b /\ -q - 1 \in Int
        BY <2>1, <3>1, <3>2, <3>6, <4>1
      <4>3. a \div b = -q - 1 /\ a % b = b - r
        BY <1>1, <2>1, <4>2, FloorIsUnique
      <4> QED
        BY <2>1, <3>2, <3>3, <3>4, <3>6, <4>3 DEF i64_floor_divmod
    <3> QED
      BY <3>2, <3>5, <3>6
  <2> QED
    BY <1>1, <2>2, <2>3
<1> QED
  BY <1>3, <1>4, <1>5, <1>6, <1>7, <1>8 DEF SignedIsExact

LEMMA SaturatingSum ==
  ASSUME NEW a \in U, NEW b \in U
  PROVE  u64_add_saturating(a, b) = IF a + b <= Max THEN a + b ELSE Max
BY WidthAssumption DEF u64_add_saturating, U

LEMMA SaturatingProduct ==
  ASSUME NEW a \in U, NEW b \in U
  PROVE  u64_multiply_saturating(a, b) = IF a * b <= Max THEN a * b ELSE Max
<1>1. a \in Nat /\ b \in Nat /\ Max \in Nat
  BY WidthAssumption DEF U
<1>2. CASE a = 0
  BY <1>1, <1>2 DEF u64_multiply_saturating
<1>3. CASE a # 0
  BY <1>1, <1>3, GuardIsExact DEF u64_multiply_saturating
<1> QED
  BY <1>2, <1>3

\* A periodic deadline moves to the first boundary of its cadence that is after
\* now, or to the last number there is when that boundary is beyond it
\* (infiltratr_periodic_deadline_advance of src/timing.c).
THEOREM DeadlineAlwaysNext ==
  ASSUME NEW deadline \in U, NEW now \in U, NEW interval \in U \ {0}
  PROVE  AdvancesToNext(deadline, now, interval)
<1> DEFINE next == periodic_deadline_advance(deadline, now, interval)
           Boundaries == {deadline + k * interval : k \in 1..(Max + 1)}
<1>1. deadline \in Nat /\ now \in Nat /\ interval \in Nat \ {0} /\ interval <= Max
      /\ Max \in Nat /\ deadline <= Max /\ now <= Max
  BY WidthAssumption DEF U
<1>2. SUFFICES
        ASSUME NEW steps \in 1..(Max + 1), deadline + steps * interval > now,
               \A k \in 1..(Max + 1) : deadline + k * interval > now => steps <= k,
               next = IF deadline + steps * interval <= Max
                        THEN deadline + steps * interval ELSE Max
        PROVE  AdvancesToNext(deadline, now, interval)
  <2>1. CASE deadline > now
    <3>1. deadline + 1 * interval > now /\ 1 * interval = interval /\ 1 \in 1..(Max + 1)
      BY <1>1, <2>1
    <3>2. next = IF deadline + interval <= Max THEN deadline + interval ELSE Max
      BY <2>1, SaturatingSum DEF periodic_deadline_advance
    <3> QED
      BY <1>1, <1>2, <3>1, <3>2
  <2>2. CASE deadline <= now
    <3> DEFINE late == now - deadline
               q == late \div interval
    <3>1. late \in Nat /\ late <= Max /\ now = deadline + late
      BY <1>1, <2>2
    <3>2. /\ q \in Nat /\ late = q * interval + (late % interval)
          /\ late % interval \in Nat /\ late % interval < interval
      <4> HIDE DEF late
      <4> QED
        BY <1>1, <3>1, DivModIs
    <3>3. q <= q * interval /\ q * interval \in Nat
      BY <1>1, <3>2
    <3>4. q <= late
      BY <3>2, <3>3, <3>1
    <3>5. (q + 1) * interval = q * interval + interval
      BY <1>1, <3>2
    <3>6. deadline + (q + 1) * interval > now
      BY <1>1, <3>1, <3>2, <3>3, <3>5
    <3>7. ASSUME NEW k \in 1..(Max + 1), deadline + k * interval > now
          PROVE  q + 1 <= k
      <4>1. CASE k <= q
        <5>1. k * interval <= q * interval
          BY <1>1, <3>2, <4>1, TimesMonotone
        <5> QED
          BY <1>1, <3>1, <3>2, <3>3, <3>7, <5>1
      <4> QED
        BY <3>2, <4>1
    <3>8. next = u64_add_saturating(deadline,
                   u64_multiply_saturating(interval, u64_add_saturating(q, 1)))
      BY <2>2, <1>1 DEF periodic_deadline_advance, Steps
    <3>9. 1 \in U /\ q \in U
      BY <1>1, <3>1, <3>2, <3>4, WidthAssumption DEF U
    <3>10. next = IF deadline + (q + 1) * interval <= Max
                    THEN deadline + (q + 1) * interval ELSE Max
      <4>1. CASE q + 1 <= Max
        <5>1. u64_add_saturating(q, 1) = q + 1 /\ q + 1 \in U
          BY <1>1, <3>2, <3>9, <4>1, SaturatingSum DEF U
        <5>2. /\ (q + 1) * interval \in Nat
              /\ interval * (q + 1) = (q + 1) * interval
          BY <1>1, <3>2
        <5>3. u64_multiply_saturating(interval, q + 1) =
                IF (q + 1) * interval <= Max THEN (q + 1) * interval ELSE Max
          BY <5>1, <5>2, SaturatingProduct
        <5>4. u64_multiply_saturating(interval, q + 1) \in U
          BY <1>1, <5>2, <5>3 DEF U
        <5>5. next = IF deadline + u64_multiply_saturating(interval, q + 1) <= Max
                       THEN deadline + u64_multiply_saturating(interval, q + 1) ELSE Max
          BY <3>8, <5>1, <5>4, SaturatingSum
        <5> HIDE DEF next, q
        <5> QED
          BY <1>1, <5>2, <5>3, <5>5
      <4>2. CASE q + 1 > Max
        <5>1. q = Max /\ late = Max /\ deadline = 0
          BY <1>1, <3>1, <3>2, <3>4, <4>2
        <5>2. u64_add_saturating(q, 1) = Max /\ Max \in U
          BY <1>1, <3>9, <4>2, SaturatingSum DEF U
        <5>3. interval * Max >= Max /\ interval * Max \in Nat
          BY <1>1
        <5>4. u64_multiply_saturating(interval, Max) = Max
          BY <1>1, <5>2, <5>3, SaturatingProduct
        <5>5. next = Max
          BY <1>1, <3>8, <5>1, <5>2, <5>4, SaturatingSum
        <5>6. (q + 1) * interval > Max /\ (q + 1) * interval \in Nat
          BY <1>1, <3>2, <3>3, <3>5, <5>1
        <5> QED
          BY <1>1, <5>1, <5>5, <5>6
      <4> QED
        BY <1>1, <3>2, <4>1, <4>2
    <3>11. q + 1 \in 1..(Max + 1)
      BY <1>1, <3>2, <3>4, <3>1
    <3> HIDE DEF q, next
    <3> QED
      BY <1>2, <3>6, <3>7, <3>10, <3>11
  <2> QED
    BY <1>1, <2>1, <2>2
<1>3. deadline + steps * interval \in Boundaries
  BY <1>2
<1>4. \A b \in Boundaries : b > now => deadline + steps * interval <= b
  <2> SUFFICES ASSUME NEW k \in 1..(Max + 1), deadline + k * interval > now
               PROVE  deadline + steps * interval <= deadline + k * interval
    OBVIOUS
  <2>1. steps <= k
    BY <1>2
  <2>2. steps * interval <= k * interval /\ steps * interval \in Nat /\ k * interval \in Nat
    BY <1>1, <2>1, TimesMonotone
  <2> QED
    BY <1>1, <2>2
<1>5. steps * interval \in Nat /\ \A b \in Boundaries : b \in Nat
  BY <1>1
<1>6. CASE deadline + steps * interval <= Max
  BY <1>2, <1>3, <1>4, <1>6 DEF AdvancesToNext
<1>7. CASE deadline + steps * interval > Max
  <2>1. next = Max
    BY <1>1, <1>2, <1>5, <1>7
  <2>2. ASSUME NEW b \in Boundaries, b > now
        PROVE  b > Max
    <3>1. deadline + steps * interval <= b /\ b \in Nat
      BY <1>4, <1>5, <2>2
    <3> HIDE DEF Boundaries
    <3> QED
      BY <1>1, <1>5, <1>7, <3>1
  <2> QED
    BY <2>1, <2>2 DEF AdvancesToNext
<1> QED
  BY <1>1, <1>5, <1>6, <1>7

\* Who sleeps for the milliseconds infiltratr_posix_deadline_remaining_milliseconds
\* gives does not wake before the deadline, nor a millisecond late; it refuses
\* only what has no representation (src/posix.c).
THEOREM SleeperAlwaysWakesInTime ==
  ASSUME NEW deadline \in [sec : Nat, nsec : Nat], Normalised(deadline),
         NEW now \in [sec : Nat, nsec : Nat], Normalised(now)
  PROVE  WakesInTime(deadline, now)
<1> DEFINE K == NsPerMs
           M == MsPerSecond
           N == NsPerSecond
           ms == deadline_remaining_milliseconds(deadline, now)
           borrow == IF deadline.nsec < now.nsec THEN 1 ELSE 0
           seconds == deadline.sec - now.sec - borrow
           ns == deadline.nsec - now.nsec + borrow * N
           fractional == FractionalMs(ns)
<1>1. /\ K \in Nat /\ K # 0 /\ M \in Nat /\ M # 0 /\ N \in Nat /\ N = M * K /\ Max \in Nat
      /\ deadline.sec \in Nat /\ deadline.nsec \in Nat /\ deadline.nsec < N
      /\ now.sec \in Nat /\ now.nsec \in Nat /\ now.nsec < N
  <2>1. K \in Nat /\ K # 0 /\ M \in Nat /\ M # 0 /\ Max \in Nat
    BY DeadlineAssumption, WidthAssumption
  <2>2. N \in Nat /\ N = M * K
    BY <2>1 DEF NsPerSecond
  <2> QED
    BY <2>1, <2>2 DEF Normalised
<1>2. /\ Instant(deadline) = deadline.sec * N + deadline.nsec
      /\ Instant(now) = now.sec * N + now.nsec
  BY DEF Instant
<1> HIDE DEF K, M, N
<1>3. CASE IsOver(deadline, now)
  <2>1. ms = 0
    BY <1>3 DEF deadline_remaining_milliseconds
  <2>2. deadline.sec * N + deadline.nsec <= now.sec * N + now.nsec
    <3>1. CASE deadline.sec = now.sec
      BY <1>1, <1>3, <3>1 DEF IsOver
    <3>2. CASE deadline.sec + 1 <= now.sec
      <4>1. (deadline.sec + 1) * N <= now.sec * N
        BY <1>1, <3>2, TimesMonotone
      <4>2. (deadline.sec + 1) * N = deadline.sec * N + N
        BY <1>1
      <4> QED
        BY <1>1, <4>1, <4>2
    <3> QED
      BY <1>1, <1>3, <3>1, <3>2 DEF IsOver
  <2>3. 0 * NsPerMs = 0 /\ Instant(now) \in Nat
    BY <1>1, <1>2 DEF K
  <2>4. Instant(now) + 0 * NsPerMs >= Instant(deadline)
    BY <1>1, <1>2, <2>2, <2>3
  <2>5. ms # Overflow
    BY <2>1, OverflowAssumption
  <2> QED
    BY <2>1, <2>4, <2>5 DEF WakesInTime
<1>4. CASE ~IsOver(deadline, now)
  <2>1. seconds \in Nat /\ ns \in Nat /\ ns < N
        /\ deadline.sec = now.sec + seconds + borrow /\ borrow \in {0, 1}
        /\ deadline.nsec + borrow * N = now.nsec + ns
    BY <1>1, <1>4 DEF IsOver
  <2>2. deadline.sec * N + deadline.nsec = now.sec * N + now.nsec + seconds * N + ns
    <3> HIDE DEF seconds, borrow, ns
    <3>1. (now.sec + seconds + borrow) * N = now.sec * N + seconds * N + borrow * N
      BY <1>1, <2>1, ThreeTimes
    <3> QED
      BY <1>1, <2>1, <3>1
  <2>3. /\ fractional \in Nat /\ fractional * K >= ns
        /\ fractional > 0 => (fractional - 1) * K < ns
        /\ fractional = 0 => ns = 0
    <3> DEFINE up == ns + K - 1
               f == up \div K
    <3>1. up \in Nat
      BY <1>1, <2>1
    <3>2. f \in Nat /\ up = f * K + (up % K) /\ up % K \in Nat /\ up % K < K
      <4> HIDE DEF up
      <4> QED
        BY <1>1, <3>1, DivModIs
    <3>3. fractional = f
      BY DEF FractionalMs, K
    <3>4. (f - 1) * K = f * K - K /\ f * K \in Nat
      BY <1>1, <3>2
    <3> HIDE DEF f, ns
    <3> QED
      BY <1>1, <2>1, <3>2, <3>3, <3>4
  <2> DEFINE total == seconds * M + fractional
  <2> HIDE DEF seconds, ns, fractional
  <2>4. /\ seconds * M \in Nat /\ seconds * N \in Nat /\ fractional * K \in Nat
        /\ (seconds * M) * K = seconds * N
    BY <1>1, <2>1, <2>3
  <2>5. total \in Nat /\ total * K = seconds * N + fractional * K
    BY <1>1, <2>1, <2>3, <2>4
  <2>6. (total - 1) * K = total * K - K /\ (fractional - 1) * K = fractional * K - K
    BY <1>1, <2>3, <2>5
  <2>7. /\ total * K >= seconds * N + ns
        /\ total > 0 => (total - 1) * K < seconds * N + ns
    <3>1. CASE fractional > 0
      BY <1>1, <2>1, <2>3, <2>4, <2>5, <2>6, <3>1
    <3>2. CASE fractional = 0
      BY <1>1, <2>1, <2>3, <2>4, <2>5, <2>6, <3>2
    <3> QED
      BY <2>3, <3>1, <3>2
  <2>8. ms = IF seconds > Max \div M \/ fractional > Max - seconds * M THEN Overflow ELSE total
    BY <1>4 DEF deadline_remaining_milliseconds, seconds, fractional, ns, M, N
  <2>9. (seconds > Max \div M) <=> (seconds * M > Max)
    <3>1. (seconds > Max \div M) <=> (M * seconds > Max)
      BY <1>1, <2>1, GuardIsExact
    <3>2. M * seconds = seconds * M
      BY <1>1, <2>1
    <3> QED
      BY <3>1, <3>2
  <2>10. (seconds > Max \div M \/ fractional > Max - seconds * M) <=> total > Max
    <3> DEFINE whole == seconds * M
    <3>1. whole \in Nat /\ total = whole + fractional
      BY <2>4
    <3>2. (seconds > Max \div M \/ fractional > Max - seconds * M)
            <=> (whole > Max \/ fractional > Max - whole)
      BY <2>9
    <3> HIDE DEF whole, total
    <3>3. (whole > Max \/ fractional > Max - whole) <=> total > Max
      BY <1>1, <2>3, <3>1
    <3> QED
      BY <3>2, <3>3
  <2>11. Instant(deadline) - Instant(now) = seconds * N + ns
         /\ Instant(now) \in Nat /\ Instant(deadline) = Instant(now) + seconds * N + ns
    BY <1>1, <1>2, <2>1, <2>2, <2>4
  <2>12. CASE total > Max
    <3>1. Max * K <= (total - 1) * K /\ Max * K \in Nat
      BY <1>1, <2>5, <2>12, TimesMonotone
    <3>2. Instant(deadline) - Instant(now) > Max * NsPerMs
      BY <1>1, <2>1, <2>4, <2>5, <2>6, <2>7, <2>11, <2>12, <3>1 DEF K
    <3> QED
      BY <2>8, <2>10, <2>12, <3>2 DEF WakesInTime
  <2>13. CASE total <= Max
    <3>1. ms = total /\ total # Overflow
      <4> HIDE DEF total, ms
      <4>1. ms = total
        BY <1>1, <2>5, <2>8, <2>10, <2>13
      <4>2. total # Overflow
        BY <2>5, OverflowAssumption
      <4> QED
        BY <4>1, <4>2
    <3>2. /\ Instant(now) + total * K >= Instant(deadline)
          /\ total > 0 => Instant(now) + (total - 1) * K < Instant(deadline)
      BY <1>1, <2>1, <2>4, <2>5, <2>6, <2>7, <2>11
    <3> QED
      BY <3>1, <3>2 DEF WakesInTime, K
  <2> QED
    BY <1>1, <2>5, <2>12, <2>13
<1> QED
  BY <1>3, <1>4

---------------------------------------------------------------------------------
(* Induction over the natural numbers, as a fact about sets.                      *)

LEMMA LessIsWellFounded ==
  \E R : IsWellFoundedOn(R, Nat) /\ \A x, y \in Nat : y < x => <<y, x>> \in R
<1>1. \A x, y \in Nat : y < x => <<y, x>> \in OpToRel(<, Nat)
  BY DEF OpToRel
<1> QED
  BY <1>1, NatLessThanWellFounded, Zenon

LEMMA Least ==
  ASSUME NEW T, T \subseteq Nat, T # {}
  PROVE  \E x \in T : \A y \in T : x <= y
<1>1. PICK R : IsWellFoundedOn(R, Nat) /\ \A x, y \in Nat : y < x => <<y, x>> \in R
  BY LessIsWellFounded
<1>2. PICK x \in T : \A y \in T : ~ (<<y, x>> \in R)
  BY <1>1, WFMin
<1>3. ASSUME NEW y \in T PROVE x <= y
  <2>1. x \in Nat /\ y \in Nat
    OBVIOUS
  <2>2. ~ (y < x)
    BY <1>1, <1>2, <2>1, Zenon
  <2> QED
    BY <2>1, <2>2
<1> QED
  BY <1>3

LEMMA SetInduction ==
  ASSUME NEW T, 0 \in T, \A n \in Nat : n \in T => n + 1 \in T
  PROVE  Nat \subseteq T
<1> DEFINE R == Nat \ T
<1>1. SUFFICES ASSUME R # {} PROVE FALSE
  OBVIOUS
<1>2. PICK x \in R : \A y \in R : x <= y
  BY <1>1, Least
<1>3. x # 0 /\ x - 1 \in Nat /\ x - 1 \notin R
  BY <1>2
<1> QED
  BY <1>2, <1>3

(* The growth of an array is a recursive function; it exists because what is still *)
(* missing shrinks at every doubling.                                              *)

LEMMA NextIs ==
  ASSUME NEW n \in U \ {0}, NEW required \in U, n < required
  PROVE  /\ NextCapacity(n, required) \in U \ {0} /\ n < NextCapacity(n, required)
         /\ NextCapacity(n, required) \in {required, 2 * n}
<1>1. n \in Nat /\ required \in Nat /\ Max \in Nat /\ n # 0 /\ n <= Max /\ required <= Max
  BY WidthAssumption DEF U
<1>2. n <= Max \div 2 => 2 * n <= Max
  BY <1>1
<1> QED
  BY <1>1, <1>2 DEF NextCapacity, U

GrowsOn(required, f, D) ==
  \A n \in D : f[n] = IF n >= required THEN n ELSE f[NextCapacity(n, required)]
\* The capacities that are enough, or lack k at most.
Lacking(required, k) == {n \in U \ {0} : n >= required \/ required - n <= k}

LEMMA GrownExists ==
  ASSUME NEW required \in U
  PROVE  \E f : f = [n \in U |-> IF n >= required THEN n ELSE f[NextCapacity(n, required)]]
<1>0. /\ required \in Nat /\ Max \in Nat /\ 0 \in U
      /\ \A n \in U : n \in Nat
  BY WidthAssumption DEF U
<1> DEFINE T == {k \in Nat : \E f \in [U -> U] : GrowsOn(required, f, Lacking(required, k))}
<1>1. 0 \in T
  <2>1. [n \in U |-> n] \in [U -> U]
    OBVIOUS
  <2>2. GrowsOn(required, [n \in U |-> n], Lacking(required, 0))
    BY <1>0 DEF GrowsOn, Lacking
  <2> QED
    BY <2>1, <2>2
<1>2. ASSUME NEW k \in Nat, k \in T PROVE k + 1 \in T
  <2>1. PICK f \in [U -> U] : GrowsOn(required, f, Lacking(required, k))
    BY <1>2
  <2> DEFINE next(n) == NextCapacity(n, required)
             h == [n \in U |-> IF n >= required \/ n = 0 THEN n ELSE f[next(n)]]
  <2>2. ASSUME NEW n \in U \ {0}, n < required PROVE next(n) \in U \ {0} /\ n < next(n)
    BY <2>2, NextIs
  <2>3. h \in [U -> U]
    <3>1. ASSUME NEW n \in U PROVE IF n >= required \/ n = 0 THEN n \in U ELSE f[next(n)] \in U
      <4>1. n < required \/ n >= required
        BY <1>0
      <4> HIDE DEF next
      <4>2. n < required /\ n # 0 => next(n) \in U
        BY <2>2
      <4> QED
        BY <4>1, <4>2
    <3> HIDE DEF next
    <3> QED
      BY <3>1
  <2>4. ASSUME NEW n \in Lacking(required, k) PROVE h[n] = f[n]
    BY <1>0, <2>1, <2>4 DEF GrowsOn, Lacking
  <2>5. ASSUME NEW n \in Lacking(required, k + 1), n < required PROVE h[n] = h[next(n)]
    <3>1. n \in U \ {0} /\ required - n <= k + 1 /\ h[n] = f[next(n)]
      BY <1>0, <2>5 DEF Lacking
    <3>2. next(n) \in U \ {0} /\ n < next(n)
      BY <2>2, <2>5, <3>1
    <3> HIDE DEF next, h
    <3>3. next(n) \in Lacking(required, k)
      <4>1. PICK m \in U \ {0} : m = next(n)
        BY <3>2
      <4>2. required - m <= k
        BY <1>0, <3>1, <3>2, <4>1
      <4> QED
        BY <4>1, <4>2 DEF Lacking
    <3> QED
      BY <2>4, <3>1, <3>3
  <2>6. \A n \in Lacking(required, k + 1) : n >= required => h[n] = n
    BY DEF Lacking
  <2> HIDE DEF h
  <2>7. GrowsOn(required, h, Lacking(required, k + 1))
    <3> SUFFICES ASSUME NEW n \in Lacking(required, k + 1)
                 PROVE  h[n] = IF n >= required THEN n ELSE h[next(n)]
      BY DEF GrowsOn
    <3>1. n \in Nat
      BY <1>0 DEF Lacking
    <3> HIDE DEF next
    <3> QED
      BY <1>0, <2>5, <2>6, <3>1
  <2> QED
    BY <2>3, <2>7
<1>3. required \in T
  <2> HIDE DEF T
  <2>1. Nat \subseteq T
    BY <1>1, <1>2, SetInduction
  <2> QED
    BY <1>0, <2>1
<1>4. PICK f \in [U -> U] : GrowsOn(required, f, Lacking(required, required))
  BY <1>3
<1> DEFINE g == [n \in U |-> IF n = 0 THEN 0 ELSE f[n]]
<1>5. g = [n \in U |-> IF n >= required THEN n ELSE g[NextCapacity(n, required)]]
  <2> SUFFICES ASSUME NEW n \in U
               PROVE  g[n] = IF n >= required THEN n ELSE g[NextCapacity(n, required)]
    OBVIOUS
  <2>1. CASE n = 0
    <3>1. NextCapacity(n, required) = 0
      BY <1>0, <2>1 DEF NextCapacity
    <3> QED
      BY <1>0, <2>1, <3>1
  <2>2. CASE n # 0
    <3>1. n \in Lacking(required, required)
      BY <1>0, <2>2 DEF Lacking
    <3>2. f[n] = IF n >= required THEN n ELSE f[NextCapacity(n, required)]
      BY <1>4, <3>1 DEF GrowsOn
    <3>3. n < required => NextCapacity(n, required) \in U \ {0}
      BY <2>2, NextIs
    <3>4. n < required \/ n >= required
      BY <1>0
    <3>5. CASE n < required
      <4>1. ~ (n >= required)
        BY <1>0, <3>5
      <4> QED
        BY <2>2, <3>2, <3>3, <3>5, <4>1
    <3>6. CASE n >= required
      BY <2>2, <3>2, <3>6
    <3> QED
      BY <3>4, <3>5, <3>6
  <2> QED
    BY <2>1, <2>2
<1> QED
  BY <1>5

\* What the doubling arrives at: enough, and less than twice that, unless it was
\* enough before.
LEMMA GrownIs ==
  ASSUME NEW start \in U \ {0}, NEW required \in U
  PROVE  /\ Grown(start, required) \in U
         /\ IF start >= required THEN Grown(start, required) = start
            ELSE Grown(start, required) >= required /\ Grown(start, required) < 2 * required
<1>0. required \in Nat /\ Max \in Nat /\ \A n \in U : n \in Nat /\ n <= Max
  BY WidthAssumption DEF U
<1> DEFINE g == CHOOSE f : f = [n \in U |-> IF n >= required THEN n ELSE f[NextCapacity(n, required)]]
<1>1. Grown(start, required) = g[start]
  BY DEF Grown
<1>2. g = [n \in U |-> IF n >= required THEN n ELSE g[NextCapacity(n, required)]]
  BY GrownExists
<1> HIDE DEF g
<1>3. \A n \in U : g[n] = IF n >= required THEN n ELSE g[NextCapacity(n, required)]
  BY <1>2
<1> DEFINE IsEnough(n) == g[n] \in U /\ g[n] >= required /\ (n < required => g[n] < 2 * required)
           T == {k \in Nat : \A n \in Lacking(required, k) : IsEnough(n)}
<1>4. ASSUME NEW n \in U, n >= required PROVE g[n] = n /\ IsEnough(n)
  BY <1>0, <1>3, <1>4
<1>5. 0 \in T
  <2>1. \A n \in Lacking(required, 0) : n \in U /\ n >= required
    BY <1>0 DEF Lacking
  <2> HIDE DEF IsEnough
  <2> QED
    BY <1>4, <2>1
<1>6. ASSUME NEW k \in Nat, k \in T PROVE k + 1 \in T
  <2>1. ASSUME NEW n \in Lacking(required, k + 1), n < required PROVE IsEnough(n)
    <3> DEFINE next == NextCapacity(n, required)
    <3>1. n \in U \ {0} /\ n \in Nat /\ required - n <= k + 1 /\ ~ (n >= required)
      BY <1>0, <2>1 DEF Lacking
    <3>2. next \in U \ {0} /\ n < next /\ next \in {required, 2 * n}
      BY <2>1, <3>1, NextIs
    <3>3. g[n] = g[next]
      BY <1>3, <3>1
    <3> HIDE DEF next
    <3>4. next \in Lacking(required, k)
      BY <1>0, <3>1, <3>2 DEF Lacking
    <3>5. IsEnough(next)
      BY <1>6, <3>4
    <3>6. CASE next < required
      BY <3>3, <3>5, <3>6
    <3>7. CASE next >= required
      <4>1. g[next] = next
        BY <1>4, <3>2, <3>7
      <4>2. next < 2 * required
        BY <1>0, <2>1, <3>1, <3>2
      <4> QED
        BY <3>3, <3>5, <4>1, <4>2
    <3>8. next \in Nat
      BY <1>0, <3>2
    <3> QED
      BY <1>0, <3>6, <3>7, <3>8
  <2>2. ASSUME NEW n \in Lacking(required, k + 1) PROVE IsEnough(n)
    <3>1. n \in U /\ (n < required \/ n >= required)
      BY <1>0 DEF Lacking
    <3> HIDE DEF IsEnough
    <3> QED
      BY <1>4, <2>1, <3>1
  <2> QED
    BY <2>2
<1>7. required \in T
  <2> HIDE DEF T
  <2>1. Nat \subseteq T
    BY <1>5, <1>6, SetInduction
  <2> QED
    BY <1>0, <2>1
<1>8. start \in Lacking(required, required)
  BY <1>0 DEF Lacking
<1>9. IsEnough(start)
  BY <1>7, <1>8
<1>10. start < required \/ start >= required
  BY <1>0
<1> QED
  BY <1>1, <1>4, <1>9, <1>10

\* An array that is reserved has room for what is required, keeps what it had, and
\* is not twice as large as need be; it is refused only where twice the need could
\* not be allocated either (infiltratr_array_reserve of src/arithmetic.c).
LEMMA ReservesAlwaysEnough ==
  ASSUME NEW capacity \in U, NEW element_size \in U \ {0}, NEW required \in U, NEW initial \in U
  PROVE  ReservesEnough(capacity, element_size, required, initial)
<1> DEFINE first == IF capacity = 0 THEN Clamped(initial, 1, Max) ELSE capacity
           next == Grown(first, required)
           new == array_reserve(capacity, element_size, required, initial)
<1>1. /\ Max \in Nat /\ Max >= 1 /\ capacity \in Nat /\ capacity <= Max /\ required \in Nat /\ required <= Max
      /\ initial \in Nat /\ initial <= Max /\ element_size \in Nat /\ element_size # 0
      /\ \A n \in U : n \in Nat /\ n <= Max
  BY WidthAssumption DEF U
<1>2. first \in U \ {0} /\ first \in Nat /\ (capacity # 0 => first = capacity)
  BY <1>1 DEF Clamped, U
<1>3. first = IF capacity # 0 THEN capacity ELSE IF initial > 0 THEN initial ELSE 1
  BY <1>1 DEF Clamped
<1>4. new = IF required <= capacity THEN capacity
            ELSE IF u64_multiply_checked(next, element_size) = Overflow THEN Overflow ELSE next
  <2> HIDE DEF first
  <2> QED
    BY <1>3, Zenon DEF array_reserve
<1>5. SUFFICES IF new = Overflow THEN Clamped(2 * required, first, 2 * Max) * element_size > Max
               ELSE /\ new >= required /\ new >= capacity /\ new <= Max
                    /\ new < 2 * required \/ new \in {capacity, first}
                    /\ new > capacity => new * element_size <= Max
  BY DEF ReservesEnough
<1> HIDE DEF first, new
<1>6. CASE required <= capacity
  <2>1. new = capacity /\ new # Overflow
    BY <1>1, <1>4, <1>6, OverflowAssumption
  <2> QED
    BY <1>1, <1>6, <2>1
<1>7. CASE required > capacity
  <2>1. /\ next \in U /\ next \in Nat /\ next <= Max
        /\ IF first >= required THEN next = first ELSE next >= required /\ next < 2 * required
    BY <1>1, <1>2, GrownIs
  <2> HIDE DEF next
  <2>2. next >= required /\ next > capacity /\ next # 0
    BY <1>1, <1>2, <1>7, <2>1
  <2>3. next * element_size \in Nat /\ next * element_size # Overflow /\ next # Overflow
    <3>1. next * element_size \in Nat
      BY <1>1, <2>1
    <3> QED
      BY <2>1, <3>1, OverflowAssumption
  <2>4. u64_multiply_checked(next, element_size) = Overflow <=> next * element_size > Max
    BY <1>1, <2>1, <2>2, <2>3, GuardIsExact DEF u64_multiply_checked
  <2>5. CASE next * element_size > Max
    <3> DEFINE twice == Clamped(2 * required, first, 2 * Max)
    <3>1. twice \in Nat /\ next <= twice
      BY <1>1, <1>2, <2>1 DEF Clamped
    <3> HIDE DEF twice
    <3>2. next * element_size <= twice * element_size /\ twice * element_size \in Nat
      BY <1>1, <2>1, <3>1, TimesMonotone
    <3>3. twice * element_size > Max
      BY <1>1, <2>3, <2>5, <3>2
    <3>4. new = Overflow
      BY <1>1, <1>4, <1>7, <2>4, <2>5
    <3> QED
      BY <3>3, <3>4 DEF twice
  <2>6. CASE next * element_size <= Max
    <3>1. new = next /\ new # Overflow
      BY <1>1, <1>4, <1>7, <2>3, <2>4, <2>6
    <3> QED
      BY <1>1, <1>2, <2>1, <2>2, <2>6, <3>1
  <2> QED
    BY <1>1, <2>3, <2>5, <2>6
<1> QED
  BY <1>1, <1>6, <1>7

(* Deadlines.                                                                      *)

\* Microseconds are rounded up to milliseconds.
LEMMA RoundsAlwaysUp ==
  ASSUME NEW units \in Nat, NEW per \in Nat, per # 0
  PROVE  RoundsUp(units, per)
<1> DEFINE q == units \div per
           r == units % per
<1>1. q \in Nat /\ r \in Nat /\ r < per /\ units = q * per + r
  BY DivModIs
<1>2. ceil_to(units, per) = IF r # 0 THEN q + 1 ELSE q
  BY DEF ceil_to
<1> HIDE DEF q, r
<1>3. /\ (q + 1) * per = q * per + per /\ (q - 1) * per = q * per - per
      /\ (q + 1) - 1 = q /\ q * per \in Nat
  BY <1>1
<1>4. CASE r # 0
  <2>1. ceil_to(units, per) = q + 1
    BY <1>2, <1>4
  <2>2. q * per < units /\ units <= (q + 1) * per
    BY <1>1, <1>3, <1>4
  <2> QED
    BY <1>3, <2>1, <2>2 DEF RoundsUp
<1>5. CASE r = 0
  <2>1. ceil_to(units, per) = q
    BY <1>2, <1>5
  <2>2. (q - 1) * per < units /\ units <= q * per
    BY <1>1, <1>3, <1>5
  <2> QED
    BY <2>1, <2>2 DEF RoundsUp
<1> QED
  BY <1>4, <1>5

\* What remains of a period leads to its end, from positions before zero too.
LEMMA RemainsAlwaysOfPeriod ==
  ASSUME NEW position \in S, NEW period \in S, period > 0
  PROVE  RemainsOfPeriod(position, period)
<1>1. position \in Int /\ period \in Nat /\ period # 0
  BY SignedHalves
<1> DEFINE q == position \div period
           r == position % period
           remaining == i64_period_remaining(position, period)
<1>2. i64_floor_divmod(position, period) = [quotient |-> q, remainder |-> r]
  BY SignedAlwaysExact DEF SignedIsExact
<1>3. remaining = period - r
  BY <1>2 DEF i64_period_remaining
<1>4. q \in Int /\ r \in Nat /\ r < period /\ position = q * period + r
  BY <1>1
<1> HIDE DEF q, r, remaining
<1>5. position + remaining = (q + 1) * period + 0 /\ position + remaining \in Int
  <2>1. (q + 1) * period = q * period + period /\ q * period \in Int
    BY <1>1, <1>4
  <2> QED
    BY <1>1, <1>3, <1>4, <2>1
<1>6. (position + remaining) % period = 0
  <2>1. q + 1 \in Int /\ 0 \in Nat /\ 0 < period
    BY <1>1, <1>4
  <2>2. PICK next \in Int, total \in Int : next = q + 1 /\ total = position + remaining
    BY <1>5, <2>1
  <2>3. total = next * period + 0
    BY <1>5, <2>2
  <2> QED
    BY <1>1, <2>1, <2>2, <2>3, FloorIsUnique
<1>7. remaining \in 1..period
  BY <1>1, <1>3, <1>4
<1> QED
  BY <1>6, <1>7 DEF RemainsOfPeriod, remaining

Timespecs == {t \in [sec : Nat, nsec : Nat] : Normalised(t)}

\* The units of time, and an instant in nanoseconds.
LEMMA UnitsAre ==
  ASSUME NEW t \in Timespecs
  PROVE  /\ NsPerMs \in Nat /\ NsPerMs # 0 /\ MsPerSecond \in Nat /\ MsPerSecond # 0
         /\ NsPerSecond \in Nat /\ NsPerSecond # 0 /\ NsPerSecond = MsPerSecond * NsPerMs
         /\ TimeMax \in Nat /\ Max \in Nat
         /\ t.sec \in Nat /\ t.sec <= TimeMax /\ t.nsec \in Nat /\ t.nsec < NsPerSecond
         /\ Instant(t) = t.sec * NsPerSecond + t.nsec /\ Instant(t) \in Nat
<1>1. /\ NsPerMs \in Nat /\ NsPerMs # 0 /\ MsPerSecond \in Nat /\ MsPerSecond # 0 /\ TimeMax \in Nat /\ Max \in Nat
  BY DeadlineAssumption, WidthAssumption
<1>2. NsPerSecond \in Nat /\ NsPerSecond # 0 /\ NsPerSecond = MsPerSecond * NsPerMs
  BY <1>1 DEF NsPerSecond
<1>3. t.sec \in Nat /\ t.sec <= TimeMax /\ t.nsec \in Nat /\ t.nsec < NsPerSecond
  BY <1>1, <1>2 DEF Timespecs, Normalised
<1>4. Instant(t) = t.sec * NsPerSecond + t.nsec
  BY DEF Instant
<1>5. t.sec * NsPerSecond \in Nat
  BY <1>2, <1>3
<1> QED
  BY <1>1, <1>2, <1>3, <1>4, <1>5

\* A clock is read in nanoseconds, or refused where they have no representation.
LEMMA ReadsAlwaysExactly ==
  ASSUME NEW now \in Timespecs
  PROVE  ReadsExactly(now)
<1> DEFINE N == NsPerSecond
           rest == Max - now.nsec
<1>1. /\ N \in Nat /\ N # 0 /\ Max \in Nat /\ now.sec \in Nat /\ now.nsec \in Nat
      /\ Instant(now) = now.sec * N + now.nsec /\ Instant(now) \in Nat /\ now.sec * N \in Nat
  BY UnitsAre
<1>2. monotonic_nanoseconds(now) = IF now.sec > rest \div N THEN Overflow ELSE Instant(now)
  BY DEF monotonic_nanoseconds
<1>3. rest \in Int /\ now.nsec = Max - rest
  BY <1>1
<1> HIDE DEF N, rest
<1>4. (now.sec > rest \div N) <=> Instant(now) > Max
  <2>1. CASE rest >= 0
    <3>1. (now.sec > rest \div N) <=> (N * now.sec > rest)
      BY <1>1, <1>3, <2>1, GuardIsExact
    <3>2. N * now.sec = now.sec * N
      BY <1>1
    <3> QED
      BY <1>1, <1>3, <3>1, <3>2
  <2>2. CASE rest < 0
    <3>1. rest \div N < 0 /\ rest \div N \in Int
      BY <1>1, <1>3, <2>2
    <3> QED
      BY <1>1, <1>3, <2>2, <3>1
  <2> QED
    BY <1>3, <2>1, <2>2
<1>5. Instant(now) \in U <=> ~(Instant(now) > Max)
  BY <1>1 DEF U
<1> QED
  BY <1>2, <1>4, <1>5 DEF ReadsExactly, IsChecked

LEMMA RemainingTyped ==
  ASSUME NEW deadline \in Timespecs, NEW now \in Timespecs
  PROVE  deadline_remaining_milliseconds(deadline, now) \in Nat \cup {Overflow}
<1> DEFINE K == NsPerMs
           N == NsPerSecond
           borrow == IF deadline.nsec < now.nsec THEN 1 ELSE 0
           seconds == deadline.sec - now.sec - borrow
           ns == deadline.nsec - now.nsec + borrow * N
           fractional == FractionalMs(ns)
<1>1. /\ K \in Nat /\ K # 0 /\ N \in Nat /\ MsPerSecond \in Nat
      /\ deadline.sec \in Nat /\ deadline.nsec \in Nat /\ deadline.nsec < N
      /\ now.sec \in Nat /\ now.nsec \in Nat /\ now.nsec < N
  BY UnitsAre
<1>2. CASE IsOver(deadline, now)
  BY <1>2 DEF deadline_remaining_milliseconds
<1>3. CASE ~IsOver(deadline, now)
  <2> HIDE DEF N, K
  <2>1. seconds \in Nat /\ ns \in Nat
    BY <1>1, <1>3 DEF IsOver
  <2>2. fractional \in Nat
    <3> HIDE DEF ns
    <3>1. ns + K - 1 \in Nat
      BY <1>1, <2>1
    <3>2. PICK up \in Nat : up = ns + K - 1
      BY <3>1
    <3> QED
      BY <1>1, <3>2 DEF FractionalMs, K
  <2>3. deadline_remaining_milliseconds(deadline, now) \in {Overflow, seconds * MsPerSecond + fractional}
    BY <1>3 DEF deadline_remaining_milliseconds, N
  <2> HIDE DEF seconds, fractional
  <2>4. seconds * MsPerSecond \in Nat
    BY <1>1, <2>1
  <2> QED
    BY <2>2, <2>3, <2>4
<1> QED
  BY <1>2, <1>3

\* A deadline is as many milliseconds ahead as were asked for, and they remain,
\* unless it is beyond the last second of a time_t.
LEMMA AlwaysAhead ==
  ASSUME NEW now \in Timespecs, NEW milliseconds \in U
  PROVE  IsAhead(now, milliseconds)
<1> DEFINE K == NsPerMs
           M == MsPerSecond
           N == NsPerSecond
           q == milliseconds \div M
           r == milliseconds % M
           ns == now.nsec + r * K
           carry == IF ns >= N THEN 1 ELSE 0
           extra == q + carry
           there == [sec |-> now.sec + extra, nsec |-> ns - carry * N]
           deadline == deadline_after_milliseconds(now, milliseconds)
<1>1. /\ K \in Nat /\ K # 0 /\ M \in Nat /\ M # 0 /\ N \in Nat /\ N # 0 /\ N = M * K
      /\ TimeMax \in Nat /\ now.sec \in Nat /\ now.sec <= TimeMax /\ now.nsec \in Nat /\ now.nsec < N
      /\ Instant(now) = now.sec * N + now.nsec /\ Instant(now) \in Nat
      /\ milliseconds \in Nat /\ milliseconds <= Max /\ Max \in Nat
  BY UnitsAre, WidthAssumption DEF U
<1>2. deadline = IF extra > TimeMax - now.sec THEN Overflow ELSE there
  BY DEF deadline_after_milliseconds
<1>3. q \in Nat /\ r \in Nat /\ r < M /\ milliseconds = q * M + r
  BY <1>1, DivModIs
<1>4. r * K \in Nat /\ r * K < N /\ ns \in Nat
  <2> HIDE DEF r, q, K, M, N
  <2>1. (r + 1) * K <= M * K /\ (r + 1) * K = r * K + K /\ r * K \in Nat
    BY <1>1, <1>3, TimesMonotone
  <2> QED
    BY <1>1, <2>1
<1>5. carry \in {0, 1} /\ ns - carry * N \in Nat /\ ns - carry * N < N /\ carry * N \in Nat
  <2> HIDE DEF r, K, N, q, M
  <2> QED
    BY <1>1, <1>4
<1>6. milliseconds * K = q * N + r * K /\ q * N \in Nat /\ milliseconds * K \in Nat
  <2> HIDE DEF q, r, K, M, N
  <2>1. (q * M + r) * K = (q * M) * K + r * K /\ (q * M) * K = q * (M * K)
    BY <1>1, <1>3
  <2>2. q * N \in Nat
    BY <1>1, <1>3
  <2> QED
    BY <1>1, <1>3, <1>4, <2>1, <2>2
<1> HIDE DEF q, r, ns, carry, K, M, N, deadline
<1>7. /\ (now.sec + q + carry) * N = now.sec * N + q * N + carry * N
      /\ now.sec * N \in Nat /\ extra \in Nat
  <2>1. carry \in Nat
    BY <1>5
  <2>2. (now.sec + q + carry) * N = now.sec * N + q * N + carry * N
    BY <1>1, <1>3, <2>1, ThreeTimes
  <2>3. now.sec * N \in Nat
    BY <1>1
  <2>4. extra \in Nat
    BY <1>3, <2>1
  <2> QED
    BY <2>2, <2>3, <2>4
<1>8. Instant(now) + milliseconds * K = (now.sec + q + carry) * N + (ns - carry * N)
  BY <1>1, <1>4, <1>5, <1>6, <1>7 DEF ns
<1>9. CASE extra > TimeMax - now.sec
  <2>1. TimeMax + 1 <= now.sec + q + carry /\ now.sec + q + carry \in Nat
    BY <1>1, <1>3, <1>5, <1>9
  <2>2. (TimeMax + 1) * N <= (now.sec + q + carry) * N
    BY <1>1, <2>1, TimesMonotone
  <2>3. (TimeMax + 1) * N \in Nat /\ (now.sec + q + carry) * N \in Nat
    BY <1>1, <2>1
  <2>4. Instant(now) + milliseconds * NsPerMs >= (TimeMax + 1) * NsPerSecond
    BY <1>5, <1>8, <2>2, <2>3 DEF K, N
  <2> QED
    BY <1>2, <1>9, <2>4 DEF IsAhead, deadline
<1>10. CASE extra <= TimeMax - now.sec
  <2>1. /\ there.sec = now.sec + q + carry /\ there.nsec = ns - carry * N
        /\ there.sec \in Nat /\ there.sec <= TimeMax /\ there.nsec \in Nat /\ there.nsec < N
    BY <1>1, <1>3, <1>5, <1>7, <1>10
  <2>2. there \in Timespecs /\ Normalised(there)
    BY <1>1, <1>7, <1>5, <2>1 DEF Timespecs, Normalised, N
  <2>3. deadline = there /\ there # Overflow
    <3>1. there \in [sec : Nat, nsec : Nat]
      BY <2>2 DEF Timespecs
    <3> HIDE DEF there
    <3> QED
      BY <1>1, <1>2, <1>7, <1>10, <3>1, DeadlineAssumption
  <2>4. Instant(there) = Instant(now) + milliseconds * K
    BY <1>8, <2>1 DEF Instant, N
  <2> HIDE DEF there
  <2> DEFINE ms == deadline_remaining_milliseconds(there, now)
  <2>5. WakesInTime(there, now) /\ ms \in Nat \cup {Overflow}
    <3>1. there \in [sec : Nat, nsec : Nat] /\ Normalised(there) /\ now \in [sec : Nat, nsec : Nat] /\ Normalised(now)
      BY <2>2 DEF Timespecs
    <3> QED
      BY <2>2, <3>1, SleeperAlwaysWakesInTime, RemainingTyped
  <2>6. ms = milliseconds
    <3>1. /\ ms = Overflow => Instant(there) - Instant(now) > Max * K
          /\ ms # Overflow => /\ Instant(now) + ms * K >= Instant(there)
                              /\ ms > 0 => Instant(now) + (ms - 1) * K < Instant(there)
      BY <2>5 DEF WakesInTime, K
    <3> HIDE DEF ms
    <3>2. Instant(there) - Instant(now) = milliseconds * K
      BY <1>1, <1>6, <2>4
    <3>3. ms # Overflow
      <4>1. milliseconds * K <= Max * K /\ Max * K \in Nat
        BY <1>1, TimesMonotone
      <4> QED
        BY <1>6, <3>1, <3>2, <4>1
    <3>4. ms \in Nat
      BY <2>5, <3>3
    <3>5. ms * K >= milliseconds * K /\ (ms > 0 => (ms - 1) * K < milliseconds * K)
      <4>1. ms * K \in Nat /\ (ms - 1) * K \in Int
        BY <1>1, <3>4
      <4> QED
        BY <1>1, <1>6, <2>4, <3>1, <3>3, <4>1
    <3>6. ~ (ms + 1 <= milliseconds)
      <4>1. ms + 1 <= milliseconds => (ms + 1) * K <= milliseconds * K
        BY <1>1, <3>4, TimesMonotone
      <4>2. (ms + 1) * K = ms * K + K /\ ms * K \in Nat
        BY <1>1, <3>4
      <4> QED
        BY <1>1, <1>6, <3>5, <4>1, <4>2
    <3>7. ~ (milliseconds <= ms - 1)
      <4>1. milliseconds <= ms - 1 => ms - 1 \in Nat /\ milliseconds * K <= (ms - 1) * K
        BY <1>1, <3>4, TimesMonotone
      <4>2. milliseconds <= ms - 1 => ms > 0
        BY <1>1, <3>4
      <4>3. (ms - 1) * K \in Int
        BY <1>1, <3>4
      <4> QED
        BY <1>6, <3>5, <4>1, <4>2, <4>3
    <3> QED
      BY <1>1, <3>4, <3>6, <3>7
  <2> QED
    BY <2>2, <2>3, <2>4, <2>6 DEF IsAhead, deadline, K
<1> QED
  BY <1>1, <1>7, <1>9, <1>10

(* Big integers, limb by limb.                                              *)

LEMMA Closed == \A a, b \in Nat : a * b \in Nat /\ a + b \in Nat
OBVIOUS

LEMMA Distributes == \A a, b, c \in Nat : (a + b) * c = a * c + b * c
OBVIOUS

LEMMA Monotone == \A a, b, c \in Nat : a <= b => c * a <= c * b
OBVIOUS

(* Recursive functions of an index.                                          *)

Follows(f, base, step, N) == f[0] = base /\ \A n \in 1 .. N : f[n] = step[n][f[n - 1]]

LEMMA RecursionExists ==
  ASSUME NEW States, NEW base \in States, NEW N \in Nat, NEW step \in [1 .. N -> [States -> States]]
  PROVE  \E f \in [0 .. N -> States] : Follows(f, base, step, N)
<1> DEFINE T == {k \in Nat : k <= N => \E f \in [0 .. k -> States] : Follows(f, base, step, k)}
<1>1. 0 \in T
  <2>1. [n \in 0 .. 0 |-> base] \in [0 .. 0 -> States] /\ Follows([n \in 0 .. 0 |-> base], base, step, 0)
    BY DEF Follows
  <2> QED
    BY <2>1
<1>2. ASSUME NEW k \in Nat, k \in T PROVE k + 1 \in T
  <2> SUFFICES ASSUME k + 1 <= N
               PROVE  \E f \in [0 .. (k + 1) -> States] : Follows(f, base, step, k + 1)
    OBVIOUS
  <2>1. PICK f \in [0 .. k -> States] : Follows(f, base, step, k)
    BY <1>2
  <2> DEFINE g == [n \in 0 .. (k + 1) |-> IF n = k + 1 THEN step[k + 1][f[k]] ELSE f[n]]
  <2>2. step[k + 1][f[k]] \in States
    <3>1. k + 1 \in 1 .. N /\ f[k] \in States
      OBVIOUS
    <3>2. step[k + 1] \in [States -> States]
      BY <3>1
    <3> QED
      BY <3>1, <3>2
  <2>3. g \in [0 .. (k + 1) -> States]
    BY <2>2
  <2>4. Follows(g, base, step, k + 1)
    <3>1. g[0] = base
      BY <2>1 DEF Follows
    <3>2. ASSUME NEW n \in 1 .. (k + 1) PROVE g[n] = step[n][g[n - 1]]
      <4>1. CASE n = k + 1
        BY <4>1
      <4>2. CASE n # k + 1
        <5>1. n \in 1 .. k /\ n - 1 \in 0 .. k /\ n - 1 # k + 1 /\ n \in 0 .. (k + 1) /\ n - 1 \in 0 .. (k + 1)
          BY <4>2
        <5>2. f[n] = step[n][f[n - 1]] /\ g[n] = f[n] /\ g[n - 1] = f[n - 1]
          BY <2>1, <4>2, <5>1 DEF Follows
        <5> QED
          BY <5>2
      <4> QED
        BY <4>1, <4>2
    <3> HIDE DEF g
    <3> QED
      BY <3>1, <3>2 DEF Follows
  <2> HIDE DEF g
  <2> QED
    BY <2>3, <2>4
<1> HIDE DEF T
<1>3. N \in T
  BY <1>1, <1>2, SetInduction
<1> QED
  BY <1>3 DEF T

\* Induction from 0 up to a bound.
LEMMA UpTo ==
  ASSUME NEW N \in Nat, NEW T, 0 \in T, \A n \in 0 .. (N - 1) : n \in T => n + 1 \in T
  PROVE  0 .. N \subseteq T
<1> DEFINE W == {n \in Nat : n <= N => n \in T}
<1>1. 0 \in W
  OBVIOUS
<1>2. ASSUME NEW n \in Nat, n \in W PROVE n + 1 \in W
  <2> SUFFICES ASSUME n + 1 <= N PROVE n + 1 \in T
    OBVIOUS
  <2>1. n \in 0 .. (N - 1) /\ n \in T
    BY <1>2
  <2> QED
    BY <2>1
<1> HIDE DEF W
<1>3. Nat \subseteq W
  BY <1>1, <1>2, SetInduction
<1> QED
  BY <1>3 DEF W

(* Powers of two.                                                            *)

LEMMA TwoToExists ==
  \E f \in [Nat -> Nat] : f = [n \in Nat |-> IF n = 0 THEN 1 ELSE 2 * f[n - 1]]
<1> DEFINE step(N) == [n \in 1 .. N |-> [x \in Nat |-> 2 * x]]
           Good(N, f) == f \in [0 .. N -> Nat] /\ f[0] = 1 /\ \A n \in 1 .. N : f[n] = 2 * f[n - 1]
           F(N) == CHOOSE f : Good(N, f)
<1>1. ASSUME NEW N \in Nat PROVE Good(N, F(N))
  <2>1. step(N) \in [1 .. N -> [Nat -> Nat]]
    OBVIOUS
  <2>2. PICK f \in [0 .. N -> Nat] : Follows(f, 1, step(N), N)
    <3> HIDE DEF step
    <3> QED
      BY <2>1, RecursionExists
  <2>3. ASSUME NEW n \in 1 .. N PROVE f[n] = 2 * f[n - 1]
    <3>1. n - 1 \in 0 .. N
      OBVIOUS
    <3>2. f[n - 1] \in Nat
      BY <2>2, <3>1
    <3> QED
      BY <2>2, <3>2 DEF Follows
  <2>4. Good(N, f)
    BY <2>2, <2>3 DEF Follows
  <2> HIDE DEF Good
  <2> QED
    BY <2>4
<1>2. ASSUME NEW N \in Nat, NEW M \in Nat, N <= M, NEW f, NEW g, Good(N, f), Good(M, g)
      PROVE  \A n \in 0 .. N : f[n] = g[n]
  <2> DEFINE T == {n \in 0 .. N : f[n] = g[n]}
  <2>1. 0 \in T
    BY <1>2
  <2>2. ASSUME NEW n \in 0 .. (N - 1), n \in T PROVE n + 1 \in T
    <3>1. n + 1 \in 1 .. N /\ n + 1 \in 1 .. M /\ (n + 1) - 1 = n
      BY <1>2
    <3>2. f[n + 1] = 2 * f[n] /\ g[n + 1] = 2 * g[n]
      BY <1>2, <3>1
    <3> QED
      BY <2>2, <3>1, <3>2
  <2> HIDE DEF T
  <2>3. 0 .. N \subseteq T
    BY <2>1, <2>2, UpTo
  <2> QED
    BY <2>3 DEF T
<1> DEFINE h == [n \in Nat |-> F(n)[n]]
<1>3. h \in [Nat -> Nat] /\ h[0] = 1
  <2>1. ASSUME NEW n \in Nat PROVE F(n)[n] \in Nat
    <3>1. Good(n, F(n))
      BY <1>1
    <3> HIDE DEF F
    <3> QED
      BY <3>1
  <2>2. F(0)[0] = 1
    <3>1. Good(0, F(0))
      BY <1>1
    <3> HIDE DEF F
    <3> QED
      BY <3>1
  <2> HIDE DEF F
  <2> QED
    BY <2>1, <2>2
<1>4. ASSUME NEW n \in Nat, n # 0 PROVE h[n] = 2 * h[n - 1]
  <2>1. n - 1 \in Nat /\ n \in 1 .. n /\ n - 1 \in 0 .. (n - 1)
    BY <1>4
  <2>2. Good(n, F(n)) /\ Good(n - 1, F(n - 1))
    BY <1>1, <2>1
  <2> HIDE DEF F
  <2>3. F(n)[n] = 2 * F(n)[n - 1]
    BY <2>1, <2>2
  <2> HIDE DEF Good
  <2>4. \A i \in 0 .. (n - 1) : F(n - 1)[i] = F(n)[i]
    BY <1>2, <2>1, <2>2
  <2> QED
    BY <2>1, <2>3, <2>4
<1> HIDE DEF h
<1>5. h = [n \in Nat |-> IF n = 0 THEN 1 ELSE 2 * h[n - 1]]
  BY <1>3, <1>4
<1> QED
  BY <1>3, <1>5

LEMMA TwoToIs ==
  /\ TwoTo[0] = 1 /\ TwoTo[1] = 2
  /\ \A n \in Nat : TwoTo[n] \in Nat \ {0} /\ TwoTo[n + 1] = 2 * TwoTo[n]
<1> DEFINE f == CHOOSE f : f = [n \in Nat |-> IF n = 0 THEN 1 ELSE 2 * f[n - 1]]
<1>1. TwoTo = f
  BY DEF TwoTo
<1>2. f = [n \in Nat |-> IF n = 0 THEN 1 ELSE 2 * f[n - 1]]
  BY TwoToExists
<1> HIDE DEF f
<1>3. f[0] = 1
  BY <1>2
<1>4. ASSUME NEW n \in Nat PROVE f[n + 1] = 2 * f[n]
  BY <1>2
<1> DEFINE T == {n \in Nat : f[n] \in Nat \ {0}}
<1>5. 0 \in T /\ \A n \in Nat : n \in T => n + 1 \in T
  BY <1>3, <1>4
<1> HIDE DEF T
<1>6. Nat \subseteq T
  BY <1>5, SetInduction
<1>7. f[1] = 2
  BY <1>3, <1>4
<1> QED
  BY <1>1, <1>3, <1>4, <1>6, <1>7 DEF T

LEMMA TwoToSum ==
  ASSUME NEW m \in Nat, NEW n \in Nat
  PROVE  TwoTo[m + n] = TwoTo[m] * TwoTo[n]
<1> DEFINE T == {k \in Nat : TwoTo[m + k] = TwoTo[m] * TwoTo[k]}
<1>1. 0 \in T
  BY TwoToIs
<1>2. ASSUME NEW k \in Nat, k \in T PROVE k + 1 \in T
  <2>1. m + k \in Nat /\ (m + k) + 1 = m + (k + 1)
    OBVIOUS
  <2>2. TwoTo[m + (k + 1)] = 2 * TwoTo[m + k] /\ TwoTo[k + 1] = 2 * TwoTo[k]
    BY <2>1, TwoToIs
  <2>3. TwoTo[m] \in Nat /\ TwoTo[k] \in Nat /\ TwoTo[m + k] = TwoTo[m] * TwoTo[k]
    BY <1>2, TwoToIs
  <2>4. 2 * (TwoTo[m] * TwoTo[k]) = TwoTo[m] * (2 * TwoTo[k])
    BY <2>3
  <2> QED
    BY <2>2, <2>3, <2>4
<1> HIDE DEF T
<1>3. Nat \subseteq T
  BY <1>1, <1>2, SetInduction
<1> QED
  BY <1>3 DEF T

LEMMA TwoToGrows ==
  ASSUME NEW m \in Nat, NEW n \in Nat
  PROVE  /\ m <= n => TwoTo[m] <= TwoTo[n]
         /\ m < n => 2 * TwoTo[m] <= TwoTo[n]
<1>1. ASSUME NEW a \in Nat, NEW b \in Nat, a <= b PROVE TwoTo[a] <= TwoTo[b]
  <2>1. b - a \in Nat /\ a + (b - a) = b
    BY <1>1
  <2>2. TwoTo[b] = TwoTo[a] * TwoTo[b - a]
    BY <2>1, TwoToSum
  <2>3. TwoTo[a] \in Nat \ {0} /\ TwoTo[b - a] \in Nat \ {0}
    BY <2>1, TwoToIs
  <2>4. \A x, y \in Nat \ {0} : x <= x * y
    OBVIOUS
  <2> QED
    BY <2>2, <2>3, <2>4
<1>2. ASSUME m < n PROVE 2 * TwoTo[m] <= TwoTo[n]
  BY <1>1, <1>2, TwoToIs
<1> QED
  BY <1>1, <1>2

(* The values of limbs.                                                      *)

LEMMA BaseIs ==
  /\ Base \in Nat \ {0} /\ Base >= 2 /\ 0 \in Limb
  /\ \A x : x \in Limb <=> x \in Nat /\ x < Base
  /\ Base \div 2 \in Nat \ {0} /\ Base = 2 * (Base \div 2)
<1>1. LimbBits \in Nat \ {0} /\ LimbBits - 1 \in Nat /\ (LimbBits - 1) + 1 = LimbBits
  BY BigAssumption
<1>2. Base = 2 * TwoTo[LimbBits - 1] /\ TwoTo[LimbBits - 1] \in Nat \ {0}
  BY <1>1, TwoToIs DEF Base
<1>3. Base \in Nat \ {0} /\ Base >= 2
  BY <1>2
<1>4. \A x : x \in Limb <=> x \in Nat /\ x < Base
  BY <1>3 DEF Limb
<1>5. Base \div 2 = TwoTo[LimbBits - 1]
  BY <1>2
<1> QED
  BY <1>2, <1>3, <1>4, <1>5

LEMMA QuotientsAre == \A y \in Nat : y \div Base \in Nat
<1>1. Base \in Nat /\ Base # 0
  BY BaseIs
<1> QED
  BY <1>1, DivModIs

LEMMA WeightIs ==
  /\ Weight(1) = 1
  /\ \A n \in Nat : Weight(n + 1) \in Nat \ {0} /\ Weight(n + 1) = TwoTo[LimbBits * n]
  /\ \A n \in Nat \ {0} : Weight(n) \in Nat \ {0} /\ Weight(n + 1) = Base * Weight(n)
<1>1. LimbBits \in Nat \ {0}
  BY BigAssumption
<1>2. LimbBits * 0 = 0 /\ 1 - 1 = 0
  BY <1>1
<1>3. Weight(1) = 1
  BY <1>2, TwoToIs DEF Weight
<1>4. ASSUME NEW n \in Nat PROVE Weight(n + 1) \in Nat \ {0} /\ Weight(n + 1) = TwoTo[LimbBits * n]
  <2>1. (n + 1) - 1 = n /\ LimbBits * n \in Nat
    BY <1>1
  <2> QED
    BY <2>1, TwoToIs DEF Weight
<1>5. ASSUME NEW n \in Nat \ {0} PROVE Weight(n) \in Nat \ {0} /\ Weight(n + 1) = Base * Weight(n)
  <2>1. n - 1 \in Nat /\ (n - 1) + 1 = n /\ LimbBits * (n - 1) \in Nat
    BY <1>1
  <2>2. LimbBits * n = LimbBits + LimbBits * (n - 1)
    BY <1>1
  <2>3. TwoTo[LimbBits * n] = Base * TwoTo[LimbBits * (n - 1)]
    BY <1>1, <2>1, <2>2, TwoToSum DEF Base
  <2> QED
    BY <1>4, <2>1, <2>3
<1> QED
  BY <1>3, <1>4, <1>5

LEMMA LimbsAre ==
  ASSUME NEW v \in Seq(Limb)
  PROVE  /\ Len(v) \in Nat
         /\ \A i \in 1 .. Len(v) : v[i] \in Nat /\ v[i] < Base /\ v[i] \in Limb
<1>1. \A i \in 1 .. Len(v) : v[i] \in Limb
  OBVIOUS
<1> QED
  BY <1>1, BaseIs

LEMMA LowIs ==
  ASSUME NEW v \in Seq(Limb)
  PROVE  /\ LowValues(v) \in [0 .. Len(v) -> Nat] /\ LowValues(v)[0] = 0
         /\ \A n \in 1 .. Len(v) : /\ LowValues(v)[n - 1] \in Nat
                                   /\ LowValues(v)[n] = LowValues(v)[n - 1] + v[n] * Weight(n)
<1> DEFINE N == Len(v)
           step == [n \in 1 .. N |-> [x \in Nat |-> x + v[n] * Weight(n)]]
           low == CHOOSE f : f = [n \in 0 .. N |-> IF n = 0 THEN 0 ELSE f[n - 1] + v[n] * Weight(n)]
<1>1. N \in Nat /\ step \in [1 .. N -> [Nat -> Nat]]
  <2>1. ASSUME NEW n \in 1 .. N PROVE v[n] \in Nat /\ Weight(n) \in Nat
    <3>1. n \in Nat \ {0} /\ n \in 1 .. Len(v)
      BY LimbsAre
    <3> QED
      BY <3>1, LimbsAre, WeightIs
  <2>2. \A a, b, c \in Nat : a + b * c \in Nat
    OBVIOUS
  <2>3. \A n \in 1 .. N : \A x \in Nat : x + v[n] * Weight(n) \in Nat
    BY <2>1, <2>2
  <2> QED
    BY <2>3
<1>2. PICK f \in [0 .. N -> Nat] : Follows(f, 0, step, N)
  <2> HIDE DEF step, N
  <2> QED
    BY <1>1, RecursionExists
<1>3. ASSUME NEW n \in 1 .. N PROVE f[n] = f[n - 1] + v[n] * Weight(n)
  <2>1. n - 1 \in 0 .. N
    BY <1>1
  <2>2. f[n - 1] \in Nat
    BY <1>2, <2>1
  <2> QED
    BY <1>2, <2>2 DEF Follows
<1>4. f[0] = 0
  BY <1>2 DEF Follows
<1>5. f = [n \in 0 .. N |-> IF n = 0 THEN 0 ELSE f[n - 1] + v[n] * Weight(n)]
  <2>1. ASSUME NEW n \in 0 .. N PROVE f[n] = IF n = 0 THEN 0 ELSE f[n - 1] + v[n] * Weight(n)
    BY <1>1, <1>3, <1>4
  <2> HIDE DEF N
  <2> QED
    BY <2>1
<1>6. low = [n \in 0 .. N |-> IF n = 0 THEN 0 ELSE low[n - 1] + v[n] * Weight(n)]
  BY <1>5
<1>7. LowValues(v) = low
  BY DEF LowValues
<1> HIDE DEF low
<1>8. low[0] = 0 /\ \A n \in 1 .. N : low[n] = low[n - 1] + v[n] * Weight(n)
  BY <1>1, <1>6
<1> DEFINE T == {n \in 0 .. N : low[n] \in Nat}
<1>9. 0 .. N \subseteq T
  <2>1. 0 \in T
    BY <1>1, <1>8
  <2>2. ASSUME NEW n \in 0 .. (N - 1), n \in T PROVE n + 1 \in T
    <3>1. n + 1 \in 1 .. N /\ n + 1 \in 0 .. N /\ (n + 1) - 1 = n /\ n \in Nat
      BY <1>1
    <3>2. v[n + 1] \in Nat /\ Weight(n + 1) \in Nat
      BY <3>1, LimbsAre, WeightIs
    <3>3. v[n + 1] * Weight(n + 1) \in Nat
      BY <3>2
    <3>4. low[n + 1] = low[n] + v[n + 1] * Weight(n + 1)
      BY <1>8, <3>1
    <3> QED
      BY <2>2, <3>1, <3>3, <3>4
  <2> HIDE DEF T, N
  <2> QED
    BY <1>1, <2>1, <2>2, UpTo
<1>10. low \in [0 .. N -> Nat]
  BY <1>6, <1>9
<1>11. ASSUME NEW n \in 1 .. N PROVE low[n - 1] \in Nat
  <2>1. n - 1 \in 0 .. N
    BY <1>1
  <2> QED
    BY <1>10, <2>1
<1> QED
  BY <1>7, <1>8, <1>10, <1>11

LEMMA LowBound ==
  ASSUME NEW v \in Seq(Limb), NEW k \in 0 .. Len(v)
  PROVE  /\ LowValues(v)[k] \in Nat /\ LowValues(v)[k] < Weight(k + 1)
         /\ k > 0 /\ v[k] # 0 => LowValues(v)[k] >= Weight(k)
<1> DEFINE low == LowValues(v)
           N == Len(v)
           T == {n \in 0 .. N : low[n] < Weight(n + 1)}
<1>1. /\ N \in Nat /\ low \in [0 .. N -> Nat] /\ low[0] = 0
      /\ \A n \in 1 .. N : low[n - 1] \in Nat /\ low[n] = low[n - 1] + v[n] * Weight(n)
  BY LowIs
<1> HIDE DEF low
<1>2. 0 \in T
  BY <1>1, WeightIs
<1>3. ASSUME NEW n \in 0 .. (N - 1), n \in T PROVE n + 1 \in T
  <2>1. n + 1 \in 1 .. N /\ (n + 1) - 1 = n /\ n + 1 \in Nat \ {0} /\ n + 1 \in 0 .. N
    BY <1>1
  <2> DEFINE m == n + 1
             W == Weight(m)
             x == v[m]
  <2>2. x \in Nat /\ x < Base /\ W \in Nat \ {0} /\ Weight(m + 1) = Base * W /\ Base \in Nat
    BY <2>1, LimbsAre, WeightIs, BaseIs
  <2>3. low[m] = low[n] + x * W /\ low[n] \in Nat /\ low[n] < W
    BY <1>1, <1>3, <2>1
  <2> HIDE DEF W, x
  <2>4. x * W <= (Base - 1) * W
    BY <2>2
  <2>5. (Base - 1) * W = Base * W - W
    BY <2>2
  <2>6. x * W \in Nat /\ Base * W \in Nat
    BY <2>2
  <2>7. low[m] < Base * W
    BY <2>2, <2>3, <2>4, <2>5, <2>6
  <2> QED
    BY <2>1, <2>2, <2>7
<1>4. k \in T
  <2> HIDE DEF T, N
  <2>1. 0 .. N \subseteq T
    BY <1>1, <1>2, <1>3, UpTo
  <2> QED
    BY <2>1 DEF N
<1>5. ASSUME k > 0, v[k] # 0 PROVE low[k] >= Weight(k)
  <2>1. k \in 1 .. N /\ k \in Nat \ {0}
    BY <1>1, <1>5
  <2> DEFINE W == Weight(k)
             x == v[k]
  <2>2. x \in Nat \ {0} /\ W \in Nat \ {0} /\ low[k - 1] \in Nat /\ low[k] = low[k - 1] + x * W
    BY <1>1, <1>5, <2>1, LimbsAre, WeightIs
  <2> HIDE DEF W, x
  <2>3. x * W >= W
    BY <2>2
  <2>4. x * W \in Nat
    BY <2>2
  <2>5. low[k] >= W
    BY <2>2, <2>3, <2>4
  <2> QED
    BY <2>5 DEF W
<1>6. low[k] \in Nat
  BY <1>1
<1> QED
  BY <1>4, <1>5, <1>6 DEF low

LEMMA SameLow ==
  ASSUME NEW v \in Seq(Limb), NEW w \in Seq(Limb), NEW k \in Nat, k <= Len(v), k <= Len(w),
         \A i \in 1 .. k : v[i] = w[i]
  PROVE  LowValues(v)[k] = LowValues(w)[k]
<1> DEFINE l == LowValues(v)
           m == LowValues(w)
           T == {n \in 0 .. k : l[n] = m[n]}
<1>1. /\ l[0] = 0 /\ m[0] = 0
      /\ \A n \in 1 .. k : /\ l[n] = l[n - 1] + v[n] * Weight(n)
                           /\ m[n] = m[n - 1] + w[n] * Weight(n)
  <2>1. \A n \in 1 .. k : n \in 1 .. Len(v) /\ n \in 1 .. Len(w)
    OBVIOUS
  <2> QED
    BY <2>1, LowIs
<1> HIDE DEF l, m
<1>2. 0 \in T
  BY <1>1
<1>3. ASSUME NEW n \in 0 .. (k - 1), n \in T PROVE n + 1 \in T
  <2>1. n + 1 \in 1 .. k /\ (n + 1) - 1 = n
    OBVIOUS
  <2> QED
    BY <1>1, <1>3, <2>1
<1> HIDE DEF T
<1>4. 0 .. k \subseteq T
  BY <1>2, <1>3, UpTo
<1> QED
  BY <1>4 DEF T, l, m

LEMMA ZerosAbove ==
  ASSUME NEW v \in Seq(Limb), NEW k \in 0 .. Len(v), \A i \in (k + 1) .. Len(v) : v[i] = 0
  PROVE  ValueOf(v) = LowValues(v)[k]
<1> DEFINE low == LowValues(v)
           N == Len(v)
           T == {n \in 0 .. (N - k) : low[k + n] = low[k]}
<1>1. /\ N \in Nat /\ k \in Nat /\ N - k \in Nat
      /\ \A n \in 1 .. N : low[n - 1] \in Nat /\ low[n] = low[n - 1] + v[n] * Weight(n)
  BY LowIs
<1> HIDE DEF low
<1>2. 0 \in T
  BY <1>1
<1>3. ASSUME NEW n \in 0 .. ((N - k) - 1), n \in T PROVE n + 1 \in T
  <2>1. k + (n + 1) \in 1 .. N /\ (k + (n + 1)) - 1 = k + n /\ k + (n + 1) \in (k + 1) .. N
    BY <1>1
  <2>2. v[k + (n + 1)] = 0 /\ Weight(k + (n + 1)) \in Nat
    BY <1>1, <2>1, WeightIs
  <2>3. low[k + n] \in Nat /\ low[k + (n + 1)] = low[k + n] + 0
    BY <1>1, <2>1, <2>2
  <2> QED
    BY <1>1, <1>3, <2>3
<1> HIDE DEF T
<1>4. 0 .. (N - k) \subseteq T
  BY <1>1, <1>2, <1>3, UpTo
<1>5. low[k + (N - k)] = low[k] /\ k + (N - k) = N
  <2>1. N - k \in 0 .. (N - k)
    BY <1>1
  <2>2. N - k \in T
    BY <1>4, <2>1
  <2> QED
    BY <1>1, <2>2 DEF T
<1> QED
  BY <1>5 DEF ValueOf, low

LEMMA SignificantIs ==
  ASSUME NEW v \in Seq(Limb)
  PROVE  /\ SignificantLimbs(v) \in 0 .. Len(v)
         /\ SignificantLimbs(v) > 0 => v[SignificantLimbs(v)] # 0
         /\ \A i \in (SignificantLimbs(v) + 1) .. Len(v) : v[i] = 0
<1> DEFINE N == Len(v)
           P(n) == (n > 0 => v[n] # 0) /\ \A i \in (n + 1) .. N : v[i] = 0
           T == {n \in 0 .. N : \A i \in (n + 1) .. N : v[i] = 0}
<1>1. N \in Nat /\ N \in T /\ T \subseteq Nat
  BY LimbsAre
<1>2. PICK n \in T : \A m \in T : n <= m
  <2> HIDE DEF T
  <2> QED
    BY <1>1, Least
<1>3. ASSUME n > 0, v[n] = 0 PROVE FALSE
  <2>1. n - 1 \in 0 .. N
    BY <1>1, <1>3
  <2>2. ASSUME NEW i \in ((n - 1) + 1) .. N PROVE v[i] = 0
    BY <1>1, <1>3
  <2>3. n - 1 \in T
    BY <2>1, <2>2
  <2>4. n \in Nat
    BY <1>1
  <2> HIDE DEF T
  <2>5. n <= n - 1
    BY <1>2, <2>3
  <2> QED
    BY <2>4, <2>5
<1>4. \E m \in 0 .. N : P(m)
  BY <1>1, <1>2, <1>3
<1> HIDE DEF P
<1>5. SignificantLimbs(v) = CHOOSE m \in 0 .. N : P(m)
  BY DEF SignificantLimbs, P
<1>6. SignificantLimbs(v) \in 0 .. N /\ P(SignificantLimbs(v))
  BY <1>4, <1>5
<1> QED
  BY <1>6 DEF P

LEMMA NormaliseIs ==
  ASSUME NEW v \in Seq(Limb), Len(v) <= Limbs
  PROVE  /\ big_normalise(v) \in Seq(Limb) /\ Number(big_normalise(v))
         /\ ValueOf(big_normalise(v)) = ValueOf(v)
<1> DEFINE k == SignificantLimbs(v)
           w == SubSeq(v, 1, k)
<1>1. /\ k \in 0 .. Len(v) /\ (k > 0 => v[k] # 0) /\ \A i \in (k + 1) .. Len(v) : v[i] = 0
      /\ Len(v) \in Nat
  BY SignificantIs
<1> HIDE DEF k
<1>2. w \in Seq(Limb) /\ Len(w) = k /\ \A i \in 1 .. k : w[i] = v[i]
  BY <1>1
<1>3. ValueOf(v) = LowValues(v)[k]
  BY <1>1, ZerosAbove
<1> HIDE DEF w
<1>4. LowValues(w)[k] = LowValues(v)[k]
  BY <1>1, <1>2, SameLow
<1>5. w # << >> => k > 0
  BY <1>1, <1>2
<1>6. Number(w)
  <2>1. k > 0 => w[k] = v[k]
    BY <1>1, <1>2
  <2>2. Limbs \in Nat
    BY BigAssumption
  <2> QED
    BY <1>1, <1>2, <1>5, <2>1, <2>2 DEF Number
<1>7. big_normalise(v) = w
  BY DEF big_normalise, k, w
<1> QED
  BY <1>2, <1>3, <1>4, <1>6, <1>7 DEF ValueOf

LEMMA AppendIs ==
  ASSUME NEW v \in Seq(Limb), NEW x \in Limb
  PROVE  /\ Append(v, x) \in Seq(Limb)
         /\ ValueOf(Append(v, x)) = ValueOf(v) + x * Weight(Len(v) + 1)
<1> DEFINE w == Append(v, x)
           N == Len(v)
<1>1. w \in Seq(Limb) /\ Len(w) = N + 1 /\ w[N + 1] = x /\ N \in Nat /\ \A i \in 1 .. N : w[i] = v[i]
  OBVIOUS
<1> HIDE DEF w
<1>2. LowValues(w)[N] = LowValues(v)[N]
  BY <1>1, SameLow
<1>3. LowValues(w)[N + 1] = LowValues(w)[(N + 1) - 1] + w[N + 1] * Weight(N + 1) /\ (N + 1) - 1 = N
  BY <1>1, LowIs
<1> QED
  BY <1>1, <1>2, <1>3 DEF ValueOf, w

(* Products with one limb, and shifts.                                       *)

LEMMA CarriesAre ==
  ASSUME NEW v \in Seq(Limb), NEW scale \in Limb, NEW plus \in Limb
  PROVE  /\ LimbCarries(v, scale, plus)[0] = plus
         /\ \A n \in 0 .. Len(v) : LimbCarries(v, scale, plus)[n] \in Nat
         /\ \A n \in 1 .. Len(v) : LimbCarries(v, scale, plus)[n]
                                     = (v[n] * scale + LimbCarries(v, scale, plus)[n - 1]) \div Base
<1> DEFINE N == Len(v)
           step == [n \in 1 .. N |-> [x \in Nat |-> (v[n] * scale + x) \div Base]]
           carry == CHOOSE f : f = [n \in 0 .. N |-> IF n = 0 THEN plus
                                                     ELSE (v[n] * scale + f[n - 1]) \div Base]
<1>0. N \in Nat /\ scale \in Nat /\ plus \in Nat /\ Base \in Nat \ {0} /\ \A n \in 1 .. N : v[n] \in Nat
  BY LimbsAre, BaseIs
<1>1. step \in [1 .. N -> [Nat -> Nat]]
  <2>1. \A a, b, x \in Nat : a * b + x \in Nat
    OBVIOUS
  <2>2. \A y \in Nat : y \div Base \in Nat
    BY QuotientsAre
  <2>3. \A n \in 1 .. N : \A x \in Nat : (v[n] * scale + x) \div Base \in Nat
    BY <1>0, <2>1, <2>2
  <2> QED
    BY <2>3
<1>2. PICK f \in [0 .. N -> Nat] : Follows(f, plus, step, N)
  <2> HIDE DEF step, N
  <2> QED
    BY <1>0, <1>1, RecursionExists
<1>3. ASSUME NEW n \in 1 .. N PROVE f[n] = (v[n] * scale + f[n - 1]) \div Base
  <2>1. n - 1 \in 0 .. N
    BY <1>0
  <2>2. f[n - 1] \in Nat
    BY <1>2, <2>1
  <2> QED
    BY <1>2, <2>2 DEF Follows
<1>4. f[0] = plus
  BY <1>2 DEF Follows
<1>5. f = [n \in 0 .. N |-> IF n = 0 THEN plus ELSE (v[n] * scale + f[n - 1]) \div Base]
  <2>1. ASSUME NEW n \in 0 .. N
        PROVE  f[n] = IF n = 0 THEN plus ELSE (v[n] * scale + f[n - 1]) \div Base
    <3>1. n = 0 \/ n \in 1 .. N
      BY <1>0
    <3> HIDE DEF N
    <3> QED
      BY <1>3, <1>4, <3>1
  <2> HIDE DEF N
  <2> QED
    BY <2>1
<1>6. carry = [n \in 0 .. N |-> IF n = 0 THEN plus ELSE (v[n] * scale + carry[n - 1]) \div Base]
  BY <1>5
<1>7. LimbCarries(v, scale, plus) = carry
  BY DEF LimbCarries
<1> HIDE DEF carry
<1>8. carry[0] = plus /\ \A n \in 1 .. N : carry[n] = (v[n] * scale + carry[n - 1]) \div Base
  <2>1. 0 \in 0 .. N /\ \A n \in 1 .. N : n \in 0 .. N /\ n # 0
    BY <1>0
  <2> HIDE DEF N
  <2>2. carry[0] = plus
    BY <1>6, <2>1
  <2>3. ASSUME NEW n \in 1 .. N PROVE carry[n] = (v[n] * scale + carry[n - 1]) \div Base
    BY <1>6, <2>1
  <2> QED
    BY <2>2, <2>3
<1> DEFINE T == {n \in 0 .. N : carry[n] \in Nat}
<1>9. 0 .. N \subseteq T
  <2>1. 0 \in T
    BY <1>0, <1>8
  <2>2. ASSUME NEW n \in 0 .. (N - 1), n \in T PROVE n + 1 \in T
    <3>1. n + 1 \in 1 .. N /\ n + 1 \in 0 .. N /\ (n + 1) - 1 = n
      BY <1>0
    <3>2. v[n + 1] \in Nat /\ carry[n] \in Nat /\ carry[n + 1] = (v[n + 1] * scale + carry[n]) \div Base
      BY <1>0, <1>8, <2>2, <3>1
    <3>3. \A a, b, x \in Nat : a * b + x \in Nat
      OBVIOUS
    <3>4. \A y \in Nat : y \div Base \in Nat
      BY QuotientsAre
    <3> QED
      BY <1>0, <3>1, <3>2, <3>3, <3>4
  <2> HIDE DEF T, N
  <2> QED
    BY <1>0, <2>1, <2>2, UpTo
<1> QED
  BY <1>7, <1>8, <1>9

\* Nothing more is carried than what the factor and the plus allow.
LEMMA CarriesAreSmall ==
  ASSUME NEW v \in Seq(Limb), NEW scale \in Limb, NEW plus \in Limb,
         NEW K \in Limb, scale <= K + 1, plus <= K
  PROVE  \A n \in 0 .. Len(v) : LimbCarries(v, scale, plus)[n] <= K
<1> DEFINE N == Len(v)
           carry == LimbCarries(v, scale, plus)
           T == {n \in 0 .. N : carry[n] <= K}
<1>0. /\ N \in Nat /\ scale \in Nat /\ plus \in Nat /\ K \in Nat /\ Base \in Nat \ {0}
      /\ \A n \in 1 .. N : v[n] \in Nat /\ v[n] < Base
  BY LimbsAre, BaseIs
<1>1. /\ carry[0] = plus
      /\ \A n \in 0 .. N : carry[n] \in Nat
      /\ \A n \in 1 .. N : carry[n] = (v[n] * scale + carry[n - 1]) \div Base
  BY CarriesAre
<1> HIDE DEF carry
<1>2. 0 \in T
  BY <1>0, <1>1
<1>3. ASSUME NEW n \in 0 .. (N - 1), n \in T PROVE n + 1 \in T
  <2>1. n + 1 \in 1 .. N /\ n + 1 \in 0 .. N /\ (n + 1) - 1 = n
    BY <1>0
  <2> DEFINE x == v[n + 1]
             c == carry[n]
             y == x * scale + c
  <2>2. x \in Nat /\ x <= Base - 1 /\ c \in Nat /\ c <= K /\ carry[n + 1] = y \div Base
    BY <1>0, <1>1, <1>3, <2>1
  <2> HIDE DEF x, c
  <2>3. x * scale <= (Base - 1) * (K + 1)
    <3>1. x * scale <= (Base - 1) * scale
      BY <1>0, <2>2, TimesMonotone
    <3>2. (Base - 1) * scale <= (Base - 1) * (K + 1)
      <4>1. Base - 1 \in Nat /\ K + 1 \in Nat
        BY <1>0
      <4> QED
        BY <1>0, <4>1, Monotone
    <3>3. x * scale \in Nat /\ (Base - 1) * scale \in Nat /\ (Base - 1) * (K + 1) \in Nat
      <4>1. Base - 1 \in Nat /\ K + 1 \in Nat
        BY <1>0
      <4> QED
        BY <1>0, <2>2, <4>1, Closed
    <3> QED
      BY <3>1, <3>2, <3>3
  <2>4. (Base - 1) * (K + 1) = Base * (K + 1) - (K + 1)
    BY <1>0
  <2>5. x * scale \in Nat /\ Base * (K + 1) \in Nat
    BY <1>0, <2>2
  <2>6. y \in Nat /\ y < Base * (K + 1)
    <3> DEFINE A == x * scale
               B == Base * (K + 1)
    <3>1. A \in Nat /\ B \in Nat /\ A <= B - (K + 1) /\ y = A + c
      BY <2>3, <2>4, <2>5
    <3> HIDE DEF A, B, y
    <3>2. y \in Nat /\ y < B
      BY <1>0, <2>2, <3>1
    <3> QED
      BY <3>2 DEF B
  <2> HIDE DEF y
  <2> DEFINE q == y \div Base
             r == y % Base
  <2>7. q \in Nat /\ r \in Nat /\ y = q * Base + r
    BY <1>0, <2>6, DivModIs
  <2> HIDE DEF q, r
  <2>8. q < K + 1
    <3> SUFFICES ASSUME q >= K + 1 PROVE FALSE
      BY <1>0, <2>7
    <3>1. q * Base >= Base * (K + 1)
      <4>1. K + 1 \in Nat /\ K + 1 <= q
        BY <1>0, <2>7
      <4>2. Base * (K + 1) <= Base * q
        BY <1>0, <2>7, <4>1, Monotone
      <4>3. Base * q = q * Base /\ Base * q \in Nat /\ Base * (K + 1) \in Nat
        BY <1>0, <2>7, <4>1
      <4> QED
        BY <4>2, <4>3
    <3>2. q * Base \in Nat
      BY <1>0, <2>7
    <3> QED
      BY <2>5, <2>6, <2>7, <3>1, <3>2
  <2>9. q <= K /\ carry[n + 1] = q
    BY <1>0, <2>2, <2>7, <2>8 DEF q
  <2> QED
    BY <2>1, <2>9
<1> HIDE DEF T
<1>4. 0 .. N \subseteq T
  <2> HIDE DEF N
  <2> QED
    BY <1>0, <1>2, <1>3, UpTo
<1> QED
  BY <1>4 DEF T, carry

ScaledFacts(v, scale, plus, carry, p) ==
  /\ p \in Seq(Limb) /\ Len(p) = Len(v)
  /\ \A n \in 1 .. Len(v) : v[n] * scale + carry[n - 1] = carry[n] * Base + p[n]
  /\ ValueOf(p) + carry[Len(v)] * Weight(Len(v) + 1) = ValueOf(v) * scale + plus

\* What is scaled limb by limb, with what is carried, makes up the scaled.
LEMMA ScaledIs ==
  ASSUME NEW v \in Seq(Limb), NEW scale \in Limb, NEW plus \in Limb,
         NEW carry, carry = LimbCarries(v, scale, plus),
         NEW p, p = ScaledLimbs(v, scale, carry)
  PROVE  ScaledFacts(v, scale, plus, carry, p)
<1> DEFINE N == Len(v)
<1>0. /\ N \in Nat /\ scale \in Nat /\ plus \in Nat /\ Base \in Nat \ {0}
      /\ \A n \in 1 .. N : v[n] \in Nat /\ v[n] < Base
  BY LimbsAre, BaseIs
<1>1. /\ carry[0] = plus
      /\ \A n \in 0 .. N : carry[n] \in Nat
      /\ \A n \in 1 .. N : carry[n] = (v[n] * scale + carry[n - 1]) \div Base
  BY CarriesAre
<1>2. ASSUME NEW n \in 1 .. N
      PROVE  /\ (v[n] * scale + carry[n - 1]) % Base \in Limb
             /\ v[n] * scale + carry[n - 1]
                  = carry[n] * Base + ((v[n] * scale + carry[n - 1]) % Base)
  <2> DEFINE y == v[n] * scale + carry[n - 1]
  <2>1. n - 1 \in 0 .. N
    BY <1>0
  <2>2. carry[n - 1] \in Nat /\ v[n] \in Nat
    BY <1>0, <1>1, <2>1
  <2>3. y \in Nat /\ carry[n] = y \div Base
    <3>1. v[n] * scale \in Nat
      BY <1>0, <2>2, Closed
    <3>2. y \in Nat
      BY <2>2, <3>1, Closed
    <3> QED
      BY <1>1, <3>2
  <2> HIDE DEF y
  <2>4. y % Base \in Nat /\ y % Base < Base /\ y = (y \div Base) * Base + (y % Base)
    BY <1>0, <2>3, DivModIs
  <2> QED
    BY <2>3, <2>4, BaseIs DEF y
<1>3. p = [n \in 1 .. N |-> (v[n] * scale + carry[n - 1]) % Base]
  BY DEF ScaledLimbs
<1>4. p \in Seq(Limb) /\ Len(p) = N
  BY <1>0, <1>2, <1>3
<1>5. ASSUME NEW n \in 1 .. N PROVE v[n] * scale + carry[n - 1] = carry[n] * Base + p[n] /\ p[n] \in Nat
  BY <1>2, <1>3, BaseIs
<1> DEFINE l == LowValues(p)
           m == LowValues(v)
           T == {n \in 0 .. N : l[n] + carry[n] * Weight(n + 1) = m[n] * scale + plus}
<1>6. /\ l[0] = 0 /\ m[0] = 0
      /\ \A n \in 1 .. N : /\ l[n - 1] \in Nat /\ l[n] = l[n - 1] + p[n] * Weight(n)
                           /\ m[n - 1] \in Nat /\ m[n] = m[n - 1] + v[n] * Weight(n)
  BY <1>4, LowIs
<1> HIDE DEF l, m
<1>7. 0 \in T
  <2>1. Weight(0 + 1) = 1
    BY WeightIs
  <2> QED
    BY <1>0, <1>1, <1>6, <2>1
<1>8. ASSUME NEW n \in 0 .. (N - 1), n \in T PROVE n + 1 \in T
  <2>1. n + 1 \in 1 .. N /\ n + 1 \in 0 .. N /\ (n + 1) - 1 = n /\ n + 1 \in Nat \ {0} /\ n \in 0 .. N
    BY <1>0
  <2> DEFINE k == n + 1
             W == Weight(k)
             x == v[k]
             c == carry[n]
             q == carry[k]
             r == p[k]
  <2>2. W \in Nat /\ Weight(k + 1) = Base * W
    BY <2>1, WeightIs
  <2>3. x \in Nat /\ c \in Nat /\ q \in Nat /\ r \in Nat /\ x * scale + c = q * Base + r
    <3>1. x * scale + carry[k - 1] = q * Base + r /\ r \in Nat
      BY <1>5, <2>1
    <3>2. x \in Nat /\ c \in Nat /\ q \in Nat
      BY <1>0, <1>1, <2>1
    <3> QED
      BY <2>1, <3>1, <3>2
  <2>4. /\ l[n] \in Nat /\ m[n] \in Nat /\ l[k] = l[n] + r * W /\ m[k] = m[n] + x * W
        /\ l[n] + c * W = m[n] * scale + plus
    BY <1>6, <1>8, <2>1
  <2> HIDE DEF k, W, x, c, q, r
  <2>5. (x * scale + c) * W = (q * Base + r) * W
    BY <2>3
  <2>6. (x * scale + c) * W = (x * W) * scale + c * W
    BY <1>0, <2>2, <2>3
  <2>7. (q * Base + r) * W = q * (Base * W) + r * W
    BY <1>0, <2>2, <2>3
  <2>8. (m[n] + x * W) * scale = m[n] * scale + (x * W) * scale
    <3>1. x * W \in Nat /\ m[n] \in Nat
      BY <2>2, <2>3, <2>4, Closed
    <3> QED
      BY <1>0, <3>1, Distributes
  <2>9. /\ x * W \in Nat /\ (x * W) * scale \in Nat /\ c * W \in Nat /\ q * (Base * W) \in Nat
        /\ r * W \in Nat /\ m[n] * scale \in Nat
    BY <1>0, <2>2, <2>3, <2>4, Closed
  <2>10. l[k] + q * (Base * W) = m[k] * scale + plus
    <3> DEFINE A == (x * W) * scale
               B == c * W
               C == q * (Base * W)
               D == r * W
               E == m[n] * scale
               F == m[k] * scale
               a == l[n]
               b == l[k]
    <3>1. A + B = C + D /\ F = E + A /\ a + B = E + plus /\ b = a + D
      BY <2>4, <2>5, <2>6, <2>7, <2>8
    <3>2. A \in Nat /\ B \in Nat /\ C \in Nat /\ D \in Nat /\ E \in Nat /\ a \in Nat /\ plus \in Nat
      BY <1>0, <2>4, <2>9
    <3> HIDE DEF A, B, C, D, E, F, a, b
    <3>3. b + C = F + plus
      BY <3>1, <3>2
    <3> QED
      BY <3>3 DEF C, F, b
  <2> QED
    BY <2>1, <2>2, <2>10 DEF k, q
<1> HIDE DEF T
<1>9. 0 .. N \subseteq T
  <2> HIDE DEF N
  <2> QED
    BY <1>0, <1>7, <1>8, UpTo
<1>10. N \in T
  BY <1>0, <1>9
<1> QED
  BY <1>4, <1>5, <1>10 DEF T, l, m, ValueOf, ScaledFacts

LEMMA NumberIs ==
  ASSUME NEW v \in Seq(Limb), Number(v)
  PROVE  /\ Len(v) \in Nat /\ Len(v) <= Limbs /\ ValueOf(v) \in Nat /\ ValueOf(v) < Weight(Len(v) + 1)
         /\ v = << >> => ValueOf(v) = 0
         /\ v # << >> => /\ Len(v) \in Nat \ {0} /\ v[Len(v)] \in Limb \ {0}
                         /\ ValueOf(v) >= Weight(Len(v)) /\ ValueOf(v) # 0
<1>1. Len(v) \in Nat /\ Len(v) <= Limbs
  BY DEF Number
<1>2. ValueOf(v) \in Nat /\ ValueOf(v) < Weight(Len(v) + 1)
  BY <1>1, LowBound DEF ValueOf
<1>3. ASSUME v = << >> PROVE ValueOf(v) = 0
  BY <1>3, LowIs DEF ValueOf
<1>4. ASSUME v # << >>
      PROVE  /\ Len(v) \in Nat \ {0} /\ v[Len(v)] \in Limb \ {0}
             /\ ValueOf(v) >= Weight(Len(v)) /\ ValueOf(v) # 0
  <2>1. Len(v) \in Nat \ {0} /\ v[Len(v)] # 0 /\ Len(v) \in 0 .. Len(v) /\ Len(v) \in 1 .. Len(v)
    BY <1>4 DEF Number
  <2>2. ValueOf(v) >= Weight(Len(v)) /\ v[Len(v)] \in Limb
    BY <2>1, LowBound, LimbsAre DEF ValueOf
  <2>3. Weight(Len(v)) \in Nat \ {0}
    BY <2>1, WeightIs
  <2> QED
    BY <1>2, <2>1, <2>2, <2>3
<1> QED
  BY <1>1, <1>2, <1>3, <1>4

\* With the last carry as a limb of its own, the scaled is a number again.
LEMMA WithCarryIs ==
  ASSUME NEW v \in Seq(Limb), NEW scale \in Limb \ {0}, NEW plus \in Limb,
         NEW carry, carry = LimbCarries(v, scale, plus),
         v = << >> \/ v[Len(v)] # 0,
         NEW w, w = WithCarry(ScaledLimbs(v, scale, carry), carry[Len(v)])
  PROVE  /\ carry[Len(v)] \in Limb
         /\ w \in Seq(Limb) /\ ValueOf(w) = ValueOf(v) * scale + plus
         /\ Len(w) = Len(v) + (IF carry[Len(v)] = 0 THEN 0 ELSE 1)
         /\ w # << >> => w[Len(w)] # 0
         /\ scale = 1 /\ plus = 0 => carry[Len(v)] = 0
         /\ carry[Len(v)] # 0 => ValueOf(v) * scale + plus >= Weight(Len(v) + 1)
<1> DEFINE N == Len(v)
           p == ScaledLimbs(v, scale, carry)
           c == carry[N]
           W == Weight(N + 1)
<1>0. N \in Nat /\ scale \in Nat \ {0} /\ plus \in Nat /\ Base \in Nat \ {0} /\ N \in 0 .. N /\ scale \in Limb
  BY LimbsAre, BaseIs
<1>1. c \in Limb
  <2> DEFINE K == Base - 1
  <2>1. K \in Limb /\ scale <= K + 1 /\ plus <= K
    BY <1>0, BaseIs
  <2> HIDE DEF K
  <2>2. c <= K /\ c \in Nat
    BY <1>0, <2>1, CarriesAreSmall, CarriesAre
  <2> QED
    BY <2>1, <2>2, BaseIs
<1>2. ASSUME scale = 1, plus = 0 PROVE c = 0
  <2>1. 0 \in Limb /\ scale <= 0 + 1 /\ plus <= 0
    BY <1>2, BaseIs
  <2>2. c <= 0
    BY <1>0, <2>1, CarriesAreSmall
  <2> QED
    BY <1>1, <2>2, BaseIs
<1>3. /\ p \in Seq(Limb) /\ Len(p) = N
      /\ \A n \in 1 .. N : v[n] * scale + carry[n - 1] = carry[n] * Base + p[n]
      /\ ValueOf(p) + c * W = ValueOf(v) * scale + plus
  <2>1. p = ScaledLimbs(v, scale, carry) /\ scale \in Limb
    BY <1>0
  <2> HIDE DEF p, N, c, W
  <2>2. ScaledFacts(v, scale, plus, carry, p)
    BY <2>1, ScaledIs
  <2> QED
    BY <2>2 DEF ScaledFacts, N, c, W
<1>4. W \in Nat \ {0} /\ c \in Nat
  BY <1>0, <1>1, WeightIs, BaseIs
<1>5. ValueOf(p) \in Nat
  BY <1>3, <1>0, LowBound DEF ValueOf
<1>6. w = IF c = 0 THEN p ELSE Append(p, c)
  BY DEF WithCarry
<1> HIDE DEF p, W
<1>7. CASE c = 0
  <2>1. w = p /\ ValueOf(w) = ValueOf(v) * scale + plus
    BY <1>3, <1>4, <1>5, <1>6, <1>7
  <2>2. ASSUME w # << >> PROVE w[Len(w)] # 0
    <3>1. N # 0 /\ N \in 1 .. N /\ v # << >> /\ N - 1 \in 0 .. N
      BY <1>0, <1>3, <2>1, <2>2
    <3>2. v[N] \in Nat \ {0} /\ carry[N - 1] \in Nat /\ p[N] \in Nat
      BY <1>0, <1>3, <3>1, LimbsAre, CarriesAre
    <3>3. v[N] * scale + carry[N - 1] = c * Base + p[N]
      BY <1>3, <3>1
    <3> DEFINE x == v[N]
               d == carry[N - 1]
               y == p[N]
    <3>4. x * scale + d = y /\ x \in Nat \ {0} /\ d \in Nat /\ y \in Nat
      BY <1>0, <1>7, <3>2, <3>3
    <3> HIDE DEF x, d, y
    <3>5. x * scale \in Nat \ {0}
      BY <1>0, <3>4
    <3>6. y # 0
      BY <3>4, <3>5
    <3> QED
      BY <1>3, <2>1, <3>6 DEF y
  <2> QED
    BY <1>0, <1>1, <1>3, <1>7, <2>1, <2>2
<1>8. CASE c # 0
  <2>1. w = Append(p, c)
    BY <1>6, <1>8
  <2>2. w \in Seq(Limb) /\ ValueOf(w) = ValueOf(p) + c * W
    BY <1>1, <1>3, <2>1, AppendIs DEF W
  <2>3. Len(w) = N + 1 /\ w[N + 1] = c
    BY <1>3, <2>1
  <2>4. ValueOf(v) * scale + plus >= W
    <3>1. c * W >= W /\ c * W \in Nat
      BY <1>4, <1>8
    <3> QED
      BY <1>3, <1>4, <1>5, <3>1
  <2> QED
    BY <1>1, <1>2, <1>3, <1>8, <2>2, <2>3, <2>4 DEF W
<1> QED
  BY <1>7, <1>8

LEMMA WeightSum ==
  ASSUME NEW m \in Nat, NEW n \in Nat \ {0}
  PROVE  Weight(m + n) = Weight(m + 1) * Weight(n)
<1>1. LimbBits \in Nat /\ n - 1 \in Nat /\ (n - 1) + 1 = n /\ (m + (n - 1)) + 1 = m + n /\ m + (n - 1) \in Nat
  BY BigAssumption
<1>2. /\ Weight(m + n) = TwoTo[LimbBits * (m + (n - 1))]
      /\ Weight(m + 1) = TwoTo[LimbBits * m] /\ Weight(n) = TwoTo[LimbBits * (n - 1)]
  BY <1>1, WeightIs
<1>3. /\ LimbBits * (m + (n - 1)) = LimbBits * m + LimbBits * (n - 1)
      /\ LimbBits * m \in Nat /\ LimbBits * (n - 1) \in Nat
  BY <1>1
<1> QED
  BY <1>2, <1>3, TwoToSum

\* Zeros below shift a number by whole limbs.
LEMMA ZerosBelow ==
  ASSUME NEW w \in Seq(Limb), NEW words \in Nat,
         NEW z, z = [i \in 1 .. words |-> 0] \o w
  PROVE  /\ z \in Seq(Limb) /\ Len(z) = words + Len(w)
         /\ w # << >> => z[Len(z)] = w[Len(w)]
         /\ ValueOf(z) = Weight(words + 1) * ValueOf(w)
<1> DEFINE zeros == [i \in 1 .. words |-> 0]
<1>1. zeros \in Seq(Limb) /\ Len(zeros) = words /\ \A i \in 1 .. words : zeros[i] = 0
  BY BaseIs
<1> HIDE DEF zeros
<1>2. z = zeros \o w
  BY DEF zeros
<1>3. z \in Seq(Limb) /\ Len(z) = words + Len(w) /\ Len(w) \in Nat
  BY <1>1, <1>2
<1>4. \A i \in 1 .. words : z[i] = 0
  BY <1>1, <1>2, <1>3
<1>5. \A i \in 1 .. Len(w) : z[words + i] = w[i]
  BY <1>1, <1>2, <1>3
<1> DEFINE N == Len(w)
           l == LowValues(z)
           m == LowValues(w)
           V == Weight(words + 1)
           States == {n \in 0 .. words : l[n] = 0}
           T == {n \in 0 .. N : l[words + n] = V * m[n]}
<1>6. /\ l[0] = 0 /\ m[0] = 0 /\ V \in Nat
      /\ \A n \in 1 .. (words + N) : l[n - 1] \in Nat /\ l[n] = l[n - 1] + z[n] * Weight(n)
      /\ \A n \in 1 .. N : m[n - 1] \in Nat /\ m[n] = m[n - 1] + w[n] * Weight(n)
  BY <1>3, LowIs, WeightIs
<1> HIDE DEF l, m, V
<1>7. 0 .. words \subseteq States
  <2>1. 0 \in States
    BY <1>6
  <2>2. ASSUME NEW n \in 0 .. (words - 1), n \in States PROVE n + 1 \in States
    <3>1. n + 1 \in 1 .. words /\ n + 1 \in 1 .. (words + N) /\ (n + 1) - 1 = n /\ n \in Nat /\ n + 1 \in 0 .. words
      BY <1>3
    <3>2. l[n + 1] = l[n] + z[n + 1] * Weight(n + 1) /\ z[n + 1] = 0 /\ Weight(n + 1) \in Nat /\ l[n] = 0
      BY <1>4, <1>6, <2>2, <3>1, WeightIs
    <3> QED
      BY <3>1, <3>2
  <2> HIDE DEF States
  <2> QED
    BY <2>1, <2>2, UpTo
<1>8. 0 \in T
  <2>1. words \in 0 .. words
    OBVIOUS
  <2>2. l[words] = 0
    BY <1>7, <2>1
  <2> QED
    BY <1>3, <1>6, <2>2
<1>9. ASSUME NEW n \in 0 .. (N - 1), n \in T PROVE n + 1 \in T
  <2> DEFINE k == n + 1
             W == Weight(k)
             x == w[k]
  <2>1. /\ k \in 1 .. N /\ k - 1 = n /\ words + k \in 1 .. (words + N) /\ (words + k) - 1 = words + n
        /\ k \in Nat \ {0} /\ k \in 0 .. N
    BY <1>3
  <2>2. Weight(words + k) = V * W /\ W \in Nat /\ x \in Nat
    BY <1>3, <2>1, WeightSum, WeightIs, LimbsAre DEF V
  <2>3. l[words + k] = l[words + n] + z[words + k] * Weight(words + k) /\ z[words + k] = x
    BY <1>5, <1>6, <2>1
  <2>4. m[k] = m[n] + x * W /\ m[n] \in Nat /\ l[words + n] = V * m[n]
    BY <1>6, <1>9, <2>1
  <2> HIDE DEF k, W, x
  <2>5. x * (V * W) = V * (x * W)
    BY <1>6, <2>2
  <2>6. V * (m[n] + x * W) = V * m[n] + V * (x * W)
    <3>1. x * W \in Nat
      BY <2>2, Closed
    <3> QED
      BY <1>6, <2>4, <3>1
  <2>7. l[words + k] = V * m[k]
    BY <2>2, <2>3, <2>4, <2>5, <2>6
  <2> QED
    BY <2>1, <2>7 DEF k
<1> HIDE DEF T
<1>10. 0 .. N \subseteq T
  <2>1. N \in Nat
    BY <1>3
  <2> HIDE DEF N
  <2> QED
    BY <2>1, <1>8, <1>9, UpTo
<1>11. N \in T
  BY <1>3, <1>10
<1>12. ASSUME w # << >> PROVE z[Len(z)] = w[Len(w)]
  <2>1. Len(w) \in 1 .. Len(w)
    BY <1>3, <1>12
  <2> QED
    BY <1>3, <1>5, <2>1
<1> QED
  BY <1>3, <1>11, <1>12 DEF T, l, m, V, ValueOf

(* A scaled is exact, or has no room for its last carry.                    *)

LEMMA ProductIsExact ==
  ASSUME NEW v \in Seq(Limb), Number(v), NEW scale \in Limb \ {0}, NEW plus \in Limb \ {0}
  PROVE  LET scaled == big_mul_add_small(v, scale, plus)
             exact == ValueOf(v) * scale + plus
         IN  IF scaled = Refused THEN exact >= TwoTo[LimbBits * Limbs]
             ELSE scaled \in Seq(Limb) /\ Is(scaled, exact)
<1> DEFINE carry == LimbCarries(v, scale, plus)
           w == WithCarry(ScaledLimbs(v, scale, carry), carry[Len(v)])
           exact == ValueOf(v) * scale + plus
           N == Len(v)
           c == carry[N]
<1>1. N \in Nat /\ N <= Limbs /\ Limbs \in Nat \ {0} /\ (v = << >> \/ v[N] # 0)
  BY NumberIs, BigAssumption DEF Number
<1>2. /\ w \in Seq(Limb) /\ ValueOf(w) = exact /\ Len(w) = N + (IF c = 0 THEN 0 ELSE 1)
      /\ w # << >> => w[Len(w)] # 0
      /\ c # 0 => exact >= Weight(N + 1)
  <2>1. carry = LimbCarries(v, scale, plus)
    OBVIOUS
  <2> HIDE DEF carry
  <2>2. w = WithCarry(ScaledLimbs(v, scale, carry), carry[Len(v)])
    OBVIOUS
  <2> HIDE DEF w
  <2> QED
    BY <1>1, <2>1, <2>2, WithCarryIs
<1>3. big_mul_add_small(v, scale, plus) = IF c # 0 /\ N >= Limbs THEN Refused ELSE w
  BY DEF big_mul_add_small
<1> HIDE DEF w, c, exact
<1>4. w # Refused
  BY <1>2, RefusedAssumption
<1>5. CASE c # 0 /\ N >= Limbs
  <2>1. N = Limbs /\ Weight(N + 1) = TwoTo[LimbBits * Limbs]
    BY <1>1, <1>5, WeightIs
  <2> QED
    BY <1>2, <1>3, <1>5, <2>1 DEF exact
<1>6. CASE ~ (c # 0 /\ N >= Limbs)
  <2>1. Len(w) <= Limbs
    BY <1>1, <1>2, <1>6
  <2>2. Is(w, exact)
    BY <1>2, <1>4, <2>1 DEF Is, Number
  <2> QED
    BY <1>2, <1>3, <1>4, <1>6, <2>2 DEF exact
<1> QED
  BY <1>5, <1>6

(* A shift is exact, or refused for want of room for a part of a limb.       *)

LEMMA ShiftIsExact ==
  ASSUME NEW v \in Seq(Limb), Number(v), NEW shift \in Nat
  PROVE  LET shifted == big_shift_left(v, shift)
             moved == ValueOf(v) * TwoTo[shift]
         IN  /\ v = << >> \/ shift = 0
                  \/ (NoRoom(v, shift \div LimbBits, shift % LimbBits) <=> shifted = Refused)
             /\ v = << >> \/ shift = 0 => shifted # Refused
             /\ IF shifted = Refused THEN moved * Base > TwoTo[LimbBits * Limbs]
                ELSE shifted \in Seq(Limb) /\ Is(shifted, moved)
<1> DEFINE words == shift \div LimbBits
           bits == shift % LimbBits
           carry == LimbCarries(v, TwoTo[bits], 0)
           w == WithCarry(ScaledLimbs(v, TwoTo[bits], carry), carry[Len(v)])
           z == [i \in 1 .. words |-> 0] \o w
           N == Len(v)
           c == carry[N]
           moved == ValueOf(v) * TwoTo[shift]
           shifted == big_shift_left(v, shift)
<1>0. /\ LimbBits \in Nat \ {0} /\ Limbs \in Nat \ {0} /\ words \in Nat /\ bits \in Nat /\ bits < LimbBits
      /\ shift = words * LimbBits + bits
  BY BigAssumption, DivModIs
<1>1. /\ N \in Nat /\ N <= Limbs /\ (v = << >> \/ v[N] # 0) /\ ValueOf(v) \in Nat
      /\ v # << >> => N # 0 /\ ValueOf(v) >= Weight(N)
  BY NumberIs DEF Number
<1> HIDE DEF words, bits
<1>2. /\ TwoTo[bits] \in Limb \ {0} /\ 0 \in Limb /\ (bits = 0 => TwoTo[bits] = 1)
      /\ TwoTo[bits] \in Nat \ {0} /\ (bits > 0 => TwoTo[bits] > 1)
  <2>1. 2 * TwoTo[bits] <= Base
    BY <1>0, TwoToGrows DEF Base
  <2>2. bits > 0 => 2 * TwoTo[0] <= TwoTo[bits]
    BY <1>0, TwoToGrows
  <2>3. TwoTo[bits] \in Nat \ {0} /\ TwoTo[0] = 1
    BY <1>0, TwoToIs
  <2>4. bits = 0 => TwoTo[bits] = 1
    BY <2>3
  <2> DEFINE t == TwoTo[bits]
  <2> HIDE DEF t
  <2>5. t \in Nat \ {0} /\ 2 * t <= Base /\ (bits > 0 => 2 <= t) /\ Base \in Nat
    BY <2>1, <2>2, <2>3, BaseIs DEF t
  <2>6. t \in Limb /\ 0 \in Limb
    BY <2>5, BaseIs
  <2> QED
    BY <2>4, <2>5, <2>6 DEF t
<1>3. /\ w \in Seq(Limb) /\ ValueOf(w) = ValueOf(v) * TwoTo[bits] /\ Len(w) = N + (IF c = 0 THEN 0 ELSE 1)
      /\ w # << >> => w[Len(w)] # 0
      /\ bits = 0 => c = 0
  <2> DEFINE scale == TwoTo[bits]
  <2>1. scale \in Limb \ {0} /\ 0 \in Limb /\ carry = LimbCarries(v, scale, 0)
    BY <1>2
  <2>2. w = WithCarry(ScaledLimbs(v, scale, carry), carry[Len(v)])
    OBVIOUS
  <2> HIDE DEF scale, carry, w
  <2>3. /\ w \in Seq(Limb) /\ ValueOf(w) = ValueOf(v) * scale + 0 /\ Len(w) = N + (IF c = 0 THEN 0 ELSE 1)
        /\ w # << >> => w[Len(w)] # 0
        /\ scale = 1 /\ 0 = 0 => c = 0
    BY <1>1, <2>1, <2>2, WithCarryIs
  <2>4. ValueOf(v) * scale \in Nat
    BY <1>1, <1>2, Closed DEF scale
  <2>5. ValueOf(v) * scale + 0 = ValueOf(v) * scale
    BY <2>4
  <2>6. bits = 0 => scale = 1
    BY <1>2 DEF scale
  <2> QED
    BY <2>3, <2>5, <2>6 DEF scale
<1> HIDE DEF carry, c
<1>4. /\ z \in Seq(Limb) /\ Len(z) = words + Len(w)
      /\ w # << >> => z[Len(z)] = w[Len(w)]
      /\ ValueOf(z) = Weight(words + 1) * ValueOf(w)
  <2>1. z = [i \in 1 .. words |-> 0] \o w
    OBVIOUS
  <2> HIDE DEF z, w
  <2> QED
    BY <1>0, <1>3, <2>1, ZerosBelow
<1>5. big_shift_left(v, shift) = IF v = << >> \/ shift = 0 THEN v
                                 ELSE IF NoRoom(v, words, bits) THEN Refused ELSE z
  BY DEF big_shift_left, words, bits, carry, c
<1> HIDE DEF z
<1>6. v # Refused /\ z # Refused
  BY <1>4, RefusedAssumption
<1>7. TwoTo[shift] = Weight(words + 1) * TwoTo[bits] /\ Weight(words + 1) \in Nat \ {0}
  <2>1. shift = LimbBits * words + bits /\ LimbBits * words \in Nat
    BY <1>0
  <2> QED
    BY <1>0, <2>1, TwoToSum, WeightIs
<1>8. CASE v = << >>
  <2>1. ValueOf(v) = 0 /\ TwoTo[shift] \in Nat
    BY <1>8, NumberIs, TwoToIs
  <2>2. 0 * TwoTo[shift] = 0
    BY <2>1
  <2> QED
    BY <1>5, <1>6, <1>8, <2>1, <2>2 DEF Is
<1>9. CASE shift = 0
  <2>1. ValueOf(v) * TwoTo[shift] = ValueOf(v)
    BY <1>1, <1>9, TwoToIs
  <2> QED
    BY <1>5, <1>6, <1>9, <2>1 DEF Is
<1>10. CASE v # << >> /\ shift # 0 /\ NoRoom(v, words, bits)
  <2>1. shifted = Refused
    BY <1>5, <1>10
  <2> DEFINE V == Weight(words + 1)
             W == Weight(N)
             t == TwoTo[bits]
             x == ValueOf(v)
             M == words + N
  <2>2. V \in Nat \ {0} /\ W \in Nat \ {0} /\ t \in Nat \ {0} /\ x \in Nat /\ x >= W /\ N \in Nat \ {0}
    BY <1>1, <1>2, <1>7, <1>10, WeightIs
  <2>3. V * W = Weight(M) /\ M \in Nat \ {0}
    BY <1>0, <2>2, WeightSum
  <2>4. Weight(M + 1) = Base * Weight(M) /\ Weight(M) \in Nat \ {0} /\ Weight(M + 1) = TwoTo[LimbBits * M]
    BY <2>3, WeightIs
  <2> HIDE DEF V, W, t, x, M
  <2>5. (x * (V * t)) * Base >= TwoTo[LimbBits * M] * t
    <3>1. x * (V * t) >= W * (V * t)
      <4>1. V * t \in Nat
        BY <2>2, Closed
      <4> QED
        BY <2>2, <4>1
    <3>2. W * (V * t) = Weight(M) * t
      BY <2>2, <2>3
    <3>3. x * (V * t) \in Nat /\ Weight(M) * t \in Nat /\ Base \in Nat
      BY <2>2, <2>4, Closed, BaseIs
    <3>4. (x * (V * t)) * Base >= (Weight(M) * t) * Base
      <4> DEFINE a == x * (V * t)
                 b == Weight(M) * t
      <4>1. a \in Nat /\ b \in Nat /\ a >= b
        BY <3>1, <3>2, <3>3
      <4> HIDE DEF a, b
      <4>2. a * Base >= b * Base
        BY <3>3, <4>1
      <4> QED
        BY <4>2 DEF a, b
    <3>5. (Weight(M) * t) * Base = (Base * Weight(M)) * t
      BY <2>2, <2>4, <3>3
    <3> QED
      BY <2>4, <3>4, <3>5
  <2>6. TwoTo[LimbBits * M] * t > TwoTo[LimbBits * Limbs]
    <3>1. M + (IF bits > 0 THEN 1 ELSE 0) > Limbs
      BY <1>10 DEF NoRoom, M
    <3>2. CASE bits > 0
      <4>1. M >= Limbs /\ t >= 2
        BY <1>0, <1>2, <2>2, <2>3, <3>1, <3>2 DEF t
      <4>2. LimbBits * Limbs <= LimbBits * M /\ LimbBits * Limbs \in Nat /\ LimbBits * M \in Nat
        BY <1>0, <2>3, <4>1
      <4>3. TwoTo[LimbBits * Limbs] <= TwoTo[LimbBits * M]
        BY <4>2, TwoToGrows
      <4> DEFINE a == TwoTo[LimbBits * Limbs]
                 b == TwoTo[LimbBits * M]
      <4>4. a \in Nat \ {0} /\ b \in Nat \ {0} /\ a <= b
        BY <4>2, <4>3, TwoToIs
      <4> HIDE DEF a, b
      <4>5. b * t >= b * 2
        BY <2>2, <4>1, <4>4
      <4>6. b * t > a
        BY <2>2, <4>4, <4>5
      <4> QED
        BY <4>6 DEF a, b
    <3>3. CASE bits = 0
      <4>1. M > Limbs /\ t = 1
        BY <1>0, <1>2, <2>3, <3>1, <3>3 DEF t
      <4>2. LimbBits * Limbs < LimbBits * M /\ LimbBits * Limbs \in Nat /\ LimbBits * M \in Nat
        BY <1>0, <2>3, <4>1
      <4>3. 2 * TwoTo[LimbBits * Limbs] <= TwoTo[LimbBits * M]
        BY <4>2, TwoToGrows
      <4>4. TwoTo[LimbBits * Limbs] \in Nat \ {0} /\ TwoTo[LimbBits * M] \in Nat \ {0}
        BY <4>2, TwoToIs
      <4> QED
        BY <4>1, <4>3, <4>4
    <3> QED
      BY <1>0, <3>2, <3>3
  <2>7. moved = x * (V * t)
    BY <1>7 DEF x, V, t
  <2>8. moved * Base > TwoTo[LimbBits * Limbs]
    <3> DEFINE a == (x * (V * t)) * Base
               b == TwoTo[LimbBits * M] * t
               d == TwoTo[LimbBits * Limbs]
    <3>1. a >= b /\ b > d
      BY <2>5, <2>6
    <3>2. a \in Nat /\ b \in Nat /\ d \in Nat
      <4>1. LimbBits * M \in Nat /\ LimbBits * Limbs \in Nat
        BY <1>0, <2>3, Closed
      <4>2. TwoTo[LimbBits * M] \in Nat /\ d \in Nat
        BY <4>1, TwoToIs
      <4>3. x * (V * t) \in Nat
        BY <2>2, Closed
      <4> QED
        BY <2>2, <4>2, <4>3, Closed, BaseIs
    <3>3. a = moved * Base
      BY <2>7
    <3> HIDE DEF a, b, d, moved
    <3>4. a > d
      BY <3>1, <3>2
    <3> QED
      BY <3>3, <3>4 DEF d
  <2> QED
    BY <1>10, <2>1, <2>8 DEF words, bits
<1>11. CASE v # << >> /\ shift # 0 /\ ~NoRoom(v, words, bits)
  <2>1. shifted = z
    BY <1>5, <1>11
  <2>2. ~(words + N + (IF bits > 0 THEN 1 ELSE 0) > Limbs)
    BY <1>11 DEF NoRoom
  <2>3. Len(z) <= Limbs
    BY <1>0, <1>1, <1>3, <1>4, <2>2
  <2>4. w # << >>
    <3>1. Len(w) # 0
      BY <1>1, <1>3, <1>11
    <3> HIDE DEF w
    <3> QED
      BY <3>1
  <2>5. ValueOf(z) = ValueOf(v) * TwoTo[shift]
    <3> DEFINE V == Weight(words + 1)
               t == TwoTo[bits]
               x == ValueOf(v)
    <3>1. V \in Nat /\ t \in Nat /\ x \in Nat /\ ValueOf(z) = V * (x * t) /\ TwoTo[shift] = V * t
      BY <1>1, <1>2, <1>3, <1>4, <1>7
    <3> HIDE DEF V, t, x
    <3>2. V * (x * t) = x * (V * t)
      BY <3>1
    <3> QED
      BY <3>1, <3>2 DEF x
  <2>6. Is(z, moved)
    BY <1>3, <1>4, <1>6, <2>3, <2>4, <2>5 DEF Is, Number
  <2> QED
    BY <1>4, <1>6, <1>11, <2>1, <2>6 DEF words, bits
<1> QED
  BY <1>8, <1>9, <1>10, <1>11

(* Comparing.                                                                *)

LEMMA WeightGrows ==
  ASSUME NEW m \in Nat \ {0}, NEW n \in Nat \ {0}, m <= n
  PROVE  Weight(m) <= Weight(n)
<1>1. m - 1 \in Nat /\ (m - 1) + 1 = m /\ n - 1 \in Nat /\ (n - 1) + 1 = n /\ LimbBits \in Nat
  BY BigAssumption
<1> DEFINE a == m - 1
           b == n - 1
<1>2. a \in Nat /\ b \in Nat /\ a <= b /\ a + 1 = m /\ b + 1 = n
  BY <1>1
<1> HIDE DEF a, b
<1>3. LimbBits * a \in Nat /\ LimbBits * b \in Nat /\ LimbBits * a <= LimbBits * b
  BY <1>1, <1>2
<1>4. TwoTo[LimbBits * a] <= TwoTo[LimbBits * b]
  BY <1>3, TwoToGrows
<1> QED
  BY <1>2, <1>4, WeightIs

\* The highest limb that differs decides.
LEMMA HighestDecides ==
  ASSUME NEW v \in Seq(Limb), NEW w \in Seq(Limb), Len(v) = Len(w),
         NEW i \in 1 .. Len(v), v[i] < w[i], \A j \in (i + 1) .. Len(v) : v[j] = w[j]
  PROVE  ValueOf(v) < ValueOf(w)
<1> DEFINE N == Len(v)
           l == LowValues(v)
           m == LowValues(w)
           T == {n \in 0 .. (N - i) : l[i + n] < m[i + n]}
<1>1. N \in Nat /\ i \in Nat \ {0} /\ N - i \in Nat /\ i - 1 \in 0 .. N /\ (i - 1) + 1 = i
  OBVIOUS
<1>2. /\ \A n \in 0 .. N : l[n] \in Nat /\ m[n] \in Nat
      /\ \A n \in 1 .. N : /\ l[n - 1] \in Nat /\ l[n] = l[n - 1] + v[n] * Weight(n)
                           /\ m[n - 1] \in Nat /\ m[n] = m[n - 1] + w[n] * Weight(n)
  BY LowIs
<1>3. l[i - 1] < Weight(i)
  BY <1>1, LowBound
<1> HIDE DEF l, m
<1>4. 0 \in T
  <2> DEFINE W == Weight(i)
             x == v[i]
             y == w[i]
  <2>1. W \in Nat \ {0} /\ x \in Nat /\ y \in Nat /\ x < y
    BY <1>1, WeightIs, LimbsAre
  <2>2. l[i - 1] \in Nat /\ m[i - 1] \in Nat /\ l[i] = l[i - 1] + x * W /\ m[i] = m[i - 1] + y * W /\ l[i - 1] < W
    BY <1>1, <1>2, <1>3
  <2> HIDE DEF W, x, y
  <2>3. (x + 1) * W <= y * W
    BY <2>1
  <2>4. (x + 1) * W = x * W + W
    BY <2>1
  <2>5. x * W \in Nat /\ y * W \in Nat
    BY <2>1, Closed
  <2>6. l[i] < m[i]
    <3> DEFINE A == x * W
               B == y * W
    <3>1. A \in Nat /\ B \in Nat /\ A + W <= B /\ l[i] = l[i - 1] + A /\ m[i] = m[i - 1] + B
      BY <2>2, <2>3, <2>4, <2>5
    <3> HIDE DEF A, B
    <3> QED
      BY <2>1, <2>2, <3>1
  <2> QED
    BY <1>1, <2>6
<1>5. ASSUME NEW n \in 0 .. ((N - i) - 1), n \in T PROVE n + 1 \in T
  <2> DEFINE k == i + (n + 1)
  <2>1. k \in 1 .. N /\ k - 1 = i + n /\ k \in (i + 1) .. N /\ k \in Nat \ {0} /\ n + 1 \in 0 .. (N - i)
    BY <1>1
  <2>2. v[k] = w[k] /\ v[k] * Weight(k) \in Nat
    BY <2>1, WeightIs, LimbsAre, Closed
  <2>3. l[k] = l[i + n] + v[k] * Weight(k) /\ m[k] = m[i + n] + v[k] * Weight(k) /\ l[i + n] \in Nat /\ m[i + n] \in Nat
    BY <1>2, <2>1, <2>2
  <2>4. l[i + n] < m[i + n]
    BY <1>5
  <2> HIDE DEF k
  <2>5. l[k] < m[k]
    BY <2>2, <2>3, <2>4
  <2> QED
    BY <2>1, <2>5 DEF k
<1> HIDE DEF T
<1>6. 0 .. (N - i) \subseteq T
  BY <1>1, <1>4, <1>5, UpTo
<1>7. N - i \in T /\ i + (N - i) = N
  BY <1>1, <1>6
<1> QED
  BY <1>7 DEF T, l, m, ValueOf

LEMMA LessIs ==
  ASSUME NEW v \in Seq(Limb), NEW w \in Seq(Limb), Number(v), Number(w)
  PROVE  IsLess(v, w) <=> ValueOf(v) < ValueOf(w)
<1>1. ASSUME NEW a \in Seq(Limb), NEW b \in Seq(Limb), Number(a), Number(b), Len(a) < Len(b)
      PROVE  ValueOf(a) < ValueOf(b)
  <2>1. /\ Len(a) \in Nat /\ Len(b) \in Nat \ {0} /\ ValueOf(a) \in Nat /\ ValueOf(b) \in Nat
        /\ ValueOf(a) < Weight(Len(a) + 1) /\ ValueOf(b) >= Weight(Len(b))
    <3>1. b # << >>
      BY <1>1
    <3> QED
      BY <1>1, <3>1, NumberIs
  <2>2. Weight(Len(a) + 1) <= Weight(Len(b)) /\ Weight(Len(a) + 1) \in Nat /\ Weight(Len(b)) \in Nat
    BY <1>1, <2>1, WeightGrows, WeightIs
  <2> DEFINE m == Len(a)
             n == Len(b)
             x == ValueOf(a)
             y == ValueOf(b)
             A == Weight(m + 1)
             B == Weight(n)
  <2>3. x < A /\ A <= B /\ B <= y /\ x \in Nat /\ y \in Nat /\ A \in Nat /\ B \in Nat
    BY <2>1, <2>2
  <2> HIDE DEF x, y, A, B
  <2>4. x < y
    BY <2>3
  <2> QED
    BY <2>4 DEF x, y
<1>2. ValueOf(v) \in Nat /\ ValueOf(w) \in Nat /\ Len(v) \in Nat /\ Len(w) \in Nat
  BY NumberIs
<1>3. CASE Len(v) < Len(w)
  BY <1>1, <1>3 DEF IsLess
<1>4. CASE Len(v) > Len(w)
  <2>1. ValueOf(w) < ValueOf(v)
    BY <1>1, <1>2, <1>4
  <2> QED
    BY <1>2, <1>4, <2>1 DEF IsLess
<1>5. CASE Len(v) = Len(w)
  <2> DEFINE N == Len(v)
             D == {n \in 0 .. N : n < N /\ v[N - n] # w[N - n]}
  <2>1. IsLess(v, w) <=> \E i \in 1 .. N : v[i] < w[i] /\ \A j \in (i + 1) .. N : v[j] = w[j]
    BY <1>2, <1>5 DEF IsLess
  <2>2. ASSUME IsLess(v, w) PROVE ValueOf(v) < ValueOf(w)
    BY <1>5, <2>1, <2>2, HighestDecides
  <2>3. ASSUME D = {} PROVE ValueOf(v) = ValueOf(w)
    <3>1. ASSUME NEW i \in 1 .. N PROVE v[i] = w[i]
      <4>1. N - i \in 0 .. N /\ N - i < N /\ N - (N - i) = i
        BY <1>2
      <4> QED
        BY <2>3, <4>1
    <3> QED
      BY <1>2, <1>5, <3>1, SameLow DEF ValueOf
  <2>4. ASSUME D # {}, ~IsLess(v, w) PROVE ValueOf(w) < ValueOf(v)
    <3>1. D \subseteq Nat
      OBVIOUS
    <3>2. PICK n \in D : \A m \in D : n <= m
      <4> HIDE DEF D
      <4> QED
        BY <2>4, <3>1, Least
    <3> DEFINE i == N - n
    <3>3. i \in 1 .. N /\ v[i] # w[i] /\ n \in Nat
      BY <1>2, <3>2
    <3>4. ASSUME NEW j \in (i + 1) .. N PROVE v[j] = w[j]
      <4>1. N - j \in 0 .. N /\ N - j < n /\ N - (N - j) = j /\ N - j < N
        BY <1>2, <3>3
      <4>2. N - j \notin D
        BY <3>2, <3>3, <4>1
      <4> QED
        BY <4>1, <4>2
    <3> HIDE DEF i
    <3>5. v[i] \in Nat /\ w[i] \in Nat
      BY <1>5, <3>3, LimbsAre
    <3>6. ~(v[i] < w[i])
      BY <2>1, <2>4, <3>3, <3>4
    <3>7. w[i] < v[i]
      BY <3>3, <3>5, <3>6
    <3> QED
      BY <1>5, <3>3, <3>4, <3>7, HighestDecides
  <2> HIDE DEF D
  <2> QED
    BY <1>2, <2>2, <2>3, <2>4
<1> QED
  BY <1>2, <1>3, <1>4, <1>5

(* The length in bits.                                                       *)

LEMMA HasBits ==
  ASSUME NEW x \in Limb \ {0}
  PROVE  /\ BitsOf(x) \in 1 .. LimbBits
         /\ TwoTo[BitsOf(x) - 1] <= x /\ x < TwoTo[BitsOf(x)]
<1> DEFINE P(n) == x \div TwoTo[n] = 0 /\ (n > 0 => x \div TwoTo[n - 1] # 0)
           T == {n \in 0 .. LimbBits : x < TwoTo[n]}
<1>1. LimbBits \in Nat \ {0} /\ x \in Nat \ {0} /\ x < TwoTo[LimbBits]
  BY BigAssumption, BaseIs DEF Base
<1>2. \A n \in Nat : TwoTo[n] \in Nat \ {0}
  BY TwoToIs
<1>3. ASSUME NEW n \in Nat PROVE x \div TwoTo[n] = 0 <=> x < TwoTo[n]
  <2> DEFINE t == TwoTo[n]
             q == x \div t
             r == x % t
  <2>1. t \in Nat \ {0} /\ q \in Nat /\ r \in Nat /\ x = q * t + r /\ r < t
    BY <1>1, <1>2, DivModIs
  <2>2. x < t => x \div t = 0
    <3> HIDE DEF t
    <3> QED
      BY <1>1, <2>1
  <2> HIDE DEF t, q, r
  <2>3. q = 0 => x < t
    <3>1. 0 * t = 0
      BY <2>1
    <3> QED
      BY <2>1, <3>1
  <2> QED
    BY <2>2, <2>3 DEF t, q
<1>4. T \subseteq Nat /\ LimbBits \in T
  BY <1>1
<1>5. PICK n \in T : \A m \in T : n <= m
  <2> HIDE DEF T
  <2> QED
    BY <1>4, Least
<1>6. n \in 0 .. LimbBits /\ x < TwoTo[n] /\ n \in Nat
  BY <1>1
<1>7. ASSUME n > 0 PROVE ~(x < TwoTo[n - 1])
  <2>1. n - 1 \in 0 .. LimbBits /\ ~(n <= n - 1)
    BY <1>1, <1>6, <1>7
  <2>2. n - 1 \notin T
    BY <1>5, <2>1
  <2> QED
    BY <2>1, <2>2
<1>8. P(n)
  <2>1. x \div TwoTo[n] = 0
    BY <1>3, <1>6
  <2>2. ASSUME n > 0 PROVE x \div TwoTo[n - 1] # 0
    <3>1. n - 1 \in Nat
      BY <1>6, <2>2
    <3> QED
      BY <1>3, <1>7, <2>2, <3>1
  <2> QED
    BY <2>1, <2>2
<1> DEFINE b == BitsOf(x)
<1>9. b \in 0 .. LimbBits /\ P(b)
  <2>1. \E m \in 0 .. LimbBits : P(m)
    BY <1>6, <1>8
  <2>2. b = CHOOSE m \in 0 .. LimbBits : P(m)
    BY DEF BitsOf
  <2> HIDE DEF P, b
  <2> QED
    BY <2>1, <2>2
<1> HIDE DEF b
<1>10. b \in Nat /\ x < TwoTo[b]
  BY <1>1, <1>3, <1>9
<1>11. b # 0
  <2>1. TwoTo[0] = 1
    BY TwoToIs
  <2> QED
    BY <1>1, <1>10, <2>1
<1>12. TwoTo[b - 1] <= x
  <2>1. b - 1 \in Nat /\ x \div TwoTo[b - 1] # 0
    BY <1>9, <1>10, <1>11
  <2>2. ~(x < TwoTo[b - 1]) /\ TwoTo[b - 1] \in Nat
    BY <1>2, <1>3, <2>1
  <2> QED
    BY <1>1, <2>2
<1> QED
  BY <1>1, <1>9, <1>10, <1>11, <1>12 DEF b

LEMMA BitLengthIs ==
  ASSUME NEW v \in Seq(Limb), Number(v), v # << >>
  PROVE  /\ big_bit_length(v) \in Nat \ {0}
         /\ big_bit_length(v) = LimbBits * (Len(v) - 1) + BitsOf(v[Len(v)])
         /\ BitsOf(v[Len(v)]) \in 1 .. LimbBits
         /\ TwoTo[big_bit_length(v) - 1] <= ValueOf(v) /\ ValueOf(v) < TwoTo[big_bit_length(v)]
<1> DEFINE N == Len(v)
           x == v[N]
           b == BitsOf(x)
           W == Weight(N)
           low == LowValues(v)[N - 1]
           L == big_bit_length(v)
           M == LimbBits * (N - 1)
<1>1. /\ N \in Nat \ {0} /\ x \in Limb \ {0} /\ x \in Nat \ {0} /\ LimbBits \in Nat \ {0} /\ N - 1 \in 0 .. N
      /\ N \in 1 .. N /\ (N - 1) + 1 = N /\ N - 1 \in Nat
  BY NumberIs, BigAssumption, BaseIs
<1>2. b \in 1 .. LimbBits /\ TwoTo[b - 1] <= x /\ x < TwoTo[b]
  BY <1>1, HasBits
<1>3. L = M + b
  <2>1. L = (N - 1) * LimbBits + b
    BY DEF big_bit_length
  <2>2. (N - 1) * LimbBits = LimbBits * (N - 1)
    BY <1>1
  <2> QED
    BY <2>1, <2>2
<1>4. W = TwoTo[M] /\ W \in Nat \ {0} /\ M \in Nat
  <2>1. Weight((N - 1) + 1) = TwoTo[LimbBits * (N - 1)] /\ Weight((N - 1) + 1) \in Nat \ {0}
    BY <1>1, WeightIs
  <2>2. M \in Nat
    BY <1>1, Closed
  <2> QED
    BY <1>1, <2>1, <2>2
<1>5. ValueOf(v) = low + x * W /\ low \in Nat /\ low < W
  <2>1. ValueOf(v) = low + x * W
    BY <1>1, LowIs DEF ValueOf
  <2>2. low \in Nat /\ low < Weight((N - 1) + 1)
    BY <1>1, LowBound
  <2> QED
    BY <1>1, <2>1, <2>2
<1> HIDE DEF x, b, W, low, M, L
<1>6. b \in Nat \ {0} /\ b - 1 \in Nat /\ L \in Nat \ {0} /\ L - 1 = M + (b - 1)
  BY <1>1, <1>2, <1>3, <1>4
<1> DEFINE t == TwoTo[b - 1]
           u == TwoTo[b]
<1>7. TwoTo[L - 1] = W * t /\ TwoTo[L] = W * u /\ t \in Nat /\ u \in Nat
  BY <1>3, <1>4, <1>6, TwoToSum, TwoToIs
<1>8. t <= x /\ x + 1 <= u
  BY <1>1, <1>2, <1>7
<1> HIDE DEF t, u
<1>9. W * t <= x * W /\ (x + 1) * W <= W * u /\ (x + 1) * W = x * W + W
  <2>1. W * t <= W * x /\ W * (x + 1) <= W * u
    <3>1. W \in Nat /\ x + 1 \in Nat /\ x \in Nat
      BY <1>1, <1>4
    <3> QED
      BY <1>7, <1>8, <3>1, Monotone
  <2>2. W * x = x * W /\ W * (x + 1) = (x + 1) * W /\ (x + 1) * W = x * W + W
    BY <1>1, <1>4
  <2> QED
    BY <2>1, <2>2
<1> DEFINE A == W * t
           B == W * u
           C == x * W
<1>10. A \in Nat /\ B \in Nat /\ C \in Nat
  BY <1>1, <1>4, <1>7, Closed
<1>11. A <= C /\ C + W <= B
  BY <1>9
<1> HIDE DEF A, B, C
<1>12. A <= low + C /\ low + C < B
  BY <1>4, <1>5, <1>10, <1>11
<1>13. L = big_bit_length(v) /\ M = LimbBits * (Len(v) - 1) /\ b = BitsOf(v[Len(v)])
  BY DEF L, M, b, x
<1> QED
  BY <1>2, <1>3, <1>5, <1>6, <1>7, <1>12, <1>13 DEF A, B, C

(* Halving.                                                                  *)

LEMMA HalvedIs ==
  ASSUME NEW v \in Seq(Limb), Number(v)
  PROVE  /\ big_shift_right_one(v) \in Seq(Limb) /\ Number(big_shift_right_one(v))
         /\ ValueOf(big_shift_right_one(v)) = ValueOf(v) \div 2
<1> DEFINE N == Len(v)
           half == Base \div 2
           up(n) == LimbAt(v, n + 1) % 2
           h == [i \in 1 .. N |-> v[i] \div 2 + (LimbAt(v, i + 1) % 2) * (Base \div 2)]
<1>1. /\ N \in Nat /\ N <= Limbs /\ half \in Nat \ {0} /\ Base = 2 * half /\ ValueOf(v) \in Nat
      /\ \A i \in 1 .. N : v[i] \in Nat /\ v[i] < Base
  BY LimbsAre, BaseIs, NumberIs
<1>2. \A n \in Nat : LimbAt(v, n + 1) \in Nat
  BY <1>1 DEF LimbAt
<1>3. \A n \in Nat : up(n) \in {0, 1}
  <2>1. \A x \in Nat : x % 2 \in {0, 1}
    OBVIOUS
  <2> QED
    BY <1>2, <2>1
<1>4. \A n \in 1 .. N : v[n] = 2 * (v[n] \div 2) + up(n - 1) /\ v[n] \div 2 \in Nat
  <2>1. \A x \in Nat : x = 2 * (x \div 2) + (x % 2) /\ x \div 2 \in Nat
    OBVIOUS
  <2>2. \A n \in 1 .. N : LimbAt(v, (n - 1) + 1) = v[n]
    BY <1>1 DEF LimbAt
  <2> QED
    BY <1>1, <2>1, <2>2
<1> HIDE DEF half
<1>5. \A n \in 1 .. N : h[n] = v[n] \div 2 + up(n) * half /\ h[n] \in Nat /\ h[n] \in Limb
  <2> SUFFICES ASSUME NEW n \in 1 .. N
               PROVE h[n] = v[n] \div 2 + up(n) * half /\ h[n] \in Nat /\ h[n] \in Limb
    OBVIOUS
  <2>1. h[n] = v[n] \div 2 + up(n) * half
    BY DEF half
  <2> DEFINE q == v[n] \div 2
             d == up(n)
             e == up(n - 1)
  <2>2. q \in Nat /\ d \in {0, 1} /\ e \in {0, 1} /\ v[n] = 2 * q + e
    <3>1. n \in Nat /\ n - 1 \in Nat
      BY <1>1
    <3> HIDE DEF up
    <3> QED
      BY <1>3, <1>4, <3>1
  <2>3. d * half = 0 \/ d * half = half
    BY <1>1, <2>2
  <2> HIDE DEF q, d, e
  <2>4. 2 * q < 2 * half
    BY <1>1, <2>2
  <2>5. q + d * half \in Nat /\ q + d * half < Base
    BY <1>1, <2>2, <2>3, <2>4
  <2> QED
    BY <2>1, <2>5, BaseIs DEF q, d
<1>6. h \in Seq(Limb) /\ Len(h) = N
  <2>1. h \in [1 .. N -> Limb]
    <3> HIDE DEF up
    <3>1. DOMAIN h = 1 .. N /\ h = [i \in 1 .. N |-> h[i]]
      OBVIOUS
    <3> HIDE DEF h
    <3> QED
      BY <1>5, <3>1
  <2> HIDE DEF h
  <2> QED
    BY <1>1, <2>1
<1>7. big_shift_right_one(v) = big_normalise(h)
  BY DEF big_shift_right_one
<1> HIDE DEF h
<1> DEFINE l == LowValues(h)
           m == LowValues(v)
           T == {n \in 0 .. N : 2 * l[n] + up(0) = m[n] + up(n) * Weight(n + 1)}
<1>8. /\ l[0] = 0 /\ m[0] = 0
      /\ \A n \in 1 .. N : /\ l[n - 1] \in Nat /\ l[n] = l[n - 1] + h[n] * Weight(n)
                           /\ m[n - 1] \in Nat /\ m[n] = m[n - 1] + v[n] * Weight(n)
      /\ l[N] \in Nat /\ m[N] \in Nat
  <2>1. N \in 0 .. N
    BY <1>1
  <2> QED
    BY <1>1, <1>6, <2>1, LowIs
<1> HIDE DEF l, m, up
<1>9. 0 \in T
  <2>1. Weight(0 + 1) = 1
    BY WeightIs
  <2> QED
    BY <1>1, <1>3, <1>8, <2>1
<1>10. ASSUME NEW n \in 0 .. (N - 1), n \in T PROVE n + 1 \in T
  <2> DEFINE k == n + 1
             W == Weight(k)
             q == v[k] \div 2
             d == up(n)
             e == up(k)
  <2>1. k \in 1 .. N /\ k - 1 = n /\ k \in 0 .. N /\ k \in Nat \ {0} /\ n \in Nat
    BY <1>1
  <2>2. W \in Nat /\ Weight(k + 1) = Base * W
    BY <2>1, WeightIs
  <2>3. q \in Nat /\ d \in {0, 1} /\ e \in {0, 1} /\ v[k] = 2 * q + d /\ h[k] = q + e * half
    BY <1>3, <1>4, <1>5, <2>1
  <2>4. l[k] = l[n] + h[k] * W /\ m[k] = m[n] + v[k] * W /\ l[n] \in Nat /\ m[n] \in Nat
    BY <1>8, <2>1
  <2>5. 2 * l[n] + up(0) = m[n] + d * W
    BY <1>10
  <2> HIDE DEF k, W, q, d, e
  <2> DEFINE A == q * W
             B == half * W
  <2>6. A \in Nat /\ B \in Nat
    BY <1>1, <2>2, <2>3, Closed
  <2>7. (2 * q + d) * W = 2 * A + d * W
    BY <2>2, <2>3
  <2>8. (q + e * half) * W = A + e * B
    BY <1>1, <2>2, <2>3
  <2>9. Base * W = 2 * B
    BY <1>1, <2>2
  <2> HIDE DEF A, B
  <2>10. e * B \in {0, B} /\ e * (2 * B) = 2 * (e * B)
    BY <2>3, <2>6
  <2>11. d * W \in {0, W}
    BY <2>2, <2>3
  <2>12. up(0) \in {0, 1}
    BY <1>3
  <2> DEFINE C == e * B
             D == d * W
             a == l[n]
             b == m[n]
             z == up(0)
  <2>15. C \in Nat /\ D \in Nat /\ z \in Nat
    BY <2>2, <2>6, <2>10, <2>11, <2>12
  <2>16. l[k] = l[n] + (A + C) /\ m[k] = m[n] + (2 * A + D)
    BY <2>3, <2>4, <2>7, <2>8
  <2>17. e * Weight(k + 1) = 2 * C
    BY <2>2, <2>9, <2>10
  <2>13. /\ C \in Nat /\ D \in Nat /\ a \in Nat /\ b \in Nat /\ z \in Nat
         /\ l[k] = a + (A + C) /\ m[k] = b + (2 * A + D) /\ 2 * a + z = b + D
         /\ e * Weight(k + 1) = 2 * C
    BY <2>4, <2>5, <2>15, <2>16, <2>17
  <2> HIDE DEF C, D, a, b, z
  <2>14. 2 * l[k] + z = m[k] + 2 * C
    BY <2>6, <2>13
  <2> QED
    BY <2>1, <2>13, <2>14 DEF k, z, e
<1> HIDE DEF T
<1>11. 0 .. N \subseteq T
  <2> HIDE DEF N
  <2> QED
    BY <1>1, <1>9, <1>10, UpTo
<1>12. N \in T
  BY <1>1, <1>11
<1>13. up(N) = 0
  BY <1>1 DEF up, LimbAt
<1>14. 2 * ValueOf(h) + up(0) = ValueOf(v) /\ ValueOf(h) \in Nat
  <2>1. Weight(N + 1) \in Nat
    BY <1>1, WeightIs
  <2>2. up(N) * Weight(N + 1) = 0
    BY <1>13, <2>1
  <2>3. ValueOf(h) = l[N] /\ ValueOf(v) = m[N]
    BY <1>6 DEF ValueOf, l, m
  <2> QED
    BY <1>8, <1>12, <2>2, <2>3 DEF T
<1>15. ValueOf(v) \div 2 = ValueOf(h)
  <2>1. up(0) \in {0, 1}
    BY <1>3
  <2> QED
    BY <1>1, <1>14, <2>1
<1> QED
  BY <1>1, <1>6, <1>7, <1>15, NormaliseIs

(* Subtracting.                                                              *)

LEMMA BorrowsAre ==
  ASSUME NEW v \in Seq(Limb), NEW w \in Seq(Limb)
  PROVE  /\ Borrows(v, w)[0] = 0
         /\ \A n \in 0 .. Len(v) : Borrows(v, w)[n] \in {0, 1}
         /\ \A n \in 1 .. Len(v) :
              Borrows(v, w)[n] = IF v[n] < LimbAt(w, n) + Borrows(v, w)[n - 1] THEN 1 ELSE 0
<1> DEFINE N == Len(v)
           step == [n \in 1 .. N |-> [x \in {0, 1} |-> IF v[n] < LimbAt(w, n) + x THEN 1 ELSE 0]]
           borrow == CHOOSE f : f = [n \in 0 .. N |->
                       IF n = 0 THEN 0 ELSE IF v[n] < LimbAt(w, n) + f[n - 1] THEN 1 ELSE 0]
<1>0. N \in Nat
  OBVIOUS
<1>1. step \in [1 .. N -> [{0, 1} -> {0, 1}]]
  OBVIOUS
<1>2. PICK f \in [0 .. N -> {0, 1}] : Follows(f, 0, step, N)
  <2> HIDE DEF step, N
  <2> QED
    BY <1>0, <1>1, RecursionExists
<1>3. ASSUME NEW n \in 1 .. N PROVE f[n] = IF v[n] < LimbAt(w, n) + f[n - 1] THEN 1 ELSE 0
  <2>1. n - 1 \in 0 .. N
    BY <1>0
  <2>2. f[n - 1] \in {0, 1}
    BY <1>2, <2>1
  <2> QED
    BY <1>2, <2>2 DEF Follows
<1>4. f[0] = 0
  BY <1>2 DEF Follows
<1>5. f = [n \in 0 .. N |-> IF n = 0 THEN 0 ELSE IF v[n] < LimbAt(w, n) + f[n - 1] THEN 1 ELSE 0]
  <2>1. ASSUME NEW n \in 0 .. N
        PROVE  f[n] = IF n = 0 THEN 0 ELSE IF v[n] < LimbAt(w, n) + f[n - 1] THEN 1 ELSE 0
    BY <1>0, <1>3, <1>4
  <2> HIDE DEF N
  <2> QED
    BY <2>1
<1>6. borrow = [n \in 0 .. N |->
                  IF n = 0 THEN 0 ELSE IF v[n] < LimbAt(w, n) + borrow[n - 1] THEN 1 ELSE 0]
  BY <1>5
<1>7. Borrows(v, w) = borrow
  BY DEF Borrows
<1> HIDE DEF borrow
<1>8. /\ borrow[0] = 0
      /\ \A n \in 1 .. N : borrow[n] = IF v[n] < LimbAt(w, n) + borrow[n - 1] THEN 1 ELSE 0
  <2>1. borrow[0] = 0
    BY <1>0, <1>6
  <2>2. ASSUME NEW n \in 1 .. N
        PROVE  borrow[n] = IF v[n] < LimbAt(w, n) + borrow[n - 1] THEN 1 ELSE 0
    <3>1. n \in 0 .. N /\ n # 0
      BY <1>0
    <3> HIDE DEF N
    <3> QED
      BY <1>6, <3>1
  <2> QED
    BY <2>1, <2>2
<1>9. \A n \in 0 .. N : borrow[n] \in {0, 1}
  BY <1>0, <1>8
<1> QED
  BY <1>7, <1>8, <1>9

\* What is borrowed is a unit of the next limb.
LEMMA BorrowedIs ==
  ASSUME NEW x \in Limb, NEW y \in Limb, NEW b \in {0, 1}
  PROVE  LET c == IF x < y + b THEN 1 ELSE 0
             z == (x - (y + b)) % Base
         IN  z \in Limb /\ x + c * Base = z + (y + b)
<1>1. x \in Nat /\ y \in Nat /\ b \in Nat /\ x < Base /\ y < Base /\ Base \in Nat \ {0} /\ b <= 1
  BY BaseIs
<1> DEFINE z == x - (y + b)
<1>2. CASE x < y + b
  <2>1. z + Base \in Nat /\ z + Base < Base /\ z \in Int /\ z < 0
    BY <1>1, <1>2
  <2> HIDE DEF z
  <2>2. z % Base = z + Base
    <3>1. z = (-1) * Base + (z + Base)
      BY <1>1, <2>1
    <3> QED
      BY <1>1, <2>1, <3>1
  <2>3. z % Base \in Limb
    BY <2>1, <2>2, BaseIs
  <2>4. x + Base = (z + Base) + (y + b)
    BY <1>1, <2>1 DEF z
  <2> QED
    BY <1>1, <1>2, <2>2, <2>3, <2>4 DEF z
<1>3. CASE ~(x < y + b)
  <2>1. z \in Nat /\ z < Base
    BY <1>1, <1>3
  <2> HIDE DEF z
  <2>2. z % Base = z
    BY <1>1, <2>1
  <2>3. x = z + (y + b)
    BY <1>1, <2>1 DEF z
  <2> QED
    BY <1>1, <1>3, <2>1, <2>2, <2>3, BaseIs DEF z
<1> QED
  BY <1>2, <1>3

LEMMA SubtractIs ==
  ASSUME NEW v \in Seq(Limb), NEW w \in Seq(Limb), Number(v), Number(w), ValueOf(w) <= ValueOf(v)
  PROVE  /\ big_subtract(v, w) \in Seq(Limb) /\ Number(big_subtract(v, w))
         /\ ValueOf(big_subtract(v, w)) = ValueOf(v) - ValueOf(w)
<1> DEFINE N == Len(v)
           K == Len(w)
           b == Borrows(v, w)
           r == [i \in 1 .. N |-> LimbAt(w, i)]
           d == [i \in 1 .. N |-> (v[i] - (LimbAt(w, i) + b[i - 1])) % Base]
<1>1. N \in Nat /\ N <= Limbs /\ K \in Nat /\ ValueOf(v) \in Nat /\ ValueOf(w) \in Nat /\ Base \in Nat
  BY NumberIs, BaseIs
<1>2. K <= N
  <2> SUFFICES ASSUME N < K PROVE FALSE
    BY <1>1
  <2>1. IsLess(v, w)
    BY DEF IsLess
  <2> QED
    BY <1>1, <2>1, LessIs
<1>3. \A i \in 1 .. N : v[i] \in Limb /\ LimbAt(w, i) \in Limb
  <2>1. \A i \in 1 .. N : i <= K => i \in 1 .. K
    BY <1>1
  <2> QED
    BY <2>1, LimbsAre, BaseIs DEF LimbAt
<1>4. /\ b[0] = 0 /\ \A n \in 0 .. N : b[n] \in {0, 1}
      /\ \A n \in 1 .. N : b[n - 1] \in {0, 1} /\ b[n] = IF v[n] < LimbAt(w, n) + b[n - 1] THEN 1 ELSE 0
  <2>1. \A n \in 1 .. N : n - 1 \in 0 .. N
    BY <1>1
  <2> QED
    BY <2>1, BorrowsAre
<1> HIDE DEF b
<1>5. r \in Seq(Limb) /\ Len(r) = N /\ \A i \in 1 .. N : r[i] = LimbAt(w, i)
  BY <1>1, <1>3
<1>6. \A n \in 1 .. N : d[n] \in Limb /\ v[n] + b[n] * Base = d[n] + (r[n] + b[n - 1])
  <2> SUFFICES ASSUME NEW n \in 1 .. N
               PROVE  d[n] \in Limb /\ v[n] + b[n] * Base = d[n] + (r[n] + b[n - 1])
    OBVIOUS
  <2> DEFINE x == v[n]
             y == LimbAt(w, n)
             e == b[n - 1]
             c == b[n]
  <2>1. x \in Limb /\ y \in Limb /\ e \in {0, 1} /\ c = IF x < y + e THEN 1 ELSE 0
    BY <1>3, <1>4
  <2>2. d[n] = (x - (y + e)) % Base /\ r[n] = y
    OBVIOUS
  <2> HIDE DEF x, y, e, c, d, r
  <2>3. (x - (y + e)) % Base \in Limb /\ x + c * Base = ((x - (y + e)) % Base) + (y + e)
    BY <2>1, BorrowedIs
  <2> QED
    BY <2>2, <2>3 DEF x, y, e, c
<1>7. d \in Seq(Limb) /\ Len(d) = N
  <2>1. d = [i \in 1 .. N |-> d[i]]
    OBVIOUS
  <2> HIDE DEF d
  <2> QED
    BY <1>1, <1>6, <2>1
<1>8. big_subtract(v, w) = big_normalise(d)
  BY DEF big_subtract, b
<1> HIDE DEF d
<1>9. ValueOf(r) = ValueOf(w)
  <2>1. \A i \in 1 .. K : r[i] = w[i]
    BY <1>1, <1>2, <1>5 DEF LimbAt
  <2>2. \A i \in (K + 1) .. N : r[i] = 0
    BY <1>1, <1>2, <1>5 DEF LimbAt
  <2> HIDE DEF r
  <2>3. ValueOf(r) = LowValues(r)[K]
    <3>1. K \in 0 .. Len(r)
      BY <1>1, <1>2, <1>5
    <3> QED
      BY <1>5, <2>2, <3>1, ZerosAbove
  <2>4. LowValues(r)[K] = LowValues(w)[K]
    BY <1>1, <1>2, <1>5, <2>1, SameLow
  <2> QED
    BY <2>3, <2>4 DEF ValueOf
<1> HIDE DEF r
<1> DEFINE l == LowValues(d)
           m == LowValues(v)
           p == LowValues(r)
           T == {n \in 0 .. N : m[n] + b[n] * Weight(n + 1) = l[n] + p[n]}
<1>10. /\ l[0] = 0 /\ m[0] = 0 /\ p[0] = 0
       /\ \A n \in 1 .. N : l[n - 1] \in Nat /\ l[n] = l[n - 1] + d[n] * Weight(n)
       /\ \A n \in 1 .. N : m[n - 1] \in Nat /\ m[n] = m[n - 1] + v[n] * Weight(n)
       /\ \A n \in 1 .. N : p[n - 1] \in Nat /\ p[n] = p[n - 1] + r[n] * Weight(n)
  BY <1>5, <1>7, LowIs
<1>11. l[N] \in Nat /\ l[N] < Weight(N + 1)
  <2>1. N \in 0 .. Len(d)
    BY <1>1, <1>7
  <2> QED
    BY <1>7, <2>1, LowBound
<1> HIDE DEF l, m, p
<1>12. 0 \in T
  <2>1. Weight(0 + 1) = 1
    BY WeightIs
  <2> QED
    BY <1>1, <1>4, <1>10, <2>1
<1>13. ASSUME NEW n \in 0 .. (N - 1), n \in T PROVE n + 1 \in T
  <2> DEFINE k == n + 1
             W == Weight(k)
             x == v[k]
             y == r[k]
             z == d[k]
             e == b[n]
             c == b[k]
  <2>1. k \in 1 .. N /\ k - 1 = n /\ k \in 0 .. N /\ k \in Nat \ {0} /\ n \in 0 .. N
    BY <1>1
  <2>2. W \in Nat /\ Weight(k + 1) = Base * W
    BY <2>1, WeightIs
  <2>3. x \in Nat /\ y \in Nat /\ z \in Nat /\ e \in Nat /\ c \in Nat /\ x + c * Base = z + (y + e)
    <3>1. x \in Limb /\ y \in Limb /\ z \in Limb /\ x + c * Base = z + (y + e)
      BY <1>3, <1>5, <1>6, <2>1
    <3>2. e \in {0, 1} /\ c \in {0, 1}
      BY <1>4, <2>1
    <3> HIDE DEF x, y, z, e, c
    <3>3. x \in Nat /\ y \in Nat /\ z \in Nat
      BY <3>1, BaseIs
    <3> QED
      BY <3>1, <3>2, <3>3
  <2>4. /\ l[k] = l[n] + z * W /\ m[k] = m[n] + x * W /\ p[k] = p[n] + y * W
        /\ l[n] \in Nat /\ m[n] \in Nat /\ p[n] \in Nat
    BY <1>10, <2>1
  <2>5. m[n] + e * W = l[n] + p[n]
    BY <1>13
  <2> HIDE DEF k, W, x, y, z, e, c
  <2>6. (x + c * Base) * W = x * W + c * (Base * W)
    BY <1>1, <2>2, <2>3
  <2>7. (z + (y + e)) * W = z * W + (y * W + e * W)
    BY <2>2, <2>3
  <2> DEFINE A == x * W
             B == c * (Base * W)
             C == z * W
             D == y * W
             E == e * W
             a1 == l[n]
             a2 == m[n]
             a3 == p[n]
  <2>8. A \in Nat /\ B \in Nat /\ C \in Nat /\ D \in Nat /\ E \in Nat
    <3>1. Base * W \in Nat
      BY <1>1, <2>2, Closed
    <3> QED
      BY <2>2, <2>3, <3>1, Closed
  <2>9. A + B = C + (D + E)
    BY <2>3, <2>6, <2>7
  <2>10. a1 \in Nat /\ a2 \in Nat /\ a3 \in Nat /\ l[k] = a1 + C /\ m[k] = a2 + A /\ p[k] = a3 + D
    BY <2>4
  <2>11. a2 + E = a1 + a3
    BY <2>5
  <2>12. B = c * Weight(k + 1)
    BY <2>2
  <2> DEFINE b1 == l[k]
             b2 == m[k]
             b3 == p[k]
  <2> HIDE DEF A, B, C, D, E, a1, a2, a3, b1, b2, b3
  <2>13. b2 + B = b1 + b3
    <3>1. b1 = a1 + C /\ b2 = a2 + A /\ b3 = a3 + D
      BY <2>10 DEF b1, b2, b3
    <3>2. b2 + B = a2 + (A + B) /\ a2 + (C + (D + E)) = (a2 + E) + (C + D)
      BY <2>8, <2>10, <3>1
    <3>3. (a1 + a3) + (C + D) = b1 + b3
      BY <2>8, <2>10, <3>1
    <3> QED
      BY <2>9, <2>11, <3>2, <3>3
  <2> QED
    BY <2>1, <2>12, <2>13 DEF k, c, b1, b2, b3
<1> HIDE DEF T
<1>14. 0 .. N \subseteq T
  <2> HIDE DEF N
  <2> QED
    BY <1>1, <1>12, <1>13, UpTo
<1>15. N \in T
  BY <1>1, <1>14
<1>16. ValueOf(d) = ValueOf(v) - ValueOf(w) /\ ValueOf(d) \in Nat
  <2> DEFINE W == Weight(N + 1)
             x == ValueOf(v)
             y == ValueOf(w)
             z == ValueOf(d)
  <2>1. z = l[N] /\ x = m[N] /\ y = p[N]
    BY <1>5, <1>7, <1>9 DEF ValueOf, l, m, p
  <2>2. W \in Nat /\ z \in Nat /\ z < W /\ x \in Nat /\ y \in Nat /\ y <= x
    BY <1>1, <1>11, <2>1, WeightIs
  <2>3. x + b[N] * W = z + y
    BY <1>15, <2>1 DEF T
  <2>4. b[N] \in {0, 1}
    BY <1>1, <1>4
  <2> HIDE DEF W, x, y, z
  <2>5. CASE b[N] = 0
    <3>1. b[N] * W = 0
      BY <2>2, <2>5
    <3>2. z = x - y
      BY <2>2, <2>3, <3>1
    <3> QED
      BY <2>2, <3>2 DEF x, y, z
  <2>6. CASE b[N] = 1
    <3>1. b[N] * W = W
      BY <2>2, <2>6
    <3>2. FALSE
      BY <2>2, <2>3, <3>1
    <3> QED
      BY <3>2
  <2> QED
    BY <2>4, <2>5, <2>6
<1> QED
  BY <1>1, <1>7, <1>8, <1>16, NormaliseIs

(* Dividing.                                                                 *)

Divisions == [quotient : Nat, remainder : BigNumbers, divisor : BigNumbers]

LEMMA StepIs ==
  ASSUME NEW step \in Divisions
  PROVE  LET q == step.quotient
             r == ValueOf(step.remainder)
             t == ValueOf(step.divisor)
             next == DivisionStep(step)
         IN  /\ next \in Divisions /\ q \in Nat /\ r \in Nat /\ t \in Nat
             /\ ValueOf(next.divisor) = t \div 2
             /\ r < t => next.quotient = 2 * q /\ ValueOf(next.remainder) = r
             /\ r >= t => next.quotient = 2 * q + 1 /\ ValueOf(next.remainder) = r - t
<1> DEFINE v == step.remainder
           w == step.divisor
           q == step.quotient
           h == big_shift_right_one(w)
           d == big_subtract(v, w)
           r == ValueOf(v)
           t == ValueOf(w)
<1>1. v \in Seq(Limb) /\ Number(v) /\ w \in Seq(Limb) /\ Number(w) /\ q \in Nat
  BY DEF Divisions, BigNumbers
<1> HIDE DEF v, w, q
<1>2. h \in BigNumbers /\ ValueOf(h) = t \div 2
  BY <1>1, HalvedIs DEF BigNumbers
<1>3. r \in Nat /\ t \in Nat /\ (IsLess(v, w) <=> r < t)
  BY <1>1, NumberIs, LessIs
<1>4. r >= t => d \in BigNumbers /\ ValueOf(d) = r - t
  <2> SUFFICES ASSUME r >= t PROVE d \in BigNumbers /\ ValueOf(d) = r - t
    OBVIOUS
  <2>1. t <= r
    BY <1>3
  <2> QED
    BY <1>1, <2>1, SubtractIs DEF BigNumbers
<1>5. DivisionStep(step) = [quotient |-> 2 * q + (IF ~IsLess(v, w) THEN 1 ELSE 0),
                            remainder |-> IF ~IsLess(v, w) THEN d ELSE v, divisor |-> h]
  BY DEF DivisionStep, v, w, q
<1>6. v \in BigNumbers
  BY <1>1 DEF BigNumbers
<1> HIDE DEF h, d, r, t
<1>7. CASE r < t
  <2>1. DivisionStep(step) = [quotient |-> 2 * q + 0, remainder |-> v, divisor |-> h]
    BY <1>3, <1>5, <1>7
  <2>2. 2 * q + 0 = 2 * q /\ 2 * q \in Nat /\ ~(r >= t)
    BY <1>1, <1>3, <1>7
  <2> QED
    BY <1>1, <1>2, <1>3, <1>6, <1>7, <2>1, <2>2 DEF Divisions, r, t, v, w, q
<1>8. CASE r >= t
  <2>1. DivisionStep(step) = [quotient |-> 2 * q + 1, remainder |-> d, divisor |-> h]
    BY <1>3, <1>5, <1>8
  <2>2. 2 * q + 1 \in Nat /\ ~(r < t)
    BY <1>1, <1>3, <1>8
  <2> QED
    BY <1>1, <1>2, <1>3, <1>4, <1>8, <2>1, <2>2 DEF Divisions, r, t, v, w, q
<1> QED
  BY <1>3, <1>7, <1>8

LEMMA StepsAre ==
  ASSUME NEW v \in BigNumbers, NEW w \in BigNumbers, NEW count \in Nat
  PROVE  LET steps == DivisionSteps(v, w, count)
         IN  /\ steps[0] = [quotient |-> 0, remainder |-> v, divisor |-> w]
             /\ \A n \in 0 .. count : steps[n] \in Divisions
             /\ \A n \in 1 .. count : steps[n] = DivisionStep(steps[n - 1])
<1> DEFINE base == [quotient |-> 0, remainder |-> v, divisor |-> w]
           step == [n \in 1 .. count |-> [x \in Divisions |-> DivisionStep(x)]]
           steps == CHOOSE f : f = [n \in 0 .. count |->
                                      IF n = 0 THEN base ELSE DivisionStep(f[n - 1])]
<1>1. base \in Divisions
  BY DEF Divisions
<1>2. \A x \in Divisions : DivisionStep(x) \in Divisions
  BY StepIs
<1> HIDE DEF base
<1>3. step \in [1 .. count -> [Divisions -> Divisions]]
  BY <1>2
<1>4. PICK f \in [0 .. count -> Divisions] : Follows(f, base, step, count)
  <2> HIDE DEF step
  <2> QED
    BY <1>1, <1>3, RecursionExists
<1>5. ASSUME NEW n \in 1 .. count PROVE f[n] = DivisionStep(f[n - 1])
  <2>1. n - 1 \in 0 .. count
    OBVIOUS
  <2>2. f[n - 1] \in Divisions
    BY <1>4, <2>1
  <2> QED
    BY <1>4, <2>2 DEF Follows
<1>6. f[0] = base
  BY <1>4 DEF Follows
<1>7. f = [n \in 0 .. count |-> IF n = 0 THEN base ELSE DivisionStep(f[n - 1])]
  <2>1. ASSUME NEW n \in 0 .. count PROVE f[n] = IF n = 0 THEN base ELSE DivisionStep(f[n - 1])
    <3>1. CASE n = 0
      BY <1>6, <3>1
    <3>2. CASE n # 0
      <4>1. n \in 1 .. count
        BY <3>2
      <4> QED
        BY <1>5, <3>2, <4>1
    <3> QED
      BY <3>1, <3>2
  <2> QED
    BY <2>1
<1>8. steps = [n \in 0 .. count |-> IF n = 0 THEN base ELSE DivisionStep(steps[n - 1])]
  BY <1>7
<1>9. DivisionSteps(v, w, count) = steps
  BY DEF DivisionSteps, base
<1> HIDE DEF steps
<1>10. steps[0] = base
  BY <1>8
<1>11. ASSUME NEW n \in 1 .. count PROVE steps[n] = DivisionStep(steps[n - 1])
  <2>1. n \in 0 .. count /\ n # 0
    OBVIOUS
  <2> QED
    BY <1>8, <2>1
<1> DEFINE T == {n \in 0 .. count : steps[n] \in Divisions}
<1>12. 0 \in T
  BY <1>1, <1>10
<1>13. ASSUME NEW n \in 0 .. (count - 1), n \in T PROVE n + 1 \in T
  <2>1. n + 1 \in 1 .. count /\ (n + 1) - 1 = n /\ n + 1 \in 0 .. count
    OBVIOUS
  <2> QED
    BY <1>2, <1>11, <1>13, <2>1
<1> HIDE DEF T
<1>14. 0 .. count \subseteq T
  BY <1>12, <1>13, UpTo
<1> QED
  BY <1>9, <1>10, <1>11, <1>14 DEF T, base

\* Bit by bit, what is taken away is the quotient so far times what is taken away
\* for its lowest bit; what remains is less than that.
LEMMA StepsDivide ==
  ASSUME NEW v \in BigNumbers, NEW w \in BigNumbers, NEW y \in Nat \ {0}, NEW shift \in Nat,
         ValueOf(w) = y * TwoTo[shift], ValueOf(v) < y * TwoTo[shift + 1]
  PROVE  LET end == DivisionSteps(v, w, shift + 1)[shift + 1]
         IN  /\ end \in Divisions /\ ValueOf(end.remainder) \in Nat /\ ValueOf(end.remainder) < y
             /\ ValueOf(v) = end.quotient * y + ValueOf(end.remainder)
<1> DEFINE N == shift + 1
           steps == DivisionSteps(v, w, N)
           x == ValueOf(v)
           Q(n) == steps[n].quotient
           R(n) == ValueOf(steps[n].remainder)
           D(n) == ValueOf(steps[n].divisor)
           Part(n) == y * TwoTo[N - n]
           T == {n \in 0 .. N : /\ n < N => D(n) = Part(n + 1)
                                /\ R(n) + Q(n) * Part(n) = x
                                /\ R(n) < Part(n)}
<1>1. N \in Nat /\ x \in Nat
  <2>1. v \in Seq(Limb) /\ Number(v)
    BY DEF BigNumbers
  <2> QED
    BY <2>1, NumberIs
<1>2. /\ steps[0] = [quotient |-> 0, remainder |-> v, divisor |-> w]
      /\ \A n \in 0 .. N : steps[n] \in Divisions
      /\ \A n \in 1 .. N : steps[n] = DivisionStep(steps[n - 1])
  <2> HIDE DEF N
  <2> QED
    BY <1>1, StepsAre
<1> HIDE DEF steps
<1>3. \A n \in 0 .. N : Part(n) \in Nat /\ (n < N => Part(n) = 2 * Part(n + 1) /\ Part(n + 1) \in Nat)
  <2> SUFFICES ASSUME NEW n \in 0 .. N
               PROVE  Part(n) \in Nat /\ (n < N => Part(n) = 2 * Part(n + 1) /\ Part(n + 1) \in Nat)
    OBVIOUS
  <2>1. N - n \in Nat
    BY <1>1
  <2>2. TwoTo[N - n] \in Nat
    BY <2>1, TwoToIs
  <2>3. Part(n) \in Nat
    BY <2>2, Closed
  <2>4. ASSUME n < N PROVE Part(n) = 2 * Part(n + 1) /\ Part(n + 1) \in Nat
    <3>1. N - (n + 1) \in Nat /\ (N - (n + 1)) + 1 = N - n
      BY <1>1, <2>4
    <3> DEFINE t == TwoTo[N - (n + 1)]
    <3>2. t \in Nat /\ TwoTo[N - n] = 2 * t
      BY <3>1, TwoToIs
    <3> HIDE DEF t
    <3>3. y * (2 * t) = 2 * (y * t) /\ y * t \in Nat
      BY <3>2
    <3> QED
      BY <3>2, <3>3 DEF t
  <2> QED
    BY <2>3, <2>4
<1>4. 0 \in T
  <2>1. R(0) = x /\ Q(0) = 0 /\ D(0) = ValueOf(w)
    BY <1>2
  <2>2. N - 0 = shift + 1 /\ N - (0 + 1) = shift /\ 0 < N /\ 0 \in 0 .. N
    OBVIOUS
  <2>3. D(0) = Part(0 + 1) /\ x < Part(0)
    BY <2>1, <2>2
  <2>4. Part(0) \in Nat
    BY <1>3, <2>2
  <2> HIDE DEF Q, R, D, Part, x
  <2>5. R(0) + Q(0) * Part(0) = x
    BY <1>1, <2>1, <2>4
  <2> QED
    BY <2>1, <2>2, <2>3, <2>5
<1>5. ASSUME NEW n \in 0 .. (N - 1), n \in T PROVE n + 1 \in T
  <2> DEFINE k == n + 1
             q == Q(n)
             r == R(n)
             t == Part(k)
  <2>1. k \in 1 .. N /\ k - 1 = n /\ n \in 0 .. N /\ k \in 0 .. N /\ n < N
    BY <1>1
  <2>2. D(n) = t /\ r + q * Part(n) = x /\ r < Part(n) /\ Part(n) = 2 * t /\ t \in Nat
    BY <1>3, <1>5, <2>1
  <2>3. steps[n] \in Divisions /\ steps[k] = DivisionStep(steps[n]) /\ steps[k] \in Divisions
    BY <1>2, <2>1
  <2>4. /\ q \in Nat /\ r \in Nat /\ D(k) = t \div 2
        /\ r < t => Q(k) = 2 * q /\ R(k) = r
        /\ r >= t => Q(k) = 2 * q + 1 /\ R(k) = r - t
    <3> HIDE DEF t
    <3>1. D(n) = t
      BY <2>2
    <3> HIDE DEF k
    <3> QED
      BY <2>3, <3>1, StepIs
  <2>5. k < N => t = 2 * Part(k + 1) /\ Part(k + 1) \in Nat
    BY <1>3, <2>1
  <2>6. k < N => D(k) = Part(k + 1)
    <3> HIDE DEF Part, D, k, t
    <3> QED
      BY <2>4, <2>5
  <2> HIDE DEF k, q, r, t, Q, R, D, Part, x
  <2> DEFINE A == q * t
  <2>7. A \in Nat /\ q * (2 * t) = 2 * A /\ (2 * q) * t = 2 * A /\ (2 * q + 1) * t = 2 * A + t
    BY <2>2, <2>4
  <2>8. r + 2 * A = x /\ r < 2 * t
    BY <2>2, <2>7
  <2> HIDE DEF A
  <2>9. R(k) + Q(k) * t = x /\ R(k) < t
    <3>1. CASE r < t
      BY <2>2, <2>4, <2>7, <2>8, <3>1
    <3>2. CASE r >= t
      <4>1. Q(k) * t = 2 * A + t /\ R(k) = r - t
        BY <2>4, <2>7, <3>2
      <4> QED
        BY <2>2, <2>4, <2>7, <2>8, <3>2, <4>1
    <3> QED
      BY <2>2, <2>4, <3>1, <3>2
  <2> QED
    BY <2>1, <2>6, <2>9 DEF k, t
<1>6. N \in T
  <2> HIDE DEF T, N
  <2>1. 0 .. N \subseteq T
    BY <1>1, <1>4, <1>5, UpTo
  <2> QED
    BY <1>1, <2>1
<1>7. Part(N) = y
  <2>1. N - N = 0 /\ TwoTo[0] = 1
    BY <1>1, TwoToIs
  <2> QED
    BY <2>1
<1>8. steps[N] \in Divisions /\ Q(N) \in Nat /\ R(N) \in Nat
  <2>1. steps[N] \in Divisions
    BY <1>1, <1>2
  <2>2. steps[N].remainder \in Seq(Limb) /\ Number(steps[N].remainder) /\ steps[N].quotient \in Nat
    BY <2>1 DEF Divisions, BigNumbers
  <2> QED
    BY <2>1, <2>2, NumberIs
<1> DEFINE end == steps[N]
<1>9. R(N) + Q(N) * y = x /\ R(N) < y
  BY <1>6, <1>7
<1>10. x = end.quotient * y + ValueOf(end.remainder) /\ ValueOf(end.remainder) < y /\ ValueOf(end.remainder) \in Nat
  <2> DEFINE A == Q(N) * y
             r == R(N)
  <2>1. A \in Nat /\ r \in Nat /\ r + A = x /\ r < y
    BY <1>8, <1>9, Closed
  <2> HIDE DEF A, r
  <2>2. x = A + r
    BY <1>1, <2>1
  <2> QED
    BY <2>1, <2>2 DEF A, r
<1> QED
  BY <1>8, <1>10 DEF steps

LEMMA DivideIsExact ==
  ASSUME NEW v \in Seq(Limb), NEW w \in Seq(Limb), Number(v), Number(w), w # << >>
  PROVE  DividesExactly(v, w)
<1> DEFINE x == ValueOf(v)
           y == ValueOf(w)
           L == big_bit_length(v)
           M == big_bit_length(w)
           shift == L - M
           shifted == big_shift_left(w, shift)
           end == DivisionSteps(v, shifted, shift + 1)[shift + 1]
           result == big_divide_u64(v, w)
<1>1. x \in Nat /\ y \in Nat \ {0} /\ (IsLess(v, w) <=> x < y)
  BY NumberIs, LessIs
<1>2. result = IF IsLess(v, w) THEN [quotient |-> 0, remainder |-> v]
               ELSE IF shifted = Refused THEN Refused
               ELSE [quotient |-> end.quotient, remainder |-> end.remainder]
  BY DEF big_divide_u64
<1>3. \A q \in Nat, r \in BigNumbers : [quotient |-> q, remainder |-> r] # Refused
  BY RefusedAssumption DEF BigNumbers
<1>4. \A r \in BigNumbers : r # Refused /\ r \in Seq(Limb) /\ Number(r)
  BY RefusedAssumption DEF BigNumbers
<1>5. v \in BigNumbers /\ w \in BigNumbers
  BY DEF BigNumbers
<1>6. ASSUME NEW q \in Nat, NEW r \in BigNumbers, result = [quotient |-> q, remainder |-> r],
             x = q * y + ValueOf(r), ValueOf(r) \in Nat, ValueOf(r) < y
      PROVE  DividesExactly(v, w)
  <2> DEFINE z == ValueOf(r)
  <2>1. z \in Nat /\ z < y /\ x = q * y + z
    BY <1>6
  <2> HIDE DEF x, y, z, result
  <2>2. (q * y + z) \div y = q /\ (q * y + z) % y = z
    BY <1>1, <2>1, DivModUnique
  <2>3. x \div y = q /\ x % y = z
    BY <2>1, <2>2
  <2>4. result # Refused /\ result.quotient = q /\ result.remainder = r
    BY <1>3, <1>6
  <2>5. Is(r, x % y)
    BY <1>4, <2>3 DEF Is, z
  <2> QED
    BY <1>1, <2>3, <2>4, <2>5 DEF DividesExactly, result, x, y
<1>7. CASE IsLess(v, w)
  <2>1. result = [quotient |-> 0, remainder |-> v]
    BY <1>2, <1>7
  <2>2. x = 0 * y + x /\ x < y
    BY <1>1, <1>7
  <2> HIDE DEF result
  <2> QED
    BY <1>1, <1>5, <1>6, <2>1, <2>2
<1>8. CASE ~IsLess(v, w)
  <2>1. y <= x /\ v # << >>
    <3>1. y <= x
      BY <1>1, <1>8
    <3>2. v = << >> => x = 0
      BY NumberIs
    <3> QED
      BY <1>1, <3>1, <3>2
  <2>2. /\ L \in Nat \ {0} /\ TwoTo[L - 1] <= x /\ x < TwoTo[L]
        /\ M \in Nat \ {0} /\ TwoTo[M - 1] <= y /\ y < TwoTo[M]
    BY <2>1, BitLengthIs
  <2> HIDE DEF L, M, x, y
  <2>3. M <= L /\ shift \in Nat /\ L = (M - 1) + (shift + 1) /\ M - 1 \in Nat
    <3>1. ASSUME L <= M - 1 PROVE FALSE
      <4>1. M - 1 \in Nat /\ L \in Nat
        BY <2>2
      <4>2. TwoTo[L] <= TwoTo[M - 1] /\ TwoTo[L] \in Nat /\ TwoTo[M - 1] \in Nat
        BY <3>1, <4>1, TwoToGrows, TwoToIs
      <4> QED
        BY <1>1, <2>1, <2>2, <4>2
    <3>2. M <= L
      BY <2>2, <3>1
    <3> QED
      BY <2>2, <3>2
  <2>4. CASE shifted = Refused
    <3>1. result = Refused
      BY <1>2, <1>8, <2>4
    <3> DEFINE N == Len(v)
               K == Len(w)
               b == BitsOf(v[N])
               c == BitsOf(w[K])
               words == shift \div LimbBits
               bits == shift % LimbBits
               B == LimbBits * (N - K)
    <3>2. /\ LimbBits \in Nat \ {0} /\ Limbs \in Nat /\ N \in Nat \ {0} /\ K \in Nat \ {0} /\ N <= Limbs
          /\ b \in 1 .. LimbBits /\ c \in 1 .. LimbBits
          /\ L = LimbBits * (N - 1) + b /\ M = LimbBits * (K - 1) + c
      BY <2>1, NumberIs, BigAssumption, BitLengthIs DEF L, M
    <3>3. N >= K
      BY <1>8, <3>2 DEF IsLess
    <3> HIDE DEF N, K, b, c, B
    <3>4. LimbBits * (N - 1) - LimbBits * (K - 1) = B /\ LimbBits * (N - 1) \in Nat /\ LimbBits * (K - 1) \in Nat
      BY <3>2 DEF B
    <3>5. shift = B + (b - c)
      <4> DEFINE a1 == LimbBits * (N - 1)
                 a2 == LimbBits * (K - 1)
      <4>1. a1 \in Nat /\ a2 \in Nat /\ a1 - a2 = B /\ L = a1 + b /\ M = a2 + c
        BY <3>2, <3>4
      <4> HIDE DEF a1, a2
      <4> QED
        BY <3>2, <4>1
    <3>6. words + K + (IF bits > 0 THEN 1 ELSE 0) > Limbs
      <4>1. NoRoom(w, words, bits)
        <5>1. w \in Seq(Limb) /\ Number(w) /\ shift \in Nat
          BY <2>3
        <5> HIDE DEF shift
        <5> QED
          BY <2>4, <5>1, ShiftIsExact
      <4> QED
        BY <4>1 DEF NoRoom, K
    <3>7. CASE b >= c
      <4> DEFINE q == N - K
                 r == b - c
      <4>1. q \in Nat /\ r \in Nat /\ r < LimbBits /\ shift = q * LimbBits + r
        <5>1. B = q * LimbBits
          BY <3>2 DEF B
        <5> QED
          BY <3>2, <3>3, <3>5, <3>7, <5>1
      <4>2. q + K = N
        BY <3>2
      <4> HIDE DEF q, r, shift
      <4>3. words = q /\ bits = r
        BY <3>2, <4>1, DivModUnique
      <4>4. N = Limbs
        BY <3>2, <3>6, <4>1, <4>2, <4>3
      <4> QED
        BY <1>1, <3>1, <4>4 DEF DividesExactly, N, x, y
    <3>8. CASE b < c
      <4> DEFINE q == N - K - 1
                 r == LimbBits + (b - c)
      <4>1. N # K
        <5> SUFFICES ASSUME N = K PROVE FALSE
          OBVIOUS
        <5>1. B = 0
          BY <3>2 DEF B
        <5> QED
          BY <2>3, <3>2, <3>5, <3>8, <5>1
      <4>2. q \in Nat /\ r \in Nat /\ r < LimbBits /\ shift = q * LimbBits + r
        <5>1. B = q * LimbBits + LimbBits
          BY <3>2 DEF B
        <5>2. q * LimbBits \in Int
          BY <3>2
        <5> QED
          BY <3>2, <3>3, <3>5, <3>8, <4>1, <5>1, <5>2
      <4>3. (q + K) + 1 = N
        BY <3>2
      <4> HIDE DEF q, r, shift
      <4>4. words = q /\ bits = r
        BY <3>2, <4>2, DivModUnique
      <4>5. FALSE
        BY <3>2, <3>6, <4>2, <4>3, <4>4
      <4> QED
        BY <4>5
    <3> QED
      BY <3>2, <3>7, <3>8
  <2>5. CASE shifted # Refused
    <3>1. shifted \in BigNumbers /\ ValueOf(shifted) = y * TwoTo[shift]
      <4>1. shift \in Nat
        BY <2>3
      <4> HIDE DEF shift
      <4>2. shifted \in Seq(Limb) /\ Is(shifted, y * TwoTo[shift])
        BY <2>5, <4>1, ShiftIsExact DEF y
      <4> QED
        BY <4>2 DEF Is, BigNumbers
    <3>2. x < y * TwoTo[shift + 1]
      <4> DEFINE t == TwoTo[M - 1]
                 u == TwoTo[shift + 1]
      <4>1. shift + 1 \in Nat /\ TwoTo[L] = t * u /\ t \in Nat /\ u \in Nat
        <5> DEFINE n == shift + 1
                   m == M - 1
        <5>1. n \in Nat /\ m \in Nat /\ L = m + n
          BY <2>3
        <5> HIDE DEF n, m
        <5>2. TwoTo[m + n] = TwoTo[m] * TwoTo[n] /\ TwoTo[m] \in Nat /\ TwoTo[n] \in Nat
          BY <5>1, TwoToSum, TwoToIs
        <5> QED
          BY <5>1, <5>2 DEF n, m
      <4> HIDE DEF t, u
      <4>2. t <= y
        BY <2>2 DEF t
      <4>3. u * t <= u * y
        BY <1>1, <4>1, <4>2, Monotone
      <4>4. u * t = t * u /\ u * y = y * u /\ t * u \in Nat /\ y * u \in Nat
        BY <1>1, <4>1
      <4>5. x < y * u
        <5> DEFINE A == t * u
                   B == y * u
        <5>1. A \in Nat /\ B \in Nat /\ A <= B /\ x < A
          BY <2>2, <4>1, <4>3, <4>4
        <5> HIDE DEF A, B
        <5>2. x < B
          BY <1>1, <5>1
        <5> QED
          BY <5>2 DEF B
      <4> QED
        BY <4>5 DEF u
    <3>3. /\ end \in Divisions /\ ValueOf(end.remainder) \in Nat /\ ValueOf(end.remainder) < y
          /\ x = end.quotient * y + ValueOf(end.remainder)
      <4>1. shift \in Nat
        BY <2>3
      <4> HIDE DEF shift, shifted
      <4> QED
        BY <1>1, <1>5, <3>1, <3>2, <4>1, StepsDivide DEF x
    <3>4. end.quotient \in Nat /\ end.remainder \in BigNumbers
      BY <3>3 DEF Divisions
    <3>5. result = [quotient |-> end.quotient, remainder |-> end.remainder]
      BY <1>2, <1>8, <2>5
    <3> HIDE DEF end, result
    <3> QED
      BY <1>6, <3>3, <3>4, <3>5
  <2> QED
    BY <2>4, <2>5
<1> QED
  BY <1>7, <1>8

(* What the run of Arithmetic checks.                                              *)

LEMMA ArithmeticTyped ==
  ArithmeticSpec => [](TypeOK /\ SampleOK)
<1>1. ArithmeticSpec => Spec
  <2>1. [Next /\ UNCHANGED sample]_<<vars, sample>> => [Next]_vars
    BY DEF vars
  <2> QED
    BY <2>1, PTL DEF ArithmeticSpec, ArithmeticInit, Spec
<1>2. SampleOK /\ [Next /\ UNCHANGED sample]_<<vars, sample>> => SampleOK'
  BY DEF SampleOK
<1>3. ArithmeticInit => SampleOK
  BY DEF ArithmeticInit
<1> QED
  BY <1>1, <1>2, <1>3, Inductive, PTL DEF ArithmeticSpec

\* What a machine integer is read as, when it is signed.
LEMMA AsSignedIs == ASSUME NEW x \in U PROVE AsSigned(x) \in S
BY WidthAssumption DEF AsSigned, U, S, IntMax, IntMin

LEMMA ArgumentsAre == TypeOK => multiplicand \in U /\ multiplier \in U /\ divisor \in U \ {0}
BY DEF TypeOK

\* Checked and saturating arithmetic and the growth of arrays are exact at every
\* width, for all their arguments (src/arithmetic.c and src/core.c).
THEOREM CheckedAlwaysExact == ArithmeticSpec => []CheckedIsExact
<1>1. TypeOK => CheckedIsExact
  <2> SUFFICES ASSUME TypeOK PROVE CheckedIsExact
    OBVIOUS
  <2>1. /\ multiplicand \in U /\ multiplier \in U /\ divisor \in U \ {0}
        /\ AsSigned(multiplicand) \in S /\ AsSigned(multiplier) \in S
    BY ArgumentsAre, AsSignedIs
  <2>2. UnsignedIsExact(multiplicand, multiplier) /\ SignedIsExact(AsSigned(multiplicand), AsSigned(multiplier))
    BY <2>1, UnsignedAlwaysExact, SignedAlwaysExact
  <2>3. \A initial \in InitialCapacities : ReservesEnough(multiplicand, divisor, multiplier, initial)
    BY <2>1, ArgumentsAssumption, ReservesAlwaysEnough
  <2> QED
    BY <2>2, <2>3 DEF CheckedIsExact
<1> QED
  BY <1>1, ArithmeticTyped, PTL

\* Deadlines, periodic or some milliseconds ahead, and the times that remain of
\* them are exact at every width and in any units of time (src/timing.c and
\* src/posix.c).
THEOREM DeadlinesAlwaysNext == ArithmeticSpec => []DeadlineIsNext
<1>1. TypeOK /\ SampleOK => DeadlineIsNext
  <2> SUFFICES ASSUME TypeOK, SampleOK PROVE DeadlineIsNext
    OBVIOUS
  <2>1. /\ multiplicand \in U /\ multiplier \in U /\ divisor \in U \ {0} /\ AsSigned(multiplicand) \in S
    BY ArgumentsAre, AsSignedIs
  <2>2. AdvancesToNext(multiplicand, multiplier, divisor)
    BY <2>1, DeadlineAlwaysNext
  <2>3. RoundsUp(multiplicand, divisor)
    <3>1. multiplicand \in Nat /\ divisor \in Nat /\ divisor # 0
      BY <2>1, WidthAssumption DEF U
    <3> QED
      BY <3>1, RoundsAlwaysUp
  <2>4. divisor <= IntMax => RemainsOfPeriod(AsSigned(multiplicand), divisor)
    <3>1. divisor <= IntMax => divisor \in S /\ divisor > 0
      BY <2>1, WidthAssumption, SignedHalves DEF U
    <3> QED
      BY <2>1, <3>1, RemainsAlwaysOfPeriod
  <2>5. ASSUME sample.kind = "instants"
        PROVE  /\ ReadsExactly(sample.now)
               /\ WakesInTime(sample.deadline, sample.now)
               /\ \A milliseconds \in U : IsAhead(sample.now, milliseconds)
    <3>1. PICK now \in Timespecs, deadline \in Timespecs : now = sample.now /\ deadline = sample.deadline
      BY <2>5, ArgumentsAssumption DEF Timespecs, SampleOK
    <3>2. /\ now \in [sec : Nat, nsec : Nat] /\ Normalised(now)
          /\ deadline \in [sec : Nat, nsec : Nat] /\ Normalised(deadline)
      BY DEF Timespecs
    <3>3. ReadsExactly(now) /\ WakesInTime(deadline, now) /\ \A milliseconds \in U : IsAhead(now, milliseconds)
      BY <3>2, ReadsAlwaysExactly, SleeperAlwaysWakesInTime, AlwaysAhead
    <3> QED
      BY <3>1, <3>3
  <2> QED
    BY <2>2, <2>3, <2>4, <2>5 DEF DeadlineIsNext
<1> QED
  BY <1>1, ArithmeticTyped, PTL

\* The big integers that parsing falls back on are exact at every limb width, for
\* any number of limbs and whatever is in them: products, shifts and quotients,
\* limb by limb and bit by bit, up to the last limb there is room for (src/core.c).
THEOREM BigAlwaysExact == ArithmeticSpec => []BigIsExact
<1>1. SampleOK => BigIsExact
  <2> SUFFICES ASSUME SampleOK, sample.kind = "numbers"
               PROVE  /\ sample.right # << >> => DividesExactly(sample.left, sample.right)
                      /\ sample.right = << >> =>
                           \A by, plus \in Limb \ {0}, shift \in 0..(LimbBits * Limbs) :
                             ScalesExactly(sample.left, by, plus, shift)
    BY DEF BigIsExact
  <2> DEFINE v == sample.left
             w == sample.right
  <2>1. v \in Seq(Limb) /\ Number(v) /\ w \in Seq(Limb) /\ Number(w)
    BY DEF SampleOK, BigNumbers
  <2> HIDE DEF v, w
  <2>2. w # << >> => DividesExactly(v, w)
    BY <2>1, DivideIsExact
  <2>3. ASSUME NEW by \in Limb \ {0}, NEW plus \in Limb \ {0}, NEW shift \in 0..(LimbBits * Limbs)
        PROVE  ScalesExactly(v, by, plus, shift)
    <3>1. shift \in Nat
      BY BigAssumption
    <3>2. LET scaled == big_mul_add_small(v, by, plus)
              exact == ValueOf(v) * by + plus
          IN  IF scaled = Refused THEN exact >= TwoTo[LimbBits * Limbs] ELSE Is(scaled, exact)
      BY <2>1, ProductIsExact
    <3>3. LET shifted == big_shift_left(v, shift)
              moved == ValueOf(v) * TwoTo[shift]
          IN  IF shifted = Refused THEN moved * Base > TwoTo[LimbBits * Limbs] ELSE Is(shifted, moved)
      BY <2>1, <3>1, ShiftIsExact
    <3> QED
      BY <3>2, <3>3 DEF ScalesExactly
  <2> QED
    BY <2>2, <2>3 DEF v, w
<1> QED
  BY <1>1, ArithmeticTyped, PTL
=================================================================================
