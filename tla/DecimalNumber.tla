------------------------------ MODULE DecimalNumber ------------------------------
(***************************************************************************)
(* infiltratr_parse_double of src/core.c: decimal text of any length to    *)
(* the nearest binary64, or Refused.  Text is a record of the digits, how  *)
(* many of them follow the point, and the exponent's sign and digits; its  *)
(* own sign and white space are left out.  Big integers are numbers here:  *)
(* what they do in their limbs is BigNumber.                               *)
(***************************************************************************)
EXTENDS BigNumber, CheckedArithmetic
LOCAL Seqs == INSTANCE SequencesExt

CONSTANTS
  Precision,      \* 53: the bits of a significand
  LeastExponent,  \* 1022: the smallest normal number is 2^-1022
  MostExponent,   \* 1023
  LeastOrder,     \* 324: a number below 10^-324 is nearest to zero
  MostOrder,      \* 308
  DecimalDigits   \* 800: the significant digits that are kept

ASSUME DecimalAssumption ==
  {Precision, LeastExponent, MostExponent, LeastOrder, MostOrder, DecimalDigits} \subseteq Nat

OneFewer(significant) == \* mutant
  IF Len(significant) < DecimalDigits THEN significant
  ELSE SubSeq(significant, 1, DecimalDigits - 1)
Kept(significant) ==
  IF Len(significant) <= DecimalDigits THEN significant
  ELSE SubSeq(significant, 1, DecimalDigits)

\* parse_double_prefix: the digits from the first that is not zero.
Scanned(digits) ==
  LET first == Seqs!SelectInSeq(digits, LAMBDA d : d # 0)
      significant == SubSeq(digits, first, Len(digits))
      kept == Kept(significant)
      discarded == SubSeq(significant, Len(kept) + 1, Len(significant))
      sticky == \E i \in 1..Len(discarded) : discarded[i] # 0
      stripped == IF sticky THEN kept
                  ELSE SubSeq(kept, 1, Seqs!SelectLastInSeq(kept, LAMBDA d : d # 0))
  IN  [digits |-> stripped, sticky |-> sticky,
       adjustment |-> Len(significant) - Len(stripped)]

parse_decimal_exponent(digits) ==
  Seqs!FoldLeft(LAMBDA magnitude, d : IF magnitude = Overflow \/ magnitude > (Max - d) \div 10
                                 THEN Overflow ELSE magnitude * 10 + d,
           0, digits)

Exponent(negative, magnitude) == [negative |-> negative, magnitude |-> magnitude]

\* x - y as a sign and a magnitude.
Difference(x, y) == IF x >= y THEN Exponent(FALSE, x - y) ELSE Exponent(TRUE, y - x)

decimal_exponent_add_positive(exponent, addend) ==
  IF exponent.negative THEN Difference(addend, exponent.magnitude)
  ELSE IF addend > Max - exponent.magnitude THEN Overflow
  ELSE Exponent(FALSE, exponent.magnitude + addend)

decimal_exponent_combine(exponent, fractional_digits, adjustment) ==
  IF ~exponent.negative
  THEN decimal_exponent_add_positive(Difference(exponent.magnitude, fractional_digits), adjustment)
  ELSE IF adjustment >= exponent.magnitude
       THEN Difference(adjustment - exponent.magnitude, fractional_digits)
       ELSE LET negative == exponent.magnitude - adjustment
            IN  IF fractional_digits > Max - negative THEN Overflow
                ELSE Exponent(TRUE, negative + fractional_digits)

----------------------------------------------------------------------------------
BitLength(n) == LET bits[m \in Nat] == IF m = 0 THEN 0 ELSE 1 + bits[m \div 2] IN bits[n]
Shifted(n, power) == IF power > 0 THEN n * 2 ^ power ELSE n
DigitsValue(digits) == Seqs!FoldLeft(LAMBDA n, d : n * 10 + d, 0, digits)

\* To the nearest, ties to even; what was discarded breaks a tie upwards.
Rounded(n, d, sticky) ==
  LET q == n \div d
      twice == 2 * (n % d)
  IN  IF twice > d \/ (twice = d /\ (q % 2 = 1 \/ sticky)) THEN q + 1 ELSE q

\* A number is significand * 2^power.
Float(significand, power) == [significand |-> significand, power |-> power]

\* Numerator over denominator, both without the powers of two of binary_shift.
Scaled(numerator, denominator, binary_shift, sticky) ==
  LET difference == BitLength(numerator) - BitLength(denominator)
      at_candidate == Shifted(numerator, -difference) >= Shifted(denominator, difference)
      exponent2 == (IF at_candidate THEN difference ELSE difference - 1) + binary_shift
      normal == exponent2 >= -LeastExponent
      lowest == IF normal THEN exponent2 - (Precision - 1) ELSE -LeastExponent - (Precision - 1)
      scale_power == binary_shift - lowest
      significand == Rounded(Shifted(numerator, scale_power),
                             Shifted(denominator, -scale_power), sticky)
      carried == normal /\ significand = 2 ^ Precision
      power == IF carried THEN exponent2 + 1 ELSE exponent2
  IN  IF (normal /\ power > MostExponent) \/ significand = 0 THEN Refused
      ELSE IF carried THEN Float(significand \div 2, lowest + 1)
      ELSE Float(significand, lowest)

InOrder(order) == order.magnitude <= (IF order.negative THEN LeastOrder ELSE MostOrder)

binary64_from_decimal(digits, sticky, exponent) ==
  LET order == decimal_exponent_add_positive(exponent, Len(digits) - 1)
      coefficient == DigitsValue(digits)
      fives == 5 ^ exponent.magnitude
  IN  IF order = Overflow THEN Refused
      ELSE IF ~InOrder(order) \/ exponent.magnitude > DecimalDigits - 1 + LeastOrder THEN Refused
      ELSE IF exponent.negative THEN Scaled(coefficient, fives, -exponent.magnitude, sticky)
      ELSE Scaled(coefficient * fives, 1, exponent.magnitude, sticky)

infiltratr_parse_double(text) ==
  LET magnitude == parse_decimal_exponent(text.exponent)
      scanned == Scanned(text.digits)
      exponent == decimal_exponent_combine(Exponent(text.negative, magnitude),
                                           text.fraction, scanned.adjustment)
  IN  IF \A i \in 1..Len(text.digits) : text.digits[i] = 0 THEN Float(0, 0)
      ELSE IF magnitude = Overflow THEN Refused
      ELSE IF exponent = Overflow THEN Refused
      ELSE binary64_from_decimal(scanned.digits, scanned.sticky, exponent)

----------------------------------------------------------------------------------
(* What it promises.                                                             *)

Lowest == -LeastExponent - (Precision - 1)
Floats ==
  {Float(0, Lowest)} \cup {Float(s, Lowest) : s \in 1..(2 ^ (Precision - 1) - 1)}
    \cup {Float(s, e - (Precision - 1)) :
            s \in 2 ^ (Precision - 1) .. (2 ^ Precision - 1), e \in -LeastExponent .. MostExponent}
    \cup {Float(2 ^ (Precision - 1), MostExponent + 2 - Precision)}  \* the first too large

\* A float in units of 2^Lowest, and the number of the text as a fraction of
\* them.  Past the bounds of its power it is too small or too large anyway.
Units(float) == float.significand * 2 ^ (float.power - Lowest)
TextFraction(text) ==
  LET explicit == DigitsValue(text.exponent)
      power == Clamped((IF text.negative THEN -explicit ELSE explicit) - text.fraction,
                       -LeastOrder - Len(text.digits) - 1, MostOrder + 1)
      n == DigitsValue(text.digits) * 2 ^ (-Lowest)
  IN  IF power >= 0 THEN [over |-> n * 10 ^ power, under |-> 1]
      ELSE [over |-> n, under |-> 10 ^ (-power)]

\* The nearest float, of two as near the one whose significand is even; zero is
\* read as zero only, and what is nearest to zero or too large is refused.
ParsesToNearest(text) ==
  LET x == TextFraction(text)
      distance(f) == LET d == Units(f) * x.under - x.over IN IF d < 0 THEN -d ELSE d
      nearest == CHOOSE f \in Floats :
        \A g \in Floats \ {f} : \/ distance(f) < distance(g)
                                \/ distance(f) = distance(g) /\ f.significand % 2 = 0
      parsed == infiltratr_parse_double(text)
  IN  IF x.over = 0 THEN parsed = Float(0, 0)
      ELSE IF nearest.significand = 0 \/ nearest.power + Precision - 1 > MostExponent
      THEN parsed = Refused
      ELSE parsed = nearest
==================================================================================
