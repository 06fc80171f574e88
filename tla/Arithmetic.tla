-------------------------------- MODULE Arithmetic --------------------------------
(***************************************************************************)
(* The division of ExactProduct beside the functions of CheckedArithmetic, *)
(* Deadlines and BigNumber: its arguments, before the loop starts, are     *)
(* arguments of theirs.  A sample is what functions of other arguments are *)
(* called with.                                                            *)
(***************************************************************************)
EXTENDS ExactProduct, Deadlines, BigNumber

CONSTANTS
  InitialCapacities, \* that array_reserve is given
  Instants           \* that the clock reads, or a deadline is set for

ASSUME ArgumentsAssumption ==
  /\ InitialCapacities \subseteq U
  /\ \A t \in Instants : t \in [sec : Nat, nsec : Nat] /\ Normalised(t)

VARIABLE sample

SampleOK ==
  /\ sample.kind = "instants" => {sample.now, sample.deadline} \subseteq Instants
  /\ sample.kind = "numbers" => {sample.left, sample.right} \subseteq BigNumbers

ArithmeticInit == Init /\ SampleOK
ArithmeticSpec == ArithmeticInit /\ [][Next /\ UNCHANGED sample]_<<vars, sample>>

-----------------------------------------------------------------------------------
AsSigned(x) == IF x > IntMax THEN x - Max - 1 ELSE x

\* Every checked operation says exactly whether the true result fits, and
\* returns it; a saturating one returns the end it passed; an array grows to
\* what is required unless it cannot, however close to the largest size.
CheckedIsExact ==
  pc = "start" /\ sample.kind = "none" =>
    /\ SignedIsExact(AsSigned(multiplicand), AsSigned(multiplier))
    /\ UnsignedIsExact(multiplicand, multiplier)
    /\ \A initial \in InitialCapacities :
         ReservesEnough(multiplicand, divisor, multiplier, initial)

\* A periodic deadline moves to the next boundary after now without drifting; a
\* deadline set for some milliseconds ahead has them remaining; who waits for
\* the milliseconds that remain does not wake early.
DeadlineIsNext ==
  /\ pc = "start" /\ sample.kind = "none" =>
       /\ AdvancesToNext(multiplicand, multiplier, divisor)
       /\ RoundsUp(multiplicand, divisor)
       /\ divisor <= IntMax => RemainsOfPeriod(AsSigned(multiplicand), divisor)
  /\ pc = "start" /\ sample.kind = "instants" =>
       /\ ReadsExactly(sample.now)
       /\ WakesInTime(sample.deadline, sample.now)
       /\ \A milliseconds \in U : IsAhead(sample.now, milliseconds)

\* Products, shifts and quotients of big integers are exact for every pattern of
\* limbs, up to the last limb there is room for.
BigIsExact ==
  pc = "start" /\ sample.kind = "numbers" =>
    /\ sample.right # << >> => DividesExactly(sample.left, sample.right)
    /\ sample.right = << >> =>
         \A by, plus \in Limb \ {0}, shift \in 0..(LimbBits * Limbs) :
           ScalesExactly(sample.left, by, plus, shift)
===================================================================================
