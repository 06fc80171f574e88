------------------------------ MODULE MCArithmetic ------------------------------
(* ExactProduct with five-bit integers, all arguments, and the functions of    *)
(* the arithmetic modules: of integers for its arguments, of the others for a  *)
(* sample.                                                                     *)
EXTENDS Arithmetic, DecimalNumber

MCMax == 31
MCTimeMax == 15
MCInitialCapacities == {0, 6, MCMax}

MCInstants == [sec : {0, 1, 2, 9, TimeMax - 1, TimeMax}, nsec : 0..(NsPerSecond - 1)]
MCNumbers == {v \in UNION {[1..n -> Limb] : n \in 0..Limbs} : Number(v)}
Texts ==
  {[digits |-> digits, fraction |-> fraction, negative |-> negative, exponent |-> exponent] :
     digits \in UNION {[1..n -> {0, 1, 2, 5, 7}] : n \in 1..5}, fraction \in 0..5,
     negative \in BOOLEAN, exponent \in {<<0>>, <<1>>, <<0, 2>>, <<3, 1>>, <<3, 2>>}}

Samples ==
  {[kind |-> "none"]}
  \cup [kind : {"instants"}, now : Instants, deadline : Instants]
  \cup [kind : {"numbers"}, left : MCNumbers, right : MCNumbers]
  \cup [kind : {"text"}, text : {t \in Texts : t.fraction <= Len(t.digits)}]

MCInit ==
  /\ Init
  /\ sample \in IF <<multiplicand, multiplier, divisor>> = <<0, 0, 1>>
                THEN Samples ELSE {[kind |-> "none"]}
  /\ SampleOK
MCSpec == MCInit /\ [][Next /\ UNCHANGED sample]_<<vars, sample>>

--------------------------------------------------------------------------------
\* Text is parsed to the nearest number a double can hold, however many digits
\* there are past those that are kept.
ParsedIsNearest ==
  pc = "start" /\ sample.kind = "text" => ParsesToNearest(sample.text)
==============================================================================
