---------------------------- MODULE MachineIntegers ----------------------------
(***************************************************************************)
(* The unsigned and signed integers of a machine whose largest unsigned    *)
(* one is Max: uint64_t and int64_t in the code.                           *)
(***************************************************************************)
EXTENDS Integers

CONSTANT Max \* UINT64_MAX in the code

ASSUME WidthAssumption == Max \in Nat /\ Max % 2 = 1

U == 0..Max
Wrap(x) == x % (Max + 1)

IntMax == Max \div 2
IntMin == -IntMax - 1
S == IntMin .. IntMax

\* Division of C: towards zero.
Quot(x, y) ==
  LET q(a, b) == a \div b
  IN  IF (x < 0) = (y < 0) THEN q(IF x < 0 THEN -x ELSE x, IF y < 0 THEN -y ELSE y)
      ELSE -q(IF x < 0 THEN -x ELSE x, IF y < 0 THEN -y ELSE y)
Rem(x, y) == x - y * Quot(x, y)
================================================================================
