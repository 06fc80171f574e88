------------------------------ MODULE MCFixedStep ------------------------------
(* Integers up to 20; rates with and without a common divisor, equal rates,    *)
(* clamps that bite and clamps that do not, and configurations to refuse.      *)
EXTENDS FixedStep
MCMax == 20
MCClock == 0..20
MCConfigs ==
  {[ticks_per_second |-> t, steps_per_second |-> s, max_elapsed_ticks |-> e, max_steps_per_update |-> m] :
     t \in {1, 6, 7, 20}, s \in {0, 1, 4, 7, 20}, e \in {3, 20}, m \in {2, 20}}
==============================================================================
