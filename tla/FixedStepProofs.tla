---------------------------- MODULE FixedStepProofs ----------------------------
(***************************************************************************)
(* Proofs about FixedStep, for any width, clock and configurations.        *)
(***************************************************************************)
EXTENDS FixedStep, TLAPS

LEMMA DivModIs ==
  ASSUME NEW p \in Nat, NEW d \in Nat, d # 0
  PROVE  p \div d \in Nat /\ p % d \in Nat /\ p = (p \div d) * d + (p % d) /\ p % d < d
<1>1. p \div d \in Nat /\ p % d \in Nat /\ p % d < d
  OBVIOUS
<1>2. p = (p \div d) * d + (p % d)
  OBVIOUS
<1> QED
  BY <1>1, <1>2

LEMMA DivModUnique ==
  ASSUME NEW q \in Nat, NEW r \in Nat, NEW d \in Nat, r < d
  PROVE  (q * d + r) \div d = q /\ (q * d + r) % d = r
OBVIOUS

\* What an update makes of the phase, for a rate that is not above the clock's:
\* the steps never exceed the ticks they are taken from.
LEMMA StepsOf ==
  ASSUME NEW T, T = config.ticks_per_second, T \in Nat, T # 0,
         NEW rate, rate = config.steps_per_second, rate \in Nat, rate <= T,
         phase_numerator \in Nat, phase_numerator < T, NEW ticks \in Nat
  PROVE  LET scaled == ticks * rate
             due_steps == (scaled \div T) + (IF Carries(scaled % T) THEN 1 ELSE 0)
         IN  /\ due_steps \in 0..ticks
             /\ NewPhase(scaled % T) \in 0..(T - 1)
             /\ due_steps * T + NewPhase(scaled % T) = phase_numerator + scaled
<1> DEFINE scaled == ticks * rate
           whole == scaled \div T
           rest == scaled % T
           carry == IF Carries(rest) THEN 1 ELSE 0
           left == NewPhase(rest)
<1>1. scaled \in Nat
  OBVIOUS
<1>2. whole \in Nat /\ rest \in Nat /\ scaled = whole * T + rest /\ rest < T
  <2> HIDE DEF scaled
  <2> QED
    BY <1>1, DivModIs
<1>3. /\ carry = IF rest # 0 /\ phase_numerator >= T - rest THEN 1 ELSE 0
      /\ left = IF rest # 0 /\ phase_numerator >= T - rest
                  THEN phase_numerator - (T - rest) ELSE phase_numerator + rest
  BY DEF Carries, NewPhase
<1>4. scaled <= ticks * T
  OBVIOUS
<1> HIDE DEF scaled, whole, rest, carry, left
<1>5. whole <= ticks /\ (rest # 0 => whole < ticks)
  <2>1. CASE whole >= ticks + 1
    <3>1. whole * T >= (ticks + 1) * T
      BY <1>2, <2>1
    <3>2. (ticks + 1) * T = ticks * T + T
      OBVIOUS
    <3> QED
      BY <1>2, <1>4, <3>1, <3>2
  <2>2. CASE whole = ticks
    BY <1>2, <1>4, <2>2
  <2> QED
    BY <1>2, <2>1, <2>2
<1>6. carry \in 0..1 /\ (carry = 1 => rest # 0)
  BY <1>3
<1>7. whole + carry \in 0..ticks
  BY <1>2, <1>5, <1>6
<1>8. left \in 0..(T - 1) /\ carry * T + left = phase_numerator + rest
  BY <1>2, <1>3
<1>9. (whole + carry) * T = whole * T + carry * T
  BY <1>2, <1>6
<1>10. (whole + carry) * T + left = phase_numerator + scaled
  BY <1>2, <1>6, <1>8, <1>9
<1> QED
  BY <1>7, <1>8, <1>10 DEF scaled, whole, rest, carry, left

LEMMA Split ==
  ASSUME NEW a \in Nat, NEW b \in Nat
  PROVE  Least(a, b) \in 0..a /\ Excess(a, b) \in 0..a /\ Least(a, b) + Excess(a, b) = a
BY DEF Least, Excess

IInv == TypeOK /\ StepsAreExact /\ TicksAreAccounted /\ StaysUsable

LEMMA ConfigTyped ==
  ASSUME NEW c \in Configuration, Valid(c)
  PROVE  /\ c.ticks_per_second \in Nat /\ c.ticks_per_second # 0 /\ c.ticks_per_second <= Max
         /\ c.steps_per_second \in Nat /\ c.steps_per_second <= c.ticks_per_second
         /\ c.max_elapsed_ticks \in Nat /\ c.max_steps_per_update \in Nat
<1>1. /\ "ticks_per_second" \in DOMAIN c
      /\ c.ticks_per_second \in 0..Max /\ c.steps_per_second \in 0..Max
      /\ c.max_elapsed_ticks \in 0..Max /\ c.max_steps_per_update \in 0..Max
  BY DEF Configuration, U
<1> QED
  BY <1>1, SchedulerAssumption DEF Valid

LEMMA BaselineKeeps ==
  ASSUME IInv, NEW now \in U, Baseline(now), config' \in Configuration, Valid(config'),
         initialized' \in BOOLEAN, result' \in [steps_to_run : U, dropped_steps : U, clamped_ticks : U, clock_reset : BOOLEAN]
  PROVE  IInv'
<1>1. /\ config'.ticks_per_second \in Nat /\ config'.ticks_per_second # 0
      /\ config'.steps_per_second \in Nat
  BY ConfigTyped
<1>2. TypeOK'
  BY SchedulerAssumption DEF TypeOK, Baseline, U
<1>3. StaysUsable'
  BY <1>1 DEF StaysUsable, Baseline
<1>4. TicksAreAccounted'
  BY SchedulerAssumption DEF TicksAreAccounted, Baseline, U
<1>5. 0 * config'.steps_per_second = 0
  BY <1>1
<1>6. 0 \div config'.ticks_per_second = 0 /\ 0 % config'.ticks_per_second = 0
  <2>1. /\ (0 * config'.ticks_per_second + 0) \div config'.ticks_per_second = 0
        /\ (0 * config'.ticks_per_second + 0) % config'.ticks_per_second = 0
    BY <1>1, DivModUnique
  <2>2. 0 * config'.ticks_per_second + 0 = 0
    BY <1>1
  <2> QED
    BY <2>1, <2>2
<1>7. StepsAreExact'
  BY <1>5, <1>6 DEF StepsAreExact, Baseline
<1> QED
  BY <1>2, <1>3, <1>4, <1>7 DEF IInv

LEMMA SampleKeeps ==
  ASSUME IInv, Valid(config), phase_numerator < config.ticks_per_second, NEW now \in U, Sample(now)
  PROVE  IInv'
<1> DEFINE T == config.ticks_per_second
           rate == config.steps_per_second
           elapsed == now - previous_tick
           used_elapsed == Least(elapsed, config.max_elapsed_ticks)
           scaled == used_elapsed * rate
           elapsed_phase == scaled % T
           carry == IF Carries(elapsed_phase) THEN 1 ELSE 0
           due_steps == (scaled \div T) + carry
<1>1. /\ T \in Nat /\ T # 0 /\ T <= Max /\ rate \in Nat /\ rate <= T /\ Max \in Nat
      /\ config.max_elapsed_ticks \in Nat /\ config.max_steps_per_update \in Nat
  BY ConfigTyped, SchedulerAssumption DEF IInv, TypeOK
<1>2. /\ previous_tick \in Nat /\ now \in Nat /\ now <= Max /\ initialized /\ now >= previous_tick
      /\ phase_numerator \in Nat /\ origin \in Nat
      /\ used \in Nat /\ clamped \in Nat /\ due \in Nat
  BY SchedulerAssumption DEF IInv, TypeOK, Sample, U
<1>3. elapsed \in Nat /\ elapsed <= Max
  BY <1>1, <1>2
<1> DEFINE cut == Excess(elapsed, config.max_elapsed_ticks)
<1>4. used_elapsed \in 0..elapsed /\ cut \in 0..elapsed /\ used_elapsed + cut = elapsed
  <2> HIDE DEF elapsed
  <2>1. /\ Least(elapsed, config.max_elapsed_ticks) \in 0..elapsed
        /\ Excess(elapsed, config.max_elapsed_ticks) \in 0..elapsed
        /\ Least(elapsed, config.max_elapsed_ticks) + Excess(elapsed, config.max_elapsed_ticks) = elapsed
    BY <1>1, <1>3, Split
  <2> QED
    BY <2>1
<1>5. /\ due_steps \in 0..used_elapsed
      /\ NewPhase(elapsed_phase) \in 0..(T - 1)
      /\ due_steps * T + NewPhase(elapsed_phase) = phase_numerator + scaled
  <2>1. used_elapsed \in Nat
    <3> HIDE DEF elapsed, used_elapsed
    <3> QED
      BY <1>3, <1>4
  <2> HIDE DEF used_elapsed
  <2> QED
    BY <1>1, <1>2, <2>1, StepsOf
<1>6. due_steps \in Nat /\ due_steps <= Max
  <2> HIDE DEF due_steps, used_elapsed, elapsed
  <2> QED
    BY <1>1, <1>3, <1>4, <1>5
<1> DEFINE run == Least(due_steps, config.max_steps_per_update)
           dropped == Excess(due_steps, config.max_steps_per_update)
<1>7. run \in 0..due_steps /\ dropped \in 0..due_steps /\ run + dropped = due_steps
  <2> HIDE DEF due_steps
  <2> QED
    BY <1>1, <1>6, Split
<1>8. /\ phase_numerator' = NewPhase(elapsed_phase) /\ previous_tick' = now
      /\ result' = [steps_to_run |-> run, dropped_steps |-> dropped,
                    clamped_ticks |-> cut, clock_reset |-> FALSE]
      /\ used' = used + used_elapsed
      /\ UNCHANGED <<config, initialized, origin>>
  BY <1>6 DEF Sample
<1>9. clamped' = clamped + result'.clamped_ticks /\ due' = due + result'.steps_to_run + result'.dropped_steps
  BY <1>6 DEF Sample
<1> HIDE DEF elapsed, used_elapsed, scaled, elapsed_phase, carry, due_steps, run, dropped, cut
<1>10. /\ result'.clamped_ticks = cut /\ result'.steps_to_run = run /\ result'.dropped_steps = dropped
  BY <1>8
<1>11. cut \in Nat /\ cut <= Max /\ used_elapsed \in Nat
  BY <1>1, <1>3, <1>4
<1>12. clamped' = clamped + cut /\ due' = due + due_steps
  BY <1>2, <1>6, <1>7, <1>9, <1>10
<1>13. TypeOK'
  <2>1. run \in U /\ dropped \in U /\ cut \in U
    BY <1>1, <1>3, <1>6, <1>7, <1>11 DEF U
  <2>2. result' \in [steps_to_run : U, dropped_steps : U, clamped_ticks : U, clock_reset : BOOLEAN]
    BY <1>8, <2>1
  <2>3. NewPhase(elapsed_phase) \in U
    BY <1>1, <1>5 DEF U
  <2>4. used' \in Nat /\ clamped' \in Nat /\ due' \in Nat
    BY <1>2, <1>4, <1>6, <1>8, <1>11, <1>12
  <2> QED
    BY <1>8, <2>2, <2>3, <2>4 DEF IInv, TypeOK
<1>14. StaysUsable'
  BY <1>1, <1>5, <1>8 DEF IInv, StaysUsable
<1>15. TicksAreAccounted'
  <2>1. used + clamped = previous_tick - origin
    BY <1>2 DEF IInv, TicksAreAccounted
  <2>2. used' + clamped' = used + clamped + elapsed
    BY <1>2, <1>3, <1>4, <1>8, <1>11, <1>12
  <2>3. used' + clamped' = now - origin
    BY <1>2, <1>3, <2>1, <2>2 DEF elapsed
  <2> QED
    BY <1>8, <2>3 DEF TicksAreAccounted
<1>16. StepsAreExact'
  <2>1. used * rate \in Nat /\ scaled \in Nat
    BY <1>1, <1>2, <1>4 DEF scaled
  <2>2. due * T + phase_numerator = used * rate
    <3>1. due = (used * rate) \div T /\ phase_numerator = (used * rate) % T
      BY <1>2 DEF IInv, StepsAreExact
    <3> DEFINE x == used * rate
    <3>2. x \in Nat /\ due = x \div T /\ phase_numerator = x % T
      BY <2>1, <3>1
    <3> HIDE DEF x
    <3>3. due * T + phase_numerator = x
      BY <1>1, <3>2, DivModIs
    <3> QED
      BY <3>3 DEF x
  <2>3. used' * rate = used * rate + scaled
    <3>1. (used + used_elapsed) * rate = used * rate + used_elapsed * rate
      BY <1>1, <1>2, <1>4
    <3> QED
      BY <1>8, <3>1 DEF scaled
  <2>4. due' * T = due * T + due_steps * T
    <3>1. (due + due_steps) * T = due * T + due_steps * T
      BY <1>1, <1>2, <1>6
    <3> QED
      BY <1>12, <3>1
  <2>5. due * T \in Nat /\ due_steps * T \in Nat
    BY <1>1, <1>2, <1>6
  <2>6. due' * T + phase_numerator' = used' * rate
    BY <1>1, <1>2, <1>5, <1>8, <2>1, <2>2, <2>3, <2>4, <2>5
  <2>7. due' \in Nat /\ phase_numerator' \in Nat /\ phase_numerator' < T
    BY <1>1, <1>2, <1>5, <1>6, <1>8, <1>12
  <2>8. /\ (due' * T + phase_numerator') \div T = due'
        /\ (due' * T + phase_numerator') % T = phase_numerator'
    <3> DEFINE q == due'
               r == phase_numerator'
    <3>1. q \in Nat /\ r \in Nat /\ r < T
      BY <2>7
    <3> HIDE DEF q, r
    <3>2. (q * T + r) \div T = q /\ (q * T + r) % T = r
      BY <1>1, <3>1, DivModUnique
    <3> QED
      BY <3>2 DEF q, r
  <2>9. config' = config
    BY <1>8
  <2> QED
    BY <2>6, <2>8, <2>9 DEF StepsAreExact
<1> QED
  BY <1>13, <1>14, <1>15, <1>16 DEF IInv

\* The fields keep their width, and the four invariants carry each other: the
\* phase stays a fraction because it is the exact remainder, and no update fails
\* because the rate is not above the clock's.
THEOREM Inductive == Spec => []IInv
<1>1. Init => IInv
  <2> SUFFICES ASSUME Init PROVE IInv
    OBVIOUS
  <2>1. 0 \in U
    BY SchedulerAssumption DEF U
  <2>2. TypeOK
    BY <2>1 DEF Init, TypeOK, Unconfigured, NoResult, Configuration
  <2> QED
    BY <2>2 DEF Init, IInv, StepsAreExact, TicksAreAccounted, StaysUsable
<1>2. IInv /\ [Next]_vars => IInv'
  <2> SUFFICES ASSUME IInv, [Next]_vars PROVE IInv'
    OBVIOUS
  <2>1. CASE Configure
    <3>1. 0 \in U /\ config' \in Configuration /\ Valid(config') /\ initialized' \in BOOLEAN /\ Baseline(0)
      <4>1. PICK c \in Configs : Valid(c) /\ config' = c
        BY <2>1 DEF Configure
      <4>2. Valid(config') /\ config' \in Configuration
        BY <4>1, SchedulerAssumption
      <4>3. 0 \in U
        BY SchedulerAssumption DEF U
      <4> QED
        BY <2>1, <4>2, <4>3 DEF Configure
    <3>2. result' = result
      BY <2>1 DEF Configure
    <3> QED
      BY <3>1, <3>2, BaselineKeeps DEF IInv, TypeOK
  <2>2. CASE Reset
    <3>1. PICK now \in U : Baseline(now)
      BY <2>2, SchedulerAssumption DEF Reset
    <3>2. config' = config /\ result' = result /\ initialized' \in BOOLEAN /\ Valid(config)
      BY <2>2 DEF Reset
    <3>3. Valid(config')
      BY <3>2
    <3> QED
      BY <3>1, <3>2, <3>3, BaselineKeeps DEF IInv, TypeOK
  <2>3. CASE Advance
    <3>1. PICK now \in U : Rebase(now) \/ Sample(now)
      BY <2>3, SchedulerAssumption DEF Advance
    <3>2. Valid(config) /\ phase_numerator < config.ticks_per_second
      BY <2>3 DEF Advance
    <3>3. CASE Rebase(now)
      <4>1. /\ Baseline(now) /\ config' = config /\ initialized' \in BOOLEAN
            /\ result' = [NoResult EXCEPT !.clock_reset = initialized]
        BY <3>3 DEF Rebase
      <4>2. result' \in [steps_to_run : U, dropped_steps : U, clamped_ticks : U, clock_reset : BOOLEAN]
        BY <4>1, SchedulerAssumption DEF IInv, TypeOK, NoResult, U
      <4>3. Valid(config')
        BY <3>2, <4>1
      <4> QED
        BY <4>1, <4>2, <4>3, BaselineKeeps DEF IInv, TypeOK
    <3>4. CASE Sample(now)
      BY <3>2, <3>4, SampleKeeps
    <3> QED
      BY <3>1, <3>3, <3>4
  <2>4. CASE UNCHANGED vars
    BY <2>4 DEF vars, scheduler, history, IInv, TypeOK, StepsAreExact, TicksAreAccounted, StaysUsable, Valid
  <2> QED
    BY <2>1, <2>2, <2>3, <2>4 DEF Next
<1> QED
  BY <1>1, <1>2, PTL DEF Spec

\* No drift, at any rates and however the samples cut the time.
THEOREM StepsAlwaysExact == Spec => []StepsAreExact
<1>1. IInv => StepsAreExact
  BY DEF IInv
<1> QED
  BY <1>1, Inductive, PTL

\* No tick is lost unreported.
THEOREM TicksAlwaysAccounted == Spec => []TicksAreAccounted
<1>1. IInv => TicksAreAccounted
  BY DEF IInv
<1> QED
  BY <1>1, Inductive, PTL

\* No update makes a configured scheduler refuse the next one.
THEOREM AlwaysUsable == Spec => []StaysUsable
<1>1. IInv => StaysUsable
  BY DEF IInv
<1> QED
  BY <1>1, Inductive, PTL
==============================================================================
