------------------------------- MODULE FixedStep -------------------------------
(***************************************************************************)
(* The fixed-step scheduler of timing.c: it turns samples of a clock into  *)
(* numbers of simulation steps.  A consumer configures it, resets it, and  *)
(* advances it to whatever its clock shows, at any intervals; the clock    *)
(* may go backwards.                                                       *)
(*                                                                         *)
(* u64_product_divmod appears as the exact quotient and remainder it is    *)
(* shown to return in ExactProduct.  Calls with NULL are left out.         *)
(***************************************************************************)
EXTENDS Naturals

CONSTANTS
  Max,     \* the largest unsigned integer, UINT64_MAX in the code
  Clock,   \* the samples a clock may show
  Configs  \* the configurations consumers ask for

U == 0..Max
Configuration ==
  [ticks_per_second : U, steps_per_second : U, max_elapsed_ticks : U, max_steps_per_update : U]

ASSUME SchedulerAssumption ==
  /\ Max \in Nat
  /\ Clock \subseteq U
  /\ Configs \subseteq Configuration

VARIABLES
  config, previous_tick, phase_numerator, initialized,
  result,              \* of the last advance
  origin,              \* history: the sample the steps are counted from
  used, clamped, due   \* history: the ticks and steps accounted for since then

scheduler == <<config, previous_tick, phase_numerator, initialized>>
history == <<origin, used, clamped, due>>
vars == <<scheduler, result, history>>

Unconfigured ==
  [ticks_per_second |-> 0, steps_per_second |-> 0, max_elapsed_ticks |-> 0, max_steps_per_update |-> 0]
NoResult == [steps_to_run |-> 0, dropped_steps |-> 0, clamped_ticks |-> 0, clock_reset |-> FALSE]

TypeOK ==
  /\ config \in Configuration
  /\ previous_tick \in U /\ phase_numerator \in U /\ initialized \in BOOLEAN
  /\ result \in [steps_to_run : U, dropped_steps : U, clamped_ticks : U, clock_reset : BOOLEAN]
  /\ origin \in U /\ used \in Nat /\ clamped \in Nat /\ due \in Nat

Init ==
  /\ config = Unconfigured
  /\ previous_tick = 0 /\ phase_numerator = 0 /\ initialized = FALSE
  /\ result = NoResult
  /\ origin = 0 /\ used = 0 /\ clamped = 0 /\ due = 0

------------------------------------------------------------------------------

FasterThanClock(c) == \A field \in DOMAIN c : c[field] # 0 \* mutant: the rates are not compared
Valid(c) == (\A field \in DOMAIN c : c[field] # 0) /\ c.steps_per_second <= c.ticks_per_second

\* The steps are counted from this sample on.
Baseline(now) ==
  /\ previous_tick' = now
  /\ phase_numerator' = 0
  /\ origin' = now
  /\ used' = 0 /\ clamped' = 0 /\ due' = 0

\* infiltratr_fixed_step_configure; an invalid configuration changes nothing.
Configure ==
  /\ \E c \in Configs :
       /\ Valid(c)
       /\ config' = c
  /\ Baseline(0)
  /\ initialized' = FALSE
  /\ UNCHANGED result

\* infiltratr_fixed_step_reset
Reset ==
  /\ Valid(config)
  /\ \E now \in Clock : Baseline(now)
  /\ initialized' = TRUE
  /\ UNCHANGED <<config, result>>

------------------------------------------------------------------------------
(* infiltratr_fixed_step_advance                                             *)

\* The first sample, and the first after the clock went backwards.
Rebase(now) ==
  /\ ~initialized \/ now < previous_tick
  /\ Baseline(now)
  /\ initialized' = TRUE
  /\ result' = [NoResult EXCEPT !.clock_reset = initialized]
  /\ UNCHANGED config

Least(a, b) == IF a <= b THEN a ELSE b
Excess(a, b) == IF a > b THEN a - b ELSE 0

PastBoundary(elapsed_phase) == \* mutant: one too late
  elapsed_phase # 0 /\ phase_numerator > config.ticks_per_second - elapsed_phase
Carries(elapsed_phase) ==
  elapsed_phase # 0 /\ phase_numerator >= config.ticks_per_second - elapsed_phase

\* The fraction of a step left over.
FromZero(elapsed_phase) == elapsed_phase \* mutant
NewPhase(elapsed_phase) ==
  IF Carries(elapsed_phase)
    THEN phase_numerator - (config.ticks_per_second - elapsed_phase)
    ELSE phase_numerator + elapsed_phase

\* previous_tick moves even when the arithmetic then fails.
Sample(now) ==
  /\ initialized /\ now >= previous_tick
  /\ previous_tick' = now
  /\ LET elapsed == now - previous_tick
         used_elapsed == Least(elapsed, config.max_elapsed_ticks)
         scaled == used_elapsed * config.steps_per_second
         whole_steps == scaled \div config.ticks_per_second
         elapsed_phase == scaled % config.ticks_per_second
         carry == IF Carries(elapsed_phase) THEN 1 ELSE 0
         due_steps == whole_steps + carry
     IN  IF due_steps <= Max
           THEN /\ phase_numerator' = NewPhase(elapsed_phase)
                /\ result' = [steps_to_run |-> Least(due_steps, config.max_steps_per_update),
                              dropped_steps |-> Excess(due_steps, config.max_steps_per_update),
                              clamped_ticks |-> Excess(elapsed, config.max_elapsed_ticks),
                              clock_reset |-> FALSE]
                /\ used' = used + used_elapsed
                /\ clamped' = clamped + result'.clamped_ticks
                /\ due' = due + result'.steps_to_run + result'.dropped_steps
           ELSE UNCHANGED <<phase_numerator, result, used, clamped, due>>
  /\ UNCHANGED <<config, initialized, origin>>

Advance ==
  /\ Valid(config) /\ phase_numerator < config.ticks_per_second
  /\ \E now \in Clock : Rebase(now) \/ Sample(now)

Next == Configure \/ Reset \/ Advance

Spec == Init /\ [][Next]_vars

------------------------------------------------------------------------------
(* Properties.                                                               *)

\* No drift: however the samples cut the time, the steps reported so far, run or
\* dropped, are the whole steps in the ticks used so far, and the phase is the
\* fraction of the next one.
StepsAreExact ==
  initialized =>
    LET scaled == used * config.steps_per_second
    IN  /\ due = scaled \div config.ticks_per_second
        /\ phase_numerator = scaled % config.ticks_per_second

\* No time is lost unreported: every tick since the baseline was used or reported
\* as clamped.  An update whose arithmetic failed would break this, for it has
\* moved previous_tick by then: no valid configuration makes it fail.
TicksAreAccounted == initialized => used + clamped = previous_tick - origin

\* A scheduler that is configured stays valid: no update makes it refuse the next.
StaysUsable ==
  config # Unconfigured => Valid(config) /\ phase_numerator < config.ticks_per_second
==============================================================================
