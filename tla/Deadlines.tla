-------------------------------- MODULE Deadlines --------------------------------
(***************************************************************************)
(* Deadlines: of src/timing.c, a periodic one that skips what was missed   *)
(* and the units that remain of a period; of src/posix.c, a timespec some  *)
(* milliseconds ahead and the milliseconds that remain of it.              *)
(*                                                                         *)
(* A timespec is a record of seconds and nanoseconds; a second has         *)
(* MsPerSecond milliseconds (1000 in the code), each of NsPerMs            *)
(* nanoseconds (a million).                                                *)
(***************************************************************************)
EXTENDS CheckedArithmetic

CONSTANTS
  MsPerSecond, NsPerMs,
  TimeMax                   \* the last second of a time_t

ASSUME DeadlineAssumption ==
  /\ {MsPerSecond, NsPerMs} \subseteq Nat \ {0} /\ TimeMax \in Nat
  /\ Overflow \notin [sec : Nat, nsec : Nat]

NsPerSecond == MsPerSecond * NsPerMs

\* The steps to the first boundary after now.
RoundedSteps(late_by, interval) == \* mutant: a boundary at now counts as after it
  IF late_by % interval = 0 THEN late_by \div interval
  ELSE u64_add_saturating(late_by \div interval, 1)
Steps(late_by, interval) == u64_add_saturating(late_by \div interval, 1)
periodic_deadline_advance(deadline, now, interval) ==
  u64_add_saturating(deadline,
    IF deadline > now THEN interval
    ELSE u64_multiply_saturating(interval, Steps(now - deadline, interval)))

i64_period_remaining(position, period) ==
  period - i64_floor_divmod(position, period).remainder

\* Microseconds to milliseconds: units of which there are per in a larger one.
ceil_to(units, per) ==
  IF units % per # 0 THEN units \div per + 1 ELSE units \div per

----------------------------------------------------------------------------------
Instant(t) == t.sec * NsPerSecond + t.nsec
Normalised(t) == t.sec \in 0..TimeMax /\ t.nsec \in 0..(NsPerSecond - 1)

\* clock_gettime said now; EOVERFLOW is Overflow.
deadline_after_milliseconds(now, milliseconds) ==
  LET ns == now.nsec + (milliseconds % MsPerSecond) * NsPerMs
      carry == IF ns >= NsPerSecond THEN 1 ELSE 0
      extra == milliseconds \div MsPerSecond + carry
  IN  IF extra > TimeMax - now.sec THEN Overflow
      ELSE [sec |-> now.sec + extra, nsec |-> ns - carry * NsPerSecond]

IsOver(deadline, now) ==
  deadline.sec < now.sec \/ (deadline.sec = now.sec /\ deadline.nsec <= now.nsec)
FractionalMs(ns) == (ns + NsPerMs - 1) \div NsPerMs
deadline_remaining_milliseconds(deadline, now) ==
  LET borrow == IF deadline.nsec < now.nsec THEN 1 ELSE 0
      seconds == deadline.sec - now.sec - borrow
      fractional == FractionalMs(deadline.nsec - now.nsec + borrow * NsPerSecond)
  IN  IF IsOver(deadline, now) THEN 0
      ELSE IF seconds > Max \div MsPerSecond THEN Overflow
      ELSE IF fractional > Max - seconds * MsPerSecond THEN Overflow
      ELSE seconds * MsPerSecond + fractional

monotonic_nanoseconds(now) ==
  IF now.sec > (Max - now.nsec) \div NsPerSecond THEN Overflow ELSE Instant(now)

----------------------------------------------------------------------------------
(* What they promise.                                                            *)

\* The next boundary of the cadence that is after now, and after the deadline
\* itself; the last number there is, if there is none.
AdvancesToNext(deadline, now, interval) ==
  LET next == periodic_deadline_advance(deadline, now, interval)
      Boundaries == {deadline + k * interval : k \in 1..(Max + 1)}
  IN  \/ /\ next \in Boundaries /\ next > now
         /\ \A b \in Boundaries : b > now => next <= b
      \/ next = Max /\ \A b \in Boundaries : b > now => b > Max
RemainsOfPeriod(position, period) ==
  LET remaining == i64_period_remaining(position, period)
  IN  remaining \in 1..period /\ (position + remaining) % period = 0

RoundsUp(units, per) ==
  LET larger == ceil_to(units, per) IN (larger - 1) * per < units /\ units <= larger * per

ReadsExactly(now) == IsChecked(monotonic_nanoseconds(now), Instant(now), U)

\* Who sleeps for the milliseconds that remain does not wake before the
\* deadline, nor a millisecond late.
WakesInTime(deadline, now) ==
  LET ms == deadline_remaining_milliseconds(deadline, now)
  IN  IF ms = Overflow THEN Instant(deadline) - Instant(now) > Max * NsPerMs
      ELSE /\ Instant(now) + ms * NsPerMs >= Instant(deadline)
           /\ ms > 0 => Instant(now) + (ms - 1) * NsPerMs < Instant(deadline)
\* And a deadline is as far ahead as was asked for, or beyond the last second.
IsAhead(now, milliseconds) ==
  LET deadline == deadline_after_milliseconds(now, milliseconds)
  IN  IF deadline = Overflow
      THEN Instant(now) + milliseconds * NsPerMs >= (TimeMax + 1) * NsPerSecond
      ELSE /\ Normalised(deadline)
           /\ Instant(deadline) = Instant(now) + milliseconds * NsPerMs
           /\ deadline_remaining_milliseconds(deadline, now) = milliseconds
==================================================================================
