----------------------------- MODULE SolarSky -----------------------------
(***************************************************************************)
(* What src/temporal_clock.c knows of a day: its length in microseconds,   *)
(* the Gregorian date of an instant, and where the Sun stands at it.       *)
(*                                                                         *)
(* The trigonometry of solar_terms and of the hour angle is abstracted to  *)
(* a sky: how far local mean time is ahead of UTC (the longitude), and two *)
(* quantities that depend, as in the code, on gamma alone: the equation of *)
(* time and the half length of the daylight.  gamma is the code's own: it  *)
(* counts a year as 365 days, so at the end of a leap year it jumps back   *)
(* by a day.  The cosines over gamma become a wave of straight lines.  Of  *)
(* the long doubles only the Julian date's rounding is kept (ClockReading);*)
(* the others become integers, in microseconds of a shorter day.  A half   *)
(* length outside 0 .. DAY \div 2 is a polar day or night, on which the    *)
(* code finds no sunrise.                                                  *)
(***************************************************************************)
EXTENDS Integers, FiniteSets

CONSTANTS
    MicrosecondsPerSecond,
    SecondsPerMinute,
    MinutesPerHour,
    TimeMin, TimeMax,       \* the range of an int64_t of microseconds
    SkyPeriod               \* days in which a sky's rates at new year are counted

HoursPerDay == 24
MINUTE == MicrosecondsPerSecond * SecondsPerMinute
HOUR == MINUTE * MinutesPerHour
DAY == HOUR * HoursPerDay

ASSUME ClockAssumption ==
    /\ {MicrosecondsPerSecond, SecondsPerMinute, MinutesPerHour, SkyPeriod} \subseteq Nat \ {0}
    /\ TimeMin \in Int /\ TimeMax \in Int /\ TimeMin < TimeMax
    /\ HOUR % 2 = 0

Representable(t) == TimeMin <= t /\ t <= TimeMax

\* The remainder of a floor division is never negative, as TLA+'s own.
floor_divide(value, divisor) == value \div divisor
positive_modulo(value, modulus) == value % modulus

---------------------------------------------------------------------------
(* The Gregorian day of the year, in cycles of 400 years from 1 March 0.   *)

Era(z) == floor_divide(z, 146097)
DayOfEra(z) == z - Era(z) * 146097
YearOfEra(z) ==
    LET doe == DayOfEra(z)
    IN (doe - doe \div 1460 + doe \div 36524 - doe \div 146096) \div 365
DayFromMarch(z) ==
    LET yoe == YearOfEra(z)
    IN DayOfEra(z) - (365 * yoe + yoe \div 4 - yoe \div 100)

cumulative_days == <<0, 31, 59, 90, 120, 151, 181, 212, 243, 273, 304, 334>>

GregorianDate(t) ==
    LET z == floor_divide(t, DAY) + 719468
        doy == DayFromMarch(z)
        mp == (5 * doy + 2) \div 153
        month == IF mp < 10 THEN mp + 3 ELSE mp - 9
        year == YearOfEra(z) + Era(z) * 400 + (IF month <= 2 THEN 1 ELSE 0)
    IN [year |-> year, month |-> month, day |-> doy - (153 * mp + 2) \div 5 + 1]

JulianLeapYear(year) == year % 4 = 0 \* mutant
IsLeapYear(year) == (year % 4 = 0 /\ year % 100 # 0) \/ year % 400 = 0

DayOfYear(date) ==
    cumulative_days[date.month] + date.day
      + (IF IsLeapYear(date.year) /\ date.month > 2 THEN 1 ELSE 0)
gregorian_day_of_year(t) == DayOfYear(GregorianDate(t))

---------------------------------------------------------------------------
(* The Sun.                                                                *)

YEAR == 365 * DAY
Quarter == YEAR \div 4

\* gamma as a time since its zero, the noon of 1 January.
gamma(t) == (gregorian_day_of_year(t) - 1) * DAY + (t % DAY) - DAY \div 2
\* What stands for a cosine of gamma: it rises through zero at new year,
\* turns a quarter of a year later and falls through zero at midyear.
Wave(angle) ==
    LET turned == (angle + Quarter) % YEAR
    IN IF turned <= 2 * Quarter THEN turned - Quarter ELSE 3 * Quarter - turned
Drift(rate, angle) == (Wave(angle) * rate) \div (SkyPeriod * DAY)

\* solar_terms, and the half daylight of a declination, at an angle gamma.
Equation(sky, angle) == sky.equation + Drift(sky.equation_rate, angle)
HalfDay(sky, depression, angle) ==
    sky.half + Drift(sky.half_rate, angle)
      + (IF depression = "twilight" THEN sky.twilight ELSE 0)
SunRises(sky, depression, t) == HalfDay(sky, depression, gamma(t)) \in 0 .. (DAY \div 2)

mean_solar(shift, t) == (positive_modulo(t, DAY) + shift) % DAY
apparent_solar(sky, shift, t) == (mean_solar(shift, t) + Equation(sky, gamma(t))) % DAY

\* Sunrise and sunset as solar times of the day, at the declination of t.
Around(noon, half) == [dawn |-> noon - half, dusk |-> noon + half]
solar_day_boundaries(sky, depression, t) == Around(DAY \div 2, HalfDay(sky, depression, gamma(t)))

\* Sunrise and sunset of the UTC day of t as instants, from the Sun of its
\* noon.  The days next to the ends of the range have none.
Noon(day) == day * DAY + DAY \div 2
NoonOf(t) == Noon(floor_divide(t, DAY))
HasBoundaries(sky, depression, t) ==
    /\ TimeMin + 2 * DAY <= t /\ t <= TimeMax - 2 * DAY
    /\ SunRises(sky, depression, NoonOf(t))
solar_boundary_instants(sky, depression, t) ==
    LET angle == gamma(NoonOf(t))
    IN Around(NoonOf(t) - sky.shift - Equation(sky, angle), HalfDay(sky, depression, angle))

\* Of the samples of the days around t, those with a boundary not after t.
WindowOffsets == -2 .. 2
Begun(sky, depression, edge, samples, t) ==
    {x \in samples :
        /\ HasBoundaries(sky, depression, x)
        /\ solar_boundary_instants(sky, depression, x)[edge] <= t}
===========================================================================
