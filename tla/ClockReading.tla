---------------------------- MODULE ClockReading ----------------------------
(***************************************************************************)
(* format_clock_mode of src/temporal_clock.c, and the conventional and     *)
(* decimal clocks of src/temporal.c: what the dial of a mode shows at an   *)
(* instant t, as the tuple of its fields.  The words around the fields,    *)
(* their language and their layout are left out.  fine is show_seconds.    *)
(*                                                                         *)
(* The units that the code writes as numbers are constants here, so that a *)
(* day can be short: Ten and Hundred stand for the 10 and the 100 of the   *)
(* decimal and the Julian clocks, InternetTicks for the 1000 beats,        *)
(* HexTicks for 65536, Ke for 100, GhatiPerDay and VighatiPerGhati for 60, *)
(* UshPerBeru for 30.  The long double of a Julian date counts DateGrains  *)
(* to the day: 2^42 in the 64 bits of the x86 one, from 1030 to 6770.  Its *)
(* slack of 1.0e-10 of a tick is one of SlackParts.  That the quotient of  *)
(* the date is rounded, more finely, before the epoch is added is left out.*)
(***************************************************************************)
EXTENDS SolarSky, Sequences, FiniteSetsExt

CONSTANTS Ten, Hundred, InternetTicks, HexTicks, Ke, GhatiPerDay, VighatiPerGhati, UshPerBeru,
          DateGrains, SlackParts,
          NurembergShift,     \* how far Nuremberg's mean time is ahead of UTC
          NotAvailable        \* what a dial shows that has no Sun to go by

BERU == DAY \div 12
USH == BERU \div UshPerBeru
GHATI == DAY \div GhatiPerDay
VIGHATI == GHATI \div VighatiPerGhati

ASSUME UnitsAssumption ==
    /\ {Ten, Hundred, InternetTicks, HexTicks, Ke,
        GhatiPerDay, VighatiPerGhati, UshPerBeru} \subseteq Nat \ {0}
    /\ USH > 0

\* The ticks of a Julian date are more than a microsecond long, and the error
\* of the long double and the slack together less than one, as with the code's
\* numbers: 86400000000, 1000 and 100000, 2^42 and 10^10.
ASSUME PrecisionAssumption ==
    /\ {DateGrains, SlackParts} \subseteq Nat \ {0} /\ DateGrains % 2 = 0
    /\ \A scale \in {Ten * Hundred, Ten * Hundred * Hundred} :
         /\ DAY % scale = 0 /\ DAY > scale
         /\ DAY * (SlackParts * scale + 2 * DateGrains) < 2 * DateGrains * SlackParts * scale

\* The words of a reading are numbered.
Am == 0
Pm == 1
ByDay == 0
ByNight == 1

DecimalTicks(fine) == IF fine THEN Ten * Hundred * Hundred ELSE Ten * Hundred

local_microseconds_of_day(t, offset) == ((t % DAY) + (offset % DAY)) % DAY
NearestTick(phase, ticks) == (phase * ticks + DAY \div 2) \div DAY \* mutant
day_tick(phase, ticks) == (phase * ticks) \div DAY

\* Hours, minutes and, when shown, seconds of a number of microseconds.
Hms(span) == <<span \div HOUR, (span \div MINUTE) % MinutesPerHour,
               (span \div MicrosecondsPerSecond) % SecondsPerMinute>>
Shown(fields, fine) == IF fine THEN fields ELSE SubSeq(fields, 1, 2)
clock_fields(span, fine) == Shown(Hms(span % DAY), fine)

Standard24(local, fine) == Shown(Hms(local), fine)
Standard12(local, fine) ==
    LET fields == Hms(local)
        hour12 == IF fields[1] % 12 = 0 THEN 12 ELSE fields[1] % 12
    IN <<IF fields[1] < 12 THEN Am ELSE Pm, hour12>> \o Tail(Shown(fields, fine))

Decimal(local, fine) ==
    LET tick == day_tick(local, DecimalTicks(fine))
    IN IF fine
       THEN <<tick \div (Hundred * Hundred), (tick \div Hundred) % Hundred, tick % Hundred>>
       ELSE <<tick \div Hundred, tick % Hundred>>

Unix(t) == <<floor_divide(t, MicrosecondsPerSecond)>>
Hexadecimal(local) == <<day_tick(local, HexTicks)>>
Binary(local, fine) == clock_fields(local, fine)      \* shown in bits

Internet(t, fine) ==
    LET phase == ((t % DAY) + HOUR) % DAY
        tick == day_tick(phase, IF fine THEN InternetTicks * Hundred ELSE InternetTicks)
    IN IF fine THEN <<tick \div Hundred, tick % Hundred>> ELSE <<tick>>

\* A Julian day begins at noon; modified days begin at midnight.  The date is
\* the long double nearest to the exact one, and may lie below it: at the end
\* of a tick, where the slack does not make up for that, the dial is late.
NearestGrain(t) == (2 * t * DateGrains + DAY) \div (2 * DAY)
julian_date(t, modified) == NearestGrain(t) + (IF modified THEN 0 ELSE DateGrains \div 2)
JulianTicks(date, scale) ==
    LET fraction == (((date % DateGrains) * scale * SlackParts + DateGrains)
                        \div (DateGrains * SlackParts))
    IN IF fraction >= scale THEN scale - 1 ELSE fraction
Julian(t, modified, fine) ==
    LET date == julian_date(t, modified)
        ticks == JulianTicks(date, DecimalTicks(fine))
    IN IF fine
       THEN <<date \div DateGrains, ticks \div Hundred, ticks % Hundred>>
       ELSE <<date \div DateGrains, ticks>>

ChineseKe(local) == <<day_tick(local, Ke)>>
ChineseTime(local, fine) ==
    LET shifted == (local + HOUR) % DAY
        branch == shifted \div (2 * HOUR)
    IN IF fine THEN <<branch, IF shifted % (2 * HOUR) < HOUR THEN 0 ELSE 1>> ELSE <<branch>>

local_sidereal(sky, t) == sky.shift + sky.sidereal + t + t \div 365
SolarTime(sky, mode, t, fine) ==
    CASE mode = "sidereal" -> clock_fields(local_sidereal(sky, t), fine)
      [] mode = "solar" -> clock_fields(apparent_solar(sky, sky.shift, t), fine)
      [] mode = "mean-solar" -> clock_fields(mean_solar(sky.shift, t), fine)

---------------------------------------------------------------------------
(* The unequal hours.                                                      *)

\* Which part of the day or of the night it is, and the twelfths of it gone.
PeriodOf(solar, sun, day_parts, night_parts) ==
    LET daylight == sun.dawn <= solar /\ solar < sun.dusk
        span == IF daylight THEN sun.dusk - sun.dawn ELSE DAY - (sun.dusk - sun.dawn)
        position == IF daylight THEN solar - sun.dawn
                    ELSE IF solar >= sun.dusk THEN solar - sun.dusk
                    ELSE DAY - sun.dusk + solar
        parts == IF daylight THEN day_parts ELSE night_parts
        scaled == position * parts
    IN [daylight |-> daylight,
        index    |-> scaled \div span,
        twelfths |-> ((scaled % span) * 12) \div span]
seasonal_period(sky, depression, t, day_parts, night_parts) ==
    PeriodOf(apparent_solar(sky, sky.shift, t), solar_day_boundaries(sky, depression, t),
             day_parts, night_parts)

PeriodFields(period, with_twelfths) ==
    LET name == <<IF period.daylight THEN ByDay ELSE ByNight, period.index>>
    IN IF with_twelfths /\ period.daylight THEN Append(name, period.twelfths) ELSE name
Seasonal(sky, depression, t, day_parts, night_parts, with_twelfths) ==
    IF SunRises(sky, depression, t)
    THEN PeriodFields(seasonal_period(sky, depression, t, day_parts, night_parts), with_twelfths)
    ELSE NotAvailable

Roman(sky, t, fine) == Seasonal(sky, "sunrise", t, 12, 4, fine)
Japanese(sky, depression, t) == Seasonal(sky, depression, t, 6, 6, FALSE)

\* The last sunrise or sunset, for the hours that are counted from it.
SolarSamples(t) == {t + offset * DAY : offset \in WindowOffsets}
OriginSamples(sky, edge, t) ==
    Begun(sky, "sunrise", edge, {x \in SolarSamples(t) : Representable(x)}, t)
LatestOf(instants) == IF instants = {} THEN NotAvailable ELSE Max(instants)
solar_origin(sky, edge, t) ==
    LatestOf({solar_boundary_instants(sky, "sunrise", x)[edge] : x \in OriginSamples(sky, edge, t)})

\* What is shown of the time since an origin, where there is one.
HoursSince(origin, t, fine) ==
    IF origin = NotAvailable THEN NotAvailable ELSE Shown(Hms(t - origin), fine)
BeruSince(origin, t) ==
    IF origin = NotAvailable THEN NotAvailable
    ELSE <<(t - origin) \div BERU + 1, ((t - origin) % BERU) \div USH>>
GhatiSince(origin, t) ==
    IF origin = NotAvailable THEN NotAvailable
    ELSE <<(t - origin) \div GHATI, ((t - origin) \div VIGHATI) % VighatiPerGhati>>

format_equal_hours(sky, edge, t, fine) == HoursSince(solar_origin(sky, edge, t), t, fine)
BabylonianAncient(sky, t) == BeruSince(solar_origin(sky, "dusk", t), t)
IndianGhati(sky, t) == GhatiSince(solar_origin(sky, "dawn", t), t)

---------------------------------------------------------------------------
(* The Great Clock of Nuremberg: equal hours, counted from sunrise and     *)
(* sunset, whose number changes by one on fixed days.                      *)

thresholds == <<16, 37, 54, 71, 87, 104, 122, 144, 201, 223, 241, 257, 274, 290, 309, 329>>
allocations == <<9, 10, 11, 12, 13, 14, 15, 16, 15, 14, 13, 12, 11, 10, 9, 8>>

Threshold(index, leap) == thresholds[index] + (IF leap /\ thresholds[index] >= 71 THEN 1 ELSE 0)
historical_day_hours(t) ==
    LET leap == IsLeapYear(GregorianDate(t).year)
        today == gregorian_day_of_year(t)
        passed == {i \in DOMAIN thresholds : today >= Threshold(i, leap)}
    IN IF passed = {} THEN 8 ELSE allocations[Max(passed)]

\* The daylight rounded to whole hours, no fewer than 8 and no more than 16.
AllocatedHours(sun) ==
    LET rounded == (sun.dusk - sun.dawn + HOUR \div 2) \div HOUR
    IN IF rounded < 8 THEN 8 ELSE IF rounded > 16 THEN 16 ELSE rounded
local_day_hours(sky, t) == AllocatedHours(solar_day_boundaries(sky, "sunrise", t))

NurembergHours(solar, day_hours, fine) ==
    LET day_start == (24 - day_hours) * (HOUR \div 2)
        day_end == day_start + day_hours * HOUR
        daylight == day_start <= solar /\ solar < day_end
        elapsed == IF daylight THEN solar - day_start
                   ELSE IF solar >= day_end THEN solar - day_end
                   ELSE DAY - day_end + solar
    IN <<IF daylight THEN ByDay ELSE ByNight>> \o Shown(Hms(elapsed), fine)

---------------------------------------------------------------------------
(* The modes, what they need to know of the place, and the dispatch.       *)

NativeModes == {"decimal", "internet", "unix", "hexadecimal", "binary"}
SunModes == {"sidereal", "solar", "mean-solar"}
PlaceModes == {"roman-temporal", "japanese-temporal", "japanese-temporal-early", "italian-hours",
               "babylonian-hours", "babylonian-ancient", "indian-ghati", "nuremberg-solar"}
CivilModes == {"standard-24", "standard-12", "julian", "modified-julian", "chinese-time",
               "chinese-ke", "nuremberg-hours"}
Modes == NativeModes \cup SunModes \cup PlaceModes \cup CivilModes
\* The Edo day begins before sunrise, in the twilight; the early one at sunrise.
JapaneseModes == {"japanese-temporal", "japanese-temporal-early"}
Depression(mode) == IF mode = "japanese-temporal" THEN "twilight" ELSE "sunrise"
NeedsPlace(mode) == mode \in SunModes \cup PlaceModes

\* What format_clock_mode shows of mode at t.
Reading(sky, mode, t, offset, fine) ==
    LET local == local_microseconds_of_day(t, offset)
    IN CASE mode = "standard-24" -> Standard24(local, fine)
         [] mode = "standard-12" -> Standard12(local, fine)
         [] mode = "decimal" -> Decimal(local, fine)
         [] mode = "internet" -> Internet(t, fine)
         [] mode = "unix" -> Unix(t)
         [] mode = "hexadecimal" -> Hexadecimal(local)
         [] mode = "binary" -> Binary(local, fine)
         [] mode \in SunModes -> SolarTime(sky, mode, t, fine)
         [] mode = "julian" -> Julian(t, FALSE, fine)
         [] mode = "modified-julian" -> Julian(t, TRUE, fine)
         [] mode = "chinese-time" -> ChineseTime(local, fine)
         [] mode = "chinese-ke" -> ChineseKe(local)
         [] mode = "roman-temporal" -> Roman(sky, t, fine)
         [] mode \in JapaneseModes -> Japanese(sky, Depression(mode), t)
         [] mode \in {"italian-hours", "babylonian-hours"} ->
              format_equal_hours(sky, IF mode = "italian-hours" THEN "dusk" ELSE "dawn", t, fine)
         [] mode = "babylonian-ancient" -> BabylonianAncient(sky, t)
         [] mode = "indian-ghati" -> IndianGhati(sky, t)
         [] mode = "nuremberg-hours" ->
              NurembergHours(apparent_solar(sky, NurembergShift, t), historical_day_hours(t), fine)
         [] mode = "nuremberg-solar" ->
              IF SunRises(sky, "sunrise", t)
              THEN NurembergHours(apparent_solar(sky, sky.shift, t), local_day_hours(sky, t), fine)
              ELSE NotAvailable
=============================================================================
