------------------------------ MODULE ClockFace ------------------------------
(***************************************************************************)
(* A clock face that is looked at again and again: time passes under a sky *)
(* and the readings and durations of src/temporal_clock.c follow it.       *)
(*                                                                         *)
(* Time runs through one of the Windows, microsecond by microsecond or,    *)
(* for what depends on the date alone, day by day.                         *)
(***************************************************************************)
EXTENDS ClockDuration

CONSTANTS
    Skies,
    Windows,      \* records: the first and the last instant, and the stride
    Offsets,      \* of local time from UTC, in microseconds
    Starts        \* of intervals, as instants

VARIABLES sky, now, window

clock == <<sky, now, window>>

ASSUME FaceAssumption ==
    /\ \A w \in Windows : {w.first, w.last} \subseteq Int /\ w.stride \in {1, DAY}
    /\ \A w \in Windows : w.stride = 1 => Representable(w.first) /\ Representable(w.last)
    /\ Starts \subseteq TimeMin .. TimeMax /\ Offsets \subseteq Int
    /\ \A s \in Skies : s.shift \in Int

ClockInit ==
    /\ sky \in Skies
    /\ window \in Windows
    /\ now = window.first

Tick ==
    /\ now + window.stride <= window.last
    /\ now' = now + window.stride
    /\ UNCHANGED <<sky, window>>

ClockSpec == ClockInit /\ [][Tick]_clock

SeasonalModes == {"roman-temporal", "japanese-temporal", "japanese-temporal-early",
                  "nuremberg-hours", "nuremberg-solar"}

\* A window of one instant is for looking at one moment only.
SecondBySecond == window.stride = 1 /\ window.first < window.last

\* The starts of intervals in the window, and those of the running ones.
Near == {s \in Starts : window.first <= s}
Running == {s \in Near : s <= now}

---------------------------------------------------------------------------
(* Readings as keys that grow while a cycle lasts.                         *)

Key(mode, reading) ==
    CASE mode = "standard-12" -> [reading EXCEPT ![2] = @ % 12]
      [] mode = "babylonian-ancient" -> [reading EXCEPT ![1] = @ - 1]
      [] OTHER -> reading

\* Lexicographic, a longer key being later than its prefix.
NotAfter(k, l) ==
    \/ \E i \in DOMAIN k \cap DOMAIN l : k[i] < l[i] /\ \A j \in 1 .. (i - 1) : k[j] = l[j]
    \/ \A i \in DOMAIN k \cap DOMAIN l : k[i] = l[i]
SamePeriod(mode, k, l) == mode \in SeasonalModes => k[1] = l[1]
\* A day or a night begins with its first hour.
IsFirst(mode, key) ==
    LET hours == IF mode \in SeasonalModes THEN Tail(key) ELSE key
    IN \A i \in DOMAIN hours : hours[i] = 0

\* The Great Clock changes its hours at midnight UTC of a fixed day, and the
\* local one when the daylight passes half an hour: it jumps there by half an hour.
Reallotted(mode, t, u) ==
    \/ mode = "nuremberg-hours" /\ historical_day_hours(t) # historical_day_hours(u)
    \/ mode = "nuremberg-solar" /\ local_day_hours(sky, t) # local_day_hours(sky, u)

\* At the end of a leap year gamma jumps back by a day: the Sun at the midnight u
\* is that of a day before, and so are the dials that follow the Sun.
SunRepeats(t, u) == gregorian_day_of_year(t) = 366 /\ gregorian_day_of_year(u) = 1
IsAsYesterday(mode, reading, u, offset, fine) ==
    /\ mode \in SeasonalModes \cup {"solar"}
    /\ reading = Reading(sky, mode, u - DAY, offset, fine)

RunsForward(mode, t, u, offset, fine) ==
    LET before == Reading(sky, mode, t, offset, fine)
        after == Reading(sky, mode, u, offset, fine)
    IN \/ NotAvailable \in {before, after}
       \/ NotAfter(Key(mode, before), Key(mode, after)) /\ SamePeriod(mode, before, after)
       \/ IsFirst(mode, Key(mode, after))
       \/ Reallotted(mode, t, u)
       \/ SunRepeats(t, u) /\ IsAsYesterday(mode, after, u, offset, fine)

---------------------------------------------------------------------------
(* The dial and the stopwatch are separate code: they must agree.          *)

\* Where a mode of equal units counts from.
Midnight(t, offset) == t - local_microseconds_of_day(t, offset)
Neighbours(t) == {x \in {t + k * DAY : k \in -3 .. 3} : HasBoundaries(sky, "sunrise", x)}
LastBoundary(edge, t) ==
    Max({b \in {solar_boundary_instants(sky, "sunrise", x)[edge] : x \in Neighbours(t)} : b <= t})
Origin(mode, t, offset) ==
    CASE mode \in {"standard-24", "decimal", "hexadecimal", "binary", "chinese-ke"} -> Midnight(t, offset)
      [] mode = "internet" -> t - ((t + HOUR) % DAY)
      [] mode = "chinese-time" -> t - ((t + offset + HOUR) % DAY)
      [] mode = "mean-solar" -> t - ((t + sky.shift) % DAY)
      [] mode = "modified-julian" -> 0
      [] mode \in {"babylonian-hours", "indian-ghati"} -> LastBoundary("dawn", t)
      [] mode \in {"italian-hours", "babylonian-ancient"} -> LastBoundary("dusk", t)
EqualModes ==
    {"standard-24", "decimal", "hexadecimal", "binary", "chinese-ke", "internet", "chinese-time",
     "mean-solar", "modified-julian", "babylonian-hours", "indian-ghati", "italian-hours",
     "babylonian-ancient"}

\* A duration's fields as a dial shows them: no day count, the bēru from one.
AsDial(mode, duration, reading) ==
    CASE mode = "modified-julian" -> duration
      [] mode = "chinese-time" -> Tail(duration) \o Tail(reading)
      [] mode = "babylonian-ancient" -> <<duration[2] + 1, duration[3]>>
      [] OTHER -> Tail(duration)

\* A Julian dial may be a microsecond behind, as its date is a long double.
Lateness(mode) == IF mode \in {"julian", "modified-julian"} THEN {0, 1} ELSE {0}

DialIsElapsedTime(mode, offset, fine) ==
    LET reading == Reading(sky, mode, now, offset, fine)
        elapsed == now - Origin(mode, now, offset)
    IN \/ reading = NotAvailable
       \/ elapsed < 0
       \/ elapsed >= DAY /\ mode # "modified-julian"
       \/ \E late \in {l \in Lateness(mode) : l <= elapsed} :
            reading = AsDial(mode, Duration(sky, mode, elapsed - late, now, fine), reading)

\* The Roman and the Edo dial, against the interval from a dawn to the instant at:
\* the hour of the day is the number of horae lived, and after dusk all of them were.
SinceDawn(mode, noon, at) ==
    LET reading == Reading(sky, mode, now, 0, FALSE)
        dawn == solar_boundary_instants(sky, Depression(mode), noon).dawn
        lived == Duration(sky, mode, at - dawn, at, FALSE)
        index == reading[2]
    IN \/ Refused = lived
       \/ NotAvailable = reading
       \/ CASE reading[1] = ByDay /\ mode = "roman-temporal" -> Tail(lived) = <<index, 0, 0, 0>>
              [] reading[1] = ByNight /\ mode = "roman-temporal" -> Tail(lived) = <<12, 0, index, 0>>
              [] reading[1] = ByDay -> Tail(lived) = <<index, 0>>
              [] OTHER -> Tail(lived) = <<index + 6, 0>>

\* The dial goes by the Sun of the instant, the interval by the Sun of noons: they
\* differ by what the Sun changes in a day and a half, and under an unchanging Sun
\* by nothing.
Size(rate) == IF rate < 0 THEN -rate ELSE rate
Lag == (3 * (Size(sky.half_rate) + Size(sky.equation_rate)) + 2 * SkyPeriod - 1) \div (2 * SkyPeriod)
AgreesSinceDawn(mode, noon) ==
    LET dawn == solar_boundary_instants(sky, Depression(mode), noon).dawn
    IN dawn + Lag <= now => \E at \in (now - Lag) .. (now + Lag) : SinceDawn(mode, noon, at)
SeasonsAgree ==
    \A noon \in {NoonOf(s) : s \in Near} :
        HasBoundaries(sky, "twilight", noon) /\ HasBoundaries(sky, "sunrise", noon) =>
            \A mode \in {"roman-temporal"} \cup JapaneseModes : AgreesSinceDawn(mode, noon)

\* Action property: at every tick, what a dial shows is the time since its origin
\* as infiltratr_temporal_format_duration_mode shows it: two implementations, one of
\* dials from the solar time of the instant, one of intervals from the sunrises of
\* UTC days.  The modified Julian dial may show what the stopwatch did a microsecond
\* ago; the Roman and the Edo hours what the intervals show within the Lag of the sky,
\* on days that have a sunrise.
DialMatchesDuration ==
    [][SecondBySecond /\ Tick =>
        /\ \A mode \in EqualModes, offset \in Offsets, fine \in BOOLEAN :
             DialIsElapsedTime(mode, offset, fine)
        /\ SeasonsAgree]_clock

---------------------------------------------------------------------------
IsTruncated(coarse, fine) ==
    coarse = fine \/ (Len(coarse) <= Len(fine) /\ coarse = SubSeq(fine, 1, Len(coarse)))

\* Action property: at no tick does hiding the seconds change the fields that remain:
\* the coarse dial and the coarse duration (of equal units) are the fine ones cut
\* short.  The code computes them apart, from partitions of the day into different
\* numbers.  The Julian dials do it from a rounded date, and the fine one may reach a
\* tick a microsecond after the coarse one.
CoarseIsTruncated ==
    [][SecondBySecond /\ Tick =>
        /\ \A mode \in Modes, offset \in Offsets :
             \E late \in Lateness(mode) :
               IsTruncated(Reading(sky, mode, now, offset, FALSE),
                           Reading(sky, mode, now + late, offset, TRUE))
        /\ \A mode \in Modes \ {"roman-temporal", "japanese-temporal", "japanese-temporal-early"} :
             \A start \in Running :
               IsTruncated(Duration(sky, mode, now - start, now, FALSE),
                           Duration(sky, mode, now - start, now, TRUE))]_clock

\* Action property: from one microsecond to the next no dial goes back, except
\* to the beginning of its cycle, and no running stopwatch at all: across the
\* midnights of UTC and of the place, dawns, dusks, the beginnings and ends of polar
\* days and nights, and the collapsing of whole days (format_clock_mode,
\* seasonal_period_at, solar_origin_window, seasonal_progress_at).  At the end of a
\* leap year a dial of the Sun may show again what it showed a day before.
ClocksRunForward ==
    [][SecondBySecond /\ Tick =>
         \A mode \in Modes, fine \in BOOLEAN :
           /\ \A offset \in Offsets : RunsForward(mode, now, now', offset, fine)
           /\ \A start \in Running :
                LET before == Duration(sky, mode, now - start, now, fine)
                    after == Duration(sky, mode, now' - start, now', fine)
                IN Refused \in {before, after} \/ NotAfter(before, after)]_clock

\* The date arithmetic goes through every day of a year once, and the Great
\* Clock's hours change by one at a time, between 8 and 16 and back.
YearsAreWhole ==
    [][~SecondBySecond /\ Tick =>
         LET today == gregorian_day_of_year(now)
             length == IF IsLeapYear(GregorianDate(now).year) THEN 366 ELSE 365
             change == historical_day_hours(now') - historical_day_hours(now)
         IN /\ gregorian_day_of_year(now') = (IF today = length THEN 1 ELSE today + 1)
            /\ GregorianDate(now').year = GregorianDate(now).year + (IF today = length THEN 1 ELSE 0)
            /\ change \in {-1, 0, 1}
            /\ change = 1 => today < 182
            /\ change = -1 => today > 182]_clock
==============================================================================
