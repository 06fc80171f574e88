---------------------------- MODULE ClockDuration ----------------------------
(***************************************************************************)
(* infiltratr_temporal_format_duration_mode of src/temporal_clock.c: how a *)
(* mode shows an interval of elapsed microseconds that ended at end, as    *)
(* the tuple of its fields, the whole days first.  Modes of equal units    *)
(* partition the elapsed time; the seasonal ones integrate the daylight    *)
(* and the night the interval went through.  Refused stands for a false    *)
(* return, NoEnd for INT64_MIN: a quantity with no place in time.          *)
(***************************************************************************)
EXTENDS ClockReading

CONSTANTS NoEnd, Refused

Days(span) == span \div DAY

Partition(span, ticks) == <<Days(span), day_tick(span % DAY, ticks)>>

\* A partition whose last two digits are shown only with the seconds.
Digits(span, ticks, fine) ==
    LET parts == Partition(span, IF fine THEN ticks * Hundred ELSE ticks)
    IN IF fine THEN <<parts[1], parts[2] \div Hundred, parts[2] % Hundred>> ELSE parts

DurationChinese(span, units) == Partition(span, units)
DurationTicks(span, ticks) == Partition(span, ticks)
DurationJulian(span, fine) == Digits(span, Ten * Hundred, fine)
DurationInternet(span, fine) == Digits(span, InternetTicks, fine)

DurationHms(span, fine) == <<Days(span)>> \o Shown(Hms(span % DAY), fine)
DurationBinary(span, fine) == DurationHms(span, fine)      \* shown in bits
DurationSidereal(span, fine) == DurationHms(span + span \div 365, fine)
DurationDecimal(span, fine) == <<Days(span)>> \o Decimal(span % DAY, fine)
DurationBeru(span) ==
    <<Days(span), (span % DAY) \div BERU, (span % BERU) \div USH>>
DurationGhati(span) ==
    LET pala == day_tick(span % DAY, GhatiPerDay * VighatiPerGhati)
    IN <<Days(span), pala \div VighatiPerGhati, pala % VighatiPerGhati>>

\* Time by the Sun gains what the equation of time gained meanwhile.
DurationSolar(sky, span, end, fine) ==
    LET gained == IF end = NoEnd \/ end - span < TimeMin THEN 0
                  ELSE Equation(sky, gamma(end)) - Equation(sky, gamma(end - span))
    IN DurationHms(Max({0, span + gained}), fine)

---------------------------------------------------------------------------
(* Seasonal intervals.  Both coordinates of a progress are fractions: a    *)
(* number of whole parts, and how far the current span has come.           *)

DayNoons(t) == {Noon(floor_divide(t, DAY) + offset) : offset \in WindowOffsets}
DawnNoons(sky, depression, t) == Begun(sky, depression, "dawn", DayNoons(t), t)

TodaysNoon(sky, depression, t) == NoonOf(t) \* mutant
\* The day (its noon) whose dawn is the last one that is not after t.
BestNoon(sky, depression, t) ==
    LET noons == DawnNoons(sky, depression, t)
        dawn(x) == solar_boundary_instants(sky, depression, x).dawn
        last == Max({dawn(x) : x \in noons})
    IN IF noons = {} THEN Refused ELSE CHOOSE x \in noons : dawn(x) = last

\* Before dusk t is in the daylight of the day of noon, and then in its night,
\* up to the dawn of the next day.
InDaylight(day, today, t) ==
    [daylight |-> [whole |-> day, part |-> t - today.dawn, of |-> today.dusk - today.dawn],
     night    |-> [whole |-> day, part |-> 0, of |-> 1]]
SameDay(day, today, next, t) == InDaylight(day, today, today.dawn) \* mutant: dusk ends nothing
InNight(day, today, next, t) ==
    [daylight |-> [whole |-> day + 1, part |-> 0, of |-> 1],
     night    |-> [whole |-> day, part |-> t - today.dusk, of |-> next.dawn - today.dusk]]

\* Where t is: the day, and the parts gone of its daylight and of its night.
seasonal_progress(sky, depression, t) ==
    LET noon == BestNoon(sky, depression, t)
        today == solar_boundary_instants(sky, depression, noon)
        next == solar_boundary_instants(sky, depression, noon + DAY)
        day == floor_divide(noon, DAY)
    IN IF noon = Refused THEN Refused
       ELSE IF today.dusk <= today.dawn THEN Refused
       ELSE IF t < today.dusk THEN InDaylight(day, today, t)
       ELSE IF HasBoundaries(sky, depression, noon + DAY) /\ today.dusk < next.dawn
       THEN InNight(day, today, next, t)
       ELSE Refused

\* The units of parts per whole between two coordinates, as a fraction.
Between(from, to, parts) ==
    [num |-> parts * ((to.whole - from.whole) * to.of * from.of
                        + to.part * from.of - from.part * to.of),
     den |-> to.of * from.of]
Plus(x, y) == [num |-> x.num * y.den + y.num * x.den, den |-> x.den * y.den]

Lived(sky, depression, span, end, day_parts, night_parts) ==
    LET from == seasonal_progress(sky, depression, end - span)
        to == seasonal_progress(sky, depression, end)
        daylight == Between(from.daylight, to.daylight, day_parts)
        night == Between(from.night, to.night, night_parts)
    IN IF end - span < TimeMin THEN Refused
       ELSE IF Refused \in {from, to} THEN Refused
       ELSE IF daylight.num < 0 \/ night.num < 0 THEN Refused
       ELSE [daylight |-> daylight, night |-> night]

\* Subdivisions of the units: rounded when fractions are shown, else whole.
seasonal_quantise(units, subdivisions, fine) ==
    IF fine THEN (2 * units.num * subdivisions + units.den) \div (2 * units.den)
    ELSE (units.num \div units.den) * subdivisions

\* Pairs of twelve horae and four vigiliae are collapsed into days first.
DurationRoman(sky, span, end, fine) ==
    LET lived == Lived(sky, "sunrise", span, end, 12, 4)
        hora_twelfths == seasonal_quantise(lived.daylight, 12, fine)
        vigilia_twelfths == seasonal_quantise(lived.night, 12, fine)
        whole_days == Min({hora_twelfths \div 144, vigilia_twelfths \div 48})
        h == hora_twelfths - whole_days * 144
        v == vigilia_twelfths - whole_days * 48
    IN IF lived = Refused THEN Refused
       ELSE <<whole_days, h \div 12, h % 12, v \div 12, v % 12>>

DurationJapanese(sky, depression, span, end, fine) ==
    LET lived == Lived(sky, depression, span, end, 6, 6)
        half_toki == seasonal_quantise(Plus(lived.daylight, lived.night), 2, fine)
    IN IF lived = Refused THEN Refused
       ELSE <<half_toki \div 24, (half_toki % 24) \div 2, half_toki % 2>>

\* Without an end in time there is no season: the code shows SI units.
Anchored(span, end, fine, Seasons) == IF end = NoEnd THEN DurationHms(span, fine) ELSE Seasons

Duration(sky, mode, span, end, fine) ==
    CASE mode \in {"standard-24", "standard-12", "mean-solar", "italian-hours",
                   "babylonian-hours", "nuremberg-hours", "nuremberg-solar"} -> DurationHms(span, fine)
      [] mode = "unix" -> <<span \div MicrosecondsPerSecond>>
      [] mode = "binary" -> DurationBinary(span, fine)
      [] mode = "sidereal" -> DurationSidereal(span, fine)
      [] mode = "solar" -> DurationSolar(sky, span, end, fine)
      [] mode = "decimal" -> DurationDecimal(span, fine)
      [] mode = "internet" -> DurationInternet(span, fine)
      [] mode \in {"julian", "modified-julian"} -> DurationJulian(span, fine)
      [] mode = "hexadecimal" -> DurationTicks(span, HexTicks)
      [] mode = "chinese-time" -> DurationChinese(span, 12)
      [] mode = "chinese-ke" -> DurationChinese(span, Ke)
      [] mode = "babylonian-ancient" -> DurationBeru(span)
      [] mode = "indian-ghati" -> DurationGhati(span)
      [] mode = "roman-temporal" -> Anchored(span, end, fine, DurationRoman(sky, span, end, fine))
      [] mode \in JapaneseModes ->
           Anchored(span, end, fine, DurationJapanese(sky, Depression(mode), span, end, fine))
=============================================================================
