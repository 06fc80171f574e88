------------------------------- MODULE MCClock -------------------------------
(***************************************************************************)
(* Clock faces and their presentations for TLC.  A second has 2 micro-     *)
(* seconds, a minute 2 seconds and an hour 2 minutes, so a day has 192.    *)
(* Presentations live at one instant, faces run through the other windows. *)
(***************************************************************************)
EXTENDS ClockPresentation

CONSTANTS MaxChanges

VARIABLE changes      \* of the files, at most MaxChanges

MCTimeMin == -765

\* How far ahead the place is, the equation of time and the half daylight with
\* what they gain in SkyPeriod days, and the length of twilight.
Sky(shift, equation, equation_rate, half, half_rate) ==
    [shift |-> shift, equation |-> equation, equation_rate |-> equation_rate,
     half |-> half, half_rate |-> half_rate, twilight |-> 4, sidereal |-> 100]
Winter == Sky(90, 3, 0, 30, 0)
Summer == Sky(-90, -2, 0, 60, 0)
Spring == Sky(20, 2, 1, 55, 2)
Autumn == Sky(-50, -2, -1, 40, -3)
\* About the noon of new year the Sun stops setting, sets again, stops rising or
\* rises again; half the daylight changes by two microseconds a day.
MidnightSunBegins == Sky(75, 2, -1, 97, 8)
MidnightSunEnds == Sky(-40, 0, 0, 96, -9)
PolarNightBegins == Sky(0, 0, 0, 0, -8)
PolarNightEnds == Sky(30, 1, -1, 0, 8)
\* Just after sunrise a leap year ends, and it is not yet sunrise.
SunriseAtNewYear == Sky(34, 2, -1, 61, 12)
Polar == {MidnightSunBegins, MidnightSunEnds, PolarNightBegins, PolarNightEnds}
\* The twilight begins to last all night.
WhiteNightsBegin == Sky(60, 1, 0, 93, 8)
High == {SunriseAtNewYear, WhiteNightsBegin} \cup Polar
MCSkies == {Winter, Summer, Spring, Autumn} \cup High

Years(from, days) == [first |-> from * DAY, last |-> (from + days) * DAY, stride |-> DAY]
SomeDays == [first |-> -500, last |-> DAY + 40, stride |-> 1]
LeapYearEnds == [first |-> 1096 * DAY - 300, last |-> 1096 * DAY + 120, stride |-> 1]
Moment == [first |-> 7, last |-> 7, stride |-> 1]
\* 1898 to 1901, 1999 to 2001, 2098 to 2101, and the years -2 to 2.
Calendars == {Years(-26297, 1461), Years(10592, 1096), Years(46752, 1461), Years(-720258, 1827)}
MCWindows == {SomeDays, LeapYearEnds, Moment} \cup Calendars
MCOffsets == {0, 80}
MCStarts == {-DAY - 50, 7, 1096 * DAY - 290}
MCTimeMax == 1100 * DAY

Image(id, symbols, provider, place, text) ==
    [id |-> id, symbols |-> symbols, provider |-> provider, place |-> place, text |-> text]
Whole == {"metadata", "provider"}
MCImages ==
    {Image("decimal", Whole, "decimal", FALSE, "valid"),
     Image("decimal", {"metadata"}, "decimal", FALSE, "valid"),
     Image("moon", Whole, "moon", TRUE, "valid"),
     Image("moon", Whole, "decimal", FALSE, "broken")}
MCWanted == {"decimal", "moon", "solar"}
MCFileOrder == <<"a.so", "b.so">>

Init ==
    /\ ClockInit
    /\ CASE window = SomeDays -> sky \notin High
         [] window = LeapYearEnds -> sky \in High \cup {Autumn}
         [] OTHER -> sky = Winter
    /\ PresentationInit
    /\ window # Moment => disk = [f \in Files |-> NoImage]
    /\ changes = 0

PresentationsLive == window = Moment
Next ==
    \/ Tick /\ UNCHANGED <<presentation, changes>>
    \/ /\ PresentationsLive
       /\ \/ \E c \in Consumers : ConsumerStep(c) /\ UNCHANGED changes
          \/ /\ changes < MaxChanges /\ changes' = changes + 1
             /\ \E f \in Files, image \in Images \cup {NoImage} : Replace(f, image)
       /\ UNCHANGED clock

Spec == Init /\ [][Next]_<<vars, changes>>
==============================================================================
