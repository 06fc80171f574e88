------------------------------ MODULE ClockProofs ------------------------------
(***************************************************************************)
(* Proofs about ClockFace, for any length of the units, any sky and every  *)
(* day of the calendar, and about ClockPresentation, for any consumers,    *)
(* module files and images, any number of lost handles and whatever the    *)
(* clock says.                                                             *)
(***************************************************************************)
EXTENDS ClockPresentation, FiniteSetTheorems, SequenceTheorems, TLAPS

(* Quotients.                                                                *)

LEMMA QuotientIs ==
  ASSUME NEW a \in Int, NEW q \in Int, NEW r \in Int, NEW d \in Nat \ {0},
         a = q * d + r, 0 <= r, r < d
  PROVE  a \div d = q /\ a % d = r
OBVIOUS

LEMMA QuotientExists ==
  ASSUME NEW a \in Int, NEW d \in Nat \ {0}
  PROVE  /\ a \div d \in Int /\ a % d \in Int /\ 0 <= a % d /\ a % d < d
         /\ a = (a \div d) * d + (a % d)
<1>1. a \div d \in Int /\ a % d \in Int /\ 0 <= a % d /\ a % d < d
  OBVIOUS
<1>2. a = (a \div d) * d + (a % d)
  OBVIOUS
<1> QED
  BY <1>1, <1>2

\* A product of numbers is positive when they are, and less when one of them is.
LEMMA Products ==
  /\ \A a, b \in Nat : a * b \in Nat
  /\ \A a, b \in Nat \ {0} : a * b \in Nat \ {0}
  /\ \A a, b \in Int, c \in Nat \ {0} : a * c < b * c <=> a < b
<1>1. \A a, b \in Nat : a * b \in Nat
  OBVIOUS
<1>2. \A a, b \in Nat \ {0} : a * b \in Nat \ {0}
  OBVIOUS
<1>3. ASSUME NEW a \in Int, NEW b \in Int, NEW c \in Nat \ {0}
      PROVE  a * c < b * c <=> a < b
  <2>1. a * c \in Int /\ b * c \in Int
    OBVIOUS
  <2>2. CASE a < b
    <3>1. (b - a) * c \in Nat \ {0} /\ (b - a) * c = b * c - a * c
      BY <1>2, <2>2
    <3> QED
      BY <2>1, <2>2, <3>1
  <2>3. CASE ~(a < b)
    <3>1. (a - b) * c \in Nat /\ (a - b) * c = a * c - b * c
      BY <1>1, <2>3
    <3> QED
      BY <2>1, <2>3, <3>1
  <2> QED
    BY <2>2, <2>3
<1> QED
  BY <1>1, <1>2, <1>3

LEMMA UnitsArePositive ==
  /\ DAY \in Nat \ {0} /\ HOUR \in Nat \ {0} /\ MINUTE \in Nat \ {0}
  /\ Ten \in Nat \ {0} /\ Hundred \in Nat \ {0} /\ InternetTicks \in Nat \ {0}
<1>1. /\ MicrosecondsPerSecond \in Nat \ {0} /\ SecondsPerMinute \in Nat \ {0}
      /\ MinutesPerHour \in Nat \ {0}
  BY ClockAssumption
<1>2. MINUTE \in Nat \ {0}
  BY Products, <1>1 DEF MINUTE
<1>3. HOUR \in Nat \ {0}
  BY Products, <1>1, <1>2 DEF HOUR
<1>4. DAY \in Nat \ {0}
  BY Products, <1>3 DEF DAY, HoursPerDay
<1> QED
  BY <1>2, <1>3, <1>4, UnitsAssumption

\* The quotient of a quotient.
LEMMA TwiceDivided ==
  ASSUME NEW a \in Nat, NEW d \in Nat \ {0}, NEW e \in Nat \ {0}
  PROVE  (a \div d) \div e = a \div (d * e) /\ d * e \in Nat \ {0}
<1> DEFINE q == a \div d
           r == a % d
           p == q \div e
           s == q % e
<1>1. q \in Int /\ r \in Int /\ 0 <= r /\ r < d /\ a = q * d + r
  BY QuotientExists
<1>2. p \in Int /\ s \in Int /\ 0 <= s /\ s < e /\ q = p * e + s
  BY <1>1, QuotientExists
<1> HIDE DEF q, r, p, s
<1>3. a = p * (d * e) + (s * d + r)
  <2>1. q * d = (p * e) * d + s * d
    BY <1>1, <1>2
  <2>2. (p * e) * d = p * (d * e)
    BY <1>2
  <2> QED
    BY <1>1, <1>2, <2>1, <2>2
<1>4. s * d + r \in Int /\ 0 <= s * d + r /\ s * d + r < d * e
  <2>1. s * d <= (e - 1) * d /\ 0 <= s * d
    BY <1>2
  <2>2. (e - 1) * d = d * e - d
    OBVIOUS
  <2> QED
    BY <1>1, <1>2, <2>1, <2>2
<1>5. d * e \in Nat \ {0}
  OBVIOUS
<1>6. a \div (d * e) = p
  <2> DEFINE m == d * e
             n == s * d + r
  <2>1. a \in Int /\ m \in Nat \ {0} /\ n \in Int /\ 0 <= n /\ n < m /\ a = p * m + n
    BY <1>3, <1>4, <1>5
  <2> HIDE DEF m, n
  <2>2. a \div m = p
    BY <1>2, <2>1, QuotientIs
  <2> QED
    BY <2>2 DEF m
<1> QED
  BY <1>5, <1>6 DEF p, q

LEMMA QuotientOfQuotient ==
  \A a \in Nat, d, e \in Nat \ {0} : (a \div d) \div e = a \div (d * e)
BY TwiceDivided

LEMMA TimesDivided ==
  \A a \in Nat, d, h \in Nat \ {0} : ((a * h) \div d) \div h = a \div d
<1> SUFFICES ASSUME NEW a \in Nat, NEW d \in Nat \ {0}, NEW h \in Nat \ {0}
             PROVE  ((a * h) \div d) \div h = a \div d
  OBVIOUS
<1> DEFINE b == a * h
<1>1. b \in Nat /\ b = a * h + 0 /\ d * h = h * d
  OBVIOUS
<1> HIDE DEF b
<1>2. (b \div d) \div h = b \div (d * h)
  BY <1>1, TwiceDivided
<1>3. (b \div h) \div d = b \div (h * d)
  BY <1>1, TwiceDivided
<1>4. b \div h = a
  BY <1>1, QuotientIs
<1> QED
  BY <1>1, <1>2, <1>3, <1>4 DEF b

\* Finer ticks, cut short, are the coarse ones.
LEMMA TicksAreTruncated ==
  ASSUME NEW phase \in Nat, NEW ticks \in Nat
  PROVE  day_tick(phase, ticks * Hundred) \div Hundred = day_tick(phase, ticks)
<1>1. DAY \in Nat \ {0} /\ Hundred \in Nat \ {0}
  BY UnitsArePositive
<1>2. phase * ticks \in Nat /\ phase * (ticks * Hundred) = (phase * ticks) * Hundred
  BY <1>1
<1>3. (((phase * ticks) * Hundred) \div DAY) \div Hundred = (phase * ticks) \div DAY
  BY <1>1, <1>2, TimesDivided, Zenon
<1> QED
  BY <1>2, <1>3 DEF day_tick

(* What the fields are without the seconds.                                  *)

LEMMA Same == ASSUME NEW x PROVE IsTruncated(x, x)
BY DEF IsTruncated

LEMMA Longer ==
  /\ \A a, b : IsTruncated(<<a>>, <<a, b>>)
  /\ \A a, b, c : IsTruncated(<<a, b>>, <<a, b, c>>)
  /\ \A a, b, c, d : IsTruncated(<<a, b, c>>, <<a, b, c, d>>)
BY DEF IsTruncated

LEMMA CutBehind ==
  ASSUME NEW E, NEW p \in Seq(E), NEW s \in Seq(E), NEW k \in Nat, k <= Len(s)
  PROVE  IsTruncated(p \o SubSeq(s, 1, k), p \o s)
<1>1. SubSeq(s, 1, k) \in Seq(E) /\ Len(SubSeq(s, 1, k)) = k
  OBVIOUS
<1>2. p \o s \in Seq(E) /\ Len(p \o s) = Len(p) + Len(s)
  OBVIOUS
<1>3. p \o SubSeq(s, 1, k) \in Seq(E) /\ Len(p \o SubSeq(s, 1, k)) = Len(p) + k
  BY <1>1
<1>4. p \o SubSeq(s, 1, k) = SubSeq(p \o s, 1, Len(p) + k)
  BY <1>1, <1>2, <1>3
<1> QED
  BY <1>2, <1>3, <1>4 DEF IsTruncated

LEMMA ShownIsTruncated ==
  ASSUME NEW span
  PROVE  /\ IsTruncated(Shown(Hms(span), FALSE), Shown(Hms(span), TRUE))
         /\ \A x : IsTruncated(<<x>> \o Shown(Hms(span), FALSE), <<x>> \o Shown(Hms(span), TRUE))
         /\ \A x, y : IsTruncated(<<x, y>> \o Tail(Shown(Hms(span), FALSE)),
                                  <<x, y>> \o Tail(Shown(Hms(span), TRUE)))
<1> DEFINE h == span \div HOUR
           m == (span \div MINUTE) % MinutesPerHour
           s == (span \div MicrosecondsPerSecond) % SecondsPerMinute
           E(x, y) == {h, m, s, x, y}
<1>1. Shown(Hms(span), TRUE) = <<h, m, s>> /\ Shown(Hms(span), FALSE) = SubSeq(<<h, m, s>>, 1, 2)
  BY DEF Shown, Hms
<1> HIDE DEF h, m, s
<1>2. ASSUME NEW x, NEW y
      PROVE  /\ <<h, m, s>> \in Seq(E(x, y)) /\ <<m, s>> \in Seq(E(x, y)) /\ <<x>> \in Seq(E(x, y))
             /\ <<x, y>> \in Seq(E(x, y)) /\ Len(<<h, m, s>>) = 3 /\ Len(<<m, s>>) = 2
  OBVIOUS
<1>3. Tail(<<h, m, s>>) = <<m, s>> /\ Tail(SubSeq(<<h, m, s>>, 1, 2)) = SubSeq(<<m, s>>, 1, 1)
  BY <1>2
<1>4. IsTruncated(Shown(Hms(span), FALSE), Shown(Hms(span), TRUE))
  <2> DEFINE t == <<h, m, s>>
  <2>1. t \in Seq(E(1, 2)) /\ Len(t) = 3
    BY <1>2
  <2> HIDE DEF t, E
  <2>2. Len(SubSeq(t, 1, 2)) = 2
    BY <2>1
  <2>3. IsTruncated(SubSeq(t, 1, 2), t)
    BY <2>1, <2>2 DEF IsTruncated
  <2> QED
    BY <1>1, <2>3 DEF t
<1>5. ASSUME NEW x PROVE IsTruncated(<<x>> \o Shown(Hms(span), FALSE), <<x>> \o Shown(Hms(span), TRUE))
  <2> DEFINE t == <<h, m, s>>
             p == <<x>>
             F == E(x, x)
  <2>1. p \in Seq(F) /\ t \in Seq(F) /\ 2 <= Len(t)
    BY <1>2
  <2> HIDE DEF t, p, F
  <2>2. IsTruncated(p \o SubSeq(t, 1, 2), p \o t)
    BY <2>1, CutBehind
  <2> QED
    BY <1>1, <2>2 DEF t, p
<1>6. ASSUME NEW x, NEW y
      PROVE  IsTruncated(<<x, y>> \o Tail(Shown(Hms(span), FALSE)), <<x, y>> \o Tail(Shown(Hms(span), TRUE)))
  <2> DEFINE t == <<m, s>>
             p == <<x, y>>
             F == E(x, y)
  <2>1. p \in Seq(F) /\ t \in Seq(F) /\ 1 <= Len(t)
    BY <1>2
  <2> HIDE DEF t, p, F
  <2>2. IsTruncated(p \o SubSeq(t, 1, 1), p \o t)
    BY <2>1, CutBehind
  <2> QED
    BY <1>1, <1>3, <2>2 DEF t, p
<1> QED
  BY <1>4, <1>5, <1>6

LEMMA StaysTruncated ==
  ASSUME NEW E, NEW p \in Seq(E), NEW c \in Seq(E), NEW f \in Seq(E), IsTruncated(c, f)
  PROVE  IsTruncated(p \o c, p \o f)
<1>1. CASE c = f
  BY <1>1, Same
<1>2. CASE c = SubSeq(f, 1, Len(c)) /\ Len(c) <= Len(f)
  <2> DEFINE k == Len(c)
  <2>1. k \in Nat /\ k <= Len(f) /\ c = SubSeq(f, 1, k)
    BY <1>2
  <2> HIDE DEF k
  <2> QED
    BY <2>1, CutBehind
<1> QED
  BY <1>1, <1>2 DEF IsTruncated

LEMMA DecimalIsTruncated ==
  ASSUME NEW local \in Nat, NEW x
  PROVE  /\ IsTruncated(Decimal(local, FALSE), Decimal(local, TRUE))
         /\ IsTruncated(<<x>> \o Decimal(local, FALSE), <<x>> \o Decimal(local, TRUE))
<1> DEFINE coarse == day_tick(local, Ten * Hundred)
           fine == day_tick(local, (Ten * Hundred) * Hundred)
           a == coarse \div Hundred
           b == coarse % Hundred
           c == fine % Hundred
<1>1. DAY \in Nat \ {0} /\ Hundred \in Nat \ {0} /\ Ten * Hundred \in Nat
  BY Products, UnitsArePositive
<1>2. coarse = fine \div Hundred
  BY <1>1, TicksAreTruncated
<1>3. fine \in Nat
  <2> DEFINE n == local * ((Ten * Hundred) * Hundred)
  <2>1. n \in Nat
    BY <1>1, Products
  <2> HIDE DEF n
  <2>2. n \div DAY \in Nat
    BY <1>1, <2>1
  <2> QED
    BY <2>2 DEF day_tick, n
<1>4. Decimal(local, FALSE) = <<a, b>>
  BY DEF Decimal, DecimalTicks
<1>5. Decimal(local, TRUE) = <<a, b, c>>
  <2> HIDE DEF coarse
  <2>1. Decimal(local, TRUE) = <<fine \div (Hundred * Hundred), (fine \div Hundred) % Hundred, fine % Hundred>>
    BY DEF Decimal, DecimalTicks
  <2> HIDE DEF fine
  <2>2. (fine \div Hundred) \div Hundred = fine \div (Hundred * Hundred)
    BY <1>1, <1>3, TwiceDivided
  <2> QED
    BY <1>2, <2>1, <2>2
<1> HIDE DEF a, b, c
<1>6. IsTruncated(<<a, b>>, <<a, b, c>>)
  BY Longer
<1>7. <<x>> \in Seq({a, b, c, x}) /\ <<a, b>> \in Seq({a, b, c, x}) /\ <<a, b, c>> \in Seq({a, b, c, x})
  OBVIOUS
<1>8. IsTruncated(<<x>> \o <<a, b>>, <<x>> \o <<a, b, c>>)
  BY <1>6, <1>7, StaysTruncated
<1> QED
  BY <1>4, <1>5, <1>6, <1>8

LEMMA SpansAre ==
  ASSUME NEW t \in Int
  PROVE  t % DAY \in Nat /\ \A offset \in Int : local_microseconds_of_day(t, offset) \in Nat
<1>1. DAY \in Nat \ {0}
  BY UnitsArePositive
<1>2. \A x \in Int : x % DAY \in Nat
  BY <1>1
<1>3. ASSUME NEW offset \in Int PROVE local_microseconds_of_day(t, offset) \in Nat
  <2>1. t % DAY \in Nat /\ offset % DAY \in Nat
    BY <1>2
  <2>2. (t % DAY) + (offset % DAY) \in Int
    BY <2>1
  <2> QED
    BY <1>2, <2>2 DEF local_microseconds_of_day
<1> QED
  BY <1>2, <1>3

LEMMA InternetIsTruncated ==
  ASSUME NEW t \in Int
  PROVE  IsTruncated(Internet(t, FALSE), Internet(t, TRUE))
<1> DEFINE phase == ((t % DAY) + HOUR) % DAY
<1>1. phase \in Nat
  <2>1. t % DAY \in Nat /\ HOUR \in Nat
    BY SpansAre, UnitsArePositive
  <2>2. (t % DAY) + HOUR \in Int
    BY <2>1
  <2> QED
    BY <2>2, SpansAre
<1> HIDE DEF phase
<1>2. day_tick(phase, InternetTicks * Hundred) \div Hundred = day_tick(phase, InternetTicks)
  BY <1>1, UnitsArePositive, TicksAreTruncated
<1>3. /\ Internet(t, FALSE) = <<day_tick(phase, InternetTicks)>>
      /\ Internet(t, TRUE) = <<day_tick(phase, InternetTicks * Hundred) \div Hundred,
                               day_tick(phase, InternetTicks * Hundred) % Hundred>>
  BY DEF Internet, phase
<1> QED
  BY <1>2, <1>3, Longer

LEMMA DigitsAreTruncated ==
  ASSUME NEW span \in Int, NEW ticks \in Nat
  PROVE  IsTruncated(Digits(span, ticks, FALSE), Digits(span, ticks, TRUE))
<1> DEFINE phase == span % DAY
<1>1. phase \in Nat
  BY SpansAre
<1>2. day_tick(phase, ticks * Hundred) \div Hundred = day_tick(phase, ticks)
  BY <1>1, TicksAreTruncated
<1> HIDE DEF phase
<1>3. /\ Digits(span, ticks, FALSE) = <<Days(span), day_tick(phase, ticks)>>
      /\ Digits(span, ticks, TRUE) = <<Days(span), day_tick(phase, ticks * Hundred) \div Hundred,
                                       day_tick(phase, ticks * Hundred) % Hundred>>
  BY DEF Digits, Partition, phase
<1> QED
  BY <1>2, <1>3, Longer

(* The rounded Julian date.                                                  *)

\* Where a date of g grains is within half a microsecond of x, of D to the day:
\* its day is that of x, and so is its phase.
IsDateOf(D, G, x, g, h) ==
    /\ D \in Nat \ {0} /\ G \in Nat \ {0} /\ D < 2 * G
    /\ x \in Int /\ g \in Int /\ h \in Int
    /\ g * D = x * G + h /\ -D < 2 * h /\ 2 * h <= D
LEMMA GrainIs ==
  ASSUME NEW D, NEW G, NEW x, NEW g, NEW h, IsDateOf(D, G, x, g, h)
  PROVE  /\ g \div G = x \div D
         /\ g % G \in Int /\ (g % G) * D = (x % D) * G + h
<1> USE DEF IsDateOf
<1> DEFINE q == x \div D
           m == x % D
           k == g - q * G
<1>1. q \in Int /\ m \in Int /\ 0 <= m /\ m < D /\ x = q * D + m
  BY QuotientExists
<1> HIDE DEF q, m
<1>2. k \in Int /\ g = q * G + k
  BY <1>1
<1>3. k * D = m * G + h
  <2> DEFINE A == q * G * D
  <2>1. g * D = A + k * D
    BY <1>1, <1>2
  <2>2. x * G = q * D * G + m * G
    BY <1>1
  <2>3. q * D * G = A
    BY <1>1
  <2>4. A \in Int /\ k * D \in Int /\ m * G \in Int
    BY <1>1, <1>2
  <2> HIDE DEF k, A
  <2> QED
    BY <1>1, <1>2, <2>1, <2>2, <2>3, <2>4
<1> HIDE DEF k
<1>4. m * G \in Nat /\ m * G <= D * G - G
  <2>1. (D - 1 - m) * G \in Nat /\ (D - 1 - m) * G = D * G - G - m * G
    BY <1>1
  <2>2. m * G \in Nat
    BY <1>1
  <2> QED
    BY <2>1, <2>2
<1>5. 0 <= k
  <2>1. (-1) * D < k * D
    BY <1>2, <1>3, <1>4
  <2>2. -1 < k
    BY <1>2, <2>1, Products
  <2> QED
    BY <1>2, <2>2
<1>6. k < G
  <2>1. k * D < G * D
    BY <1>2, <1>3, <1>4
  <2> QED
    BY <1>2, <2>1, Products
<1>7. g \div G = q /\ g % G = k
  BY <1>1, <1>2, <1>5, <1>6, QuotientIs
<1> QED
  BY <1>2, <1>3, <1>7 DEF q, m

\* Of scale ticks of L microseconds to the day, as many are gone at k grains as at
\* the microsecond m, or one fewer when the date is too low at the end of a tick.
LEMMA FractionIs ==
  ASSUME NEW D \in Nat \ {0}, NEW G \in Nat \ {0}, NEW S \in Nat \ {0}, NEW L \in Nat \ {0},
         NEW scale \in Nat \ {0},
         D = L * scale, D < 2 * G, D * S + 2 * (G * L) < 2 * (G * S),
         NEW m \in Nat, NEW k \in Int, NEW h \in Int,
         k * D = m * G + h, -D < 2 * h, 2 * h <= D
  PROVE  (k * scale * S + G) \div (G * S) =
           IF m % L = 0 /\ h * S + G * L < 0 THEN m \div L - 1 ELSE m \div L
<1> DEFINE j == m \div L
           i == m % L
           B == G * S
           slack == h * S + G * L
           n == k * scale * S + G
           e == i * B + slack
           r == n - j * B
<1>1. j \in Int /\ i \in Int /\ 0 <= i /\ i < L /\ m = j * L + i
  BY QuotientExists
<1>2. B \in Nat \ {0} /\ n \in Int /\ slack \in Int /\ h * S \in Int /\ G * L \in Nat
  BY Products
<1> HIDE DEF j, i
<1>3. e \in Int /\ r \in Int /\ i * B \in Nat /\ n = j * B + r
  BY <1>1, <1>2
<1>4. r * L = e
  <2>1. n * L = (k * D) * S + G * L
    <3>1. n * L = (k * scale * S) * L + G * L
      OBVIOUS
    <3>2. (k * scale * S) * L = (k * (L * scale)) * S
      OBVIOUS
    <3> QED
      BY <3>1, <3>2
  <2>2. (k * D) * S = m * B + h * S
    <3>1. (m * G + h) * S = m * (G * S) + h * S
      OBVIOUS
    <3> QED
      BY <3>1
  <2>3. m * B = (j * B) * L + i * B
    BY <1>1, <1>2
  <2>4. r * L = n * L - (j * B) * L
    BY <1>1, <1>2
  <2>5. /\ n * L \in Int /\ (k * D) * S \in Int /\ m * B \in Int /\ (j * B) * L \in Int
        /\ r * L \in Int /\ i * B \in Int
    BY <1>1, <1>2, <1>3
  <2> HIDE DEF n, B, r
  <2> QED
    BY <1>2, <2>1, <2>2, <2>3, <2>4, <2>5
<1>5. 2 * slack < 2 * B /\ slack < B /\ -B < slack
  <2>1. 2 * (h * S) <= D * S
    <3>1. (D - 2 * h) * S \in Nat /\ (D - 2 * h) * S = D * S - 2 * (h * S)
      BY Products
    <3> QED
      BY <1>2, <3>1
  <2>2. -(2 * B) < 2 * (h * S)
    <3>1. (2 * h + 2 * G) * S \in Nat \ {0} /\ (2 * h + 2 * G) * S = 2 * (h * S) + 2 * (G * S)
      BY Products
    <3> QED
      BY <1>2, <3>1
  <2>3. D * S \in Int
    OBVIOUS
  <2> QED
    BY <1>2, <2>1, <2>2, <2>3
<1>6. i * B <= B * L - B /\ B * L \in Nat
  <2>1. (L - 1 - i) * B \in Nat /\ (L - 1 - i) * B = B * L - B - i * B
    BY <1>1, <1>2, Products
  <2> HIDE DEF B
  <2> QED
    BY <1>2, <1>3, <2>1
<1> HIDE DEF B, slack, n, e, r
<1>7. r < B
  <2>1. r * L < B * L
    BY <1>2, <1>3, <1>4, <1>5, <1>6 DEF e
  <2> QED
    BY <1>2, <1>3, <2>1, Products
<1>8. CASE i = 0 /\ slack < 0
  <2>1. e < 0 /\ -B < e
    BY <1>2, <1>5, <1>8 DEF e
  <2>2. r < 0
    <3>1. r * L < 0 * L
      BY <1>3, <1>4, <2>1
    <3> QED
      BY <1>3, <3>1, Products
  <2>3. -B < r
    <3>1. (-B) * L <= -B
      <4>1. B * (L - 1) \in Nat /\ B * (L - 1) = B * L - B
        BY <1>2, Products
      <4>2. (-B) * L = -(B * L)
        BY <1>2
      <4> QED
        BY <1>2, <1>6, <4>1, <4>2
    <3>2. (-B) * L < r * L
      BY <1>2, <1>3, <1>4, <1>6, <2>1, <3>1
    <3>3. -B \in Int
      BY <1>2
    <3> QED
      BY <1>3, <3>2, <3>3, Products
  <2> DEFINE p == j - 1
             s == r + B
  <2>4. p \in Int /\ s \in Int /\ 0 <= s /\ s < B /\ n = p * B + s
    <3>1. p * B = j * B - B /\ j * B \in Int
      BY <1>1, <1>2
    <3> QED
      BY <1>1, <1>2, <1>3, <2>2, <2>3, <3>1
  <2> HIDE DEF p, s
  <2>5. n \div B = p
    BY <1>2, <2>4, QuotientIs
  <2> QED
    BY <1>8, <2>5 DEF p, n, B, slack, i, j
<1>9. CASE ~(i = 0 /\ slack < 0)
  <2>1. 0 <= e
    <3>1. CASE i = 0
      BY <1>2, <1>9, <3>1 DEF e
    <3>2. CASE i # 0
      <4>1. (i - 1) * B \in Nat /\ (i - 1) * B = i * B - B
        BY <1>1, <1>2, <3>2, Products
      <4> QED
        BY <1>2, <1>3, <1>5, <4>1 DEF e
    <3> QED
      BY <3>1, <3>2
  <2>2. 0 <= r
    <3>1. (-1) * L < r * L
      BY <1>3, <1>4, <2>1
    <3>2. -1 < r
      BY <1>3, <3>1, Products
    <3> QED
      BY <1>3, <3>2
  <2>3. n \div B = j
    BY <1>1, <1>2, <1>3, <1>7, <2>2, QuotientIs
  <2> QED
    BY <1>9, <2>3 DEF n, B, slack, i, j
<1> QED
  BY <1>8, <1>9

\* A Julian dial shows the microsecond of the shifted day, or the one before when
\* the date has been rounded down at the end of a tick.
Shifted(t, modified) == IF modified THEN t ELSE t + DAY \div 2
Error(t) == NearestGrain(t) * DAY - t * DateGrains
TickLength(fine) == DAY \div DecimalTicks(fine)
IsLate(t, modified, fine) ==
    /\ (Shifted(t, modified) % DAY) % TickLength(fine) = 0
    /\ Error(t) * SlackParts + DateGrains * TickLength(fine) < 0
SeenBy(t, modified, fine) == Shifted(t, modified) - (IF IsLate(t, modified, fine) THEN 1 ELSE 0)

LEMMA ShiftedIs ==
  ASSUME NEW t \in Int, NEW modified \in BOOLEAN
  PROVE  /\ Shifted(t, modified) \in Int
         /\ Shifted(t + 1, modified) = Shifted(t, modified) + 1
BY UnitsArePositive DEF Shifted

\* The long double is the nearest.
LEMMA ErrorIs ==
  ASSUME NEW t \in Int
  PROVE  /\ NearestGrain(t) \in Int /\ Error(t) \in Int
         /\ -DAY < 2 * Error(t) /\ 2 * Error(t) <= DAY
<1> DEFINE D == DAY
           G == DateGrains
           product == t * G
           n == 2 * product + D
           d == 2 * D
           q == n \div d
           r == n % d
<1>1. D \in Nat \ {0} /\ G \in Nat \ {0} /\ product \in Int
  BY UnitsArePositive, PrecisionAssumption
<1>2. 2 * t * DateGrains = 2 * product
  BY <1>1
<1> HIDE DEF D, G, product
<1>3. d \in Nat \ {0} /\ n \in Int
  BY <1>1
<1>4. q \in Int /\ r \in Int /\ 0 <= r /\ r < d /\ n = q * d + r
  BY <1>3, QuotientExists
<1> HIDE DEF q, r
<1>5. q * d = 2 * (q * D) /\ q * D \in Int
  BY <1>1, <1>4
<1>6. NearestGrain(t) = q /\ Error(t) = q * D - product
  BY <1>2 DEF NearestGrain, Error, q, D, G, product
<1>7. /\ q * D - product \in Int
      /\ -D < 2 * (q * D - product) /\ 2 * (q * D - product) <= D
  BY <1>1, <1>4, <1>5
<1> QED
  BY <1>4, <1>6, <1>7 DEF D

\* What the assumption on the long double says of a tick.
LEMMA PrecisionIs ==
  ASSUME NEW fine \in BOOLEAN
  PROVE  /\ DateGrains \in Nat \ {0} /\ SlackParts \in Nat \ {0} /\ DecimalTicks(fine) \in Nat \ {0}
         /\ TickLength(fine) \in Nat \ {0} /\ 2 <= TickLength(fine)
         /\ DAY = TickLength(fine) * DecimalTicks(fine)
         /\ DAY < 2 * DateGrains
         /\ DAY * SlackParts + 2 * (DateGrains * TickLength(fine)) < 2 * (DateGrains * SlackParts)
<1> DEFINE D == DAY
           G == DateGrains
           S == SlackParts
           scale == DecimalTicks(fine)
           L == D \div scale
<1>1. D \in Nat \ {0} /\ G \in Nat \ {0} /\ S \in Nat \ {0}
  BY UnitsArePositive, PrecisionAssumption
<1>2. scale \in Nat \ {0}
  BY UnitsArePositive, Products DEF DecimalTicks
<1>3. D % scale = 0 /\ D > scale /\ D * (S * scale + 2 * G) < 2 * G * S * scale
  BY PrecisionAssumption DEF DecimalTicks
<1> HIDE DEF D, G, S, scale
<1>4. L \in Int /\ D = L * scale
  BY <1>1, <1>2, <1>3, QuotientExists
<1> HIDE DEF L
<1>5. 1 < L
  <2>1. 1 * scale < L * scale
    BY <1>1, <1>2, <1>3, <1>4
  <2> QED
    BY <1>2, <1>4, <2>1, Products
<1>6. L \in Nat \ {0}
  BY <1>4, <1>5
<1> DEFINE P == S * scale
           X == D * S
           Y == 2 * (G * L)
           Z == 2 * (G * S)
<1>7. P \in Nat \ {0} /\ X \in Nat /\ Y \in Nat /\ Z \in Nat
  BY <1>1, <1>2, <1>6, Products
<1>8. D < 2 * G
  <2>1. D * (P + 2 * G) = D * P + D * (2 * G)
    BY <1>1, <1>7
  <2>2. D * P \in Nat /\ D * (2 * G) \in Nat /\ (2 * G) * P \in Nat
    BY <1>1, <1>7, Products
  <2>3. 2 * G * S * scale = (2 * G) * P
    BY <1>1, <1>2
  <2> HIDE DEF P
  <2>4. D * P < (2 * G) * P
    BY <1>3, <2>1, <2>2, <2>3 DEF P
  <2> QED
    BY <1>1, <1>7, <2>4, Products
<1>9. X + Y < Z
  <2>1. D * (S * scale + 2 * G) = X * scale + Y * scale
    <3>1. D * (S * scale + 2 * G) = (D * S) * scale + D * (2 * G)
      BY <1>1, <1>2
    <3>2. (L * scale) * (2 * G) = (2 * (G * L)) * scale
      BY <1>1, <1>2, <1>6
    <3> QED
      BY <1>4, <3>1, <3>2
  <2>2. 2 * G * S * scale = Z * scale
    BY <1>1, <1>2
  <2>3. (X + Y) * scale = X * scale + Y * scale
    BY <1>2, <1>7
  <2> HIDE DEF X, Y, Z
  <2>4. (X + Y) * scale < Z * scale
    BY <1>3, <2>1, <2>2, <2>3
  <2> QED
    BY <1>2, <1>7, <2>4, Products
<1> QED
  BY <1>1, <1>2, <1>4, <1>5, <1>6, <1>8, <1>9 DEF D, G, S, scale, L, TickLength

\* The tick of a microsecond, where a day is scale ticks of L microseconds.
LEMMA TickIs ==
  ASSUME NEW scale \in Nat \ {0}, NEW L \in Nat \ {0}, DAY = L * scale,
         NEW m \in Nat, m < DAY
  PROVE  /\ day_tick(m, scale) = m \div L
         /\ m \div L \in Nat /\ m \div L < scale
<1> DEFINE j == m \div L
           i == m % L
           D == DAY
           n == m * scale
           r == i * scale
<1>1. j \in Int /\ i \in Int /\ 0 <= i /\ i < L /\ m = j * L + i
  BY QuotientExists
<1>2. D \in Nat \ {0} /\ D = L * scale
  BY UnitsArePositive
<1>3. m < D
  OBVIOUS
<1> HIDE DEF j, i, D
<1>4. n = j * D + r /\ n \in Int /\ r \in Int
  BY <1>1, <1>2
<1>5. 0 <= r /\ r < D
  <2>1. r < L * scale /\ r \in Nat
    BY <1>1, Products
  <2> QED
    BY <1>2, <2>1
<1> HIDE DEF n, r
<1>6. n \div D = j
  BY <1>1, <1>2, <1>4, <1>5, QuotientIs
<1>7. 0 <= j
  <2>1. (-1) * L < j * L
    BY <1>1
  <2> QED
    BY <1>1, <2>1, Products
<1>8. j < scale
  <2>1. j * L < scale * L
    BY <1>1, <1>2, <1>3
  <2> QED
    BY <1>1, <2>1, Products
<1> QED
  BY <1>1, <1>6, <1>7, <1>8 DEF day_tick, j, n, D

\* The microsecond before the end of a tick, and the one after it.
LEMMA AroundTick ==
  ASSUME NEW x \in Int, NEW L \in Nat \ {0}, NEW scale \in Nat \ {0}, DAY = L * scale,
         2 <= L, (x % DAY) % L = 0
  PROVE  /\ x % DAY # 0 =>
              /\ (x - 1) \div DAY = x \div DAY
              /\ day_tick((x - 1) % DAY, scale) = (x % DAY) \div L - 1
         /\ (x + 1) \div DAY = x \div DAY
         /\ day_tick((x + 1) % DAY, scale) = (x % DAY) \div L
         /\ ((x + 1) % DAY) % L # 0
<1> DEFINE D == DAY
           q == x \div D
           m == x % D
           j == m \div L
<1>1. D \in Nat \ {0} /\ D = L * scale
  BY UnitsArePositive
<1>2. q \in Int /\ m \in Int /\ 0 <= m /\ m < D /\ x = q * D + m
  BY <1>1, QuotientExists
<1>3. m % L = 0
  OBVIOUS
<1>4. \A k \in Nat : k < D => day_tick(k, scale) = k \div L
  BY TickIs DEF D
<1> HIDE DEF D, q, m
<1>5. j \in Int /\ m = j * L
  BY <1>2, <1>3, QuotientExists
<1> HIDE DEF j
<1>6. q * D \in Int /\ j * L \in Int
  BY <1>1, <1>2, <1>5
<1>7. ASSUME m # 0
      PROVE  (x - 1) \div D = q /\ day_tick((x - 1) % D, scale) = j - 1
  <2> DEFINE y == x - 1
             k == m - 1
             r == L - 1
             p == j - 1
  <2>1. y \in Int /\ k \in Nat /\ k < D /\ y = q * D + k
    BY <1>1, <1>2, <1>6, <1>7
  <2>2. r \in Int /\ 0 <= r /\ r < L /\ p \in Int /\ k = p * L + r
    BY <1>2, <1>5, <1>6
  <2> HIDE DEF y, k, r, p
  <2>3. y \div D = q /\ y % D = k
    BY <1>1, <1>2, <2>1, QuotientIs
  <2>4. k \div L = p
    BY <2>1, <2>2, QuotientIs
  <2> QED
    BY <1>4, <2>1, <2>3, <2>4 DEF y, p
<1>8. (x + 1) \div D = q /\ day_tick((x + 1) % D, scale) = j /\ ((x + 1) % D) % L # 0
  <2> DEFINE y == x + 1
             k == m + 1
  <2>1. k < D
    <3>1. j < scale
      <4>1. j * L < scale * L
        BY <1>1, <1>2, <1>5, <1>6
      <4> QED
        BY <1>5, <4>1, Products
    <3>2. (scale - 1 - j) * L \in Nat /\ (scale - 1 - j) * L = L * scale - L - j * L
      BY <1>5, <3>1, Products
    <3> QED
      BY <1>1, <1>2, <1>5, <1>6, <3>2
  <2>2. y \in Int /\ k \in Nat /\ y = q * D + k /\ k = j * L + 1
    BY <1>2, <1>5, <1>6
  <2> HIDE DEF y, k
  <2>3. y \div D = q /\ y % D = k
    <3>1. D \in Nat \ {0} /\ q \in Int /\ y \in Int /\ y = q * D + k /\ k \in Int /\ 0 <= k
      BY <1>1, <1>2, <2>2
    <3> QED
      BY <2>1, <3>1, QuotientIs
  <2>4. k \div L = j /\ k % L = 1
    BY <1>5, <2>2, QuotientIs
  <2> QED
    BY <1>4, <2>1, <2>2, <2>3, <2>4 DEF y
<1> QED
  BY <1>7, <1>8 DEF D, q, m, j

\* The dial is the stopwatch of what it sees.
LEMMA JulianIs ==
  ASSUME NEW t \in Int, NEW modified \in BOOLEAN, NEW fine \in BOOLEAN
  PROVE  /\ Julian(t, modified, fine) = DurationJulian(SeenBy(t, modified, fine), fine)
         /\ IsLate(t, modified, fine) => Shifted(t, modified) % DAY # 0
<1> DEFINE D == DAY
           G == DateGrains
           S == SlackParts
           L == TickLength(fine)
           scale == DecimalTicks(fine)
           x == Shifted(t, modified)
           g == julian_date(t, modified)
           h == Error(t)
           m == x % D
           late == m % L = 0 /\ h * S + G * L < 0
           ticks == JulianTicks(g, scale)
<1>1. D \in Nat \ {0} /\ x \in Int
  BY UnitsArePositive, ShiftedIs
<1>2. /\ G \in Nat \ {0} /\ S \in Nat \ {0} /\ L \in Nat \ {0} /\ scale \in Nat \ {0}
      /\ 2 <= L /\ D = L * scale /\ D < 2 * G /\ D * S + 2 * (G * L) < 2 * (G * S)
  BY PrecisionIs
<1>3. h \in Int /\ -D < 2 * h /\ 2 * h <= D
  BY ErrorIs
<1>4. g \in Int /\ g * D = x * G + h
  <2> DEFINE n == NearestGrain(t)
             a == D \div 2
             b == G \div 2
  <2>1. n \in Int /\ h = n * D - t * G /\ n * D \in Int /\ t * G \in Int
    BY <1>1, <1>2, ErrorIs DEF Error
  <2>2. a \in Int /\ b \in Int /\ D = 2 * a /\ G = 2 * b
    <3>1. HOUR \in Nat /\ D = HOUR * 24
      BY UnitsArePositive DEF DAY, HoursPerDay
    <3>2. G % 2 = 0
      BY PrecisionAssumption
    <3> HIDE DEF D, G
    <3>3. D % 2 = 0
      BY <1>1, <3>1
    <3> QED
      BY <1>1, <1>2, <3>2, <3>3
  <2>3. g = IF modified THEN n ELSE n + b
    BY <2>1 DEF julian_date
  <2>4. x = IF modified THEN t ELSE t + a
    BY DEF Shifted
  <2> HIDE DEF D, G, n, a, b, g, x, h
  <2>5. a * G = b * D
    <3>1. a * (2 * b) = b * (2 * a)
      BY <2>2
    <3> QED
      BY <2>2, <3>1
  <2>6. (n + b) * D = n * D + b * D /\ (t + a) * G = t * G + a * G /\ b * D \in Int
    BY <1>1, <1>2, <2>1, <2>2
  <2>7. g \in Int
    BY <2>1, <2>2, <2>3
  <2> QED
    BY <2>1, <2>2, <2>3, <2>4, <2>5, <2>6, <2>7
<1>5. m \in Nat /\ m < D
  BY <1>1
<1>6. day_tick(m, scale) = m \div L /\ m \div L \in Nat /\ m \div L < scale
  BY <1>2, <1>5, TickIs
<1>7. 2 <= L /\ m % L = 0 =>
        /\ m # 0 => (x - 1) \div D = x \div D /\ day_tick((x - 1) % D, scale) = m \div L - 1
  BY <1>1, <1>2, AroundTick
<1>8. late <=> IsLate(t, modified, fine)
  BY DEF IsLate
<1> HIDE DEF D, G, S, L, scale, x, g, h, late
<1> DEFINE k == g % G
           f == (k * scale * S + G) \div (G * S)
<1>9. g \div G = x \div D /\ k \in Int /\ k * D = m * G + h
  <2>1. IsDateOf(D, G, x, g, h)
    BY <1>1, <1>2, <1>3, <1>4 DEF IsDateOf
  <2> QED
    BY <2>1, GrainIs
<1>10. f = IF late THEN m \div L - 1 ELSE m \div L
  <2> HIDE DEF k, m
  <2>1. (k * scale * S + G) \div (G * S) = IF m % L = 0 /\ h * S + G * L < 0 THEN m \div L - 1 ELSE m \div L
    BY <1>1, <1>2, <1>3, <1>5, <1>9, FractionIs
  <2> QED
    BY <2>1 DEF late
<1>11. ASSUME late PROVE m # 0
  <2> SUFFICES ASSUME m = 0 PROVE FALSE
    OBVIOUS
  <2>1. k * D = h
    <3>1. 0 * G = 0
      BY <1>2
    <3> QED
      BY <1>2, <1>3, <1>9, <3>1
  <2>2. k = 0
    <3>1. (-1) * D < k * D /\ k * D < 1 * D
      BY <1>1, <1>3, <2>1
    <3>2. -1 < k /\ k < 1
      BY <1>1, <1>9, <3>1, Products
    <3> QED
      BY <1>9, <3>2
  <2>3. h = 0
    BY <1>1, <2>1, <2>2
  <2>4. h * S + G * L \in Nat
    <3>1. 0 * S = 0 /\ G * L \in Nat
      BY <1>2, Products
    <3> QED
      BY <2>3, <3>1
  <2> QED
    BY <1>11, <2>4 DEF late
<1>12. ticks = f
  <2>1. ticks = IF f >= scale THEN scale - 1 ELSE f
    BY DEF JulianTicks, G, S, scale
  <2>2. f < scale /\ f \in Int
    <3> HIDE DEF f
    <3> QED
      BY <1>2, <1>6, <1>10
  <2> HIDE DEF f, ticks
  <2> QED
    BY <1>2, <2>1, <2>2
<1> DEFINE seen == x - (IF late THEN 1 ELSE 0)
<1>13. SeenBy(t, modified, fine) = seen
  BY <1>8 DEF SeenBy, x
<1>14. seen \div D = g \div G /\ day_tick(seen % D, scale) = ticks
  <2>1. CASE late
    <3>1. m # 0 /\ m % L = 0
      BY <1>11, <2>1 DEF late
    <3>2. seen = x - 1
      BY <2>1
    <3> HIDE DEF seen, f, ticks
    <3> QED
      BY <1>2, <1>7, <1>9, <1>10, <1>12, <2>1, <3>1, <3>2
  <2>2. CASE ~late
    <3>1. seen = x
      BY <1>1, <2>2
    <3> HIDE DEF seen, f, ticks
    <3> QED
      BY <1>6, <1>9, <1>10, <1>12, <2>2, <3>1
  <2> QED
    BY <2>1, <2>2
<1> HIDE DEF seen, ticks, f
<1>15. Julian(t, modified, fine) = IF fine THEN <<g \div G, ticks \div Hundred, ticks % Hundred>>
                                   ELSE <<g \div G, ticks>>
  BY DEF Julian, g, G, ticks, scale
<1> DEFINE tick == day_tick(seen % D, scale)
<1>16. DurationJulian(seen, fine) = IF fine THEN <<seen \div D, tick \div Hundred, tick % Hundred>>
                                    ELSE <<seen \div D, tick>>
  BY DEF DurationJulian, Digits, Partition, Days, DecimalTicks, D, scale
<1> HIDE DEF tick
<1>17. tick = ticks
  BY <1>14 DEF tick
<1> QED
  BY <1>8, <1>11, <1>13, <1>14, <1>15, <1>16, <1>17 DEF x, D, m

\* The next microsecond has no other digits at the end of a tick, and is not late.
LEMMA NextIsNotLate ==
  ASSUME NEW t \in Int, NEW modified \in BOOLEAN, IsLate(t, modified, TRUE)
  PROVE  /\ ~IsLate(t + 1, modified, TRUE)
         /\ DurationJulian(Shifted(t, modified) + 1, TRUE) = DurationJulian(Shifted(t, modified), TRUE)
<1> DEFINE x == Shifted(t, modified)
           L == TickLength(TRUE)
           scale == DecimalTicks(TRUE)
<1>1. x \in Int /\ Shifted(t + 1, modified) = x + 1
  BY ShiftedIs
<1>2. L \in Nat \ {0} /\ scale \in Nat \ {0} /\ 2 <= L /\ DAY = L * scale
  BY PrecisionIs
<1>3. (x % DAY) % L = 0
  BY DEF IsLate
<1>4. x % DAY \in Nat /\ x % DAY < DAY
  BY <1>1, UnitsArePositive
<1> HIDE DEF x, L, scale
<1>5. /\ (x + 1) \div DAY = x \div DAY /\ ((x + 1) % DAY) % L # 0
      /\ day_tick((x + 1) % DAY, scale) = (x % DAY) \div L
  BY <1>1, <1>2, <1>3, AroundTick
<1>6. day_tick(x % DAY, scale) = (x % DAY) \div L
  BY <1>2, <1>4, TickIs
<1>7. ~IsLate(t + 1, modified, TRUE)
  BY <1>1, <1>5 DEF IsLate, L
<1>8. DurationJulian(x + 1, TRUE) = DurationJulian(x, TRUE)
  BY <1>5, <1>6 DEF DurationJulian, Digits, Partition, Days, DecimalTicks, scale
<1> QED
  BY <1>7, <1>8 DEF x

\* A tick of the coarse dial ends with one of the fine dial, and is longer.
LEMMA LateTogether ==
  ASSUME NEW t \in Int, NEW modified \in BOOLEAN, IsLate(t, modified, FALSE)
  PROVE  IsLate(t, modified, TRUE)
<1> DEFINE m == Shifted(t, modified) % DAY
           L == TickLength(FALSE)
           l == TickLength(TRUE)
           G == DateGrains
           e == Error(t) * SlackParts
<1>1. /\ L \in Nat \ {0} /\ l \in Nat \ {0} /\ G \in Nat \ {0} /\ SlackParts \in Nat \ {0}
      /\ DAY = L * (Ten * Hundred) /\ DAY = l * (Ten * Hundred * Hundred)
  BY PrecisionIs DEF DecimalTicks
<1>2. m \in Nat
  BY ShiftedIs, UnitsArePositive
<1>3. e \in Int
  <2>1. Error(t) \in Int
    BY ErrorIs
  <2>2. SlackParts \in Int
    BY PrecisionAssumption
  <2> QED
    BY <2>1, <2>2 DEF e
<1>4. m % L = 0 /\ e + G * L < 0
  BY DEF IsLate
<1>5. Hundred \in Nat \ {0} /\ Ten * Hundred \in Nat \ {0}
  BY UnitsArePositive, Products
<1> HIDE DEF m, L, l, G, e
<1>6. L = l * Hundred
  <2> DEFINE c == Ten * Hundred
             n == l * Hundred
  <2>1. L * c = l * (c * Hundred) /\ c \in Nat \ {0}
    BY <1>1, <1>5
  <2> HIDE DEF c
  <2>2. L * c = n * c
    BY <1>1, <1>5, <2>1
  <2>3. n \in Int /\ L \in Int
    BY <1>1, <1>5
  <2> HIDE DEF n
  <2>4. ~(L < n) /\ ~(n < L)
    BY <2>1, <2>2, <2>3, Products
  <2> QED
    BY <2>3, <2>4 DEF n
<1>7. m % l = 0
  <2> DEFINE j == m \div L
             p == j * Hundred
  <2>1. j \in Int /\ m = j * L
    BY <1>1, <1>2, <1>4, QuotientExists
  <2> HIDE DEF j
  <2>2. p \in Int /\ m = p * l + 0
    BY <1>1, <1>5, <1>6, <2>1
  <2> HIDE DEF p
  <2> QED
    BY <1>1, <1>2, <2>2, QuotientIs
<1>8. e + G * l < 0
  <2>1. (Hundred - 1) * (G * l) \in Nat
    BY <1>1, <1>5, Products
  <2>2. G * L = (Hundred - 1) * (G * l) + G * l
    BY <1>1, <1>5, <1>6
  <2>3. G * l \in Nat
    BY <1>1, Products
  <2> QED
    BY <1>3, <1>4, <2>1, <2>2, <2>3
<1> QED
  BY <1>7, <1>8 DEF IsLate, m, l, G, e

\* Cut short, the fine dial of the same microsecond or of the next is the coarse one.
LEMMA JulianIsTruncated ==
  ASSUME NEW t \in Int, NEW modified \in BOOLEAN
  PROVE  \E late \in {0, 1} : IsTruncated(Julian(t, modified, FALSE), Julian(t + late, modified, TRUE))
<1> DEFINE x == Shifted(t, modified)
<1>1. x \in Int /\ Shifted(t + 1, modified) = x + 1 /\ t + 0 = t /\ t + 1 \in Int
  BY ShiftedIs
<1>2. \A span \in Int : IsTruncated(DurationJulian(span, FALSE), DurationJulian(span, TRUE))
  <2>1. Ten * Hundred \in Nat
    BY UnitsArePositive, Products
  <2> QED
    BY <2>1, DigitsAreTruncated DEF DurationJulian
<1>3. CASE IsLate(t, modified, FALSE)
  <2>1. SeenBy(t, modified, FALSE) = x - 1 /\ SeenBy(t, modified, TRUE) = x - 1
    BY <1>3, LateTogether DEF SeenBy
  <2>2. IsTruncated(Julian(t, modified, FALSE), Julian(t, modified, TRUE))
    <3>1. x - 1 \in Int
      BY <1>1
    <3>2. /\ Julian(t, modified, FALSE) = DurationJulian(x - 1, FALSE)
          /\ Julian(t, modified, TRUE) = DurationJulian(x - 1, TRUE)
      BY <2>1, JulianIs
    <3> QED
      BY <1>2, <3>1, <3>2
  <2> QED
    BY <1>1, <2>2
<1>4. CASE ~IsLate(t, modified, TRUE)
  <2>1. ~IsLate(t, modified, FALSE)
    BY <1>4, LateTogether
  <2>2. SeenBy(t, modified, FALSE) = x /\ SeenBy(t, modified, TRUE) = x
    BY <1>1, <1>4, <2>1 DEF SeenBy
  <2>3. IsTruncated(Julian(t, modified, FALSE), Julian(t, modified, TRUE))
    BY <1>1, <1>2, <2>2, JulianIs
  <2> QED
    BY <1>1, <2>3
<1>5. CASE ~IsLate(t, modified, FALSE) /\ IsLate(t, modified, TRUE)
  <2>1. ~IsLate(t + 1, modified, TRUE) /\ DurationJulian(x + 1, TRUE) = DurationJulian(x, TRUE)
    BY <1>5, NextIsNotLate
  <2>2. SeenBy(t, modified, FALSE) = x /\ SeenBy(t + 1, modified, TRUE) = x + 1
    BY <1>1, <1>5, <2>1 DEF SeenBy
  <2>3. IsTruncated(Julian(t, modified, FALSE), Julian(t + 1, modified, TRUE))
    <3>1. Julian(t, modified, FALSE) = DurationJulian(x, FALSE)
      BY <2>2, JulianIs
    <3>2. Julian(t + 1, modified, TRUE) = DurationJulian(x, TRUE)
      BY <1>1, <2>1, <2>2, JulianIs
    <3> QED
      BY <1>1, <1>2, <3>1, <3>2
  <2> QED
    BY <2>3
<1> QED
  BY <1>3, <1>4, <1>5

(* The rest of the dials.                                                    *)

LEMMA BeforeTheLast ==
  ASSUME NEW E, NEW q \in Seq(E), NEW e \in E
  PROVE  IsTruncated(q, Append(q, e))
<1>1. Append(q, e) \in Seq(E) /\ Len(Append(q, e)) = Len(q) + 1
  OBVIOUS
<1>2. q = SubSeq(Append(q, e), 1, Len(q)) /\ Len(q) <= Len(Append(q, e))
  BY <1>1
<1> QED
  BY <1>1, <1>2 DEF IsTruncated

LEMMA RomanIsTruncated ==
  ASSUME NEW s, NEW t
  PROVE  IsTruncated(Roman(s, t, FALSE), Roman(s, t, TRUE))
<1> DEFINE period == seasonal_period(s, "sunrise", t, 12, 4)
           part == IF period.daylight THEN ByDay ELSE ByNight
<1>1. /\ Roman(s, t, FALSE) = IF ~SunRises(s, "sunrise", t) THEN NotAvailable ELSE <<part, period.index>>
      /\ Roman(s, t, TRUE) = IF ~SunRises(s, "sunrise", t) THEN NotAvailable
                             ELSE IF period.daylight THEN Append(<<part, period.index>>, period.twelfths)
                             ELSE <<part, period.index>>
  BY DEF Roman, Seasonal, PeriodFields
<1> DEFINE i == period.index
           j == period.twelfths
<1> HIDE DEF period, part, i, j
<1>2. IsTruncated(<<part, i>>, Append(<<part, i>>, j))
  <2> DEFINE q == <<part, i>>
             E == {part, i, j}
  <2>1. q \in Seq(E) /\ j \in E
    OBVIOUS
  <2> HIDE DEF q, E
  <2>2. IsTruncated(q, Append(q, j))
    BY <2>1, BeforeTheLast
  <2> QED
    BY <2>2 DEF q
<1>3. CASE period.daylight /\ SunRises(s, "sunrise", t)
  <2>1. Roman(s, t, FALSE) = <<part, i>> /\ Roman(s, t, TRUE) = Append(<<part, i>>, j)
    BY <1>1, <1>3 DEF i, j
  <2> QED
    BY <1>2, <2>1
<1>4. CASE ~(period.daylight /\ SunRises(s, "sunrise", t))
  BY <1>1, <1>4, Same
<1> QED
  BY <1>3, <1>4

\* The other dials.
LEMMA ReadingIsTruncated ==
  ASSUME NEW t \in Int, NEW offset \in Int, NEW s,
         NEW mode \in Modes \ {"julian", "modified-julian"}
  PROVE  IsTruncated(Reading(s, mode, t, offset, FALSE), Reading(s, mode, t, offset, TRUE))
<1> DEFINE local == local_microseconds_of_day(t, offset)
           coarse == Reading(s, mode, t, offset, FALSE)
           fine == Reading(s, mode, t, offset, TRUE)
<1>1. local \in Nat
  BY SpansAre
<1>2. CASE mode \in {"unix", "hexadecimal", "chinese-ke", "japanese-temporal",
                    "japanese-temporal-early", "babylonian-ancient", "indian-ghati"}
  <2>1. coarse = fine
    BY <1>2 DEF Reading, SunModes, JapaneseModes
  <2> QED
    BY <2>1, Same
<1>3. CASE mode = "standard-24"
  <2>1. coarse = Shown(Hms(local), FALSE) /\ fine = Shown(Hms(local), TRUE)
    BY <1>3 DEF Reading, SunModes, JapaneseModes, Standard24
  <2> QED
    BY <2>1, ShownIsTruncated
<1>4. CASE mode = "standard-12"
  <2> DEFINE half == IF Hms(local)[1] < 12 THEN Am ELSE Pm
             hour12 == IF Hms(local)[1] % 12 = 0 THEN 12 ELSE Hms(local)[1] % 12
  <2>1. /\ coarse = <<half, hour12>> \o Tail(Shown(Hms(local), FALSE))
        /\ fine = <<half, hour12>> \o Tail(Shown(Hms(local), TRUE))
    BY <1>4 DEF Reading, SunModes, JapaneseModes, Standard12
  <2> HIDE DEF local, half, hour12
  <2> QED
    BY <2>1, ShownIsTruncated
<1>5. CASE mode = "decimal"
  <2>1. coarse = Decimal(local, FALSE) /\ fine = Decimal(local, TRUE)
    BY <1>5 DEF Reading, SunModes, JapaneseModes
  <2> QED
    BY <1>1, <2>1, DecimalIsTruncated
<1>6. CASE mode = "internet"
  <2>1. coarse = Internet(t, FALSE) /\ fine = Internet(t, TRUE)
    BY <1>6 DEF Reading, SunModes, JapaneseModes
  <2> QED
    BY <2>1, InternetIsTruncated
<1>7. CASE mode = "binary"
  <2>1. coarse = Shown(Hms(local % DAY), FALSE) /\ fine = Shown(Hms(local % DAY), TRUE)
    BY <1>7 DEF Reading, SunModes, JapaneseModes, Binary, clock_fields
  <2> QED
    BY <2>1, ShownIsTruncated
<1>8. CASE mode \in SunModes
  <2>1. coarse = SolarTime(s, mode, t, FALSE) /\ fine = SolarTime(s, mode, t, TRUE)
    BY <1>8 DEF Reading, SunModes, JapaneseModes
  <2>2. \E span : coarse = Shown(Hms(span), FALSE) /\ fine = Shown(Hms(span), TRUE)
    <3>1. CASE mode = "sidereal"
      BY <2>1, <3>1 DEF SolarTime, clock_fields
    <3>2. CASE mode = "solar"
      BY <2>1, <3>2 DEF SolarTime, clock_fields
    <3>3. CASE mode = "mean-solar"
      BY <2>1, <3>3 DEF SolarTime, clock_fields
    <3> QED
      BY <1>8, <3>1, <3>2, <3>3 DEF SunModes
  <2> QED
    BY <2>2, ShownIsTruncated
<1>9. CASE mode = "chinese-time"
  <2>1. coarse = ChineseTime(local, FALSE) /\ fine = ChineseTime(local, TRUE)
    BY <1>9 DEF Reading, SunModes, JapaneseModes
  <2>2. \E a, b : coarse = <<a>> /\ fine = <<a, b>>
    BY <2>1 DEF ChineseTime
  <2> QED
    BY <2>2, Longer
<1>10. CASE mode = "roman-temporal"
  <2>1. coarse = Roman(s, t, FALSE) /\ fine = Roman(s, t, TRUE)
    BY <1>10 DEF Reading, SunModes, JapaneseModes
  <2> QED
    BY <2>1, RomanIsTruncated
<1>11. CASE mode \in {"italian-hours", "babylonian-hours"}
  <2> DEFINE edge == IF mode = "italian-hours" THEN "dusk" ELSE "dawn"
  <2>1. coarse = format_equal_hours(s, edge, t, FALSE) /\ fine = format_equal_hours(s, edge, t, TRUE)
    BY <1>11 DEF Reading, SunModes, JapaneseModes
  <2> HIDE DEF edge
  <2>2. coarse = fine \/ \E span : coarse = Shown(Hms(span), FALSE) /\ fine = Shown(Hms(span), TRUE)
    BY <2>1 DEF format_equal_hours, HoursSince
  <2> QED
    BY <2>2, ShownIsTruncated, Same
<1>12. CASE mode \in {"nuremberg-hours", "nuremberg-solar"}
  <2>1. ASSUME NEW solar, NEW hours
        PROVE  IsTruncated(NurembergHours(solar, hours, FALSE), NurembergHours(solar, hours, TRUE))
    <3>1. \E x, span : /\ NurembergHours(solar, hours, FALSE) = <<x>> \o Shown(Hms(span), FALSE)
                       /\ NurembergHours(solar, hours, TRUE) = <<x>> \o Shown(Hms(span), TRUE)
      BY DEF NurembergHours
    <3> QED
      BY <3>1, ShownIsTruncated
  <2>2. \/ coarse = fine
        \/ \E solar, hours : coarse = NurembergHours(solar, hours, FALSE) /\ fine = NurembergHours(solar, hours, TRUE)
    BY <1>12 DEF Reading, SunModes, JapaneseModes
  <2> QED
    BY <2>1, <2>2, Same
<1> QED
  BY <1>2, <1>3, <1>4, <1>5, <1>6, <1>7, <1>8, <1>9, <1>10, <1>11, <1>12
     DEF Modes, NativeModes, SunModes, PlaceModes, CivilModes

LEMMA DialIsTruncated ==
  ASSUME NEW t \in Int, NEW offset \in Int, NEW mode \in Modes, NEW s
  PROVE  \E late \in Lateness(mode) :
           IsTruncated(Reading(s, mode, t, offset, FALSE), Reading(s, mode, t + late, offset, TRUE))
<1>1. CASE mode \in {"julian", "modified-julian"}
  <2> DEFINE modified == mode = "modified-julian"
  <2>1. \A u, fine : Reading(s, mode, u, offset, fine) = Julian(u, modified, fine)
    BY <1>1 DEF Reading, SunModes, JapaneseModes
  <2>2. modified \in BOOLEAN /\ Lateness(mode) = {0, 1}
    BY <1>1 DEF Lateness
  <2> HIDE DEF modified
  <2>3. \E late \in {0, 1} : IsTruncated(Julian(t, modified, FALSE), Julian(t + late, modified, TRUE))
    BY <2>2, JulianIsTruncated
  <2> QED
    BY <2>1, <2>2, <2>3
<1>2. CASE mode \notin {"julian", "modified-julian"}
  <2>1. IsTruncated(Reading(s, mode, t, offset, FALSE), Reading(s, mode, t, offset, TRUE))
    BY <1>2, ReadingIsTruncated
  <2>2. Lateness(mode) = {0} /\ t + 0 = t
    BY <1>2 DEF Lateness
  <2> QED
    BY <2>1, <2>2
<1> QED
  BY <1>1, <1>2

LEMMA DurationHmsIsTruncated ==
  ASSUME NEW span
  PROVE  IsTruncated(DurationHms(span, FALSE), DurationHms(span, TRUE))
BY ShownIsTruncated DEF DurationHms

\* The stopwatches.
LEMMA DurationIsTruncated ==
  ASSUME NEW span \in Nat, NEW end, NEW s,
         NEW mode \in Modes \ {"roman-temporal", "japanese-temporal", "japanese-temporal-early"}
  PROVE  IsTruncated(Duration(s, mode, span, end, FALSE), Duration(s, mode, span, end, TRUE))
<1> DEFINE coarse == Duration(s, mode, span, end, FALSE)
           fine == Duration(s, mode, span, end, TRUE)
<1>1. CASE mode \in {"unix", "hexadecimal", "chinese-time", "chinese-ke", "babylonian-ancient", "indian-ghati"}
  <2>1. coarse = fine
    BY <1>1 DEF Duration, JapaneseModes
  <2> QED
    BY <2>1, Same
<1>2. CASE mode \in {"standard-24", "standard-12", "mean-solar", "italian-hours", "babylonian-hours",
                    "nuremberg-hours", "nuremberg-solar", "binary", "sidereal", "solar"}
  <2>1. \E elapsed : coarse = DurationHms(elapsed, FALSE) /\ fine = DurationHms(elapsed, TRUE)
    <3>1. CASE mode = "sidereal"
      BY <3>1 DEF Duration, JapaneseModes, DurationSidereal
    <3>2. CASE mode = "solar"
      BY <3>2 DEF Duration, JapaneseModes, DurationSolar
    <3>3. CASE mode \notin {"sidereal", "solar"}
      BY <1>2, <3>3 DEF Duration, JapaneseModes, DurationBinary
    <3> QED
      BY <3>1, <3>2, <3>3
  <2> QED
    BY <2>1, DurationHmsIsTruncated
<1>3. CASE mode = "decimal"
  <2>1. /\ coarse = <<Days(span)>> \o Decimal(span % DAY, FALSE)
        /\ fine = <<Days(span)>> \o Decimal(span % DAY, TRUE)
    BY <1>3 DEF Duration, JapaneseModes, DurationDecimal
  <2>2. span % DAY \in Nat
    BY SpansAre
  <2> QED
    BY <2>1, <2>2, DecimalIsTruncated
<1>4. CASE mode = "internet"
  <2>1. coarse = Digits(span, InternetTicks, FALSE) /\ fine = Digits(span, InternetTicks, TRUE)
    BY <1>4 DEF Duration, JapaneseModes, DurationInternet
  <2>2. InternetTicks \in Nat /\ span \in Int
    BY UnitsArePositive
  <2> QED
    BY <2>1, <2>2, DigitsAreTruncated
<1>5. CASE mode \in {"julian", "modified-julian"}
  <2> DEFINE ticks == Ten * Hundred
  <2>1. coarse = Digits(span, ticks, FALSE) /\ fine = Digits(span, ticks, TRUE)
    BY <1>5 DEF Duration, JapaneseModes, DurationJulian
  <2>2. ticks \in Nat /\ span \in Int
    BY UnitsArePositive, Products
  <2> HIDE DEF ticks
  <2> QED
    BY <2>1, <2>2, DigitsAreTruncated
<1> QED
  BY <1>1, <1>2, <1>3, <1>4, <1>5 DEF Modes, NativeModes, SunModes, PlaceModes, CivilModes

(* Time passes.                                                              *)

FaceTypes == sky \in Skies /\ window \in Windows /\ now \in Int /\ window.first <= now

LEMMA FaceStaysTyped == ClockSpec => []FaceTypes
<1>1. ClockInit => FaceTypes
  BY FaceAssumption DEF ClockInit, FaceTypes
<1>2. FaceTypes /\ [Tick]_clock => FaceTypes'
  <2> SUFFICES ASSUME FaceTypes, [Tick]_clock PROVE FaceTypes'
    OBVIOUS
  <2>1. CASE Tick
    <3>1. window.stride \in {1, DAY} /\ DAY \in Nat
      BY FaceAssumption, UnitsArePositive DEF FaceTypes
    <3>2. window.stride \in Nat /\ window' = window /\ now' = now + window.stride /\ sky' = sky
      BY <2>1, <3>1 DEF Tick
    <3>3. window.first \in Int /\ now \in Int /\ window.first <= now
      BY FaceAssumption DEF FaceTypes
    <3> QED
      BY <3>2, <3>3 DEF FaceTypes
  <2>2. CASE UNCHANGED clock
    BY <2>2 DEF clock, FaceTypes
  <2> QED
    BY <2>1, <2>2
<1> QED
  BY <1>1, <1>2, PTL DEF ClockSpec

\* For every length of the units and every sky, whatever the instant, the place
\* and the interval: without its seconds a dial or a stopwatch shows the same
\* fields, only fewer; a Julian dial at the latest a microsecond later, since its
\* date is rounded (format_clock_mode, infiltratr_temporal_format_duration_mode).
THEOREM CoarseAlwaysTruncated == ClockSpec => CoarseIsTruncated
<1>1. ASSUME FaceTypes
      PROVE  /\ \A mode \in Modes, offset \in Offsets :
                  \E late \in Lateness(mode) :
                    IsTruncated(Reading(sky, mode, now, offset, FALSE),
                                Reading(sky, mode, now + late, offset, TRUE))
             /\ \A mode \in Modes \ {"roman-temporal", "japanese-temporal", "japanese-temporal-early"} :
                  \A start \in Running :
                    IsTruncated(Duration(sky, mode, now - start, now, FALSE),
                                Duration(sky, mode, now - start, now, TRUE))
  <2>1. now \in Int /\ Offsets \subseteq Int /\ Starts \subseteq Int
    BY <1>1, FaceAssumption, ClockAssumption DEF FaceTypes
  <2>2. ASSUME NEW mode \in Modes, NEW offset \in Offsets
        PROVE  \E late \in Lateness(mode) :
                 IsTruncated(Reading(sky, mode, now, offset, FALSE),
                             Reading(sky, mode, now + late, offset, TRUE))
    BY <2>1, DialIsTruncated
  <2>3. ASSUME NEW mode \in Modes \ {"roman-temporal", "japanese-temporal", "japanese-temporal-early"},
               NEW start \in Running
        PROVE  IsTruncated(Duration(sky, mode, now - start, now, FALSE),
                           Duration(sky, mode, now - start, now, TRUE))
    <3> DEFINE span == now - start
    <3>1. span \in Nat
      BY <2>1 DEF Running, Near
    <3> HIDE DEF span
    <3>2. IsTruncated(Duration(sky, mode, span, now, FALSE), Duration(sky, mode, span, now, TRUE))
      BY <3>1, DurationIsTruncated
    <3> QED
      BY <3>2 DEF span
  <2> QED
    BY <2>2, <2>3
<1> QED
  BY <1>1, FaceStaysTyped, PTL DEF ClockSpec, CoarseIsTruncated

(* Dials and stopwatches.                                                    *)

\* A part of a sum may be reduced before the sum is.
LEMMA SumReduced ==
  ASSUME NEW a \in Int, NEW b \in Int, NEW d \in Nat \ {0}
  PROVE  ((a % d) + b) % d = (a + b) % d
<1> DEFINE q == a \div d
           r == a % d
           p == (r + b) \div d
           s == (r + b) % d
<1>1. q \in Int /\ r \in Int /\ a = q * d + r
  BY QuotientExists
<1>2. p \in Int /\ s \in Int /\ 0 <= s /\ s < d /\ r + b = p * d + s
  <2> HIDE DEF r
  <2>1. r + b \in Int
    BY <1>1
  <2> QED
    BY <2>1, QuotientExists
<1> HIDE DEF q, r, p, s
<1>3. q + p \in Int /\ a + b \in Int /\ a + b = (q + p) * d + s
  <2>1. (q + p) * d = q * d + p * d /\ q * d \in Int /\ p * d \in Int
    BY <1>1, <1>2
  <2> QED
    BY <1>1, <1>2, <2>1
<1> DEFINE sum == a + b
           whole == q + p
<1>4. sum % d = s
  <2>1. sum \in Int /\ whole \in Int /\ sum = whole * d + s
    BY <1>3
  <2> HIDE DEF sum, whole
  <2> QED
    BY <1>2, <2>1, QuotientIs
<1> QED
  BY <1>4 DEF r, s

\* What is left of a day after its whole days is left of it again.
LEMMA WithinDay ==
  ASSUME NEW x \in Int
  PROVE  x % DAY \in Nat /\ (x % DAY) % DAY = x % DAY /\ (x % DAY) \div DAY = 0
<1>1. DAY \in Nat \ {0}
  BY UnitsArePositive
<1> DEFINE r == x % DAY
<1>2. r \in Int /\ 0 <= r /\ r < DAY
  BY <1>1, QuotientExists
<1> HIDE DEF r
<1>3. r = 0 * DAY + r
  BY <1>1, <1>2
<1>4. r \div DAY = 0 /\ r % DAY = r
  BY <1>1, <1>2, <1>3, QuotientIs
<1> QED
  BY <1>2, <1>4 DEF r

\* Twelfths of a day are pairs of hours.
LEMMA BranchesAreTwelfths ==
  ASSUME NEW phase \in Nat
  PROVE  day_tick(phase, 12) = phase \div (2 * HOUR)
<1> DEFINE pair == 2 * HOUR
<1>1. HOUR \in Nat \ {0} /\ pair \in Nat \ {0} /\ DAY = pair * 12
  BY UnitsArePositive DEF DAY, HoursPerDay
<1> HIDE DEF pair
<1> DEFINE q == phase \div pair
           r == phase % pair
<1>2. q \in Int /\ r \in Int /\ 0 <= r /\ r < pair /\ phase = q * pair + r
  BY <1>1, QuotientExists
<1> HIDE DEF q, r
<1>3. phase * 12 = q * (pair * 12) + r * 12
  <2>1. q * pair \in Int /\ phase * 12 = (q * pair) * 12 + r * 12
    BY <1>1, <1>2
  <2>2. (q * pair) * 12 = q * (pair * 12)
    BY <1>1, <1>2
  <2> QED
    BY <2>1, <2>2
<1> DEFINE twelfths == phase * 12
           rest == r * 12
<1>4. twelfths \in Int /\ rest \in Int /\ 0 <= rest /\ rest < DAY /\ twelfths = q * DAY + rest
  BY <1>1, <1>2, <1>3
<1>5. DAY \in Nat \ {0}
  BY UnitsArePositive
<1> HIDE DEF twelfths, rest
<1>6. twelfths \div DAY = q
  BY <1>2, <1>4, <1>5, QuotientIs
<1> QED
  BY <1>6 DEF twelfths, q, pair, day_tick

\* A duration of less than a day, without its day count.
LEMMA TailOfPair == \A x, a : Tail(<<x, a>>) = <<a>>
OBVIOUS

LEMMA TailOfTriple == \A x, a, b : Tail(<<x, a, b>>) = <<a, b>>
OBVIOUS

LEMMA PairIs ==
  ASSUME NEW a, NEW b
  PROVE  <<a>> \o <<b>> = <<a, b>>
<1> DEFINE E == {a, b}
           one == <<a>>
           other == <<b>>
           pair == <<a, b>>
           both == one \o other
<1>1. /\ one \in Seq(E) /\ Len(one) = 1 /\ one[1] = a
      /\ other \in Seq(E) /\ Len(other) = 1 /\ other[1] = b
      /\ pair \in Seq(E) /\ Len(pair) = 2 /\ pair[1] = a /\ pair[2] = b
  OBVIOUS
<1> HIDE DEF one, other, pair, E
<1>2. /\ both \in Seq(E) /\ Len(both) = 2
      /\ \A i \in 1 .. 2 : both[i] = IF i <= 1 THEN one[i] ELSE other[i - 1]
  BY <1>1, ConcatProperties
<1> HIDE DEF both
<1>3. both = pair
  BY <1>1, <1>2
<1> QED
  BY <1>3 DEF both, pair, one, other

LEMMA Behind ==
  ASSUME NEW E, NEW s \in Seq(E), NEW x \in E
  PROVE  Tail(<<x>> \o s) = s
<1>1. <<x>> \in Seq(E) /\ Len(<<x>>) = 1
  OBVIOUS
<1> DEFINE both == <<x>> \o s
<1>2. /\ both \in Seq(E) /\ Len(both) = Len(s) + 1 /\ Len(s) \in Nat
      /\ \A i \in 1 .. Len(s) + 1 : i > 1 => both[i] = s[i - 1]
  BY <1>1, ConcatProperties
<1> HIDE DEF both
<1>3. both # <<>>
  BY <1>2
<1>4. /\ Tail(both) \in Seq(E) /\ Len(Tail(both)) = Len(s)
      /\ \A i \in 1 .. Len(s) : Tail(both)[i] = both[i + 1]
  BY <1>2, <1>3, HeadTailProperties
<1>5. Tail(both) = s
  BY <1>2, <1>4
<1> QED
  BY <1>5 DEF both

LEMMA HmsBehindDays ==
  ASSUME NEW x, NEW span, NEW fine \in BOOLEAN
  PROVE  Tail(<<x>> \o Shown(Hms(span), fine)) = Shown(Hms(span), fine)
<1> DEFINE h == span \div HOUR
           m == (span \div MINUTE) % MinutesPerHour
           s == (span \div MicrosecondsPerSecond) % SecondsPerMinute
           E == {h, m, s, x}
<1>1. Hms(span) = <<h, m, s>>
  BY DEF Hms
<1> HIDE DEF h, m, s
<1>2. Hms(span) \in Seq(E) /\ Len(Hms(span)) = 3
  BY <1>1
<1>3. Shown(Hms(span), fine) \in Seq(E)
  BY <1>2 DEF Shown
<1> QED
  BY <1>3, Behind

LEMMA DecimalBehindDays ==
  ASSUME NEW x, NEW span, NEW fine \in BOOLEAN
  PROVE  Tail(<<x>> \o Decimal(span, fine)) = Decimal(span, fine)
<1> DEFINE tick == day_tick(span, DecimalTicks(fine))
           a == tick \div (Hundred * Hundred)
           b == (tick \div Hundred) % Hundred
           c == tick % Hundred
           d == tick \div Hundred
           E == {a, b, c, d, x}
<1>1. Decimal(span, fine) = IF fine THEN <<a, b, c>> ELSE <<d, c>>
  BY DEF Decimal
<1> HIDE DEF a, b, c, d
<1>2. <<a, b, c>> \in Seq(E) /\ <<d, c>> \in Seq(E)
  OBVIOUS
<1>3. Decimal(span, fine) \in Seq(E)
  BY <1>1, <1>2
<1> QED
  BY <1>3, Behind

(* A dial that is the sequence fields shows as much as a stopwatch that ran  *)
(* for less than a day.                                                      *)

\* Local time is within a day; an hour later it is what an hour later is locally.
LEMMA LocalIs ==
  ASSUME NEW t \in Int, NEW offset \in Int
  PROVE  LET local == local_microseconds_of_day(t, offset)
         IN /\ local \in Nat /\ local % DAY = local /\ local \div DAY = 0
            /\ local = (t + offset) % DAY
            /\ (local + HOUR) % DAY = (t + offset + HOUR) % DAY
<1> DEFINE local == local_microseconds_of_day(t, offset)
<1>1. DAY \in Nat \ {0} /\ HOUR \in Int
  BY UnitsArePositive
<1>2. t % DAY \in Int /\ offset % DAY \in Int
  BY SpansAre
<1>3. local = (t + offset) % DAY
  <2> DEFINE shift == offset % DAY
  <2>1. local = ((t % DAY) + shift) % DAY /\ shift \in Int
    BY <1>2 DEF local_microseconds_of_day
  <2>2. (offset + t) % DAY = (shift + t) % DAY
    BY <1>1, SumReduced
  <2> HIDE DEF shift, local
  <2>3. ((t % DAY) + shift) % DAY = (t + shift) % DAY
    BY <1>1, <2>1, SumReduced
  <2>4. t + shift = shift + t /\ t + offset = offset + t
    BY <2>1
  <2> QED
    BY <2>1, <2>2, <2>3, <2>4
<1> HIDE DEF local
<1> DEFINE sum == t + offset
<1>4. sum \in Int
  OBVIOUS
<1> HIDE DEF sum
<1>5. local = sum % DAY
  BY <1>3 DEF sum
<1>6. local \in Nat /\ local % DAY = local /\ local \div DAY = 0
  BY <1>4, <1>5, WithinDay
<1>7. (local + HOUR) % DAY = (sum + HOUR) % DAY
  <2>1. ((sum % DAY) + HOUR) % DAY = (sum + HOUR) % DAY
    BY <1>1, <1>4, SumReduced
  <2> QED
    BY <1>5, <2>1
<1> QED
  BY <1>5, <1>6, <1>7 DEF local, sum

\* A dial that shows as much as a stopwatch that started a span before.
Shows(s, mode, span, t, offset, fine) ==
    LET reading == Reading(s, mode, t, offset, fine)
    IN reading = AsDial(mode, Duration(s, mode, span, t, fine), reading)

LEMMA LocalDialShows ==
  ASSUME NEW t \in Int, NEW offset \in Int, NEW fine \in BOOLEAN, NEW s, NEW span,
         NEW mode \in {"standard-24", "decimal", "hexadecimal", "binary", "chinese-ke"},
         span = local_microseconds_of_day(t, offset)
  PROVE  Shows(s, mode, span, t, offset, fine)
<1>1. span % DAY = span
  BY LocalIs
<1> DEFINE reading == Reading(s, mode, t, offset, fine)
           duration == Duration(s, mode, span, t, fine)
<1>2. AsDial(mode, duration, reading) = Tail(duration)
  <2> HIDE DEF duration, reading
  <2> QED
    BY DEF AsDial
<1>3. CASE mode \in {"standard-24", "binary"}
  <2>1. reading = Shown(Hms(span), fine)
    BY <1>1, <1>3 DEF Reading, SunModes, JapaneseModes, Standard24, Binary, clock_fields
  <2>2. duration = <<Days(span)>> \o Shown(Hms(span), fine)
    BY <1>1, <1>3 DEF Duration, JapaneseModes, DurationBinary, DurationHms
  <2> QED
    BY <1>2, <2>1, <2>2, HmsBehindDays DEF Shows
<1>4. CASE mode = "decimal"
  <2>1. reading = Decimal(span, fine)
    BY <1>4 DEF Reading, SunModes, JapaneseModes
  <2>2. duration = <<Days(span)>> \o Decimal(span, fine)
    BY <1>1, <1>4 DEF Duration, JapaneseModes, DurationDecimal
  <2> QED
    BY <1>2, <2>1, <2>2, DecimalBehindDays DEF Shows
<1>5. CASE mode \in {"hexadecimal", "chinese-ke"}
  <2> DEFINE ticks == IF mode = "hexadecimal" THEN HexTicks ELSE Ke
  <2>1. reading = <<day_tick(span, ticks)>>
    BY <1>5 DEF Reading, SunModes, JapaneseModes, Hexadecimal, ChineseKe
  <2>2. duration = <<Days(span), day_tick(span, ticks)>>
    BY <1>1, <1>5 DEF Duration, JapaneseModes, DurationTicks, DurationChinese, Partition
  <2> HIDE DEF reading, duration, ticks
  <2>3. reading = Tail(duration)
    BY <2>1, <2>2, TailOfPair
  <2> QED
    BY <1>2, <2>3 DEF Shows, reading, duration
<1> QED
  BY <1>3, <1>4, <1>5

\* The beats of the day in Biel, an hour ahead of UTC.
LEMMA InternetDialShows ==
  ASSUME NEW t \in Int, NEW offset \in Int, NEW fine \in BOOLEAN, NEW s, NEW span,
         span = (t + HOUR) % DAY
  PROVE  Shows(s, "internet", span, t, offset, fine)
<1>1. HOUR \in Int /\ DAY \in Nat \ {0}
  BY UnitsArePositive
<1> DEFINE later == t + HOUR
<1>2. later \in Int
  BY <1>1
<1>3. ((t % DAY) + HOUR) % DAY = later % DAY
  BY <1>1, SumReduced
<1> HIDE DEF later
<1>4. span % DAY = span /\ span = ((t % DAY) + HOUR) % DAY
  BY <1>2, <1>3, WithinDay DEF later
<1> DEFINE reading == Reading(s, "internet", t, offset, fine)
           duration == Duration(s, "internet", span, t, fine)
           ticks == IF fine THEN InternetTicks * Hundred ELSE InternetTicks
           tick == day_tick(span, ticks)
<1>5. AsDial("internet", duration, reading) = Tail(duration)
  <2> HIDE DEF duration, reading
  <2> QED
    BY DEF AsDial
<1>6. reading = IF fine THEN <<tick \div Hundred, tick % Hundred>> ELSE <<tick>>
  BY <1>4 DEF Reading, SunModes, JapaneseModes, Internet
<1>7. duration = IF fine THEN <<Days(span), tick \div Hundred, tick % Hundred>> ELSE <<Days(span), tick>>
  BY <1>4 DEF Duration, JapaneseModes, DurationInternet, Digits, Partition
<1> HIDE DEF reading, duration, tick
<1>8. reading = Tail(duration)
  BY <1>6, <1>7, TailOfPair, TailOfTriple
<1> QED
  BY <1>5, <1>8 DEF Shows, reading, duration

\* The branch is what twelve branches make of the day; its half is the dial's own.
LEMMA BranchDialShows ==
  ASSUME NEW t \in Int, NEW offset \in Int, NEW fine \in BOOLEAN, NEW s, NEW span,
         span = (t + offset + HOUR) % DAY
  PROVE  Shows(s, "chinese-time", span, t, offset, fine)
<1> DEFINE later == t + offset + HOUR
           local == local_microseconds_of_day(t, offset)
<1>1. later \in Int
  BY UnitsArePositive
<1>2. span = (local + HOUR) % DAY
  BY LocalIs
<1> HIDE DEF local
<1>3. span \in Nat /\ span % DAY = span
  <2>1. span = later % DAY
    OBVIOUS
  <2> HIDE DEF later
  <2> QED
    BY <1>1, <2>1, WithinDay
<1> DEFINE reading == Reading(s, "chinese-time", t, offset, fine)
           duration == Duration(s, "chinese-time", span, t, fine)
           branch == span \div (2 * HOUR)
           half == IF span % (2 * HOUR) < HOUR THEN 0 ELSE 1
<1>4. AsDial("chinese-time", duration, reading) = Tail(duration) \o Tail(reading)
  <2> HIDE DEF duration, reading
  <2> QED
    BY DEF AsDial
<1>5. reading = IF fine THEN <<branch, half>> ELSE <<branch>>
  BY <1>2 DEF Reading, SunModes, JapaneseModes, ChineseTime, local
<1>6. duration = <<Days(span), branch>>
  <2>1. duration = <<Days(span), day_tick(span, 12)>>
    BY <1>3 DEF Duration, JapaneseModes, DurationChinese, Partition
  <2> QED
    BY <1>3, <2>1, BranchesAreTwelfths
<1> HIDE DEF reading, duration, branch, half
<1>7. Tail(duration) = <<branch>>
  BY <1>6, TailOfPair
<1>8. reading = Tail(duration) \o Tail(reading)
  <2>1. CASE fine
    <3>1. Tail(reading) = <<half>>
      BY <1>5, <2>1, TailOfPair
    <3>2. <<branch>> \o <<half>> = <<branch, half>>
      BY PairIs
    <3> QED
      BY <1>5, <1>7, <2>1, <3>1, <3>2
  <2>2. CASE ~fine
    <3>1. Tail(reading) = <<>>
      BY <1>5, <2>2
    <3>2. <<branch>> \o <<>> = <<branch>>
      OBVIOUS
    <3> QED
      BY <1>5, <1>7, <2>2, <3>1, <3>2
  <2> QED
    BY <2>1, <2>2
<1> QED
  BY <1>4, <1>8 DEF Shows, reading, duration

LEMMA MeanSolarDialShows ==
  ASSUME NEW t \in Int, NEW offset \in Int, NEW fine \in BOOLEAN, NEW s, NEW span,
         s.shift \in Int, span = (t + s.shift) % DAY
  PROVE  Shows(s, "mean-solar", span, t, offset, fine)
<1> DEFINE shift == s.shift
           later == t + shift
<1>1. DAY \in Nat \ {0} /\ later \in Int /\ shift \in Int
  BY UnitsArePositive
<1> HIDE DEF shift
<1>2. ((t % DAY) + shift) % DAY = later % DAY
  BY <1>1, SumReduced
<1>3. span = later % DAY
  BY DEF shift
<1> HIDE DEF later
<1>4. span % DAY = span
  BY <1>1, <1>3, WithinDay
<1>5. mean_solar(s.shift, t) = span
  BY <1>2, <1>3 DEF mean_solar, positive_modulo, shift
<1> DEFINE reading == Reading(s, "mean-solar", t, offset, fine)
           duration == Duration(s, "mean-solar", span, t, fine)
<1>6. AsDial("mean-solar", duration, reading) = Tail(duration)
  <2> HIDE DEF duration, reading
  <2> QED
    BY DEF AsDial
<1>7. reading = Shown(Hms(span), fine)
  BY <1>4, <1>5 DEF Reading, SunModes, JapaneseModes, SolarTime, clock_fields
<1>8. duration = <<Days(span)>> \o Shown(Hms(span), fine)
  BY <1>4 DEF Duration, JapaneseModes, DurationHms
<1> QED
  BY <1>6, <1>7, <1>8, HmsBehindDays DEF Shows

LEMMA NothingDivided ==
  /\ \A d \in Nat \ {0} : 0 \div d = 0 /\ 0 % d = 0
  /\ \A ticks \in Nat : day_tick(0, ticks) = 0
<1>1. \A d \in Nat \ {0} : 0 \div d = 0 /\ 0 % d = 0
  OBVIOUS
<1>2. \A ticks \in Nat : 0 * ticks = 0
  OBVIOUS
<1> QED
  BY <1>1, <1>2, UnitsArePositive DEF day_tick

\* The modified Julian day counts from its epoch, so that it shows the days too,
\* and is late by no more than a microsecond.
LEMMA JulianDialShows ==
  ASSUME NEW t \in Nat, NEW offset \in Int, NEW fine \in BOOLEAN, NEW s
  PROVE  \E late \in {0, 1} :
           /\ late <= t
           /\ LET reading == Reading(s, "modified-julian", t, offset, fine)
              IN reading = AsDial("modified-julian",
                                  Duration(s, "modified-julian", t - late, t, fine), reading)
<1> DEFINE late == IF IsLate(t, TRUE, fine) THEN 1 ELSE 0
           reading == Reading(s, "modified-julian", t, offset, fine)
           duration == Duration(s, "modified-julian", t - late, t, fine)
<1>1. Shifted(t, TRUE) = t /\ SeenBy(t, TRUE, fine) = t - late /\ t \in Int
  BY DEF Shifted, SeenBy
<1>2. late \in {0, 1} /\ late <= t
  <2>1. CASE IsLate(t, TRUE, fine)
    <3>1. t % DAY # 0
      BY <1>1, <2>1, JulianIs
    <3>2. t # 0
      BY <3>1, UnitsArePositive, NothingDivided
    <3> QED
      BY <2>1, <3>2
  <2>2. CASE ~IsLate(t, TRUE, fine)
    BY <2>2
  <2> QED
    BY <2>1, <2>2
<1> HIDE DEF late
<1>3. reading = DurationJulian(t - late, fine)
  <2>1. reading = Julian(t, TRUE, fine)
    BY DEF Reading, SunModes, JapaneseModes
  <2> QED
    BY <1>1, <2>1, JulianIs
<1>4. duration = DurationJulian(t - late, fine)
  BY DEF Duration, JapaneseModes
<1>5. AsDial("modified-julian", duration, reading) = duration
  <2> HIDE DEF duration, reading
  <2> QED
    BY DEF AsDial
<1> QED
  BY <1>2, <1>3, <1>4, <1>5

MidnightModes ==
    EqualModes \ {"babylonian-hours", "indian-ghati", "italian-hours", "babylonian-ancient"}

\* For every length of the units, place and sky: at every instant, and on either side of
\* each midnight, a dial that counts from a midnight, or from the epoch, shows what a
\* stopwatch shows that was started there, with or without seconds; the modified
\* Julian one, whose date is rounded, what it showed a microsecond ago at the latest
\* (format_clock_mode against infiltratr_temporal_format_duration_mode).
THEOREM MidnightDialsMatchDurations ==
  ClockSpec => [](\A mode \in MidnightModes, offset \in Offsets, fine \in BOOLEAN :
                    DialIsElapsedTime(mode, offset, fine))
<1>1. ASSUME FaceTypes, NEW mode \in MidnightModes, NEW offset \in Offsets, NEW fine \in BOOLEAN
      PROVE  DialIsElapsedTime(mode, offset, fine)
  <2>1. now \in Int /\ offset \in Int /\ sky.shift \in Int
    BY <1>1, FaceAssumption DEF FaceTypes
  <2>2. \A x \in Int : now - (now - x) = x
    BY <2>1
  <2> DEFINE local == local_microseconds_of_day(now, offset)
             elapsed == now - Origin(mode, now, offset)
  <2>3. ASSUME mode # "modified-julian"
        PROVE  Shows(sky, mode, elapsed, now, offset, fine) /\ elapsed \in Int
    <3>1. CASE mode \in {"standard-24", "decimal", "hexadecimal", "binary", "chinese-ke"}
      <4>1. elapsed = now - (now - local)
        BY <3>1 DEF Origin, Midnight
      <4>2. local \in Int
        BY <2>1, LocalIs
      <4> HIDE DEF local
      <4>3. elapsed = local
        BY <2>2, <4>1, <4>2
      <4> HIDE DEF elapsed
      <4> QED
        BY <2>1, <3>1, <4>2, <4>3, LocalDialShows DEF local
    <3>2. CASE mode = "internet"
      <4> DEFINE phase == (now + HOUR) % DAY
      <4>1. elapsed = now - (now - phase)
        BY <3>2 DEF Origin
      <4>2. phase \in Int
        BY <2>1, UnitsArePositive
      <4> HIDE DEF phase
      <4>3. elapsed = phase
        BY <2>2, <4>1, <4>2
      <4> HIDE DEF elapsed
      <4> QED
        BY <2>1, <3>2, <4>3, InternetDialShows DEF phase
    <3>3. CASE mode = "chinese-time"
      <4> DEFINE phase == (now + offset + HOUR) % DAY
      <4>1. elapsed = now - (now - phase)
        BY <3>3 DEF Origin
      <4>2. phase \in Int
        BY <2>1, UnitsArePositive
      <4> HIDE DEF phase
      <4>3. elapsed = phase
        BY <2>2, <4>1, <4>2
      <4> HIDE DEF elapsed
      <4> QED
        BY <2>1, <3>3, <4>3, BranchDialShows DEF phase
    <3>4. CASE mode = "mean-solar"
      <4> DEFINE phase == (now + sky.shift) % DAY
      <4>1. elapsed = now - (now - phase)
        BY <3>4 DEF Origin
      <4>2. phase \in Int
        BY <2>1, UnitsArePositive
      <4> HIDE DEF phase
      <4>3. elapsed = phase
        BY <2>2, <4>1, <4>2
      <4> HIDE DEF elapsed
      <4> QED
        BY <2>1, <3>4, <4>3, MeanSolarDialShows DEF phase
    <3> QED
      BY <2>3, <3>1, <3>2, <3>3, <3>4 DEF MidnightModes, EqualModes
  <2> DEFINE reading == Reading(sky, mode, now, offset, fine)
             AsShown(late) == reading = AsDial(mode, Duration(sky, mode, elapsed - late, now, fine), reading)
  <2>4. elapsed < 0 \/ \E late \in {l \in Lateness(mode) : l <= elapsed} : AsShown(late)
    <3>1. CASE mode = "modified-julian"
      <4>1. elapsed = now /\ Lateness(mode) = {0, 1}
        BY <2>1, <3>1 DEF Origin, Lateness
      <4> HIDE DEF elapsed
      <4>2. CASE now \in Nat
        <5>1. \E late \in {0, 1} : late <= now /\ AsShown(late)
          BY <2>1, <3>1, <4>1, <4>2, JulianDialShows
        <5> HIDE DEF AsShown
        <5> QED
          BY <4>1, <5>1
      <4>3. CASE now \notin Nat
        BY <2>1, <4>1, <4>3
      <4> QED
        BY <4>2, <4>3
    <3>2. CASE mode # "modified-julian"
      <4>1. Lateness(mode) = {0}
        <5>1. mode # "julian"
          BY DEF MidnightModes, EqualModes
        <5> QED
          BY <3>2, <5>1 DEF Lateness
      <4>2. elapsed \in Int /\ elapsed - 0 = elapsed
        BY <2>3, <3>2
      <4>3. AsShown(0)
        BY <2>3, <3>2, <4>2 DEF Shows
      <4> HIDE DEF elapsed, AsShown
      <4> QED
        BY <4>1, <4>2, <4>3
    <3> QED
      BY <3>1, <3>2
  <2> QED
    BY <2>4 DEF DialIsElapsedTime
<1>2. FaceTypes => \A mode \in MidnightModes, offset \in Offsets, fine \in BOOLEAN :
                     DialIsElapsedTime(mode, offset, fine)
  BY <1>1
<1> QED
  BY <1>2, FaceStaysTyped, PTL

(* Fields that rise with the number they are taken from.                     *)

LEMMA QuotientRises ==
  ASSUME NEW x \in Int, NEW y \in Int, NEW d \in Nat \ {0}, x <= y
  PROVE  x \div d <= y \div d /\ (x \div d = y \div d => x % d <= y % d)
<1> DEFINE p == x \div d
           q == y \div d
           r == x % d
           s == y % d
<1>1. p \in Int /\ r \in Int /\ 0 <= r /\ r < d /\ x = p * d + r
  BY QuotientExists
<1>2. q \in Int /\ s \in Int /\ 0 <= s /\ s < d /\ y = q * d + s
  BY QuotientExists
<1> HIDE DEF p, q, r, s
<1>3. p <= q
  <2> SUFFICES ASSUME q < p PROVE FALSE
    BY <1>1, <1>2
  <2>1. (q + 1) * d <= p * d
    <3>1. \A n \in Nat : n * d \in Nat
      OBVIOUS
    <3>2. p - (q + 1) \in Nat /\ (p - (q + 1)) * d = p * d - (q + 1) * d
      BY <1>1, <1>2
    <3>3. p * d \in Int /\ (q + 1) * d \in Int
      BY <1>1, <1>2
    <3> QED
      BY <3>1, <3>2, <3>3
  <2>2. (q + 1) * d = q * d + d /\ q * d \in Int /\ p * d \in Int
    BY <1>1, <1>2
  <2> QED
    BY <1>1, <1>2, <2>1, <2>2
<1>4. p = q => r <= s
  <2>1. p * d \in Int
    BY <1>1
  <2> QED
    BY <1>1, <1>2, <2>1
<1> QED
  BY <1>3, <1>4 DEF p, q, r, s

\* More ticks have passed when more of the day has.
LEMMA TicksRise ==
  ASSUME NEW x \in Nat, NEW y \in Nat, NEW ticks \in Nat, x <= y
  PROVE  /\ day_tick(x, ticks) \in Nat /\ day_tick(y, ticks) \in Nat
         /\ day_tick(x, ticks) <= day_tick(y, ticks)
<1>1. DAY \in Nat \ {0}
  BY UnitsArePositive
<1>2. x * ticks \in Nat /\ y * ticks \in Nat /\ x * ticks <= y * ticks
  <2>1. (y - x) * ticks \in Nat /\ (y - x) * ticks = y * ticks - x * ticks
    OBVIOUS
  <2>2. x * ticks \in Nat /\ y * ticks \in Nat
    OBVIOUS
  <2> QED
    BY <2>1, <2>2
<1> DEFINE a == x * ticks
           b == y * ticks
<1> HIDE DEF a, b
<1>3. a \div DAY <= b \div DAY /\ a \div DAY \in Nat /\ b \div DAY \in Nat
  BY <1>1, <1>2, QuotientRises DEF a, b
<1> QED
  BY <1>3 DEF a, b, day_tick

\* Lexicographic orders.
Rises2(a1, a2, b1, b2) == a1 < b1 \/ (a1 = b1 /\ a2 <= b2)
Rises3(a1, a2, a3, b1, b2, b3) == a1 < b1 \/ (a1 = b1 /\ Rises2(a2, a3, b2, b3))
Rises4(a1, a2, a3, a4, b1, b2, b3, b4) == a1 < b1 \/ (a1 = b1 /\ Rises3(a2, a3, a4, b2, b3, b4))

LEMMA OneRises ==
  ASSUME NEW a \in Int, NEW b \in Int, a <= b
  PROVE  NotAfter(<<a>>, <<b>>)
<1>1. DOMAIN <<a>> = 1 .. 1 /\ DOMAIN <<b>> = 1 .. 1
  OBVIOUS
<1>2. CASE a = b
  BY <1>1, <1>2 DEF NotAfter
<1>3. CASE a < b
  <2>1. 1 \in DOMAIN <<a>> \cap DOMAIN <<b>> /\ <<a>>[1] < <<b>>[1]
    BY <1>1, <1>3
  <2>2. \A j \in 1 .. (1 - 1) : <<a>>[j] = <<b>>[j]
    OBVIOUS
  <2> QED
    BY <2>1, <2>2 DEF NotAfter
<1> QED
  BY <1>2, <1>3

LEMMA TwoRise ==
  ASSUME NEW a1 \in Int, NEW a2 \in Int, NEW b1 \in Int, NEW b2 \in Int, Rises2(a1, a2, b1, b2)
  PROVE  NotAfter(<<a1, a2>>, <<b1, b2>>)
<1> DEFINE k == <<a1, a2>>
           l == <<b1, b2>>
<1>1. /\ DOMAIN k = 1 .. 2 /\ k[1] = a1 /\ k[2] = a2
      /\ DOMAIN l = 1 .. 2 /\ l[1] = b1 /\ l[2] = b2
  OBVIOUS
<1> HIDE DEF k, l
<1>2. \/ a1 < b1
      \/ a1 = b1 /\ a2 < b2
      \/ a1 = b1 /\ a2 = b2
  BY DEF Rises2
<1>3. NotAfter(k, l)
  BY <1>1, <1>2 DEF NotAfter
<1> QED
  BY <1>3 DEF k, l

LEMMA ThreeRise ==
  ASSUME NEW a1 \in Int, NEW a2 \in Int, NEW a3 \in Int, NEW b1 \in Int, NEW b2 \in Int, NEW b3 \in Int,
         Rises3(a1, a2, a3, b1, b2, b3)
  PROVE  NotAfter(<<a1, a2, a3>>, <<b1, b2, b3>>)
<1> DEFINE k == <<a1, a2, a3>>
           l == <<b1, b2, b3>>
<1>1. /\ DOMAIN k = 1 .. 3 /\ k[1] = a1 /\ k[2] = a2 /\ k[3] = a3
      /\ DOMAIN l = 1 .. 3 /\ l[1] = b1 /\ l[2] = b2 /\ l[3] = b3
  OBVIOUS
<1> HIDE DEF k, l
<1>2. \/ a1 < b1
      \/ a1 = b1 /\ a2 < b2
      \/ a1 = b1 /\ a2 = b2 /\ a3 < b3
      \/ a1 = b1 /\ a2 = b2 /\ a3 = b3
  BY DEF Rises2, Rises3
<1>3. NotAfter(k, l)
  BY <1>1, <1>2 DEF NotAfter
<1> QED
  BY <1>3 DEF k, l

LEMMA FourRise ==
  ASSUME NEW a1 \in Int, NEW a2 \in Int, NEW a3 \in Int, NEW a4 \in Int,
         NEW b1 \in Int, NEW b2 \in Int, NEW b3 \in Int, NEW b4 \in Int,
         Rises4(a1, a2, a3, a4, b1, b2, b3, b4)
  PROVE  NotAfter(<<a1, a2, a3, a4>>, <<b1, b2, b3, b4>>)
<1> DEFINE k == <<a1, a2, a3, a4>>
           l == <<b1, b2, b3, b4>>
<1>1. /\ DOMAIN k = 1 .. 4 /\ k[1] = a1 /\ k[2] = a2 /\ k[3] = a3 /\ k[4] = a4
      /\ DOMAIN l = 1 .. 4 /\ l[1] = b1 /\ l[2] = b2 /\ l[3] = b3 /\ l[4] = b4
  OBVIOUS
<1> HIDE DEF k, l
<1>2. \/ a1 < b1
      \/ a1 = b1 /\ a2 < b2
      \/ a1 = b1 /\ a2 = b2 /\ a3 < b3
      \/ a1 = b1 /\ a2 = b2 /\ a3 = b3 /\ a4 < b4
      \/ a1 = b1 /\ a2 = b2 /\ a3 = b3 /\ a4 = b4
  BY DEF Rises2, Rises3, Rises4
<1>3. NotAfter(k, l)
  BY <1>1, <1>2 DEF NotAfter
<1> QED
  BY <1>3 DEF k, l

LEMMA JoinedIs ==
  \A x, a, b, c : <<x>> \o <<a, b>> = <<x, a, b>> /\ <<x>> \o <<a, b, c>> = <<x, a, b, c>>
<1> SUFFICES ASSUME NEW x, NEW a, NEW b, NEW c
             PROVE  <<x>> \o <<a, b>> = <<x, a, b>> /\ <<x>> \o <<a, b, c>> = <<x, a, b, c>>
  OBVIOUS
<1> DEFINE E == {x, a, b, c}
           one == <<x>>
           two == <<a, b>>
           three == <<a, b, c>>
           short == one \o two
           long == one \o three
<1>1. /\ one \in Seq(E) /\ Len(one) = 1 /\ one[1] = x
      /\ two \in Seq(E) /\ Len(two) = 2 /\ two[1] = a /\ two[2] = b
      /\ three \in Seq(E) /\ Len(three) = 3 /\ three[1] = a /\ three[2] = b /\ three[3] = c
  OBVIOUS
<1> HIDE DEF one, two, three, E
<1>2. /\ short \in Seq(E) /\ Len(short) = 3
      /\ \A i \in 1 .. 3 : short[i] = IF i <= 1 THEN one[i] ELSE two[i - 1]
  <2>1. /\ short \in Seq(E) /\ Len(short) = Len(one) + Len(two)
        /\ \A i \in 1 .. Len(one) + Len(two) : short[i] = IF i <= Len(one) THEN one[i] ELSE two[i - Len(one)]
    BY <1>1, ConcatProperties, Zenon
  <2> HIDE DEF short
  <2> QED
    BY <1>1, <2>1
<1>3. /\ long \in Seq(E) /\ Len(long) = 4
      /\ \A i \in 1 .. 4 : long[i] = IF i <= 1 THEN one[i] ELSE three[i - 1]
  <2>1. /\ long \in Seq(E) /\ Len(long) = Len(one) + Len(three)
        /\ \A i \in 1 .. Len(one) + Len(three) : long[i] = IF i <= Len(one) THEN one[i] ELSE three[i - Len(one)]
    BY <1>1, ConcatProperties, Zenon
  <2> HIDE DEF long
  <2> QED
    BY <1>1, <2>1
<1> HIDE DEF short, long
<1>4. short = <<x, a, b>>
  BY <1>1, <1>2
<1>5. long = <<x, a, b, c>>
  BY <1>1, <1>3
<1> QED
  BY <1>4, <1>5 DEF short, long, one, two, three

\* A number cut twice, and what is left of each cut.
LEMMA CutsRise ==
  ASSUME NEW u \in Int, NEW w \in Int, NEW a \in Nat \ {0}, NEW b \in Nat \ {0}, u <= w
  PROVE  Rises3((u \div a) \div b, (u \div a) % b, u % a, (w \div a) \div b, (w \div a) % b, w % a)
<1> DEFINE m == u \div a
           n == w \div a
           h == m \div b
           i == n \div b
           r == m % b
           s == n % b
<1>1. m \in Int /\ n \in Int /\ m <= n /\ (m = n => u % a <= w % a)
  BY QuotientExists, QuotientRises
<1> HIDE DEF m, n
<1>2. h \in Int /\ r \in Int /\ m = h * b + r
  BY <1>1, QuotientExists
<1>3. i \in Int /\ s \in Int /\ n = i * b + s
  BY <1>1, QuotientExists
<1>4. h <= i /\ (h = i => r <= s)
  BY <1>1, QuotientRises
<1> HIDE DEF h, i, r, s
<1>5. h = i /\ r = s => m = n
  BY <1>2, <1>3
<1>6. Rises3(h, r, u % a, i, s, w % a)
  BY <1>1, <1>2, <1>3, <1>4, <1>5 DEF Rises3, Rises2
<1> QED
  BY <1>6 DEF h, i, r, s, m, n

LEMMA FirstTwo ==
  ASSUME NEW a, NEW b, NEW c
  PROVE  SubSeq(<<a, b, c>>, 1, 2) = <<a, b>>
<1> DEFINE E == {a, b, c}
           three == <<a, b, c>>
           two == <<a, b>>
           cut == SubSeq(three, 1, 2)
<1>1. /\ three \in Seq(E) /\ Len(three) = 3 /\ three[1] = a /\ three[2] = b
      /\ two \in Seq(E) /\ Len(two) = 2 /\ two[1] = a /\ two[2] = b
  OBVIOUS
<1> HIDE DEF three, two, E
<1>2. cut \in Seq(E) /\ Len(cut) = 2 /\ \A i \in 1 .. 2 : cut[i] = three[i]
  BY <1>1
<1> HIDE DEF cut
<1>3. cut = two
  BY <1>1, <1>2
<1> QED
  BY <1>3 DEF cut, two, three

LEMMA HmsAre ==
  ASSUME NEW x \in Nat
  PROVE  LET seconds == x \div MicrosecondsPerSecond
             minutes == seconds \div SecondsPerMinute
         IN /\ Hms(x) = <<minutes \div MinutesPerHour, minutes % MinutesPerHour, seconds % SecondsPerMinute>>
            /\ seconds \in Nat /\ minutes \in Nat /\ minutes \div MinutesPerHour \in Nat
            /\ minutes % MinutesPerHour \in Nat /\ seconds % SecondsPerMinute \in Nat
<1>1. /\ MicrosecondsPerSecond \in Nat \ {0} /\ SecondsPerMinute \in Nat \ {0}
      /\ MinutesPerHour \in Nat \ {0} /\ MINUTE \in Nat \ {0}
  BY ClockAssumption, UnitsArePositive
<1> DEFINE seconds == x \div MicrosecondsPerSecond
           minutes == seconds \div SecondsPerMinute
<1>2. seconds \div SecondsPerMinute = x \div MINUTE
  <2>1. (x \div MicrosecondsPerSecond) \div SecondsPerMinute = x \div (MicrosecondsPerSecond * SecondsPerMinute)
    BY <1>1, QuotientOfQuotient, Zenon
  <2> QED
    BY <2>1 DEF MINUTE
<1>3. (x \div MINUTE) \div MinutesPerHour = x \div HOUR
  <2>1. (x \div MINUTE) \div MinutesPerHour = x \div (MINUTE * MinutesPerHour)
    BY <1>1, QuotientOfQuotient, Zenon
  <2> QED
    BY <2>1 DEF HOUR
<1>4. seconds \in Nat
  BY <1>1
<1> HIDE DEF seconds
<1>5. minutes \in Nat
  BY <1>1, <1>4
<1>6. seconds % SecondsPerMinute \in Nat
  BY <1>1, <1>4
<1> HIDE DEF minutes
<1>7. minutes \div MinutesPerHour \in Nat /\ minutes % MinutesPerHour \in Nat
  BY <1>1, <1>5
<1>8. Hms(x) = <<minutes \div MinutesPerHour, minutes % MinutesPerHour, seconds % SecondsPerMinute>>
  BY <1>2, <1>3 DEF Hms, minutes, seconds
<1> QED
  BY <1>4, <1>5, <1>6, <1>7, <1>8 DEF minutes, seconds

\* Hours, minutes and seconds, behind a count of days or alone.
LEMMA HmsRise ==
  ASSUME NEW x \in Nat, NEW y \in Nat, NEW p \in Int, NEW q \in Int, NEW fine \in BOOLEAN,
         p < q \/ (p = q /\ x <= y)
  PROVE  /\ NotAfter(<<p>> \o Shown(Hms(x), fine), <<q>> \o Shown(Hms(y), fine))
         /\ x <= y => NotAfter(Shown(Hms(x), fine), Shown(Hms(y), fine))
<1> DEFINE u == x \div MicrosecondsPerSecond
           v == u \div SecondsPerMinute
           h == v \div MinutesPerHour
           m == v % MinutesPerHour
           s == u % SecondsPerMinute
           ux == y \div MicrosecondsPerSecond
           vx == ux \div SecondsPerMinute
           hx == vx \div MinutesPerHour
           mx == vx % MinutesPerHour
           sx == ux % SecondsPerMinute
<1>1. Hms(x) = <<h, m, s>> /\ u \in Int /\ h \in Int /\ m \in Int /\ s \in Int
  BY HmsAre
<1>2. Hms(y) = <<hx, mx, sx>> /\ ux \in Int /\ hx \in Int /\ mx \in Int /\ sx \in Int
  BY HmsAre
<1>3. x <= y => Rises3(h, m, s, hx, mx, sx)
  <2> SUFFICES ASSUME x <= y PROVE Rises3(h, m, s, hx, mx, sx)
    OBVIOUS
  <2>1. /\ MicrosecondsPerSecond \in Nat \ {0} /\ SecondsPerMinute \in Nat \ {0}
        /\ MinutesPerHour \in Nat \ {0}
    BY ClockAssumption
  <2>2. u <= ux
    BY <2>1, QuotientRises
  <2> HIDE DEF u, ux
  <2> QED
    BY <1>1, <1>2, <2>1, <2>2, CutsRise
<1> HIDE DEF u, v, h, m, s, ux, vx, hx, mx, sx
<1>4. CASE fine
  <2>1. Shown(Hms(x), fine) = <<h, m, s>> /\ Shown(Hms(y), fine) = <<hx, mx, sx>>
    BY <1>1, <1>2, <1>4 DEF Shown
  <2>2. x <= y => NotAfter(<<h, m, s>>, <<hx, mx, sx>>)
    BY <1>1, <1>2, <1>3, ThreeRise
  <2>3. Rises4(p, h, m, s, q, hx, mx, sx)
    BY <1>3 DEF Rises4
  <2>4. NotAfter(<<p, h, m, s>>, <<q, hx, mx, sx>>)
    BY <1>1, <1>2, <2>3, FourRise
  <2>5. <<p>> \o <<h, m, s>> = <<p, h, m, s>> /\ <<q>> \o <<hx, mx, sx>> = <<q, hx, mx, sx>>
    BY JoinedIs, Zenon
  <2> QED
    BY <2>1, <2>2, <2>4, <2>5
<1>5. CASE ~fine
  <2>1. Shown(Hms(x), fine) = <<h, m>> /\ Shown(Hms(y), fine) = <<hx, mx>>
    BY <1>1, <1>2, <1>5, FirstTwo DEF Shown
  <2>2. x <= y => Rises2(h, m, hx, mx)
    BY <1>1, <1>2, <1>3 DEF Rises3, Rises2
  <2>3. x <= y => NotAfter(<<h, m>>, <<hx, mx>>)
    BY <1>1, <1>2, <2>2, TwoRise
  <2>4. Rises3(p, h, m, q, hx, mx)
    BY <2>2 DEF Rises3
  <2>5. NotAfter(<<p, h, m>>, <<q, hx, mx>>)
    BY <1>1, <1>2, <2>4, ThreeRise
  <2>6. <<p>> \o <<h, m>> = <<p, h, m>> /\ <<q>> \o <<hx, mx>> = <<q, hx, mx>>
    BY JoinedIs
  <2> QED
    BY <2>1, <2>3, <2>5, <2>6
<1> QED
  BY <1>4, <1>5

LEMMA CutRises ==
  \A p, q, u, w \in Int, d \in Nat \ {0} :
    (p < q \/ (p = q /\ u <= w)) =>
      /\ NotAfter(<<p, u \div d, u % d>>, <<q, w \div d, w % d>>)
      /\ u <= w => NotAfter(<<u \div d, u % d>>, <<w \div d, w % d>>)
<1> SUFFICES ASSUME NEW p \in Int, NEW q \in Int, NEW u \in Int, NEW w \in Int, NEW d \in Nat \ {0},
                    p < q \/ (p = q /\ u <= w)
             PROVE  /\ NotAfter(<<p, u \div d, u % d>>, <<q, w \div d, w % d>>)
                    /\ u <= w => NotAfter(<<u \div d, u % d>>, <<w \div d, w % d>>)
  OBVIOUS
<1> DEFINE a == u \div d
           b == u % d
           e == w \div d
           f == w % d
<1>1. a \in Int /\ b \in Int /\ e \in Int /\ f \in Int
  BY QuotientExists
<1>2. u <= w => Rises2(a, b, e, f)
  <2> SUFFICES ASSUME u <= w PROVE Rises2(a, b, e, f)
    OBVIOUS
  <2>1. a <= e /\ (a = e => b <= f)
    BY QuotientRises
  <2> HIDE DEF a, b, e, f
  <2> QED
    BY <1>1, <2>1 DEF Rises2
<1> HIDE DEF a, b, e, f
<1>3. u <= w => NotAfter(<<a, b>>, <<e, f>>)
  BY <1>1, <1>2, TwoRise
<1>4. Rises3(p, a, b, q, e, f)
  BY <1>2 DEF Rises3
<1>5. NotAfter(<<p, a, b>>, <<q, e, f>>)
  BY <1>1, <1>4, ThreeRise
<1> QED
  BY <1>3, <1>5 DEF a, b, e, f

LEMMA DecimalRises ==
  ASSUME NEW x \in Nat, NEW y \in Nat, NEW p \in Int, NEW q \in Int, NEW fine \in BOOLEAN,
         p < q \/ (p = q /\ x <= y)
  PROVE  /\ NotAfter(<<p>> \o Decimal(x, fine), <<q>> \o Decimal(y, fine))
         /\ x <= y => NotAfter(Decimal(x, fine), Decimal(y, fine))
<1> DEFINE ticks == DecimalTicks(fine)
           u == day_tick(x, ticks)
           w == day_tick(y, ticks)
<1>1. Hundred \in Nat \ {0}
  BY UnitsArePositive
<1>2. ticks \in Nat
  BY Products, UnitsArePositive DEF DecimalTicks
<1>3. u \in Nat /\ w \in Nat /\ (x <= y => u <= w)
  <2> HIDE DEF ticks
  <2>1. CASE x <= y
    BY <1>2, <2>1, TicksRise
  <2>2. CASE ~(x <= y)
    <3>1. y <= x
      BY <2>2
    <3> QED
      BY <1>2, <2>2, <3>1, TicksRise
  <2> QED
    BY <2>1, <2>2
<1>4. CASE fine
  <2>1. /\ Decimal(x, fine) = <<u \div (Hundred * Hundred), (u \div Hundred) % Hundred, u % Hundred>>
        /\ Decimal(y, fine) = <<w \div (Hundred * Hundred), (w \div Hundred) % Hundred, w % Hundred>>
    BY <1>4 DEF Decimal
  <2> HIDE DEF u, w
  <2>2. /\ u \div (Hundred * Hundred) = (u \div Hundred) \div Hundred
        /\ w \div (Hundred * Hundred) = (w \div Hundred) \div Hundred
    BY <1>1, <1>3, QuotientOfQuotient, Zenon
  <2> DEFINE a == (u \div Hundred) \div Hundred
             b == (u \div Hundred) % Hundred
             c == u % Hundred
             d == (w \div Hundred) \div Hundred
             e == (w \div Hundred) % Hundred
             f == w % Hundred
  <2>3. a \in Int /\ b \in Int /\ c \in Int /\ d \in Int /\ e \in Int /\ f \in Int
    <3>1. u \div Hundred \in Int /\ w \div Hundred \in Int
      BY <1>1, <1>3
    <3> DEFINE m == u \div Hundred
               n == w \div Hundred
    <3> HIDE DEF m, n
    <3>2. m \div Hundred \in Int /\ m % Hundred \in Int /\ n \div Hundred \in Int /\ n % Hundred \in Int
      BY <1>1, <3>1, QuotientExists DEF m, n
    <3>3. c \in Int /\ f \in Int
      BY <1>1, <1>3
    <3> QED
      BY <3>2, <3>3 DEF m, n
  <2>4. x <= y => Rises3(a, b, c, d, e, f)
    <3> SUFFICES ASSUME x <= y PROVE Rises3(a, b, c, d, e, f)
      OBVIOUS
    <3>1. u \in Int /\ w \in Int /\ u <= w
      BY <1>3
    <3> QED
      BY <1>1, <3>1, CutsRise
  <2>5. Decimal(x, fine) = <<a, b, c>> /\ Decimal(y, fine) = <<d, e, f>>
    BY <2>1, <2>2
  <2> HIDE DEF a, b, c, d, e, f
  <2>6. x <= y => NotAfter(<<a, b, c>>, <<d, e, f>>)
    BY <2>3, <2>4, ThreeRise
  <2>7. Rises4(p, a, b, c, q, d, e, f)
    BY <2>4 DEF Rises4
  <2>8. NotAfter(<<p, a, b, c>>, <<q, d, e, f>>)
    BY <2>3, <2>7, FourRise
  <2>9. <<p>> \o <<a, b, c>> = <<p, a, b, c>> /\ <<q>> \o <<d, e, f>> = <<q, d, e, f>>
    BY JoinedIs, Zenon
  <2> QED
    BY <2>5, <2>6, <2>8, <2>9
<1>5. CASE ~fine
  <2> DEFINE a == u \div Hundred
             b == u % Hundred
             c == w \div Hundred
             d == w % Hundred
  <2>1. Decimal(x, fine) = <<a, b>> /\ Decimal(y, fine) = <<c, d>>
    BY <1>5 DEF Decimal
  <2> HIDE DEF u, w
  <2>2. p < q \/ (p = q /\ u <= w)
    BY <1>3
  <2>3. NotAfter(<<p, a, b>>, <<q, c, d>>) /\ (u <= w => NotAfter(<<a, b>>, <<c, d>>))
    <3>1. u \in Int /\ w \in Int
      BY <1>3
    <3> QED
      BY <1>1, <2>2, <3>1, CutRises, Zenon
  <2> HIDE DEF a, b, c, d
  <2>4. <<p>> \o <<a, b>> = <<p, a, b>> /\ <<q>> \o <<c, d>> = <<q, c, d>>
    BY JoinedIs, Zenon
  <2> QED
    BY <1>3, <2>1, <2>3, <2>4
<1> QED
  BY <1>4, <1>5

\* The whole days of a span, and what is left of it.
LEMMA DaysRise ==
  ASSUME NEW x \in Int, NEW y \in Int, x <= y
  PROVE  /\ Days(x) \in Int /\ Days(y) \in Int /\ x % DAY \in Nat /\ y % DAY \in Nat
         /\ Days(x) < Days(y) \/ (Days(x) = Days(y) /\ x % DAY <= y % DAY)
<1>1. DAY \in Nat \ {0}
  BY UnitsArePositive
<1>2. Days(x) \in Int /\ Days(y) \in Int /\ x % DAY \in Nat /\ y % DAY \in Nat
  BY <1>1, QuotientExists DEF Days
<1>3. Days(x) <= Days(y) /\ (Days(x) = Days(y) => x % DAY <= y % DAY)
  BY <1>1, QuotientRises DEF Days
<1> QED
  BY <1>2, <1>3

\* Ticks of a day behind a count of days, and cut in two.
LEMMA DayTicksRise ==
  ASSUME NEW x \in Int, NEW y \in Int, NEW ticks \in Nat, NEW d \in Nat \ {0}, x <= y
  PROVE  LET u == day_tick(x % DAY, ticks)
             w == day_tick(y % DAY, ticks)
         IN /\ NotAfter(<<Days(x), u>>, <<Days(y), w>>)
            /\ NotAfter(<<Days(x), u \div d, u % d>>, <<Days(y), w \div d, w % d>>)
<1> DEFINE p == Days(x)
           q == Days(y)
           a == x % DAY
           b == y % DAY
           u == day_tick(a, ticks)
           w == day_tick(b, ticks)
<1>1. p \in Int /\ q \in Int /\ a \in Nat /\ b \in Nat /\ (p < q \/ (p = q /\ a <= b))
  BY DaysRise
<1> HIDE DEF p, q, a, b
<1>2. u \in Int /\ w \in Int /\ (a <= b => u <= w)
  <2>1. CASE a <= b
    BY <1>1, <2>1, TicksRise
  <2>2. CASE ~(a <= b)
    <3>1. b <= a
      BY <1>1, <2>2
    <3> QED
      BY <1>1, <2>2, <3>1, TicksRise
  <2> QED
    BY <2>1, <2>2
<1> HIDE DEF u, w
<1>3. p < q \/ (p = q /\ u <= w)
  BY <1>1, <1>2
<1>4. NotAfter(<<p, u>>, <<q, w>>)
  <2>1. Rises2(p, u, q, w)
    BY <1>3 DEF Rises2
  <2> QED
    BY <1>1, <1>2, <2>1, TwoRise
<1>5. NotAfter(<<p, u \div d, u % d>>, <<q, w \div d, w % d>>)
  BY <1>1, <1>2, <1>3, CutRises
<1> QED
  BY <1>4, <1>5 DEF u, w, p, q, a, b

LEMMA DurationHmsRises ==
  ASSUME NEW x \in Int, NEW y \in Int, NEW fine \in BOOLEAN, x <= y
  PROVE  NotAfter(DurationHms(x, fine), DurationHms(y, fine))
<1> DEFINE p == Days(x)
           q == Days(y)
           a == x % DAY
           b == y % DAY
<1>1. p \in Int /\ q \in Int /\ a \in Nat /\ b \in Nat /\ (p < q \/ (p = q /\ a <= b))
  BY DaysRise
<1> HIDE DEF p, q, a, b
<1>2. NotAfter(<<p>> \o Shown(Hms(a), fine), <<q>> \o Shown(Hms(b), fine))
  BY <1>1, HmsRise
<1> QED
  BY <1>2 DEF DurationHms, p, q, a, b

LEMMA BeruRises ==
  ASSUME NEW x \in Int, NEW y \in Int, x <= y
  PROVE  NotAfter(DurationBeru(x), DurationBeru(y))
<1>1. BERU \in Nat \ {0} /\ USH \in Nat \ {0} /\ DAY = 12 * BERU
  <2>1. HOUR \in Nat \ {0} /\ DAY = 12 * (2 * HOUR)
    BY UnitsArePositive DEF DAY, HoursPerDay
  <2>2. BERU = 2 * HOUR
    BY <2>1 DEF BERU
  <2>3. UshPerBeru \in Nat \ {0} /\ USH > 0
    BY UnitsAssumption
  <2>4. BERU \in Nat \ {0}
    BY <2>1, <2>2
  <2>5. USH \in Int
    BY <2>3, <2>4 DEF USH
  <2> QED
    BY <2>1, <2>2, <2>3, <2>4, <2>5
<1>2. ASSUME NEW z \in Int
      PROVE  /\ (z % DAY) % BERU = z % BERU /\ Days(z) \in Int /\ z % DAY \in Int
             /\ (z % DAY) \div BERU \in Int /\ z % BERU \in Int /\ (z % BERU) \div USH \in Int
  <2> DEFINE n == Days(z)
             r == z % DAY
             m == r \div BERU
             k == r % BERU
  <2>1. n \in Int /\ r \in Int /\ z = n * DAY + r
    BY UnitsArePositive, QuotientExists DEF Days
  <2> HIDE DEF n, r
  <2>2. m \in Int /\ k \in Int /\ 0 <= k /\ k < BERU /\ r = m * BERU + k
    BY <1>1, <2>1, QuotientExists
  <2> HIDE DEF m, k
  <2>3. z = (12 * n + m) * BERU + k
    <3>1. n * DAY = (12 * n) * BERU
      BY <1>1, <2>1
    <3>2. (12 * n + m) * BERU = (12 * n) * BERU + m * BERU
      BY <1>1, <2>1, <2>2
    <3>3. (12 * n) * BERU \in Int /\ m * BERU \in Int
      BY <1>1, <2>1, <2>2
    <3> QED
      BY <2>1, <2>2, <3>1, <3>2, <3>3
  <2> DEFINE whole == 12 * n + m
  <2>4. whole \in Int
    BY <2>1, <2>2
  <2>5. z = whole * BERU + k
    BY <2>3
  <2> HIDE DEF whole
  <2>6. z % BERU = k
    BY <1>1, <2>2, <2>4, <2>5, QuotientIs
  <2>7. k \div USH \in Int
    BY <1>1, <2>2
  <2> QED
    BY <2>1, <2>2, <2>6, <2>7 DEF n, r, m, k
<1> DEFINE p == Days(x)
           q == Days(y)
           a == x % DAY
           b == y % DAY
           ka == a % BERU
           kb == b % BERU
           ma == a \div BERU
           mb == b \div BERU
           ua == ka \div USH
           ub == kb \div USH
<1>3. a \in Int /\ b \in Int /\ p \in Int /\ q \in Int /\ (p < q \/ (p = q /\ a <= b))
  BY DaysRise
<1>4. /\ ka \in Int /\ kb \in Int /\ ma \in Int /\ mb \in Int /\ ua \in Int /\ ub \in Int
      /\ ka = x % BERU /\ kb = y % BERU
  BY <1>2
<1> HIDE DEF p, q, a, b
<1>5. a <= b => ma <= mb /\ (ma = mb => ka <= kb)
  BY <1>1, <1>3, QuotientRises
<1> HIDE DEF ka, kb
<1>6. ka <= kb => ua <= ub
  BY <1>1, <1>4, QuotientRises
<1> HIDE DEF ma, mb, ua, ub
<1>7. Rises3(p, ma, ua, q, mb, ub)
  BY <1>3, <1>4, <1>5, <1>6 DEF Rises3, Rises2
<1>8. NotAfter(<<p, ma, ua>>, <<q, mb, ub>>)
  BY <1>3, <1>4, <1>7, ThreeRise
<1>9. DurationBeru(x) = <<p, ma, ua>> /\ DurationBeru(y) = <<q, mb, ub>>
  BY <1>4 DEF DurationBeru, p, q, a, b, ma, mb, ua, ub
<1> QED
  BY <1>8, <1>9

EqualStopwatches ==
    Modes \ {"solar", "roman-temporal", "japanese-temporal", "japanese-temporal-early"}

LEMMA StopwatchRises ==
  ASSUME NEW x \in Nat, NEW y \in Nat, NEW fine \in BOOLEAN, NEW s, NEW end, NEW later,
         NEW mode \in EqualStopwatches, x <= y
  PROVE  NotAfter(Duration(s, mode, x, end, fine), Duration(s, mode, y, later, fine))
<1> DEFINE before == Duration(s, mode, x, end, fine)
           after == Duration(s, mode, y, later, fine)
<1>1. CASE mode \in {"standard-24", "standard-12", "mean-solar", "italian-hours", "babylonian-hours",
                    "nuremberg-hours", "nuremberg-solar", "binary"}
  <2>1. before = DurationHms(x, fine) /\ after = DurationHms(y, fine)
    BY <1>1 DEF Duration, JapaneseModes, DurationBinary
  <2> QED
    BY <2>1, DurationHmsRises
<1>2. CASE mode = "unix"
  <2> DEFINE a == x \div MicrosecondsPerSecond
             b == y \div MicrosecondsPerSecond
  <2>1. MicrosecondsPerSecond \in Nat \ {0}
    BY ClockAssumption
  <2>2. a \in Int /\ b \in Int /\ a <= b
    BY <2>1, QuotientRises
  <2>3. before = <<a>> /\ after = <<b>>
    BY <1>2 DEF Duration, JapaneseModes
  <2> HIDE DEF a, b
  <2> QED
    BY <2>2, <2>3, OneRises
<1>3. CASE mode = "sidereal"
  <2> DEFINE a == x + x \div 365
             b == y + y \div 365
  <2>1. a \in Int /\ b \in Int /\ a <= b
    <3>1. x \div 365 <= y \div 365 /\ x \div 365 \in Int /\ y \div 365 \in Int
      BY QuotientRises
    <3> QED
      BY <3>1
  <2>2. before = DurationHms(a, fine) /\ after = DurationHms(b, fine)
    BY <1>3 DEF Duration, JapaneseModes, DurationSidereal
  <2> HIDE DEF a, b
  <2> QED
    BY <2>1, <2>2, DurationHmsRises
<1>4. CASE mode = "decimal"
  <2> DEFINE p == Days(x)
             q == Days(y)
             a == x % DAY
             b == y % DAY
  <2>1. p \in Int /\ q \in Int /\ a \in Nat /\ b \in Nat /\ (p < q \/ (p = q /\ a <= b))
    BY DaysRise
  <2>2. before = <<p>> \o Decimal(a, fine) /\ after = <<q>> \o Decimal(b, fine)
    BY <1>4 DEF Duration, JapaneseModes, DurationDecimal
  <2> HIDE DEF p, q, a, b
  <2> QED
    BY <2>1, <2>2, DecimalRises
<1>5. CASE mode \in {"internet", "julian", "modified-julian"}
  <2> DEFINE units == IF mode = "internet" THEN InternetTicks ELSE Ten * Hundred
             ticks == IF fine THEN units * Hundred ELSE units
             u == day_tick(x % DAY, ticks)
             w == day_tick(y % DAY, ticks)
  <2>1. units \in Nat /\ Hundred \in Nat \ {0}
    BY UnitsArePositive
  <2>2. /\ before = IF fine THEN <<Days(x), u \div Hundred, u % Hundred>> ELSE <<Days(x), u>>
        /\ after = IF fine THEN <<Days(y), w \div Hundred, w % Hundred>> ELSE <<Days(y), w>>
    BY <1>5 DEF Duration, JapaneseModes, DurationInternet, DurationJulian, Digits, Partition
  <2> HIDE DEF units
  <2>3. ticks \in Nat
    <3>1. \A a, b \in Nat : a * b \in Nat
      OBVIOUS
    <3> QED
      BY <2>1, <3>1
  <2> HIDE DEF ticks
  <2>4. /\ NotAfter(<<Days(x), u>>, <<Days(y), w>>)
        /\ NotAfter(<<Days(x), u \div Hundred, u % Hundred>>, <<Days(y), w \div Hundred, w % Hundred>>)
    BY <2>1, <2>3, DayTicksRise
  <2> QED
    BY <2>2, <2>4
<1>6. CASE mode \in {"hexadecimal", "chinese-time", "chinese-ke"}
  <2> DEFINE ticks == IF mode = "hexadecimal" THEN HexTicks ELSE IF mode = "chinese-time" THEN 12 ELSE Ke
             u == day_tick(x % DAY, ticks)
             w == day_tick(y % DAY, ticks)
  <2>1. ticks \in Nat
    BY UnitsAssumption
  <2>2. before = <<Days(x), u>> /\ after = <<Days(y), w>>
    BY <1>6 DEF Duration, JapaneseModes, DurationTicks, DurationChinese, Partition
  <2> HIDE DEF ticks
  <2>3. NotAfter(<<Days(x), u>>, <<Days(y), w>>)
    <3>1. Hundred \in Nat \ {0} /\ x \in Int /\ y \in Int
      BY UnitsArePositive
    <3> QED
      BY <2>1, <3>1, DayTicksRise
  <2> QED
    BY <2>2, <2>3
<1>7. CASE mode = "babylonian-ancient"
  <2>1. before = DurationBeru(x) /\ after = DurationBeru(y)
    BY <1>7 DEF Duration, JapaneseModes
  <2> QED
    BY <2>1, BeruRises
<1>8. CASE mode = "indian-ghati"
  <2> DEFINE ticks == GhatiPerDay * VighatiPerGhati
             u == day_tick(x % DAY, ticks)
             w == day_tick(y % DAY, ticks)
  <2>1. ticks \in Nat /\ VighatiPerGhati \in Nat \ {0}
    <3>1. \A a, b \in Nat : a * b \in Nat
      OBVIOUS
    <3> QED
      BY <3>1, UnitsAssumption
  <2>2. /\ before = <<Days(x), u \div VighatiPerGhati, u % VighatiPerGhati>>
        /\ after = <<Days(y), w \div VighatiPerGhati, w % VighatiPerGhati>>
    BY <1>8 DEF Duration, JapaneseModes, DurationGhati
  <2> HIDE DEF ticks
  <2>3. NotAfter(<<Days(x), u \div VighatiPerGhati, u % VighatiPerGhati>>,
                 <<Days(y), w \div VighatiPerGhati, w % VighatiPerGhati>>)
    <3> DEFINE d == VighatiPerGhati
    <3>1. d \in Nat \ {0} /\ x \in Int /\ y \in Int
      BY <2>1
    <3> HIDE DEF d
    <3>2. NotAfter(<<Days(x), u \div d, u % d>>, <<Days(y), w \div d, w % d>>)
      BY <2>1, <3>1, DayTicksRise
    <3> QED
      BY <3>2 DEF d
  <2> QED
    BY <2>2, <2>3
<1> QED
  BY <1>1, <1>2, <1>3, <1>4, <1>5, <1>6, <1>7, <1>8
     DEF EqualStopwatches, Modes, NativeModes, SunModes, PlaceModes, CivilModes

(* Dials that start again at a midnight.                                     *)

\* From one microsecond to the next a phase grows or begins again.
LEMMA NextPhase ==
  ASSUME NEW x \in Int
  PROVE  /\ x % DAY \in Nat /\ (x + 1) % DAY \in Nat
         /\ (x + 1) % DAY = 0 \/ x % DAY <= (x + 1) % DAY
<1>1. DAY \in Nat \ {0}
  BY UnitsArePositive
<1> DEFINE q == x \div DAY
           r == x % DAY
           y == x + 1
<1>2. q \in Int /\ r \in Int /\ 0 <= r /\ r < DAY /\ x = q * DAY + r
  BY <1>1, QuotientExists
<1>3. y % DAY \in Nat
  BY <1>1
<1> HIDE DEF q, r
<1>4. CASE r + 1 < DAY
  <2> DEFINE k == r + 1
  <2>1. k \in Int /\ 0 <= k /\ k < DAY /\ y = q * DAY + k /\ y \in Int
    <3>1. q * DAY \in Int
      BY <1>1, <1>2
    <3> QED
      BY <1>2, <1>4, <3>1
  <2> HIDE DEF k, y
  <2>2. y % DAY = k
    BY <1>1, <1>2, <2>1, QuotientIs
  <2> QED
    BY <1>2, <1>3, <2>2 DEF k, y, r
<1>5. CASE ~(r + 1 < DAY)
  <2> DEFINE p == q + 1
  <2>1. p \in Int /\ y \in Int /\ y = p * DAY + 0
    <3>1. q * DAY \in Int /\ p * DAY = q * DAY + DAY /\ r + 1 = DAY
      BY <1>1, <1>2, <1>5
    <3> QED
      BY <1>1, <1>2, <3>1
  <2> HIDE DEF p, y
  <2>2. y % DAY = 0
    BY <1>1, <2>1, QuotientIs
  <2> QED
    BY <1>2, <1>3, <2>2 DEF y, r
<1> QED
  BY <1>4, <1>5

AllZero(fields) == \A i \in DOMAIN fields : fields[i] = 0

LEMMA ZerosAre ==
  AllZero(<<0>>) /\ AllZero(<<0, 0>>) /\ AllZero(<<0, 0, 0>>) /\ AllZero(<<0, 0, 0, 0>>)
BY DEF AllZero

LEMMA HmsBeginsAtZero == \A fine \in BOOLEAN : AllZero(Shown(Hms(0), fine))
<1> SUFFICES ASSUME NEW fine \in BOOLEAN PROVE AllZero(Shown(Hms(0), fine))
  OBVIOUS
<1>1. /\ MicrosecondsPerSecond \in Nat \ {0} /\ SecondsPerMinute \in Nat \ {0}
      /\ MinutesPerHour \in Nat \ {0} /\ MINUTE \in Nat \ {0} /\ HOUR \in Nat \ {0}
  BY ClockAssumption, UnitsArePositive
<1>2. 0 \div HOUR = 0 /\ 0 \div MINUTE = 0 /\ 0 \div MicrosecondsPerSecond = 0
  BY <1>1, NothingDivided
<1>3. 0 % MinutesPerHour = 0 /\ 0 % SecondsPerMinute = 0
  BY <1>1, NothingDivided
<1>4. Hms(0) = <<0, 0, 0>>
  BY <1>2, <1>3 DEF Hms
<1>5. Shown(Hms(0), fine) = IF fine THEN <<0, 0, 0>> ELSE <<0, 0>>
  BY <1>4, FirstTwo DEF Shown
<1> QED
  BY <1>5, ZerosAre

LEMMA DecimalBeginsAtZero == \A fine \in BOOLEAN : AllZero(Decimal(0, fine))
<1> SUFFICES ASSUME NEW fine \in BOOLEAN PROVE AllZero(Decimal(0, fine))
  OBVIOUS
<1> DEFINE ticks == DecimalTicks(fine)
           square == Hundred * Hundred
<1>1. Hundred \in Nat \ {0} /\ square \in Nat \ {0}
  BY UnitsArePositive
<1>2. ticks \in Nat
  BY Products, UnitsArePositive DEF DecimalTicks
<1> HIDE DEF ticks, square
<1>3. day_tick(0, ticks) = 0
  BY <1>2, NothingDivided
<1>4. 0 \div square = 0 /\ 0 \div Hundred = 0 /\ 0 % Hundred = 0
  BY <1>1, NothingDivided
<1>5. Decimal(0, fine) = IF fine THEN <<0, 0, 0>> ELSE <<0, 0>>
  BY <1>3, <1>4 DEF Decimal, ticks, square
<1> QED
  BY <1>5, ZerosAre

\* What a dial must do.
GoesForward(before, after) == NotAfter(before, after) \/ AllZero(after)

LEMMA HmsGoesForward ==
  ASSUME NEW a \in Nat, NEW b \in Nat, NEW fine \in BOOLEAN, b = 0 \/ a <= b
  PROVE  GoesForward(Shown(Hms(a), fine), Shown(Hms(b), fine))
<1>1. CASE a <= b
  <2>1. NotAfter(Shown(Hms(a), fine), Shown(Hms(b), fine))
    BY <1>1, HmsRise, 0 \in Int
  <2> QED
    BY <2>1 DEF GoesForward
<1>2. CASE b = 0
  BY <1>2, HmsBeginsAtZero DEF GoesForward
<1> QED
  BY <1>1, <1>2

LEMMA DecimalGoesForward ==
  ASSUME NEW a \in Nat, NEW b \in Nat, NEW fine \in BOOLEAN, b = 0 \/ a <= b
  PROVE  GoesForward(Decimal(a, fine), Decimal(b, fine))
<1>1. CASE a <= b
  <2>1. NotAfter(Decimal(a, fine), Decimal(b, fine))
    BY <1>1, DecimalRises, 0 \in Int
  <2> QED
    BY <2>1 DEF GoesForward
<1>2. CASE b = 0
  BY <1>2, DecimalBeginsAtZero DEF GoesForward
<1> QED
  BY <1>1, <1>2

LEMMA TicksGoForward ==
  ASSUME NEW a \in Nat, NEW b \in Nat, NEW ticks \in Nat, b = 0 \/ a <= b
  PROVE  LET u == day_tick(a, ticks)
             w == day_tick(b, ticks)
         IN /\ GoesForward(<<u>>, <<w>>)
            /\ GoesForward(<<u \div Hundred, u % Hundred>>, <<w \div Hundred, w % Hundred>>)
<1> DEFINE u == day_tick(a, ticks)
           w == day_tick(b, ticks)
<1>1. Hundred \in Nat \ {0}
  BY UnitsArePositive
<1>2. CASE a <= b
  <2>1. u \in Nat /\ w \in Nat /\ u <= w
    BY <1>2, TicksRise
  <2> HIDE DEF u, w
  <2>2. u \in Int /\ w \in Int /\ 0 \in Int /\ u <= w
    BY <2>1
  <2>3. NotAfter(<<u>>, <<w>>)
    BY <2>2, OneRises
  <2>4. NotAfter(<<u \div Hundred, u % Hundred>>, <<w \div Hundred, w % Hundred>>)
    BY <1>1, <2>2, CutRises
  <2> QED
    BY <2>3, <2>4 DEF GoesForward, u, w
<1>3. CASE b = 0
  <2>1. w = 0
    BY <1>3, NothingDivided
  <2>2. w \div Hundred = 0 /\ w % Hundred = 0
    BY <1>1, <2>1, NothingDivided
  <2> HIDE DEF u, w
  <2> QED
    BY <2>1, <2>2, ZerosAre DEF GoesForward, u, w
<1> QED
  BY <1>2, <1>3

\* Branches of two hours, and their halves.
BranchFields(phase, fine) ==
    LET branch == phase \div (2 * HOUR)
    IN IF fine THEN <<branch, IF phase % (2 * HOUR) < HOUR THEN 0 ELSE 1>> ELSE <<branch>>

LEMMA BranchGoesForward ==
  ASSUME NEW a \in Nat, NEW b \in Nat, NEW fine \in BOOLEAN, b = 0 \/ a <= b
  PROVE  GoesForward(BranchFields(a, fine), BranchFields(b, fine))
<1> DEFINE pair == 2 * HOUR
           u == a \div pair
           w == b \div pair
           k == a % pair
           l == b % pair
           half == IF k < HOUR THEN 0 ELSE 1
           later == IF l < HOUR THEN 0 ELSE 1
<1>1. HOUR \in Nat \ {0} /\ pair \in Nat \ {0}
  BY UnitsArePositive
<1> HIDE DEF pair
<1>2. u \in Int /\ w \in Int /\ k \in Int /\ l \in Int
  BY <1>1, QuotientExists
<1>3. /\ BranchFields(a, fine) = IF fine THEN <<u, half>> ELSE <<u>>
      /\ BranchFields(b, fine) = IF fine THEN <<w, later>> ELSE <<w>>
  BY DEF BranchFields, pair
<1>4. CASE a <= b
  <2>1. u <= w /\ (u = w => k <= l)
    <3>1. a \in Int /\ b \in Int
      OBVIOUS
    <3> QED
      BY <1>1, <1>4, <3>1, QuotientRises
  <2> HIDE DEF u, w, k, l
  <2>2. half \in Int /\ later \in Int /\ (k <= l => half <= later)
    BY <1>1, <1>2
  <2> HIDE DEF half, later
  <2>3. Rises2(u, half, w, later)
    BY <1>2, <2>1, <2>2 DEF Rises2
  <2>4. NotAfter(<<u, half>>, <<w, later>>) /\ NotAfter(<<u>>, <<w>>)
    BY <1>2, <2>1, <2>2, <2>3, TwoRise, OneRises
  <2> QED
    BY <1>3, <2>4 DEF GoesForward
<1>5. CASE b = 0
  <2>1. w = 0 /\ l = 0
    BY <1>1, <1>5, NothingDivided
  <2>2. later = 0
    BY <1>1, <2>1
  <2> HIDE DEF u, w, half, later
  <2> QED
    BY <1>3, <2>1, <2>2, ZerosAre DEF GoesForward
<1> QED
  BY <1>4, <1>5

\* What a Julian dial sees of one microsecond is no later than what it sees of the next.
LEMMA JulianGoesForward ==
  ASSUME NEW t \in Int, NEW modified \in BOOLEAN, NEW fine \in BOOLEAN
  PROVE  NotAfter(Julian(t, modified, fine), Julian(t + 1, modified, fine))
<1> DEFINE x == SeenBy(t, modified, fine)
           y == SeenBy(t + 1, modified, fine)
           ticks == DecimalTicks(fine)
           u == day_tick(x % DAY, ticks)
           w == day_tick(y % DAY, ticks)
<1>1. Hundred \in Nat \ {0} /\ ticks \in Nat
  BY UnitsArePositive, Products DEF DecimalTicks
<1>2. x \in Int /\ y \in Int /\ x <= y
  <2> DEFINE shifted == Shifted(t, modified)
             next == Shifted(t + 1, modified)
             first == IF IsLate(t, modified, fine) THEN 1 ELSE 0
             second == IF IsLate(t + 1, modified, fine) THEN 1 ELSE 0
  <2>1. shifted \in Int /\ next = shifted + 1 /\ first \in {0, 1} /\ second \in {0, 1}
    BY ShiftedIs
  <2>2. x = shifted - first /\ y = next - second
    BY DEF SeenBy
  <2> HIDE DEF x, y, shifted, next, first, second
  <2> QED
    BY <2>1, <2>2
<1>3. Julian(t, modified, fine) = DurationJulian(x, fine) /\ Julian(t + 1, modified, fine) = DurationJulian(y, fine)
  <2>1. t + 1 \in Int
    OBVIOUS
  <2> QED
    BY <2>1, JulianIs
<1> HIDE DEF x, y
<1>4. /\ DurationJulian(x, fine) = IF fine THEN <<Days(x), u \div Hundred, u % Hundred>> ELSE <<Days(x), u>>
      /\ DurationJulian(y, fine) = IF fine THEN <<Days(y), w \div Hundred, w % Hundred>> ELSE <<Days(y), w>>
  BY DEF DurationJulian, Digits, Partition, DecimalTicks
<1> HIDE DEF ticks
<1>5. /\ NotAfter(<<Days(x), u>>, <<Days(y), w>>)
      /\ NotAfter(<<Days(x), u \div Hundred, u % Hundred>>, <<Days(y), w \div Hundred, w % Hundred>>)
  BY <1>1, <1>2, DayTicksRise
<1> QED
  BY <1>3, <1>4, <1>5

ForwardDials == MidnightModes \cup {"unix", "julian"}

LEMMA DialGoesForward ==
  ASSUME NEW t \in Int, NEW offset \in Int, NEW fine \in BOOLEAN, NEW s, s.shift \in Int,
         NEW mode \in ForwardDials
  PROVE  GoesForward(Reading(s, mode, t, offset, fine), Reading(s, mode, t + 1, offset, fine))
<1> DEFINE u == t + 1
           before == Reading(s, mode, t, offset, fine)
           after == Reading(s, mode, u, offset, fine)
           a == local_microseconds_of_day(t, offset)
           b == local_microseconds_of_day(u, offset)
           x == t + offset
           y == u + offset
<1>1. u \in Int /\ x \in Int /\ y \in Int /\ y = x + 1 /\ HOUR \in Int /\ DAY \in Nat \ {0}
  BY UnitsArePositive
<1>2. a = x % DAY /\ a % DAY = a /\ (a + HOUR) % DAY = (t + offset + HOUR) % DAY
  BY LocalIs
<1>3. b = y % DAY /\ b % DAY = b /\ (b + HOUR) % DAY = (u + offset + HOUR) % DAY
  <2> HIDE DEF u
  <2> QED
    BY <1>1, LocalIs
<1>4. a \in Nat /\ b \in Nat /\ (b = 0 \/ a <= b)
  <2> HIDE DEF a, b, x, y
  <2> QED
    BY <1>1, <1>2, <1>3, NextPhase
<1> HIDE DEF a, b
<1>5. CASE mode \in {"standard-24", "binary"}
  <2>1. before = Shown(Hms(a), fine) /\ after = Shown(Hms(b), fine)
    BY <1>2, <1>3, <1>5 DEF Reading, SunModes, JapaneseModes, Standard24, Binary, clock_fields, a, b
  <2> QED
    BY <1>4, <2>1, HmsGoesForward
<1>6. CASE mode = "decimal"
  <2>1. before = Decimal(a, fine) /\ after = Decimal(b, fine)
    BY <1>6 DEF Reading, SunModes, JapaneseModes, a, b
  <2> QED
    BY <1>4, <2>1, DecimalGoesForward
<1>7. CASE mode \in {"hexadecimal", "chinese-ke"}
  <2> DEFINE ticks == IF mode = "hexadecimal" THEN HexTicks ELSE Ke
  <2>1. before = <<day_tick(a, ticks)>> /\ after = <<day_tick(b, ticks)>>
    BY <1>7 DEF Reading, SunModes, JapaneseModes, Hexadecimal, ChineseKe, a, b
  <2>2. ticks \in Nat
    BY UnitsAssumption
  <2> HIDE DEF ticks
  <2> QED
    BY <1>4, <2>1, <2>2, TicksGoForward
<1>8. CASE mode = "internet"
  <2> DEFINE m == t + HOUR
             n == u + HOUR
             p == ((t % DAY) + HOUR) % DAY
             q == ((u % DAY) + HOUR) % DAY
             ticks == IF fine THEN InternetTicks * Hundred ELSE InternetTicks
  <2>1. p = m % DAY /\ q = n % DAY /\ m \in Int /\ n \in Int /\ n = m + 1
    <3> HIDE DEF u
    <3>1. p = m % DAY /\ q = n % DAY
      BY <1>1, SumReduced
    <3> QED
      BY <1>1, <3>1 DEF u
  <2>2. p \in Nat /\ q \in Nat /\ (q = 0 \/ p <= q)
    <3> HIDE DEF m, n, p, q
    <3> QED
      BY <2>1, NextPhase
  <2>3. ticks \in Nat
    <3>1. \A c, d \in Nat : c * d \in Nat
      OBVIOUS
    <3> QED
      BY <3>1, UnitsArePositive
  <2>4. /\ before = IF fine THEN <<day_tick(p, ticks) \div Hundred, day_tick(p, ticks) % Hundred>>
                    ELSE <<day_tick(p, ticks)>>
        /\ after = IF fine THEN <<day_tick(q, ticks) \div Hundred, day_tick(q, ticks) % Hundred>>
                   ELSE <<day_tick(q, ticks)>>
    BY <1>8 DEF Reading, SunModes, JapaneseModes, Internet
  <2> HIDE DEF p, q, ticks, before, after
  <2>5. /\ GoesForward(<<day_tick(p, ticks)>>, <<day_tick(q, ticks)>>)
        /\ GoesForward(<<day_tick(p, ticks) \div Hundred, day_tick(p, ticks) % Hundred>>,
                       <<day_tick(q, ticks) \div Hundred, day_tick(q, ticks) % Hundred>>)
    BY <2>2, <2>3, TicksGoForward
  <2>6. GoesForward(before, after)
    BY <2>4, <2>5
  <2> QED
    BY <2>6 DEF before, after
<1>9. CASE mode = "chinese-time"
  <2> DEFINE m == x + HOUR
             n == y + HOUR
             p == (a + HOUR) % DAY
             q == (b + HOUR) % DAY
  <2>1. p = m % DAY /\ q = n % DAY /\ m \in Int /\ n \in Int /\ n = m + 1
    BY <1>1, <1>2, <1>3
  <2>2. p \in Nat /\ q \in Nat /\ (q = 0 \/ p <= q)
    <3> HIDE DEF m, n, p, q
    <3> QED
      BY <2>1, NextPhase
  <2>3. before = BranchFields(p, fine) /\ after = BranchFields(q, fine)
    BY <1>9 DEF Reading, SunModes, JapaneseModes, ChineseTime, BranchFields, a, b
  <2> HIDE DEF p, q, before, after
  <2>4. GoesForward(before, after)
    BY <2>2, <2>3, BranchGoesForward
  <2> QED
    BY <2>4 DEF before, after
<1>10. CASE mode = "mean-solar"
  <2> DEFINE shift == s.shift
             m == t + shift
             n == u + shift
             p == mean_solar(s.shift, t)
             q == mean_solar(s.shift, u)
  <2>1. p = m % DAY /\ q = n % DAY /\ m \in Int /\ n \in Int /\ n = m + 1
    <3>1. p = ((t % DAY) + shift) % DAY /\ q = ((u % DAY) + shift) % DAY /\ shift \in Int
      BY DEF mean_solar, positive_modulo
    <3> HIDE DEF shift, u, p, q
    <3>2. ((t % DAY) + shift) % DAY = m % DAY /\ ((u % DAY) + shift) % DAY = n % DAY
      BY <1>1, <3>1, SumReduced
    <3> QED
      BY <1>1, <3>1, <3>2 DEF u
  <2>2. p \in Nat /\ q \in Nat /\ (q = 0 \/ p <= q) /\ p % DAY = p /\ q % DAY = q
    <3> HIDE DEF m, n, p, q
    <3> QED
      BY <2>1, NextPhase, WithinDay
  <2>3. before = Shown(Hms(p), fine) /\ after = Shown(Hms(q), fine)
    BY <1>10, <2>2 DEF Reading, SunModes, JapaneseModes, SolarTime, clock_fields
  <2> HIDE DEF p, q, before, after
  <2>4. GoesForward(before, after)
    BY <2>2, <2>3, HmsGoesForward
  <2> QED
    BY <2>4 DEF before, after
<1>11. CASE mode \in {"julian", "modified-julian"}
  <2> DEFINE modified == mode = "modified-julian"
  <2>1. before = Julian(t, modified, fine) /\ after = Julian(t + 1, modified, fine)
    BY <1>11 DEF Reading, SunModes, JapaneseModes
  <2>2. modified \in BOOLEAN
    OBVIOUS
  <2> HIDE DEF modified, before, after
  <2>3. NotAfter(before, after)
    BY <2>1, <2>2, JulianGoesForward
  <2> QED
    BY <2>3 DEF GoesForward, before, after
<1>12. CASE mode = "unix"
  <2> DEFINE m == t \div MicrosecondsPerSecond
             n == u \div MicrosecondsPerSecond
  <2>1. MicrosecondsPerSecond \in Nat \ {0} /\ t <= u
    BY ClockAssumption
  <2>2. m \in Int /\ n \in Int /\ m <= n
    <3> HIDE DEF u
    <3> QED
      BY <1>1, <2>1, QuotientRises
  <2>3. before = <<m>> /\ after = <<n>>
    BY <1>12 DEF Reading, SunModes, JapaneseModes, Unix, floor_divide
  <2> HIDE DEF m, n, before, after
  <2>4. NotAfter(before, after)
    BY <2>2, <2>3, OneRises
  <2> QED
    BY <2>4 DEF GoesForward, before, after
<1> QED
  BY <1>5, <1>6, <1>7, <1>8, <1>9, <1>10, <1>11, <1>12 DEF ForwardDials, MidnightModes, EqualModes

\* For every length of the units, every sky, place and start: at each tick a dial that
\* counts from a midnight or an epoch goes on or begins again at zero, and no
\* running stopwatch of equal units goes back, whatever days, hours and
\* fractions it is cut into, each by a division of its own (format_clock_mode,
\* infiltratr_temporal_format_duration_mode).
THEOREM EqualUnitsRunForward ==
  ClockSpec =>
    [][SecondBySecond /\ Tick =>
         /\ \A mode \in ForwardDials, offset \in Offsets, fine \in BOOLEAN :
              RunsForward(mode, now, now', offset, fine)
         /\ \A mode \in EqualStopwatches, fine \in BOOLEAN, start \in {i \in Starts : i <= now} :
              NotAfter(Duration(sky, mode, now - start, now, fine),
                       Duration(sky, mode, now' - start, now', fine))]_clock
<1>1. ASSUME FaceTypes, Tick,
             window.stride = 1,
             NEW mode \in ForwardDials, NEW offset \in Offsets, NEW fine \in BOOLEAN
      PROVE  RunsForward(mode, now, now', offset, fine)
  <2> DEFINE before == Reading(sky, mode, now, offset, fine)
             after == Reading(sky, mode, now', offset, fine)
  <2>1. now' = now + 1 /\ now \in Int /\ offset \in Int /\ sky.shift \in Int
    BY <1>1, FaceAssumption DEF FaceTypes, Tick
  <2>2. GoesForward(before, after)
    BY <2>1, DialGoesForward
  <2>3. Key(mode, before) = before /\ Key(mode, after) = after /\ mode \notin SeasonalModes
    <3>1. mode \notin SeasonalModes \cup {"standard-12", "babylonian-ancient"}
      BY DEF ForwardDials, MidnightModes, EqualModes, SeasonalModes
    <3> HIDE DEF before, after
    <3> QED
      BY <3>1 DEF Key
  <2> HIDE DEF before, after
  <2>4. NotAfter(Key(mode, before), Key(mode, after)) \/ IsFirst(mode, Key(mode, after))
    BY <2>2, <2>3 DEF GoesForward, IsFirst, AllZero
  <2> QED
    BY <2>3, <2>4 DEF RunsForward, SamePeriod, before, after
<1>2. ASSUME FaceTypes, Tick, NEW mode \in EqualStopwatches, NEW fine \in BOOLEAN,
             NEW start \in {i \in Starts : i <= now}
      PROVE  NotAfter(Duration(sky, mode, now - start, now, fine),
                      Duration(sky, mode, now' - start, now', fine))
  <2> DEFINE x == now - start
             y == now' - start
  <2>1. x \in Nat /\ y \in Nat /\ x <= y
    <3>1. window.stride \in {1, DAY} /\ DAY \in Nat /\ Starts \subseteq Int /\ now \in Int
      BY <1>2, FaceAssumption, ClockAssumption, UnitsArePositive DEF FaceTypes
    <3>2. window.stride \in Nat /\ now' = now + window.stride /\ start \in Int /\ start <= now
      BY <1>2, <3>1 DEF Tick
    <3> QED
      BY <3>1, <3>2
  <2> HIDE DEF x, y
  <2>2. NotAfter(Duration(sky, mode, x, now, fine), Duration(sky, mode, y, now', fine))
    BY <2>1, StopwatchRises
  <2> QED
    BY <2>2 DEF x, y
<1>3. FaceTypes /\ SecondBySecond /\ Tick =>
        /\ \A mode \in ForwardDials, offset \in Offsets, fine \in BOOLEAN :
             RunsForward(mode, now, now', offset, fine)
        /\ \A mode \in EqualStopwatches, fine \in BOOLEAN, start \in {i \in Starts : i <= now} :
             NotAfter(Duration(sky, mode, now - start, now, fine),
                      Duration(sky, mode, now' - start, now', fine))
  BY <1>1, <1>2 DEF SecondBySecond
<1> QED
  BY <1>3, FaceStaysTyped, PTL DEF ClockSpec

(* Dates.                                                                    *)

\* Day z is day d of the year that begins on 1 March of year r of the fours q of
\* the century c of an era.  Only where a leap day ends the year is there a day 365.
IsLong(c, q, r) == r = 3 /\ (q # 24 \/ c = 3)
Within(c, q, r, d) ==
  /\ c \in 0 .. 3 /\ q \in 0 .. 24 /\ r \in 0 .. 3 /\ d \in 0 .. 365
  /\ d = 365 => IsLong(c, q, r)
Counted(c, q, r, d) == 36524 * c + 1461 * q + 365 * r + d
IsMarchDate(z, era, c, q, r, d) ==
  /\ era \in Int /\ Within(c, q, r, d)
  /\ z = 146097 * era + Counted(c, q, r, d)
MarchYear(z) == YearOfEra(z) + Era(z) * 400

LEMMA YearOfEraIs ==
  ASSUME NEW c, NEW q, NEW r, NEW d, Within(c, q, r, d), NEW doe, doe = Counted(c, q, r, d)
  PROVE  /\ doe \in Int /\ 0 <= doe /\ doe <= 146096
         /\ (doe - doe \div 1460 + doe \div 36524 - doe \div 146096) \div 365 = 100 * c + 4 * q + r
<1>1. /\ c \in Int /\ q \in Int /\ r \in Int /\ d \in Int /\ doe \in Int
      /\ 0 <= c /\ c <= 3 /\ 0 <= q /\ q <= 24 /\ 0 <= r /\ r <= 3 /\ 0 <= d /\ d <= 365
      /\ doe = 36524 * c + 1461 * q + 365 * r + d
  BY DEF Within, Counted
<1>2. d = 365 => r = 3 /\ (q # 24 \/ c = 3)
  BY DEF Within, IsLong
<1>3. 0 <= doe /\ doe <= 146096
  BY <1>1
<1>4. doe \div 146096 = IF doe = 146096 THEN 1 ELSE 0
  <2>1. CASE doe = 146096
    BY <2>1
  <2>2. CASE doe # 146096
    <3>1. doe = 0 * 146096 + doe /\ doe < 146096
      BY <1>1, <1>3, <2>2
    <3> QED
      BY <1>1, <1>3, <2>2, <3>1, QuotientIs
  <2> QED
    BY <2>1, <2>2
<1>5. doe \div 36524 = IF doe = 146096 THEN 4 ELSE c
  <2>1. CASE doe = 146096
    BY <2>1
  <2>2. CASE doe # 146096
    <3> DEFINE part == 1461 * q + 365 * r + d
    <3>1. part \in Int /\ 0 <= part /\ doe = c * 36524 + part
      BY <1>1
    <3>2. part < 36524
      <4>1. CASE q <= 23
        BY <1>1, <4>1
      <4>2. CASE q = 24 /\ c = 3
        BY <1>1, <1>3, <2>2, <4>2
      <4>3. CASE q = 24 /\ c # 3
        BY <1>1, <1>2, <4>3
      <4> QED
        BY <1>1, <4>1, <4>2, <4>3
    <3> HIDE DEF part
    <3>3. doe \div 36524 = c
      BY <1>1, <3>1, <3>2, QuotientIs
    <3> QED
      BY <2>2, <3>3
  <2> QED
    BY <2>1, <2>2
<1> DEFINE a == 25 * c + q
           rest == 24 * c + q + 365 * r + d
           more == IF rest >= 1460 THEN 1 ELSE 0
<1>6. a \in Int /\ rest \in Int /\ doe = 1460 * a + rest /\ 0 <= rest /\ rest <= 1556
  BY <1>1
<1>7. doe \div 1460 = a + more /\ more \in {0, 1}
  <2> DEFINE part == rest - 1460 * more
             b == a + more
  <2>1. part \in Int /\ 0 <= part /\ part < 1460 /\ b \in Int /\ more \in {0, 1}
    BY <1>6
  <2>2. doe = b * 1460 + part
    BY <1>6
  <2> HIDE DEF b, more, part
  <2>3. doe \div 1460 = b
    BY <1>1, <2>1, <2>2, QuotientIs
  <2> QED
    BY <2>1, <2>3 DEF b
<1> DEFINE y == 100 * c + 4 * q + r
           last == IF doe = 146096 THEN 1 ELSE 0
           n == doe - doe \div 1460 + doe \div 36524 - doe \div 146096
<1>8. n = doe - (a + more) + (IF doe = 146096 THEN 4 ELSE c) - last
  <2> HIDE DEF a, more
  <2> QED
    BY <1>4, <1>5, <1>7
<1>9. doe = 146096 => c = 3
  BY <1>1
<1>10. n = 365 * y + (d - more)
  <2>1. n = doe - (a + more) + c
    <3> HIDE DEF a, more, n
    <3> QED
      BY <1>1, <1>6, <1>7, <1>8, <1>9
  <2> HIDE DEF more, n
  <2> QED
    BY <1>1, <1>7, <2>1
<1>11. 0 <= d - more /\ d - more < 365
  BY <1>1, <1>2
<1>12. y \in Int /\ d - more \in Int /\ n \in Int
  <2> HIDE DEF n, more
  <2> QED
    BY <1>1, <1>7, <1>10
<1> HIDE DEF n, y, more
<1>13. n = y * 365 + (d - more)
  BY <1>10, <1>12
<1>14. n \div 365 = y
  BY <1>11, <1>12, <1>13, QuotientIs
<1>15. (doe - doe \div 1460 + doe \div 36524 - doe \div 146096) \div 365 = 100 * c + 4 * q + r
  BY <1>14 DEF n, y
<1> QED
  BY <1>1, <1>3, <1>15

LEMMA MarchDateIs ==
  ASSUME NEW z, NEW era, NEW c, NEW q, NEW r, NEW d, IsMarchDate(z, era, c, q, r, d)
  PROVE  /\ z \in Int /\ MarchYear(z) = 400 * era + 100 * c + 4 * q + r
         /\ DayFromMarch(z) = d
<1> DEFINE doe == Counted(c, q, r, d)
           y == 100 * c + 4 * q + r
<1>1. /\ c \in Int /\ q \in Int /\ r \in Int /\ d \in Int /\ era \in Int
      /\ 0 <= c /\ c <= 3 /\ 0 <= q /\ q <= 24 /\ 0 <= r /\ r <= 3
      /\ doe = 36524 * c + 1461 * q + 365 * r + d /\ z = 146097 * era + doe
  BY DEF IsMarchDate, Within, Counted
<1>2. /\ doe \in Int /\ 0 <= doe /\ doe <= 146096
      /\ (doe - doe \div 1460 + doe \div 36524 - doe \div 146096) \div 365 = y
  <2> HIDE DEF doe
  <2>1. doe = Counted(c, q, r, d) /\ Within(c, q, r, d)
    BY DEF doe, IsMarchDate
  <2> QED
    BY <2>1, YearOfEraIs
<1> HIDE DEF doe
<1>3. z \in Int /\ doe \in Int /\ 0 <= doe /\ doe < 146097 /\ z = era * 146097 + doe
  BY <1>1, <1>2
<1>4. z \div 146097 = era
  BY <1>1, <1>3, QuotientIs
<1>5. Era(z) = era /\ DayOfEra(z) = doe
  BY <1>1, <1>3, <1>4 DEF Era, DayOfEra, floor_divide
<1>6. YearOfEra(z) = y
  BY <1>2, <1>5 DEF YearOfEra
<1>7. y \div 4 = 25 * c + q
  <2>1. y = (25 * c + q) * 4 + r
    BY <1>1
  <2> QED
    BY <1>1, <2>1
<1>8. y \div 100 = c
  <2> DEFINE part == 4 * q + r
  <2>1. y = c * 100 + part /\ part \in Int /\ 0 <= part /\ part < 100 /\ y \in Int
    BY <1>1
  <2> HIDE DEF y, part
  <2> QED
    BY <1>1, <2>1, QuotientIs
<1>9. DayFromMarch(z) = doe - (365 * y + (25 * c + q) - c)
  <2> HIDE DEF y
  <2> QED
    BY <1>5, <1>6, <1>7, <1>8 DEF DayFromMarch
<1>10. DayFromMarch(z) = d
  BY <1>1, <1>9
<1>11. MarchYear(z) = 400 * era + 100 * c + 4 * q + r
  BY <1>1, <1>5, <1>6 DEF MarchYear
<1> QED
  BY <1>3, <1>10, <1>11

\* Every day is one of them.
LEMMA MarchDateExists ==
  ASSUME NEW z \in Int
  PROVE  \E era, c, q, r, d : IsMarchDate(z, era, c, q, r, d)
<1> DEFINE era == z \div 146097
           doe == z % 146097
           c == IF doe = 146096 THEN 3 ELSE doe \div 36524
           day == doe - 36524 * c
           q == day \div 1461
           left == day % 1461
           r == IF left = 1460 THEN 3 ELSE left \div 365
           d == left - 365 * r
<1>1. era \in Int /\ doe \in Int /\ 0 <= doe /\ doe <= 146096 /\ z = 146097 * era + doe
  OBVIOUS
<1> HIDE DEF era, doe
<1>2. c \in 0 .. 3 /\ day \in Int /\ 0 <= day /\ day <= 36524 /\ (day = 36524 => c = 3)
  BY <1>1
<1> HIDE DEF c
<1>3. doe = 36524 * c + day
  BY <1>1, <1>2
<1> HIDE DEF day
<1>4. q \in 0 .. 24 /\ left \in Int /\ 0 <= left /\ left <= 1460 /\ day = 1461 * q + left
  BY <1>2
<1> HIDE DEF q, left
<1>5. r \in 0 .. 3 /\ d \in Int /\ 0 <= d /\ d <= 365 /\ (d = 365 => r = 3 /\ left = 1460)
  BY <1>4
<1> HIDE DEF r
<1>6. left = 365 * r + d
  BY <1>4, <1>5
<1> HIDE DEF d
<1>7. d = 365 => q # 24 \/ c = 3
  BY <1>2, <1>4, <1>5
<1>8. Within(c, q, r, d)
  BY <1>2, <1>4, <1>5, <1>7 DEF Within, IsLong
<1>9. z = 146097 * era + Counted(c, q, r, d)
  BY <1>1, <1>2, <1>3, <1>4, <1>5, <1>6 DEF Counted
<1>10. IsMarchDate(z, era, c, q, r, d)
  BY <1>1, <1>8, <1>9 DEF IsMarchDate
<1> QED
  BY <1>10

\* A year that begins in March is long where the next one is a leap year.
LEMMA LongIsLeap ==
  ASSUME NEW era \in Int, NEW c \in 0 .. 3, NEW q \in 0 .. 24, NEW r \in 0 .. 3
  PROVE  IsLong(c, q, r) <=> IsLeapYear(400 * era + 100 * c + 4 * q + r + 1)
<1> DEFINE y == 400 * era + 100 * c + 4 * q + r + 1
<1>1. y % 4 = 0 <=> r = 3
  OBVIOUS
<1>2. CASE r # 3
  <2>1. y % 4 # 0
    BY <1>1, <1>2
  <2>2. y % 400 # 0
    BY <2>1
  <2> QED
    BY <1>2, <2>1, <2>2 DEF IsLong, IsLeapYear
<1>3. CASE r = 3
  <2>1. y % 100 = 0 <=> q = 24
    BY <1>3
  <2>2. q = 24 => (y % 400 = 0 <=> c = 3)
    BY <1>3
  <2>3. y % 400 = 0 => y % 100 = 0
    OBVIOUS
  <2> QED
    BY <1>1, <1>3, <2>1, <2>2, <2>3 DEF IsLong, IsLeapYear
<1> QED
  BY <1>2, <1>3

LEMMA MarchDayIs ==
  ASSUME NEW z \in Int
  PROVE  /\ MarchYear(z) \in Int /\ DayFromMarch(z) \in Int
         /\ 0 <= DayFromMarch(z) /\ DayFromMarch(z) <= 365
         /\ DayFromMarch(z) = 365 => IsLeapYear(MarchYear(z) + 1)
<1>1. PICK era, c, q, r, d : IsMarchDate(z, era, c, q, r, d)
  BY MarchDateExists
<1>2. MarchYear(z) = 400 * era + 100 * c + 4 * q + r /\ DayFromMarch(z) = d
  BY <1>1, MarchDateIs
<1>3. /\ era \in Int /\ c \in 0 .. 3 /\ q \in 0 .. 24 /\ r \in 0 .. 3 /\ d \in 0 .. 365
      /\ d = 365 => IsLong(c, q, r)
  BY <1>1 DEF IsMarchDate, Within
<1>4. MarchYear(z) + 1 = 400 * era + 100 * c + 4 * q + r + 1
  BY <1>2, <1>3
<1>5. IsLong(c, q, r) <=> IsLeapYear(MarchYear(z) + 1)
  BY <1>3, <1>4, LongIsLeap
<1> QED
  BY <1>2, <1>3, <1>5

\* From day to day.
LEMMA MarchDayAfter ==
  ASSUME NEW z \in Int
  PROVE  LET last == IF IsLeapYear(MarchYear(z) + 1) THEN 365 ELSE 364
         IN  IF DayFromMarch(z) = last
             THEN MarchYear(z + 1) = MarchYear(z) + 1 /\ DayFromMarch(z + 1) = 0
             ELSE MarchYear(z + 1) = MarchYear(z) /\ DayFromMarch(z + 1) = DayFromMarch(z) + 1
<1>1. PICK era, c, q, r, d : IsMarchDate(z, era, c, q, r, d)
  BY MarchDateExists
<1>2. MarchYear(z) = 400 * era + 100 * c + 4 * q + r /\ DayFromMarch(z) = d
  BY <1>1, MarchDateIs
<1>3. /\ era \in Int /\ c \in 0 .. 3 /\ q \in 0 .. 24 /\ r \in 0 .. 3 /\ d \in 0 .. 365
      /\ d = 365 => IsLong(c, q, r)
      /\ z = 146097 * era + Counted(c, q, r, d)
  BY <1>1 DEF IsMarchDate, Within
<1>4. IsLong(c, q, r) <=> IsLeapYear(MarchYear(z) + 1)
  <2>1. MarchYear(z) + 1 = 400 * era + 100 * c + 4 * q + r + 1
    BY <1>2, <1>3
  <2> QED
    BY <1>3, <2>1, LongIsLeap
<1> DEFINE last == IF IsLong(c, q, r) THEN 365 ELSE 364
<1>5. CASE d # last
  <2>1. IsMarchDate(z + 1, era, c, q, r, d + 1)
    <3>1. d + 1 \in 0 .. 365 /\ (d + 1 = 365 => IsLong(c, q, r))
      BY <1>3, <1>5
    <3>2. Within(c, q, r, d + 1)
      BY <1>3, <3>1 DEF Within
    <3>3. z + 1 = 146097 * era + Counted(c, q, r, d + 1)
      BY <1>3 DEF Counted
    <3> QED
      BY <1>3, <3>2, <3>3 DEF IsMarchDate
  <2>2. MarchYear(z + 1) = MarchYear(z) /\ DayFromMarch(z + 1) = d + 1
    BY <1>2, <2>1, MarchDateIs
  <2> QED
    BY <1>2, <1>4, <1>5, <2>2
<1>6. CASE d = last
  <2>1. ASSUME NEW e \in Int, NEW k \in 0 .. 3, NEW f \in 0 .. 24, NEW y \in 0 .. 3,
               z + 1 = 146097 * e + Counted(k, f, y, 0),
               400 * e + 100 * k + 4 * f + y = 400 * era + 100 * c + 4 * q + r + 1
        PROVE  MarchYear(z + 1) = MarchYear(z) + 1 /\ DayFromMarch(z + 1) = 0
    <3>1. IsMarchDate(z + 1, e, k, f, y, 0)
      BY <2>1 DEF IsMarchDate, Within
    <3>2. MarchYear(z + 1) = 400 * e + 100 * k + 4 * f + y /\ DayFromMarch(z + 1) = 0
      BY <3>1, MarchDateIs
    <3> QED
      BY <1>2, <1>3, <2>1, <3>2
  <2>2. MarchYear(z + 1) = MarchYear(z) + 1 /\ DayFromMarch(z + 1) = 0
    <3>1. CASE r # 3
      <4>1. d = 364 /\ r + 1 \in 0 .. 3
        BY <1>3, <1>6, <3>1 DEF IsLong
      <4>2. z + 1 = 146097 * era + Counted(c, q, r + 1, 0)
        BY <1>3, <4>1 DEF Counted
      <4> QED
        BY <1>3, <2>1, <4>1, <4>2
    <3>2. CASE r = 3 /\ q # 24
      <4>1. d = 365 /\ q + 1 \in 0 .. 24
        BY <1>3, <1>6, <3>2 DEF IsLong
      <4>2. z + 1 = 146097 * era + Counted(c, q + 1, 0, 0)
        BY <1>3, <3>2, <4>1 DEF Counted
      <4>3. 400 * era + 100 * c + 4 * (q + 1) + 0 = 400 * era + 100 * c + 4 * q + r + 1
        BY <1>3, <3>2
      <4> QED
        BY <1>3, <2>1, <4>1, <4>2, <4>3
    <3>3. CASE r = 3 /\ q = 24 /\ c # 3
      <4>1. d = 364 /\ c + 1 \in 0 .. 3
        BY <1>3, <1>6, <3>3 DEF IsLong
      <4>2. z + 1 = 146097 * era + Counted(c + 1, 0, 0, 0)
        BY <1>3, <3>3, <4>1 DEF Counted
      <4>3. 400 * era + 100 * (c + 1) + 4 * 0 + 0 = 400 * era + 100 * c + 4 * q + r + 1
        BY <1>3, <3>3
      <4> QED
        BY <1>3, <2>1, <4>1, <4>2, <4>3
    <3>4. CASE r = 3 /\ q = 24 /\ c = 3
      <4>1. d = 365
        BY <1>3, <1>6, <3>4 DEF IsLong
      <4>2. z + 1 = 146097 * (era + 1) + Counted(0, 0, 0, 0)
        BY <1>3, <3>4, <4>1 DEF Counted
      <4>3. 400 * (era + 1) + 100 * 0 + 4 * 0 + 0 = 400 * era + 100 * c + 4 * q + r + 1
        BY <1>3, <3>4
      <4> QED
        <5>1. era + 1 \in Int /\ 0 \in 0 .. 3 /\ 0 \in 0 .. 24
          BY <1>3
        <5> QED
          BY <2>1, <4>2, <4>3, <5>1
    <3> QED
      BY <3>1, <3>2, <3>3, <3>4
  <2> QED
    BY <1>2, <1>4, <1>6, <2>2
<1> QED
  BY <1>5, <1>6

DayNumber(t) == floor_divide(t, DAY) + 719468

\* The day of the year, from its day of the year that begins in March.
LEMMA DayOfYearIs ==
  ASSUME NEW t \in Int
  PROVE  LET z == DayNumber(t)
             d == DayFromMarch(z)
         IN  /\ z \in Int
             /\ GregorianDate(t).year = MarchYear(z) + (IF d >= 306 THEN 1 ELSE 0)
             /\ gregorian_day_of_year(t) =
                   IF d >= 306 THEN d - 305 ELSE d + 60 + (IF IsLeapYear(MarchYear(z)) THEN 1 ELSE 0)
<1> DEFINE z == DayNumber(t)
           d == DayFromMarch(z)
           mp == (5 * d + 2) \div 153
           month == IF mp < 10 THEN mp + 3 ELSE mp - 9
           day == d - (153 * mp + 2) \div 5 + 1
           year == MarchYear(z) + (IF month <= 2 THEN 1 ELSE 0)
<1>1. z \in Int
  <2>1. t \div DAY \in Int
    BY UnitsArePositive
  <2> QED
    BY <2>1 DEF DayNumber, floor_divide
<1>2. d \in Int /\ 0 <= d /\ d <= 365 /\ MarchYear(z) \in Int
  BY <1>1, MarchDayIs
<1>3. GregorianDate(t) = [year |-> year, month |-> month, day |-> day]
  BY DEF GregorianDate, DayNumber, MarchYear
<1> DEFINE date == GregorianDate(t)
<1>4. date.year = year /\ date.month = month /\ date.day = day
  BY <1>3
<1> HIDE DEF d, date
<1>5. /\ month \in 1 .. 12 /\ (month <= 2 <=> d >= 306)
      /\ cumulative_days[month] + day = IF d >= 306 THEN d - 305 ELSE d + 60
  <2>1. mp \in 0 .. 11 /\ 153 * mp <= 5 * d + 2 /\ 5 * d + 2 < 153 * mp + 153
    BY <1>2
  <2> HIDE DEF mp
  <2>2. mp = 0 \/ mp = 1 \/ mp = 2 \/ mp = 3 \/ mp = 4 \/ mp = 5 \/ mp = 6 \/ mp = 7 \/ mp = 8
        \/ mp = 9 \/ mp = 10 \/ mp = 11
    BY <2>1
  <2> QED
    BY <1>2, <2>1, <2>2 DEF cumulative_days
<1> HIDE DEF month, day
<1>6. year = MarchYear(z) + (IF d >= 306 THEN 1 ELSE 0)
  BY <1>5
<1>7. gregorian_day_of_year(t) = cumulative_days[month] + day + (IF IsLeapYear(year) /\ month > 2 THEN 1 ELSE 0)
  BY <1>4 DEF gregorian_day_of_year, DayOfYear, date
<1>8. CASE d >= 306
  <2>1. ~(month > 2)
    BY <1>5, <1>8
  <2> QED
    BY <1>1, <1>2, <1>4, <1>5, <1>6, <1>7, <1>8, <2>1 DEF d, date
<1>9. CASE d < 306
  <2>1. month > 2 /\ year = MarchYear(z)
    BY <1>2, <1>5, <1>6, <1>9
  <2> QED
    BY <1>1, <1>2, <1>4, <1>5, <1>7, <1>9, <2>1 DEF d, date
<1> QED
  BY <1>2, <1>8, <1>9

\* The threshold of the hours of the Great Clock that has passed last.
LEMMA ThresholdsRise ==
  ASSUME NEW leap \in BOOLEAN, NEW i \in 1 .. 16, NEW j \in 1 .. 16, i < j
  PROVE  Threshold(i, leap) < Threshold(j, leap) /\ Threshold(i, leap) \in Int /\ Threshold(j, leap) \in Int
<1>1. \A k \in 1 .. 15 : thresholds[k] < thresholds[k + 1]
  BY DEF thresholds
<1> QED
  BY <1>1 DEF Threshold, thresholds

HoursAfter(k) == IF k = 0 THEN 8 ELSE allocations[k]

LEMMA HoursAre ==
  ASSUME NEW t, NEW k \in 0 .. 16, NEW today \in Int, NEW leap \in BOOLEAN,
         today = gregorian_day_of_year(t), leap = IsLeapYear(GregorianDate(t).year),
         k > 0 => today >= Threshold(k, leap),
         k < 16 => today < Threshold(k + 1, leap)
  PROVE  historical_day_hours(t) = HoursAfter(k)
<1> DEFINE passed == {i \in DOMAIN thresholds : today >= Threshold(i, leap)}
<1>1. DOMAIN thresholds = 1 .. 16
  BY DEF thresholds
<1>2. \A i \in 1 .. 16 : Threshold(i, leap) \in Int
  BY DEF Threshold, thresholds
<1>3. \A i \in 1 .. 16 : i <= k => today >= Threshold(i, leap)
  <2> SUFFICES ASSUME NEW i \in 1 .. 16, i <= k PROVE today >= Threshold(i, leap)
    OBVIOUS
  <2>1. k \in 1 .. 16 /\ today >= Threshold(k, leap)
    OBVIOUS
  <2>2. CASE i = k
    BY <2>1, <2>2
  <2>3. CASE i < k
    <3>1. Threshold(i, leap) < Threshold(k, leap)
      BY <2>1, <2>3, ThresholdsRise
    <3> QED
      BY <1>2, <2>1, <3>1
  <2> QED
    BY <2>2, <2>3
<1>4. \A i \in 1 .. 16 : i > k => ~(today >= Threshold(i, leap))
  <2> SUFFICES ASSUME NEW i \in 1 .. 16, i > k PROVE today < Threshold(i, leap)
    BY <1>2
  <2>1. k + 1 \in 1 .. 16 /\ today < Threshold(k + 1, leap)
    OBVIOUS
  <2>2. CASE i = k + 1
    BY <2>1, <2>2
  <2>3. CASE k + 1 < i
    <3>1. Threshold(k + 1, leap) < Threshold(i, leap)
      BY <2>1, <2>3, ThresholdsRise
    <3> QED
      BY <1>2, <2>1, <3>1
  <2> QED
    BY <2>2, <2>3
<1>5. passed = 1 .. k
  BY <1>1, <1>3, <1>4
<1>6. historical_day_hours(t) = IF passed = {} THEN 8 ELSE allocations[Max(passed)]
  BY DEF historical_day_hours
<1> HIDE DEF passed
<1>7. CASE k = 0
  BY <1>5, <1>6, <1>7 DEF HoursAfter
<1>8. CASE k > 0
  <2>1. k \in 1 .. k /\ \A j \in 1 .. k : k >= j
    BY <1>8
  <2>2. \A j \in 1 .. k : (\A i \in 1 .. k : j >= i) => j = k
    BY <2>1
  <2>3. Max(1 .. k) = k
    BY <2>1, <2>2 DEF Max
  <2> QED
    BY <1>5, <1>6, <1>8, <2>1, <2>3 DEF HoursAfter
<1> QED
  BY <1>7, <1>8

IsPassed(k, today, leap) == (k > 0 => today >= Threshold(k, leap)) /\ (k < 16 => today < Threshold(k + 1, leap))

LEMMA HoursExist ==
  ASSUME NEW today \in Int, NEW leap \in BOOLEAN
  PROVE  \E k \in 0 .. 16 : IsPassed(k, today, leap)
<1> DEFINE T(i) == Threshold(i, leap)
           Is(k) == (k > 0 => today >= T(k)) /\ (k < 16 => today < T(k + 1))
<1>1. \A i \in 1 .. 16 : T(i) \in Int
  BY DEF Threshold, thresholds
<1> SUFFICES ASSUME \A k \in 0 .. 16 : ~Is(k) PROVE FALSE
  BY DEF IsPassed
<1>2. ASSUME NEW k \in 0 .. 15, k > 0 => today >= T(k) PROVE today >= T(k + 1)
  <2>1. ~Is(k) /\ k + 1 \in 1 .. 16
    OBVIOUS
  <2> HIDE DEF T
  <2> QED
    BY <1>1, <1>2, <2>1
<1> HIDE DEF T
<1>3. today >= T(1)
  BY <1>2
<1>4. today >= T(2) /\ today >= T(3) /\ today >= T(4) /\ today >= T(5)
  BY <1>2, <1>3
<1>5. today >= T(6) /\ today >= T(7) /\ today >= T(8) /\ today >= T(9)
  BY <1>2, <1>4
<1>6. today >= T(10) /\ today >= T(11) /\ today >= T(12) /\ today >= T(13)
  BY <1>2, <1>5
<1>7. today >= T(14) /\ today >= T(15) /\ today >= T(16)
  BY <1>2, <1>6
<1> QED
  BY <1>7

LEMMA HoursChange ==
  ASSUME NEW today \in Int, NEW leap \in BOOLEAN, NEW k \in 0 .. 16, NEW l \in 0 .. 16,
         IsPassed(k, today, leap), IsPassed(l, today + 1, leap)
  PROVE  LET change == HoursAfter(l) - HoursAfter(k)
         IN  /\ change \in {-1, 0, 1}
             /\ change = 1 => today < 182
             /\ change = -1 => today > 182
<1> DEFINE T(i) == Threshold(i, leap)
<1>1. \A i \in 1 .. 16 : T(i) \in Int
  BY DEF Threshold, thresholds
<1>2. \A i, j \in 1 .. 16 : i < j => T(i) < T(j)
  BY ThresholdsRise
<1>3. k > 0 => today >= T(k)
  BY DEF IsPassed
<1>4. k < 16 => today < T(k + 1)
  BY DEF IsPassed
<1>5. l > 0 => today + 1 >= T(l)
  BY DEF IsPassed
<1>6. l < 16 => today + 1 < T(l + 1)
  BY DEF IsPassed
<1> HIDE DEF T
<1>7. l >= k
  <2> SUFFICES ASSUME l < k PROVE FALSE
    OBVIOUS
  <2>1. l + 1 \in 1 .. 16 /\ k \in 1 .. 16 /\ l + 1 <= k
    OBVIOUS
  <2>2. T(l + 1) <= T(k)
    BY <1>1, <1>2, <2>1
  <2> QED
    BY <1>1, <1>3, <1>6, <2>1, <2>2
<1>8. l <= k + 1
  <2> SUFFICES ASSUME l > k + 1 PROVE FALSE
    OBVIOUS
  <2>1. k + 1 \in 1 .. 16 /\ l \in 1 .. 16 /\ k + 1 < l
    OBVIOUS
  <2>2. T(k + 1) < T(l)
    BY <1>2, <2>1
  <2> QED
    BY <1>1, <1>4, <1>5, <2>1, <2>2
<1>9. HoursAfter(k) \in Int
  BY DEF HoursAfter, allocations
<1>10. CASE l = k
  BY <1>9, <1>10
<1>11. CASE l = k + 1
  <2>1. k \in 0 .. 15 /\ today + 1 = T(k + 1)
    BY <1>1, <1>4, <1>5, <1>11
  <2>2. CASE k <= 7
    <3>1. HoursAfter(l) - HoursAfter(k) = 1
      BY <1>11, <2>1, <2>2 DEF HoursAfter, allocations
    <3>2. T(k + 1) <= 145
      BY <2>1, <2>2 DEF T, Threshold, thresholds
    <3> QED
      BY <1>1, <2>1, <3>1, <3>2
  <2>3. CASE k >= 8
    <3>1. HoursAfter(l) - HoursAfter(k) = -1
      BY <1>11, <2>1, <2>3 DEF HoursAfter, allocations
    <3>2. T(k + 1) >= 201
      BY <2>1, <2>3 DEF T, Threshold, thresholds
    <3> QED
      BY <1>1, <2>1, <3>1, <3>2
  <2> QED
    BY <2>1, <2>2, <2>3
<1> QED
  BY <1>7, <1>8, <1>10, <1>11

LEMMA HoursOf ==
  ASSUME NEW t, NEW k \in 0 .. 16, NEW today \in Int, NEW leap \in BOOLEAN,
         today = gregorian_day_of_year(t), leap = IsLeapYear(GregorianDate(t).year),
         IsPassed(k, today, leap)
  PROVE  historical_day_hours(t) = HoursAfter(k)
<1>1. /\ k > 0 => today >= Threshold(k, leap)
      /\ k < 16 => today < Threshold(k + 1, leap)
  BY DEF IsPassed
<1> QED
  BY <1>1, HoursAre

\* One day later.
LEMMA DayAfter ==
  ASSUME NEW t \in Int
  PROVE  LET today == gregorian_day_of_year(t)
             year == GregorianDate(t).year
             length == IF IsLeapYear(year) THEN 366 ELSE 365
         IN  /\ today \in Int /\ year \in Int
             /\ IF today = length
                THEN gregorian_day_of_year(t + DAY) = 1 /\ GregorianDate(t + DAY).year = year + 1
                ELSE gregorian_day_of_year(t + DAY) = today + 1 /\ GregorianDate(t + DAY).year = year
<1> DEFINE z == DayNumber(t)
           d == DayFromMarch(z)
           m == MarchYear(z)
           e == DayFromMarch(z + 1)
           n == MarchYear(z + 1)
<1>1. z \in Int
  BY DayOfYearIs
<1>2. t + DAY \in Int /\ DayNumber(t + DAY) = z + 1
  <2>1. DAY \in Nat \ {0}
    BY UnitsArePositive
  <2> DEFINE q == t \div DAY
             r == t % DAY
  <2>2. q \in Int /\ r \in Int /\ 0 <= r /\ r < DAY /\ t = q * DAY + r
    <3>1. q \in Int /\ r \in Int /\ 0 <= r /\ r < DAY
      BY <2>1
    <3>2. t = q * DAY + r
      BY <2>1
    <3> QED
      BY <3>1, <3>2
  <2> HIDE DEF q, r
  <2>3. t + DAY = (q + 1) * DAY + r /\ t + DAY \in Int /\ q + 1 \in Int
    BY <2>1, <2>2
  <2>4. (t + DAY) \div DAY = q + 1
    <3> DEFINE a == t + DAY
               p == q + 1
    <3>1. a \in Int /\ p \in Int /\ a = p * DAY + r
      BY <2>3
    <3> HIDE DEF a, p
    <3>2. a \div DAY = p
      BY <2>1, <2>2, <3>1, QuotientIs
    <3> QED
      BY <3>2 DEF a, p
  <2> QED
    BY <2>2, <2>3, <2>4 DEF DayNumber, floor_divide, q
<1>3. /\ m \in Int /\ d \in Int /\ 0 <= d /\ d <= 365 /\ (d = 365 => IsLeapYear(m + 1))
      /\ IF d = (IF IsLeapYear(m + 1) THEN 365 ELSE 364) THEN n = m + 1 /\ e = 0 ELSE n = m /\ e = d + 1
  BY <1>1, MarchDayIs, MarchDayAfter
<1>4. /\ GregorianDate(t).year = m + (IF d >= 306 THEN 1 ELSE 0)
      /\ gregorian_day_of_year(t) = IF d >= 306 THEN d - 305 ELSE d + 60 + (IF IsLeapYear(m) THEN 1 ELSE 0)
  BY DayOfYearIs
<1>5. /\ GregorianDate(t + DAY).year = n + (IF e >= 306 THEN 1 ELSE 0)
      /\ gregorian_day_of_year(t + DAY) = IF e >= 306 THEN e - 305 ELSE e + 60 + (IF IsLeapYear(n) THEN 1 ELSE 0)
  <2> HIDE DEF z
  <2> QED
    BY <1>2, DayOfYearIs
<1> HIDE DEF d, m, e, n
<1>6. CASE d < 305
  BY <1>3, <1>4, <1>5, <1>6
<1>7. CASE d = 305
  BY <1>3, <1>4, <1>5, <1>7
<1>8. CASE d > 305
  BY <1>3, <1>4, <1>5, <1>8
<1> QED
  BY <1>3, <1>6, <1>7, <1>8

\* In every year of the Gregorian calendar, before and after the first: from one day
\* to the next the day of the year goes on by one or begins again, and the hours of
\* the Great Clock change by one at most, up in the first half of the year and down
\* in the second.
THEOREM YearsAlwaysWhole == ClockSpec => YearsAreWhole
<1>1. ASSUME FaceTypes, ~SecondBySecond, Tick
      PROVE  LET today == gregorian_day_of_year(now)
                 length == IF IsLeapYear(GregorianDate(now).year) THEN 366 ELSE 365
                 change == historical_day_hours(now') - historical_day_hours(now)
             IN /\ gregorian_day_of_year(now') = (IF today = length THEN 1 ELSE today + 1)
                /\ GregorianDate(now').year = GregorianDate(now).year + (IF today = length THEN 1 ELSE 0)
                /\ change \in {-1, 0, 1}
                /\ change = 1 => today < 182
                /\ change = -1 => today > 182
  <2> DEFINE later == now + DAY
             today == gregorian_day_of_year(now)
             year == GregorianDate(now).year
             leap == IsLeapYear(year)
             length == IF leap THEN 366 ELSE 365
             tomorrow == gregorian_day_of_year(later)
             leapt == IsLeapYear(GregorianDate(later).year)
  <2>1. now \in Int /\ now' = later
    <3>1. /\ window.first \in Int /\ window.last \in Int /\ window.stride \in {1, DAY}
          /\ now \in Int /\ window.first <= now /\ now + window.stride <= window.last
          /\ now' = now + window.stride
      BY <1>1, FaceAssumption DEF FaceTypes, Tick
    <3>2. ~(window.stride = 1 /\ window.first < window.last)
      BY <1>1 DEF SecondBySecond
    <3>3. window.stride = 1 => window.first < window.last
      BY <3>1
    <3> QED
      BY <3>1, <3>2, <3>3
  <2>2. /\ today \in Int /\ year \in Int
        /\ IF today = length THEN tomorrow = 1 /\ GregorianDate(later).year = year + 1
           ELSE tomorrow = today + 1 /\ GregorianDate(later).year = year
    BY <2>1, DayAfter
  <2>3. leap \in BOOLEAN /\ leapt \in BOOLEAN /\ tomorrow \in Int
    <3>1. \A y : IsLeapYear(y) \in BOOLEAN
      BY DEF IsLeapYear
    <3> HIDE DEF today, length, year, tomorrow
    <3> QED
      BY <2>2, <3>1
  <2>4. PICK k \in 0 .. 16 : IsPassed(k, today, leap)
    <3> HIDE DEF today, leap
    <3> QED
      BY <2>2, <2>3, HoursExist
  <2>5. PICK l \in 0 .. 16 : IsPassed(l, tomorrow, leapt)
    <3> HIDE DEF tomorrow, leapt
    <3> QED
      BY <2>3, HoursExist
  <2>6. historical_day_hours(now) = HoursAfter(k) /\ historical_day_hours(later) = HoursAfter(l)
    BY <2>2, <2>3, <2>4, <2>5, HoursOf
  <2> DEFINE change == HoursAfter(l) - HoursAfter(k)
  <2>7. change \in {-1, 0, 1} /\ (change = 1 => today < 182) /\ (change = -1 => today > 182)
    <3>1. CASE today = length
      <4>1. k = 16
        <5>1. \A j \in 1 .. 16 : Threshold(j, leap) < 365 /\ Threshold(j, leap) \in Int
          BY <2>3 DEF Threshold, thresholds
        <5>2. today >= 365
          BY <3>1
        <5> HIDE DEF today, leap
        <5> QED
          BY <2>2, <2>4, <5>1, <5>2 DEF IsPassed
      <4>2. l = 0
        <5>1. \A j \in 1 .. 16 : Threshold(j, leapt) > 1 /\ Threshold(j, leapt) \in Int
          BY <2>3 DEF Threshold, thresholds
        <5>2. tomorrow = 1
          BY <2>2, <3>1
        <5> HIDE DEF tomorrow, leapt
        <5> QED
          BY <2>5, <5>1, <5>2 DEF IsPassed
      <4> QED
        BY <4>1, <4>2 DEF HoursAfter, allocations
    <3>2. CASE today # length
      <4>1. tomorrow = today + 1 /\ leapt = leap
        BY <2>2, <3>2
      <4> HIDE DEF today, tomorrow, leap, leapt, change
      <4>2. IsPassed(l, today + 1, leap)
        BY <2>5, <4>1
      <4> QED
        BY <2>2, <2>3, <2>4, <4>2, HoursChange DEF change
    <3> QED
      BY <3>1, <3>2
  <2>8. /\ tomorrow = (IF today = length THEN 1 ELSE today + 1)
        /\ GregorianDate(later).year = year + (IF today = length THEN 1 ELSE 0)
    BY <2>2
  <2> HIDE DEF later
  <2> QED
    BY <2>1, <2>6, <2>7, <2>8
<1> QED
  BY <1>1, FaceStaysTyped, PTL DEF ClockSpec, YearsAreWhole

(* Presentations.                                                            *)

HolderFiles == Files \cup {NoFile}

Types ==
  /\ disk \in [Files -> Images \cup {NoImage}]
  /\ loaded \in [Files -> Images \cup {NoImage}]
  /\ references \in [Files -> Nat] /\ lost \in [Files -> Nat]
  /\ step \in [Consumers -> {"idle", "scan", "bind", "ready"}]
  /\ wanted = [c \in Consumers |-> wanted[c]] /\ shown = [c \in Consumers |-> shown[c]]
  /\ unread \in [Consumers -> SUBSET DOMAIN FileOrder]
  /\ path \in [Consumers -> HolderFiles]
  /\ handle \in [Consumers -> HolderFiles]

Holders(h, f) == {c \in Consumers : h[c] = f}

\* The loader's count of a file, and what it has of it.
Balanced ==
  \A f \in Files : /\ references[f] = Cardinality(Holders(handle, f)) + lost[f]
                   /\ loaded[f] # NoImage <=> references[f] > 0

\* How far a consumer is: one that binds a module has it open, one that is ready
\* has open the module it asked for, or asked for a compiled mode.
Stands(c) ==
  /\ step[c] = "idle" => handle[c] = NoFile
  /\ step[c] = "bind" => handle[c] # NoFile
  /\ step[c] = "ready" =>
       IF handle[c] = NoFile THEN ~NeedsModule(wanted[c])
       ELSE loaded[handle[c]].id = wanted[c]

\* Something is shown only where the consumer is ready, and a module's text only
\* while its handle is open.
ShownIs(c) ==
  LET s == shown[c]
  IN \/ s = Nothing
     \/ /\ step[c] = "ready" /\ s.mode = wanted[c]
        /\ s.image = NoImage =>
             /\ s.mode \in Modes \ NativeModes
             /\ NeedsPlace(s.mode) => s.configured
        /\ s.image # NoImage =>
             /\ s.image.id = s.mode
             /\ s.image.place => s.configured
             /\ handle[c] # NoFile /\ s.image = loaded[handle[c]]

PresentationInv == Types /\ Balanced /\ \A c \in Consumers : Stands(c) /\ ShownIs(c)

LEMMA InvImplies == PresentationInv => HandlesAreBalanced /\ ShownIsOfItsMode
<1> SUFFICES ASSUME PresentationInv PROVE HandlesAreBalanced /\ ShownIsOfItsMode
  OBVIOUS
<1>1. HandlesAreBalanced
  BY DEF PresentationInv, Types, Balanced, Holders, Stands, HandlesAreBalanced
<1>2. ShownIsOfItsMode
  BY DEF PresentationInv, ShownIs, ShownIsOfItsMode
<1> QED
  BY <1>1, <1>2

LEMMA Distinct == NoFile \notin Files /\ NoImage \notin Images /\ IsFiniteSet(Consumers)
BY PresentationAssumption DEF Files

(* Who holds a file.                                                         *)

LEMMA HoldersAreFinite ==
  ASSUME NEW h, NEW f
  PROVE  IsFiniteSet(Holders(h, f)) /\ Cardinality(Holders(h, f)) \in Nat
<1>1. Holders(h, f) \in SUBSET Consumers
  BY DEF Holders
<1>2. IsFiniteSet(Holders(h, f))
  BY <1>1, Distinct, FS_Subset
<1> QED
  BY <1>2, FS_CardinalityType

LEMMA HolderAdded ==
  ASSUME NEW h \in [Consumers -> HolderFiles], NEW c \in Consumers, NEW f \in Files,
         h[c] = NoFile, NEW g \in Files
  PROVE  Cardinality(Holders([h EXCEPT ![c] = f], g))
           = Cardinality(Holders(h, g)) + (IF g = f THEN 1 ELSE 0)
<1>1. CASE g = f
  <2>1. Holders([h EXCEPT ![c] = f], g) = Holders(h, g) \cup {c}
    BY <1>1 DEF Holders
  <2>2. c \notin Holders(h, g)
    BY Distinct DEF Holders
  <2> QED
    BY <1>1, <2>1, <2>2, HoldersAreFinite, FS_AddElement
<1>2. CASE g # f
  <2>1. Holders([h EXCEPT ![c] = f], g) = Holders(h, g)
    BY <1>2, Distinct DEF Holders
  <2> QED
    BY <1>2, <2>1, HoldersAreFinite
<1> QED
  BY <1>1, <1>2

LEMMA HolderRemoved ==
  ASSUME NEW h \in [Consumers -> HolderFiles], NEW c \in Consumers, NEW f \in Files,
         h[c] = f, NEW g \in Files
  PROVE  /\ Cardinality(Holders([h EXCEPT ![c] = NoFile], g))
              = Cardinality(Holders(h, g)) - (IF g = f THEN 1 ELSE 0)
         /\ Cardinality(Holders([h EXCEPT ![c] = NoFile], g)) \in Nat
<1>1. Cardinality(Holders([h EXCEPT ![c] = NoFile], g)) \in Nat
  BY HoldersAreFinite
<1>2. CASE g = f
  <2>1. Holders([h EXCEPT ![c] = NoFile], g) = Holders(h, g) \ {c}
    BY <1>2, Distinct DEF Holders
  <2>2. c \in Holders(h, g)
    BY <1>2 DEF Holders
  <2> QED
    BY <1>1, <1>2, <2>1, <2>2, HoldersAreFinite, FS_RemoveElement
<1>3. CASE g # f
  <2>1. Holders([h EXCEPT ![c] = NoFile], g) = Holders(h, g)
    BY <1>3, Distinct DEF Holders
  <2> QED
    BY <1>1, <1>3, <2>1
<1> QED
  BY <1>1, <1>2, <1>3

LEMMA SomeHolder ==
  ASSUME NEW h \in [Consumers -> HolderFiles], NEW c \in Consumers
  PROVE  Cardinality(Holders(h, h[c])) >= 1
<1>1. c \in Holders(h, h[c])
  BY DEF Holders
<1> QED
  BY <1>1, HoldersAreFinite, FS_EmptySet

(* What one consumer does with its handle, the others keep.                  *)

\* What is open is loaded.
LEMMA OpenIsLoaded ==
  ASSUME Types, Balanced, NEW c \in Consumers, handle[c] # NoFile
  PROVE  /\ handle[c] \in Files /\ references[handle[c]] > 0
         /\ loaded[handle[c]] \in Images /\ loaded[handle[c]] # NoImage
<1>1. handle[c] \in Files
  BY DEF Types, HolderFiles
<1>2. references[handle[c]] = Cardinality(Holders(handle, handle[c])) + lost[handle[c]]
  BY <1>1 DEF Balanced
<1>3. Cardinality(Holders(handle, handle[c])) >= 1
  BY SomeHolder DEF Types
<1>4. Cardinality(Holders(handle, handle[c])) \in Nat /\ lost[handle[c]] \in Nat
  BY <1>1, HoldersAreFinite DEF Types
<1>5. references[handle[c]] > 0
  BY <1>2, <1>3, <1>4
<1> QED
  BY <1>1, <1>5 DEF Balanced, Types

Loader ==
  /\ loaded' \in [Files -> Images \cup {NoImage}]
  /\ references' \in [Files -> Nat] /\ lost' \in [Files -> Nat]
  /\ handle' \in [Consumers -> HolderFiles]

LEMMA OpenKeeps ==
  ASSUME Types, Balanced, NEW c \in Consumers, NEW f \in Files,
         handle[c] = NoFile, Loads(f), Open(c, f)
  PROVE  /\ Loader /\ Balanced'
         /\ \A d \in Consumers : handle[d] # NoFile =>
              handle'[d] = handle[d] /\ loaded'[handle[d]] = loaded[handle[d]]
         /\ handle' = [handle EXCEPT ![c] = f]
<1>2. handle' = [handle EXCEPT ![c] = f] /\ handle' \in [Consumers -> HolderFiles]
  BY DEF Open, Types, HolderFiles
<1>3. Seen(f) \in Images
  BY DEF Loads, Seen, Types
<1>4. loaded' \in [Files -> Images \cup {NoImage}] /\ references' \in [Files -> Nat]
      /\ lost' \in [Files -> Nat]
  BY <1>3 DEF Open, Types
<1>5. ASSUME NEW g \in Files
      PROVE  /\ references'[g] = Cardinality(Holders(handle', g)) + lost'[g]
             /\ loaded'[g] # NoImage <=> references'[g] > 0
  <2>1. Cardinality(Holders(handle', g)) = Cardinality(Holders(handle, g)) + (IF g = f THEN 1 ELSE 0)
    <3>1. handle \in [Consumers -> HolderFiles]
      BY DEF Types
    <3>2. Cardinality(Holders([handle EXCEPT ![c] = f], g))
            = Cardinality(Holders(handle, g)) + (IF g = f THEN 1 ELSE 0)
      BY <3>1, HolderAdded
    <3> QED
      BY <1>2, <3>2
  <2>2. Cardinality(Holders(handle, g)) \in Nat /\ references[g] \in Nat /\ lost[g] \in Nat
    BY HoldersAreFinite DEF Types
  <2>3. references[g] = Cardinality(Holders(handle, g)) + lost[g]
        /\ (loaded[g] # NoImage <=> references[g] > 0)
    BY DEF Balanced
  <2>4. CASE g = f
    BY <2>1, <2>2, <2>3, <2>4, <1>3, Distinct DEF Open, Types
  <2>5. CASE g # f
    BY <2>1, <2>2, <2>3, <2>5 DEF Open, Types
  <2> QED
    BY <2>4, <2>5
<1>6. ASSUME NEW d \in Consumers, handle[d] # NoFile
      PROVE  handle'[d] = handle[d] /\ loaded'[handle[d]] = loaded[handle[d]]
  <2>1. d # c
    BY <1>6
  <2>2. handle[d] \in Files /\ references[handle[d]] > 0
    BY <1>6, OpenIsLoaded
  <2> QED
    BY <2>1, <2>2 DEF Open, Types, Seen
<1> QED
  BY <1>2, <1>4, <1>5, <1>6 DEF Balanced, Loader

LEMMA CloseKeeps ==
  ASSUME Types, Balanced, NEW c \in Consumers, handle[c] # NoFile, Close(c)
  PROVE  /\ Loader /\ Balanced'
         /\ \A d \in Consumers : handle[d] # NoFile /\ d # c =>
              handle'[d] = handle[d] /\ loaded'[handle[d]] = loaded[handle[d]]
         /\ handle' = [handle EXCEPT ![c] = NoFile]
<1> DEFINE f == handle[c]
<1>2. f \in Files /\ references[f] > 0
  BY OpenIsLoaded
<1>3. handle' = [handle EXCEPT ![c] = NoFile] /\ handle' \in [Consumers -> HolderFiles]
  BY DEF Close, Types, HolderFiles
<1>4. references' \in [Files -> Nat]
  BY <1>2 DEF Close, Types
<1>5. loaded' \in [Files -> Images \cup {NoImage}]
  BY DEF Close, Types
<1>6. lost' \in [Files -> Nat]
  BY DEF Close, Types
<1>7. ASSUME NEW g \in Files
      PROVE  /\ references'[g] = Cardinality(Holders(handle', g)) + lost'[g]
             /\ loaded'[g] # NoImage <=> references'[g] > 0
  <2>1. /\ Cardinality(Holders(handle', g)) = Cardinality(Holders(handle, g)) - (IF g = f THEN 1 ELSE 0)
        /\ Cardinality(Holders(handle', g)) \in Nat
    <3>1. handle \in [Consumers -> HolderFiles]
      BY DEF Types
    <3> QED
      BY <1>2, <1>3, <3>1, HolderRemoved
  <2>2. Cardinality(Holders(handle, g)) \in Nat /\ references[g] \in Nat /\ lost[g] \in Nat
    BY HoldersAreFinite DEF Types
  <2>3. references[g] = Cardinality(Holders(handle, g)) + lost[g]
        /\ (loaded[g] # NoImage <=> references[g] > 0)
    BY DEF Balanced
  <2>4. CASE g = f
    BY <1>2, <2>1, <2>2, <2>3, <2>4 DEF Close, Types
  <2>5. CASE g # f
    BY <2>1, <2>2, <2>3, <2>5 DEF Close, Types
  <2> QED
    BY <2>4, <2>5
<1>8. ASSUME NEW d \in Consumers, handle[d] # NoFile, d # c
      PROVE  handle'[d] = handle[d] /\ loaded'[handle[d]] = loaded[handle[d]]
  <2>1. handle'[d] = handle[d]
    BY <1>8, <1>3 DEF Types
  <2>2. handle[d] \in Files
    BY <1>8, OpenIsLoaded
  <2>3. CASE handle[d] = f
    <3>1. Cardinality(Holders(handle', f)) >= 1
      BY <2>1, <2>3, <1>3, SomeHolder
    <3> HIDE DEF f
    <3>2. Cardinality(Holders(handle', f)) = Cardinality(Holders(handle, f)) - 1
      <4>1. handle \in [Consumers -> HolderFiles] /\ handle[c] = f
        BY DEF Types, f
      <4>2. Cardinality(Holders([handle EXCEPT ![c] = NoFile], f)) = Cardinality(Holders(handle, f)) - 1
        BY <1>2, <4>1, HolderRemoved
      <4> QED
        BY <1>3, <4>2
    <3>3. references[f] = Cardinality(Holders(handle, f)) + lost[f] /\ lost[f] \in Nat
      BY <1>2 DEF Balanced, Types
    <3>4. Cardinality(Holders(handle, f)) \in Nat
      BY HoldersAreFinite
    <3>5. references[f] # 1
      BY <3>1, <3>2, <3>3, <3>4
    <3> QED
      BY <2>1, <2>3, <3>5, <1>2 DEF Close, Types, f
  <2>4. CASE handle[d] # f
    BY <2>2, <2>4 DEF Close, Types
  <2> QED
    BY <2>1, <2>3, <2>4
<1> QED
  BY <1>3, <1>4, <1>5, <1>6, <1>7, <1>8 DEF Balanced, Loader

(* The steps.                                                                *)

\* A consumer that takes no part keeps its place.
LEMMA OthersStand ==
  ASSUME NEW d \in Consumers, Stands(d), ShownIs(d),
         step'[d] = step[d], wanted'[d] = wanted[d], shown'[d] = shown[d], handle'[d] = handle[d],
         handle[d] # NoFile => loaded'[handle[d]] = loaded[handle[d]]
  PROVE  Stands(d)' /\ ShownIs(d)'
<1>1. Stands(d)'
  BY DEF Stands
<1>2. ShownIs(d)'
  BY DEF ShownIs
<1> QED
  BY <1>1, <1>2

LEMMA KeptHandles == Types /\ Balanced /\ KeepHandles => Loader /\ Balanced'
BY DEF Types, Balanced, KeepHandles, Loader, Holders

\* One consumer steps: what is left to show for each of its actions.
LEMMA OneConsumer ==
  ASSUME PresentationInv, NEW c \in Consumers, Loader, Balanced',
         disk' \in [Files -> Images \cup {NoImage}],
         \E s \in {"idle", "scan", "bind", "ready"} : step' = [step EXCEPT ![c] = s],
         \E w : wanted' = [wanted EXCEPT ![c] = w],
         \E v : shown' = [shown EXCEPT ![c] = v],
         \E u \in SUBSET DOMAIN FileOrder : unread' = [unread EXCEPT ![c] = u],
         \E p \in HolderFiles : path' = [path EXCEPT ![c] = p],
         \A d \in Consumers : d # c =>
           /\ handle'[d] = handle[d]
           /\ handle[d] # NoFile => loaded'[handle[d]] = loaded[handle[d]],
         Stands(c)', ShownIs(c)'
  PROVE  PresentationInv'
<1>1. Types'
  <2>1. Types
    BY DEF PresentationInv
  <2>2. wanted' = [d \in Consumers |-> wanted'[d]]
    BY <2>1, Zenon DEF Types
  <2>3. shown' = [d \in Consumers |-> shown'[d]]
    BY <2>1, Zenon DEF Types
  <2>4. unread' \in [Consumers -> SUBSET DOMAIN FileOrder]
    BY <2>1 DEF Types
  <2>5. step' \in [Consumers -> {"idle", "scan", "bind", "ready"}] /\ path' \in [Consumers -> HolderFiles]
    BY <2>1 DEF Types
  <2> QED
    BY <2>2, <2>3, <2>4, <2>5 DEF Types, Loader
<1>2. ASSUME NEW d \in Consumers, d # c PROVE Stands(d)' /\ ShownIs(d)'
  <2>1. step'[d] = step[d] /\ wanted'[d] = wanted[d] /\ shown'[d] = shown[d]
    BY <1>2 DEF PresentationInv, Types
  <2>2. Stands(d) /\ ShownIs(d)
    BY DEF PresentationInv
  <2> QED
    BY <1>2, <2>1, <2>2, OthersStand
<1> QED
  BY <1>1, <1>2 DEF PresentationInv

LEMMA InitOfPresentation == PresentationInit => PresentationInv
<1> SUFFICES ASSUME PresentationInit PROVE PresentationInv
  OBVIOUS
<1>1. Types
  BY DEF PresentationInit, Types, HolderFiles
<1>2. ASSUME NEW f \in Files PROVE Holders(handle, f) = {}
  BY Distinct DEF PresentationInit, Holders
<1>3. Balanced
  BY <1>2, FS_EmptySet DEF PresentationInit, Balanced
<1>4. ASSUME NEW c \in Consumers PROVE Stands(c) /\ ShownIs(c)
  BY DEF PresentationInit, Stands, ShownIs
<1> QED
  BY <1>1, <1>3, <1>4 DEF PresentationInv

LEMMA SelectKeeps ==
  ASSUME PresentationInv, NEW c \in Consumers, NEW id, Select(c, id)
  PROVE  PresentationInv'
<1>1. Types /\ Balanced /\ Stands(c) /\ ShownIs(c)
  BY DEF PresentationInv
<1>2. Loader /\ Balanced'
  BY <1>1, KeptHandles DEF Select
<1>3. handle[c] = NoFile /\ shown[c] = Nothing
  BY <1>1 DEF Select, Stands, ShownIs
<1>4. Stands(c)'
  BY <1>1, <1>3 DEF Select, Stands, KeepHandles, Types
<1>5. ShownIs(c)'
  BY <1>1, <1>3 DEF Select, ShownIs, Types
<1>6. /\ \E s \in {"idle", "scan", "bind", "ready"} : step' = [step EXCEPT ![c] = s]
      /\ \E u \in SUBSET DOMAIN FileOrder : unread' = [unread EXCEPT ![c] = u]
  <2>1. {i \in DOMAIN FileOrder : disk[FileOrder[i]] # NoImage} \in SUBSET DOMAIN FileOrder
    OBVIOUS
  <2> QED
    BY <2>1, Zenon DEF Select
<1>7. path' = [path EXCEPT ![c] = path[c]] /\ shown' = [shown EXCEPT ![c] = shown[c]]
  BY <1>1 DEF Select, Types
<1> QED
  BY <1>1, <1>2, <1>4, <1>5, <1>6, <1>7, OneConsumer DEF Select, KeepHandles, Types

LEMMA InspectKeeps ==
  ASSUME PresentationInv, NEW c \in Consumers, Inspect(c)
  PROVE  PresentationInv'
<1>1. Types /\ Balanced /\ Stands(c) /\ ShownIs(c)
  BY DEF PresentationInv
<1>2. PICK i \in unread[c] : /\ unread' = [unread EXCEPT ![c] = @ \ {i}]
                             /\ IF Loads(FileOrder[i]) THEN Open(c, FileOrder[i]) ELSE KeepHandles
  BY DEF Inspect
<1>3. FileOrder[i] \in Files /\ unread[c] \ {i} \in SUBSET DOMAIN FileOrder
  BY <1>1 DEF Types, Files
<1>4. /\ Loader /\ Balanced'
      /\ \A d \in Consumers : handle[d] # NoFile =>
           handle'[d] = handle[d] /\ loaded'[handle[d]] = loaded[handle[d]]
      /\ \A d \in Consumers : d # c => handle'[d] = handle[d]
  <2>1. CASE Loads(FileOrder[i])
    <3>1. Open(c, FileOrder[i]) /\ handle[c] = NoFile
      BY <1>2, <2>1 DEF Inspect
    <3> QED
      BY <1>1, <1>3, <2>1, <3>1, OpenKeeps DEF Types
  <2>2. CASE ~Loads(FileOrder[i])
    BY <1>1, <1>2, <2>2, KeptHandles DEF KeepHandles
  <2> QED
    BY <2>1, <2>2
<1>5. step[c] = "scan" /\ step' = step /\ wanted' = wanted /\ shown' = shown /\ path' = path /\ disk' = disk
  BY DEF Inspect
<1>6. Stands(c)'
  BY <1>5 DEF Stands
<1>7. ShownIs(c)'
  BY <1>1, <1>5 DEF ShownIs
<1>8. /\ step' = [step EXCEPT ![c] = step[c]] /\ wanted' = [wanted EXCEPT ![c] = wanted[c]]
      /\ path' = [path EXCEPT ![c] = path[c]] /\ shown' = [shown EXCEPT ![c] = shown[c]]
      /\ unread' = [unread EXCEPT ![c] = unread[c] \ {i}]
      /\ step[c] \in {"idle", "scan", "bind", "ready"} /\ path[c] \in HolderFiles
      /\ disk' \in [Files -> Images \cup {NoImage}]
  BY <1>1, <1>2, <1>5 DEF Types
<1> QED
  BY <1>3, <1>4, <1>6, <1>7, <1>8, OneConsumer

LEMMA LeaveKeeps ==
  ASSUME PresentationInv, NEW c \in Consumers, Leave(c)
  PROVE  PresentationInv'
<1>1. Types /\ Balanced /\ Stands(c) /\ ShownIs(c)
  BY DEF PresentationInv
<1>2. handle[c] # NoFile /\ Close(c) /\ step[c] = "scan"
  BY DEF Leave
<1>3. /\ Loader /\ Balanced'
      /\ \A d \in Consumers : handle[d] # NoFile /\ d # c =>
           handle'[d] = handle[d] /\ loaded'[handle[d]] = loaded[handle[d]]
      /\ handle' = [handle EXCEPT ![c] = NoFile]
  BY <1>1, <1>2, CloseKeeps
<1>4. step' = step /\ wanted' = wanted /\ shown' = shown /\ unread' = unread /\ disk' = disk
  BY DEF Leave
<1>5. Stands(c)'
  BY <1>2, <1>4 DEF Stands
<1>6. ShownIs(c)'
  BY <1>1, <1>2, <1>4 DEF ShownIs
<1>7. \E p \in HolderFiles : path' = [path EXCEPT ![c] = p]
  <2>1. path[c] \in HolderFiles /\ handle[c] \in HolderFiles /\ path = [path EXCEPT ![c] = path[c]]
    BY <1>1 DEF Types
  <2> QED
    BY <2>1 DEF Leave
<1>8. /\ step' = [step EXCEPT ![c] = step[c]] /\ wanted' = [wanted EXCEPT ![c] = wanted[c]]
      /\ shown' = [shown EXCEPT ![c] = shown[c]] /\ unread' = [unread EXCEPT ![c] = unread[c]]
      /\ step[c] \in {"idle", "scan", "bind", "ready"} /\ unread[c] \in SUBSET DOMAIN FileOrder
      /\ disk' \in [Files -> Images \cup {NoImage}]
  BY <1>1, <1>4 DEF Types
<1>9. \A d \in Consumers : d # c => handle'[d] = handle[d]
  BY <1>1, <1>3 DEF Types
<1> QED
  BY <1>3, <1>5, <1>6, <1>7, <1>8, <1>9, OneConsumer

LEMMA OpenFoundKeeps ==
  ASSUME PresentationInv, NEW c \in Consumers, OpenFound(c)
  PROVE  PresentationInv'
<1>1. Types /\ Balanced /\ Stands(c) /\ ShownIs(c)
  BY DEF PresentationInv
<1>2. handle[c] = NoFile /\ step[c] = "scan" /\ shown[c] = Nothing
  BY <1>1 DEF OpenFound, EndOfScan, ShownIs
<1>3. /\ Loader /\ Balanced'
      /\ \A d \in Consumers : handle[d] # NoFile =>
           handle'[d] = handle[d] /\ loaded'[handle[d]] = loaded[handle[d]]
      /\ \A d \in Consumers : d # c => handle'[d] = handle[d]
      /\ \E s \in {"idle", "scan", "bind", "ready"} :
           /\ step' = [step EXCEPT ![c] = s]
           /\ s \in {"bind", "idle"} /\ (s = "bind" <=> handle'[c] # NoFile)
  <2>1. CASE path[c] # NoFile /\ Loads(path[c])
    <3>1. Open(c, path[c]) /\ path[c] \in Files /\ step' = [step EXCEPT ![c] = "bind"]
      BY <1>1, <2>1 DEF OpenFound, Types, HolderFiles
    <3>2. /\ Loader /\ Balanced' /\ handle' = [handle EXCEPT ![c] = path[c]]
          /\ \A d \in Consumers : handle[d] # NoFile =>
               handle'[d] = handle[d] /\ loaded'[handle[d]] = loaded[handle[d]]
      BY <1>1, <1>2, <2>1, <3>1, OpenKeeps
    <3>3. handle'[c] # NoFile /\ \A d \in Consumers : d # c => handle'[d] = handle[d]
      BY <1>1, <3>1, <3>2, Distinct DEF Types
    <3>4. \E s \in {"idle", "scan", "bind", "ready"} :
             /\ step' = [step EXCEPT ![c] = s]
             /\ s \in {"bind", "idle"} /\ (s = "bind" <=> handle'[c] # NoFile)
      <4> WITNESS "bind" \in {"idle", "scan", "bind", "ready"}
      <4> QED
        BY <3>1, <3>3
    <3> QED
      BY <3>2, <3>3, <3>4, Zenon
  <2>2. CASE ~(path[c] # NoFile /\ Loads(path[c]))
    <3>1. KeepHandles /\ step' = [step EXCEPT ![c] = "idle"]
      BY <2>2 DEF OpenFound
    <3>2. Loader /\ Balanced'
      BY <1>1, <3>1, KeptHandles
    <3> QED
      BY <1>2, <3>1, <3>2 DEF KeepHandles
  <2> QED
    BY <2>1, <2>2
<1>4. step'[c] \in {"bind", "idle"} /\ (step'[c] = "bind" <=> handle'[c] # NoFile)
  BY <1>1, <1>3 DEF Types
<1>5. wanted' = wanted /\ shown' = shown /\ unread' = unread /\ disk' = disk
      /\ path' = [path EXCEPT ![c] = NoFile]
  BY DEF OpenFound
<1>6. Stands(c)'
  BY <1>4 DEF Stands
<1>7. ShownIs(c)'
  BY <1>2, <1>5 DEF ShownIs
<1>8. /\ wanted' = [wanted EXCEPT ![c] = wanted[c]]
      /\ shown' = [shown EXCEPT ![c] = shown[c]] /\ unread' = [unread EXCEPT ![c] = unread[c]]
      /\ unread[c] \in SUBSET DOMAIN FileOrder /\ NoFile \in HolderFiles
      /\ disk' \in [Files -> Images \cup {NoImage}]
  BY <1>1, <1>5 DEF Types, HolderFiles
<1> QED
  BY <1>3, <1>5, <1>6, <1>7, <1>8, OneConsumer

LEMMA FailScanKeeps ==
  ASSUME PresentationInv, NEW c \in Consumers, FailScan(c)
  PROVE  PresentationInv'
<1>1. Types /\ Balanced /\ Stands(c) /\ ShownIs(c)
  BY DEF PresentationInv
<1>2. /\ handle[c] = NoFile /\ shown[c] = Nothing /\ KeepHandles
      /\ step' = [step EXCEPT ![c] = "idle"] /\ unread' = [unread EXCEPT ![c] = {}]
      /\ path' = [path EXCEPT ![c] = NoFile] /\ disk' = disk /\ wanted' = wanted /\ shown' = shown
  BY <1>1 DEF FailScan, ShownIs
<1>3. Loader /\ Balanced'
  BY <1>1, <1>2, KeptHandles
<1>4. step'[c] = "idle" /\ handle'[c] = NoFile /\ shown'[c] = Nothing
  BY <1>1, <1>2 DEF KeepHandles, Types
<1>5. Stands(c)' /\ ShownIs(c)'
  BY <1>4 DEF Stands, ShownIs
<1>6. /\ wanted' = [wanted EXCEPT ![c] = wanted[c]] /\ shown' = [shown EXCEPT ![c] = shown[c]]
      /\ {} \in SUBSET DOMAIN FileOrder /\ NoFile \in HolderFiles
      /\ disk' \in [Files -> Images \cup {NoImage}]
      /\ handle' = handle /\ loaded' = loaded
  BY <1>1, <1>2 DEF Types, HolderFiles, KeepHandles
<1> QED
  BY <1>2, <1>3, <1>5, <1>6, OneConsumer

LEMMA BindKeeps ==
  ASSUME PresentationInv, NEW c \in Consumers, Bind(c)
  PROVE  PresentationInv'
<1>1. Types /\ Balanced /\ Stands(c) /\ ShownIs(c)
  BY DEF PresentationInv
<1>2. /\ handle[c] # NoFile /\ shown[c] = Nothing /\ step[c] = "bind"
      /\ disk' = disk /\ wanted' = wanted /\ shown' = shown /\ unread' = unread /\ path' = path
  BY <1>1 DEF Bind, ShownIs, Stands
<1>3. /\ wanted' = [wanted EXCEPT ![c] = wanted[c]] /\ shown' = [shown EXCEPT ![c] = shown[c]]
      /\ unread' = [unread EXCEPT ![c] = unread[c]] /\ path' = [path EXCEPT ![c] = path[c]]
      /\ unread[c] \in SUBSET DOMAIN FileOrder /\ path[c] \in HolderFiles
      /\ disk' \in [Files -> Images \cup {NoImage}]
  BY <1>1, <1>2 DEF Types
<1>4. ShownIs(c)'
  BY <1>2 DEF ShownIs
<1>5. CASE IsWanted(c, loaded[handle[c]]) /\ step' = [step EXCEPT ![c] = "ready"] /\ KeepHandles
  <2>1. Loader /\ Balanced'
    BY <1>1, <1>5, KeptHandles
  <2>2. step'[c] = "ready" /\ handle' = handle /\ loaded' = loaded /\ loaded[handle[c]].id = wanted[c]
    BY <1>1, <1>5 DEF Types, KeepHandles, IsWanted
  <2>3. Stands(c)'
    BY <1>2, <2>2 DEF Stands
  <2> QED
    BY <1>3, <1>4, <1>5, <2>1, <2>2, <2>3, OneConsumer
<1>6. CASE step' = [step EXCEPT ![c] = "idle"] /\ Close(c)
  <2>1. /\ Loader /\ Balanced'
        /\ \A d \in Consumers : handle[d] # NoFile /\ d # c =>
             handle'[d] = handle[d] /\ loaded'[handle[d]] = loaded[handle[d]]
        /\ handle' = [handle EXCEPT ![c] = NoFile]
    BY <1>1, <1>2, <1>6, CloseKeeps
  <2>2. step'[c] = "idle" /\ handle'[c] = NoFile /\ \A d \in Consumers : d # c => handle'[d] = handle[d]
    BY <1>1, <1>6, <2>1 DEF Types
  <2>3. Stands(c)'
    BY <2>2 DEF Stands
  <2> QED
    BY <1>3, <1>4, <1>6, <2>1, <2>2, <2>3, OneConsumer
<1> QED
  BY <1>5, <1>6 DEF Bind

LEMMA FormatKeeps ==
  ASSUME PresentationInv, NEW c \in Consumers, NEW configured, NEW finite, NEW fine,
         Format(c, configured, finite, fine)
  PROVE  PresentationInv'
<1> DEFINE image == IF HasModule(c) THEN loaded[handle[c]] ELSE NoImage
           value == IF HasModule(c) THEN Text(c) ELSE Reading(sky, wanted[c], now, 0, fine)
           new == IF Allowed(c, configured, finite) /\ value # Refused
                  THEN [mode |-> wanted[c], image |-> image, configured |-> configured, value |-> value]
                  ELSE shown[c]
<1>1. Types /\ Balanced /\ Stands(c) /\ ShownIs(c)
  BY DEF PresentationInv
<1>2. /\ step[c] = "ready" /\ KeepHandles
      /\ disk' = disk /\ wanted' = wanted /\ step' = step /\ unread' = unread /\ path' = path
      /\ shown' = [shown EXCEPT ![c] = new]
  BY DEF Format
<1>3. /\ wanted' = [wanted EXCEPT ![c] = wanted[c]] /\ step' = [step EXCEPT ![c] = step[c]]
      /\ unread' = [unread EXCEPT ![c] = unread[c]] /\ path' = [path EXCEPT ![c] = path[c]]
      /\ unread[c] \in SUBSET DOMAIN FileOrder /\ path[c] \in HolderFiles
      /\ step[c] \in {"idle", "scan", "bind", "ready"}
      /\ disk' \in [Files -> Images \cup {NoImage}]
      /\ handle' = handle /\ loaded' = loaded
  BY <1>1, <1>2 DEF Types, KeepHandles
<1>4. Loader /\ Balanced'
  BY <1>1, <1>2, KeptHandles
<1>5. shown'[c] = new
  BY <1>1, <1>2 DEF Types
<1>6. Stands(c)'
  BY <1>1, <1>2, <1>3 DEF Stands
<1>7. ShownIs(c)'
  <2>1. CASE new = shown[c]
    BY <1>1, <1>2, <1>3, <1>5, <2>1 DEF ShownIs
  <2>2. CASE /\ Allowed(c, configured, finite) /\ HasModule(c)
             /\ new = [mode |-> wanted[c], image |-> image, configured |-> configured, value |-> value]
    <3>1. loaded[handle[c]] # NoImage /\ image = loaded[handle[c]] /\ handle[c] # NoFile
      BY <1>1, <2>2, OpenIsLoaded DEF HasModule
    <3>2. image.id = wanted[c]
      BY <1>1, <1>2, <3>1 DEF Stands
    <3>3. image.place => configured
      BY <2>2, <3>1 DEF Allowed
    <3> HIDE DEF image, value
    <3>4. new.mode = wanted[c] /\ new.image = image /\ new.configured = configured
      BY <2>2
    <3> HIDE DEF new
    <3> QED
      BY <1>2, <1>3, <1>5, <3>1, <3>2, <3>3, <3>4 DEF ShownIs
  <2>3. CASE /\ Allowed(c, configured, finite) /\ ~HasModule(c)
             /\ new = [mode |-> wanted[c], image |-> image, configured |-> configured, value |-> value]
    <3>1. image = NoImage
      BY <2>3
    <3>2. wanted[c] \in Modes \ NativeModes
      BY <1>1, <1>2, <2>3 DEF Stands, HasModule, NeedsModule, clock_requires_native_resource
    <3>3. NeedsPlace(wanted[c]) => configured
      BY <2>3 DEF Allowed
    <3> HIDE DEF image, value
    <3>4. new.mode = wanted[c] /\ new.image = image /\ new.configured = configured
      BY <2>3
    <3> HIDE DEF new
    <3> QED
      BY <1>2, <1>3, <1>5, <3>1, <3>2, <3>3, <3>4 DEF ShownIs
  <2> QED
    BY <2>1, <2>2, <2>3
<1> HIDE DEF new
<1> QED
  BY <1>2, <1>3, <1>4, <1>6, <1>7, OneConsumer

LEMMA FreeKeeps ==
  ASSUME PresentationInv, NEW c \in Consumers, Free(c)
  PROVE  PresentationInv'
<1>1. Types /\ Balanced /\ Stands(c) /\ ShownIs(c)
  BY DEF PresentationInv
<1>2. /\ step' = [step EXCEPT ![c] = "idle"] /\ shown' = [shown EXCEPT ![c] = Nothing]
      /\ disk' = disk /\ wanted' = wanted /\ unread' = unread /\ path' = path
  BY DEF Free
<1>3. /\ wanted' = [wanted EXCEPT ![c] = wanted[c]]
      /\ unread' = [unread EXCEPT ![c] = unread[c]] /\ path' = [path EXCEPT ![c] = path[c]]
      /\ unread[c] \in SUBSET DOMAIN FileOrder /\ path[c] \in HolderFiles
      /\ disk' \in [Files -> Images \cup {NoImage}]
      /\ step'[c] = "idle" /\ shown'[c] = Nothing
  BY <1>1, <1>2 DEF Types
<1>4. /\ Loader /\ Balanced' /\ handle'[c] = NoFile
      /\ \A d \in Consumers : d # c =>
           /\ handle'[d] = handle[d]
           /\ handle[d] # NoFile => loaded'[handle[d]] = loaded[handle[d]]
  <2>1. CASE HasModule(c)
    <3>1. Close(c) /\ handle[c] # NoFile
      BY <2>1 DEF Free, HasModule
    <3>2. /\ Loader /\ Balanced'
          /\ \A d \in Consumers : handle[d] # NoFile /\ d # c =>
               handle'[d] = handle[d] /\ loaded'[handle[d]] = loaded[handle[d]]
          /\ handle' = [handle EXCEPT ![c] = NoFile]
      BY <1>1, <3>1, CloseKeeps
    <3> QED
      BY <1>1, <3>2 DEF Types
  <2>2. CASE ~HasModule(c)
    <3>1. KeepHandles /\ handle[c] = NoFile
      BY <2>2 DEF Free, HasModule
    <3> QED
      BY <1>1, <3>1, KeptHandles DEF KeepHandles
  <2> QED
    BY <2>1, <2>2
<1>5. Stands(c)' /\ ShownIs(c)'
  BY <1>3, <1>4 DEF Stands, ShownIs
<1> QED
  BY <1>2, <1>3, <1>4, <1>5, OneConsumer

LEMMA ReplaceKeeps ==
  ASSUME PresentationInv, NEW f \in Files, NEW image \in Images \cup {NoImage}, Replace(f, image)
  PROVE  PresentationInv'
<1>1. Types /\ Balanced
  BY DEF PresentationInv
<1>2. /\ loaded' = loaded /\ references' = references /\ lost' = lost /\ step' = step
      /\ wanted' = wanted /\ unread' = unread /\ path' = path /\ handle' = handle /\ shown' = shown
  BY DEF Replace
<1>3. disk' \in [Files -> Images \cup {NoImage}]
  BY <1>1 DEF Replace, Types
<1>4. Types'
  BY <1>1, <1>2, <1>3 DEF Types
<1>5. Balanced'
  BY <1>1, <1>2 DEF Balanced, Holders
<1>6. ASSUME NEW c \in Consumers PROVE Stands(c)' /\ ShownIs(c)'
  <2>1. Stands(c) /\ ShownIs(c)
    BY DEF PresentationInv
  <2> QED
    BY <1>2, <2>1, OthersStand
<1> QED
  BY <1>4, <1>5, <1>6 DEF PresentationInv

LEMMA StutterKeeps == PresentationInv /\ UNCHANGED presentation => PresentationInv'
<1> SUFFICES ASSUME PresentationInv, UNCHANGED presentation PROVE PresentationInv'
  OBVIOUS
<1>1. Types'
  BY DEF PresentationInv, Types, presentation
<1>2. Balanced'
  BY DEF PresentationInv, Balanced, Holders, presentation
<1>3. ASSUME NEW c \in Consumers PROVE Stands(c)' /\ ShownIs(c)'
  <2>1. Stands(c) /\ ShownIs(c)
    BY DEF PresentationInv
  <2> QED
    BY <2>1, OthersStand DEF presentation
<1> QED
  BY <1>1, <1>2, <1>3 DEF PresentationInv

LEMMA PresentationKeeps == PresentationInv /\ [PresentationStep]_presentation => PresentationInv'
<1> SUFFICES ASSUME PresentationInv, [PresentationStep]_presentation PROVE PresentationInv'
  OBVIOUS
<1>1. ASSUME NEW c \in Consumers, ConsumerStep(c) PROVE PresentationInv'
  <2>1. ASSUME NEW id \in Wanted, Select(c, id) PROVE PresentationInv'
    BY <2>1, SelectKeeps
  <2>2. CASE Inspect(c)
    BY <2>2, InspectKeeps
  <2>3. CASE Leave(c)
    BY <2>3, LeaveKeeps
  <2>4. CASE FailScan(c)
    BY <2>4, FailScanKeeps
  <2>5. CASE OpenFound(c)
    BY <2>5, OpenFoundKeeps
  <2>6. CASE Bind(c)
    BY <2>6, BindKeeps
  <2>7. ASSUME NEW configured \in BOOLEAN, NEW finite \in BOOLEAN, NEW fine \in BOOLEAN,
               Format(c, configured, finite, fine)
        PROVE  PresentationInv'
    BY <2>7, FormatKeeps
  <2>8. CASE Free(c)
    BY <2>8, FreeKeeps
  <2> QED
    BY <1>1, <2>1, <2>2, <2>3, <2>4, <2>5, <2>6, <2>7, <2>8 DEF ConsumerStep
<1>2. ASSUME NEW f \in Files, NEW image \in Images \cup {NoImage}, Replace(f, image)
      PROVE  PresentationInv'
  BY <1>2, ReplaceKeeps
<1>3. CASE UNCHANGED presentation
  BY <1>3, StutterKeeps
<1> QED
  BY <1>1, <1>2, <1>3 DEF PresentationStep

\* Every handle of the loader has an owner that knows what it loaded, and a scan
\* has taken nothing but a file that its visitor accepted.
THEOREM PresentationIsInvariant == PresentationSpec => []PresentationInv
<1>1. PresentationInit => PresentationInv
  BY InitOfPresentation
<1>2. PresentationInv /\ [PresentationStep]_presentation => PresentationInv'
  BY PresentationKeeps
<1> QED
  BY <1>1, <1>2, PTL DEF PresentationSpec

\* However consumers open, close and lose their handles of the same modules, the
\* loader's counts are theirs: nothing is closed that another one still uses.
THEOREM HandlesStayBalanced == PresentationSpec => []HandlesAreBalanced
<1>1. PresentationInv => HandlesAreBalanced
  BY InvImplies
<1> QED
  BY <1>1, PresentationIsInvariant, PTL

\* Whatever the module files are replaced with while they are found and opened, a
\* presentation shows what it was asked for, with the place that needs.
THEOREM OnlyItsModeIsShown == PresentationSpec => []ShownIsOfItsMode
<1>1. PresentationInv => ShownIsOfItsMode
  BY InvImplies
<1> QED
  BY <1>1, PresentationIsInvariant, PTL
================================================================================
