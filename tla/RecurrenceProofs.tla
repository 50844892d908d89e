-------------------------- MODULE RecurrenceProofs --------------------------
(***************************************************************************)
(* The next run of a recurring task, for any length of the hour, the day   *)
(* and the week, any schedule, and any zone that changes its clocks by no  *)
(* more than an hour and not around midnight.                              *)
(*                                                                         *)
(* A schedule by the day has one minute on each of its days, and these     *)
(* come in the order of the days, wherever time.Date puts those that the   *)
(* clocks skip or show twice.  The minutes of an hourly schedule leave a   *)
(* fixed remainder when they are divided by the hour, also after clocks    *)
(* have gone forward by a whole one.                                       *)
(***************************************************************************)
EXTENDS Recurrence, TLAPS

EveryHour(s) == s.type = "hourly" \/ (s.type = "cron" /\ s.everyHour)
ByDay(s)     == s.type \in {"daily", "weekly"} \/ (s.type = "cron" /\ ~s.everyHour)

\* The wall times of a zone that come twice or never, and those that time.Date has for
\* the latter, are of one day.
WithinADay(z) ==
    LET size == IF z.by < 0 THEN -z.by ELSE z.by
        last == IF z.by < 0 THEN z.at - 1 ELSE z.at + 2 * z.by - 1
    IN size <= Hour /\ DayOf(z.at - size) = DayOf(last)

\* The zones in which next runs come as they should: for an hourly schedule clocks may
\* not go back (fall_back in README.md).
Tame(z, s) ==
    \/ z.by = 0
    \/ ByDay(s) /\ WithinADay(z)
    \/ EveryHour(s) /\ z.by = Hour
    \/ s.type = "interval"

TameZones == \A case \in Cases : Tame(case[1], case[2])

\* Every interval fits into a time.Duration.
IntervalsFit ==
    \A case \in Cases : case[2].type = "interval" => case[2].minutes <= Longest

-----------------------------------------------------------------------------
(* Division.                                                               *)

LEMMA Parts ==
    ASSUME NEW P \in Nat \ {0}, NEW t \in Int
    PROVE  t \div P \in Int /\ t % P \in 0..(P - 1) /\ t = (t \div P) * P + (t % P)
OBVIOUS

LEMMA Whole ==
    ASSUME NEW P \in Nat \ {0}, NEW q \in Int, NEW r \in 0..(P - 1)
    PROVE  (q * P + r) \div P = q /\ (q * P + r) % P = r
OBVIOUS

LEMMA Apart ==
    ASSUME NEW P \in Nat \ {0}, NEW a \in Int, NEW b \in Int, a < b
    PROVE  a * P + P <= b * P
OBVIOUS

LEMMA Quotients ==
    ASSUME NEW P \in Nat \ {0}, NEW a \in Int, NEW b \in Int, a <= b
    PROVE  a \div P <= b \div P
<1>. DEFINE c == a \div P
            d == b \div P
<1>1. /\ c \in Int /\ d \in Int
      /\ c * P <= a /\ b < d * P + P
  BY Parts
<1>. HIDE DEF c, d
<1>2. ASSUME d < c PROVE FALSE
  <2>1. d * P + P <= c * P
    BY <1>1, <1>2, Apart
  <2>2. c * P \in Int /\ d * P \in Int
    BY <1>1
  <2>. QED
    BY <1>1, <2>1, <2>2
<1>3. c <= d
  BY <1>1, <1>2
<1>. QED
  BY <1>3 DEF c, d

\* Numbers with the same remainder are a period apart.
LEMMA SameRest ==
    ASSUME NEW P \in Nat \ {0}, NEW a \in Int, NEW b \in Int, a % P = b % P, a < b
    PROVE  a + P <= b
<1>. DEFINE c == a \div P
            d == b \div P
            r == a % P
<1>1. /\ c \in Int /\ d \in Int /\ r \in Int
      /\ c * P \in Int /\ d * P \in Int /\ a = c * P + r /\ b = d * P + r
  BY Parts
<1>. HIDE DEF c, d, r
<1>2. ASSUME d < c PROVE FALSE
  <2>1. d * P + P <= c * P
    BY <1>1, <1>2, Apart
  <2>. QED
    BY <1>1, <2>1
<1>3. c < d
  BY <1>1, <1>2
<1>4. c * P + P <= d * P
  BY <1>1, <1>3, Apart
<1>. QED
  BY <1>1, <1>4

\* The next number from a on that has the remainder r.
LEMMA NextRest ==
    ASSUME NEW P \in Nat \ {0}, NEW a \in Int, NEW r \in 0..(P - 1)
    PROVE  (r - (a % P)) % P \in 0..(P - 1) /\ (a + ((r - (a % P)) % P)) % P = r
<1>. DEFINE q == a \div P
            b == a % P
            n == (r - b) % P
<1>1. q \in Int /\ b \in 0..(P - 1) /\ q * P \in Int /\ a = q * P + b
  BY Parts
<1>. HIDE DEF q, b
<1>2. CASE b <= r
  <2>1. r - b \in 0..(P - 1) /\ r - b = 0 * P + (r - b)
    BY <1>1, <1>2
  <2>2. n = r - b
    BY <2>1, Whole
  <2>3. a + n = q * P + r
    BY <1>1, <2>2
  <2>4. (q * P + r) % P = r
    BY <1>1, Whole
  <2>. QED
    BY <2>1, <2>2, <2>3, <2>4 DEF b
<1>3. CASE b > r
  <2>. DEFINE m == -1
  <2>1. m \in Int /\ r - b + P \in 0..(P - 1) /\ r - b = m * P + (r - b + P)
    BY <1>1, <1>3
  <2>. HIDE DEF m
  <2>2. n = r - b + P
    BY <2>1, Whole
  <2>3. a + n = (q + 1) * P + r
    BY <1>1, <2>2
  <2>4. ((q + 1) * P + r) % P = r
    BY <1>1, Whole
  <2>. QED
    BY <2>1, <2>2, <2>3, <2>4 DEF b
<1>. QED
  BY <1>1, <1>2, <1>3

\* The minutes that leave the remainder f when they are divided by P.
OnGrid(P, f, t) == t = (t \div P) * P + f

\* The first of them after t.
Upcoming(P, f, t) ==
    IF (t \div P) * P + f > t THEN (t \div P) * P + f ELSE (t \div P) * P + P + f

LEMMA UpcomingIsNext ==
    ASSUME NEW P \in Nat \ {0}, NEW f \in 0..(P - 1), NEW t \in Nat
    PROVE  /\ Upcoming(P, f, t) \in Nat /\ Upcoming(P, f, t) > t
           /\ OnGrid(P, f, Upcoming(P, f, t))
           /\ \A u \in (t + 1)..(Upcoming(P, f, t) - 1) : ~OnGrid(P, f, u)
<1>. DEFINE q == t \div P
            next == Upcoming(P, f, t)
<1>1. q \in Int /\ q * P \in Int /\ q * P <= t /\ t < q * P + P
  BY Parts
<1>2. next = IF q * P + f > t THEN q * P + f ELSE q * P + P + f
  BY DEF Upcoming
<1>3. (q + 1) * P = q * P + P
  BY <1>1
<1>. HIDE DEF q, next
<1>4. next \in Nat /\ next > t
  BY <1>1, <1>2
<1>5. OnGrid(P, f, next)
  <2>1. (q * P + f) \div P = q /\ ((q + 1) * P + f) \div P = q + 1
    BY <1>1, Whole
  <2>. QED
    BY <1>1, <1>2, <1>3, <2>1 DEF OnGrid
<1>6. ASSUME NEW u \in (t + 1)..(next - 1), OnGrid(P, f, u) PROVE FALSE
  <2>. DEFINE p == u \div P
  <2>1. u \in Int /\ t < u /\ u < next
    BY <1>4
  <2>2. p \in Int /\ p * P \in Int /\ u = p * P + f
    BY <1>6, <2>1, Parts DEF OnGrid
  <2>. HIDE DEF p
  <2>3. p > q + 1 => (q + 1) * P + P <= p * P
    BY <1>1, <2>2, Apart
  <2>4. p < q => p * P + P <= q * P
    BY <1>1, <2>2, Apart
  <2>5. p = q \/ p = q + 1
    BY <1>1, <1>2, <1>3, <2>1, <2>2, <2>3, <2>4
  <2>. QED
    BY <1>1, <1>2, <1>3, <2>1, <2>2, <2>5
<1>. QED
  BY <1>4, <1>5, <1>6 DEF next

-----------------------------------------------------------------------------
(* Days, hours and minutes.                                                *)

DayLength == Day * Hour

LEMMA Lengths ==
    Hour \in Nat \ {0} /\ Day \in Nat \ {0} /\ Week \in Nat \ {0} /\ DayLength \in Nat \ {0}
BY ClockAssumption DEF DayLength

\* The minute of the day.
TimeOfDay(h, m) == h * Hour + m

LEMMA TimeInDay ==
    ASSUME NEW h \in Hours, NEW m \in Minutes
    PROVE  TimeOfDay(h, m) \in 0..(DayLength - 1)
<1>1. h * Hour + Hour <= Day * Hour
  <2>1. h \in Int /\ Day \in Int /\ h < Day
    BY Lengths DEF Hours
  <2>. QED
    BY <2>1, Lengths, Apart
<1>2. h * Hour \in Nat
  BY Lengths DEF Hours
<1>. QED
  BY <1>1, <1>2, Lengths DEF TimeOfDay, Minutes, DayLength

LEMMA AtIs ==
    ASSUME NEW d \in Int, NEW h \in Int, NEW m \in Int
    PROVE  At(d, h, m) = d * DayLength + TimeOfDay(h, m)
BY Lengths DEF At, TimeOfDay, DayLength

\* Day and hour of a minute together count its hours.
LEMMA HourIs ==
    ASSUME NEW w \in Int, NEW m \in Int
    PROVE  At(DayOf(w), HourOf(w), m) = (w \div Hour) * Hour + m
<1>. DEFINE q == w \div Hour
            d == q \div Day
            r == w % Hour
            h == q % Day
<1>1. q \in Int /\ r \in 0..(Hour - 1) /\ w = q * Hour + r
  BY Lengths, Parts
<1>2. d \in Int /\ h \in 0..(Day - 1) /\ q = d * Day + h
  BY <1>1, Lengths, Parts
<1>3. HourOf(w) = h
  BY DEF HourOf
<1>. HIDE DEF q, d, r, h
<1>4. h * Hour + r \in 0..(DayLength - 1)
  BY <1>1, <1>2, TimeInDay DEF TimeOfDay, Hours, Minutes
<1>5. w = d * DayLength + (h * Hour + r)
  BY <1>1, <1>2, Lengths DEF DayLength
<1>6. DayOf(w) = d
  BY <1>2, <1>4, <1>5, Whole, Lengths DEF DayOf, DayLength
<1>7. At(d, h, m) = q * Hour + m
  BY <1>2 DEF At
<1>. QED
  BY <1>3, <1>6, <1>7 DEF q

LEMMA DayIs ==
    ASSUME NEW w \in Int
    PROVE  DayOf(w) \in Int /\ DayOf(w) = w \div DayLength
BY Lengths, Parts DEF DayOf, DayLength

LEMMA DayOfAt ==
    ASSUME NEW d \in Int, NEW h \in Hours, NEW m \in Minutes
    PROVE  At(d, h, m) \in Int /\ DayOf(At(d, h, m)) = d
<1>1. h \in Int /\ m \in Int /\ TimeOfDay(h, m) \in 0..(DayLength - 1)
  BY Lengths, TimeInDay DEF Hours, Minutes
<1>2. At(d, h, m) = d * DayLength + TimeOfDay(h, m)
  BY <1>1, AtIs
<1>4. At(d, h, m) \in Int
  BY <1>1, Lengths DEF At
<1>3. (d * DayLength + TimeOfDay(h, m)) \div DayLength = d
  BY <1>1, Lengths, Whole
<1>. QED
  BY <1>2, <1>3, <1>4, DayIs

LEMMA DaysAreInOrder ==
    ASSUME NEW v \in Int, NEW w \in Int, v <= w
    PROVE  DayOf(v) <= DayOf(w)
BY DayIs, Quotients, Lengths

\* Between two minutes of one day there are only others of it.
LEMMA OneDay ==
    ASSUME NEW v \in Int, NEW w \in Int, NEW x \in Int, NEW y \in Int,
           DayOf(v) = DayOf(w), v <= x, x <= w, v <= y, y <= w
    PROVE  DayOf(x) = DayOf(y)
<1>1. /\ DayOf(v) <= DayOf(x) /\ DayOf(x) <= DayOf(w)
      /\ DayOf(v) <= DayOf(y) /\ DayOf(y) <= DayOf(w)
  BY DaysAreInOrder
<1>. QED
  BY <1>1, DayIs

-----------------------------------------------------------------------------
(* The clock.                                                              *)

LEMMA ClockIs ==
    ASSUME zone \in Zones, NEW t \in Int
    PROVE  /\ zone.at \in Int /\ zone.by \in Int
           /\ Wall(t) = (IF t >= zone.at THEN t + zone.by ELSE t) /\ Wall(t) \in Int
           /\ BeforeFits(t) <=> t < zone.at \/ zone.by = 0
           /\ AfterFits(t) <=> t - zone.by >= zone.at \/ zone.by = 0
           /\ Date(t) \in Int
           /\ Date(t) = t \/ Date(t) = t - zone.by
           /\ BeforeFits(t) /\ ~AfterFits(t) => Date(t) = t
           /\ AfterFits(t) /\ ~BeforeFits(t) => Date(t) = t - zone.by
<1>1. zone.at \in Int /\ zone.by \in Int
  BY DEF Zones
<1>2. Before(t) = t /\ After(t) = t - zone.by
  BY DEF Before, After
<1>3. \A u \in Int : Wall(u) = (IF u >= zone.at THEN u + zone.by ELSE u) /\ Wall(u) \in Int
  BY <1>1 DEF Wall, Offset
<1>4. /\ BeforeFits(t) <=> t < zone.at \/ zone.by = 0
      /\ AfterFits(t) <=> t - zone.by >= zone.at \/ zone.by = 0
  BY <1>1, <1>2, <1>3 DEF BeforeFits, AfterFits
<1>. QED
  BY <1>1, <1>2, <1>3, <1>4 DEF Date

\* The days of the clock on the wall come in their order, also where it goes back.
LEMMA DaysInOrder ==
    ASSUME zone \in Zones, zone.by = 0 \/ WithinADay(zone),
           NEW t \in Int, NEW u \in Int, t <= u
    PROVE  DayOf(Wall(t)) <= DayOf(Wall(u))
<1>. DEFINE at == zone.at
            by == zone.by
<1>1. /\ at \in Int /\ by \in Int
      /\ Wall(t) = (IF t >= at THEN t + by ELSE t) /\ Wall(t) \in Int
      /\ Wall(u) = (IF u >= at THEN u + by ELSE u) /\ Wall(u) \in Int
  BY ClockIs
<1>2. CASE Wall(t) <= Wall(u)
  BY <1>1, <1>2, DaysAreInOrder
<1>3. CASE Wall(t) > Wall(u)
  <2>1. by < 0 /\ DayOf(at + by) = DayOf(at - 1)
    <3>1. by < 0
      BY <1>1, <1>3
    <3>2. at - (-by) = at + by
      BY <1>1
    <3>. QED
      BY <3>1, <3>2 DEF WithinADay
  <2>. HIDE DEF at, by
  <2>2. /\ at + by <= Wall(t) /\ Wall(t) <= at - 1
        /\ at + by <= Wall(u) /\ Wall(u) <= at - 1
    BY <1>1, <1>3, <2>1
  <2>3. DayOf(Wall(t)) = DayOf(Wall(u))
    <3>. DEFINE v == at + by
                w == at - 1
    <3>1. v \in Int /\ w \in Int /\ DayOf(v) = DayOf(w)
      BY <1>1, <2>1
    <3>2. v <= Wall(t) /\ Wall(t) <= w /\ v <= Wall(u) /\ Wall(u) <= w
      BY <2>2
    <3>. HIDE DEF v, w
    <3>. QED
      BY <1>1, <3>1, <3>2, OneDay
  <2>. QED
    BY <1>1, <2>3, DayIs
<1>. QED
  BY <1>1, <1>2, <1>3

\* time.Date stays on the day it is asked for.
LEMMA DatesOnTheirDay ==
    ASSUME zone \in Zones, zone.by = 0 \/ WithinADay(zone), NEW w \in Int
    PROVE  DayOf(Wall(Date(w))) = DayOf(w)
<1>. DEFINE at == zone.at
            by == zone.by
            t  == Date(w)
<1>1. /\ at \in Int /\ by \in Int /\ t \in Int
      /\ t = w \/ t = w - by
      /\ BeforeFits(w) <=> w < at \/ by = 0
      /\ AfterFits(w) <=> w - by >= at \/ by = 0
      /\ BeforeFits(w) /\ ~AfterFits(w) => t = w
      /\ AfterFits(w) /\ ~BeforeFits(w) => t = w - by
  BY ClockIs
<1>2. Wall(t) = (IF t >= at THEN t + by ELSE t) /\ Wall(t) \in Int
  BY <1>1, ClockIs
<1>3. CASE BeforeFits(w) \/ AfterFits(w)
  <2>1. Wall(t) = w
    BY <1>1, <1>2, <1>3
  <2>. QED
    BY <2>1
<1>4. CASE ~BeforeFits(w) /\ ~AfterFits(w)
  <2>0. by # 0 /\ by > 0 /\ w >= at /\ w - by < at
    BY <1>1, <1>4
  <2>. DEFINE v == at - by
              x == at + 2 * by - 1
  <2>1. DayOf(v) = DayOf(x)
    BY <1>1, <2>0 DEF WithinADay
  <2>2. /\ v \in Int /\ x \in Int
        /\ v <= w /\ w <= x /\ v <= Wall(t) /\ Wall(t) <= x
    BY <1>1, <1>2, <2>0
  <2>. HIDE DEF v, x, t
  <2>. QED
    BY <1>2, <2>1, <2>2, OneDay DEF t
<1>. QED
  BY <1>3, <1>4

-----------------------------------------------------------------------------
(* Schedules by the day.                                                   *)

\* The days that a schedule names, and its minute on a day.
Names(d) == task.schedule.type = "weekly" => d % Week = task.schedule.day
Slot(d)  == Date(At(d, task.schedule.hour, task.schedule.minute))

DayCase ==
    /\ zone \in Zones
    /\ zone.by = 0 \/ WithinADay(zone)
    /\ task.schedule \in Schedules /\ ByDay(task.schedule)

LEMMA SlotIs ==
    ASSUME DayCase, NEW d \in Int
    PROVE  /\ task.schedule.hour \in Hours /\ task.schedule.minute \in Minutes
           /\ At(d, task.schedule.hour, task.schedule.minute) \in Int
           /\ DayOf(At(d, task.schedule.hour, task.schedule.minute)) = d
           /\ Slot(d) \in Int /\ DayOf(Wall(Slot(d))) = d
<1>1. task.schedule.hour \in Hours /\ task.schedule.minute \in Minutes
  BY DEF DayCase, Schedules, ByDay
<1>2. /\ At(d, task.schedule.hour, task.schedule.minute) \in Int
      /\ DayOf(At(d, task.schedule.hour, task.schedule.minute)) = d
  BY <1>1, DayOfAt
<1>3. Slot(d) \in Int
  BY <1>2, ClockIs DEF DayCase, Slot
<1>4. DayOf(Wall(Slot(d))) = d
  BY <1>2, DatesOnTheirDay DEF DayCase, Slot
<1>. QED
  BY <1>1, <1>2, <1>3, <1>4

LEMMA SlotsInOrder ==
    ASSUME DayCase, NEW d \in Int, NEW e \in Int, Slot(d) < Slot(e)
    PROVE  d < e
<1>1. Slot(d) \in Int /\ Slot(e) \in Int /\ DayOf(Wall(Slot(d))) = d /\ DayOf(Wall(Slot(e))) = e
  BY SlotIs
<1>2. d <= e
  BY <1>1, DaysInOrder DEF DayCase
<1>. QED
  BY <1>1, <1>2

\* The slots after a minute are on its day or later, and those of later days are after it.
LEMMA SlotsAhead ==
    ASSUME DayCase, NEW t \in Int, NEW d \in Int
    PROVE  /\ DayOf(Wall(t)) \in Int
           /\ Slot(d) > t => DayOf(Wall(t)) <= d
           /\ DayOf(Wall(t)) < d => Slot(d) > t
<1>. DEFINE today == DayOf(Wall(t))
<1>1. Slot(d) \in Int /\ DayOf(Wall(Slot(d))) = d /\ zone \in Zones
      /\ (zone.by = 0 \/ WithinADay(zone))
  BY SlotIs DEF DayCase
<1>2. today \in Int
  BY <1>1, ClockIs, DayIs
<1>3. Slot(d) > t => today <= d
  BY <1>1, DaysInOrder
<1>4. ASSUME Slot(d) <= t PROVE d <= today
  BY <1>1, <1>4, DaysInOrder
<1>. HIDE DEF today
<1>5. today < d => Slot(d) > t
  BY <1>1, <1>2, <1>4
<1>. QED
  BY <1>2, <1>3, <1>5 DEF today

LEMMA OnlySlots ==
    ASSUME DayCase, NEW t \in Int, IsSlot(t)
    PROVE  t = Slot(DayOf(Wall(t))) /\ Names(DayOf(Wall(t)))
<1>. DEFINE s == task.schedule
            w == Wall(t)
            d == DayOf(w)
<1>1. w \in Int /\ w = (IF t >= zone.at THEN t + zone.by ELSE t) /\ zone.by \in Int /\ zone.at \in Int
  BY ClockIs DEF DayCase
<1>2. /\ zone.by # 0 => ~(BeforeFits(w) /\ AfterFits(w))
      /\ w = At(d, s.hour, s.minute)
      /\ s.type = "weekly" => Weekday(w) = s.day
  BY DEF IsSlot, DayCase, ByDay
<1>3. Date(w) = t
  <2>1. /\ BeforeFits(w) <=> w < zone.at \/ zone.by = 0
        /\ AfterFits(w) <=> w - zone.by >= zone.at \/ zone.by = 0
        /\ Date(w) = w \/ Date(w) = w - zone.by
        /\ BeforeFits(w) /\ ~AfterFits(w) => Date(w) = w
        /\ AfterFits(w) /\ ~BeforeFits(w) => Date(w) = w - zone.by
    BY <1>1, ClockIs DEF DayCase
  <2>. HIDE DEF w, d
  <2>. QED
    BY <1>1, <1>2, <2>1
<1>4. Names(d)
  BY <1>2 DEF Names, Weekday
<1>. QED
  BY <1>2, <1>3, <1>4 DEF Slot

LEMMA SlotsAreSlots ==
    ASSUME DayCase, NEW d \in Int, Names(d)
    PROVE  IsSlot(Slot(d)) \/ Irregular(Slot(d))
<1>. DEFINE s == task.schedule
            w == At(d, s.hour, s.minute)
            t == Date(w)
<1>1. w \in Int /\ DayOf(w) = d /\ Slot(d) = t /\ t \in Int
  BY SlotIs DEF Slot
<1>2. /\ zone.at \in Int /\ zone.by \in Int
      /\ BeforeFits(w) <=> w < zone.at \/ zone.by = 0
      /\ AfterFits(w) <=> w - zone.by >= zone.at \/ zone.by = 0
      /\ t = w \/ t = w - zone.by
      /\ BeforeFits(w) /\ ~AfterFits(w) => t = w
      /\ AfterFits(w) /\ ~BeforeFits(w) => t = w - zone.by
  BY <1>1, ClockIs DEF DayCase
<1>3. Wall(t) = (IF t >= zone.at THEN t + zone.by ELSE t)
  BY <1>1, ClockIs DEF DayCase
<1>4. CASE zone.by = 0 \/ (BeforeFits(w) <=> ~AfterFits(w))
  <2>1. Wall(t) = w
    <3>. HIDE DEF w, t
    <3>. QED
      BY <1>1, <1>2, <1>3, <1>4
  <2>2. zone.by # 0 => ~(BeforeFits(w) /\ AfterFits(w))
    BY <1>4
  <2>3. s.type = "weekly" => Weekday(w) = s.day
    BY <1>1 DEF Names, Weekday
  <2>4. ~(s.type = "hourly" \/ (s.type = "cron" /\ s.everyHour))
    BY DEF DayCase, ByDay
  <2>5. w = At(DayOf(w), s.hour, s.minute)
    BY <1>1
  <2>. HIDE DEF w, t
  <2>. QED
    BY <1>1, <2>1, <2>2, <2>3, <2>4, <2>5 DEF IsSlot
<1>5. CASE zone.by # 0 /\ (BeforeFits(w) <=> AfterFits(w))
  <2>1. Hour \in Int /\ zone.by <= Hour /\ -zone.by <= Hour
    BY <1>2, <1>5, Lengths DEF DayCase, WithinADay
  <2>. HIDE DEF w, t
  <2>2. zone.at - Hour <= t /\ t <= zone.at + Hour
    BY <1>1, <1>2, <1>5, <2>1
  <2>. QED
    BY <1>1, <1>5, <2>2 DEF Irregular
<1>. QED
  BY <1>4, <1>5

\* d is the day of the first slot after t.
Comes(t, d) ==
    /\ Names(d) /\ Slot(d) > t
    /\ \A e \in Int : Names(e) /\ Slot(e) > t => d <= e

LEMMA NextDailyIs ==
    ASSUME DayCase, task.schedule.type # "weekly", NEW t \in Int
    PROVE  \E d \in Int : /\ Comes(t, d)
                          /\ NextDaily(t, task.schedule.hour, task.schedule.minute) = Slot(d)
<1>. DEFINE today == DayOf(Wall(t))
<1>1. today \in Int /\ \A e \in Int : (Slot(e) > t => today <= e) /\ (today < e => Slot(e) > t)
  BY SlotsAhead, SlotIs
<1>2. NextDaily(t, task.schedule.hour, task.schedule.minute)
        = IF Slot(today) > t THEN Slot(today) ELSE Slot(today + 1)
  BY DEF NextDaily, Slot
<1>3. \A e : Names(e)
  BY DEF Names
<1>. HIDE DEF today
<1>4. CASE Slot(today) > t
  BY <1>1, <1>2, <1>3, <1>4 DEF Comes
<1>5. CASE ~(Slot(today) > t)
  <2>1. Comes(t, today + 1)
    BY <1>1, <1>3, <1>5 DEF Comes
  <2>. QED
    BY <1>1, <1>2, <1>5, <2>1
<1>. QED
  BY <1>4, <1>5

LEMMA NextWeeklyIs ==
    ASSUME DayCase, task.schedule.type = "weekly", NEW t \in Int
    PROVE  \E d \in Int :
             /\ Comes(t, d)
             /\ NextWeekly(t, task.schedule.day, task.schedule.hour, task.schedule.minute) = Slot(d)
<1>. DEFINE today == DayOf(Wall(t))
            n     == (task.schedule.day - (today % Week)) % Week
            first == today + n
<1>1. today \in Int /\ \A e \in Int : (Slot(e) > t => today <= e) /\ (today < e => Slot(e) > t)
  BY SlotsAhead, SlotIs
<1>2. n \in 0..(Week - 1) /\ first % Week = task.schedule.day /\ Week \in Nat \ {0}
  <2>1. task.schedule.day \in 0..(Week - 1)
    BY DEF DayCase, Schedules
  <2>. HIDE DEF today
  <2>. QED
    BY <1>1, <2>1, Lengths, NextRest
<1>3. first \in Int /\ today <= first /\ first < today + Week
  BY <1>1, <1>2
<1>4. DayOf(Wall(Slot(first))) = first
  BY <1>3, SlotIs
<1>5. NextWeekly(t, task.schedule.day, task.schedule.hour, task.schedule.minute)
        = IF Slot(first) > t THEN Slot(first) ELSE Slot(first + Week)
  BY <1>4 DEF NextWeekly, Slot, Weekday
<1>. HIDE DEF today, n, first
<1>6. \A e \in Int : Names(e) <=> e % Week = first % Week
  BY <1>2 DEF Names
<1>7. \A e \in Int : Names(e) /\ today <= e => first <= e
  <2>. SUFFICES ASSUME NEW e \in Int, Names(e), today <= e, e < first PROVE FALSE
    BY <1>3
  <2>1. e + Week <= first
    BY <1>2, <1>3, <1>6, SameRest
  <2>. QED
    BY <1>1, <1>2, <1>3, <2>1
<1>8. CASE Slot(first) > t
  <2>1. Comes(t, first)
    BY <1>1, <1>3, <1>6, <1>7, <1>8 DEF Comes
  <2>. QED
    BY <1>3, <1>5, <1>8, <2>1
<1>9. CASE ~(Slot(first) > t)
  <2>1. first + Week \in Int /\ today < first + Week
    BY <1>1, <1>2, <1>3
  <2>2. Names(first + Week)
    <3>1. (first + Week) % Week = first % Week
      <4>. DEFINE q == first \div Week
                  r == first % Week
      <4>1. q \in Int /\ r \in 0..(Week - 1) /\ first = q * Week + r
        BY <1>2, <1>3, Parts
      <4>. HIDE DEF q, r
      <4>2. first + Week = (q + 1) * Week + r
        BY <1>2, <4>1
      <4>3. ((q + 1) * Week + r) % Week = r
        BY <1>2, <4>1, Whole
      <4>. QED
        BY <4>2, <4>3 DEF r
    <3>. QED
      BY <1>6, <2>1, <3>1
  <2>3. ASSUME NEW e \in Int, Names(e), Slot(e) > t PROVE first + Week <= e
    <3>1. first <= e /\ e # first
      BY <1>1, <1>7, <1>9, <2>3
    <3>2. first < e
      BY <1>3, <3>1
    <3>. QED
      BY <1>2, <1>3, <1>6, <2>3, <3>2, SameRest
  <2>4. Comes(t, first + Week)
    BY <1>1, <2>1, <2>2, <2>3 DEF Comes
  <2>. QED
    BY <1>5, <1>9, <2>1, <2>4
<1>. QED
  BY <1>8, <1>9

\* The next run of a schedule by the day is its first slot ahead.
LEMMA NextRunByDay ==
    ASSUME DayCase, NEW t \in Int
    PROVE  \E d \in Int : Comes(t, d) /\ CalculateNextRun(t) = Slot(d)
<1>. DEFINE s == task.schedule
<1>1. CASE s.type = "weekly"
  BY <1>1, NextWeeklyIs DEF CalculateNextRun
<1>2. CASE s.type # "weekly"
  <2>1. CalculateNextRun(t) = NextDaily(t, s.hour, s.minute)
    BY <1>2 DEF DayCase, ByDay, CalculateNextRun, NextCron
  <2>. QED
    BY <1>2, <2>1, NextDailyIs
<1>. QED
  BY <1>1, <1>2

LEMMA NextSlotByDay ==
    ASSUME DayCase, NEW t \in Nat
    PROVE  LET next == CalculateNextRun(t) IN
           /\ next \in Nat /\ next > t /\ next = Slot(DayOf(Wall(next)))
           /\ IsSlot(next) \/ Irregular(next)
           /\ \A u \in (t + 1)..(next - 1) : ~IsSlot(u)
<1>1. PICK d \in Int : Comes(t, d) /\ CalculateNextRun(t) = Slot(d)
  BY NextRunByDay
<1>2. Slot(d) \in Int /\ DayOf(Wall(Slot(d))) = d /\ Slot(d) > t
  BY <1>1, SlotIs DEF Comes
<1>3. ASSUME NEW u \in (t + 1)..(Slot(d) - 1), IsSlot(u) PROVE FALSE
  <2>. DEFINE e == DayOf(Wall(u))
  <2>0. u \in Int /\ t < u /\ u < Slot(d)
    BY <1>2
  <2>1. e \in Int
    BY <2>0, ClockIs, DayIs DEF DayCase
  <2>2. u = Slot(e) /\ Names(e)
    BY <1>3, <2>0, OnlySlots
  <2>. HIDE DEF e
  <2>3. d <= e
    BY <1>1, <2>0, <2>1, <2>2 DEF Comes
  <2>4. e < d
    BY <2>0, <2>1, <2>2, SlotsInOrder
  <2>. QED
    BY <2>1, <2>3, <2>4
<1>4. IsSlot(Slot(d)) \/ Irregular(Slot(d))
  BY <1>1, SlotsAreSlots DEF Comes
<1>. QED
  BY <1>1, <1>2, <1>3, <1>4

-----------------------------------------------------------------------------
(* Schedules by the hour, and intervals.                                   *)

HourCase ==
    /\ zone \in Zones /\ zone.by \in {0, Hour}
    /\ task.schedule \in Schedules /\ EveryHour(task.schedule)

\* Clocks that go forward by a whole hour leave the minutes of every hour where they are.
LEMMA SameGrid ==
    ASSUME HourCase, NEW t \in Int, NEW m \in Minutes
    PROVE  Wall(t) = (Wall(t) \div Hour) * Hour + m <=> OnGrid(Hour, m, t)
<1>. DEFINE q == t \div Hour
            r == t % Hour
<1>1. /\ q \in Int /\ r \in 0..(Hour - 1) /\ t = q * Hour + r /\ q * Hour \in Int
      /\ Hour \in Nat \ {0} /\ m \in Int
  BY Lengths, Parts DEF Minutes
<1>2. Wall(t) = t \/ Wall(t) = t + Hour
  BY ClockIs DEF HourCase
<1>. HIDE DEF q, r
<1>3. t + Hour = (q + 1) * Hour + r /\ (q + 1) * Hour = q * Hour + Hour
  BY <1>1
<1>4. (t + Hour) \div Hour = q + 1
  <2>1. ((q + 1) * Hour + r) \div Hour = q + 1
    BY <1>1, Whole
  <2>. QED
    BY <1>3, <2>1
<1>5. t + Hour = ((t + Hour) \div Hour) * Hour + m <=> t = q * Hour + m
  BY <1>1, <1>3, <1>4
<1>. QED
  BY <1>2, <1>5 DEF OnGrid, q

LEMMA SlotsOfHours ==
    ASSUME HourCase, NEW t \in Int
    PROVE  IsSlot(t) <=> OnGrid(Hour, task.schedule.minute, t)
<1>. DEFINE s == task.schedule
            w == Wall(t)
<1>1. w \in Int /\ s.minute \in Minutes /\ s.minute \in Int /\ Hour \in Int /\ Hour > 0
  BY ClockIs, Lengths DEF HourCase, EveryHour, Schedules, Minutes
<1>2. ~(zone.by # 0 /\ BeforeFits(w) /\ AfterFits(w))
  <2>1. /\ BeforeFits(w) <=> w < zone.at \/ zone.by = 0
        /\ AfterFits(w) <=> w - zone.by >= zone.at \/ zone.by = 0
        /\ zone.at \in Int
    BY <1>1, ClockIs DEF HourCase
  <2>. HIDE DEF w
  <2>. QED
    BY <1>1, <2>1 DEF HourCase
<1>3. IsSlot(t) <=> w = At(DayOf(w), HourOf(w), s.minute)
  BY <1>2 DEF IsSlot, HourCase, EveryHour
<1>4. At(DayOf(w), HourOf(w), s.minute) = (w \div Hour) * Hour + s.minute
  BY <1>1, HourIs
<1>. QED
  BY <1>1, <1>3, <1>4, SameGrid

LEMMA NextHourlyIs ==
    ASSUME HourCase, NEW t \in Int, NEW m \in Minutes
    PROVE  NextHourly(t, m) = Upcoming(Hour, m, t)
<1>. DEFINE w == Wall(t)
            p == w \div Hour
            q == t \div Hour
            a == p * Hour + m
            b == q * Hour + m
            first == Date(a)
<1>1. Hour \in Nat \ {0} /\ m \in Int /\ 0 <= m /\ m < Hour
  BY Lengths DEF Minutes
<1>2. /\ w \in Int /\ zone.at \in Int
      /\ w = (IF t >= zone.at THEN t + zone.by ELSE t)
  BY ClockIs DEF HourCase
<1>3. /\ q \in Int /\ q * Hour \in Int /\ q * Hour <= t /\ t < q * Hour + Hour
      /\ p \in Int /\ p * Hour \in Int /\ p * Hour <= w /\ w < p * Hour + Hour
  <2>. DEFINE r == t % Hour
              v == w % Hour
  <2>1. q \in Int /\ r \in 0..(Hour - 1) /\ t = q * Hour + r
    BY <1>1, Parts
  <2>. HIDE DEF w
  <2>2. p \in Int /\ v \in 0..(Hour - 1) /\ w = p * Hour + v
    BY <1>1, <1>2, Parts
  <2>. HIDE DEF p, q, r, v
  <2>3. q * Hour \in Int /\ p * Hour \in Int
    BY <1>1, <2>1, <2>2
  <2>. QED
    BY <1>1, <1>2, <2>1, <2>2, <2>3
<1>4. /\ a \in Int /\ b \in Int
      /\ (w = t => a = b) /\ (w = t + Hour => a = b + Hour)
  <2>1. w = t + Hour => p = q + 1
    <3>. DEFINE r == t % Hour
    <3>1. r \in 0..(Hour - 1) /\ t = q * Hour + r
      BY <1>1, Parts
    <3>. HIDE DEF r, q, p, w
    <3>2. t + Hour = (q + 1) * Hour + r
      BY <1>1, <1>3, <3>1
    <3>3. ((q + 1) * Hour + r) \div Hour = q + 1
      BY <1>1, <1>3, <3>1, Whole
    <3>. QED
      BY <3>2, <3>3 DEF p
  <2>2. (q + 1) * Hour = q * Hour + Hour
    BY <1>1, <1>3
  <2>3. w = t => p = q
    OBVIOUS
  <2>. HIDE DEF p, q, w
  <2>. QED
    BY <1>1, <1>3, <2>1, <2>2, <2>3
<1>5. At(DayOf(w), HourOf(w), m) = a
  BY <1>1, <1>2, HourIs
<1>6. NextHourly(t, m) = IF first > t THEN first ELSE first + Hour
  BY <1>5 DEF NextHourly
<1>7. /\ BeforeFits(a) <=> a < zone.at \/ zone.by = 0
      /\ AfterFits(a) <=> a - zone.by >= zone.at \/ zone.by = 0
      /\ first = a \/ first = a - zone.by
      /\ BeforeFits(a) /\ ~AfterFits(a) => first = a
      /\ AfterFits(a) /\ ~BeforeFits(a) => first = a - zone.by
  BY <1>4, ClockIs DEF HourCase
<1>8. Upcoming(Hour, m, t) = IF b > t THEN b ELSE b + Hour
  <2>1. q * Hour + Hour + m = b + Hour
    BY <1>1, <1>3
  <2>. QED
    BY <2>1 DEF Upcoming
<1>9. q * Hour = b - m /\ p * Hour = a - m
  BY <1>1, <1>3
<1>. HIDE DEF a, b, p, q, w, first
<1>10. CASE zone.by = 0
  BY <1>2, <1>4, <1>6, <1>7, <1>8, <1>10
<1>11. CASE zone.by = Hour
  BY <1>1, <1>2, <1>3, <1>4, <1>6, <1>7, <1>8, <1>9, <1>11
<1>. QED
  BY <1>10, <1>11 DEF HourCase

LEMMA NextSlotByHour ==
    ASSUME HourCase, NEW t \in Nat
    PROVE  LET next == CalculateNextRun(t) IN
           /\ next \in Nat /\ next > t /\ IsSlot(next)
           /\ \A u \in (t + 1)..(next - 1) : ~IsSlot(u)
<1>. DEFINE s == task.schedule
            next == Upcoming(Hour, s.minute, t)
<1>1. Hour \in Nat \ {0} /\ s.minute \in Minutes
  BY Lengths DEF HourCase, EveryHour, Schedules
<1>2. CalculateNextRun(t) = next
  <2>1. CalculateNextRun(t) = NextHourly(t, s.minute)
    BY DEF HourCase, EveryHour, CalculateNextRun, NextCron
  <2>. QED
    BY <1>1, <2>1, NextHourlyIs
<1>3. /\ next \in Nat /\ next > t /\ OnGrid(Hour, s.minute, next)
      /\ \A u \in (t + 1)..(next - 1) : ~OnGrid(Hour, s.minute, u)
  BY <1>1, UpcomingIsNext DEF Minutes
<1>4. \A u \in Int : IsSlot(u) <=> OnGrid(Hour, s.minute, u)
  BY SlotsOfHours
<1>. HIDE DEF next
<1>. QED
  BY <1>2, <1>3, <1>4

LEMMA NextAfterInterval ==
    ASSUME task.schedule \in Schedules, task.schedule.type = "interval",
           task.schedule.minutes <= Longest, NEW t \in Nat
    PROVE  CalculateNextRun(t) \in Nat /\ CalculateNextRun(t) > t
<1>. DEFINE m == task.schedule.minutes
            n == 2 * Longest + 1
<1>1. m \in Nat \ {0} /\ m <= Longest /\ Longest \in Nat
  BY ClockAssumption DEF Schedules
<1>2. CalculateNextRun(t) = t + Duration(m)
  BY DEF CalculateNextRun
<1>. HIDE DEF m
<1>3. n \in Nat \ {0} /\ m + Longest \in 0..(n - 1) /\ m + Longest = 0 * n + (m + Longest)
  BY <1>1
<1>4. (m + Longest) % n = m + Longest
  BY <1>3, Whole
<1>5. Duration(m) = m
  BY <1>1, <1>4 DEF Duration
<1>. QED
  BY <1>1, <1>2, <1>5

-----------------------------------------------------------------------------
(* The scheduler.                                                          *)

\* CalculateNextRun in any of the zones: ahead, on a slot unless clocks change there,
\* and with no slot in between.
LEMMA NextRunIsAhead ==
    ASSUME TypeOK, TameZones, IntervalsFit, NEW t \in Nat
    PROVE  LET next == CalculateNextRun(t) IN
           /\ next \in Nat /\ next > t
           /\ task.schedule.type # "interval" =>
                 /\ IsSlot(next) \/ Irregular(next)
                 /\ \A u \in (t + 1)..(next - 1) : ~IsSlot(u)
           /\ ByDay(task.schedule) => next = Slot(DayOf(Wall(next)))
<1>. DEFINE s == task.schedule
<1>1. PICK case : case = <<zone, s>> /\ case \in Cases
  BY DEF TypeOK
<1>2. zone \in Zones /\ s \in Schedules /\ Tame(zone, s)
      /\ (s.type = "interval" => s.minutes <= Longest)
  BY <1>1, CasesAssumption DEF TameZones, IntervalsFit
<1>3. ByDay(s) \/ EveryHour(s) \/ s.type = "interval"
  BY <1>2 DEF Schedules, ByDay, EveryHour
<1>4. CASE s.type = "interval"
  <2>1. ~ByDay(s)
    BY <1>4 DEF ByDay
  <2>. QED
    BY <1>2, <1>4, <2>1, NextAfterInterval
<1>5. CASE ByDay(s)
  <2>1. ~EveryHour(s) /\ s.type # "interval"
    BY <1>5 DEF ByDay, EveryHour
  <2>2. DayCase
    BY <1>2, <1>5, <2>1 DEF Tame, DayCase
  <2>. QED
    BY <2>2, NextSlotByDay
<1>6. CASE EveryHour(s)
  <2>1. ~ByDay(s) /\ s.type # "interval"
    BY <1>6 DEF ByDay, EveryHour
  <2>2. HourCase
    BY <1>2, <1>6, <2>1 DEF Tame, HourCase
  <2>. QED
    BY <2>1, <2>2, NextSlotByHour
<1>. QED
  BY <1>3, <1>4, <1>5, <1>6

\* A step that sets the entry takes the next run from now; every other step leaves
\* it, or takes it away.
LEMMA Armed ==
    ASSUME [Next]_vars
    PROVE  /\ UNCHANGED <<zone, task>>
           /\ entry' \notin {entry, None} => entry' = CalculateNextRun(now) /\ now' = now
BY DEF Next, vars, Rigid, Minute, Sleep, Fire, Skip, RunNow, EndRun, Save, Down, Load

LEMMA InitTypeOK == Init => TypeOK
<1>. SUFFICES ASSUME Init PROVE TypeOK
  OBVIOUS
<1>1. PICK case \in Cases, catchUp \in BOOLEAN :
        zone = case[1] /\ task = [schedule |-> case[2], catchUp |-> catchUp]
  BY DEF Init
<1>2. <<zone, task.schedule>> \in Cases /\ task.catchUp \in BOOLEAN
  <2>1. case = <<case[1], case[2]>>
    BY CasesAssumption
  <2>. QED
    BY <1>1, <2>1
<1>3. now \in 0..Horizon /\ ~up /\ ~running /\ entry = None /\ lastSlot = None
  BY HorizonAssumption DEF Init
<1>. QED
  BY <1>2, <1>3, HorizonAssumption DEF Init, TypeOK

LEMMA NextTypeOK ==
    ASSUME TameZones, IntervalsFit, TypeOK, [Next]_vars
    PROVE  TypeOK'
<1>1. UNCHANGED <<zone, task>> /\ CalculateNextRun(now) \in Nat
  BY Armed, NextRunIsAhead DEF TypeOK
<1>2. CASE UNCHANGED vars
  BY <1>2 DEF TypeOK, vars
<1>3. CASE Minute
  BY <1>1, <1>3, HorizonAssumption DEF TypeOK, Minute
<1>4. ASSUME NEW n \in Sleeps, Sleep(n) \/ Down(n) PROVE TypeOK'
  <2>1. n \in Nat /\ now' = now + n /\ now + n <= Horizon /\ UNCHANGED lastSlot
    BY <1>4, SleepAssumption DEF Sleep, Down
  <2>2. now' \in 0..Horizon
    BY <2>1, HorizonAssumption DEF TypeOK
  <2>3. CASE Sleep(n)
    BY <1>1, <2>1, <2>2, <2>3 DEF TypeOK, Sleep
  <2>4. CASE Down(n)
    BY <1>1, <2>1, <2>2, <2>4 DEF TypeOK, Down
  <2>. QED
    BY <1>4, <2>3, <2>4
<1>5. CASE Fire
  BY <1>1, <1>5 DEF TypeOK, Fire, Due
<1>6. CASE Skip \/ EndRun \/ Save \/ Load
  BY <1>1, <1>6 DEF TypeOK, Skip, Due, EndRun, Save, Load
<1>7. CASE RunNow
  BY <1>1, <1>7 DEF TypeOK, RunNow
<1>. QED
  BY <1>2, <1>3, <1>4, <1>5, <1>6, <1>7 DEF Next

\* Type correctness: what is in the map is a point in time, and only while the
\* scheduler is up.
THEOREM RecurrenceTypeCorrect ==
    ASSUME TameZones, IntervalsFit
    PROVE  Spec => []TypeOK
<1>1. Init => TypeOK
  BY InitTypeOK
<1>2. TypeOK /\ [Next]_vars => TypeOK'
  BY NextTypeOK
<1>. QED
  BY <1>1, <1>2, PTL DEF Spec

\* CalculateNextRun: a recurring task is never armed for the past, so no run is due
\* as soon as the one before it has ended.
THEOREM NextRunLiesAhead ==
    ASSUME TameZones, IntervalsFit
    PROVE  Spec => ArmedForTheFuture
<1>1. Init => TypeOK
  BY InitTypeOK
<1>2. TypeOK /\ [Next]_vars => TypeOK'
  BY NextTypeOK
<1>3. TypeOK /\ [Next]_vars => [entry' \notin {entry, None} => entry' > now']_vars
  <2>. SUFFICES ASSUME TypeOK, [Next]_vars, entry' \notin {entry, None}
                PROVE  entry' > now'
    OBVIOUS
  <2>1. entry' = CalculateNextRun(now) /\ now' = now
    BY Armed
  <2>2. CalculateNextRun(now) > now
    BY NextRunIsAhead DEF TypeOK
  <2>. QED
    BY <2>1, <2>2
<1>. QED
  BY <1>1, <1>2, <1>3, PTL DEF Spec, ArmedForTheFuture

\* The next run is the first minute ahead that the schedule names: none in between is
\* left out, whatever the schedule and the lengths of hour, day and week are.  Only
\* within an hour of a change of the clocks is it a minute that time.Date chose.
THEOREM NextRunIsNextSlot ==
    ASSUME TameZones, IntervalsFit
    PROVE  Spec => ArmedForTheNextSlot
<1>. DEFINE Step == entry' \notin {entry, None} /\ task.schedule.type # "interval"
                      => /\ \A t \in (now' + 1)..(entry' - 1) : ~IsSlot(t)
                         /\ IsSlot(entry') \/ Irregular(entry')
<1>1. Init => TypeOK
  BY InitTypeOK
<1>2. TypeOK /\ [Next]_vars => TypeOK'
  BY NextTypeOK
<1>3. TypeOK /\ [Next]_vars => [Step]_vars
  <2>. SUFFICES ASSUME TypeOK, [Next]_vars, entry' \notin {entry, None},
                       task.schedule.type # "interval"
                PROVE  /\ \A t \in (now' + 1)..(entry' - 1) : ~IsSlot(t)
                       /\ IsSlot(entry') \/ Irregular(entry')
    OBVIOUS
  <2>1. PICK next : next = CalculateNextRun(now) /\ entry' = next /\ now' = now
    BY Armed
  <2>2. now \in Nat
    BY DEF TypeOK
  <2>3. /\ IsSlot(next) \/ Irregular(next)
        /\ \A t \in (now + 1)..(next - 1) : ~IsSlot(t)
    BY <2>1, <2>2, NextRunIsAhead
  <2>. QED
    BY <2>1, <2>3
<1>4. ArmedForTheNextSlot <=> [][Step]_vars
  BY PTL DEF ArmedForTheNextSlot
<1>. QED
  BY <1>1, <1>2, <1>3, <1>4, PTL DEF Spec

-----------------------------------------------------------------------------
(* A day has one run.                                                      *)

\* Of a schedule by the day, the entry and the slot that was fired last are the minutes
\* of their days, one after the other.
SlotInv ==
    ByDay(task.schedule) =>
        /\ entry # None => entry = Slot(DayOf(Wall(entry))) /\ (lastSlot # None => lastSlot < entry)
        /\ lastSlot # None => lastSlot = Slot(DayOf(Wall(lastSlot))) /\ lastSlot <= now

LEMMA NextSlotInv ==
    ASSUME TameZones, IntervalsFit, TypeOK, SlotInv, [Next]_vars
    PROVE  SlotInv'
<1>. DEFINE OfItsDay(t) == t = Slot(DayOf(Wall(t)))
<1>0. UNCHANGED <<zone, task>>
  BY Armed
<1>. SUFFICES ASSUME ByDay(task.schedule)
              PROVE  SlotInv'
  BY <1>0 DEF SlotInv, ByDay
<1>1. \A t : OfItsDay(t)' <=> OfItsDay(t)
  BY <1>0 DEF Slot, Wall, Offset, Date, BeforeFits, AfterFits, Before, After
<1>2. now \in Nat /\ entry \in Int /\ lastSlot \in Int
  BY DEF TypeOK, None
<1>3. /\ entry # None => OfItsDay(entry) /\ (lastSlot # None => lastSlot < entry)
      /\ lastSlot # None => OfItsDay(lastSlot) /\ lastSlot <= now
  BY DEF SlotInv
<1>4. ASSUME /\ entry' # None => OfItsDay(entry') /\ (lastSlot' # None => lastSlot' < entry')
             /\ lastSlot' # None => OfItsDay(lastSlot') /\ lastSlot' <= now'
      PROVE  SlotInv'
  BY <1>0, <1>4 DEF SlotInv, Slot, Wall, Offset, Date, BeforeFits, AfterFits, Before, After
<1>5. CASE Skip \/ EndRun \/ Save \/ Load
  <2>1. PICK next : next = CalculateNextRun(now) /\ entry' = next /\ UNCHANGED <<now, lastSlot>>
    BY <1>5 DEF Skip, EndRun, Save, Load
  <2>2. next \in Nat /\ OfItsDay(next) /\ next > now
    BY <1>2, <2>1, NextRunIsAhead
  <2>. HIDE DEF OfItsDay
  <2>. QED
    BY <1>2, <1>3, <1>4, <2>1, <2>2
<1>. HIDE DEF OfItsDay
<1>6. CASE Fire
  BY <1>2, <1>3, <1>4, <1>6 DEF Fire, Due
<1>7. CASE UNCHANGED vars \/ RunNow
  BY <1>3, <1>4, <1>7 DEF RunNow, vars
<1>8. ASSUME now' >= now, UNCHANGED lastSlot, UNCHANGED entry \/ entry' = None,
             now' \in Int
      PROVE  SlotInv'
  BY <1>2, <1>3, <1>4, <1>8
<1>9. CASE Minute
  BY <1>2, <1>8, <1>9 DEF Minute
<1>10. ASSUME NEW n \in Sleeps, Sleep(n) \/ Down(n) PROVE SlotInv'
  BY <1>2, <1>8, <1>10, SleepAssumption DEF Sleep, Down
<1>. QED
  BY <1>5, <1>6, <1>7, <1>9, <1>10 DEF Next

\* A daily or weekly schedule fires at most once for a day, whatever is edited, run by
\* hand or skipped, however often the machine sleeps and the scheduler restarts, and
\* also on the day on which the clocks change.
THEOREM OneRunPerDay ==
    ASSUME TameZones, IntervalsFit
    PROVE  Spec => OncePerDay
<1>. DEFINE Inv == TypeOK /\ SlotInv
<1>1. Init => Inv
  BY InitTypeOK DEF Init, SlotInv
<1>2. Inv /\ [Next]_vars => Inv'
  BY NextTypeOK, NextSlotInv
<1>3. Inv /\ [Next]_vars =>
        [lastSlot' # lastSlot /\ lastSlot # None /\ task.schedule.type \in {"daily", "weekly"}
           => DayOf(Wall(lastSlot')) > DayOf(Wall(lastSlot))]_vars
  <2>. SUFFICES ASSUME Inv, [Next]_vars, lastSlot' # lastSlot, lastSlot # None,
                       task.schedule.type \in {"daily", "weekly"}
                PROVE  DayOf(Wall(lastSlot')) > DayOf(Wall(lastSlot))
    OBVIOUS
  <2>1. ByDay(task.schedule)
    BY DEF ByDay
  <2>2. DayCase
    <3>1. PICK case : case = <<zone, task.schedule>> /\ case \in Cases
      BY DEF TypeOK
    <3>2. zone \in Zones /\ task.schedule \in Schedules /\ Tame(zone, task.schedule)
      BY <3>1, CasesAssumption DEF TameZones
    <3>3. ~EveryHour(task.schedule) /\ task.schedule.type # "interval"
      BY DEF EveryHour
    <3>. QED
      BY <2>1, <3>2, <3>3 DEF Tame, DayCase
  <2>3. Fire
    BY DEF Next, vars, Minute, Skip, RunNow, EndRun, Save, Load, Sleep, Down
  <2>4. PICK t, u : t = lastSlot /\ u = lastSlot' /\ u = entry /\ entry # None
    BY <2>3 DEF Fire, Due
  <2>. DEFINE d == DayOf(Wall(t))
              e == DayOf(Wall(u))
  <2>5. t \in Int /\ u \in Int /\ t = Slot(d) /\ u = Slot(e) /\ t < u
    BY <2>1, <2>4 DEF SlotInv, TypeOK, None
  <2>6. d \in Int /\ e \in Int
    BY <2>2, <2>5, SlotsAhead
  <2>7. d < e
    <3>. HIDE DEF d, e
    <3>. QED
      BY <2>2, <2>5, <2>6, SlotsInOrder
  <2>8. Wall(lastSlot') = Wall(u) /\ Wall(lastSlot) = Wall(t)
    BY <2>4
  <2>. QED
    BY <2>6, <2>7, <2>8
<1>. QED
  BY <1>1, <1>2, <1>3, PTL DEF Spec, OncePerDay

=============================================================================
