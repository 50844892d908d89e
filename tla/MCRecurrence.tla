---------------------------- MODULE MCRecurrence ----------------------------
(* Values of the constants of Recurrence for TLC: days of four hours with  *)
(* two minutes each, and weeks of three days.                              *)
EXTENDS Recurrence

Change(at, by) == [at : {at}, by : {by}, useAfter : BOOLEAN]

\* On day 1, the clock goes back at the end of hour 1, or forward at its start.
NoChange == [at |-> 0, by |-> 0, useAfter |-> FALSE]
Back     == Change(At(1, 2, 0), -Hour)
Forward  == Change(At(1, 1, 0), Hour)
Daily    == [type : {"daily"}, hour : {1, 3}, minute : {0, 1}]
Weekly   == [type : {"weekly"}, day : {1, 2}, hour : {1}, minute : {1}]
Hourly   == [type : {"hourly"}, minute : {0, 1}]
Cron     == [type : {"cron"}, everyHour : {FALSE}, hour : {1}, minute : {1}]
CronEach == [type : {"cron"}, everyHour : {TRUE}, hour : {0}, minute : {1}]
Interval == [type : {"interval"}, minutes : {3, Longest}]

ByDay  == Daily \cup Weekly \cup Cron \cup Interval
ByHour == Hourly \cup CronEach

\* Hourly schedules and clocks that go back are a case of their own.
Regular == (({NoChange} \cup Back \cup Forward) \X ByDay)
             \cup (({NoChange} \cup Forward) \X ByHour)
FallBack == Back \X Hourly

=============================================================================
