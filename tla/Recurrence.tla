----------------------------- MODULE Recurrence -----------------------------
(***************************************************************************)
(* When one recurring task runs: the next-run arithmetic of schedule.go,   *)
(* in a time zone that may change its clocks, and what the tick, the end   *)
(* of a run, an edit, sleep and restarts of the scheduler make of it       *)
(* (scheduler.go).  Scheduler abstracts all of this to an entry that is    *)
(* early, due or missed.                                                   *)
(*                                                                         *)
(* Time is counted in minutes.  A wall time is such a count, too, on the   *)
(* clock of the zone.  The day, the hour and the week have parameters for  *)
(* their lengths, since nothing depends on 24, 60 and 7.                   *)
(***************************************************************************)
EXTENDS Integers

CONSTANTS
    Hour, Day, Week,    \* minutes in an hour, hours in a day, days in a week
    Longest,            \* the most minutes that fit into a time.Duration
    Cases,              \* the zones and schedules: pairs
    Threshold,          \* missedThreshold
    Sleeps,             \* how long the machine may sleep or the scheduler be down
    Horizon             \* bound: the last minute

\* A zone whose clocks move on by "by" minutes at minute "at".
Zones == [at : Nat, by : Int, useAfter : BOOLEAN]

\* The recurring schedules that ValidateSchedule lets pass.
Minutes == 0..(Hour - 1)
Hours   == 0..(Day - 1)
Schedules ==
    [type : {"daily"}, hour : Hours, minute : Minutes]
      \cup [type : {"hourly"}, minute : Minutes]
      \cup [type : {"weekly"}, day : 0..(Week - 1), hour : Hours, minute : Minutes]
      \cup [type : {"cron"}, everyHour : BOOLEAN, hour : Hours, minute : Minutes]
      \cup [type : {"interval"}, minutes : Nat \ {0}]

ASSUME ClockAssumption == {Hour, Day, Week, Longest} \subseteq Nat \ {0}
ASSUME CasesAssumption == Cases \subseteq Zones \X Schedules
ASSUME ThresholdAssumption == Threshold \in Nat
ASSUME SleepAssumption == Sleeps \subseteq Nat \ {0}
ASSUME HorizonAssumption == Horizon \in Nat

None == -1

VARIABLES
    zone,       \* the zone of the machine; it never changes
    task,       \* the task's schedule and catchUp; it never changes
    now,        \* time.Now
    up,         \* whether the scheduler runs
    entry,      \* nextRun of the entry in Scheduler.tasks; None without one
    running,    \* the task is in Scheduler.running
    lastSlot    \* observation: the slot that the last scheduled run was for

vars == <<zone, task, now, up, entry, running, lastSlot>>

-----------------------------------------------------------------------------
(* The clock of the zone, and time.Date.                                   *)

Offset(t) == IF t >= zone.at THEN zone.by ELSE 0
Wall(t)   == t + Offset(t)

DayOf(w)    == w \div (Day * Hour)
HourOf(w)   == (w \div Hour) % Day
Weekday(w)  == DayOf(w) % Week
At(d, h, m) == (d * Day + h) * Hour + m

Before(w) == w                  \* w read with the offset before the change
After(w)  == w - zone.by        \* w read with the offset after the change

BeforeFits(w) == Wall(Before(w)) = w
AfterFits(w)  == Wall(After(w)) = w

\* Of a wall time that comes twice or never, time.Date uses one offset or the other;
\* its documentation leaves open which, and zone.useAfter says.
Date(w) ==
    IF BeforeFits(w) # AfterFits(w)
    THEN IF BeforeFits(w) THEN Before(w) ELSE After(w)
    ELSE IF zone.useAfter THEN After(w) ELSE Before(w)

-----------------------------------------------------------------------------
(* schedule.go.                                                            *)

\* Bugs: a run that is due right now is taken for the next one; the next run after
\* today's comes an hour later.
BugNextDaily(t, h, m) ==
    LET today == DayOf(Wall(t))
        first == Date(At(today, h, m))
    IN IF first >= t THEN first ELSE Date(At(today + 1, h, m))
BugDailyAgain(t, h, m) ==
    LET first == Date(At(DayOf(Wall(t)), h, m))
    IN IF first > t THEN first ELSE first + Hour

NextDaily(t, h, m) ==
    LET today == DayOf(Wall(t))
        first == Date(At(today, h, m))
    IN IF first > t THEN first ELSE Date(At(today + 1, h, m))

NextHourly(t, m) ==
    LET w     == Wall(t)
        first == Date(At(DayOf(w), HourOf(w), m))
    IN IF first > t THEN first ELSE first + Hour

\* Bug: the run after this week's comes a day later.
BugWeeklyTomorrow(t, d, h, m) ==
    LET w    == Wall(t)
        next == Date(At(DayOf(w) + ((d - Weekday(w)) % Week), h, m))
    IN IF next > t THEN next ELSE Date(At(DayOf(Wall(next)) + 1, h, m))

NextWeekly(t, d, h, m) ==
    LET w    == Wall(t)
        days == (d - Weekday(w)) % Week
        next == Date(At(DayOf(w) + days, h, m))
    IN IF next > t THEN next ELSE Date(At(DayOf(Wall(next)) + Week, h, m))

\* "M H * * *" and "M * * * *" only.
NextCron(t, s) == IF s.everyHour THEN NextHourly(t, s.minute)
                                 ELSE NextDaily(t, s.hour, s.minute)

\* A time.Duration counts nanoseconds in 64 bits; what is longer wraps round, here to
\* the minute.
Duration(minutes) == ((minutes + Longest) % (2 * Longest + 1)) - Longest

CalculateNextRun(t) ==
    LET s == task.schedule IN
    CASE s.type = "daily"    -> NextDaily(t, s.hour, s.minute)
      [] s.type = "hourly"   -> NextHourly(t, s.minute)
      [] s.type = "weekly"   -> NextWeekly(t, s.day, s.hour, s.minute)
      [] s.type = "cron"     -> NextCron(t, s)
      [] s.type = "interval" -> t + Duration(s.minutes)

-----------------------------------------------------------------------------
(* The scheduler.  Only what concerns this one task, which stays enabled.  *)

Rigid == UNCHANGED <<zone, task>>

Due     == up /\ entry # None /\ entry <= now /\ ~running
Overdue == now - entry > Threshold

\* A minute passes.  The tick comes twice in it, so a due entry is seen first.
Minute ==
    /\ now < Horizon
    /\ ~Due
    /\ now' = now + 1
    /\ Rigid /\ UNCHANGED <<up, entry, running, lastSlot>>

\* The machine sleeps.  Runs in progress go on afterwards.
Sleep(n) ==
    /\ up
    /\ now + n <= Horizon
    /\ now' = now + n
    /\ Rigid /\ UNCHANGED <<up, entry, running, lastSlot>>

\* checkAndFireTasks, for a task it fires and for one it skips.
Fire ==
    /\ Due
    /\ task.catchUp \/ ~Overdue
    /\ lastSlot' = entry
    /\ entry' = None
    /\ running' = TRUE
    /\ Rigid /\ UNCHANGED <<now, up>>

Skip ==
    /\ Due
    /\ ~task.catchUp /\ Overdue
    /\ entry' = CalculateNextRun(now)
    /\ Rigid /\ UNCHANGED <<now, up, running, lastSlot>>

\* POST /api/tasks/{id}/run leaves the entry where it is.
RunNow ==
    /\ up /\ ~running
    /\ running' = TRUE
    /\ Rigid /\ UNCHANGED <<now, up, entry, lastSlot>>

\* rescheduleOrDisable.
EndRun ==
    /\ up /\ running
    /\ running' = FALSE
    /\ entry' = CalculateNextRun(now)
    /\ Rigid /\ UNCHANGED <<now, up, lastSlot>>

\* PUT /api/tasks/{id} with the same schedule: ScheduleTask.
Save ==
    /\ up
    /\ entry' = CalculateNextRun(now)
    /\ Rigid /\ UNCHANGED <<now, up, running, lastSlot>>

\* Bug: Stop forgets the running set.
BugDownKeepsRunning(n) ==
    /\ up
    /\ now + n <= Horizon
    /\ now' = now + n
    /\ up' = FALSE
    /\ entry' = None
    /\ Rigid /\ UNCHANGED <<running, lastSlot>>

\* A shutdown or a crash, for some time.
Down(n) ==
    /\ up
    /\ now + n <= Horizon
    /\ now' = now + n
    /\ up' = FALSE
    /\ entry' = None
    /\ running' = FALSE
    /\ Rigid /\ UNCHANGED lastSlot

\* LoadAllTasks.
Load ==
    /\ ~up
    /\ up' = TRUE
    /\ entry' = CalculateNextRun(now)
    /\ Rigid /\ UNCHANGED <<now, running, lastSlot>>

-----------------------------------------------------------------------------
Init ==
    /\ \E case \in Cases, catchUp \in BOOLEAN :
          /\ zone = case[1]
          /\ task = [schedule |-> case[2], catchUp |-> catchUp]
    /\ now = 0
    /\ up = FALSE
    /\ entry = None
    /\ running = FALSE
    /\ lastSlot = None

Next ==
    \/ Minute \/ Fire \/ Skip \/ RunNow \/ EndRun \/ Save \/ Load
    \/ \E n \in Sleeps : Sleep(n) \/ Down(n)

Spec == Init /\ [][Next]_vars

-----------------------------------------------------------------------------
(* Properties.                                                             *)

TypeOK ==
    /\ <<zone, task.schedule>> \in Cases /\ task.catchUp \in BOOLEAN
    /\ now \in 0..Horizon
    /\ up \in BOOLEAN /\ running \in BOOLEAN
    /\ {entry, lastSlot} \subseteq Nat \cup {None}
    /\ ~up => entry = None /\ ~running

\* The comment on CalculateNextRun: "For "once" the result may be in the past" and
\* for nothing else; a past run would be due at once, again and again.
ArmedForTheFuture == [][entry' \notin {entry, None} => entry' > now']_vars

\* The reference: a minute at which the schedule says to run.  A wall time that
\* comes twice or never is left to time.Date.
IsSlot(t) ==
    LET s == task.schedule
        w == Wall(t)
        everyHour == s.type = "hourly" \/ (s.type = "cron" /\ s.everyHour)
    IN /\ zone.by # 0 => ~(BeforeFits(w) /\ AfterFits(w))
       /\ w = At(DayOf(w), IF everyHour THEN HourOf(w) ELSE s.hour, s.minute)
       /\ s.type = "weekly" => Weekday(w) = s.day

\* Within an hour of a clock change.
Irregular(t) == zone.by # 0 /\ zone.at - Hour <= t /\ t <= zone.at + Hour

\* README, "Runs": a task is armed for the first minute after now that its schedule
\* names.  Only next to a clock change may that be another one, never a later one.
ArmedForTheNextSlot ==
    [][entry' \notin {entry, None} /\ task.schedule.type # "interval"
         => /\ \A t \in (now' + 1)..(entry' - 1) : ~IsSlot(t)
            /\ IsSlot(entry') \/ Irregular(entry')]_vars

\* A daily or weekly schedule fires at most once for a day, also on the day of
\* a clock change, whatever edits, sleep and restarts there are.
OncePerDay ==
    [][lastSlot' # lastSlot /\ lastSlot # None /\ task.schedule.type \in {"daily", "weekly"}
         => DayOf(Wall(lastSlot')) > DayOf(Wall(lastSlot))]_vars

=============================================================================
