------------------------------ MODULE Schedule -------------------------------
(***************************************************************************)
(* The weekly timetable of heavy I/O (shared/schedule.ts): the hours the   *)
(* operator painted, the local clock they are read by, and what the        *)
(* dashboard says of the next change of the window (status() of engine.ts).*)
(***************************************************************************)
EXTENDS Integers, FiniteSets, Sequences

CONSTANTS
    DaysPerWeek, HoursPerDay, MinutesPerHour,
    EndOfNight,      \* of each day: the hour the overnight preset ends at
    MaxPaints, MaxShifts \* bounds: changes of the timetable, and of the local clock

ASSUME ScheduleAssumption ==
  /\ {DaysPerWeek, HoursPerDay, MinutesPerHour} \subseteq Nat \ {0}
  /\ EndOfNight \in [0..(DaysPerWeek - 1) -> 1..HoursPerDay] /\ {MaxPaints, MaxShifts} \subseteq Nat

Days == 0..(DaysPerWeek - 1)
HoursOfDay == 0..(HoursPerDay - 1)
WeekHours == Days \X HoursOfDay
HoursPerWeek == DaysPerWeek * HoursPerDay
MinutesPerWeek == HoursPerWeek * MinutesPerHour

VARIABLES
    timetable,  \* schedule.heavyIo: the hours that are enabled
    weekClock,  \* the minute of the local week
    told,       \* ghost: what the dashboard was last told, and the minutes left of it
    paints, shifts \* ghost: counters for the bounds

scheduleVars == <<timetable, weekClock, told, paints, shifts>>

Untold == [open |-> FALSE, left |-> -1]  \* nothing that is still to come
Never == -2                              \* null: no hour is enabled

-----------------------------------------------------------------------------
\* zonedParts().
DayAt(clock) == clock \div (HoursPerDay * MinutesPerHour)
HourAt(clock) == (clock \div MinutesPerHour) % HoursPerDay
MinuteAt(clock) == clock % MinutesPerHour

IsHourEnabled(hours, day, hour) == <<day, hour>> \in hours
IsAllowedAt(hours, clock) == IsHourEnabled(hours, DayAt(clock), HourAt(clock))

\* Mutant of Later: midnight does not turn the day.
LaterSameDay(day, hour, n) == <<day, (hour + n) % HoursPerDay>>

\* The cursor of the two loops, n hours on.
Later(day, hour, n) ==
  <<(day + (hour + n) \div HoursPerDay) % DaysPerWeek, (hour + n) % HoursPerDay>>

\* The hours after this one, up to a week less one, that are enabled or that are not.
Ahead(hours, clock, enabled) ==
  {n \in 1..(HoursPerWeek - 1) : Later(DayAt(clock), HourAt(clock), n) \in hours <=> enabled}

Soonest(ns) == CHOOSE n \in ns : \A m \in ns : n <= m

RestOfHour(clock) == MinutesPerHour - MinuteAt(clock)

\* minutesUntilWindowCloses(), of an open window: a full timetable closes in a week.
MinutesUntilCloses(hours, clock) ==
  LET off == Ahead(hours, clock, FALSE)
  IN RestOfHour(clock) + MinutesPerHour * ((IF off = {} THEN HoursPerWeek ELSE Soonest(off)) - 1)

\* minutesUntilWindowOpens(), of a closed one.
MinutesUntilOpens(hours, clock) ==
  LET on == Ahead(hours, clock, TRUE)
  IN IF on = {} THEN Never ELSE RestOfHour(clock) + MinutesPerHour * (Soonest(on) - 1)

\* describeSchedule(): of each day, each stretch of enabled hours, its end exclusive.
DescribeSchedule(hours) ==
  {w \in Days \X HoursOfDay \X (1..HoursPerDay) :
     /\ w[2] < w[3] /\ \A h \in w[2]..(w[3] - 1) : <<w[1], h>> \in hours
     /\ <<w[1], w[2] - 1>> \notin hours /\ <<w[1], w[3]>> \notin hours}

-----------------------------------------------------------------------------
\* status(): what the window is, and in how many minutes it turns.
Looks ==
  LET open == IsAllowedAt(timetable, weekClock)
  IN /\ told' = [open |-> open, left |-> IF open THEN MinutesUntilCloses(timetable, weekClock)
                                         ELSE MinutesUntilOpens(timetable, weekClock)]
     /\ UNCHANGED <<timetable, weekClock, paints, shifts>>

MinutePasses ==
  /\ weekClock' = (weekClock + 1) % MinutesPerWeek
  /\ told' = IF told.left > 0 THEN [told EXCEPT !.left = @ - 1]
             ELSE IF told.left = Never THEN told ELSE Untold
  /\ UNCHANGED <<timetable, paints, shifts>>

\* The clocks change, or the zone in the settings does.
ClockShifts ==
  /\ shifts < MaxShifts /\ shifts' = shifts + 1
  /\ \E hours \in {1, HoursPerWeek - 1} :
       weekClock' = (weekClock + hours * MinutesPerHour) % MinutesPerWeek
  /\ told' = Untold /\ UNCHANGED <<timetable, paints>>

\* setRange().
SetRange(hours, days, of, enabled) == IF enabled THEN hours \cup (days \X of) ELSE hours \ (days \X of)

AllEnabled(block) == block \subseteq timetable

\* An hour, the same hour of every day, or a day.
Blocks == {<<{d}, {h}>> : d \in Days, h \in HoursOfDay} \cup {<<Days, {h}>> : h \in HoursOfDay}
          \cup {<<{d}, HoursOfDay>> : d \in Days}

\* All of a block is turned, on unless all of it is.
Toggles ==
  \E block \in Blocks :
    timetable' = SetRange(timetable, block[1], block[2], ~AllEnabled(block[1] \X block[2]))

\* defaultSchedule(): from one o'clock to the morning.
Overnight == {c \in WeekHours : c[2] >= 1 /\ c[2] < EndOfNight[c[1]]}

Presets == timetable' \in {Overnight, WeekHours, {}}

Paints ==
  /\ paints < MaxPaints /\ paints' = paints + 1
  /\ Toggles \/ Presets
  /\ told' = Untold /\ UNCHANGED <<weekClock, shifts>>

InitSchedule ==
  /\ timetable = Overnight /\ weekClock = 0 /\ told = Untold /\ paints = 0 /\ shifts = 0

NextSchedule == Looks \/ MinutePasses \/ ClockShifts \/ Paints

ScheduleSpec == InitSchedule /\ [][NextSchedule]_scheduleVars

-----------------------------------------------------------------------------
ScheduleTypeOK ==
  /\ timetable \subseteq WeekHours /\ weekClock \in 0..(MinutesPerWeek - 1)
  /\ told.open \in BOOLEAN /\ told.left \in Never..MinutesPerWeek

(* What the dashboard says of the window comes true to the minute, across  *)
(* midnight and the end of the week, if nobody paints and no clock changes *)
(* in between: until then the window stays as it is, then it turns; a      *)
(* window that is never to open does not. A full timetable, which is said  *)
(* to close in a week, does not turn. The windows listed are the enabled   *)
(* hours, each in one of them.                                             *)
WindowTurnsWhenTold ==
  /\ told.left > 0 \/ told.left = Never => IsAllowedAt(timetable, weekClock) = told.open
  /\ told.left = 0 /\ timetable # WeekHours => IsAllowedAt(timetable, weekClock) # told.open
  /\ LET listed == DescribeSchedule(timetable)
     IN \A c \in WeekHours :
          Cardinality({w \in listed : w[1] = c[1] /\ c[2] \in w[2]..(w[3] - 1)})
            = IF c \in timetable THEN 1 ELSE 0
=============================================================================
