------------------------------- MODULE Schedules -------------------------------
(***************************************************************************)
(* When the races of a league are (internal/back/schedule), which sessions *)
(* the daemon creates from it (createNextScheduledMatchSessions), and what *)
(* the schedule page tells of the week to come (internal/web/races.go).    *)
(*                                                                         *)
(* Time is a number of hours since a Sunday at midnight, UTC.  An hour of  *)
(* a schedule is in a time zone; the offsets of zones do not change here.  *)
(***************************************************************************)
EXTENDS Integers, FiniteSets

CONSTANTS
    HoursPerDay,  \* 24
    DaysPerWeek,  \* 7, from Sunday on
    ZoneOffset,   \* [time zones -> hours to add to UTC]
    Leagues,      \* the schedules a league may have
    HoursOpen,    \* hours before its start a session opens at (1)
    MaxHour       \* bound: the clock stops there

ASSUME ScheduleAssumption ==
    /\ HoursPerDay \in Nat \ {0}
    /\ DaysPerWeek \in Nat \ {0}
    /\ HoursOpen \in Nat
    /\ MaxHour \in Nat

\* The hours of a league are in zones that exist; a rolling one has whole numbers,
\* and no negative offset: its NextBetween would return the date it is given, and
\* the loop of the page that goes from one date to the next would not end.
ASSUME LeaguesAssumption ==
    /\ \A zone \in DOMAIN ZoneOffset : ZoneOffset[zone] \in Int
    /\ \A l \in Leagues :
          /\ l.type = "day-of-week" =>
                \A slot \in l.slots :
                    slot[1] \in Int /\ slot[2] \in Int /\ slot[3] \in DOMAIN ZoneOffset
          /\ l.type = "rolling" => l.period \in Int /\ l.offset \in Nat

VARIABLES
    hour,      \* the clock
    schedule,  \* of the league
    passed,    \* the daemon made a pass in this hour
    created,   \* start dates of the sessions that exist
    listed     \* dates that the page has shown

scheduleVars == <<hour, schedule, passed, created, listed>>

Week == HoursPerDay * DaysPerWeek

\* The zero time.
Never == -1

Earliest(S) == CHOOSE t \in S : \A u \in S : t <= u

-------------------------------------------------------------------------------
(***************************************************************************)
(* The scheduler that lists hours of each day of the week: a set of        *)
(* <<day, hour, zone>>.                                                    *)
(***************************************************************************)

Day(t) == t \div HoursPerDay

\* The Sunday of the week of a time, as a day.
Sunday(t) == Day(t) - (Day(t) % DaysPerWeek)

flattenHours_InUTC(slots, t) ==
    {(Sunday(t) + slot[1]) * HoursPerDay + slot[2] : slot \in slots}

\* The dates of the week of t, which is that of t in UTC; an hour before or after
\* midnight in its zone may be out of it.
flattenHours(slots, t) ==
    {(Sunday(t) + slot[1]) * HoursPerDay + slot[2] - ZoneOffset[slot[3]] : slot \in slots}

\* NextBetween calls itself from the midnights that follow t, up to max, until one
\* of these times is followed by a date in its week.
DayOfWeekNext(slots, t, max) ==
    LET After(u) == {h \in flattenHours(slots, u) : h > u}
        from == {u \in {t} \cup {d * HoursPerDay : d \in (Day(t) + 1)..Day(max)} :
                    u <= max /\ After(u) # {}}
        next == Earliest(After(Earliest(from)))
    IN  IF from = {} \/ next > max THEN Never ELSE next

-------------------------------------------------------------------------------
(***************************************************************************)
(* The scheduler that has a race every so many hours, in some of the       *)
(* periods: a record [period, offset, modulus, remainders].                *)
(***************************************************************************)

\* The search begins with the period that follows that of t.
RollingNext(rolling, t, max) ==
    LET Date(id) == rolling.period * id + rolling.offset
        first == t \div rolling.period + 1
        dates == {Date(id) : id \in {i \in first..(max - rolling.offset) :
                      i % rolling.modulus \in rolling.remainders}}
        due == {d \in dates : t <= d /\ d <= max}
    IN  IF rolling.period <= 0 \/ due = {} THEN Never ELSE Earliest(due)

\* Scheduler.NextBetween of a league; one without a valid schedule has no races.
NextBetween(t, max) ==
    CASE schedule.type = "day-of-week" -> DayOfWeekNext(schedule.slots, t, max)
      [] schedule.type = "rolling"     -> RollingNext(schedule, t, max)
      [] OTHER                         -> Never

-------------------------------------------------------------------------------
(***************************************************************************)
(* The daemon and the page.                                                *)
(***************************************************************************)

\* Scheduler.Next, in a week from now on.
NextRace == NextBetween(hour, hour + Week)

\* createNextScheduledMatchSessions: the very next race, unless it exists.
CreateNext ==
    /\ created' = IF NextRace = Never THEN created ELSE created \cup {NextRace}
    /\ passed' = TRUE
    /\ UNCHANGED <<hour, schedule, listed>>

\* The dates of the calendar in a span of time, whatever the week.
Calendar(t, max) ==
    IF schedule.type = "day-of-week"
    THEN {d \in t..max : \E slot \in schedule.slots :
             (d + ZoneOffset[slot[3]] - slot[2] - slot[1] * HoursPerDay) % Week = 0}
    ELSE IF schedule.type = "rolling"
    THEN {d \in t..max :
             /\ (d - schedule.offset) % schedule.period = 0
             /\ ((d - schedule.offset) \div schedule.period) % schedule.modulus
                    \in schedule.remainders}
    ELSE {}

SchedulesBetween_FromCalendar(start, end) == Calendar(start + 1, end - 1)

\* getSchedulesBetween: a date, the next one from it, and so on before the end.
SchedulesBetween(start, end) ==
    LET from[t \in start..end] ==
            LET next == NextBetween(t, end)
            IN  IF next = Never \/ next >= end \/ next = t THEN {} ELSE {next} \cup from[next]
    IN  from[start]

\* Somebody opens the schedule page: it lists the sessions that are open, of this
\* league or of others, and what is scheduled in the week after the last of them.
OpenPage ==
    /\ \E lastStartDate \in hour..(hour + HoursOpen) :
          listed' = listed \cup SchedulesBetween(lastStartDate, lastStartDate + Week)
    /\ UNCHANGED <<hour, schedule, passed, created>>

\* An hour passes; the daemon makes a pass every minute.
HourPasses ==
    /\ passed
    /\ hour < MaxHour
    /\ hour' = hour + 1
    /\ passed' = FALSE
    /\ UNCHANGED <<schedule, created, listed>>

SchedulesInit ==
    /\ hour = 0
    /\ schedule \in Leagues
    /\ passed = FALSE
    /\ created = {} /\ listed = {}

SchedulesNext == CreateNext \/ OpenPage \/ HourPasses

SchedulesSpec == SchedulesInit /\ [][SchedulesNext]_scheduleVars

-------------------------------------------------------------------------------
(***************************************************************************)
(* Properties.                                                             *)
(***************************************************************************)

\* The sessions that are created are on the calendar of the league, in the zone of
\* each hour, and a race that the page has shown has its session by its date,
\* although the page and the daemon look it up from different times
\* (races.go, getSchedulesBetween; back_periodic.go).
ScheduleIsHeld ==
    /\ created \subseteq Calendar(0, MaxHour + Week)
    /\ passed => \A d \in listed : d <= hour => d \in created

\* schedule.go: "NextBetween returns the first event occurring between two point
\* in time": the next race is the first of the calendar after now.
NextIsFirst ==
    LET events == Calendar(hour + 1, hour + Week)
    IN  NextRace = IF events = {} THEN Never ELSE Earliest(events)
===============================================================================
