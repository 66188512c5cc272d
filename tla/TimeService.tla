----------------------------- MODULE TimeService -----------------------------
(***************************************************************************)
(* The calendar of src/src/time_service.cpp: the JST date of a timestamp    *)
(* and the Saturday-evening check date.  The lengths of the day and of the  *)
(* week are constants, so that an instance can use the code's values or a   *)
(* small calendar; a date is its day number, not its text.                 *)
(***************************************************************************)
EXTENDS Integers

CONSTANTS
    DayLength,      \* 86400
    DaysPerWeek,    \* 7
    JstOffset,      \* 9 * 3600
    EpochWeekday,   \* tm_wday of day 0: 4, a Thursday
    CheckTime       \* 19 * 3600, as an offset into the day

ASSUME CalendarAssumption ==
    /\ DayLength \in Nat \ {0}
    /\ DaysPerWeek \in Nat \ {0}
    /\ JstOffset \in Nat
    /\ EpochWeekday \in 0 .. DaysPerWeek - 1
    /\ CheckTime \in 0 .. DayLength - 1

\* tm_wday counts from Sunday: Saturday is the last day of the week.
Saturday == DaysPerWeek - 1

jstDateKey(t) == (t + JstOffset) \div DayLength

TimeOfDay(t) == (t + JstOffset) % DayLength

Weekday(date) == (date + EpochWeekday) % DaysPerWeek

\* dueSaturdayCheckDate returns jstDateKey(now) exactly when this holds.
SaturdayCheckDue(now) ==
    /\ Weekday(jstDateKey(now)) = Saturday
    /\ TimeOfDay(now) >= CheckTime
==============================================================================
