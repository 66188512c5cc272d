---------------------------- MODULE ReminderClock ----------------------------
(***************************************************************************)
(* The main loop on a host whose wall clock is set back, which             *)
(* isPlausibleUnixTime (time_service.cpp:15-20) does not notice as long as  *)
(* the year is right.  All timers are wall-clock times.                    *)
(***************************************************************************)
EXTENDS ReminderSafety

CONSTANT MaxSetBacks   \* in a behaviour

VARIABLES
    setBacks,
    latest   \* the latest time the clock has shown

clockVars == <<vars, setBacks, latest>>

ClockInit == Init /\ setBacks = 0 /\ latest = 0

\* NTP or an administrator sets the clock back, at any point of the program.
SetBack ==
    /\ setBacks < MaxSetBacks
    /\ setBacks' = setBacks + 1
    /\ \E t \in Times : t < clock /\ clock' = t
    /\ UNCHANGED <<storeVars, schedule, posts, pc, now, state, timers,
                   fetchMemory, iteration, latest>>

Run ==
    /\ Next
    /\ latest' = IF clock' > latest THEN clock' ELSE latest
    /\ UNCHANGED setBacks

ClockNext == Run \/ SetBack

ClockSpec == ClockInit /\ [][ClockNext]_clockVars

-----------------------------------------------------------------------------

LongestDelay == CHOOSE w \in Delays : \A v \in Delays : v <= w

\* The loop has no defence against timers of the time before a set-back, but they
\* are bounded: it fetches, notifies and reminds again when the clock has caught
\* up and the longest delay has passed, however often it was set back.
TimersBounded ==
    \A timer \in {nextFetch, nextNotificationAction, nextContestNoticeAction} :
        timer <= latest + LongestDelay
=============================================================================
