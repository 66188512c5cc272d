---------------------------- MODULE ReminderPace ----------------------------
(***************************************************************************)
(* How often the main loop asks AtCoder, with the last time it did as a     *)
(* history variable that no step reads.                                    *)
(***************************************************************************)
EXTENDS ReminderSafety

VARIABLE lastFetch   \* now of the last fetch since the process started, or None

paceVars == <<vars, lastFetch>>

FetchBegins == pc = "top" /\ pc' = "fetch"

PaceInit == Init /\ lastFetch = None

PaceNext ==
    /\ Next
    /\ lastFetch' = IF pc' = "boot" THEN None
                    ELSE IF FetchBegins THEN now'
                    ELSE lastFetch

PaceSpec == PaceInit /\ [][PaceNext]_paceVars

-----------------------------------------------------------------------------

ShortestDelay == CHOOSE w \in Delays : \A v \in Delays : w <= v

\* The two reasons to ask AtCoder before its time: the end of a target, once per
\* contest, and the Saturday check, once per date (main.cpp:156-177).
AskedFor ==
    \/ finishedContestFetchRequestedId' # finishedContestFetchRequestedId
    \/ weeklyFetchRequestedDate' # weeklyFetchRequestedDate

\* As long as the process lives, it does not ask AtCoder again before the
\* shortest of its delays has passed (five minutes), unless a target's end or the
\* Saturday check asks for it: not on every poll, whatever fails in the fetch, the
\* Saturday check or the notice block, several of which set nextFetch in one
\* iteration, and in later ones that do not fetch (main.cpp:179-326).
FetchesApart ==
    [][FetchBegins /\ lastFetch # None /\ now' < MaxTime
          => now' >= lastFetch + ShortestDelay \/ AskedFor]_paceVars
=============================================================================
