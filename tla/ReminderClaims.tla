--------------------------- MODULE ReminderClaims ---------------------------
(***************************************************************************)
(* Statements of the repository's documents and comments about the main     *)
(* loop that its code does not keep.  Each is an invariant that one run     *)
(* refutes; the README quotes the lines.                                   *)
(***************************************************************************)
EXTENDS ReminderSafety

\* main.cpp:187-190: after a fetch without a complete candidate "retry and do
\* not send in this iteration until a complete ABC candidate is available
\* again".  The flag that holds the reminder back is reset by the next poll.
NoSendAfterFailedFetch == pc = "remindSend" => fetchFailures = 0

\* Requirement FR-04: the target is the nearest contest that starts after now.
\* At the end of an iteration no contest of the last complete page that is
\* still ahead starts before the target, if the target is ahead as well.
TargetIsNearest ==
    pc = "sleep" /\ state # None /\ state.contest.startTime > now =>
        \A c \in confirmedFutureContests :
            c.startTime > now => state.contest.startTime <= c.startTime

\* Design 12.1 (line 717): one correction per new schedule.  A message key the
\* history records as sent is not posted again.
RecordedNotResent ==
    pc = "remindSend" => history[state.pendingMessageKey] # "sent"

\* Design 6.5 (line 376): after the contest's start no normal reminder is sent.
NoReminderAfterStart ==
    pc = "remindSend" /\ state.pendingKind = "normal" =>
        clock < state.contest.startTime

\* FR-09: the correction shows the contest's new date.  makeNotificationContent
\* (message_template.cpp:25-35) writes "today" and the hours for a correction as
\* well, which is right only if the contest starts on the day of the post.
TodayMeansToday ==
    pc = "remindSend" /\ state.pendingKind = "change" =>
        jstDateKey(state.contest.startTime) = jstDateKey(now)

\* tests/test_main.cpp:143: the Saturday check "must stop at Sunday midnight JST".
\* The note that no ABC takes place today leaves on the day it is about.
AbsencePostedOnItsDay ==
    pc = "weeklySend" => jstDateKey(clock) = jstDateKey(now)
=============================================================================
