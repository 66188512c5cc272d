--------------------------- MODULE ReminderSafety ---------------------------
(***************************************************************************)
(* What the main loop must keep true: its state predicates and its action   *)
(* property, and the invariant that the proofs of them rest on.            *)
(***************************************************************************)
EXTENDS ReminderLoop

Times == 0 .. MaxTime

PostKeys ==
    NotificationKeys \cup {NoticePost(key) : key \in NoticeKeys}
                     \cup {WeeklyPost(date) : date \in Dates}

ProgramPoints ==
    {"boot", "top", "fetch", "weeklySend", "weeklyMark", "notice", "noticeSend",
     "noticeMark", "remind", "remindSend", "remindMark", "sleep"}

\* The variables of run(), the tables and the environment keep their types.
TypeOK ==
    /\ StoreTypeOK
    /\ clock \in Times
    /\ page \in [Ids -> Slots \cup {None}]
    /\ posts \subseteq PostKeys
    /\ edits \in 0 .. MaxEdits
    /\ crashes \in 0 .. MaxCrashes
    /\ pc \in ProgramPoints
    /\ now \in Times
    /\ state \in CurrentContests \cup {None}
    /\ nextFetch \in Times
    /\ nextNotificationAction \in Times
    /\ nextContestNoticeAction \in Times
    /\ fetchFailures \in 0 .. FailureCap
    /\ weeklyFetchRequestedDate \in Dates \cup {None}
    /\ finishedContestFetchRequestedId \in Ids \cup {None}
    /\ confirmedFutureContests \subseteq Contests
    /\ allowNotificationAction \in BOOLEAN
    /\ weeklyCheckPending \in BOOLEAN
    /\ notice \in [key : NoticeKeys, contest : Contests] \cup {None}

-----------------------------------------------------------------------------
(* The records against the channel.                                        *)

SentStatusesPosted(s) ==
    /\ s.normalStatus = "sent" =>
          <<"normal", s.contest.id, s.normalSentForStartTime>> \in posts
    /\ s.changeStatus = "sent" =>
          <<"change", s.contest.id, s.changeSentForStartTime>> \in posts

\* Nothing is recorded as sent, in any table or in memory, unless Discord has
\* the message: a failed or unanswered POST is never taken for a success
\* (main.cpp:313-323 and 357-371), whatever fails or dies around it.
SentMeansPosted ==
    /\ \A key \in NotificationKeys : history[key] = "sent" => key \in posts
    /\ \A key \in NoticeKeys :
          notices[key] # None /\ notices[key].status = "sent"
             => NoticePost(key) \in posts
    /\ \A s \in {state, current} \ {None} : SentStatusesPosted(s)

\* A reminder or notice that is in the channel has a row in its table, written
\* before the POST (main.cpp:348 and 229): a restart always finds a trace of it.
PostedMeansRecorded ==
    /\ \A key \in NotificationKeys : key \in posts => history[key] # "absent"
    /\ \A key \in NoticeKeys : NoticePost(key) \in posts => notices[key] # None

\* The target the process holds and the stored one are the same contest with
\* the same normal status, whichever saves failed before (main.cpp:248 only
\* logs): a crash at any point cannot make the service announce a contest
\* again that memory knows as announced.  Before the first successful save
\* there is no row and nothing has been sent.
RestartKeepsProgress ==
    pc # "boot" /\ state # None =>
        IF current = None
        THEN state.normalStatus = "pending"
        ELSE /\ current.contest.id = state.contest.id
             /\ current.normalStatus = state.normalStatus
             /\ current.normalSentForStartTime = state.normalSentForStartTime

\* advanceToNextContest (state_repository.cpp:187-198) reports success even if
\* its INSERT OR IGNORE was ignored, and then keeps the old target: memory and
\* database would part.  That never happens, because the key of a contest that
\* is still the target, in memory or stored, is unused.
AdvanceAlwaysInserts ==
    \A s \in {state, current} \ {None} : notices[NoticeKey(s.contest)] = None

-----------------------------------------------------------------------------
(* The statuses of the target.                                             *)

\* The combinations of the eight fields updateFromAtCoder, the reminder block
\* and markSentState may leave behind.
Coherent(s) ==
    /\ s.reminderTime = s.contest.startTime - ReminderBefore
    /\ s.normalStatus = "sent" <=> s.normalSentForStartTime # None
    /\ s.changeStatus # "none" => s.normalStatus = "sent"
    /\ s.changeStatus = "sent" => s.changeSentForStartTime # None
    /\ s.pendingKind = "normal" => s.normalStatus = "pending"
    /\ s.pendingKind = "change" <=> s.changeStatus = "pending"
    /\ s.pendingMessageKey =
          IF s.pendingKind = None THEN None
          ELSE notificationKey(s.pendingKind, s.contest)

\* Target and stored row stay coherent through every order of reschedules,
\* sends, failed saves and restarts.  A correction is pending only for a
\* contest that was announced, and its pending kind always goes with it, which
\* makes the branch at main.cpp:335 unreachable.
StatusCoherent == \A s \in {state, current} \ {None} : Coherent(s)

\* A normal reminder leaves only inside its window, two hours before the start
\* it announces and not later than it, judged at the iteration's now, although
\* a reminder that is already pending is sent without asking shouldSendNormal
\* again (main.cpp:332-334).
NormalInWindow ==
    pc = "remindSend" /\ state.pendingKind = "normal" =>
        shouldSendNormal(state, now)

\* A normal reminder the history records as sent is not sent again for that
\* start time (FR-10), although the loop never reads the history.
NormalNotRepeated ==
    pc = "remindSend" /\ state.pendingKind = "normal" =>
        history[state.pendingMessageKey] = "pending"

\* A reminder or correction that is due and was not sent in an iteration whose
\* fetch allowed it has a retry ahead: it is not dropped.
DueReminderRetried ==
    /\ pc = "sleep" /\ state # None /\ allowNotificationAction
    /\ now < state.contest.startTime /\ now < MaxTime
    /\ shouldSendNormal(state, now) \/ state.changeStatus = "pending"
    => nextNotificationAction > now

-----------------------------------------------------------------------------
(* The notice of the next contest and the Saturday check.                  *)

\* The notice about to be sent is still pending, and the schedule it shows is
\* the one stored in its row and the one on the last complete page, and it
\* lies ahead (main.cpp:290-308).
NoticeMatchesRow ==
    pc \in {"noticeSend", "noticeMark"} =>
        /\ notice.key \in PendingNotices
        /\ notices[notice.key].contest = notice.contest
        /\ notice.contest \in confirmedFutureContests
        /\ notice.contest.startTime > now

\* "No ABC today" is posted only on a day for which AtCoder lists none, even if
\* rows of the page cannot be read.  (An edit of the page after the post is
\* outside the service's reach.)
AbsencePostsAreTrue ==
    edits = 0 =>
        \A date \in Dates : WeeklyPost(date) \in posts =>
            \A id \in Listed : jstDateKey(page[id][1]) # date

\* A Saturday that is recorded as done is not announced again.
AbsenceNotRepeated ==
    pc = "weeklySend" => jstDateKey(now) \notin weekly

-----------------------------------------------------------------------------
(* What makes AdvanceAlwaysInserts and NormalInWindow inductive.           *)

InIteration == pc \notin {"boot", "top"}

\* Every notice row tells of a contest that ended, at the latest now, before
\* the target starts: a contest that becomes the target, or is moved while it
\* is one, starts after the current time, so it never meets an old row's key.
NoticesOfThePast ==
    \A key \in NoticeKeys : notices[key] # None =>
        LET end == notices[key].previousEndTime
        IN  /\ key[2] < end
            /\ end <= clock
            /\ InIteration => end <= now
            /\ \A s \in {state, current} \ {None} : end < s.contest.startTime

\* A normal reminder is pending only from its reminder time on, for the schedule
\* the target has: a reschedule (main.cpp:65-70) takes it back.
PendingMeansDue ==
    \A s \in {state, current} \ {None} : s.pendingKind = "normal" =>
        /\ s.reminderTime <= clock
        /\ InIteration => s.reminderTime <= now

\* What the steps after a record or a load rely on.
AtSend ==
    /\ pc \in {"noticeSend", "noticeMark"} => notice # None
    /\ pc \in {"remindSend", "remindMark"} =>
          /\ state # None
          /\ state.pendingKind # None
          /\ now < state.contest.startTime

\* What does not compare a remembered time with the clock: it is inductive by
\* itself, and the part that outlives a clock that is set back.
Timeless == TypeOK /\ StatusCoherent /\ AtSend

\* The time an iteration goes by has been.
NowReached == now <= clock

Inductive == Timeless /\ NowReached /\ NoticesOfThePast /\ PendingMeansDue

\* What the loop sets its timers ahead by; a backoff is one of these or between two.
Delays ==
    {LongInterval, MidInterval, ShortInterval, RetryDelay, ConfigDelay,
     FetchInterval, MaxBackoff}

-----------------------------------------------------------------------------
(* Steps.                                                                  *)

\* No step, failure or restart takes back a record: a sent or skipped notice
\* keeps its status, sent reminders stay sent, a checked Saturday stays
\* checked, and a stored target is replaced but never lost.
RecordsKept ==
    /\ \A key \in NotificationKeys :
          history[key] # "absent" => history'[key] \in {history[key], "sent"}
    /\ \A key \in NoticeKeys : notices[key] # None =>
          /\ notices'[key] # None
          /\ notices[key].status # "pending" => notices'[key] = notices[key]
    /\ weekly \subseteq weekly'
    /\ current # None => current' # None

RecordsNeverRegress == [][RecordsKept]_storeVars
=============================================================================
