---------------------------- MODULE ReminderLoop ----------------------------
(***************************************************************************)
(* The service's main loop (run() in src/src/main.cpp) with what it talks  *)
(* to: the clock, AtCoder's schedule page, the state database and Discord. *)
(*                                                                         *)
(* The process is one thread, so its steps are the stretches of code that  *)
(* end at a call others can see: an HTTP request, a database transaction,  *)
(* the sleep.  Between two steps time passes, AtCoder edits its page and   *)
(* the process may die; systemd starts it again and only the database is   *)
(* left.                                                                   *)
(***************************************************************************)
EXTENDS StateStore, SchedulePage, DiscordClient, FiniteSets

CONSTANTS
    MaxTime,       \* the clock stops here: "MaxTime or any later time"
    Poll,          \* config.pollSeconds: 30
    RetryDelay,    \* 300
    ConfigDelay,   \* 1800
    ClockDelay,    \* one minute, after an implausible clock reading
    FetchInterval, \* 60 * 60
    MaxBackoff,    \* 3600
    CallDelays,    \* how long an HTTP request may block
    StoreDelays,   \* how long a step's database calls may wait for a lock
    ClocksAgree,   \* whether this host's clock is AtCoder's
    InitialPages,  \* the schedules AtCoder may list at first
    MaxEdits,      \* schedule edits in a behaviour
    MaxCrashes,    \* process deaths in a behaviour
    Faults         \* the kinds of failure that may happen

VARIABLES
    (* environment *)
    clock, posts, edits, crashes,   \* and the page
    (* the process: where it is, and the variables of run() *)
    pc, now, state, nextFetch, nextNotificationAction, nextContestNoticeAction,
    fetchFailures, weeklyFetchRequestedDate, finishedContestFetchRequestedId,
    confirmedFutureContests, allowNotificationAction, weeklyCheckPending, notice

environment == <<clock, page, posts, edits, crashes>>
schedule    == <<page, edits, crashes>>
timers      == <<nextFetch, nextNotificationAction, nextContestNoticeAction>>
fetchMemory == <<fetchFailures, weeklyFetchRequestedDate,
                 finishedContestFetchRequestedId, confirmedFutureContests>>
iteration   == <<allowNotificationAction, weeklyCheckPending, notice>>

vars == <<storeVars, environment, pc, now, state, timers, fetchMemory, iteration>>

ASSUME LoopAssumption ==
    /\ MaxTime \in Nat
    /\ Poll \in Nat \ {0}
    /\ RetryDelay \in Nat \ {0}
    /\ ConfigDelay \in Nat \ {0}
    /\ ClockDelay \in Nat \ {0}
    /\ FetchInterval \in Nat \ {0}
    /\ MaxBackoff \in Nat \ {0}
    /\ CallDelays \subseteq Nat
    /\ CallDelays # {}
    /\ StoreDelays \subseteq Nat
    /\ StoreDelays # {}
    /\ ClocksAgree \in BOOLEAN
    /\ InitialPages \subseteq [Ids -> Slots \cup {None}]
    /\ None \notin Slots
    /\ None \notin [key : NoticeKeys, contest : Contests]
    /\ MaxEdits \in Nat
    /\ MaxCrashes \in Nat
    /\ Faults \subseteq {"clock", "fetch", "rows", "db", "send"}
    /\ Dates = {jstDateKey(t) : t \in 0 .. MaxTime}

-----------------------------------------------------------------------------
(* Time.                                                                   *)

SmallerOf(a, b) == IF a < b THEN a ELSE b

Capped(t) == SmallerOf(t, MaxTime)

\* A timer or clock value d later; past MaxTime all times are alike.
After(t, d) == Capped(t + d)

\* The error backoff 300 << min(failures - 1, 3), at most an hour.
BackoffFactors == <<1, 2, 4, 8>>

FailureCap == 4   \* further failures change nothing

\* Mutant: without the cap of an hour.
BackoffUncapped(failures) == RetryDelay * BackoffFactors[failures]

Backoff(failures) == SmallerOf(MaxBackoff, RetryDelay * BackoffFactors[failures])

\* Every HTTP request may block; the clock runs on while now keeps its value.
CallTakes(d) == clock' = After(clock, d)

\* So may a database call, which waits for a lock up to busy_timeout, after a
\* request that blocked for d or by itself.
StoreTakesAfter(d) == \E e \in StoreDelays : CallTakes(d + e)

StoreTakes == StoreTakesAfter(0)

-----------------------------------------------------------------------------
(* What a fetch may read from AtCoder's page.                              *)

\* When AtCoder may render the page for a request of this instant that blocks
\* for d, by the host's clock.
RenderTimes(d) == IF ClocksAgree THEN clock .. After(clock, d) ELSE 0 .. MaxTime

FetchResults(t, d) ==
    {r \in UNION {Readings(t, seen) : seen \in RenderTimes(d)} :
        /\ r.tableFound \/ "fetch" \in Faults
        /\ ~r.hasInvalidAbcRows \/ "rows" \in Faults}

findContest(contests, id) == {c \in contests : c.id = id}

-----------------------------------------------------------------------------
(* The CurrentContest updates of main.cpp.                                 *)

\* Mutant: both statuses start as None.
newStateWithoutStatus(contest) ==
    [contest |-> contest, reminderTime |-> reminderTime(contest),
     normalStatus |-> "none", normalSentForStartTime |-> None,
     changeStatus |-> "none", changeSentForStartTime |-> None,
     pendingKind |-> None, pendingMessageKey |-> None]

newState(contest) ==
    [contest                |-> contest,
     reminderTime           |-> reminderTime(contest),
     normalStatus           |-> "pending",
     normalSentForStartTime |-> None,
     changeStatus           |-> "none",
     changeSentForStartTime |-> None,
     pendingKind            |-> None,
     pendingMessageKey      |-> None]

\* Mutant: what was pending for the old schedule stays pending.
RescheduledKeepsPending(s, contest) ==
    IF s.normalStatus = "pending"
    THEN [s EXCEPT !.contest = contest, !.reminderTime = reminderTime(contest)]
    ELSE [s EXCEPT !.contest = contest, !.reminderTime = reminderTime(contest),
                   !.changeStatus = "pending", !.pendingKind = "change",
                   !.pendingMessageKey = notificationKey("change", contest)]

\* updateFromAtCoder when the contest is listed with another schedule.
Rescheduled(s, contest) ==
    IF s.normalStatus = "pending"
    THEN [s EXCEPT !.contest = contest,
                   !.reminderTime = reminderTime(contest),
                   !.changeStatus = "none",
                   !.changeSentForStartTime = None,
                   !.pendingKind = None,
                   !.pendingMessageKey = None]
    ELSE [s EXCEPT !.contest = contest,
                   !.reminderTime = reminderTime(contest),
                   !.changeStatus = "pending",
                   !.pendingKind = "change",
                   !.pendingMessageKey = notificationKey("change", contest)]

\* Mutant: the pending fields are cleared, the status is not set.
markSentClearsOnly(s, kind) ==
    [s EXCEPT !.pendingKind = None, !.pendingMessageKey = None]

markSentState(s, kind) ==
    IF kind = "normal"
    THEN [s EXCEPT !.normalStatus = "sent",
                   !.normalSentForStartTime = s.contest.startTime,
                   !.pendingKind = None,
                   !.pendingMessageKey = None]
    ELSE [s EXCEPT !.changeStatus = "sent",
                   !.changeSentForStartTime = s.contest.startTime,
                   !.pendingKind = None,
                   !.pendingMessageKey = None]

pendingKind(s) ==
    IF s.pendingKind # None THEN s.pendingKind
    ELSE IF s.changeStatus = "pending" THEN "change"
    ELSE None

\* Mutant: only the normal reminder is considered.
ReadyKindNormalOnly(s, t) == IF shouldSendNormal(s, t) THEN "normal" ELSE None

\* The kind the reminder block is ready to send, or None.
ReadyKind(s, t) ==
    IF pendingKind(s) # None THEN pendingKind(s)
    ELSE IF s.changeStatus = "pending" /\ s.normalStatus = "sent" THEN "change"
    ELSE IF shouldSendNormal(s, t) THEN "normal"
    ELSE None

-----------------------------------------------------------------------------
(* Start and end of the process.                                           *)

\* A failed transaction or query: nothing changed, the call returned false.
DbFails == "db" \in Faults /\ UNCHANGED storeVars

MemoryAtStart ==
    /\ nextFetch' = 0
    /\ nextNotificationAction' = 0
    /\ nextContestNoticeAction' = 0
    /\ fetchFailures' = 0
    /\ weeklyFetchRequestedDate' = None
    /\ finishedContestFetchRequestedId' = None
    /\ confirmedFutureContests' = {}
    /\ allowNotificationAction' = TRUE
    /\ weeklyCheckPending' = FALSE
    /\ notice' = None
    /\ now' = 0

\* initialize and load succeed.  When they fail the process exits and systemd
\* starts it again: the same as staying down.
Boot ==
    /\ pc = "boot"
    /\ state' = current
    /\ MemoryAtStart
    /\ pc' = "top"
    /\ UNCHANGED <<storeVars, environment>>

Downtime ==
    /\ pc = "boot"
    /\ clock < MaxTime
    /\ clock' = clock + 1
    /\ UNCHANGED <<storeVars, posts, schedule, pc, now, state, timers,
                   fetchMemory, iteration>>

\* A signal, a power cut or an exception that leaves run(): memory is gone.
Crash ==
    /\ pc # "boot"
    /\ crashes < MaxCrashes
    /\ crashes' = crashes + 1
    /\ state' = None
    /\ MemoryAtStart
    /\ pc' = "boot"
    /\ UNCHANGED <<storeVars, clock, page, posts, edits>>

-----------------------------------------------------------------------------
(* The top of an iteration: lines 148-177.                                 *)

ImplausibleClock ==
    /\ pc = "top"
    /\ "clock" \in Faults
    /\ clock' = After(clock, ClockDelay)
    /\ UNCHANGED <<storeVars, posts, schedule, pc, now, state, timers,
                   fetchMemory, iteration>>

TargetEnded(t) == state # None /\ state.contest.endTime <= t

\* The fetch that the end of the target asks for, once per contest id.
EndFetchDue(t) ==
    TargetEnded(t) /\ finishedContestFetchRequestedId # state.contest.id

\* Mutant: the completed dates are not looked up.
SaturdayCheckAlways(t) == SaturdayCheckDue(t)

SaturdayCheckPending(t) ==
    SaturdayCheckDue(t) /\ jstDateKey(t) \notin weekly

Iterate(checkPending) ==
    LET date      == jstDateKey(clock)
        firstLook == checkPending /\ weeklyFetchRequestedDate # date
    IN  /\ pc = "top"
        /\ now' = clock
        /\ allowNotificationAction' = TRUE
        /\ weeklyCheckPending' = checkPending
        /\ finishedContestFetchRequestedId' =
              IF EndFetchDue(clock) THEN state.contest.id
              ELSE finishedContestFetchRequestedId
        /\ weeklyFetchRequestedDate' =
              IF firstLook THEN date ELSE weeklyFetchRequestedDate
        /\ nextFetch' =
              IF EndFetchDue(clock) \/ firstLook THEN clock ELSE nextFetch
        /\ pc' = IF clock >= nextFetch' THEN "fetch" ELSE "notice"
        /\ IF SaturdayCheckDue(clock) THEN StoreTakes ELSE UNCHANGED clock
        /\ UNCHANGED <<storeVars, schedule, posts, state, notice, fetchFailures,
                       nextNotificationAction, nextContestNoticeAction,
                       confirmedFutureContests>>

BeginIteration == Iterate(SaturdayCheckPending(clock))

\* weeklyCheckCompleted fails: the check waits for the next iteration.
WeeklyLookupFails ==
    /\ "db" \in Faults
    /\ SaturdayCheckDue(clock)
    /\ Iterate(FALSE)

-----------------------------------------------------------------------------
(* The fetch block: lines 179-282.                                         *)

\* Common to every outcome r of a request.
Fetching(r) ==
    /\ pc = "fetch"
    /\ confirmedFutureContests' =
          IF r.tableFound /\ ~r.hasInvalidAbcRows THEN r.contests ELSE {}
    /\ UNCHANGED <<schedule, posts, now, nextNotificationAction,
                   nextContestNoticeAction, weeklyFetchRequestedDate,
                   finishedContestFetchRequestedId, weeklyCheckPending, notice>>

ValidEmptyWeeklySchedule(r) ==
    weeklyCheckPending /\ r.tableFound /\ r.contests = {} /\ ~r.hasInvalidAbcRows

\* Mutant: a single listed contest is taken for an incomplete page.
UsableIfSeveral(r) == r.tableFound /\ Cardinality(r.contests) > 1

Usable(r) ==
    r.tableFound /\ (r.contests # {} \/ ValidEmptyWeeklySchedule(r))

FetchFailed ==
    \E d \in CallDelays : \E r \in FetchResults(now, d) :
        /\ Fetching(r)
        /\ CallTakes(d)
        /\ ~Usable(r)
        /\ allowNotificationAction' = FALSE
        /\ fetchFailures' = SmallerOf(fetchFailures + 1, FailureCap)
        /\ nextFetch' = IF weeklyCheckPending /\ r.tableFound /\ r.hasInvalidAbcRows
                        THEN After(now, RetryDelay)
                        ELSE After(now, Backoff(fetchFailures'))
        /\ pc' = "notice"
        /\ UNCHANGED <<storeVars, state>>

\* Mutant: rows that could not be read do not hold the Saturday check back.
UsableDespiteInvalidRows(r, fetchAt) ==
    /\ Fetching(r)
    /\ Usable(r)
    /\ fetchFailures' = 0
    /\ nextFetch' = fetchAt
    /\ pc' = IF ~weeklyCheckPending THEN "notice"
             ELSE IF r.hasAbcToday THEN "weeklyMark"
             ELSE "weeklySend"

\* Common to the outcomes that can be used: the next fetch would be at
\* fetchAt, and a pending Saturday check is decided from the same page.
UsableFetch(r, fetchAt) ==
    /\ Fetching(r)
    /\ Usable(r)
    /\ fetchFailures' = 0
    /\ nextFetch' = IF weeklyCheckPending /\ r.hasInvalidAbcRows
                    THEN After(now, RetryDelay) ELSE fetchAt
    /\ pc' = IF ~weeklyCheckPending \/ r.hasInvalidAbcRows THEN "notice"
             ELSE IF r.hasAbcToday THEN "weeklyMark"
             ELSE "weeklySend"

FetchEmptyWeek ==
    \E d \in CallDelays : \E r \in FetchResults(now, d) :
        /\ UsableFetch(r, After(now, FetchInterval))
        /\ CallTakes(d)
        /\ r.contests = {}
        /\ allowNotificationAction' = FALSE
        /\ UNCHANGED <<storeVars, state>>

\* The first target.  A failed save leaves it in memory only.
FetchSelect ==
    \E d \in CallDelays : \E r \in FetchResults(now, d) :
        /\ UsableFetch(r, After(now, FetchInterval))
        /\ r.contests # {}
        /\ state = None
        /\ state' = newState(Earliest(r.contests))
        /\ Save(state') \/ DbFails
        /\ StoreTakesAfter(d)
        /\ UNCHANGED allowNotificationAction

Missing(r) == findContest(r.contests, state.contest.id) = {}

NextContest(r) ==
    IF Missing(r) /\ ~r.hasInvalidAbcRows
    THEN nextContestAfterEnd(state, r.contests, now) ELSE None

\* updateFromAtCoder's effect on the target.
Tracked(r) ==
    IF \E c \in findContest(r.contests, state.contest.id) : c # state.contest
    THEN Rescheduled(state, CHOOSE c \in findContest(r.contests, state.contest.id) : TRUE)
    ELSE state

FetchTrack ==
    \E d \in CallDelays : \E r \in FetchResults(now, d) :
        /\ state # None
        /\ r.contests # {}
        /\ NextContest(r) = None
        /\ ~(Missing(r) /\ TargetEnded(now))
        /\ UsableFetch(r, After(now, atcoderCheckIntervalSeconds(Tracked(r), now)))
        /\ state' = Tracked(r)
        /\ IF Tracked(r) = state THEN CallTakes(d) /\ UNCHANGED storeVars
           ELSE StoreTakesAfter(d) /\ (Save(Tracked(r)) \/ DbFails)
        /\ allowNotificationAction' =
              (allowNotificationAction /\ ~(Missing(r) /\ state.contest.startTime > now))

FetchAdvance ==
    \E d \in CallDelays : \E r \in FetchResults(now, d) :
        /\ state # None
        /\ NextContest(r) # None
        /\ LET successor == newState(NextContest(r))
           IN  /\ UsableFetch(r, After(now, atcoderCheckIntervalSeconds(successor, now)))
               /\ AdvanceToNextContest(state, successor, now)
               /\ state' = successor
        /\ StoreTakesAfter(d)
        /\ UNCHANGED allowNotificationAction

FetchAdvanceFails ==
    \E d \in CallDelays : \E r \in FetchResults(now, d) :
        /\ state # None
        /\ NextContest(r) # None
        /\ UsableFetch(r, After(now, RetryDelay))
        /\ DbFails
        /\ StoreTakesAfter(d)
        /\ allowNotificationAction' = FALSE
        /\ UNCHANGED state

\* The target has ended and the page names no certain successor.
FetchNoNext ==
    \E d \in CallDelays : \E r \in FetchResults(now, d) :
        /\ state # None
        /\ r.contests # {}
        /\ NextContest(r) = None
        /\ Missing(r) /\ TargetEnded(now)
        /\ UsableFetch(r, After(now, RetryDelay))
        /\ CallTakes(d)
        /\ allowNotificationAction' = FALSE
        /\ UNCHANGED <<storeVars, state>>

-----------------------------------------------------------------------------
(* The Saturday check: lines 251-280.                                      *)

\* What a call of discord.send may return and leave in the channel.
Outcomes(mentionRole) ==
    {outcome \in SendOutcomes(mentionRole) :
        outcome.result = "Sent" \/ "send" \in Faults \/ ~CanRequest(mentionRole)}

Posting(post, outcome) ==
    /\ posts' = IF outcome.delivered THEN posts \cup {post} ELSE posts
    /\ \E d \in CallDelays : CallTakes(d)

WeeklyPost(date) == <<"weekly", date, 0>>

WeeklySend ==
    \E outcome \in Outcomes(TRUE) :
        /\ pc = "weeklySend"
        /\ Posting(WeeklyPost(jstDateKey(now)), outcome)
        /\ IF outcome.result = "Sent"
           THEN pc' = "weeklyMark" /\ UNCHANGED nextFetch
           ELSE pc' = "notice" /\ nextFetch' = After(now, RetryDelay)
        /\ UNCHANGED <<storeVars, schedule, now, state, fetchMemory, iteration,
                       nextNotificationAction, nextContestNoticeAction>>

WeeklyMark ==
    /\ pc = "weeklyMark"
    /\ MarkWeeklyCheckCompleted(jstDateKey(now))
    /\ StoreTakes
    /\ pc' = "notice"
    /\ UNCHANGED <<schedule, posts, now, state, timers, fetchMemory, iteration>>

WeeklyMarkFails ==
    /\ pc = "weeklyMark"
    /\ DbFails
    /\ StoreTakes
    /\ nextFetch' = After(now, RetryDelay)
    /\ pc' = "notice"
    /\ UNCHANGED <<schedule, posts, now, state, fetchMemory, iteration,
                   nextNotificationAction, nextContestNoticeAction>>

-----------------------------------------------------------------------------
(* The notice block: lines 284-326.                                        *)

NoticeDue == pc = "notice" /\ now >= nextContestNoticeAction

\* What every outcome of the block leaves alone.
NoticeStep ==
    UNCHANGED <<schedule, now, state, nextNotificationAction, fetchMemory,
                allowNotificationAction, weeklyCheckPending>>

\* Mutant: the retry asks AtCoder at once.
RetryNoticeAtOnce(delay) ==
    /\ nextContestNoticeAction' = After(now, delay)
    /\ nextFetch' = now

\* The retry lambda of line 291.
RetryNotice(delay) ==
    /\ nextContestNoticeAction' = After(now, delay)
    /\ nextFetch' = SmallerOf(nextFetch, After(now, delay))

KeepNoticeTimers == UNCHANGED <<nextContestNoticeAction, nextFetch>>

LeaveNotice == pc' = "remind" /\ notice' = None

\* The row that loadPendingNextContestNotice returned.
Loaded == notices[FirstPendingNotice]

\* The last complete list's entry for the row's contest, as a set.
Confirmed == findContest(confirmedFutureContests, Loaded.contest.id)

\* Mutant: only a contest that is still listed is taken to have started.
ExpiredIfListed == \E c \in Confirmed : c.startTime <= now

Expired == Confirmed = {} /\ Loaded.contest.startTime <= now

NoticeNotDue ==
    /\ pc = "notice"
    /\ now < nextContestNoticeAction
    /\ KeepNoticeTimers
    /\ LeaveNotice
    /\ NoticeStep
    /\ UNCHANGED <<storeVars, clock, posts>>

NoticeNone ==
    /\ NoticeDue
    /\ PendingNotices = {}
    /\ KeepNoticeTimers
    /\ LeaveNotice
    /\ NoticeStep
    /\ StoreTakes
    /\ UNCHANGED <<storeVars, posts>>

\* Only this failure sets the timer without the lambda.
NoticeLoadFails ==
    /\ NoticeDue
    /\ DbFails
    /\ nextContestNoticeAction' = After(now, RetryDelay)
    /\ UNCHANGED nextFetch
    /\ LeaveNotice
    /\ NoticeStep
    /\ StoreTakes
    /\ UNCHANGED posts

NoticeExpire ==
    /\ NoticeDue
    /\ PendingNotices # {}
    /\ Expired
    /\ UpdateNextContestNotice(FirstPendingNotice, "skipped")
    /\ KeepNoticeTimers
    /\ LeaveNotice
    /\ NoticeStep
    /\ StoreTakes
    /\ UNCHANGED posts

NoticeUnconfirmed ==
    /\ NoticeDue
    /\ PendingNotices # {}
    /\ ~Expired
    /\ \A c \in Confirmed : c.startTime <= now
    /\ RetryNotice(RetryDelay)
    /\ LeaveNotice
    /\ NoticeStep
    /\ StoreTakes
    /\ UNCHANGED <<storeVars, posts>>

NoticeRefresh ==
    /\ NoticeDue
    /\ PendingNotices # {}
    /\ \E c \in Confirmed :
          /\ c.startTime > now
          /\ RefreshNextContestNotice(FirstPendingNotice, c)
          /\ notice' = [key |-> FirstPendingNotice, contest |-> c]
    /\ pc' = "noticeSend"
    /\ KeepNoticeTimers
    /\ NoticeStep
    /\ StoreTakes
    /\ UNCHANGED posts

\* markNextContestNoticeSkipped or refreshNextContestNotice fails.
NoticeUpdateFails ==
    /\ NoticeDue
    /\ PendingNotices # {}
    /\ Expired \/ \E c \in Confirmed : c.startTime > now
    /\ DbFails
    /\ RetryNotice(RetryDelay)
    /\ LeaveNotice
    /\ NoticeStep
    /\ StoreTakes
    /\ UNCHANGED posts

NoticePost(key) == <<"next", key[1], key[2]>>

NoticeSend ==
    \E outcome \in Outcomes(FALSE) :
        /\ pc = "noticeSend"
        /\ Posting(NoticePost(notice.key), outcome)
        /\ IF outcome.result = "Sent"
           THEN pc' = "noticeMark" /\ UNCHANGED notice /\ KeepNoticeTimers
           ELSE /\ LeaveNotice
                /\ RetryNotice(IF outcome.result = "ConfigurationError"
                               THEN ConfigDelay ELSE RetryDelay)
        /\ NoticeStep
        /\ UNCHANGED storeVars

NoticeMark ==
    /\ pc = "noticeMark"
    /\ UpdateNextContestNotice(notice.key, "sent")
    /\ KeepNoticeTimers
    /\ LeaveNotice
    /\ NoticeStep
    /\ StoreTakes
    /\ UNCHANGED posts

NoticeMarkFails ==
    /\ pc = "noticeMark"
    /\ DbFails
    /\ RetryNotice(RetryDelay)
    /\ LeaveNotice
    /\ NoticeStep
    /\ StoreTakes
    /\ UNCHANGED posts

-----------------------------------------------------------------------------
(* The reminder block: lines 328-374.                                      *)

RemindStep ==
    UNCHANGED <<schedule, now, nextFetch, nextContestNoticeAction, fetchMemory,
                iteration>>

ReminderReady ==
    /\ allowNotificationAction
    /\ state # None
    /\ now < state.contest.startTime
    /\ now >= nextNotificationAction
    /\ ReadyKind(state, now) # None

\* The target with the notification about to be sent noted as pending.
WithPending(kind) ==
    [state EXCEPT !.pendingKind = kind,
                  !.pendingMessageKey = notificationKey(kind, state.contest)]

RemindIdle ==
    /\ pc = "remind"
    /\ ~ReminderReady
    /\ pc' = "sleep"
    /\ RemindStep
    /\ UNCHANGED <<storeVars, clock, posts, state, nextNotificationAction>>

RemindPending ==
    /\ pc = "remind"
    /\ ReminderReady
    /\ state' = WithPending(ReadyKind(state, now))
    /\ MarkPending(state'.pendingMessageKey, state')
    /\ pc' = "remindSend"
    /\ RemindStep
    /\ StoreTakes
    /\ UNCHANGED <<posts, nextNotificationAction>>

\* The pending kind stays in memory although no row was written.
RemindPendingFails ==
    /\ pc = "remind"
    /\ ReminderReady
    /\ state' = WithPending(ReadyKind(state, now))
    /\ DbFails
    /\ nextNotificationAction' = After(now, RetryDelay)
    /\ pc' = "sleep"
    /\ RemindStep
    /\ StoreTakes
    /\ UNCHANGED posts

\* A reminder is identified in the channel as in the history.
RemindSend ==
    \E outcome \in Outcomes(TRUE) :
        /\ pc = "remindSend"
        /\ Posting(state.pendingMessageKey, outcome)
        /\ IF outcome.result = "Sent"
           THEN pc' = "remindMark" /\ UNCHANGED nextNotificationAction
           ELSE /\ pc' = "sleep"
                /\ nextNotificationAction' =
                      After(now, IF outcome.result = "ConfigurationError"
                                 THEN ConfigDelay ELSE RetryDelay)
        /\ RemindStep
        /\ UNCHANGED <<storeVars, state>>

RemindMark ==
    /\ pc = "remindMark"
    /\ state' = markSentState(state, state.pendingKind)
    /\ MarkSent(state.pendingMessageKey, state')
    /\ nextNotificationAction' = 0
    /\ pc' = "sleep"
    /\ RemindStep
    /\ StoreTakes
    /\ UNCHANGED posts

\* The post is out, yet memory and database still say pending.
RemindMarkFails ==
    /\ pc = "remindMark"
    /\ DbFails
    /\ nextNotificationAction' = After(now, RetryDelay)
    /\ pc' = "sleep"
    /\ RemindStep
    /\ StoreTakes
    /\ UNCHANGED <<posts, state>>

\* The end of the loop body, where its locals go out of scope.
Sleep ==
    /\ pc = "sleep"
    /\ clock' = After(clock, Poll)
    /\ pc' = "top"
    /\ now' = 0
    /\ allowNotificationAction' = TRUE
    /\ weeklyCheckPending' = FALSE
    /\ UNCHANGED <<storeVars, posts, schedule, state, timers, fetchMemory, notice>>

-----------------------------------------------------------------------------
(* AtCoder changes its schedule: a contest that has not ended is announced, *)
(* moved, extended or withdrawn.  A new start lies in the future.           *)

NewSlots(id) ==
    {slot \in Slots \ {page[id]} :
        \/ slot[1] > clock /\ (page[id] # None => page[id][1] > clock)
        \/ /\ page[id] # None
           /\ page[id][1] <= clock /\ slot[1] = page[id][1]
           /\ slot[2] > clock /\ page[id][2] > clock}

Withdrawable(id) == page[id] # None /\ page[id][1] > clock

EditPage ==
    /\ edits < MaxEdits
    /\ edits' = edits + 1
    /\ \E id \in Ids :
          \/ \E slot \in NewSlots(id) : page' = [page EXCEPT ![id] = slot]
          \/ Withdrawable(id) /\ page' = [page EXCEPT ![id] = None]
    /\ UNCHANGED <<storeVars, clock, posts, crashes, pc, now, state, timers,
                   fetchMemory, iteration>>

-----------------------------------------------------------------------------

Init ==
    /\ StoreInit
    /\ clock = 0
    /\ page \in InitialPages
    /\ posts = {}
    /\ edits = 0
    /\ crashes = 0
    /\ pc = "boot"
    /\ now = 0
    /\ state = None
    /\ nextFetch = 0
    /\ nextNotificationAction = 0
    /\ nextContestNoticeAction = 0
    /\ fetchFailures = 0
    /\ weeklyFetchRequestedDate = None
    /\ finishedContestFetchRequestedId = None
    /\ confirmedFutureContests = {}
    /\ allowNotificationAction = TRUE
    /\ weeklyCheckPending = FALSE
    /\ notice = None

FetchStep ==
    /\ pc = "fetch"
    /\ \/ FetchFailed \/ FetchEmptyWeek \/ FetchSelect \/ FetchTrack
       \/ FetchAdvance \/ FetchAdvanceFails \/ FetchNoNext

WeeklyStep == WeeklySend \/ WeeklyMark \/ WeeklyMarkFails

NoticeBlock ==
    \/ NoticeNotDue \/ NoticeNone \/ NoticeLoadFails \/ NoticeExpire
    \/ NoticeUnconfirmed \/ NoticeRefresh \/ NoticeUpdateFails
    \/ NoticeSend \/ NoticeMark \/ NoticeMarkFails

RemindBlock ==
    \/ RemindIdle \/ RemindPending \/ RemindPendingFails
    \/ RemindSend \/ RemindMark \/ RemindMarkFails

\* The steps the running process takes by itself.
ProcessStep ==
    \/ Boot \/ ImplausibleClock \/ BeginIteration \/ WeeklyLookupFails
    \/ FetchStep \/ WeeklyStep \/ NoticeBlock \/ RemindBlock \/ Sleep

Next == ProcessStep \/ Downtime \/ Crash \/ EditPage

Spec == Init /\ [][Next]_vars
=============================================================================
