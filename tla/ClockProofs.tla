----------------------------- MODULE ClockProofs -----------------------------
(***************************************************************************)
(* Theorems about the main loop on a host whose clock is set back, for every *)
(* value of the constants: what outlives the jump.  The invariant Timeless   *)
(* of ReminderLoopProofs and the record lemmas over it do; the comparisons    *)
(* of remembered times with the clock do not, and what rested on them is       *)
(* proved again, from the schedule, as long as AtCoder does not edit it.      *)
(***************************************************************************)
EXTENDS ReminderClock, ReminderRecordProofs

-----------------------------------------------------------------------------
(* Steps.                                                                  *)

\* A step of the loop, or the clock alone.
LEMMA ClockSteps ==
    ASSUME [ClockNext]_clockVars
    PROVE  [Next]_vars \/ SetBack
  BY DEF ClockNext, clockVars, Run

\* A set-back leaves everything but the clock.
LEMMA SetBackRests ==
    ASSUME SetBack
    PROVE  /\ clock' \in Times /\ clock' < clock
           /\ UNCHANGED <<current, history, weekly, notices, page, posts, edits, crashes,
                          pc, now, state, nextFetch, nextNotificationAction,
                          nextContestNoticeAction, fetchFailures,
                          weeklyFetchRequestedDate, finishedContestFetchRequestedId,
                          confirmedFutureContests, allowNotificationAction,
                          weeklyCheckPending, notice, latest>>
  BY DEF SetBack, storeVars, schedule, timers, fetchMemory, iteration

\* The part of the invariant that compares no times outlives a set-back.
LEMMA SetBackTimeless ==
    ASSUME Timeless, SetBack
    PROVE  Timeless'
<1>1. TypeOK'
  BY SetBackRests DEF Timeless, TypeOK, StoreTypeOK
<1>2. StatusCoherent' /\ AtSend'
  BY SetBackRests DEF Timeless, StatusCoherent, AtSend
<1> QED BY <1>1, <1>2 DEF Timeless

\* It holds in every state, however often the clock is set back.
LEMMA ClockTimeless == ClockSpec => []Timeless
<1>1. ClockInit => Timeless
  BY InitTimeless DEF ClockInit
<1>2. Timeless /\ [ClockNext]_clockVars => Timeless'
  BY ClockSteps, NextTimeless, SetBackTimeless
<1> QED BY <1>1, <1>2, PTL DEF ClockSpec

\* Every variable of run(), every table and the environment keep their types
\* across set-backs.
THEOREM ClockTypesCorrect == ClockSpec => []TypeOK
<1>1. Timeless => TypeOK
  BY DEF Timeless
<1> QED BY <1>1, ClockTimeless, PTL

-----------------------------------------------------------------------------
(* The records.                                                            *)

\* A set-back takes back no record (state_repository.cpp:120-330).
THEOREM ClockRecordsStay == ClockSpec => RecordsNeverRegress
<1>1. Timeless /\ Timeless' /\ [ClockNext]_clockVars => [RecordsKept]_storeVars
  <2>1. SetBack => UNCHANGED storeVars
    BY SetBackRests DEF storeVars
  <2> QED BY <2>1, ClockSteps, NextRecordsKept
<1> QED BY <1>1, ClockTimeless, PTL DEF ClockSpec, RecordsNeverRegress

\* On a host whose clock is set back, too, nothing is recorded as sent unless
\* Discord has it (main.cpp:313-323, 357-371).
THEOREM ClockSentIsPosted == ClockSpec => []SentMeansPosted
<1>1. ClockInit => RecordsBacked
  BY DEF ClockInit, Init, StoreInit, RecordsBacked, SentMeansPosted
<1>2. Timeless /\ RecordsBacked /\ [ClockNext]_clockVars => RecordsBacked'
  <2>1. RecordsBacked /\ SetBack => RecordsBacked'
    BY SetBackRests
       DEF RecordsBacked, SentMeansPosted, SentStatusesPosted, NoticePost
  <2> QED BY <2>1, ClockSteps, NextRecordsBacked
<1>3. RecordsBacked => SentMeansPosted
  BY DEF RecordsBacked
<1> QED BY <1>1, <1>2, <1>3, ClockTimeless, PTL DEF ClockSpec

\* PostsRecorded through every step.
LEMMA ClockPostsRecorded == ClockSpec => []PostsRecorded
<1>1. ClockInit => PostsRecorded
  BY DEF ClockInit, Init, PostsRecorded, PostedMeansRecorded
<1>2. Timeless /\ PostsRecorded /\ [ClockNext]_clockVars => PostsRecorded'
  <2>1. PostsRecorded /\ SetBack => PostsRecorded'
    BY SetBackRests DEF PostsRecorded, PostedMeansRecorded, NoticePost
  <2> QED BY <2>1, ClockSteps, NextPostsRecorded
<1> QED BY <1>1, <1>2, ClockTimeless, PTL DEF ClockSpec

\* Every reminder or notice in the channel has its row, written before the POST
\* (main.cpp:229, 348), however the clock jumps in between.
THEOREM ClockPostedIsRecorded == ClockSpec => []PostedMeansRecorded
<1>1. PostsRecorded => PostedMeansRecorded
  BY DEF PostsRecorded
<1> QED BY <1>1, ClockPostsRecorded, PTL

\* A notice goes out with the schedule in its row and on the last complete page,
\* for a contest ahead of the iteration's time (main.cpp:290-308), even if the
\* clock jumps during the POST.
THEOREM ClockNoticeIsCurrent == ClockSpec => []NoticeMatchesRow
<1>1. ClockInit => NoticeMatchesRow
  BY DEF ClockInit, Init, NoticeMatchesRow
<1>2. Timeless /\ NoticeMatchesRow /\ [ClockNext]_clockVars => NoticeMatchesRow'
  <2>1. NoticeMatchesRow /\ SetBack => NoticeMatchesRow'
    BY SetBackRests DEF NoticeMatchesRow, PendingNotices
  <2> QED BY <2>1, ClockSteps, NextNoticeMatchesRow
<1> QED BY <1>1, <1>2, ClockTimeless, PTL DEF ClockSpec

-----------------------------------------------------------------------------
(* The Saturday check.                                                     *)

\* A Saturday that is recorded as done is not announced again when the clock is
\* set back into it (main.cpp:160-167).
THEOREM ClockAbsenceAnnouncedOnce == ClockSpec => []AbsenceNotRepeated
<1>1. ClockInit => CheckOpen
  BY DEF ClockInit, Init, CheckOpen
<1>2. CheckOpen /\ [ClockNext]_clockVars => CheckOpen'
  <2>1. CheckOpen /\ SetBack => CheckOpen'
    BY SetBackRests DEF CheckOpen
  <2> QED BY <2>1, ClockSteps, NextCheckOpen
<1>3. CheckOpen => AbsenceNotRepeated
  BY DEF CheckOpen, AbsenceNotRepeated
<1> QED BY <1>1, <1>2, <1>3, PTL DEF ClockSpec

\* "No ABC today" is only ever posted for a day without one, by whatever clock
\* (main.cpp:253-266).
THEOREM ClockAbsenceIsTrue == ClockSpec => []AbsencePostsAreTrue
<1>1. ClockInit => AbsenceJustified
  BY DEF ClockInit, Init, AbsenceJustified
<1>2. Timeless /\ AbsenceJustified /\ [ClockNext]_clockVars => AbsenceJustified'
  <2>1. AbsenceJustified /\ SetBack => AbsenceJustified'
    BY SetBackRests DEF AbsenceJustified, NoneListed, Listed, WeeklyPost
  <2> QED BY <2>1, ClockSteps, NextAbsenceJustified
<1>3. AbsenceJustified => AbsencePostsAreTrue
  BY DEF AbsenceJustified, AbsencePostsAreTrue, NoneListed
<1> QED BY <1>1, <1>2, <1>3, ClockTimeless, PTL DEF ClockSpec

-----------------------------------------------------------------------------
(* The timers.                                                             *)

\* The longest delay bounds the delays and the waits between them.
LEMMA LongestDelayBounds ==
    /\ LongestDelay \in Nat
    /\ ConfigDelay <= LongestDelay /\ RetryDelay <= LongestDelay
    /\ \A w : FetchWait(w) => w <= LongestDelay
<1>1. LongestDelay \in Delays /\ \A w \in Delays : w <= LongestDelay
  BY ExtremesOfDelays DEF LongestDelay
<1>2. \A w \in Delays : w \in Nat
  BY ExtremesOfDelays
<1>3. ConfigDelay \in Delays /\ RetryDelay \in Delays
  BY DEF Delays
<1> QED BY <1>1, <1>2, <1>3 DEF FetchWait

\* A timer was not set, or to a time that is past, or counted from now.
SetWithin(old, new) ==
    \/ new = old
    \/ new = 0
    \/ new = clock
    \/ \E w \in Nat : w <= LongestDelay /\ new = After(now, w)
    \/ \E w \in Nat : w <= LongestDelay /\ new = SmallerOf(old, After(now, w))

\* Every step sets each timer in one of these ways.
LEMMA TimerSteps ==
    ASSUME TypeOK, [Next]_vars
    PROVE  /\ SetWithin(nextFetch, nextFetch')
           /\ SetWithin(nextNotificationAction, nextNotificationAction')
           /\ SetWithin(nextContestNoticeAction, nextContestNoticeAction')
<1> USE DEF SetWithin
<1>1. /\ RetryDelay \in Nat /\ RetryDelay <= LongestDelay
      /\ ConfigDelay \in Nat /\ ConfigDelay <= LongestDelay
  BY LongestDelayBounds, LoopAssumption
<1>2. CASE FetchStep
  <2>1. /\ nextNotificationAction' = nextNotificationAction
        /\ nextContestNoticeAction' = nextContestNoticeAction
    BY <1>2
       DEF FetchStep, FetchFailed, FetchEmptyWeek, FetchSelect, FetchTrack,
           FetchAdvance, FetchAdvanceFails, FetchNoNext, UsableFetch, Fetching
  <2>2. \E w \in Nat : w <= LongestDelay /\ nextFetch' = After(now, w)
    <3>1. PICK w \in Nat : FetchWait(w) /\ nextFetch' = After(now, w)
      BY <1>2, FetchSetsNext
    <3>2. w <= LongestDelay
      BY <3>1, LongestDelayBounds
    <3> QED BY <3>1, <3>2
  <2> QED BY <2>1, <2>2
<1>3. CASE WeeklyStep
  BY <1>1, <1>3 DEF WeeklyStep, WeeklySend, WeeklyMark, WeeklyMarkFails, timers
<1>4. CASE NoticeBlock
  <2>1. nextNotificationAction' = nextNotificationAction
    BY <1>4
       DEF NoticeBlock, NoticeNotDue, NoticeNone, NoticeLoadFails, NoticeExpire,
           NoticeUnconfirmed, NoticeRefresh, NoticeUpdateFails, NoticeSend, NoticeMark,
           NoticeMarkFails, NoticeStep
  <2>2. \/ UNCHANGED <<nextFetch, nextContestNoticeAction>>
        \/ \E w \in {RetryDelay, ConfigDelay} :
              /\ nextContestNoticeAction' = After(now, w)
              /\ nextFetch' \in {nextFetch, SmallerOf(nextFetch, After(now, w))}
    BY <1>4
       DEF NoticeBlock, NoticeNotDue, NoticeNone, NoticeLoadFails, NoticeExpire,
           NoticeUnconfirmed, NoticeRefresh, NoticeUpdateFails, NoticeSend, NoticeMark,
           NoticeMarkFails, KeepNoticeTimers, RetryNotice
  <2> QED BY <1>1, <2>1, <2>2
<1>5. CASE RemindBlock
  <2>1. UNCHANGED <<nextFetch, nextContestNoticeAction>>
    BY <1>5
       DEF RemindBlock, RemindIdle, RemindPending, RemindPendingFails, RemindSend,
           RemindMark, RemindMarkFails, RemindStep
  <2>2. \/ nextNotificationAction' \in {nextNotificationAction, 0}
        \/ \E w \in {RetryDelay, ConfigDelay} : nextNotificationAction' = After(now, w)
    BY <1>5
       DEF RemindBlock, RemindIdle, RemindPending, RemindPendingFails, RemindSend,
           RemindMark, RemindMarkFails
  <2> QED BY <1>1, <2>1, <2>2
<1>6. CASE QuietStep
  BY <1>6
     DEF QuietStep, Boot, Downtime, Crash, MemoryAtStart, EditPage, ImplausibleClock,
         BeginIteration, WeeklyLookupFails, Iterate, Sleep, vars, timers
<1> QED BY <1>2, <1>3, <1>4, <1>5, <1>6, StepKinds

\* TimersBounded, and that latest is what its name says.
LatestBounds ==
    /\ latest \in Nat
    /\ clock <= latest
    /\ now <= latest
    /\ TimersBounded

\* A timer set in one of the ways stays within the bound, of a later latest too.
LEMMA SetWithinBound ==
    ASSUME now \in Nat, clock \in Nat, latest \in Nat, clock <= latest, now <= latest,
           NEW bound \in Nat, latest <= bound,
           NEW old \in Nat, old <= latest + LongestDelay, NEW new, SetWithin(old, new)
    PROVE  new <= bound + LongestDelay
<1>1. LongestDelay \in Nat /\ MaxTime \in Nat
  BY LongestDelayBounds, LoopAssumption
<1>2. ASSUME NEW w \in Nat, w <= LongestDelay
      PROVE  After(now, w) \in Nat /\ After(now, w) <= bound + LongestDelay
  BY <1>1, <1>2 DEF After, Capped, SmallerOf
<1>3. old <= bound + LongestDelay
  BY <1>1
<1>4. CASE new = old \/ new = 0 \/ new = clock
  BY <1>1, <1>3, <1>4
<1>5. CASE \E w \in Nat : w <= LongestDelay /\ new = After(now, w)
  BY <1>2, <1>5
<1>6. CASE \E w \in Nat : w <= LongestDelay /\ new = SmallerOf(old, After(now, w))
  BY <1>2, <1>3, <1>6 DEF SmallerOf
<1> QED BY <1>4, <1>5, <1>6 DEF SetWithin

\* LatestBounds through every step.
LEMMA NextLatestBounds ==
    ASSUME Timeless, LatestBounds, [ClockNext]_clockVars
    PROVE  LatestBounds'
<1>1. TypeOK
  BY DEF Timeless
<1>2. /\ clock \in Nat /\ now \in Nat /\ latest \in Nat
      /\ nextFetch \in Nat /\ nextNotificationAction \in Nat
      /\ nextContestNoticeAction \in Nat
      /\ clock <= latest /\ now <= latest
      /\ LongestDelay \in Nat /\ LongestDelay' = LongestDelay
  BY <1>1, LongestDelayBounds, LoopAssumption
     DEF LatestBounds, TypeOK, Times, LongestDelay, Delays
<1>3. \A timer \in {nextFetch, nextNotificationAction, nextContestNoticeAction} :
         timer <= latest + LongestDelay
  BY DEF LatestBounds, TimersBounded
<1>4. CASE SetBack
  <2>1. clock' \in Nat /\ clock' < clock
    BY <1>4, SetBackRests DEF Times
  <2> QED BY <1>2, <1>3, <1>4, <2>1, SetBackRests DEF LatestBounds, TimersBounded
<1>5. CASE [Next]_vars /\ (Run \/ UNCHANGED clockVars)
  <2>1. /\ clock' \in Nat /\ now' \in {0, now, clock}
    BY <1>1, <1>5, TimeSteps
  <2>2. latest' \in Nat /\ clock' <= latest' /\ latest <= latest'
    BY <1>2, <1>5, <2>1 DEF Run, clockVars, vars, environment
  <2>3. now' <= latest'
    BY <1>2, <2>1, <2>2
  <2>4. /\ SetWithin(nextFetch, nextFetch')
        /\ SetWithin(nextNotificationAction, nextNotificationAction')
        /\ SetWithin(nextContestNoticeAction, nextContestNoticeAction')
    BY <1>1, <1>5, TimerSteps
  <2>5. /\ nextFetch' <= latest' + LongestDelay
        /\ nextNotificationAction' <= latest' + LongestDelay
        /\ nextContestNoticeAction' <= latest' + LongestDelay
    BY <1>2, <1>3, <2>2, <2>4, SetWithinBound
  <2> QED BY <1>2, <2>2, <2>3, <2>5 DEF LatestBounds, TimersBounded
<1> QED BY <1>4, <1>5 DEF ClockNext, clockVars, Run

\* However often the clock is set back, no timer of run() lies further ahead than
\* the longest delay after the latest time the clock has shown: the loop fetches,
\* notifies and reminds again when the clock has caught up.
THEOREM ClockTimersBounded == ClockSpec => []TimersBounded
<1>1. ClockInit => LatestBounds
  BY LongestDelayBounds DEF ClockInit, Init, LatestBounds, TimersBounded
<1>2. Timeless /\ LatestBounds /\ [ClockNext]_clockVars => LatestBounds'
  BY NextLatestBounds
<1>3. LatestBounds => TimersBounded
  BY DEF LatestBounds
<1> QED BY <1>1, <1>2, <1>3, ClockTimeless, PTL DEF ClockSpec

-----------------------------------------------------------------------------
(* The calls of the store.                                                 *)

\* Also on such a clock the loop calls the repository only as
\* RepositoryImplementsStore allows its callers (main.cpp:228-366).
THEOREM ClockKeepsToStore == ClockSpec => Store!StoreSpec
<1>1. ClockInit => Store!StoreInit
  BY InitStore DEF ClockInit
<1>2. Timeless /\ Timeless' /\ [ClockNext]_clockVars
        => [Store!StoreNext]_(Store!storeVars)
  BY ClockSteps, SetBackRests, StepCalls, CallIsStoreStep DEF storeVars, Store!storeVars
<1> QED BY <1>1, <1>2, ClockTimeless, PTL DEF ClockSpec, Store!StoreSpec

-----------------------------------------------------------------------------
(* The target and the notice rows while AtCoder keeps its schedule.  Times   *)
(* remembered from before a set-back say nothing about the clock any more,    *)
(* but without edits a target keeps its schedule for good, and the loop only  *)
(* advances to contests that start after their predecessor ended.           *)

\* Every target has the schedule that is listed.
TargetsListed == \A s \in {state, current} \ {None} : Offered(s.contest)

\* Every row's contest started before the targets do.
RowsBehind ==
    \A key \in NoticeKeys : notices[key] # None =>
        /\ current # None
        /\ \A s \in {state, current} \ {None} : key[2] < s.contest.startTime

\* A contest that was announced is the announced target, or before the targets.
AnnouncedBehind ==
    \A id \in Ids, start \in Starts : history[<<"normal", id, start>>] = "sent" =>
        /\ current # None
        /\ \A s \in {state, current} \ {None} :
              \/ start < s.contest.startTime
              \/ /\ s.contest.id = id /\ s.contest.startTime = start
                 /\ s.normalStatus = "sent"

Unedited == TargetsListed /\ Agreement /\ RowsBehind /\ AnnouncedBehind

\* A target's contest is no row's, so the next advance inserts.
LEMMA RowsBehindInserts ==
    ASSUME TypeOK, RowsBehind
    PROVE  AdvanceAlwaysInserts
<1>1. ASSUME NEW s \in {state, current} \ {None}
      PROVE  notices[NoticeKey(s.contest)] = None
  <2>1. s.contest \in Contests
    BY DEF TypeOK, StoreTypeOK, CurrentContests
  <2>2. NoticeKey(s.contest) \in NoticeKeys /\ s.contest.startTime \in Nat
    BY <2>1, NoticeKeyTyped, ContestFields
  <2>3. NoticeKey(s.contest)[2] = s.contest.startTime
    BY DEF NoticeKey
  <2> QED BY <2>2, <2>3 DEF RowsBehind
<1> QED BY <1>1 DEF AdvanceAlwaysInserts

\* What a step without edits does to the targets: they stay, the first one is
\* taken, or both advance to a later contest.
TargetsStay ==
    \A t \in {state', current'} \ {None} : \E s \in {state, current} \ {None} :
        t.contest = s.contest /\ (s.normalStatus = "sent" => t.normalStatus = "sent")

TargetsLater ==
    \A s \in {state, current} \ {None}, t \in {state', current'} \ {None} :
        s.contest.startTime < t.contest.startTime

\* Every step is of one of these kinds, and keeps to the listed schedule.
LEMMA UneditedSteps ==
    ASSUME Timeless, TargetsListed, Agreement, AdvanceAlwaysInserts, [Next]_vars
    PROVE  /\ TargetsStay \/ TargetsLater \/ (state = None /\ current = None)
           /\ \A t \in {state', current'} \ {None} : Offered(t.contest)
<1>1. TypeOK /\ StatusCoherent /\ AtSend
  BY DEF Timeless
<1>2. \A s \in {state, current} \ {None} :
         s \in CurrentContests /\ s.contest \in Contests /\ Offered(s.contest)
  BY <1>1 DEF TypeOK, StoreTypeOK, CurrentContests, TargetsListed
<1> DEFINE Kept == TargetsStay /\ \A t \in {state', current'} \ {None} : Offered(t.contest)
<1>3. ASSUME state # None, StoredOrNot, state'.contest = state.contest,
             state.normalStatus = "sent" => state'.normalStatus = "sent"
      PROVE  Kept
  BY <1>2, <1>3 DEF TargetsStay, StoredOrNot
<1>4. CASE TargetRests
  BY <1>2, <1>4 DEF TargetsStay, TargetRests
<1>5. ASSUME NEW c \in Contests, TargetTaken(c)
      PROVE  /\ TargetsLater \/ (state = None /\ current = None)
             /\ \A t \in {state', current'} \ {None} : Offered(t.contest)
  <2>1. state'.contest = c /\ Offered(c) /\ c.startTime > now
    BY <1>5 DEF TargetTaken, newState
  <2>2. \A t \in {state', current'} \ {None} : Offered(t.contest)
    BY <1>2, <1>5, <2>1 DEF TargetTaken, StoredOrNot
  <2>3. CASE state = None
    BY <1>5, <2>2, <2>3 DEF TargetTaken, Agreement
  <2>4. CASE state # None
    <3>1. current' = state' /\ state.contest.endTime <= now
      BY <1>5, <2>4 DEF TargetTaken, AdvanceAlwaysInserts
    <3>2. \A s \in {state, current} \ {None} : s.contest = state.contest
      BY <1>2, <1>5, <2>4 DEF TargetTaken, Agreement, SameProgress, Offered
    <3>3. /\ state.contest.startTime \in Nat /\ state.contest.endTime \in Nat
          /\ state.contest.startTime < state.contest.endTime
          /\ c.startTime \in Nat /\ now \in Nat
      BY <1>1, <1>2, <2>4, ContestFields DEF TypeOK, Times
    <3>4. state.contest.startTime < c.startTime
      BY <2>1, <3>1, <3>3
    <3> QED BY <2>1, <2>2, <3>1, <3>2, <3>4 DEF TargetsLater
  <2> QED BY <2>3, <2>4
<1>6. ASSUME NEW c \in Contests, TargetMoved(c) PROVE FALSE
  BY <1>2, <1>6 DEF TargetMoved, Offered
<1>7. CASE TargetPending
  <2>1. state # None /\ state \in CurrentContests
    BY <1>2, <1>7 DEF TargetPending, ReminderReady
  <2>2. state'.contest = state.contest /\ state'.normalStatus = state.normalStatus
    BY <1>7, <2>1 DEF TargetPending, WithPending, CurrentContests
  <2> QED BY <1>3, <1>7, <2>1, <2>2 DEF TargetPending
<1>8. CASE TargetSent
  <2>1. state # None /\ state \in CurrentContests
    BY <1>1, <1>2, <1>8 DEF TargetSent, AtSend
  <2>2. /\ state'.contest = state.contest
        /\ state.normalStatus = "sent" => state'.normalStatus = "sent"
    BY <1>8, <2>1 DEF TargetSent, markSentState, CurrentContests
  <2> QED BY <1>3, <1>8, <2>1, <2>2 DEF TargetSent
<1> QED BY <1>1, <1>4, <1>5, <1>6, <1>7, <1>8, TargetSteps

\* What is behind the targets stays behind them.
LEMMA BehindStays ==
    ASSUME Timeless, Timeless', TargetsStay \/ TargetsLater, current # None,
           NEW start \in Nat,
           \A s \in {state, current} \ {None} : start < s.contest.startTime,
           NEW t \in {state', current'} \ {None}
    PROVE  start < t.contest.startTime
<1>1. \A s \in {state, current, state', current'} \ {None} : s.contest.startTime \in Nat
  BY ContestFields DEF Timeless, TypeOK, StoreTypeOK, CurrentContests
<1> QED BY <1>1 DEF TargetsStay, TargetsLater

\* RowsBehind through every step.
LEMMA NextRowsBehind ==
    ASSUME Timeless, Unedited, [Next]_vars
    PROVE  RowsBehind'
<1>1. TypeOK /\ Timeless' /\ AdvanceAlwaysInserts
  BY NextTimeless, RowsBehindInserts DEF Timeless, Unedited
<1>2. TargetsStay \/ TargetsLater \/ (state = None /\ current = None)
  BY <1>1, UneditedSteps DEF Unedited
<1>3. ASSUME NEW key \in NoticeKeys, notices'[key] # None
      PROVE  /\ current' # None
             /\ \A t \in {state', current'} \ {None} : key[2] < t.contest.startTime
  <2>1. CASE RowKept(key)
    <3>1. /\ current # None
          /\ \A s \in {state, current} \ {None} : key[2] < s.contest.startTime
      BY <1>3, <2>1 DEF RowKept, Unedited, RowsBehind
    <3>2. key[2] \in Nat
      BY PolicyAssumption DEF NoticeKeys, Starts
    <3> QED BY <1>1, <1>2, <3>1, <3>2, BehindStays, CurrentKept
  <2>2. CASE RowAdded(key)
    <3>1. /\ state \in CurrentContests /\ current' = state' /\ state' \in CurrentContests
          /\ key[2] = state.contest.startTime
          /\ state.contest.endTime <= now /\ now < state'.contest.startTime
      BY <1>1, <2>2 DEF RowAdded, NoticeKey, TypeOK
    <3>2. /\ state.contest.startTime \in Nat /\ state.contest.endTime \in Nat
          /\ state.contest.startTime < state.contest.endTime
          /\ state'.contest.startTime \in Nat /\ now \in Nat
      BY <1>1, <3>1, ContestFields DEF CurrentContests, TypeOK, Times
    <3> QED BY <3>1, <3>2, StoreAssumption
  <2> QED BY <1>1, <2>1, <2>2, RowSteps
<1> QED BY <1>3 DEF RowsBehind

\* AnnouncedBehind through every step.
LEMMA NextAnnouncedBehind ==
    ASSUME Timeless, Unedited, [Next]_vars
    PROVE  AnnouncedBehind'
<1>1. TypeOK /\ StatusCoherent /\ AtSend /\ Timeless' /\ AdvanceAlwaysInserts
  BY NextTimeless, RowsBehindInserts DEF Timeless, Unedited
<1>2. TargetsStay \/ TargetsLater \/ (state = None /\ current = None)
  BY <1>1, UneditedSteps DEF Unedited
<1>3. \A s \in {state, current, state', current'} \ {None} : s.contest.startTime \in Nat
  BY <1>1, ContestFields DEF Timeless, TypeOK, StoreTypeOK, CurrentContests
<1>4. ASSUME NEW id \in Ids, NEW start \in Starts,
             history'[<<"normal", id, start>>] = "sent"
      PROVE  /\ current' # None
             /\ \A t \in {state', current'} \ {None} :
                   \/ start < t.contest.startTime
                   \/ /\ t.contest.id = id /\ t.contest.startTime = start
                      /\ t.normalStatus = "sent"
  <2> DEFINE key == <<"normal", id, start>>
  <2>1. key \in NotificationKeys /\ start \in Nat
    BY PolicyAssumption DEF NotificationKeys, Kinds, Starts
  <2>2. CASE history[key] = "sent"
    <3>1. /\ current # None
          /\ \A s \in {state, current} \ {None} :
                \/ start < s.contest.startTime
                \/ /\ s.contest.id = id /\ s.contest.startTime = start
                   /\ s.normalStatus = "sent"
      BY <2>2 DEF Unedited, AnnouncedBehind
    <3>2. current' # None
      BY <3>1, CurrentKept
    <3>3. CASE TargetsStay
      BY <3>1, <3>2, <3>3 DEF TargetsStay
    <3>4. CASE TargetsLater
      <4>1. ASSUME NEW t \in {state', current'} \ {None} PROVE start < t.contest.startTime
        <5>1. current.contest.startTime < t.contest.startTime
          BY <3>1, <3>4 DEF TargetsLater
        <5>2. start <= current.contest.startTime
          BY <1>3, <2>1, <3>1
        <5> QED BY <1>3, <2>1, <3>1, <5>1, <5>2
      <4> QED BY <3>2, <4>1
    <3> QED BY <1>2, <3>1, <3>3, <3>4
  <2>3. CASE history[key] # "sent"
    <3>1. pc = "remindMark" /\ key = state.pendingMessageKey /\ history' # history
      BY <1>1, <1>4, <2>1, <2>3, HistorySteps
    <3>2. RemindMark
      BY <3>1, MarkWrites
    <3>3. /\ state \in CurrentContests /\ state # None
          /\ state.pendingKind = "normal"
          /\ state.contest.id = id /\ state.contest.startTime = start
      BY <1>1, <3>1, PendingTyped, StoreAssumption DEF notificationKey
    <3>4. state' = markSentState(state, "normal") /\ current' = state'
      BY <3>2, <3>3 DEF RemindMark, MarkSent
    <3>5. /\ state' \in CurrentContests
          /\ state'.contest = state.contest /\ state'.normalStatus = "sent"
      BY <3>3, <3>4, markSentTyped DEF markSentState, CurrentContests
    <3> QED BY <3>3, <3>4, <3>5, StoreAssumption
  <2> QED BY <2>2, <2>3
<1> QED BY <1>4 DEF AnnouncedBehind

\* Unedited through every step that is not an edit.
LEMMA NextUnedited ==
    ASSUME Timeless, edits = 0 => Unedited, [Next]_vars, edits' = 0
    PROVE  Unedited'
<1>1. TypeOK /\ edits = 0 /\ page' = page
  BY PageKept DEF Timeless
<1>2. Unedited /\ AdvanceAlwaysInserts
  BY <1>1, RowsBehindInserts DEF Unedited
<1>3. TargetsListed'
  <2>1. ASSUME NEW c, Offered(c) PROVE Offered(c)'
    BY <1>1, <2>1 DEF Offered, Listed, Listing
  <2>2. \A t \in {state', current'} \ {None} : Offered(t.contest)
    BY <1>2, UneditedSteps DEF Unedited
  <2> QED BY <1>1, <2>2 DEF TargetsListed, Offered, Listed, Listing
<1>4. Agreement'
  BY <1>2, NextAgreement DEF Unedited
<1> QED BY <1>2, <1>3, <1>4, NextRowsBehind, NextAnnouncedBehind DEF Unedited

\* Unedited holds until the first edit, however often the clock is set back.
LEMMA ClockUnedited == ClockSpec => [](edits = 0 => Unedited)
<1>1. ClockInit => Unedited
  <2> SUFFICES ASSUME ClockInit PROVE Unedited
    OBVIOUS
  <2>1. TargetsListed /\ Agreement
    BY DEF ClockInit, Init, StoreInit, TargetsListed, Agreement
  <2>2. RowsBehind
    BY DEF ClockInit, Init, StoreInit, RowsBehind
  <2>3. AnnouncedBehind
    BY DEF ClockInit, Init, StoreInit, AnnouncedBehind, NotificationKeys, Kinds
  <2> QED BY <2>1, <2>2, <2>3 DEF Unedited
<1>2. Timeless /\ (edits = 0 => Unedited) /\ [ClockNext]_clockVars
         => (edits = 0 => Unedited)'
  <2>1. Unedited /\ SetBack => Unedited'
    BY SetBackRests
       DEF Unedited, TargetsListed, Offered, Listed, Listing, Agreement, SameProgress,
           RowsBehind, AnnouncedBehind
  <2>2. SetBack => edits' = edits
    BY SetBackRests
  <2> QED BY <2>1, <2>2, ClockSteps, NextUnedited
<1> QED BY <1>1, <1>2, ClockTimeless, PTL DEF ClockSpec

\* advanceToNextContest never finds the key of its notice in use, so memory and
\* database advance together (state_repository.cpp:187-198), although after a
\* set-back the rows' end times may lie ahead of the clock: as long as AtCoder
\* keeps its schedule, no contest comes back as the target.
THEOREM ClockAdvanceInserts == ClockSpec => [](edits = 0 => AdvanceAlwaysInserts)
<1>1. Timeless /\ (edits = 0 => Unedited) => (edits = 0 => AdvanceAlwaysInserts)
  BY RowsBehindInserts DEF Timeless, Unedited
<1> QED BY <1>1, ClockTimeless, ClockUnedited, PTL

\* A crash finds what memory knew as announced (main.cpp:248, 346-371), across
\* set-backs too, as long as AtCoder keeps its schedule.
THEOREM ClockRestartFindsProgress == ClockSpec => [](edits = 0 => RestartKeepsProgress)
<1>1. (edits = 0 => Unedited) => (edits = 0 => RestartKeepsProgress)
  BY DEF Unedited, Agreement, SameProgress, RestartKeepsProgress
<1> QED BY <1>1, ClockUnedited, PTL

\* A normal reminder is sent once for a start time (FR-10, main.cpp:328-374),
\* even if the clock is set back behind its window: as long as AtCoder keeps its
\* schedule, the announced contest stays the announced target until a later one
\* follows it.
THEOREM ClockRemindedOnce == ClockSpec => [](edits = 0 => NormalNotRepeated)
<1>1. ASSUME Timeless, Unedited, PostsRecorded,
             pc = "remindSend", state.pendingKind = "normal"
      PROVE  history[state.pendingMessageKey] = "pending"
  <2>1. TypeOK /\ StatusCoherent /\ AtSend
    BY <1>1 DEF Timeless
  <2>2. /\ state \in CurrentContests /\ state # None
        /\ state.pendingMessageKey = <<"normal", state.contest.id, state.contest.startTime>>
        /\ state.pendingMessageKey \in NotificationKeys
    BY <1>1, <2>1, PendingTyped, StoreAssumption DEF notificationKey
  <2>3. state.contest.id \in Ids /\ state.contest.startTime \in Starts
          /\ state.contest.startTime \in Nat
    BY <2>2, ContestFields DEF CurrentContests
  <2>4. state.normalStatus = "pending"
    BY <1>1, <2>1, <2>2 DEF StatusCoherent, Coherent
  <2>5. history[state.pendingMessageKey] # "sent"
    BY <1>1, <2>2, <2>3, <2>4 DEF Unedited, AnnouncedBehind
  <2>6. history[state.pendingMessageKey] \in {"pending", "sent"}
    BY <1>1, <2>1, <2>2 DEF PostsRecorded, TypeOK, StoreTypeOK
  <2> QED BY <2>5, <2>6
<1>2. Timeless /\ PostsRecorded /\ (edits = 0 => Unedited)
         => (edits = 0 => NormalNotRepeated)
  BY <1>1 DEF NormalNotRepeated
<1> QED BY <1>2, ClockTimeless, ClockPostsRecorded, ClockUnedited, PTL
=============================================================================
