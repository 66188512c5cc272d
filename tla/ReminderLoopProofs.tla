------------------------- MODULE ReminderLoopProofs -------------------------
(***************************************************************************)
(* Theorems about the main loop, for every value of the constants: its     *)
(* type correctness, the coherence of the target's statuses, that an        *)
(* advance to the next contest always inserts its notice, that reminders    *)
(* leave in their window and that due ones are retried.  The last four rest *)
(* on the invariant Inductive, whose parts are proved from what each step   *)
(* does to the target, to the time and to the notice rows.                 *)
(***************************************************************************)
EXTENDS ReminderSafety, StoreProofs

-----------------------------------------------------------------------------
(* Values.                                                                 *)

\* A wait counted from a time gives a time, capped at MaxTime.
LEMMA AfterIsTime ==
    ASSUME NEW t \in Nat, NEW d \in Nat
    PROVE  After(t, d) \in Times
  BY LoopAssumption DEF After, Capped, SmallerOf, Times

\* The backoff of every failure count is a duration.
LEMMA BackoffIsNatural ==
    ASSUME NEW failures \in 1 .. FailureCap
    PROVE  Backoff(failures) \in Nat
<1>1. failures \in {1, 2, 3, 4}
  BY DEF FailureCap
<1>2. BackoffFactors[failures] \in {1, 2, 4, 8}
  BY <1>1 DEF BackoffFactors
<1>3. RetryDelay * 1 \in Nat /\ RetryDelay * 2 \in Nat /\ RetryDelay * 4 \in Nat
        /\ RetryDelay * 8 \in Nat
  BY LoopAssumption
<1> QED BY <1>2, <1>3, LoopAssumption DEF Backoff, SmallerOf

\* Every check interval is a duration.
LEMMA IntervalIsNatural ==
    ASSUME NEW s, NEW t
    PROVE  atcoderCheckIntervalSeconds(s, t) \in Nat
  BY PolicyAssumption DEF atcoderCheckIntervalSeconds

\* The date of a time is one of the dates.
LEMMA DateOfTime ==
    ASSUME NEW t \in Times
    PROVE  jstDateKey(t) \in Dates
  BY LoopAssumption DEF Times

\* A fetch found no table, or read some rows at some time.
LEMMA FetchResultKinds ==
    ASSUME NEW t, NEW d, NEW r \in FetchResults(t, d), r # NoTable
    PROVE  \E rows \in SUBSET Listed, invalid, today \in BOOLEAN, seen \in RenderTimes(d) :
              r = Parsed(Upcoming(rows, t, seen), invalid, today)
<1>1. PICK seen \in RenderTimes(d) : r \in Readings(t, seen)
  BY DEF FetchResults
<1>2. AbcToday(t) \in BOOLEAN
  BY DEF AbcToday
<1>3. \E rows \in SUBSET Listed, invalid, today \in BOOLEAN :
        r = Parsed(Upcoming(rows, t, seen), invalid, today)
  <2>1. \/ r = Parsed(Upcoming(Listed, t, seen), FALSE, AbcToday(t))
        \/ \E rows \in SUBSET Listed, today \in BOOLEAN :
              r = Parsed(Upcoming(rows, t, seen), TRUE, today)
    BY <1>1 DEF Readings
  <2>2. CASE r = Parsed(Upcoming(Listed, t, seen), FALSE, AbcToday(t))
    <3> WITNESS Listed \in SUBSET Listed, FALSE \in BOOLEAN, AbcToday(t) \in BOOLEAN
    <3> QED BY <2>2
  <2>3. CASE \E rows \in SUBSET Listed, today \in BOOLEAN :
                r = Parsed(Upcoming(rows, t, seen), TRUE, today)
    <3>1. PICK rows \in SUBSET Listed, today \in BOOLEAN :
            r = Parsed(Upcoming(rows, t, seen), TRUE, today)
      BY <2>3
    <3> WITNESS rows \in SUBSET Listed, TRUE \in BOOLEAN, today \in BOOLEAN
    <3> QED BY <3>1
  <2> QED BY <2>1, <2>2, <2>3
<1> QED BY <1>3

\* What any fetch hands to the loop.
LEMMA FetchResultTyped ==
    ASSUME NEW t, NEW d, page \in [Ids -> Slots \cup {None}], NEW r \in FetchResults(t, d)
    PROVE  /\ r.tableFound \in BOOLEAN
           /\ r.hasInvalidAbcRows \in BOOLEAN
           /\ r.hasAbcToday \in BOOLEAN
           /\ r.contests \subseteq Contests
<1>1. CASE r = NoTable
  BY <1>1 DEF NoTable
<1>2. CASE r # NoTable
  <2>1. PICK rows \in SUBSET Listed, invalid, today \in BOOLEAN, seen \in RenderTimes(d) :
           r = Parsed(Upcoming(rows, t, seen), invalid, today)
    BY <1>2, FetchResultKinds
  <2>2. Upcoming(rows, t, seen) \subseteq Contests
    BY DEF Upcoming, Listed, Listing, Contests
  <2> QED BY <2>1, <2>2 DEF Parsed
<1> QED BY <1>1, <1>2

\* The reminder time is an integer.
LEMMA ReminderTimeTyped ==
    ASSUME NEW c \in Contests
    PROVE  reminderTime(c) \in Int
  BY ContestFields, PolicyAssumption DEF reminderTime

\* newState makes a target of a contest.
LEMMA newStateTyped ==
    ASSUME NEW c \in Contests
    PROVE  newState(c) \in CurrentContests
  BY ReminderTimeTyped DEF newState, CurrentContests

\* A rescheduled target is a target.
LEMMA RescheduledTyped ==
    ASSUME NEW s \in CurrentContests, NEW c \in Contests
    PROVE  Rescheduled(s, c) \in CurrentContests
<1>1. reminderTime(c) \in Int
  BY ReminderTimeTyped
<1>2. "change" \in Kinds
  BY DEF Kinds
<1>3. notificationKey("change", c) \in NotificationKeys
  BY <1>2, KeyTyped
<1> QED BY <1>1, <1>2, <1>3 DEF Rescheduled, CurrentContests

\* A target marked as sent is a target.
LEMMA markSentTyped ==
    ASSUME NEW s \in CurrentContests, NEW kind
    PROVE  markSentState(s, kind) \in CurrentContests
<1>1. s.contest.startTime \in Starts
  BY ContestFields DEF CurrentContests
<1> QED BY <1>1 DEF markSentState, CurrentContests

\* A target noted as pending is a target.
LEMMA WithPendingTyped ==
    ASSUME state \in CurrentContests, NEW kind \in Kinds
    PROVE  WithPending(kind) \in CurrentContests
<1>1. notificationKey(kind, state.contest) \in NotificationKeys
  BY KeyTyped DEF CurrentContests
<1> QED BY <1>1 DEF WithPending, CurrentContests

\* What updateFromAtCoder leaves of a target is a target.
LEMMA TrackedTyped ==
    ASSUME state \in CurrentContests, NEW r, r.contests \subseteq Contests
    PROVE  Tracked(r) \in CurrentContests
<1>1. findContest(r.contests, state.contest.id) \subseteq Contests
  BY DEF findContest
<1>2. CASE findContest(r.contests, state.contest.id) = {}
  BY <1>2 DEF Tracked
<1>3. CASE findContest(r.contests, state.contest.id) # {}
  <2>1. (CHOOSE c \in findContest(r.contests, state.contest.id) : TRUE) \in Contests
    BY <1>1, <1>3
  <2> QED BY <2>1, RescheduledTyped DEF Tracked
<1> QED BY <1>2, <1>3

\* The next contest, if there is one, is a contest.
LEMMA NextContestTyped ==
    ASSUME NEW r, r.contests \subseteq Contests, NextContest(r) # None
    PROVE  NextContest(r) \in Contests
  BY NextContestFollows DEF NextContest

\* What is ready to be sent, if anything is, has a kind.
LEMMA ReadyKindTyped ==
    ASSUME NEW s \in CurrentContests, NEW t, ReadyKind(s, t) # None
    PROVE  ReadyKind(s, t) \in Kinds
  BY DEF ReadyKind, pendingKind, CurrentContests, Kinds

-----------------------------------------------------------------------------
(* Type correctness, one lemma per block of the loop.                      *)

\* The process starts with empty tables of their types.
LEMMA InitTypeOK == Init => TypeOK
<1> SUFFICES ASSUME Init PROVE TypeOK
  OBVIOUS
<1>1. StoreTypeOK
  BY DEF Init, StoreInit, StoreTypeOK
<1>2. 0 \in Times /\ 0 \in 0 .. MaxEdits /\ 0 \in 0 .. MaxCrashes
  BY LoopAssumption DEF Times
<1>3. 0 \in 0 .. FailureCap
  BY DEF FailureCap
<1>4. page \in [Ids -> Slots \cup {None}]
  BY LoopAssumption DEF Init
<1> QED BY <1>1, <1>2, <1>3, <1>4 DEF Init, TypeOK, ProgramPoints

\* Calls have taken some time.
TimeTaken == \E d \in Nat : CallTakes(d)

\* A request takes some time, and so do the database calls after it.
LEMMA RequestTakesTime ==
    ASSUME NEW d \in CallDelays, CallTakes(d) \/ StoreTakesAfter(d)
    PROVE  TimeTaken
<1>1. d \in Nat /\ \A e \in StoreDelays : d + e \in Nat
  BY LoopAssumption
<1> QED BY <1>1 DEF TimeTaken, StoreTakesAfter

\* Database calls by themselves do.
LEMMA StoreTakesTime ==
    ASSUME StoreTakes
    PROVE  TimeTaken
<1>1. \A e \in StoreDelays : 0 + e \in Nat
  BY LoopAssumption
<1> QED BY <1>1 DEF TimeTaken, StoreTakes, StoreTakesAfter

\* A fetch takes some time, with what it stores.
LEMMA FetchTakesTime ==
    ASSUME FetchStep
    PROVE  TimeTaken
  BY RequestTakesTime
     DEF FetchStep, FetchFailed, FetchEmptyWeek, FetchSelect, FetchTrack,
         FetchAdvance, FetchAdvanceFails, FetchNoNext

\* A call leaves a time on the clock.
LEMMA CallTyped ==
    ASSUME clock \in Times, TimeTaken
    PROVE  clock' \in Times /\ clock <= clock'
<1>1. PICK d \in Nat : clock' = After(clock, d)
  BY DEF TimeTaken, CallTakes
<1>2. d \in Nat /\ MaxTime \in Nat
  BY LoopAssumption
<1> QED BY <1>1, <1>2 DEF After, Capped, SmallerOf, Times

\* What every start of the process has in memory.
LEMMA MemoryTyped ==
    ASSUME MemoryAtStart
    PROVE  /\ nextFetch' \in Times /\ nextNotificationAction' \in Times
           /\ nextContestNoticeAction' \in Times /\ now' \in Times
           /\ fetchFailures' \in 0 .. FailureCap
           /\ weeklyFetchRequestedDate' \in Dates \cup {None}
           /\ finishedContestFetchRequestedId' \in Ids \cup {None}
           /\ confirmedFutureContests' \subseteq Contests
           /\ allowNotificationAction' \in BOOLEAN
           /\ weeklyCheckPending' \in BOOLEAN
           /\ notice' \in [key : NoticeKeys, contest : Contests] \cup {None}
<1>1. 0 \in Times
  BY LoopAssumption DEF Times
<1>2. 0 \in 0 .. FailureCap
  BY DEF FailureCap
<1> QED BY <1>1, <1>2 DEF MemoryAtStart

\* Types through start, downtime and death of the process.
LEMMA StartTypeOK ==
    ASSUME TypeOK, Boot \/ Downtime \/ Crash
    PROVE  TypeOK'
<1>1. MaxTime \in Nat /\ MaxCrashes \in Nat /\ 0 \in Times
  BY LoopAssumption DEF Times
<1>2. CASE Boot
  <2>1. StoreTypeOK'
    BY <1>2, StoreUnchangedTyped DEF Boot, TypeOK
  <2>2. current \in CurrentContests \cup {None}
    BY DEF TypeOK, StoreTypeOK
  <2> QED
    BY <1>2, <2>1, <2>2, MemoryTyped
       DEF TypeOK, Boot, environment, ProgramPoints
<1>3. CASE Downtime
  <2>1. StoreTypeOK'
    BY <1>3, StoreUnchangedTyped DEF Downtime, TypeOK
  <2>2. clock' \in Times
    BY <1>1, <1>3 DEF TypeOK, Downtime, Times
  <2> QED
    BY <1>3, <2>1, <2>2
       DEF TypeOK, Downtime, schedule, timers, fetchMemory, iteration
<1>4. CASE Crash
  <2>1. StoreTypeOK'
    BY <1>4, StoreUnchangedTyped DEF Crash, TypeOK
  <2>2. crashes' \in 0 .. MaxCrashes
    BY <1>1, <1>4 DEF TypeOK, Crash
  <2> QED
    BY <1>4, <2>1, <2>2, MemoryTyped DEF TypeOK, Crash, ProgramPoints
<1> QED BY <1>2, <1>3, <1>4

\* Types through the top of an iteration.
LEMMA IterateTypeOK ==
    ASSUME TypeOK, NEW pending \in BOOLEAN, Iterate(pending)
    PROVE  TypeOK'
<1>1. StoreTypeOK'
  BY StoreUnchangedTyped DEF Iterate, TypeOK
<1>2. jstDateKey(clock) \in Dates
  BY DateOfTime DEF TypeOK
<1>3. finishedContestFetchRequestedId' \in Ids \cup {None}
  <2>1. EndFetchDue(clock) => state.contest \in Contests
    BY DEF EndFetchDue, TargetEnded, TypeOK, CurrentContests
  <2>2. EndFetchDue(clock) => state.contest.id \in Ids
    BY <2>1, ContestFields
  <2> QED BY <2>2 DEF Iterate, TypeOK
<1>4. nextFetch' \in Times /\ weeklyFetchRequestedDate' \in Dates \cup {None}
  BY <1>2 DEF Iterate, TypeOK
<1>5. pc' \in ProgramPoints
  BY DEF Iterate, ProgramPoints
<1>6. clock' \in Times
  BY StoreTakesTime, CallTyped DEF Iterate, TypeOK
<1> QED
  BY <1>1, <1>3, <1>4, <1>5, <1>6 DEF TypeOK, Iterate, schedule

\* Types through whatever happens at the top of the loop.
LEMMA TopTypeOK ==
    ASSUME TypeOK, ImplausibleClock \/ BeginIteration \/ WeeklyLookupFails \/ Sleep
    PROVE  TypeOK'
<1>1. CASE ImplausibleClock
  <2>1. StoreTypeOK'
    BY <1>1, StoreUnchangedTyped DEF ImplausibleClock, TypeOK
  <2>2. clock' \in Times
    BY <1>1, AfterIsTime, LoopAssumption DEF ImplausibleClock, TypeOK, Times
  <2> QED
    BY <1>1, <2>1, <2>2
       DEF TypeOK, ImplausibleClock, schedule, timers, fetchMemory, iteration
<1>2. CASE BeginIteration
  <2>1. SaturdayCheckPending(clock) \in BOOLEAN
    BY DEF SaturdayCheckPending
  <2> QED BY <1>2, <2>1, IterateTypeOK DEF BeginIteration
<1>3. CASE WeeklyLookupFails
  BY <1>3, IterateTypeOK DEF WeeklyLookupFails
<1>4. CASE Sleep
  <2>1. StoreTypeOK'
    BY <1>4, StoreUnchangedTyped DEF Sleep, TypeOK
  <2>2. clock' \in Times
    BY <1>4, AfterIsTime, LoopAssumption DEF Sleep, TypeOK, Times
  <2>3. 0 \in Times
    BY LoopAssumption DEF Times
  <2> QED
    BY <1>4, <2>1, <2>2, <2>3
       DEF TypeOK, Sleep, schedule, timers, fetchMemory, ProgramPoints
<1> QED BY <1>1, <1>2, <1>3, <1>4

\* The variables every fetch treats alike keep their types.
LEMMA FetchFrame ==
    ASSUME TypeOK, NEW d \in CallDelays, NEW r \in FetchResults(now, d),
           FetchStep, Fetching(r), StoreTypeOK',
           state' \in CurrentContests \cup {None},
           nextFetch' \in Times,
           fetchFailures' \in 0 .. FailureCap,
           allowNotificationAction' \in BOOLEAN,
           pc' \in ProgramPoints
    PROVE  TypeOK'
<1>1. clock' \in Times
  BY FetchTakesTime, CallTyped DEF TypeOK
<1>2. confirmedFutureContests' \subseteq Contests
  BY FetchResultTyped DEF Fetching, TypeOK
<1> QED BY <1>1, <1>2 DEF TypeOK, Fetching, schedule

\* The timers and the place in the loop after a usable fetch.
LEMMA UsableTyped ==
    ASSUME TypeOK, NEW r, NEW fetchAt \in Times, UsableFetch(r, fetchAt)
    PROVE  /\ Fetching(r)
           /\ nextFetch' \in Times
           /\ fetchFailures' \in 0 .. FailureCap
           /\ pc' \in ProgramPoints
<1>1. After(now, RetryDelay) \in Times
  <2>1. now \in Nat /\ RetryDelay \in Nat
    BY LoopAssumption DEF TypeOK, Times
  <2> QED BY <2>1, AfterIsTime
<1>2. 0 \in 0 .. FailureCap
  BY DEF FailureCap
<1> QED BY <1>1, <1>2 DEF UsableFetch, ProgramPoints

\* Types through the fetch block.
LEMMA FetchTypeOK ==
    ASSUME TypeOK, FetchStep
    PROVE  TypeOK'
<1> USE DEF TypeOK
<1>1. now \in Nat /\ page \in [Ids -> Slots \cup {None}]
  BY DEF Times
<1>2. /\ After(now, FetchInterval) \in Times
      /\ After(now, RetryDelay) \in Times
      /\ \A s : After(now, atcoderCheckIntervalSeconds(s, now)) \in Times
  BY <1>1, AfterIsTime, IntervalIsNatural, LoopAssumption
<1>3. CASE FetchFailed
  <2>1. PICK d, r :
          /\ d \in CallDelays /\ r \in FetchResults(now, d)
          /\ Fetching(r)
          /\ allowNotificationAction' = FALSE
          /\ fetchFailures' = SmallerOf(fetchFailures + 1, FailureCap)
          /\ nextFetch' \in {After(now, RetryDelay), After(now, Backoff(fetchFailures'))}
          /\ pc' = "notice"
          /\ UNCHANGED <<storeVars, state>>
    BY <1>3 DEF FetchFailed
  <2>2. fetchFailures' \in 1 .. FailureCap
    BY <2>1 DEF SmallerOf, FailureCap
  <2>3. nextFetch' \in Times
    BY <1>1, <1>2, <2>1, <2>2, BackoffIsNatural, AfterIsTime
  <2>4. fetchFailures' \in 0 .. FailureCap /\ pc' \in ProgramPoints
    BY <2>1, <2>2 DEF FailureCap, ProgramPoints
  <2>5. StoreTypeOK'
    BY <2>1, StoreUnchangedTyped
  <2> QED BY <2>1, <2>3, <2>4, <2>5, FetchFrame
<1>4. CASE FetchEmptyWeek
  <2>1. PICK d, r :
          /\ d \in CallDelays /\ r \in FetchResults(now, d)
          /\ UsableFetch(r, After(now, FetchInterval))
          /\ allowNotificationAction' = FALSE
          /\ UNCHANGED <<storeVars, state>>
    BY <1>4 DEF FetchEmptyWeek
  <2> QED BY <1>2, <2>1, StoreUnchangedTyped, UsableTyped, FetchFrame
<1>5. CASE FetchSelect
  <2>1. PICK d, r :
          /\ d \in CallDelays /\ r \in FetchResults(now, d)
          /\ UsableFetch(r, After(now, FetchInterval))
          /\ r.contests # {}
          /\ state' = newState(Earliest(r.contests))
          /\ Save(state') \/ DbFails
          /\ UNCHANGED allowNotificationAction
    BY <1>5 DEF FetchSelect
  <2>2. r.contests \subseteq Contests
    BY <1>1, <2>1, FetchResultTyped
  <2>3. state' \in CurrentContests
    BY <2>1, <2>2, EarliestIsMember, newStateTyped
  <2>4. StoreTypeOK'
    BY <2>1, <2>3, SaveTyped, StoreUnchangedTyped DEF DbFails
  <2> QED BY <1>2, <2>1, <2>3, <2>4, UsableTyped, FetchFrame
<1>6. CASE FetchTrack
  <2>1. PICK d, r :
          /\ d \in CallDelays /\ r \in FetchResults(now, d)
          /\ state # None
          /\ UsableFetch(r, After(now, atcoderCheckIntervalSeconds(Tracked(r), now)))
          /\ state' = Tracked(r)
          /\ UNCHANGED storeVars \/ Save(Tracked(r)) \/ DbFails
          /\ allowNotificationAction' =
                (allowNotificationAction /\ ~(Missing(r) /\ state.contest.startTime > now))
    BY <1>6 DEF FetchTrack
  <2>2. r.contests \subseteq Contests
    BY <1>1, <2>1, FetchResultTyped
  <2>3. Tracked(r) \in CurrentContests
    BY <2>1, <2>2, TrackedTyped
  <2>4. StoreTypeOK'
    BY <2>1, <2>3, SaveTyped, StoreUnchangedTyped DEF DbFails
  <2>5. allowNotificationAction' \in BOOLEAN
    BY <2>1
  <2> QED BY <1>2, <2>1, <2>3, <2>4, <2>5, UsableTyped, FetchFrame
<1>7. CASE FetchAdvance
  <2>1. PICK d, r :
          /\ d \in CallDelays /\ r \in FetchResults(now, d)
          /\ state # None
          /\ NextContest(r) # None
          /\ UsableFetch(r, After(now,
                atcoderCheckIntervalSeconds(newState(NextContest(r)), now)))
          /\ AdvanceToNextContest(state, newState(NextContest(r)), now)
          /\ state' = newState(NextContest(r))
          /\ UNCHANGED allowNotificationAction
    BY <1>7 DEF FetchAdvance
  <2>2. NextContest(r) \in Contests
    BY <1>1, <2>1, FetchResultTyped, NextContestTyped
  <2>3. state' \in CurrentContests
    BY <2>1, <2>2, newStateTyped
  <2>4. StoreTypeOK'
    BY <2>1, <2>3, AdvanceTyped
  <2> QED BY <1>2, <2>1, <2>3, <2>4, UsableTyped, FetchFrame
<1>8. CASE FetchAdvanceFails
  <2>1. PICK d, r :
          /\ d \in CallDelays /\ r \in FetchResults(now, d)
          /\ UsableFetch(r, After(now, RetryDelay))
          /\ UNCHANGED storeVars
          /\ allowNotificationAction' = FALSE
          /\ UNCHANGED state
    BY <1>8 DEF FetchAdvanceFails, DbFails
  <2> QED BY <1>2, <2>1, StoreUnchangedTyped, UsableTyped, FetchFrame
<1>9. CASE FetchNoNext
  <2>1. PICK d, r :
          /\ d \in CallDelays /\ r \in FetchResults(now, d)
          /\ UsableFetch(r, After(now, RetryDelay))
          /\ allowNotificationAction' = FALSE
          /\ UNCHANGED <<storeVars, state>>
    BY <1>9 DEF FetchNoNext
  <2> QED BY <1>2, <2>1, StoreUnchangedTyped, UsableTyped, FetchFrame
<1> QED BY <1>3, <1>4, <1>5, <1>6, <1>7, <1>8, <1>9 DEF FetchStep

\* The times the retry timers are set to.
LEMMA RetryTimes ==
    ASSUME TypeOK
    PROVE  /\ After(now, RetryDelay) \in Times
           /\ After(now, ConfigDelay) \in Times
           /\ 0 \in Times
<1>1. /\ now \in Nat /\ RetryDelay \in Nat /\ ConfigDelay \in Nat
      /\ MaxTime \in Nat
  BY LoopAssumption DEF TypeOK, Times
<1>2. 0 \in Times
  BY <1>1 DEF Times
<1> QED BY <1>1, <1>2, AfterIsTime

\* A POST adds at most its own key to the channel.
LEMMA PostingTyped ==
    ASSUME TypeOK, NEW post \in PostKeys, NEW outcome, Posting(post, outcome)
    PROVE  posts' \subseteq PostKeys /\ clock' \in Times
<1>1. clock' \in Times
  BY RequestTakesTime, CallTyped DEF Posting, TypeOK
<1> QED BY <1>1 DEF Posting, TypeOK

\* Types through the Saturday check.
LEMMA WeeklyTypeOK ==
    ASSUME TypeOK, WeeklyStep
    PROVE  TypeOK'
<1>1. jstDateKey(now) \in Dates
  BY DateOfTime DEF TypeOK
<1>2. CASE WeeklySend
  <2>1. PICK outcome \in Outcomes(TRUE) :
          /\ Posting(WeeklyPost(jstDateKey(now)), outcome)
          /\ nextFetch' \in {nextFetch, After(now, RetryDelay)}
          /\ pc' \in {"weeklyMark", "notice"}
          /\ UNCHANGED <<storeVars, schedule, now, state, fetchMemory, iteration,
                         nextNotificationAction, nextContestNoticeAction>>
    BY <1>2 DEF WeeklySend
  <2>2. WeeklyPost(jstDateKey(now)) \in PostKeys
    BY <1>1 DEF PostKeys
  <2>3. posts' \subseteq PostKeys /\ clock' \in Times
    BY <2>1, <2>2, PostingTyped
  <2>4. StoreTypeOK'
    BY <2>1, StoreUnchangedTyped DEF TypeOK
  <2>5. nextFetch' \in Times
    BY <2>1, RetryTimes DEF TypeOK
  <2> QED
    BY <2>1, <2>3, <2>4, <2>5
       DEF TypeOK, schedule, fetchMemory, iteration, ProgramPoints
<1>3. CASE WeeklyMark
  <2>1. StoreTypeOK'
    BY <1>1, <1>3, MarkWeeklyTyped DEF WeeklyMark, TypeOK
  <2>2. clock' \in Times
    BY <1>3, StoreTakesTime, CallTyped DEF WeeklyMark, TypeOK
  <2> QED
    BY <1>3, <2>1, <2>2
       DEF WeeklyMark, TypeOK, schedule, timers, fetchMemory, iteration, ProgramPoints
<1>4. CASE WeeklyMarkFails
  <2>1. StoreTypeOK'
    BY <1>4, StoreUnchangedTyped DEF WeeklyMarkFails, DbFails, TypeOK
  <2>2. nextFetch' \in Times
    BY <1>4, RetryTimes DEF WeeklyMarkFails
  <2>3. clock' \in Times
    BY <1>4, StoreTakesTime, CallTyped DEF WeeklyMarkFails, TypeOK
  <2> QED
    BY <1>4, <2>1, <2>2, <2>3
       DEF WeeklyMarkFails, TypeOK, schedule, fetchMemory, iteration, ProgramPoints
<1> QED BY <1>2, <1>3, <1>4 DEF WeeklyStep

\* The retry lambda keeps its two timers on the clock's scale.
LEMMA RetryNoticeTyped ==
    ASSUME TypeOK, NEW delay \in {RetryDelay, ConfigDelay}, RetryNotice(delay)
    PROVE  nextFetch' \in Times /\ nextContestNoticeAction' \in Times
<1>1. After(now, delay) \in Times
  BY RetryTimes
<1> QED BY <1>1 DEF RetryNotice, SmallerOf, TypeOK

\* Timers that are kept stay times.
LEMMA KeepTimersTyped ==
    ASSUME TypeOK, KeepNoticeTimers
    PROVE  nextFetch' \in Times /\ nextContestNoticeAction' \in Times
  BY DEF TypeOK, KeepNoticeTimers

\* What the outcomes of the notice block have in common.
LEMMA NoticeFrame ==
    ASSUME TypeOK, NoticeStep, StoreTypeOK',
           nextFetch' \in Times /\ nextContestNoticeAction' \in Times,
           clock' \in Times, posts' \subseteq PostKeys,
           pc' \in ProgramPoints,
           notice' \in [key : NoticeKeys, contest : Contests] \cup {None}
    PROVE  TypeOK'
  BY DEF TypeOK, NoticeStep, schedule, fetchMemory

\* Leaving the notice block forgets the notice.
LEMMA LeaveTyped ==
    ASSUME LeaveNotice
    PROVE  /\ pc' \in ProgramPoints
           /\ notice' \in [key : NoticeKeys, contest : Contests] \cup {None}
  BY DEF LeaveNotice, ProgramPoints

\* Types through the notice block.
LEMMA NoticeTypeOK ==
    ASSUME TypeOK, AtSend, NoticeBlock
    PROVE  TypeOK'
<1>1. /\ StoreTypeOK /\ clock \in Times /\ posts \subseteq PostKeys
      /\ StoreTakes => clock' \in Times
  BY StoreTakesTime, CallTyped DEF TypeOK
<1>2. CASE NoticeNotDue \/ NoticeNone
  BY <1>1, <1>2, StoreUnchangedTyped, KeepTimersTyped, LeaveTyped, NoticeFrame
     DEF NoticeNotDue, NoticeNone
<1>3. CASE NoticeLoadFails
  <2>1. nextFetch' \in Times /\ nextContestNoticeAction' \in Times
    BY <1>3, RetryTimes DEF NoticeLoadFails, TypeOK
  <2> QED
    BY <1>1, <1>3, <2>1, StoreUnchangedTyped, LeaveTyped, NoticeFrame
       DEF NoticeLoadFails, DbFails
<1>4. CASE NoticeExpire
  BY <1>1, <1>4, UpdateTyped, KeepTimersTyped, LeaveTyped, NoticeFrame
     DEF NoticeExpire
<1>5. CASE NoticeUnconfirmed
  BY <1>1, <1>5, StoreUnchangedTyped, RetryNoticeTyped, LeaveTyped, NoticeFrame
     DEF NoticeUnconfirmed
<1>6. CASE NoticeRefresh
  <2>1. PICK c \in Confirmed :
          /\ RefreshNextContestNotice(FirstPendingNotice, c)
          /\ notice' = [key |-> FirstPendingNotice, contest |-> c]
    BY <1>6 DEF NoticeRefresh
  <2>2. c \in Contests
    BY DEF Confirmed, findContest, TypeOK
  <2>3. StoreTypeOK' /\ FirstPendingNotice \in NoticeKeys
    BY <1>1, <2>1, <2>2, RefreshTyped
  <2>4. pc' \in ProgramPoints /\ notice' \in [key : NoticeKeys, contest : Contests]
    BY <1>6, <2>1, <2>2, <2>3 DEF NoticeRefresh, ProgramPoints
  <2> QED
    BY <1>1, <1>6, <2>3, <2>4, KeepTimersTyped, NoticeFrame DEF NoticeRefresh
<1>7. CASE NoticeUpdateFails
  BY <1>1, <1>7, StoreUnchangedTyped, RetryNoticeTyped, LeaveTyped, NoticeFrame
     DEF NoticeUpdateFails, DbFails
<1>8. CASE NoticeSend
  <2>1. PICK outcome \in Outcomes(FALSE) :
          /\ Posting(NoticePost(notice.key), outcome)
          /\ \/ pc' = "noticeMark" /\ UNCHANGED notice /\ KeepNoticeTimers
             \/ LeaveNotice /\ \E d \in {RetryDelay, ConfigDelay} : RetryNotice(d)
          /\ NoticeStep
          /\ UNCHANGED storeVars
    BY <1>8 DEF NoticeSend
  <2>2. notice \in [key : NoticeKeys, contest : Contests]
    BY <1>8 DEF NoticeSend, AtSend, TypeOK
  <2>3. posts' \subseteq PostKeys /\ clock' \in Times
    <3>1. NoticePost(notice.key) \in PostKeys
      BY <2>2 DEF PostKeys
    <3> QED BY <2>1, <3>1, PostingTyped
  <2>4. nextFetch' \in Times /\ nextContestNoticeAction' \in Times
    BY <2>1, KeepTimersTyped, RetryNoticeTyped
  <2>5. /\ pc' \in ProgramPoints
        /\ notice' \in [key : NoticeKeys, contest : Contests] \cup {None}
    BY <2>1, <2>2, LeaveTyped DEF ProgramPoints
  <2> QED BY <1>1, <2>1, <2>3, <2>4, <2>5, StoreUnchangedTyped, NoticeFrame
<1>9. CASE NoticeMark
  BY <1>1, <1>9, UpdateTyped, KeepTimersTyped, LeaveTyped, NoticeFrame
     DEF NoticeMark
<1>10. CASE NoticeMarkFails
  BY <1>1, <1>10, StoreUnchangedTyped, RetryNoticeTyped, LeaveTyped, NoticeFrame
     DEF NoticeMarkFails, DbFails
<1> QED
  BY <1>2, <1>3, <1>4, <1>5, <1>6, <1>7, <1>8, <1>9, <1>10 DEF NoticeBlock

\* What the outcomes of the reminder block have in common.
LEMMA RemindFrame ==
    ASSUME TypeOK, RemindStep, StoreTypeOK',
           state' \in CurrentContests \cup {None},
           nextNotificationAction' \in Times,
           clock' \in Times, posts' \subseteq PostKeys,
           pc' \in ProgramPoints
    PROVE  TypeOK'
  BY DEF TypeOK, RemindStep, schedule, fetchMemory, iteration

\* The pending target and its key, as every ready reminder records them.
LEMMA ReadyTyped ==
    ASSUME TypeOK, ReminderReady, state' = WithPending(ReadyKind(state, now))
    PROVE  /\ state' \in CurrentContests
           /\ state'.pendingMessageKey \in NotificationKeys
           /\ state'.pendingKind \in Kinds
<1>1. state \in CurrentContests
  BY DEF ReminderReady, TypeOK
<1>2. ReadyKind(state, now) \in Kinds
  BY <1>1, ReadyKindTyped DEF ReminderReady
<1>3. notificationKey(ReadyKind(state, now), state.contest) \in NotificationKeys
  BY <1>1, <1>2, KeyTyped DEF CurrentContests
<1> QED BY <1>1, <1>2, <1>3, WithPendingTyped DEF WithPending, CurrentContests

\* At a send or a mark the target names the notification it is about.
LEMMA PendingTyped ==
    ASSUME TypeOK, StatusCoherent, AtSend, pc \in {"remindSend", "remindMark"}
    PROVE  /\ state \in CurrentContests
           /\ state.pendingKind \in Kinds
           /\ state.pendingMessageKey = notificationKey(state.pendingKind, state.contest)
           /\ state.pendingMessageKey \in NotificationKeys
<1>1. state \in CurrentContests /\ state.pendingKind # None
  BY DEF AtSend, TypeOK
<1>2. Coherent(state)
  BY <1>1, StoreAssumption DEF StatusCoherent
<1>3. state.pendingKind \in Kinds /\ state.contest \in Contests
  BY <1>1 DEF CurrentContests
<1> QED BY <1>1, <1>2, <1>3, KeyTyped DEF Coherent

\* Types through the reminder block.
LEMMA RemindTypeOK ==
    ASSUME TypeOK, StatusCoherent, AtSend, RemindBlock
    PROVE  TypeOK'
<1>1. /\ StoreTypeOK /\ clock \in Times /\ posts \subseteq PostKeys
      /\ StoreTakes => clock' \in Times
      /\ state \in CurrentContests \cup {None}
      /\ nextNotificationAction \in Times
  BY StoreTakesTime, CallTyped DEF TypeOK
<1>2. {"sleep", "remindSend", "remindMark"} \subseteq ProgramPoints
  BY DEF ProgramPoints
<1>3. CASE RemindIdle
  BY <1>1, <1>2, <1>3, StoreUnchangedTyped, RemindFrame DEF RemindIdle
<1>4. CASE RemindPending
  <2>1. state' \in CurrentContests /\ StoreTypeOK'
    BY <1>1, <1>4, ReadyTyped, MarkPendingTyped DEF RemindPending
  <2> QED BY <1>1, <1>2, <1>4, <2>1, RemindFrame DEF RemindPending
<1>5. CASE RemindPendingFails
  BY <1>1, <1>2, <1>5, ReadyTyped, RetryTimes, StoreUnchangedTyped, RemindFrame
     DEF RemindPendingFails, DbFails
<1>6. CASE RemindSend
  <2>1. PICK outcome \in Outcomes(TRUE) :
          /\ Posting(state.pendingMessageKey, outcome)
          /\ pc' \in {"remindMark", "sleep"}
          /\ nextNotificationAction' \in
                {nextNotificationAction, After(now, RetryDelay), After(now, ConfigDelay)}
          /\ RemindStep
          /\ UNCHANGED <<storeVars, state>>
    BY <1>6 DEF RemindSend
  <2>2. state.pendingMessageKey \in PostKeys
    BY <1>6, PendingTyped DEF RemindSend, PostKeys
  <2>3. posts' \subseteq PostKeys /\ clock' \in Times
    BY <2>1, <2>2, PostingTyped
  <2> QED
    BY <1>1, <1>2, <2>1, <2>3, RetryTimes, StoreUnchangedTyped, RemindFrame
<1>7. CASE RemindMark
  <2>1. state' \in CurrentContests
    BY <1>7, PendingTyped, markSentTyped DEF RemindMark
  <2>2. StoreTypeOK'
    BY <1>1, <1>7, <2>1, PendingTyped, MarkSentTyped DEF RemindMark
  <2> QED BY <1>1, <1>2, <1>7, <2>1, <2>2, RetryTimes, RemindFrame DEF RemindMark
<1>8. CASE RemindMarkFails
  BY <1>1, <1>2, <1>8, RetryTimes, StoreUnchangedTyped, RemindFrame
     DEF RemindMarkFails, DbFails
<1> QED BY <1>3, <1>4, <1>5, <1>6, <1>7, <1>8 DEF RemindBlock

\* Types through an edit of the page.
LEMMA EditTypeOK ==
    ASSUME TypeOK, EditPage
    PROVE  TypeOK'
<1>1. page' \in [Ids -> Slots \cup {None}]
  BY DEF TypeOK, EditPage, NewSlots
<1>2. edits' \in 0 .. MaxEdits
  BY LoopAssumption DEF TypeOK, EditPage
<1>3. StoreTypeOK'
  BY StoreUnchangedTyped DEF TypeOK, EditPage
<1> QED BY <1>1, <1>2, <1>3 DEF TypeOK, EditPage, timers, fetchMemory, iteration

\* Types through a step that changes nothing.
LEMMA StutterTypeOK ==
    ASSUME TypeOK, UNCHANGED vars
    PROVE  TypeOK'
<1>1. StoreTypeOK'
  BY StoreUnchangedTyped DEF TypeOK, vars
<1> QED
  BY <1>1 DEF TypeOK, vars, environment, timers, fetchMemory, iteration

\* Types through every step.
LEMMA NextTypeOK ==
    ASSUME TypeOK, StatusCoherent, AtSend, [Next]_vars
    PROVE  TypeOK'
  BY StartTypeOK, TopTypeOK, FetchTypeOK, WeeklyTypeOK, NoticeTypeOK,
     RemindTypeOK, EditTypeOK, StutterTypeOK DEF Next, ProcessStep

-----------------------------------------------------------------------------
(* What one step can do to the target, to the rows and to the time.        *)

\* A contest with the schedule that AtCoder lists for it.
Offered(c) == c.id \in Listed /\ c = Listing(c.id)

\* A fetch only offers contests that have not started.
LEMMA FetchedInFuture ==
    ASSUME NEW t, NEW d, NEW r \in FetchResults(t, d), NEW c \in r.contests
    PROVE  c.startTime > t /\ Offered(c)
<1>1. r # NoTable
  BY DEF NoTable
<1>2. PICK rows \in SUBSET Listed, invalid, today \in BOOLEAN, seen \in RenderTimes(d) :
         r = Parsed(Upcoming(rows, t, seen), invalid, today)
  BY <1>1, FetchResultKinds
<1>3. c \in Upcoming(rows, t, seen)
  BY <1>2 DEF Parsed
<1> QED BY <1>3 DEF Upcoming, Listing, Contest, Offered

\* The kinds of step, as seen from the target.
TargetRests  == current' = current /\ state' \in {state, current, None}
StoredOrNot  == current' \in {current, state'}
TargetTaken(c) ==
    /\ pc = "fetch" /\ c \in Contests /\ Offered(c) /\ c.startTime > now
    /\ state # None =>
          /\ state.contest.endTime <= now
          /\ c.id # state.contest.id
          /\ notices[NoticeKey(state.contest)] = None => current' = state'
    /\ state' = newState(c)
    /\ StoredOrNot
TargetMoved(c) ==
    /\ pc = "fetch" /\ c \in Contests /\ Offered(c) /\ c.startTime > now
    /\ state # None /\ c.id = state.contest.id /\ c # state.contest
    /\ state' = Rescheduled(state, c)
    /\ StoredOrNot
TargetPending ==
    /\ pc = "remind" /\ ReminderReady
    /\ state' = WithPending(ReadyKind(state, now))
    /\ StoredOrNot
TargetSent ==
    /\ pc = "remindMark"
    /\ state' = markSentState(state, state.pendingKind)
    /\ StoredOrNot

\* Every step does one of five things to the target and the stored row.
LEMMA TargetSteps ==
    ASSUME TypeOK, [Next]_vars
    PROVE  \/ TargetRests
           \/ \E c \in Contests : TargetTaken(c) \/ TargetMoved(c)
           \/ TargetPending \/ TargetSent
<1> USE DEF TargetRests, StoredOrNot
<1>1. CASE FetchStep
  <2>1. page \in [Ids -> Slots \cup {None}]
    BY DEF TypeOK
  <2>2. CASE FetchFailed \/ FetchEmptyWeek \/ FetchAdvanceFails \/ FetchNoNext
    BY <2>2
       DEF FetchFailed, FetchEmptyWeek, FetchAdvanceFails, FetchNoNext, DbFails, storeVars
  <2>3. CASE FetchSelect
    <3>1. PICK d, r :
            /\ d \in CallDelays /\ r \in FetchResults(now, d)
            /\ pc = "fetch"
            /\ r.contests # {}
            /\ state = None
            /\ state' = newState(Earliest(r.contests))
            /\ StoredOrNot
      BY <2>3 DEF FetchSelect, UsableFetch, Fetching, Save, DbFails, storeVars
    <3>2. Earliest(r.contests) \in r.contests /\ r.contests \subseteq Contests
      BY <2>1, <3>1, FetchResultTyped, EarliestIsMember
    <3>3. TargetTaken(Earliest(r.contests))
      BY <3>1, <3>2, FetchedInFuture DEF TargetTaken
    <3> QED BY <3>2, <3>3
  <2>4. CASE FetchTrack
    <3>1. PICK d, r :
            /\ d \in CallDelays /\ r \in FetchResults(now, d)
            /\ pc = "fetch"
            /\ state # None
            /\ state' = Tracked(r)
            /\ StoredOrNot
            /\ Tracked(r) = state => current' = current
      BY <2>4 DEF FetchTrack, UsableFetch, Fetching, Save, DbFails, storeVars
    <3>2. r.contests \subseteq Contests
      BY <2>1, <3>1, FetchResultTyped
    <3>3. CASE Tracked(r) = state
      BY <3>1, <3>3
    <3>4. CASE Tracked(r) # state
      <4> DEFINE c == CHOOSE c \in findContest(r.contests, state.contest.id) : TRUE
      <4>1. Tracked(r) = Rescheduled(state, c)
              /\ findContest(r.contests, state.contest.id) # {}
        BY <3>4 DEF Tracked
      <4>2. c \in r.contests /\ c.id = state.contest.id
        BY <4>1 DEF findContest
      <4>3. PICK other \in r.contests : other.id = state.contest.id /\ other # state.contest
        BY <3>4 DEF Tracked, findContest
      <4> HIDE DEF c
      <4>4. c # state.contest
        BY <3>1, <4>2, <4>3, FetchedInFuture DEF Offered
      <4>5. TargetMoved(c)
        BY <3>1, <3>2, <4>1, <4>2, <4>4, FetchedInFuture DEF TargetMoved
      <4> QED BY <3>2, <4>2, <4>5
    <3> QED BY <3>3, <3>4
  <2>5. CASE FetchAdvance
    <3>1. PICK d, r :
            /\ d \in CallDelays /\ r \in FetchResults(now, d)
            /\ pc = "fetch"
            /\ NextContest(r) # None
            /\ AdvanceToNextContest(state, newState(NextContest(r)), now)
            /\ state' = newState(NextContest(r))
      BY <2>5 DEF FetchAdvance, UsableFetch, Fetching
    <3>2. r.contests \subseteq Contests
      BY <2>1, <3>1, FetchResultTyped
    <3>3. NextContest(r) \in r.contests
      BY <3>1, <3>2, NextContestFollows DEF NextContest
    <3>4. /\ state.contest.endTime <= now
          /\ NextContest(r).id # state.contest.id
          /\ notices[NoticeKey(state.contest)] = None => current' = state'
          /\ StoredOrNot
      BY <3>1 DEF AdvanceToNextContest, MayAdvance, newState
    <3>5. TargetTaken(NextContest(r))
      BY <3>1, <3>2, <3>3, <3>4, FetchedInFuture DEF TargetTaken
    <3> QED BY <3>2, <3>3, <3>5
  <2> QED BY <1>1, <2>2, <2>3, <2>4, <2>5 DEF FetchStep
<1>2. CASE RemindPending \/ RemindPendingFails
  BY <1>2
     DEF RemindPending, RemindPendingFails, MarkPending, DbFails, storeVars, TargetPending
<1>3. CASE RemindMark
  BY <1>3 DEF RemindMark, MarkSent, TargetSent
<1>4. CASE Boot \/ Downtime \/ Crash \/ EditPage
  BY <1>4 DEF Boot, Downtime, Crash, EditPage, storeVars
<1>5. CASE ImplausibleClock \/ BeginIteration \/ WeeklyLookupFails \/ Sleep
  BY <1>5
     DEF ImplausibleClock, BeginIteration, WeeklyLookupFails, Iterate, Sleep, storeVars
<1>6. CASE WeeklyStep
  BY <1>6
     DEF WeeklyStep, WeeklySend, WeeklyMark, WeeklyMarkFails,
         MarkWeeklyCheckCompleted, DbFails, storeVars
<1>7. CASE NoticeBlock
  BY <1>7
     DEF NoticeBlock, NoticeNotDue, NoticeNone, NoticeLoadFails, NoticeExpire,
         NoticeUnconfirmed, NoticeRefresh, NoticeUpdateFails, NoticeSend,
         NoticeMark, NoticeMarkFails, NoticeStep, UpdateNextContestNotice,
         RefreshNextContestNotice, DbFails, storeVars
<1>8. CASE RemindIdle \/ RemindSend \/ RemindMarkFails
  BY <1>8 DEF RemindIdle, RemindSend, RemindMarkFails, DbFails, storeVars
<1>9. CASE UNCHANGED vars
  BY <1>9 DEF vars, storeVars
<1> QED
  BY <1>1, <1>2, <1>3, <1>4, <1>5, <1>6, <1>7, <1>8, <1>9
     DEF Next, ProcessStep, RemindBlock

\* The clock never goes back, and an iteration keeps the time it began with.
LEMMA TimeSteps ==
    ASSUME TypeOK, [Next]_vars
    PROVE  /\ clock \in Nat /\ now \in Nat /\ clock' \in Nat /\ clock <= clock'
           /\ now' \in {0, now, clock}
           /\ InIteration' => (InIteration /\ now' = now) \/ now' = clock
<1>1. clock \in 0 .. MaxTime /\ clock \in Times /\ now \in Nat /\ MaxTime \in Nat
  BY LoopAssumption DEF TypeOK, Times
<1>2. \A d \in Nat : After(clock, d) \in Nat /\ clock <= After(clock, d)
  BY <1>1 DEF After, Capped, SmallerOf
<1>3. Poll \in Nat /\ ClockDelay \in Nat
  BY LoopAssumption
<1>4. clock' \in Nat /\ clock <= clock'
  <2>1. CASE TimeTaken
    BY <1>1, <2>1, CallTyped DEF Times
  <2>2. CASE clock' = clock
    BY <1>1, <2>2
  <2>3. CASE Downtime \/ ImplausibleClock \/ Sleep
    BY <1>1, <1>2, <1>3, <2>3 DEF Downtime, ImplausibleClock, Sleep
  <2>4. CASE FetchStep
    BY <2>1, <2>4, FetchTakesTime
  <2>5. CASE WeeklyStep
    BY <2>1, <2>5, RequestTakesTime, StoreTakesTime
       DEF WeeklyStep, WeeklySend, WeeklyMark, WeeklyMarkFails, Posting
  <2>6. CASE NoticeBlock
    BY <2>1, <2>2, <2>6, RequestTakesTime, StoreTakesTime
       DEF NoticeBlock, NoticeNotDue, NoticeNone, NoticeLoadFails, NoticeExpire,
           NoticeUnconfirmed, NoticeRefresh, NoticeUpdateFails, NoticeSend,
           NoticeMark, NoticeMarkFails, Posting
  <2>7. CASE RemindBlock
    BY <2>1, <2>2, <2>7, RequestTakesTime, StoreTakesTime
       DEF RemindBlock, RemindIdle, RemindPending, RemindPendingFails, RemindSend,
           RemindMark, RemindMarkFails, Posting
  <2>8. CASE Boot \/ BeginIteration \/ WeeklyLookupFails \/ Crash \/ EditPage \/ UNCHANGED vars
    BY <2>1, <2>2, <2>8, StoreTakesTime
       DEF Boot, BeginIteration, WeeklyLookupFails, Iterate, Crash, EditPage, vars,
           environment
  <2> QED
    BY <2>3, <2>4, <2>5, <2>6, <2>7, <2>8 DEF Next, ProcessStep
<1>5. /\ now' \in {0, now, clock}
      /\ InIteration' => (InIteration /\ now' = now) \/ now' = clock
  <2> USE DEF InIteration
  <2>1. CASE Boot \/ Downtime \/ Crash \/ EditPage \/ UNCHANGED vars
    BY <2>1 DEF Boot, Downtime, Crash, MemoryAtStart, EditPage, vars
  <2>2. CASE ImplausibleClock \/ BeginIteration \/ WeeklyLookupFails \/ Sleep
    BY <2>2 DEF ImplausibleClock, BeginIteration, WeeklyLookupFails, Iterate, Sleep
  <2>3. CASE FetchStep
    BY <2>3
       DEF FetchStep, FetchFailed, FetchEmptyWeek, FetchSelect, FetchTrack,
           FetchAdvance, FetchAdvanceFails, FetchNoNext, UsableFetch, Fetching
  <2>4. CASE WeeklyStep
    BY <2>4 DEF WeeklyStep, WeeklySend, WeeklyMark, WeeklyMarkFails
  <2>5. CASE NoticeBlock
    BY <2>5
       DEF NoticeBlock, NoticeNotDue, NoticeNone, NoticeLoadFails, NoticeExpire,
           NoticeUnconfirmed, NoticeRefresh, NoticeUpdateFails, NoticeSend,
           NoticeMark, NoticeMarkFails, NoticeStep, NoticeDue
  <2>6. CASE RemindBlock
    BY <2>6
       DEF RemindBlock, RemindIdle, RemindPending, RemindPendingFails, RemindSend,
           RemindMark, RemindMarkFails, RemindStep
  <2> QED
    BY <2>1, <2>2, <2>3, <2>4, <2>5, <2>6 DEF Next, ProcessStep
<1> QED BY <1>1, <1>4, <1>5

-----------------------------------------------------------------------------
(* The statuses of the target.                                             *)

\* A target that was just taken has coherent statuses (main.cpp:47-58).
LEMMA newStateCoherent ==
    ASSUME NEW c \in Contests
    PROVE  Coherent(newState(c)) /\ newState(c).pendingKind # "normal"
  BY PolicyAssumption DEF Coherent, newState, reminderTime

\* A rescheduled target is coherent.
LEMMA RescheduledCoherent ==
    ASSUME NEW s \in CurrentContests, NEW c \in Contests, Coherent(s)
    PROVE  Coherent(Rescheduled(s, c)) /\ Rescheduled(s, c).pendingKind # "normal"
<1>1. c.startTime # None
  BY ContestFields, PolicyAssumption
<1>2. CASE s.normalStatus = "pending"
  BY <1>1, <1>2, PolicyAssumption
     DEF Coherent, Rescheduled, reminderTime, CurrentContests, notificationKey
<1>3. CASE s.normalStatus # "pending"
  BY <1>1, <1>3, PolicyAssumption
     DEF Coherent, Rescheduled, reminderTime, CurrentContests, notificationKey
<1> QED BY <1>2, <1>3

\* A target marked as sent is coherent.
LEMMA markSentCoherent ==
    ASSUME NEW s \in CurrentContests, Coherent(s), s.pendingKind # None
    PROVE  /\ Coherent(markSentState(s, s.pendingKind))
           /\ markSentState(s, s.pendingKind).pendingKind = None
<1>1. s.pendingKind \in {"normal", "change"}
  BY DEF CurrentContests, Kinds
<1>2. s.contest.startTime # None
  BY ContestFields, PolicyAssumption DEF CurrentContests
<1> QED
  BY <1>1, <1>2, PolicyAssumption DEF Coherent, markSentState, CurrentContests

\* A target noted as pending is coherent.
LEMMA WithPendingCoherent ==
    ASSUME NEW t, state \in CurrentContests, Coherent(state), ReadyKind(state, t) # None
    PROVE  /\ Coherent(WithPending(ReadyKind(state, t)))
           /\ WithPending(ReadyKind(state, t)).pendingKind # None
<1>1. ReadyKind(state, t) \in {"normal", "change"}
  BY ReadyKindTyped DEF Kinds
<1>2. ReadyKind(state, t) = "normal" =>
         state.normalStatus = "pending" /\ state.changeStatus # "pending"
  BY DEF ReadyKind, pendingKind, shouldSendNormal, Coherent
<1>3. ReadyKind(state, t) = "change" => state.changeStatus = "pending"
  BY DEF ReadyKind, pendingKind, Coherent
<1> QED
  BY <1>1, <1>2, <1>3, PolicyAssumption DEF Coherent, WithPending, CurrentContests

\* StatusCoherent through every step, by what it does to the target.
LEMMA NextStatusCoherent ==
    ASSUME TypeOK, StatusCoherent, AtSend, [Next]_vars
    PROVE  StatusCoherent'
<1>1. \A s \in {state, current} \ {None} : s \in CurrentContests /\ Coherent(s)
  BY DEF StatusCoherent, TypeOK, StoreTypeOK
<1>2. CASE TargetRests
  <2>1. ASSUME NEW s \in {state', current'} \ {None}
        PROVE  Coherent(s)
    BY <1>1, <1>2 DEF TargetRests
  <2> QED BY <2>1 DEF StatusCoherent
<1>3. ASSUME Coherent(state'), StoredOrNot PROVE StatusCoherent'
  BY <1>1, <1>3 DEF StatusCoherent, StoredOrNot
<1>4. ASSUME NEW c \in Contests, TargetTaken(c) PROVE StatusCoherent'
  BY <1>3, <1>4, newStateCoherent DEF TargetTaken
<1>5. ASSUME NEW c \in Contests, TargetMoved(c) PROVE StatusCoherent'
  BY <1>1, <1>3, <1>5, RescheduledCoherent DEF TargetMoved
<1>6. CASE TargetPending
  <2>1. state \in CurrentContests /\ Coherent(state) /\ ReadyKind(state, now) # None
    BY <1>1, <1>6 DEF TargetPending, ReminderReady
  <2> QED BY <1>3, <1>6, <2>1, WithPendingCoherent DEF TargetPending
<1>7. CASE TargetSent
  <2>1. state \in CurrentContests /\ Coherent(state) /\ state.pendingKind # None
    BY <1>1, <1>7 DEF TargetSent, AtSend
  <2> QED BY <1>3, <1>7, <2>1, markSentCoherent DEF TargetSent
<1> QED BY <1>2, <1>4, <1>5, <1>6, <1>7, TargetSteps

\* AtSend through every step.
LEMMA NextAtSend ==
    ASSUME TypeOK, StatusCoherent, AtSend, [Next]_vars
    PROVE  AtSend'
<1> USE DEF AtSend
<1>1. CASE Boot \/ Downtime \/ Crash \/ EditPage \/ UNCHANGED vars
  BY <1>1 DEF Boot, Downtime, Crash, EditPage, vars, iteration
<1>2. CASE ImplausibleClock \/ BeginIteration \/ WeeklyLookupFails \/ Sleep
  BY <1>2
     DEF ImplausibleClock, BeginIteration, WeeklyLookupFails, Iterate, Sleep, iteration
<1>3. CASE FetchStep
  BY <1>3
     DEF FetchStep, FetchFailed, FetchEmptyWeek, FetchSelect, FetchTrack,
         FetchAdvance, FetchAdvanceFails, FetchNoNext, UsableFetch, Fetching
<1>4. CASE WeeklyStep
  BY <1>4 DEF WeeklyStep, WeeklySend, WeeklyMark, WeeklyMarkFails
<1>5. CASE NoticeRefresh
  <2>1. PICK c \in Confirmed :
          /\ RefreshNextContestNotice(FirstPendingNotice, c)
          /\ notice' = [key |-> FirstPendingNotice, contest |-> c]
    BY <1>5 DEF NoticeRefresh
  <2>2. c \in Contests
    BY DEF Confirmed, findContest, TypeOK
  <2>3. notice' \in [key : NoticeKeys, contest : Contests]
    BY <2>1, <2>2, RefreshTyped DEF TypeOK
  <2> QED BY <1>5, <2>3, LoopAssumption DEF NoticeRefresh
<1>6. CASE NoticeBlock /\ ~NoticeRefresh
  BY <1>6
     DEF NoticeBlock, NoticeNotDue, NoticeNone, NoticeLoadFails, NoticeExpire,
         NoticeUnconfirmed, NoticeUpdateFails, NoticeSend, NoticeMark,
         NoticeMarkFails, LeaveNotice
<1>7. CASE RemindPending
  <2>1. state \in CurrentContests /\ Coherent(state)
    BY <1>7 DEF RemindPending, ReminderReady, StatusCoherent, TypeOK
  <2>2. state' \in CurrentContests /\ state'.pendingKind # None
    BY <1>7, <2>1, ReadyTyped, WithPendingCoherent DEF RemindPending, ReminderReady
  <2>3. state'.contest = state.contest /\ state' # None
    BY <1>7, <2>1, <2>2, StoreAssumption DEF RemindPending, WithPending, CurrentContests
  <2> QED
    BY <1>7, <2>2, <2>3 DEF RemindPending, ReminderReady, RemindStep
<1>8. CASE RemindBlock /\ ~RemindPending
  BY <1>8
     DEF RemindBlock, RemindIdle, RemindPendingFails, RemindSend, RemindMark,
         RemindMarkFails, RemindStep, iteration
<1> QED
  BY <1>1, <1>2, <1>3, <1>4, <1>5, <1>6, <1>7, <1>8 DEF Next, ProcessStep

-----------------------------------------------------------------------------
(* Reminders that are pending are due.                                     *)

\* A normal reminder that may be sent now is past its reminder time.
LEMMA ReadyNormalIsDue ==
    ASSUME TypeOK, StatusCoherent, PendingMeansDue, ReminderReady, pc = "remind",
           ReadyKind(state, now) = "normal"
    PROVE  state.reminderTime <= now
<1>1. state \in CurrentContests /\ InIteration
  BY DEF ReminderReady, TypeOK, InIteration
<1>2. CASE state.pendingKind = "normal"
  BY <1>1, <1>2, StoreAssumption DEF PendingMeansDue
<1>3. CASE state.pendingKind # "normal"
  <2>1. shouldSendNormal(state, now)
    BY <1>3 DEF ReadyKind, pendingKind
  <2>2. state.reminderTime \in Int /\ now \in Int
    BY <1>1 DEF CurrentContests, TypeOK, Times
  <2> QED BY <2>1, <2>2 DEF shouldSendNormal
<1> QED BY <1>2, <1>3

\* PendingMeansDue through every step.
LEMMA NextPendingMeansDue ==
    ASSUME Timeless, NowReached, PendingMeansDue, [Next]_vars
    PROVE  PendingMeansDue'
<1>0. TypeOK /\ StatusCoherent /\ AtSend
  BY DEF Timeless
<1> DEFINE Due(s) == s.pendingKind = "normal" => s.reminderTime <= clock /\
                         (InIteration => s.reminderTime <= now)
<1>1. \A s \in {state, current} \ {None} :
          s \in CurrentContests /\ s.reminderTime \in Int /\ Coherent(s) /\ Due(s)
  BY <1>0 DEF PendingMeansDue, StatusCoherent, TypeOK, StoreTypeOK, CurrentContests
<1>2. /\ clock \in Nat /\ now \in Nat /\ clock' \in Nat /\ clock <= clock'
      /\ InIteration' => (InIteration /\ now' = now) \/ now' = clock
  BY <1>0, TimeSteps
<1>3. ASSUME NEW s \in {state, current} \ {None}, s.pendingKind = "normal"
      PROVE  s.reminderTime <= clock' /\ (InIteration' => s.reminderTime <= now')
  <2>1. /\ s.reminderTime \in Int /\ s.reminderTime <= clock
        /\ InIteration => s.reminderTime <= now
    BY <1>1, <1>3
  <2> QED BY <1>2, <2>1
<1>4. CASE TargetRests
  <2>1. {state', current'} \ {None} \subseteq {state, current} \ {None}
    BY <1>4 DEF TargetRests
  <2> QED BY <1>3, <2>1 DEF PendingMeansDue
<1>5. ASSUME StoredOrNot,
             state'.pendingKind = "normal" =>
                /\ state'.reminderTime <= clock'
                /\ InIteration' => state'.reminderTime <= now'
      PROVE  PendingMeansDue'
  <2>1. {state', current'} \ {None} \subseteq {state'} \cup ({current} \ {None})
    BY <1>5 DEF StoredOrNot
  <2> QED BY <1>3, <1>5, <2>1 DEF PendingMeansDue
<1>6. ASSUME NEW c \in Contests, TargetTaken(c) PROVE PendingMeansDue'
  BY <1>5, <1>6, newStateCoherent DEF TargetTaken
<1>7. ASSUME NEW c \in Contests, TargetMoved(c) PROVE PendingMeansDue'
  BY <1>1, <1>5, <1>7, RescheduledCoherent DEF TargetMoved
<1>8. CASE TargetPending
  <2>1. state \in CurrentContests /\ state.reminderTime \in Int
    BY <1>1, <1>8 DEF TargetPending, ReminderReady
  <2>2. /\ state'.pendingKind = ReadyKind(state, now)
        /\ state'.reminderTime = state.reminderTime
    BY <1>8, <2>1 DEF TargetPending, WithPending, CurrentContests
  <2>3. ReadyKind(state, now) = "normal" => state.reminderTime <= now
    BY <1>0, <1>8, ReadyNormalIsDue DEF TargetPending
  <2>4. ReadyKind(state, now) = "normal" => state.reminderTime <= clock
    BY <1>2, <2>1, <2>3 DEF NowReached
  <2>5. InIteration
    BY <1>8 DEF TargetPending, InIteration
  <2>6. state'.pendingKind = "normal" =>
           state'.reminderTime <= clock' /\ (InIteration' => state'.reminderTime <= now')
    BY <1>2, <2>1, <2>2, <2>3, <2>4, <2>5
  <2> QED BY <1>5, <1>8, <2>6 DEF TargetPending
<1>9. CASE TargetSent
  <2>1. state \in CurrentContests /\ Coherent(state) /\ state.pendingKind # None
    BY <1>0, <1>1, <1>9 DEF TargetSent, AtSend
  <2>2. state'.pendingKind = None
    BY <1>9, <2>1, markSentCoherent DEF TargetSent
  <2> QED BY <1>5, <1>9, <2>2, PolicyAssumption DEF TargetSent
<1> QED BY <1>0, <1>4, <1>6, <1>7, <1>8, <1>9, TargetSteps

-----------------------------------------------------------------------------
(* Notice rows tell of the past.                                           *)

\* One row across a step: as it was, or inserted by an advance.
RowKept(key) ==
    notices'[key] # None =>
        /\ notices[key] # None
        /\ notices'[key].previousEndTime = notices[key].previousEndTime

RowAdded(key) ==
    /\ pc = "fetch" /\ state # None /\ now' = now
    /\ key = NoticeKey(state.contest)
    /\ notices'[key].previousEndTime = state.contest.endTime
    /\ notices'[key].status = "pending"
    /\ state.contest.endTime <= now
    /\ current' = state'
    /\ state' \in CurrentContests
    /\ state'.contest.startTime > now

\* Every step keeps the notice rows or adds one for a contest that ended.
LEMMA RowSteps ==
    ASSUME TypeOK, [Next]_vars, NEW key \in NoticeKeys
    PROVE  RowKept(key) \/ RowAdded(key)
<1> USE DEF RowKept
<1>1. notices \in [NoticeKeys -> NoticeRows \cup {None}]
  BY DEF TypeOK, StoreTypeOK
<1>2. CASE UNCHANGED notices
  BY <1>2
<1>3. ASSUME NEW k, NEW c, RefreshNextContestNotice(k, c) PROVE RowKept(key)
  <2>1. k \in NoticeKeys /\ notices[k] \in NoticeRows
    BY <1>3, PendingRow DEF RefreshNextContestNotice, CanRefresh, TypeOK
  <2>2. [notices[k] EXCEPT !.contest = c].previousEndTime = notices[k].previousEndTime
    BY <2>1 DEF NoticeRows
  <2>3. notices' = [notices EXCEPT ![k] = [notices[k] EXCEPT !.contest = c]]
    BY <1>1, <1>3, <2>1 DEF RefreshNextContestNotice
  <2>4. notices[k] # None
    BY <1>3 DEF RefreshNextContestNotice, CanRefresh, PendingNotices
  <2> QED BY <1>1, <2>1, <2>2, <2>3, <2>4
<1>4. ASSUME NEW k, NEW status, UpdateNextContestNotice(k, status) PROVE RowKept(key)
  <2>1. CASE k \notin PendingNotices
    BY <1>2, <1>4, <2>1 DEF UpdateNextContestNotice
  <2>2. CASE k \in PendingNotices
    <3>1. k \in NoticeKeys /\ notices[k] \in NoticeRows
      BY <2>2, PendingRow DEF TypeOK
    <3>2. [notices[k] EXCEPT !.status = status].previousEndTime = notices[k].previousEndTime
      BY <3>1 DEF NoticeRows
    <3>3. notices' = [notices EXCEPT ![k] = [notices[k] EXCEPT !.status = status]]
      BY <1>1, <1>4, <2>2, <3>1 DEF UpdateNextContestNotice
    <3>4. notices[k] # None
      BY <2>2 DEF PendingNotices
    <3> QED BY <1>1, <3>1, <3>2, <3>3, <3>4
  <2> QED BY <2>1, <2>2
<1>5. CASE FetchAdvance
  <2>1. PICK d, r :
          /\ d \in CallDelays /\ r \in FetchResults(now, d)
          /\ pc = "fetch" /\ state # None /\ now' = now
          /\ NextContest(r) # None
          /\ AdvanceToNextContest(state, newState(NextContest(r)), now)
          /\ state' = newState(NextContest(r))
    BY <1>5 DEF FetchAdvance, UsableFetch, Fetching
  <2>2. newState(NextContest(r)).contest.startTime > now
          /\ state.contest.endTime <= now
    BY <2>1 DEF AdvanceToNextContest, MayAdvance
  <2>3. CASE notices[NoticeKey(state.contest)] = None /\ key = NoticeKey(state.contest)
    <3>1. notices'[key] = PendingNotice(state, state') /\ current' = state'
      BY <1>1, <2>1, <2>3 DEF AdvanceToNextContest
    <3>2. /\ notices'[key].previousEndTime = state.contest.endTime
          /\ notices'[key].status = "pending"
      BY <3>1 DEF PendingNotice
    <3>3. page \in [Ids -> Slots \cup {None}]
      BY DEF TypeOK
    <3>4. state' \in CurrentContests
      BY <2>1, <3>3, FetchResultTyped, NextContestTyped, newStateTyped
    <3> QED BY <2>1, <2>2, <2>3, <3>1, <3>2, <3>4 DEF RowAdded
  <2>4. CASE ~(notices[NoticeKey(state.contest)] = None /\ key = NoticeKey(state.contest))
    <3>1. notices'[key] = notices[key]
      BY <1>1, <2>1, <2>4 DEF AdvanceToNextContest
    <3> QED BY <3>1
  <2> QED BY <2>3, <2>4
<1>6. CASE FetchStep /\ ~FetchAdvance
  BY <1>2, <1>6
     DEF FetchStep, FetchFailed, FetchEmptyWeek, FetchSelect, FetchTrack,
         FetchAdvanceFails, FetchNoNext, Save, DbFails, storeVars
<1>7. CASE NoticeBlock
  BY <1>2, <1>3, <1>4, <1>7
     DEF NoticeBlock, NoticeNotDue, NoticeNone, NoticeLoadFails, NoticeExpire,
         NoticeUnconfirmed, NoticeRefresh, NoticeUpdateFails, NoticeSend,
         NoticeMark, NoticeMarkFails, DbFails, storeVars
<1>8. CASE RemindBlock
  BY <1>2, <1>8
     DEF RemindBlock, RemindIdle, RemindPending, RemindPendingFails, RemindSend,
         RemindMark, RemindMarkFails, MarkPending, MarkSent, DbFails, storeVars
<1>9. CASE WeeklyStep
  BY <1>2, <1>9
     DEF WeeklyStep, WeeklySend, WeeklyMark, WeeklyMarkFails,
         MarkWeeklyCheckCompleted, DbFails, storeVars
<1>10. CASE Boot \/ Downtime \/ Crash \/ EditPage \/ UNCHANGED vars
  BY <1>2, <1>10 DEF Boot, Downtime, Crash, EditPage, vars, storeVars
<1>11. CASE ImplausibleClock \/ BeginIteration \/ WeeklyLookupFails \/ Sleep
  BY <1>2, <1>11
     DEF ImplausibleClock, BeginIteration, WeeklyLookupFails, Iterate, Sleep, storeVars
<1> QED
  BY <1>5, <1>6, <1>7, <1>8, <1>9, <1>10, <1>11 DEF Next, ProcessStep

\* NoticesOfThePast through every step.
LEMMA NextNoticesOfThePast ==
    ASSUME Timeless, NowReached, NoticesOfThePast, [Next]_vars
    PROVE  NoticesOfThePast'
<1>0. TypeOK /\ StatusCoherent /\ AtSend
  BY DEF Timeless
<1>1. /\ clock \in Nat /\ now \in Nat /\ clock' \in Nat /\ clock <= clock'
      /\ InIteration' => (InIteration /\ now' = now) \/ now' = clock
  BY <1>0, TimeSteps
<1>2. \A s \in {state, current} \ {None} :
          s \in CurrentContests /\ s.contest.startTime \in Nat
  BY <1>0, ContestFields DEF TypeOK, StoreTypeOK, CurrentContests
<1> DEFINE Follows(end, k) ==
              /\ k[2] < end
              /\ end <= clock'
              /\ InIteration' => end <= now'
              /\ \A s \in {state', current'} \ {None} : end < s.contest.startTime
<1>3. ASSUME NEW key \in NoticeKeys, notices'[key] # None, RowKept(key)
      PROVE  Follows(notices'[key].previousEndTime, key)
  <2>1. PICK end \in Nat : /\ end = notices'[key].previousEndTime
                           /\ key[2] < end
                           /\ end <= clock
                           /\ InIteration => end <= now
                           /\ \A s \in {state, current} \ {None} :
                                 end < s.contest.startTime
    <3>1. notices[key] \in NoticeRows
      BY <1>0, <1>3 DEF RowKept, TypeOK, StoreTypeOK
    <3>2. notices[key].previousEndTime \in Nat
      BY <3>1, PolicyAssumption DEF NoticeRows
    <3> QED BY <1>3, <3>2 DEF RowKept, NoticesOfThePast
  <2>2. end <= clock' /\ (InIteration' => end <= now')
    BY <1>1, <2>1
  <2>3. ASSUME NEW s \in {state', current'} \ {None} PROVE end < s.contest.startTime
    <3>1. CASE TargetRests
      BY <2>1, <3>1 DEF TargetRests
    <3>2. ASSUME StoredOrNot, state' # None => end < state'.contest.startTime
          PROVE  end < s.contest.startTime
      BY <2>1, <3>2 DEF StoredOrNot
    <3>3. ASSUME NEW c \in Contests, pc = "fetch", c.startTime > now
          PROVE  end < c.startTime
      <4>1. c.startTime \in Nat
        BY ContestFields
      <4> QED BY <1>1, <2>1, <3>3, <4>1 DEF InIteration
    <3>4. ASSUME NEW c \in Contests, TargetTaken(c) PROVE end < s.contest.startTime
      BY <3>2, <3>3, <3>4 DEF TargetTaken, newState
    <3>5. ASSUME NEW c \in Contests, TargetMoved(c) PROVE end < s.contest.startTime
      <4>1. state \in CurrentContests
        BY <1>2, <3>5 DEF TargetMoved
      <4>2. Rescheduled(state, c).contest = c
        BY <4>1 DEF Rescheduled, CurrentContests
      <4> QED BY <3>2, <3>3, <3>5, <4>2 DEF TargetMoved
    <3>6. CASE TargetPending
      <4>1. state \in CurrentContests
        BY <1>2, <3>6 DEF TargetPending, ReminderReady
      <4>2. state'.contest = state.contest
        BY <3>6, <4>1 DEF TargetPending, WithPending, CurrentContests
      <4> QED BY <2>1, <3>2, <3>6, <4>1, <4>2, StoreAssumption DEF TargetPending
    <3>7. CASE TargetSent
      <4>1. state \in CurrentContests
        BY <1>0, <1>2, <3>7 DEF TargetSent, AtSend
      <4>2. state'.contest = state.contest
        BY <3>7, <4>1 DEF TargetSent, markSentState, CurrentContests
      <4> QED BY <2>1, <3>2, <3>7, <4>1, <4>2, StoreAssumption DEF TargetSent
    <3> QED BY <1>0, <3>1, <3>4, <3>5, <3>6, <3>7, TargetSteps
  <2> QED BY <2>1, <2>2, <2>3
<1>4. ASSUME NEW key \in NoticeKeys, RowAdded(key)
      PROVE  Follows(notices'[key].previousEndTime, key)
  <2>1. state.contest \in Contests
    BY <1>2, <1>4 DEF RowAdded, CurrentContests
  <2>2. /\ key[2] = state.contest.startTime
        /\ notices'[key].previousEndTime = state.contest.endTime
    BY <1>4 DEF RowAdded, NoticeKey
  <2>3. /\ state.contest.endTime \in Nat /\ state.contest.startTime \in Nat
        /\ state.contest.startTime < state.contest.endTime
    BY <2>1, ContestFields
  <2>4. TypeOK'
    BY <1>0, NextTypeOK
  <2>5. state'.contest.startTime \in Nat \/ state' = None
    BY <2>4, ContestFields DEF TypeOK, CurrentContests
  <2> QED BY <1>1, <1>4, <2>2, <2>3, <2>5 DEF RowAdded, NowReached
<1>5. ASSUME NEW key \in NoticeKeys, notices'[key] # None
      PROVE  Follows(notices'[key].previousEndTime, key)
  BY <1>0, <1>3, <1>4, <1>5, RowSteps
<1> QED BY <1>5 DEF NoticesOfThePast

-----------------------------------------------------------------------------
(* The theorems.                                                           *)

\* The part that compares no times holds at the start.
LEMMA InitTimeless == Init => Timeless
  BY InitTypeOK DEF Init, StoreInit, StatusCoherent, AtSend, Timeless

\* It is inductive by itself.
LEMMA NextTimeless == Timeless /\ [Next]_vars => Timeless'
  BY NextTypeOK, NextStatusCoherent, NextAtSend DEF Timeless

\* The part that compares no times holds in every reachable state.
LEMMA AlwaysTimeless == Spec => []Timeless
  BY InitTimeless, NextTimeless, PTL DEF Spec

\* The clock of a step never falls behind the time it goes by.
LEMMA NextNowReached ==
    ASSUME TypeOK, NowReached, [Next]_vars
    PROVE  NowReached'
  BY TimeSteps DEF NowReached

\* The inductive invariant holds at the start.
LEMMA InitInductive == Init => Inductive
<1> SUFFICES ASSUME Init PROVE Inductive
  OBVIOUS
<1>1. PendingMeansDue
  BY DEF Init, StoreInit, PendingMeansDue
<1>2. NowReached
  BY DEF Init, NowReached
<1>3. NoticesOfThePast
  BY DEF Init, StoreInit, NoticesOfThePast
<1> QED BY <1>1, <1>2, <1>3, InitTimeless DEF Inductive

\* The invariant is inductive.
LEMMA NextInductive == Inductive /\ [Next]_vars => Inductive'
<1> SUFFICES ASSUME Inductive, [Next]_vars PROVE Inductive'
  OBVIOUS
<1>1. Timeless /\ TypeOK /\ NowReached /\ NoticesOfThePast /\ PendingMeansDue
  BY DEF Inductive, Timeless
<1> QED
  BY <1>1, NextTimeless, NextNowReached, NextNoticesOfThePast, NextPendingMeansDue
     DEF Inductive

\* The invariant holds in every reachable state.
LEMMA AlwaysInductive == Spec => []Inductive
  BY InitInductive, NextInductive, PTL DEF Spec

\* Every variable of run(), every table and the environment keep their types,
\* in every state of the loop and for all values of the constants.
THEOREM TypeCorrect == Spec => []TypeOK
<1>1. Inductive => TypeOK
  BY DEF Inductive, Timeless
<1> QED BY <1>1, AlwaysInductive, PTL

\* The eight status fields of the target, in memory and stored, only ever take
\* the combinations that updateFromAtCoder, the reminder block and
\* markSentState mean (main.cpp:51-106, 328-374).
THEOREM StatusesCohere == Spec => []StatusCoherent
<1>1. Inductive => StatusCoherent
  BY DEF Inductive, Timeless
<1> QED BY <1>1, AlwaysInductive, PTL

\* In a state of the invariant, no row has the key of a target.
LEMMA InductiveInserts == Inductive => AdvanceAlwaysInserts
<1>1. ASSUME Inductive, NEW s \in {state, current} \ {None},
             notices[NoticeKey(s.contest)] # None
      PROVE  FALSE
  <2>1. s \in CurrentContests
    BY <1>1 DEF Inductive, Timeless, TypeOK, StoreTypeOK
  <2>2. s.contest \in Contests /\ s.contest.startTime \in Nat
    BY <2>1, ContestFields DEF CurrentContests
  <2>3. NoticeKey(s.contest) \in NoticeKeys
    BY <2>2, NoticeKeyTyped
  <2>4. notices[NoticeKey(s.contest)].previousEndTime \in Nat
    <3>1. notices[NoticeKey(s.contest)] \in NoticeRows
      BY <1>1, <2>3 DEF Inductive, Timeless, TypeOK, StoreTypeOK
    <3> QED BY <3>1, PolicyAssumption DEF NoticeRows
  <2>5. NoticeKey(s.contest)[2] = s.contest.startTime
    BY DEF NoticeKey
  <2>6. /\ s.contest.startTime < notices[NoticeKey(s.contest)].previousEndTime
        /\ notices[NoticeKey(s.contest)].previousEndTime < s.contest.startTime
    BY <1>1, <2>3, <2>5 DEF Inductive, Timeless, NoticesOfThePast
  <2> QED BY <2>2, <2>4, <2>6
<1> QED BY <1>1 DEF AdvanceAlwaysInserts

\* advanceToNextContest never finds the key of its notice in use, so its
\* INSERT OR IGNORE never ignores and memory and database advance together
\* (state_repository.cpp:187-198).
THEOREM AdvanceInserts == Spec => []AdvanceAlwaysInserts
  BY InductiveInserts, AlwaysInductive, PTL

\* A normal reminder is only ever sent inside its window and before the start
\* it announces, although a pending one is sent without a second look at
\* shouldSendNormal (main.cpp:330-341).
THEOREM NormalSentInWindow == Spec => []NormalInWindow
<1>1. ASSUME Inductive, pc = "remindSend", state.pendingKind = "normal"
      PROVE  shouldSendNormal(state, now)
  <2>1. state \in {state, current} \ {None} /\ state \in CurrentContests
    BY <1>1 DEF Inductive, Timeless, AtSend, TypeOK
  <2>2. state.normalStatus = "pending"
    BY <1>1, <2>1 DEF Inductive, Timeless, StatusCoherent, Coherent
  <2>3. state.reminderTime <= now
    BY <1>1, <2>1 DEF Inductive, Timeless, PendingMeansDue, InIteration
  <2>4. now < state.contest.startTime
    BY <1>1 DEF Inductive, Timeless, AtSend
  <2>5. state.reminderTime \in Int /\ now \in Int
    BY <1>1, <2>1 DEF Inductive, Timeless, TypeOK, Times, CurrentContests
  <2> QED BY <2>2, <2>3, <2>4, <2>5 DEF shouldSendNormal
<1>2. Inductive => NormalInWindow
  BY <1>1 DEF NormalInWindow
<1> QED BY <1>2, AlwaysInductive, PTL

\* At the end of an iteration, a reminder or correction that is due and was not
\* sent has a retry ahead.
THEOREM DueRemindersRetried == Spec => []DueReminderRetried
<1>1. Init => DueReminderRetried
  BY DEF Init, DueReminderRetried
<1>2. ASSUME Inductive, DueReminderRetried, [Next]_vars, pc' = "sleep",
             state' # None, allowNotificationAction',
             now' < state'.contest.startTime, now' < MaxTime,
             shouldSendNormal(state, now)' \/ state'.changeStatus = "pending"
      PROVE  nextNotificationAction' > now'
  <2>1. /\ now \in Nat /\ MaxTime \in Nat
        /\ nextNotificationAction \in Nat
        /\ RetryDelay \in Nat \ {0} /\ ConfigDelay \in Nat \ {0}
    BY <1>2, LoopAssumption DEF Inductive, Timeless, TypeOK, Times
  <2>2. ASSUME now < MaxTime
        PROVE  After(now, RetryDelay) > now /\ After(now, ConfigDelay) > now
    BY <2>1, <2>2 DEF After, Capped, SmallerOf
  <2>3. CASE RemindIdle
    <3>1. ReadyKind(state, now) # None
      BY <1>2, <2>3, PolicyAssumption
         DEF RemindIdle, RemindStep, ReadyKind, pendingKind, shouldSendNormal
    <3> QED BY <1>2, <2>1, <2>3, <3>1 DEF RemindIdle, RemindStep, iteration, ReminderReady
  <2>4. CASE RemindPendingFails \/ RemindSend \/ RemindMarkFails
    BY <1>2, <2>2, <2>4
       DEF RemindPendingFails, RemindSend, RemindMarkFails, RemindStep
  <2>5. CASE RemindMark
    <3>1. state \in CurrentContests /\ state.pendingKind \in Kinds /\ Coherent(state)
      BY <1>2, <2>5, PendingTyped DEF RemindMark, Inductive, Timeless, StatusCoherent, AtSend
    <3>2. state'.normalStatus = "sent" /\ state'.changeStatus # "pending"
      BY <2>5, <3>1 DEF RemindMark, markSentState, Coherent, CurrentContests, Kinds
    <3> QED BY <1>2, <3>2 DEF shouldSendNormal
  <2>6. CASE EditPage \/ UNCHANGED vars
    BY <1>2, <2>6
       DEF EditPage, vars, timers, iteration, DueReminderRetried, shouldSendNormal
  <2>7. CASE RemindPending
    BY <1>2, <2>7 DEF RemindPending
  <2>8. CASE FetchStep
    BY <1>2, <2>8
       DEF FetchStep, FetchFailed, FetchEmptyWeek, FetchSelect, FetchTrack,
           FetchAdvance, FetchAdvanceFails, FetchNoNext, UsableFetch
  <2>9. CASE WeeklyStep
    BY <1>2, <2>9 DEF WeeklyStep, WeeklySend, WeeklyMark, WeeklyMarkFails
  <2>10. CASE NoticeBlock
    BY <1>2, <2>10
       DEF NoticeBlock, NoticeNotDue, NoticeNone, NoticeLoadFails, NoticeExpire,
           NoticeUnconfirmed, NoticeRefresh, NoticeUpdateFails, NoticeSend,
           NoticeMark, NoticeMarkFails, LeaveNotice
  <2>11. CASE Boot \/ Downtime \/ Crash \/ ImplausibleClock \/ BeginIteration
                \/ WeeklyLookupFails \/ Sleep
    BY <1>2, <2>11
       DEF Boot, Downtime, Crash, ImplausibleClock, BeginIteration,
           WeeklyLookupFails, Iterate, Sleep
  <2> QED
    BY <1>2, <2>3, <2>4, <2>5, <2>6, <2>7, <2>8, <2>9, <2>10, <2>11
       DEF Next, ProcessStep, RemindBlock
<1>3. Inductive /\ DueReminderRetried /\ [Next]_vars => DueReminderRetried'
  BY <1>2 DEF DueReminderRetried
<1> QED BY <1>1, <1>3, AlwaysInductive, PTL DEF Spec
=============================================================================
