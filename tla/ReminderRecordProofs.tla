------------------------ MODULE ReminderRecordProofs ------------------------
(***************************************************************************)
(* Theorems about the records of the main loop, for every value of the      *)
(* constants: what is stored against what is in the channel, what a restart *)
(* finds, what is not announced twice, how far apart the fetches are, how   *)
(* the repository is called.  Each rests on ReminderLoopProofs' Timeless or *)
(* Inductive and on a strengthening of its own, over what each step does to *)
(* the records and to the channel.                                         *)
(***************************************************************************)
EXTENDS ReminderLoopProofs, ReminderPace

\* The steps that leave the store, the channel and the notice in memory alone.
QuietStep ==
    \/ Boot \/ Downtime \/ Crash \/ EditPage
    \/ ImplausibleClock \/ BeginIteration \/ WeeklyLookupFails \/ Sleep
    \/ UNCHANGED vars

\* Every step is one of the four blocks' or quiet.
LEMMA StepKinds ==
    ASSUME [Next]_vars
    PROVE  FetchStep \/ WeeklyStep \/ NoticeBlock \/ RemindBlock \/ QuietStep
  BY DEF Next, ProcessStep, QuietStep

\* Quiet steps change no record and no message.
LEMMA QuietRests ==
    ASSUME QuietStep
    PROVE  UNCHANGED <<storeVars, posts>>
  BY DEF QuietStep, Boot, Downtime, Crash, EditPage, ImplausibleClock, BeginIteration,
         WeeklyLookupFails, Iterate, Sleep, vars, environment

\* After a quiet step the process is where it was, or before any record.
LEMMA QuietPlaces ==
    ASSUME QuietStep
    PROVE  \/ pc' \in {"boot", "top", "fetch", "notice"}
           \/ UNCHANGED <<storeVars, posts, pc, now, state, notice,
                          confirmedFutureContests, weeklyCheckPending>>
  BY DEF QuietStep, Boot, Downtime, Crash, EditPage, ImplausibleClock, BeginIteration,
         WeeklyLookupFails, Iterate, Sleep, vars, environment, fetchMemory, iteration

-----------------------------------------------------------------------------
(* What one step can do to the records.                                    *)

\* Every step keeps the history or moves the target's key on.
LEMMA HistorySteps ==
    ASSUME TypeOK, StatusCoherent, AtSend, [Next]_vars, NEW key \in NotificationKeys
    PROVE  \/ history'[key] = history[key]
           \/ history'[key] = "pending" /\ history[key] = "absent" /\ pc = "remind"
           \/ /\ history'[key] = "sent" /\ history[key] # "absent"
              /\ pc = "remindMark" /\ key = state.pendingMessageKey
<1>1. history \in [NotificationKeys -> {"absent", "pending", "sent"}]
  BY DEF TypeOK, StoreTypeOK
<1>2. CASE UNCHANGED history
  BY <1>2
<1>3. CASE FetchStep
  BY <1>2, <1>3
     DEF FetchStep, FetchFailed, FetchEmptyWeek, FetchSelect, FetchTrack,
         FetchAdvance, FetchAdvanceFails, FetchNoNext, Save, AdvanceToNextContest,
         DbFails, storeVars
<1>4. CASE WeeklyStep
  BY <1>2, <1>4
     DEF WeeklyStep, WeeklySend, WeeklyMark, WeeklyMarkFails,
         MarkWeeklyCheckCompleted, DbFails, storeVars
<1>5. CASE NoticeBlock
  BY <1>2, <1>5
     DEF NoticeBlock, NoticeNotDue, NoticeNone, NoticeLoadFails, NoticeExpire,
         NoticeUnconfirmed, NoticeRefresh, NoticeUpdateFails, NoticeSend,
         NoticeMark, NoticeMarkFails, UpdateNextContestNotice,
         RefreshNextContestNotice, DbFails, storeVars
<1>6. CASE RemindPending
  <2>1. state'.pendingMessageKey \in NotificationKeys
    BY <1>6, ReadyTyped DEF RemindPending
  <2> QED BY <1>1, <1>6, <2>1 DEF RemindPending, MarkPending
<1>7. CASE RemindMark
  <2>1. state.pendingMessageKey \in NotificationKeys
    BY <1>7, PendingTyped DEF RemindMark
  <2> QED BY <1>1, <1>7, <2>1 DEF RemindMark, MarkSent
<1>8. CASE RemindIdle \/ RemindPendingFails \/ RemindSend \/ RemindMarkFails
  BY <1>2, <1>8
     DEF RemindIdle, RemindPendingFails, RemindSend, RemindMarkFails, DbFails, storeVars
<1>9. CASE QuietStep
  BY <1>2, <1>9, QuietRests DEF storeVars
<1> QED
  BY <1>3, <1>4, <1>5, <1>6, <1>7, <1>8, <1>9, StepKinds DEF RemindBlock

\* Every step keeps a notice row, or refreshes or settles it while it is pending.
LEMMA NoticeSteps ==
    ASSUME TypeOK, [Next]_vars, NEW key \in NoticeKeys, notices[key] # None
    PROVE  \/ notices'[key] = notices[key]
           \/ /\ notices[key].status = "pending"
              /\ notices'[key] # None
              /\ notices'[key].status = "sent" => pc = "noticeMark" /\ key = notice.key
<1>1. notices \in [NoticeKeys -> NoticeRows \cup {None}] /\ notices[key] \in NoticeRows
  BY DEF TypeOK, StoreTypeOK
<1>2. CASE UNCHANGED notices
  BY <1>2
<1>3. ASSUME NEW k, NEW c \in Contests, RefreshNextContestNotice(k, c)
      PROVE  \/ notices'[key] = notices[key]
             \/ /\ notices[key].status = "pending"
                /\ notices'[key] # None
                /\ notices'[key].status # "sent"
  <2>1. /\ k \in NoticeKeys /\ notices[k] \in NoticeRows
        /\ notices[k].status = "pending"
    BY <1>3, PendingRow DEF RefreshNextContestNotice, CanRefresh, PendingNotices, TypeOK
  <2>2. notices' = [notices EXCEPT ![k] = [notices[k] EXCEPT !.contest = c]]
    BY <1>1, <1>3, <2>1 DEF RefreshNextContestNotice
  <2>3. [notices[k] EXCEPT !.contest = c].status = "pending"
    BY <2>1 DEF NoticeRows
  <2>4. StoreTypeOK'
    BY <1>3, RefreshTyped DEF TypeOK
  <2>5. notices'[key] \in NoticeRows \cup {None}
    BY <2>4 DEF StoreTypeOK
  <2>6. [notices[k] EXCEPT !.contest = c] \in NoticeRows
    BY <2>1 DEF NoticeRows
  <2> QED BY <1>1, <2>1, <2>2, <2>3, <2>6, StoreAssumption
<1>4. ASSUME NEW k, NEW status \in {"sent", "skipped"}, UpdateNextContestNotice(k, status)
      PROVE  \/ notices'[key] = notices[key]
             \/ /\ notices[key].status = "pending"
                /\ notices'[key] # None
                /\ notices'[key].status = status /\ key = k
  <2>1. CASE k \notin PendingNotices
    BY <1>2, <1>4, <2>1 DEF UpdateNextContestNotice
  <2>2. CASE k \in PendingNotices
    <3>1. k \in NoticeKeys /\ notices[k] \in NoticeRows /\ notices[k].status = "pending"
      BY <2>2, PendingRow DEF TypeOK, PendingNotices
    <3>2. notices' = [notices EXCEPT ![k] = [notices[k] EXCEPT !.status = status]]
      BY <1>1, <1>4, <2>2, <3>1 DEF UpdateNextContestNotice
    <3>3. /\ [notices[k] EXCEPT !.status = status].status = status
          /\ [notices[k] EXCEPT !.status = status] \in NoticeRows
      BY <3>1 DEF NoticeRows
    <3> QED BY <1>1, <3>1, <3>2, <3>3, StoreAssumption
  <2> QED BY <2>1, <2>2
<1>5. CASE FetchAdvance
  BY <1>1, <1>5 DEF FetchAdvance, AdvanceToNextContest
<1>6. CASE FetchStep /\ ~FetchAdvance
  BY <1>2, <1>6
     DEF FetchStep, FetchFailed, FetchEmptyWeek, FetchSelect, FetchTrack,
         FetchAdvanceFails, FetchNoNext, Save, DbFails, storeVars
<1>7. CASE NoticeRefresh
  <2>1. PICK c \in Confirmed : RefreshNextContestNotice(FirstPendingNotice, c)
    BY <1>7 DEF NoticeRefresh
  <2>2. c \in Contests
    BY DEF Confirmed, findContest, TypeOK
  <2> QED BY <1>3, <2>1, <2>2
<1>8. CASE NoticeExpire
  BY <1>4, <1>8 DEF NoticeExpire
<1>9. CASE NoticeMark
  BY <1>4, <1>9 DEF NoticeMark
<1>10. CASE NoticeBlock /\ ~NoticeRefresh /\ ~NoticeExpire /\ ~NoticeMark
  BY <1>2, <1>10
     DEF NoticeBlock, NoticeNotDue, NoticeNone, NoticeLoadFails, NoticeUnconfirmed,
         NoticeUpdateFails, NoticeSend, NoticeMarkFails, DbFails, storeVars
<1>11. CASE WeeklyStep
  BY <1>2, <1>11
     DEF WeeklyStep, WeeklySend, WeeklyMark, WeeklyMarkFails,
         MarkWeeklyCheckCompleted, DbFails, storeVars
<1>12. CASE RemindBlock
  BY <1>2, <1>12
     DEF RemindBlock, RemindIdle, RemindPending, RemindPendingFails, RemindSend,
         RemindMark, RemindMarkFails, MarkPending, MarkSent, DbFails, storeVars
<1>13. CASE QuietStep
  BY <1>2, <1>13, QuietRests DEF storeVars
<1> QED
  BY <1>5, <1>6, <1>7, <1>8, <1>9, <1>10, <1>11, <1>12, <1>13, StepKinds

\* No step forgets a completed Saturday, and only a mark adds one.
LEMMA WeeklySteps ==
    ASSUME [Next]_vars
    PROVE  \/ weekly' = weekly
           \/ pc = "weeklyMark" /\ pc' = "notice" /\ weekly \subseteq weekly'
<1>1. CASE UNCHANGED weekly
  BY <1>1
<1>2. CASE FetchStep
  BY <1>1, <1>2
     DEF FetchStep, FetchFailed, FetchEmptyWeek, FetchSelect, FetchTrack,
         FetchAdvance, FetchAdvanceFails, FetchNoNext, Save, AdvanceToNextContest,
         DbFails, storeVars
<1>3. CASE WeeklyStep
  BY <1>1, <1>3
     DEF WeeklyStep, WeeklySend, WeeklyMark, WeeklyMarkFails,
         MarkWeeklyCheckCompleted, DbFails, storeVars
<1>4. CASE NoticeBlock
  BY <1>1, <1>4
     DEF NoticeBlock, NoticeNotDue, NoticeNone, NoticeLoadFails, NoticeExpire,
         NoticeUnconfirmed, NoticeRefresh, NoticeUpdateFails, NoticeSend,
         NoticeMark, NoticeMarkFails, UpdateNextContestNotice,
         RefreshNextContestNotice, DbFails, storeVars
<1>5. CASE RemindBlock
  BY <1>1, <1>5
     DEF RemindBlock, RemindIdle, RemindPending, RemindPendingFails, RemindSend,
         RemindMark, RemindMarkFails, MarkPending, MarkSent, DbFails, storeVars
<1>6. CASE QuietStep
  BY <1>1, <1>6, QuietRests DEF storeVars
<1> QED BY <1>2, <1>3, <1>4, <1>5, <1>6, StepKinds

\* A stored target is replaced, never lost.
LEMMA CurrentKept ==
    ASSUME Timeless, [Next]_vars, current # None
    PROVE  current' # None
<1>1. TypeOK /\ StatusCoherent /\ AtSend
  BY DEF Timeless
<1>2. ASSUME state' \in CurrentContests, StoredOrNot PROVE current' # None
  BY <1>2, StoreAssumption DEF StoredOrNot
<1>3. CASE TargetRests
  BY <1>3 DEF TargetRests
<1>4. ASSUME NEW c \in Contests, TargetTaken(c) PROVE current' # None
  BY <1>2, <1>4, newStateTyped DEF TargetTaken
<1>5. ASSUME NEW c \in Contests, TargetMoved(c) PROVE current' # None
  BY <1>1, <1>2, <1>5, RescheduledTyped DEF TargetMoved, TypeOK
<1>6. CASE TargetPending
  BY <1>1, <1>2, <1>6, ReadyTyped DEF TargetPending
<1>7. CASE TargetSent
  BY <1>1, <1>2, <1>7, PendingTyped, markSentTyped DEF TargetSent
<1> QED BY <1>1, <1>3, <1>4, <1>5, <1>6, <1>7, TargetSteps

-----------------------------------------------------------------------------
(* What the store never takes back.                                        *)

\* No step takes back a row of any table.
LEMMA NextRecordsKept ==
    ASSUME Timeless, Timeless', [Next]_vars
    PROVE  RecordsKept
<1> USE DEF Timeless
<1>1. \A key \in NotificationKeys :
         history[key] # "absent" => history'[key] \in {history[key], "sent"}
  BY HistorySteps
<1>2. \A key \in NoticeKeys : notices[key] # None =>
         /\ notices'[key] # None
         /\ notices[key].status # "pending" => notices'[key] = notices[key]
  BY NoticeSteps
<1>3. weekly \subseteq weekly'
  BY WeeklySteps
<1>4. current # None => current' # None
  BY CurrentKept
<1> QED BY <1>1, <1>2, <1>3, <1>4 DEF RecordsKept

\* No step, failure or restart takes back a record: history rows, settled
\* notices, completed Saturdays and the stored target
\* (state_repository.cpp:120-330).
THEOREM RecordsStay == Spec => RecordsNeverRegress
<1>1. Timeless /\ Timeless' /\ [Next]_vars => [RecordsKept]_storeVars
  BY NextRecordsKept
<1> QED BY <1>1, AlwaysTimeless, PTL DEF Spec, RecordsNeverRegress

\* Every notice row tells of a contest that ended before the target starts
\* (state_repository.cpp:163-176).
THEOREM NoticesLookBack == Spec => []NoticesOfThePast
<1>1. Inductive => NoticesOfThePast
  BY DEF Inductive, Timeless
<1> QED BY <1>1, AlwaysInductive, PTL

-----------------------------------------------------------------------------
(* What a restart finds.                                                   *)

\* The same contest, announced or not.
SameProgress(s, t) ==
    /\ t.contest.id = s.contest.id
    /\ t.normalStatus = s.normalStatus
    /\ t.normalSentForStartTime = s.normalSentForStartTime

\* RestartKeepsProgress, and that there is no stored target without one in memory.
Agreement ==
    pc # "boot" =>
        IF current = None
        THEN state # None => state.normalStatus = "pending"
        ELSE state # None /\ SameProgress(state, current)

\* What a step can do to the two targets.
Progress ==
    \/ UNCHANGED <<state, current>> /\ (pc = "boot" => pc' = "boot")
    \/ pc' = "boot"
    \/ pc = "boot" /\ state' = current /\ current' = current
    \/ /\ pc # "boot"
       /\ state' \in CurrentContests
       /\ \/ current' = state'
          \/ /\ current' = current
             /\ IF state = None THEN state'.normalStatus = "pending"
                ELSE SameProgress(state, state')

\* An advance moves both targets.
LEMMA AdvanceMovesBoth ==
    ASSUME TypeOK, AdvanceAlwaysInserts, FetchAdvance
    PROVE  current' = state' /\ state' \in CurrentContests
<1>1. page \in [Ids -> Slots \cup {None}]
  BY DEF TypeOK
<1>2. PICK d, r : /\ d \in CallDelays /\ r \in FetchResults(now, d)
                  /\ state # None
                  /\ NextContest(r) # None
                  /\ AdvanceToNextContest(state, newState(NextContest(r)), now)
                  /\ state' = newState(NextContest(r))
  BY DEF FetchAdvance
<1>3. notices[NoticeKey(state.contest)] = None
  BY <1>2 DEF AdvanceAlwaysInserts
<1>4. NextContest(r) \in Contests
  BY <1>1, <1>2, FetchResultTyped, NextContestTyped
<1> QED BY <1>2, <1>3, <1>4, newStateTyped DEF AdvanceToNextContest

\* Every step makes progress in this sense.
LEMMA ProgressSteps ==
    ASSUME Timeless, AdvanceAlwaysInserts, [Next]_vars
    PROVE  Progress
<1> USE DEF Progress
<1>0. TypeOK /\ StatusCoherent /\ AtSend
  BY DEF Timeless
<1>1. CASE FetchStep
  <2>1. pc = "fetch" /\ page \in [Ids -> Slots \cup {None}]
    BY <1>0, <1>1 DEF FetchStep, TypeOK
  <2>2. CASE FetchFailed \/ FetchEmptyWeek \/ FetchAdvanceFails \/ FetchNoNext
    BY <2>1, <2>2
       DEF FetchFailed, FetchEmptyWeek, FetchAdvanceFails, FetchNoNext, DbFails, storeVars
  <2>3. CASE FetchSelect
    <3>1. PICK d, r : /\ d \in CallDelays /\ r \in FetchResults(now, d)
                      /\ r.contests # {}
                      /\ state = None
                      /\ state' = newState(Earliest(r.contests))
                      /\ Save(state') \/ DbFails
      BY <2>3 DEF FetchSelect
    <3>2. state' \in CurrentContests
      BY <2>1, <3>1, FetchResultTyped, EarliestIsMember, newStateTyped
    <3>3. state'.normalStatus = "pending"
      BY <3>1 DEF newState
    <3> QED BY <2>1, <3>1, <3>2, <3>3 DEF Save, DbFails, storeVars
  <2>4. CASE FetchTrack
    <3>1. PICK d, r : /\ d \in CallDelays /\ r \in FetchResults(now, d)
                      /\ state # None
                      /\ state' = Tracked(r)
                      /\ Tracked(r) = state => UNCHANGED storeVars
                      /\ Tracked(r) # state => Save(Tracked(r)) \/ DbFails
      BY <2>4 DEF FetchTrack
    <3>2. state \in CurrentContests /\ r.contests \subseteq Contests
      BY <1>0, <2>1, <3>1, FetchResultTyped DEF TypeOK
    <3>3. state' \in CurrentContests
      BY <3>1, <3>2, TrackedTyped
    <3>4. SameProgress(state, state')
      <4>1. CASE Tracked(r) = state
        BY <3>1, <4>1 DEF SameProgress
      <4>2. CASE Tracked(r) # state
        <5> DEFINE c == CHOOSE c \in findContest(r.contests, state.contest.id) : TRUE
        <5>1. Tracked(r) = Rescheduled(state, c)
                /\ findContest(r.contests, state.contest.id) # {}
          BY <4>2 DEF Tracked
        <5>2. c.id = state.contest.id
          BY <5>1 DEF findContest
        <5> HIDE DEF c
        <5> QED
          BY <3>1, <3>2, <5>1, <5>2 DEF SameProgress, Rescheduled, CurrentContests
      <4> QED BY <4>1, <4>2
    <3> QED BY <2>1, <3>1, <3>3, <3>4 DEF Save, DbFails, storeVars
  <2>5. CASE FetchAdvance
    BY <1>0, <2>1, <2>5, AdvanceMovesBoth
  <2> QED BY <1>1, <2>2, <2>3, <2>4, <2>5 DEF FetchStep
<1>2. CASE RemindPending
  BY <1>0, <1>2, ReadyTyped DEF RemindPending, MarkPending
<1>3. CASE RemindPendingFails
  <2>1. state \in CurrentContests /\ state # None /\ state' \in CurrentContests
    BY <1>0, <1>3, ReadyTyped DEF RemindPendingFails, ReminderReady, TypeOK
  <2>2. SameProgress(state, state')
    BY <1>3, <2>1 DEF RemindPendingFails, WithPending, SameProgress, CurrentContests
  <2> QED BY <1>3, <2>1, <2>2 DEF RemindPendingFails, DbFails, storeVars
<1>4. CASE RemindMark
  BY <1>0, <1>4, PendingTyped, markSentTyped DEF RemindMark, MarkSent
<1>5. CASE RemindIdle \/ RemindSend \/ RemindMarkFails
  BY <1>5 DEF RemindIdle, RemindSend, RemindMarkFails, DbFails, storeVars
<1>6. CASE WeeklyStep
  BY <1>6
     DEF WeeklyStep, WeeklySend, WeeklyMark, WeeklyMarkFails,
         MarkWeeklyCheckCompleted, DbFails, storeVars
<1>7. CASE NoticeBlock
  BY <1>7
     DEF NoticeBlock, NoticeNotDue, NoticeNone, NoticeLoadFails, NoticeExpire,
         NoticeUnconfirmed, NoticeRefresh, NoticeUpdateFails, NoticeSend,
         NoticeMark, NoticeMarkFails, NoticeStep, NoticeDue, UpdateNextContestNotice,
         RefreshNextContestNotice, DbFails, storeVars
<1>8. CASE Boot \/ Downtime \/ Crash \/ EditPage \/ UNCHANGED vars
  BY <1>8 DEF Boot, Downtime, Crash, EditPage, vars, storeVars
<1>9. CASE ImplausibleClock \/ BeginIteration \/ WeeklyLookupFails \/ Sleep
  BY <1>9
     DEF ImplausibleClock, BeginIteration, WeeklyLookupFails, Iterate, Sleep, storeVars
<1> QED
  BY <1>1, <1>2, <1>3, <1>4, <1>5, <1>6, <1>7, <1>8, <1>9, StepKinds
     DEF RemindBlock, QuietStep

\* Agreement through every step.
LEMMA NextAgreement ==
    ASSUME Timeless, AdvanceAlwaysInserts, Agreement, [Next]_vars
    PROVE  Agreement'
<1>1. CASE UNCHANGED <<state, current>> /\ (pc = "boot" => pc' = "boot")
  BY <1>1 DEF Agreement, SameProgress
<1>2. CASE pc' = "boot"
  BY <1>2 DEF Agreement
<1>3. CASE pc = "boot" /\ state' = current /\ current' = current
  BY <1>3 DEF Agreement, SameProgress
<1>4. CASE state' \in CurrentContests /\ current' = state'
  BY <1>4, StoreAssumption DEF Agreement, SameProgress
<1>5. CASE /\ pc # "boot"
           /\ state' \in CurrentContests
           /\ current' = current
           /\ IF state = None THEN state'.normalStatus = "pending"
              ELSE SameProgress(state, state')
  BY <1>5, StoreAssumption DEF Agreement, SameProgress
<1> QED BY <1>1, <1>2, <1>3, <1>4, <1>5, ProgressSteps DEF Progress

\* Memory and database never part: a crash at any point cannot make the service
\* announce a contest again that memory knows as announced (main.cpp:248, 346-371).
THEOREM RestartFindsProgress == Spec => []RestartKeepsProgress
<1>1. Init => Agreement
  BY DEF Init, Agreement
<1>2. Inductive /\ Agreement /\ [Next]_vars => Agreement'
  BY InductiveInserts, NextAgreement DEF Inductive
<1>3. Agreement => RestartKeepsProgress
  BY DEF Agreement, SameProgress, RestartKeepsProgress
<1> QED BY <1>1, <1>2, <1>3, AlwaysInductive, PTL DEF Spec

-----------------------------------------------------------------------------
(* What one step can do to the channel.                                    *)

\* discord.send only reports success for a message that is in the channel.
LEMMA SentIsDelivered ==
    ASSUME NEW mentionRole \in BOOLEAN, NEW outcome \in Outcomes(mentionRole),
           outcome.result = "Sent"
    PROVE  outcome.delivered
<1>1. outcome \in SendOutcomes(mentionRole)
  BY DEF Outcomes
<1>2. CASE ~CanRequest(mentionRole)
  BY <1>1, <1>2 DEF SendOutcomes
<1>3. CASE CanRequest(mentionRole)
  <2>1. PICK r \in WebhookResponses :
           outcome = [result |-> Classify(r), delivered |-> r.delivered]
    BY <1>1, <1>3 DEF SendOutcomes
  <2>2. r.transportSucceeded /\ IsSuccess(r.status)
    BY <2>1 DEF Classify
  <2>3. r.delivered
    BY <2>2 DEF WebhookResponses
  <2> QED BY <2>1, <2>3
<1> QED BY <1>2, <1>3

\* The message that a step may add to the channel.
Posted ==
    CASE pc = "remindSend" -> state.pendingMessageKey
      [] pc = "noticeSend" -> NoticePost(notice.key)
      [] OTHER             -> WeeklyPost(jstDateKey(now))

\* Every step keeps the channel or adds the message of the place it is at.
LEMMA PostSteps ==
    ASSUME [Next]_vars
    PROVE  \/ posts' = posts
           \/ /\ pc \in {"remindSend", "noticeSend", "weeklySend"}
              /\ posts' = posts \cup {Posted}
<1> USE DEF Posted
<1>1. CASE UNCHANGED posts
  BY <1>1
<1>2. CASE FetchStep
  BY <1>1, <1>2
     DEF FetchStep, FetchFailed, FetchEmptyWeek, FetchSelect, FetchTrack,
         FetchAdvance, FetchAdvanceFails, FetchNoNext, UsableFetch, Fetching
<1>3. CASE WeeklyStep
  BY <1>1, <1>3
     DEF WeeklyStep, WeeklySend, WeeklyMark, WeeklyMarkFails, Posting, environment
<1>4. CASE NoticeBlock
  BY <1>1, <1>4
     DEF NoticeBlock, NoticeNotDue, NoticeNone, NoticeLoadFails, NoticeExpire,
         NoticeUnconfirmed, NoticeRefresh, NoticeUpdateFails, NoticeSend,
         NoticeMark, NoticeMarkFails, Posting
<1>5. CASE RemindBlock
  BY <1>1, <1>5
     DEF RemindBlock, RemindIdle, RemindPending, RemindPendingFails, RemindSend,
         RemindMark, RemindMarkFails, Posting
<1>6. CASE QuietStep
  BY <1>1, <1>6, QuietRests
<1> QED BY <1>2, <1>3, <1>4, <1>5, <1>6, StepKinds

\* A mark is only ever reached from a send that succeeded, with target, notice
\* and store as they were.
LEMMA MarkFollowsSend ==
    ASSUME [Next]_vars
    PROVE  /\ pc' = "remindMark" =>
                /\ UNCHANGED <<state, storeVars>>
                /\ pc = "remindMark" \/ (pc = "remindSend" /\ Posted \in posts')
           /\ pc' = "noticeMark" =>
                /\ UNCHANGED <<notice, storeVars>>
                /\ pc = "noticeMark" \/ (pc = "noticeSend" /\ Posted \in posts')
<1>1. CASE FetchStep
  BY <1>1
     DEF FetchStep, FetchFailed, FetchEmptyWeek, FetchSelect, FetchTrack,
         FetchAdvance, FetchAdvanceFails, FetchNoNext, UsableFetch
<1>2. CASE WeeklyStep
  BY <1>2 DEF WeeklyStep, WeeklySend, WeeklyMark, WeeklyMarkFails
<1>3. CASE NoticeSend
  <2>1. PICK outcome \in Outcomes(FALSE) :
          /\ pc = "noticeSend"
          /\ Posting(NoticePost(notice.key), outcome)
          /\ pc' = "noticeMark" => outcome.result = "Sent" /\ UNCHANGED notice
          /\ pc' # "remindMark"
          /\ UNCHANGED storeVars
    BY <1>3 DEF NoticeSend, LeaveNotice
  <2> QED BY <2>1, SentIsDelivered DEF Posting, Posted
<1>4. CASE NoticeBlock /\ ~NoticeSend
  BY <1>4
     DEF NoticeBlock, NoticeNotDue, NoticeNone, NoticeLoadFails, NoticeExpire,
         NoticeUnconfirmed, NoticeRefresh, NoticeUpdateFails, NoticeMark,
         NoticeMarkFails, LeaveNotice
<1>5. CASE RemindSend
  <2>1. PICK outcome \in Outcomes(TRUE) :
          /\ pc = "remindSend"
          /\ Posting(state.pendingMessageKey, outcome)
          /\ pc' = "remindMark" => outcome.result = "Sent"
          /\ pc' # "noticeMark"
          /\ UNCHANGED <<storeVars, state>>
    BY <1>5 DEF RemindSend
  <2> QED BY <2>1, SentIsDelivered DEF Posting, Posted
<1>6. CASE RemindBlock /\ ~RemindSend
  BY <1>6
     DEF RemindBlock, RemindIdle, RemindPending, RemindPendingFails, RemindMark,
         RemindMarkFails
<1>7. CASE QuietStep
  BY <1>7, QuietPlaces
<1> QED BY <1>1, <1>2, <1>3, <1>4, <1>5, <1>6, <1>7, StepKinds DEF RemindBlock

-----------------------------------------------------------------------------
(* What is recorded as sent is in the channel.                             *)

\* SentMeansPosted, and that a mark is reached only after the message is out.
RecordsBacked ==
    /\ SentMeansPosted
    /\ pc = "remindMark" => state.pendingMessageKey \in posts
    /\ pc = "noticeMark" => NoticePost(notice.key) \in posts

\* The target's own record through every step.
LEMMA NextStatusesPosted ==
    ASSUME Timeless, RecordsBacked, [Next]_vars, posts \subseteq posts',
           NEW s \in {state', current'} \ {None}
    PROVE  SentStatusesPosted(s)'
<1>1. TypeOK /\ StatusCoherent /\ AtSend
  BY DEF Timeless
<1>2. \A t \in {state, current} \ {None} :
         t \in CurrentContests /\ Coherent(t) /\ SentStatusesPosted(t)
  BY <1>1 DEF RecordsBacked, SentMeansPosted, StatusCoherent, TypeOK, StoreTypeOK
<1> DEFINE Backed(t) ==
             /\ t.normalStatus = "sent" =>
                   <<"normal", t.contest.id, t.normalSentForStartTime>> \in posts'
             /\ t.changeStatus = "sent" =>
                   <<"change", t.contest.id, t.changeSentForStartTime>> \in posts'
<1>3. \A t \in {state, current} \ {None} : Backed(t)
  BY <1>2 DEF SentStatusesPosted
<1> SUFFICES Backed(s)
  BY DEF SentStatusesPosted
<1>4. ASSUME StoredOrNot, Backed(state') PROVE Backed(s)
  BY <1>3, <1>4 DEF StoredOrNot
<1>5. CASE TargetRests
  BY <1>3, <1>5 DEF TargetRests
<1>6. ASSUME NEW c \in Contests, TargetTaken(c) PROVE Backed(s)
  BY <1>4, <1>6 DEF TargetTaken, newState
<1>7. ASSUME NEW c \in Contests, TargetMoved(c) PROVE Backed(s)
  <2>1. state \in CurrentContests /\ Coherent(state) /\ Backed(state)
    BY <1>2, <1>3, <1>7 DEF TargetMoved
  <2>2. Backed(Rescheduled(state, c))
    BY <1>7, <2>1 DEF TargetMoved, Rescheduled, CurrentContests, Coherent
  <2> QED BY <1>4, <1>7, <2>2 DEF TargetMoved
<1>8. CASE TargetPending
  <2>1. state \in CurrentContests /\ Backed(state)
    BY <1>2, <1>3, <1>8 DEF TargetPending, ReminderReady
  <2>2. Backed(WithPending(ReadyKind(state, now)))
    BY <2>1 DEF WithPending, CurrentContests
  <2> QED BY <1>4, <1>8, <2>2 DEF TargetPending
<1>9. CASE TargetSent
  <2>1. /\ state \in CurrentContests /\ state.pendingKind \in Kinds
        /\ notificationKey(state.pendingKind, state.contest) \in posts'
    BY <1>1, <1>9, PendingTyped DEF TargetSent, RecordsBacked
  <2>2. Backed(state)
    BY <1>3, <2>1, StoreAssumption
  <2>3. Backed(markSentState(state, state.pendingKind))
    BY <2>1, <2>2 DEF markSentState, CurrentContests, notificationKey, Kinds
  <2> QED BY <1>4, <1>9, <2>3 DEF TargetSent
<1> QED BY <1>1, <1>5, <1>6, <1>7, <1>8, <1>9, TargetSteps

\* RecordsBacked through every step.
LEMMA NextRecordsBacked ==
    ASSUME Timeless, RecordsBacked, [Next]_vars
    PROVE  RecordsBacked'
<1>1. TypeOK /\ StatusCoherent /\ AtSend
  BY DEF Timeless
<1>2. posts \subseteq posts'
  BY PostSteps
<1>3. ASSUME NEW key \in NotificationKeys, history'[key] = "sent"
      PROVE  key \in posts'
  BY <1>1, <1>2, <1>3, HistorySteps DEF RecordsBacked, SentMeansPosted
<1>4. ASSUME NEW key \in NoticeKeys, notices'[key] # None, notices'[key].status = "sent"
      PROVE  NoticePost(key) \in posts'
  <2>1. CASE notices[key] # None
    BY <1>1, <1>2, <1>4, <2>1, NoticeSteps DEF RecordsBacked, SentMeansPosted
  <2>2. CASE notices[key] = None
    <3>1. RowAdded(key)
      BY <1>1, <1>4, <2>2, RowSteps DEF RowKept
    <3> QED BY <1>4, <3>1 DEF RowAdded
  <2> QED BY <2>1, <2>2
<1>5. \A s \in {state', current'} \ {None} : SentStatusesPosted(s)'
  BY <1>2, NextStatusesPosted
<1>6. pc' = "remindMark" => state'.pendingMessageKey \in posts'
  BY <1>2, MarkFollowsSend DEF RecordsBacked, Posted
<1>7. pc' = "noticeMark" => NoticePost(notice'.key) \in posts'
  BY <1>2, MarkFollowsSend DEF RecordsBacked, Posted, NoticePost
<1>8. SentMeansPosted'
  BY <1>3, <1>4, <1>5 DEF SentMeansPosted
<1> QED BY <1>6, <1>7, <1>8 DEF RecordsBacked, NoticePost

\* Nothing is recorded as sent, in any table or in memory, unless Discord has it
\* (main.cpp:313-323, 357-371).
THEOREM SentIsPosted == Spec => []SentMeansPosted
<1>1. Init => RecordsBacked
  BY DEF Init, StoreInit, RecordsBacked, SentMeansPosted
<1>2. Timeless /\ RecordsBacked /\ [Next]_vars => RecordsBacked'
  BY NextRecordsBacked
<1>3. RecordsBacked => SentMeansPosted
  BY DEF RecordsBacked
<1> QED BY <1>1, <1>2, <1>3, AlwaysTimeless, PTL DEF Spec

-----------------------------------------------------------------------------
(* What is in the channel is recorded.                                     *)

\* PostedMeansRecorded, and that a message is recorded before it is sent.
PostsRecorded ==
    /\ PostedMeansRecorded
    /\ pc \in {"remindSend", "remindMark"} => history[state.pendingMessageKey] # "absent"
    /\ pc \in {"noticeSend", "noticeMark"} => notices[notice.key] # None

\* A send is only ever reached with its record written.
LEMMA SendFollowsRecord ==
    ASSUME Timeless, [Next]_vars
    PROVE  /\ pc' \in {"remindSend", "remindMark"} =>
                \/ /\ UNCHANGED <<state, storeVars>>
                   /\ pc \in {"remindSend", "remindMark"}
                \/ history'[state'.pendingMessageKey] # "absent"
           /\ pc' \in {"noticeSend", "noticeMark"} =>
                \/ /\ UNCHANGED <<notice, storeVars>>
                   /\ pc \in {"noticeSend", "noticeMark"}
                \/ notices'[notice'.key] # None
<1>1. TypeOK /\ StatusCoherent /\ AtSend
  BY DEF Timeless
<1>2. CASE FetchStep
  BY <1>2
     DEF FetchStep, FetchFailed, FetchEmptyWeek, FetchSelect, FetchTrack,
         FetchAdvance, FetchAdvanceFails, FetchNoNext, UsableFetch
<1>3. CASE WeeklyStep
  BY <1>3 DEF WeeklyStep, WeeklySend, WeeklyMark, WeeklyMarkFails
<1>4. CASE NoticeRefresh
  <2>1. PICK c \in Confirmed :
          /\ RefreshNextContestNotice(FirstPendingNotice, c)
          /\ notice' = [key |-> FirstPendingNotice, contest |-> c]
    BY <1>4 DEF NoticeRefresh
  <2>2. FirstPendingNotice \in NoticeKeys /\ notices[FirstPendingNotice] # None
    BY <2>1 DEF RefreshNextContestNotice, CanRefresh, PendingNotices
  <2>3. notices'[FirstPendingNotice] # None
    BY <1>1, <2>2, NoticeSteps
  <2>4. notice'.key = FirstPendingNotice /\ pc' = "noticeSend"
    BY <1>4, <2>1 DEF NoticeRefresh
  <2> QED BY <2>3, <2>4
<1>5. CASE NoticeBlock /\ ~NoticeRefresh
  BY <1>5
     DEF NoticeBlock, NoticeNotDue, NoticeNone, NoticeLoadFails, NoticeExpire,
         NoticeUnconfirmed, NoticeUpdateFails, NoticeSend, NoticeMark,
         NoticeMarkFails, LeaveNotice
<1>6. CASE RemindPending
  <2>1. state'.pendingMessageKey \in NotificationKeys
    BY <1>1, <1>6, ReadyTyped DEF RemindPending
  <2>2. history \in [NotificationKeys -> {"absent", "pending", "sent"}]
    BY <1>1 DEF TypeOK, StoreTypeOK
  <2>3. history'[state'.pendingMessageKey] # "absent"
    BY <1>6, <2>1, <2>2 DEF RemindPending, MarkPending
  <2> QED BY <1>6, <2>3 DEF RemindPending
<1>7. CASE RemindBlock /\ ~RemindPending
  BY <1>7
     DEF RemindBlock, RemindIdle, RemindPendingFails, RemindSend, RemindMark,
         RemindMarkFails
<1>8. CASE QuietStep
  BY <1>8, QuietPlaces
<1> QED BY <1>2, <1>3, <1>4, <1>5, <1>6, <1>7, <1>8, StepKinds

\* The messages of reminders, notices and the Saturday check are never confused.
LEMMA MessagesDiffer ==
    /\ \A key \in NotificationKeys, other \in NoticeKeys : key # NoticePost(other)
    /\ \A key \in NotificationKeys, date \in Dates : key # WeeklyPost(date)
    /\ \A key \in NoticeKeys, date \in Dates : NoticePost(key) # WeeklyPost(date)
    /\ \A key, other \in NoticeKeys : NoticePost(key) = NoticePost(other) => key = other
    /\ \A date, other \in Dates : WeeklyPost(date) = WeeklyPost(other) => date = other
  BY DEF NotificationKeys, NoticeKeys, NoticePost, WeeklyPost, Kinds

\* PostsRecorded through every step.
LEMMA NextPostsRecorded ==
    ASSUME Timeless, PostsRecorded, [Next]_vars
    PROVE  PostsRecorded'
<1>1. TypeOK /\ StatusCoherent /\ AtSend
  BY DEF Timeless
<1>2. jstDateKey(now) \in Dates
  BY <1>1, DateOfTime DEF TypeOK
<1>3. pc = "noticeSend" => notice.key \in NoticeKeys
  BY <1>1, LoopAssumption DEF AtSend, TypeOK
<1>4. pc = "remindSend" => state.pendingMessageKey \in NotificationKeys
  BY <1>1, PendingTyped
<1>5. ASSUME NEW key \in NotificationKeys, key \in posts'
      PROVE  history'[key] # "absent"
  <2>1. CASE key \in posts
    BY <1>1, <2>1, HistorySteps DEF PostsRecorded, PostedMeansRecorded
  <2>2. CASE key \notin posts
    <3>1. /\ pc \in {"remindSend", "noticeSend", "weeklySend"}
          /\ key = Posted
      BY <1>5, <2>2, PostSteps
    <3>2. pc = "remindSend" /\ key = state.pendingMessageKey
      BY <1>2, <1>3, <3>1, MessagesDiffer DEF Posted
    <3>3. history[key] # "absent"
      BY <3>2 DEF PostsRecorded
    <3> QED BY <1>1, <3>3, HistorySteps
  <2> QED BY <2>1, <2>2
<1>6. ASSUME NEW key \in NoticeKeys, NoticePost(key) \in posts'
      PROVE  notices'[key] # None
  <2>1. CASE NoticePost(key) \in posts
    BY <1>1, <2>1, NoticeSteps DEF PostsRecorded, PostedMeansRecorded
  <2>2. CASE NoticePost(key) \notin posts
    <3>1. /\ pc \in {"remindSend", "noticeSend", "weeklySend"}
          /\ NoticePost(key) = Posted
      BY <1>6, <2>2, PostSteps
    <3>2. pc = "noticeSend" /\ key = notice.key
      BY <1>2, <1>3, <1>4, <3>1, MessagesDiffer DEF Posted
    <3>3. notices[key] # None
      BY <3>2 DEF PostsRecorded
    <3> QED BY <1>1, <3>3, NoticeSteps
  <2> QED BY <2>1, <2>2
<1>7. PostedMeansRecorded'
  BY <1>5, <1>6 DEF PostedMeansRecorded, NoticePost
<1>8. pc' \in {"remindSend", "remindMark"} => history'[state'.pendingMessageKey] # "absent"
  BY SendFollowsRecord DEF PostsRecorded, storeVars
<1>9. pc' \in {"noticeSend", "noticeMark"} => notices'[notice'.key] # None
  BY SendFollowsRecord DEF PostsRecorded, storeVars
<1> QED BY <1>7, <1>8, <1>9 DEF PostsRecorded

\* A reminder or notice in the channel has its row, written before the POST
\* (main.cpp:229, 348): a restart always finds a trace of it.
THEOREM PostedIsRecorded == Spec => []PostedMeansRecorded
<1>1. Init => PostsRecorded
  BY DEF Init, PostsRecorded, PostedMeansRecorded
<1>2. Timeless /\ PostsRecorded /\ [Next]_vars => PostsRecorded'
  BY NextPostsRecorded
<1>3. PostsRecorded => PostedMeansRecorded
  BY DEF PostsRecorded
<1> QED BY <1>1, <1>2, <1>3, AlwaysTimeless, PTL DEF Spec

-----------------------------------------------------------------------------
(* What is announced is current.                                           *)

\* A step to the POST of a notice takes the row it confirmed (main.cpp:290-308).
LEMMA NextNoticeMatchesRow ==
    ASSUME Timeless, NoticeMatchesRow, [Next]_vars
    PROVE  NoticeMatchesRow'
<1> USE DEF NoticeMatchesRow
<1>1. TypeOK /\ StatusCoherent /\ AtSend
  BY DEF Timeless
<1>2. CASE FetchStep
  BY <1>2
     DEF FetchStep, FetchFailed, FetchEmptyWeek, FetchSelect, FetchTrack,
         FetchAdvance, FetchAdvanceFails, FetchNoNext, UsableFetch
<1>3. CASE WeeklyStep
  BY <1>3 DEF WeeklyStep, WeeklySend, WeeklyMark, WeeklyMarkFails
<1>4. CASE NoticeRefresh
  <2>1. PICK c \in Confirmed :
          /\ c.startTime > now
          /\ RefreshNextContestNotice(FirstPendingNotice, c)
          /\ notice' = [key |-> FirstPendingNotice, contest |-> c]
    BY <1>4 DEF NoticeRefresh
  <2> DEFINE key == FirstPendingNotice
  <2>2. key \in NoticeKeys /\ notices[key] \in NoticeRows /\ notices[key].status = "pending"
    BY <1>1, <2>1, PendingRow
       DEF RefreshNextContestNotice, CanRefresh, PendingNotices, TypeOK
  <2>3. notices \in [NoticeKeys -> NoticeRows \cup {None}] /\ c \in Contests
    BY <1>1 DEF TypeOK, StoreTypeOK, Confirmed, findContest
  <2>4. notices' = [notices EXCEPT ![key] = [notices[key] EXCEPT !.contest = c]]
    BY <2>1, <2>2, <2>3 DEF RefreshNextContestNotice
  <2>5. LET row == [notices[key] EXCEPT !.contest = c]
        IN  row \in NoticeRows /\ row.status = "pending" /\ row.contest = c
    BY <2>2, <2>3 DEF NoticeRows
  <2>6. /\ notices'[key] # None
        /\ notices'[key].status = "pending" /\ notices'[key].contest = c
    BY <2>2, <2>3, <2>4, <2>5, StoreAssumption
  <2>7. key \in PendingNotices'
    BY <2>2, <2>6 DEF PendingNotices
  <2>8. c \in confirmedFutureContests' /\ now' = now
    BY <1>4 DEF Confirmed, findContest, NoticeRefresh, NoticeStep, fetchMemory
  <2> HIDE DEF key
  <2> QED BY <2>1, <2>6, <2>7, <2>8 DEF key
<1>5. CASE NoticeSend
  BY <1>5 DEF NoticeSend, NoticeStep, LeaveNotice, fetchMemory, storeVars, PendingNotices
<1>6. CASE NoticeBlock /\ ~NoticeRefresh /\ ~NoticeSend
  BY <1>6
     DEF NoticeBlock, NoticeNotDue, NoticeNone, NoticeLoadFails, NoticeExpire,
         NoticeUnconfirmed, NoticeUpdateFails, NoticeMark, NoticeMarkFails, LeaveNotice
<1>7. CASE RemindBlock
  BY <1>7
     DEF RemindBlock, RemindIdle, RemindPending, RemindPendingFails, RemindSend,
         RemindMark, RemindMarkFails
<1>8. CASE QuietStep
  BY <1>8, QuietPlaces DEF storeVars, PendingNotices
<1> QED BY <1>2, <1>3, <1>4, <1>5, <1>6, <1>7, <1>8, StepKinds

\* A notice goes out with the schedule stored in its row and on the last
\* complete page, for a contest that lies ahead (main.cpp:290-308).
THEOREM NoticeIsCurrent == Spec => []NoticeMatchesRow
<1>1. Init => NoticeMatchesRow
  BY DEF Init, NoticeMatchesRow
<1>2. Timeless /\ NoticeMatchesRow /\ [Next]_vars => NoticeMatchesRow'
  BY NextNoticeMatchesRow
<1> QED BY <1>1, <1>2, AlwaysTimeless, PTL DEF Spec

\* A Saturday that is being checked is not recorded as done.
CheckOpen ==
    /\ pc \in {"fetch", "weeklySend"} /\ weeklyCheckPending => jstDateKey(now) \notin weekly
    /\ pc = "weeklySend" => weeklyCheckPending

\* A step keeps the check open until its date is recorded (main.cpp:160-167).
LEMMA NextCheckOpen ==
    ASSUME CheckOpen, [Next]_vars
    PROVE  CheckOpen'
<1> USE DEF CheckOpen
<1>1. CASE FetchStep
  <2>1. pc = "fetch" /\ pc' # "fetch" /\ weeklyCheckPending' = weeklyCheckPending
          /\ now' = now /\ (pc' = "weeklySend" => weeklyCheckPending)
    BY <1>1
       DEF FetchStep, FetchFailed, FetchEmptyWeek, FetchSelect, FetchTrack,
           FetchAdvance, FetchAdvanceFails, FetchNoNext, UsableFetch, Fetching
  <2> QED BY <2>1, WeeklySteps
<1>2. CASE WeeklyStep
  BY <1>2 DEF WeeklyStep, WeeklySend, WeeklyMark, WeeklyMarkFails
<1>3. CASE NoticeBlock
  BY <1>3
     DEF NoticeBlock, NoticeNotDue, NoticeNone, NoticeLoadFails, NoticeExpire,
         NoticeUnconfirmed, NoticeRefresh, NoticeUpdateFails, NoticeSend, NoticeMark,
         NoticeMarkFails, LeaveNotice
<1>4. CASE RemindBlock
  BY <1>4
     DEF RemindBlock, RemindIdle, RemindPending, RemindPendingFails, RemindSend,
         RemindMark, RemindMarkFails
<1>5. CASE BeginIteration \/ WeeklyLookupFails
  <2>1. PICK pending \in BOOLEAN :
          Iterate(pending) /\ (pending => jstDateKey(clock) \notin weekly)
    BY <1>5 DEF BeginIteration, WeeklyLookupFails, SaturdayCheckPending, SaturdayCheckDue
  <2> QED BY <2>1 DEF Iterate, storeVars
<1>6. CASE Boot \/ Downtime \/ Crash \/ ImplausibleClock \/ Sleep
  BY <1>6 DEF Boot, Downtime, Crash, ImplausibleClock, Sleep
<1>7. CASE EditPage \/ UNCHANGED vars
  BY <1>7 DEF EditPage, vars, storeVars, iteration
<1> QED BY <1>1, <1>2, <1>3, <1>4, <1>5, <1>6, <1>7, StepKinds DEF QuietStep

\* A Saturday that is recorded as done is not announced again, whatever failed
\* or died around it (main.cpp:160-167).
THEOREM AbsenceAnnouncedOnce == Spec => []AbsenceNotRepeated
<1>1. Init => CheckOpen
  BY DEF Init, CheckOpen
<1>2. CheckOpen /\ [Next]_vars => CheckOpen'
  BY NextCheckOpen
<1>3. CheckOpen => AbsenceNotRepeated
  BY DEF CheckOpen, AbsenceNotRepeated
<1> QED BY <1>1, <1>2, <1>3, PTL DEF Spec

-----------------------------------------------------------------------------
(* What the Saturday note says is true.                                    *)

NoneListed(date) == \A id \in Listed : jstDateKey(page[id][1]) # date

\* AbsencePostsAreTrue, and that it holds for the note about to be posted.
AbsenceJustified ==
    edits = 0 =>
        /\ \A date \in Dates : WeeklyPost(date) \in posts => NoneListed(date)
        /\ pc = "weeklySend" => NoneListed(jstDateKey(now))

\* Only edits change the page.
LEMMA PageKept ==
    ASSUME TypeOK, [Next]_vars, edits' = 0
    PROVE  edits = 0 /\ page' = page
<1>1. edits \in Nat
  BY LoopAssumption DEF TypeOK
<1>2. CASE FetchStep
  BY <1>2
     DEF FetchStep, FetchFailed, FetchEmptyWeek, FetchSelect, FetchTrack,
         FetchAdvance, FetchAdvanceFails, FetchNoNext, UsableFetch, Fetching, schedule
<1>3. CASE WeeklyStep
  BY <1>3
     DEF WeeklyStep, WeeklySend, WeeklyMark, WeeklyMarkFails, schedule, environment
<1>4. CASE NoticeBlock
  BY <1>4
     DEF NoticeBlock, NoticeNotDue, NoticeNone, NoticeLoadFails, NoticeExpire,
         NoticeUnconfirmed, NoticeRefresh, NoticeUpdateFails, NoticeSend, NoticeMark,
         NoticeMarkFails, NoticeStep, schedule
<1>5. CASE RemindBlock
  BY <1>5
     DEF RemindBlock, RemindIdle, RemindPending, RemindPendingFails, RemindSend,
         RemindMark, RemindMarkFails, RemindStep, schedule
<1>6. CASE EditPage
  BY <1>1, <1>6 DEF EditPage
<1>7. CASE QuietStep /\ ~EditPage
  BY <1>7
     DEF QuietStep, Boot, Downtime, Crash, ImplausibleClock, BeginIteration,
         WeeklyLookupFails, Iterate, Sleep, vars, schedule, environment
<1> QED BY <1>2, <1>3, <1>4, <1>5, <1>6, <1>7, StepKinds

\* The Saturday note is reached only from a page, read in full, that lists no
\* contest for the day.
LEMMA WeeklySendFollowsPage ==
    ASSUME TypeOK, [Next]_vars, pc' = "weeklySend"
    PROVE  now' = now /\ (pc = "weeklySend" \/ NoneListed(jstDateKey(now)))
<1>1. CASE FetchStep
  <2>1. PICK d, r, fetchAt : /\ d \in CallDelays /\ r \in FetchResults(now, d)
                             /\ UsableFetch(r, fetchAt)
    BY <1>1
       DEF FetchStep, FetchFailed, FetchEmptyWeek, FetchSelect, FetchTrack,
           FetchAdvance, FetchAdvanceFails, FetchNoNext
  <2>2. /\ r.tableFound /\ ~r.hasInvalidAbcRows /\ ~r.hasAbcToday
        /\ now' = now
    BY <2>1 DEF UsableFetch, Usable, Fetching
  <2>3. PICK seen \in RenderTimes(d) : r \in Readings(now, seen)
    BY <2>1 DEF FetchResults
  <2>4. r.hasAbcToday = AbcToday(now)
    BY <2>2, <2>3 DEF Readings, Parsed, NoTable
  <2> QED BY <2>2, <2>4 DEF AbcToday, NoneListed
<1>2. CASE WeeklyStep
  BY <1>2 DEF WeeklyStep, WeeklySend, WeeklyMark, WeeklyMarkFails
<1>3. CASE NoticeBlock
  BY <1>3
     DEF NoticeBlock, NoticeNotDue, NoticeNone, NoticeLoadFails, NoticeExpire,
         NoticeUnconfirmed, NoticeRefresh, NoticeUpdateFails, NoticeSend, NoticeMark,
         NoticeMarkFails, LeaveNotice
<1>4. CASE RemindBlock
  BY <1>4
     DEF RemindBlock, RemindIdle, RemindPending, RemindPendingFails, RemindSend,
         RemindMark, RemindMarkFails
<1>5. CASE QuietStep
  BY <1>5, QuietPlaces
<1> QED BY <1>1, <1>2, <1>3, <1>4, <1>5, StepKinds

\* A step posts an absence only after a page without a contest that day.
LEMMA NextAbsenceJustified ==
    ASSUME Timeless, AbsenceJustified, [Next]_vars
    PROVE  AbsenceJustified'
<1>1. TypeOK /\ StatusCoherent /\ AtSend
  BY DEF Timeless
<1> SUFFICES ASSUME edits' = 0
             PROVE  /\ \A date \in Dates : WeeklyPost(date) \in posts' => NoneListed(date)'
                    /\ pc' = "weeklySend" => NoneListed(jstDateKey(now))'
  BY DEF AbsenceJustified, WeeklyPost
<1>2. edits = 0 /\ page' = page
  BY <1>1, PageKept
<1>3. Listed' = Listed
  BY <1>2 DEF Listed
<1>4. ASSUME NEW date PROVE NoneListed(date)' <=> NoneListed(date)
  BY <1>2, <1>3 DEF NoneListed
<1>5. ASSUME NEW date \in Dates, WeeklyPost(date) \in posts'
      PROVE  NoneListed(date)
  <2>1. CASE WeeklyPost(date) \in posts
    BY <1>2, <2>1 DEF AbsenceJustified
  <2>2. CASE WeeklyPost(date) \notin posts
    <3>1. /\ pc \in {"remindSend", "noticeSend", "weeklySend"}
          /\ WeeklyPost(date) = Posted
      BY <1>5, <2>2, PostSteps
    <3>2. jstDateKey(now) \in Dates
      BY <1>1, DateOfTime DEF TypeOK
    <3>3. pc = "noticeSend" => notice.key \in NoticeKeys
      BY <1>1, LoopAssumption DEF AtSend, TypeOK
    <3>4. pc = "remindSend" => state.pendingMessageKey \in NotificationKeys
      BY <1>1, PendingTyped
    <3>5. pc = "weeklySend" /\ date = jstDateKey(now)
      BY <3>1, <3>2, <3>3, <3>4, MessagesDiffer DEF Posted
    <3> QED BY <1>2, <3>5 DEF AbsenceJustified
  <2> QED BY <2>1, <2>2
<1>6. pc' = "weeklySend" => now' = now /\ NoneListed(jstDateKey(now))
  BY <1>1, <1>2, WeeklySendFollowsPage DEF AbsenceJustified
<1>7. pc' = "weeklySend" => NoneListed(jstDateKey(now))'
  BY <1>2, <1>3, <1>6 DEF NoneListed
<1> QED BY <1>4, <1>5, <1>7

\* "No ABC today" is only ever posted for a day without one, even if rows of the
\* page cannot be read (main.cpp:253-266).
THEOREM AbsenceIsTrue == Spec => []AbsencePostsAreTrue
<1>1. Init => AbsenceJustified
  BY DEF Init, AbsenceJustified
<1>2. Timeless /\ AbsenceJustified /\ [Next]_vars => AbsenceJustified'
  BY NextAbsenceJustified
<1>3. AbsenceJustified => AbsencePostsAreTrue
  BY DEF AbsenceJustified, AbsencePostsAreTrue, NoneListed
<1> QED BY <1>1, <1>2, <1>3, AlwaysTimeless, PTL DEF Spec

-----------------------------------------------------------------------------
(* The pace of the fetches.                                                *)

\* Of several durations one is the longest and one the shortest.
LEMMA ExtremesOfFour ==
    ASSUME NEW a \in Nat, NEW b \in Nat, NEW c \in Nat, NEW d \in Nat
    PROVE  /\ \E w \in {a, b, c, d} : a <= w /\ b <= w /\ c <= w /\ d <= w
           /\ \E w \in {a, b, c, d} : w <= a /\ w <= b /\ w <= c /\ w <= d
  OBVIOUS

\* The longest of two sets is that of one of them.
LEMMA LongestOfBoth ==
    ASSUME NEW A \in SUBSET Nat, NEW B \in SUBSET Nat,
           NEW x \in A, \A v \in A : v <= x, NEW y \in B, \A v \in B : v <= y
    PROVE  \E w \in A \cup B : \A v \in A \cup B : v <= w
<1>1. CASE x <= y
  <2>1. \A v \in A \cup B : v <= y
    BY <1>1
  <2> QED BY <2>1
<1>2. CASE y <= x
  <2>1. \A v \in A \cup B : v <= x
    BY <1>2
  <2> QED BY <2>1
<1> QED BY <1>1, <1>2

\* So is the shortest.
LEMMA ShortestOfBoth ==
    ASSUME NEW A \in SUBSET Nat, NEW B \in SUBSET Nat,
           NEW x \in A, \A v \in A : x <= v, NEW y \in B, \A v \in B : y <= v
    PROVE  \E w \in A \cup B : \A v \in A \cup B : w <= v
<1>1. CASE x <= y
  <2>1. \A v \in A \cup B : x <= v
    BY <1>1
  <2> QED BY <2>1
<1>2. CASE y <= x
  <2>1. \A v \in A \cup B : y <= v
    BY <1>2
  <2> QED BY <2>1
<1> QED BY <1>1, <1>2

\* So it is with the loop's delays, which are positive.
LEMMA ExtremesOfDelays ==
    /\ Delays \subseteq Nat \ {0}
    /\ \E w \in Delays : \A v \in Delays : v <= w
    /\ \E w \in Delays : \A v \in Delays : w <= v
<1>1. Delays \subseteq Nat \ {0}
  BY PolicyAssumption, LoopAssumption DEF Delays
<1> DEFINE first == {LongInterval, MidInterval, ShortInterval, RetryDelay}
           second == {ConfigDelay, FetchInterval, MaxBackoff}
<1>2. Delays = first \cup second
  BY DEF Delays
<1>3. /\ LongInterval \in Nat /\ MidInterval \in Nat /\ ShortInterval \in Nat
      /\ RetryDelay \in Nat /\ ConfigDelay \in Nat /\ FetchInterval \in Nat
      /\ MaxBackoff \in Nat
  BY <1>1 DEF Delays
<1>4. /\ \E w \in first : \A v \in first : v <= w
      /\ \E w \in first : \A v \in first : w <= v
  BY <1>3, ExtremesOfFour
<1>5. /\ \E w \in second : \A v \in second : v <= w
      /\ \E w \in second : \A v \in second : w <= v
  BY <1>3, ExtremesOfFour
<1>6. first \subseteq Nat /\ second \subseteq Nat
  BY <1>3
<1> HIDE DEF first, second
<1>7. \E w \in first \cup second : \A v \in first \cup second : v <= w
  <2>1. PICK x \in first, y \in second :
          (\A v \in first : v <= x) /\ (\A v \in second : v <= y)
    BY <1>4, <1>5
  <2> QED BY <1>6, <2>1, LongestOfBoth
<1>8. \E w \in first \cup second : \A v \in first \cup second : w <= v
  <2>1. PICK x \in first, y \in second :
          (\A v \in first : x <= v) /\ (\A v \in second : y <= v)
    BY <1>4, <1>5
  <2> QED BY <1>6, <2>1, ShortestOfBoth
<1>9. \E w \in Delays : \A v \in Delays : v <= w
  BY <1>2, <1>7, Zenon
<1>10. \E w \in Delays : \A v \in Delays : w <= v
  BY <1>2, <1>8, Zenon
<1> QED BY <1>1, <1>9, <1>10

\* What the fetch block sets nextFetch ahead by.
FetchWait(w) == w \in Nat /\ \E v, u \in Delays : v <= w /\ w <= u

\* A delay is one.
LEMMA DelayIsWait ==
    ASSUME NEW w \in Delays
    PROVE  FetchWait(w)
<1>1. w \in Nat
  BY ExtremesOfDelays
<1>2. w <= w
  BY <1>1
<1> QED BY <1>1, <1>2 DEF FetchWait

\* So is the backoff.
LEMMA BackoffIsWait ==
    ASSUME NEW failures \in 1 .. FailureCap
    PROVE  FetchWait(Backoff(failures))
<1>1. failures \in {1, 2, 3, 4}
  BY DEF FailureCap
<1>2. BackoffFactors[failures] \in {1, 2, 4, 8}
  BY <1>1 DEF BackoffFactors
<1> DEFINE backoff == RetryDelay * BackoffFactors[failures]
<1>3. RetryDelay \in Nat /\ MaxBackoff \in Nat
  BY LoopAssumption
<1>4. backoff \in Nat /\ RetryDelay <= backoff
  BY <1>2, <1>3
<1> HIDE DEF backoff
<1>5. Backoff(failures) = MaxBackoff
        \/ (Backoff(failures) = backoff /\ backoff <= MaxBackoff)
  BY <1>3, <1>4 DEF Backoff, SmallerOf, backoff
<1>6. RetryDelay \in Delays /\ MaxBackoff \in Delays
  BY DEF Delays
<1> QED BY <1>4, <1>5, <1>6, DelayIsWait DEF FetchWait

\* And every check interval.
LEMMA IntervalIsWait ==
    ASSUME NEW s, NEW t
    PROVE  FetchWait(atcoderCheckIntervalSeconds(s, t))
<1>1. FetchWait(LongInterval) /\ FetchWait(MidInterval) /\ FetchWait(ShortInterval)
  BY DelayIsWait DEF Delays
<1> QED BY <1>1 DEF atcoderCheckIntervalSeconds

\* A fetch puts the next one off.
LEMMA FetchSetsNext ==
    ASSUME TypeOK, FetchStep
    PROVE  \E w \in Nat : FetchWait(w) /\ nextFetch' = After(now, w)
<1>1. FetchWait(RetryDelay) /\ FetchWait(FetchInterval)
  BY DelayIsWait DEF Delays
<1>2. ASSUME NEW r, NEW w, FetchWait(w), UsableFetch(r, After(now, w))
      PROVE  \E v \in Nat : FetchWait(v) /\ nextFetch' = After(now, v)
  BY <1>1, <1>2 DEF UsableFetch, FetchWait
<1>3. CASE FetchFailed
  <2>1. fetchFailures' \in 1 .. FailureCap
    BY <1>3 DEF FetchFailed, TypeOK, SmallerOf, FailureCap
  <2>2. FetchWait(Backoff(fetchFailures'))
    BY <2>1, BackoffIsWait
  <2>3. nextFetch' = After(now, RetryDelay) \/ nextFetch' = After(now, Backoff(fetchFailures'))
    BY <1>3 DEF FetchFailed
  <2> QED BY <1>1, <2>2, <2>3 DEF FetchWait
<1>4. CASE FetchEmptyWeek \/ FetchSelect \/ FetchAdvanceFails \/ FetchNoNext
  BY <1>1, <1>2, <1>4 DEF FetchEmptyWeek, FetchSelect, FetchAdvanceFails, FetchNoNext
<1>5. CASE FetchTrack \/ FetchAdvance
  <2>1. \E r, s : UsableFetch(r, After(now, atcoderCheckIntervalSeconds(s, now)))
    BY <1>5 DEF FetchTrack, FetchAdvance
  <2> QED BY <1>2, <2>1, IntervalIsWait
<1> QED BY <1>3, <1>4, <1>5 DEF FetchStep

\* The shortest delay bounds the waits from below.
LEMMA ShortestDelayBounds ==
    /\ ShortestDelay \in Nat
    /\ \A w \in Delays : ShortestDelay <= w
    /\ \A w : FetchWait(w) => ShortestDelay <= w
<1>1. ShortestDelay \in Delays /\ \A w \in Delays : ShortestDelay <= w
  BY ExtremesOfDelays DEF ShortestDelay
<1>2. \A w \in Delays : w \in Nat
  BY ExtremesOfDelays
<1> QED BY <1>1, <1>2 DEF FetchWait

\* The next fetch lies the shortest delay after t, or at MaxTime.
Apart(t) == Capped(t + ShortestDelay) <= nextFetch

\* Once the process has fetched and is past it, the next fetch is that far off.
Paced ==
    /\ lastFetch \in Times \cup {None}
    /\ pc = "boot" => lastFetch = None
    /\ pc = "fetch" => lastFetch = now
    /\ lastFetch # None =>
          /\ lastFetch <= clock
          /\ InIteration => lastFetch <= now
          /\ pc # "fetch" => Apart(lastFetch)

\* Paced through every step: what sets nextFetch in an iteration that does not
\* fetch sets it from a later now.
LEMMA NextPaced ==
    ASSUME Inductive, Paced, [PaceNext]_paceVars
    PROVE  Paced'
<1>1. TypeOK /\ [Next]_vars
  BY DEF Inductive, Timeless, PaceNext, paceVars
<1>2. /\ clock \in Times /\ clock \in Nat /\ now \in Times /\ now \in Nat
      /\ nextFetch \in Nat /\ nextFetch' \in Nat
      /\ MaxTime \in Nat /\ ShortestDelay \in Nat
      /\ now <= clock /\ clock' \in Nat /\ clock <= clock'
      /\ InIteration' => (InIteration /\ now' = now) \/ now' = clock
      /\ None \notin Times
  <2>1. nextFetch' \in Nat
    BY <1>1, NextTypeOK DEF Inductive, Timeless, TypeOK, Times
  <2> QED
    BY <1>1, <2>1, TimeSteps, LoopAssumption, PolicyAssumption, ShortestDelayBounds
       DEF Inductive, Timeless, TypeOK, Times, NowReached
<1>3. ASSUME NEW t \in Nat, t <= now, NEW w \in Nat, ShortestDelay <= w
      PROVE  Capped(t + ShortestDelay) <= After(now, w)
  BY <1>2, <1>3 DEF After, Capped, SmallerOf
<1>4. /\ RetryDelay \in Nat /\ ShortestDelay <= RetryDelay
      /\ ConfigDelay \in Nat /\ ShortestDelay <= ConfigDelay
  BY LoopAssumption, ShortestDelayBounds DEF Delays
<1>5. ASSUME pc \notin {"boot", "fetch", "top"}, now' = now, lastFetch' = lastFetch,
             pc' \notin {"boot", "fetch"},
             lastFetch # None => Apart(lastFetch)'
      PROVE  Paced'
  BY <1>2, <1>5 DEF Paced, InIteration
<1>6. ASSUME NEW w \in Nat, ShortestDelay <= w, nextFetch' = After(now, w),
             InIteration, lastFetch # None, lastFetch' = lastFetch
      PROVE  Apart(lastFetch)'
  <2>1. lastFetch \in Nat /\ lastFetch <= now
    BY <1>6 DEF Paced, Times
  <2> QED BY <1>3, <1>6, <2>1 DEF Apart, ShortestDelay, Capped, SmallerOf
<1>7. CASE FetchStep
  <2>1. /\ pc = "fetch" /\ now' = now /\ pc' \in {"notice", "weeklyMark", "weeklySend"}
    BY <1>7
       DEF FetchStep, FetchFailed, FetchEmptyWeek, FetchSelect, FetchTrack,
           FetchAdvance, FetchAdvanceFails, FetchNoNext, UsableFetch, Fetching
  <2>2. lastFetch = now
    BY <2>1 DEF Paced
  <2>3. PICK w \in Nat : FetchWait(w) /\ nextFetch' = After(now, w)
    BY <1>1, <1>7, FetchSetsNext
  <2>4. lastFetch' = lastFetch
    BY <2>1 DEF PaceNext, paceVars, FetchBegins
  <2>5. lastFetch # None => Apart(lastFetch)'
    BY <1>6, <2>1, <2>3, <2>4, ShortestDelayBounds DEF InIteration
  <2> QED BY <1>2, <2>1, <2>2, <2>4, <2>5 DEF Paced, InIteration
<1>8. CASE WeeklyStep
  <2>1. /\ now' = now /\ pc \in {"weeklySend", "weeklyMark"}
        /\ pc' \in {"weeklyMark", "notice"}
        /\ nextFetch' = nextFetch \/ nextFetch' = After(now, RetryDelay)
    BY <1>8 DEF WeeklyStep, WeeklySend, WeeklyMark, WeeklyMarkFails, timers
  <2>2. lastFetch' = lastFetch
    BY <2>1 DEF PaceNext, paceVars, FetchBegins
  <2>3. lastFetch # None => Apart(lastFetch)'
    BY <1>4, <1>6, <2>1, <2>2 DEF Paced, Apart, InIteration
  <2> QED BY <1>5, <2>1, <2>2, <2>3
<1>9. CASE NoticeBlock
  <2>1. /\ now' = now /\ pc \in {"notice", "noticeSend", "noticeMark"}
        /\ pc' \in {"noticeSend", "noticeMark", "remind"}
        /\ \/ nextFetch' = nextFetch
           \/ \E w \in {RetryDelay, ConfigDelay} :
                 nextFetch' = SmallerOf(nextFetch, After(now, w))
    BY <1>9
       DEF NoticeBlock, NoticeNotDue, NoticeNone, NoticeLoadFails, NoticeExpire,
           NoticeUnconfirmed, NoticeRefresh, NoticeUpdateFails, NoticeSend, NoticeMark,
           NoticeMarkFails, NoticeDue, NoticeStep, KeepNoticeTimers, RetryNotice,
           LeaveNotice
  <2>2. lastFetch' = lastFetch
    BY <2>1 DEF PaceNext, paceVars, FetchBegins
  <2>3. \/ nextFetch' = nextFetch
        \/ \E w \in {RetryDelay, ConfigDelay} : nextFetch' = After(now, w)
    BY <2>1 DEF SmallerOf
  <2>4. lastFetch # None => Apart(lastFetch)'
    BY <1>4, <1>6, <2>1, <2>2, <2>3 DEF Paced, Apart, InIteration
  <2> QED BY <1>5, <2>1, <2>2, <2>4
<1>10. CASE RemindBlock
  <2>1. /\ now' = now /\ nextFetch' = nextFetch
        /\ pc \in {"remind", "remindSend", "remindMark"}
        /\ pc' \in {"remindSend", "remindMark", "sleep"}
    BY <1>10
       DEF RemindBlock, RemindIdle, RemindPending, RemindPendingFails, RemindSend,
           RemindMark, RemindMarkFails, RemindStep
  <2>2. lastFetch' = lastFetch
    BY <2>1 DEF PaceNext, paceVars, FetchBegins
  <2> QED BY <1>5, <2>1, <2>2 DEF Paced, Apart
<1>11. CASE BeginIteration \/ WeeklyLookupFails
  <2>1. /\ pc = "top" /\ now' = clock /\ pc' \in {"fetch", "notice"}
        /\ nextFetch' \in {clock, nextFetch}
        /\ pc' = "notice" => ~(clock >= nextFetch')
    BY <1>11 DEF BeginIteration, WeeklyLookupFails, Iterate
  <2>2. CASE pc' = "fetch"
    <3>1. lastFetch' = clock
      BY <2>1, <2>2 DEF PaceNext, paceVars, vars, FetchBegins
    <3> QED BY <1>2, <2>1, <2>2, <3>1 DEF Paced
  <2>3. CASE pc' = "notice"
    <3>1. lastFetch' = lastFetch /\ nextFetch' = nextFetch
      BY <1>2, <2>1, <2>3 DEF PaceNext, paceVars, FetchBegins
    <3> QED BY <1>2, <2>1, <2>3, <3>1 DEF Paced, Apart, InIteration
  <2> QED BY <2>1, <2>2, <2>3
<1>12. CASE Boot
  <2>1. pc = "boot" /\ pc' = "top"
    BY <1>12 DEF Boot
  <2>2. lastFetch' = None
    BY <2>1 DEF PaceNext, paceVars, FetchBegins, Paced
  <2> QED BY <2>1, <2>2 DEF Paced
<1>13. CASE Downtime \/ Crash
  <2>1. pc' = "boot"
    BY <1>13 DEF Downtime, Crash
  <2>2. lastFetch' = None
    BY <2>1 DEF PaceNext, paceVars, vars, Paced
  <2> QED BY <2>1, <2>2 DEF Paced
<1>14. CASE ImplausibleClock \/ Sleep
  <2>1. nextFetch' = nextFetch /\ pc' = "top" /\ pc \in {"top", "sleep"}
    BY <1>14 DEF ImplausibleClock, Sleep, timers
  <2>2. lastFetch' = lastFetch
    BY <2>1 DEF PaceNext, paceVars, FetchBegins
  <2> QED BY <1>2, <2>1, <2>2 DEF Paced, Apart, InIteration
<1>15. CASE EditPage \/ UNCHANGED vars
  <2>1. UNCHANGED <<clock, pc, now, nextFetch>>
    BY <1>15 DEF EditPage, vars, environment, timers
  <2>2. lastFetch' = lastFetch
    BY <2>1 DEF PaceNext, paceVars, FetchBegins, Paced
  <2> QED BY <2>1, <2>2 DEF Paced, Apart, InIteration
<1> QED
  BY <1>1, <1>7, <1>8, <1>9, <1>10, <1>11, <1>12, <1>13, <1>14, <1>15, StepKinds
     DEF QuietStep

\* A fetch begins when the next one is due or asked for.
LEMMA FetchesWhenDue ==
    ASSUME Inductive, Paced, [PaceNext]_paceVars,
           FetchBegins, lastFetch # None, now' < MaxTime, ~AskedFor
    PROVE  now' >= lastFetch + ShortestDelay
<1>1. TypeOK /\ [Next]_vars
  BY DEF Inductive, Timeless, PaceNext, paceVars
<1>2. pc = "top" /\ pc' = "fetch"
  BY DEF FetchBegins
<1>3. BeginIteration \/ WeeklyLookupFails
  <2>1. ~FetchStep
    BY <1>2 DEF FetchStep
  <2>2. ~WeeklyStep
    BY <1>2 DEF WeeklyStep, WeeklySend, WeeklyMark, WeeklyMarkFails
  <2>3. ~NoticeBlock
    BY <1>2
       DEF NoticeBlock, NoticeNotDue, NoticeNone, NoticeLoadFails, NoticeExpire,
           NoticeUnconfirmed, NoticeRefresh, NoticeUpdateFails, NoticeSend, NoticeMark,
           NoticeMarkFails, NoticeDue
  <2>4. ~RemindBlock
    BY <1>2
       DEF RemindBlock, RemindIdle, RemindPending, RemindPendingFails, RemindSend,
           RemindMark, RemindMarkFails
  <2>5. ~(Boot \/ Downtime \/ Crash \/ EditPage \/ ImplausibleClock \/ Sleep \/ UNCHANGED vars)
    BY <1>2 DEF Boot, Downtime, Crash, EditPage, ImplausibleClock, Sleep, vars
  <2> QED BY <1>1, <2>1, <2>2, <2>3, <2>4, <2>5, StepKinds DEF QuietStep
<1>4. now' = clock /\ nextFetch' = nextFetch /\ clock >= nextFetch
  BY <1>2, <1>3
     DEF BeginIteration, WeeklyLookupFails, Iterate, EndFetchDue, AskedFor
<1>5. /\ clock \in Nat /\ nextFetch \in Nat /\ lastFetch \in Nat
      /\ MaxTime \in Nat /\ ShortestDelay \in Nat
  BY <1>1, LoopAssumption, ShortestDelayBounds DEF TypeOK, Times, Paced
<1>6. Capped(lastFetch + ShortestDelay) <= nextFetch
  BY <1>2 DEF Paced, Apart
<1> QED BY <1>4, <1>5, <1>6 DEF Capped, SmallerOf

\* AtCoder is not asked again before the shortest delay, unless a target's end or
\* the Saturday check asks for it (main.cpp:156-326).
THEOREM FetchesStayApart == PaceSpec => FetchesApart
<1>1. PaceInit => Paced
  BY DEF PaceInit, Init, Paced
<1>2. Inductive /\ Paced /\ [PaceNext]_paceVars => Paced'
  BY NextPaced
<1>3. Inductive /\ Paced /\ [PaceNext]_paceVars =>
         [FetchBegins /\ lastFetch # None /\ now' < MaxTime
             => now' >= lastFetch + ShortestDelay \/ AskedFor]_paceVars
  BY FetchesWhenDue
<1>4. PaceSpec => Spec
  <2>1. PaceInit => Init
    BY DEF PaceInit
  <2>2. [PaceNext]_paceVars => [Next]_vars
    BY DEF PaceNext, paceVars
  <2> QED BY <2>1, <2>2, PTL DEF PaceSpec, Spec
<1> QED BY <1>1, <1>2, <1>3, <1>4, AlwaysInductive, PTL DEF PaceSpec, FetchesApart

-----------------------------------------------------------------------------
(* Which reminders are sent once.                                          *)

\* The time the program goes by.
Reached == IF InIteration THEN now ELSE clock

\* It never goes back.
LEMMA ReachedGrows ==
    ASSUME Inductive, [Next]_vars
    PROVE  Reached \in Nat /\ Reached' \in Nat /\ Reached <= Reached'
<1>1. /\ clock \in Nat /\ now \in Nat /\ now <= clock /\ clock' \in Nat /\ clock <= clock'
      /\ InIteration' => (InIteration /\ now' = now) \/ now' = clock
  BY TimeSteps DEF Inductive, Timeless, NowReached
<1> QED BY <1>1 DEF Reached

\* The target t goes on from the target s: announced if s was, and moved, if it
\* was moved, into the future.
Continues(s, t) ==
    /\ t.contest.id = s.contest.id
    /\ s.normalStatus = "sent" => t.normalStatus = "sent"
    /\ t.contest.startTime = s.contest.startTime \/ Reached < t.contest.startTime

\* The target ended and another contest follows it.
Follows(s, t) ==
    /\ t.contest.id # s.contest.id
    /\ s.contest.endTime <= Reached
    /\ Reached < t.contest.startTime

\* With a stored target, every step continues the targets or follows them.
LEMMA TargetsGoOn ==
    ASSUME Inductive, Agreement, current # None, [Next]_vars
    PROVE  \/ \A t \in {state', current'} \ {None} :
                 \E s \in {state, current} \ {None} : Continues(s, t)
           \/ \A t \in {state', current'} \ {None} :
                 state # None /\ Follows(state, t)
<1>1. TypeOK /\ StatusCoherent /\ AtSend
  BY DEF Inductive, Timeless
<1>2. \A s \in {state, current} \ {None} : s \in CurrentContests /\ Continues(s, s)
  BY <1>1 DEF TypeOK, StoreTypeOK, Continues
<1>3. CASE TargetRests
  BY <1>2, <1>3 DEF TargetRests
<1>4. ASSUME state # None, Continues(state, state'), StoredOrNot
      PROVE  \A t \in {state', current'} \ {None} :
                 \E s \in {state, current} \ {None} : Continues(s, t)
  BY <1>2, <1>4 DEF StoredOrNot
<1>5. ASSUME NEW c \in Contests, TargetTaken(c)
      PROVE  \A t \in {state', current'} \ {None} : state # None /\ Follows(state, t)
  <2>1. state # None
    BY <1>5 DEF TargetTaken, Agreement
  <2>2. notices[NoticeKey(state.contest)] = None
    BY <2>1, InductiveInserts DEF AdvanceAlwaysInserts
  <2>3. current' = state' /\ Reached = now
    BY <1>5, <2>1, <2>2 DEF TargetTaken, Reached, InIteration
  <2>4. Follows(state, state')
    BY <1>5, <2>1, <2>3 DEF TargetTaken, Follows, newState
  <2> QED BY <2>1, <2>3, <2>4
<1>6. ASSUME NEW c \in Contests, TargetMoved(c) PROVE state # None /\ Continues(state, state')
  <2>1. state \in CurrentContests /\ state # None /\ Reached = now
    BY <1>1, <1>6 DEF TargetMoved, TypeOK, Reached, InIteration
  <2> QED BY <1>6, <2>1 DEF TargetMoved, Continues, Rescheduled, CurrentContests
<1>7. ASSUME TargetPending PROVE state # None /\ Continues(state, state')
  <2>1. state \in CurrentContests /\ state # None
    BY <1>1, <1>7 DEF TargetPending, ReminderReady, TypeOK
  <2> QED BY <1>7, <2>1 DEF TargetPending, Continues, WithPending, CurrentContests
<1>8. ASSUME TargetSent PROVE state # None /\ Continues(state, state')
  <2>1. state \in CurrentContests /\ state # None
    BY <1>1, <1>8 DEF TargetSent, AtSend, TypeOK
  <2> QED BY <1>8, <2>1 DEF TargetSent, Continues, markSentState, CurrentContests
<1> QED
  BY <1>1, <1>3, <1>4, <1>5, <1>6, <1>7, <1>8, TargetSteps
     DEF TargetMoved, TargetPending, TargetSent

\* A reminder for the start time was sent not before `due`: its contest is still
\* the target, or a first successor is, since `ended`, when the contest was over.
StillTarget(id, due) ==
    /\ due <= Reached
    /\ \A s \in {state, current} \ {None} :
          s.contest.id = id /\ s.normalStatus = "sent" /\ due <= s.contest.startTime

Succeeded(id, ended) ==
    /\ ended <= Reached
    /\ \A s \in {state, current} \ {None} :
          s.contest.id # id /\ ended <= s.contest.startTime

\* What becomes of a contest that lasts at least d and whose reminder was sent: by
\* the time a second successor can be chosen, the announced start has passed.
Announced(id, start, d) ==
    /\ current # None
    /\ \/ start <= Reached
       \/ StillTarget(id, start - ReminderBefore)
       \/ Succeeded(id, start - ReminderBefore + d)

AnnouncedOnce(d) ==
    \A id \in Ids, start \in Starts :
        history[<<"normal", id, start>>] = "sent" => Announced(id, start, d)

\* Once announced, a contest stays so.
LEMMA AnnouncedStays ==
    ASSUME Inductive, Agreement, [Next]_vars,
           NEW d \in Nat, ReminderBefore <= d + d,
           \A slot \in Slots : slot[1] + d <= slot[2],
           NEW id \in Ids, NEW start \in Starts, Announced(id, start, d)
    PROVE  Announced(id, start, d)'
<1>1. /\ Reached \in Nat /\ Reached' \in Nat /\ Reached <= Reached'
      /\ current # None /\ current' # None
      /\ start \in Int /\ ReminderBefore \in Int
  BY ReachedGrows, CurrentKept, PolicyAssumption DEF Inductive, Announced, Starts
<1>2. PICK due \in Int : due = start - ReminderBefore
  BY <1>1
<1>3. PICK ended \in Int : ended = start - ReminderBefore + d
  BY <1>1
<1>4. TypeOK /\ TypeOK'
  BY NextTypeOK DEF Inductive, Timeless
<1>5. \A s \in {state, current} \ {None} :
         /\ s.contest.startTime \in Nat /\ s.contest.endTime \in Nat
         /\ s.contest.startTime + d <= s.contest.endTime
  <2>1. ASSUME NEW c \in Contests
        PROVE  c.startTime \in Nat /\ c.endTime \in Nat /\ c.startTime + d <= c.endTime
    <3>1. PICK i \in Ids, slot \in Slots : c = Contest(i, slot)
      BY DEF Contests
    <3> QED BY <3>1, PolicyAssumption DEF Contest
  <2> QED BY <1>4, <2>1 DEF TypeOK, StoreTypeOK, CurrentContests
<1>6. \A t \in {state', current'} \ {None} : t.contest.startTime \in Nat
  BY <1>4, ContestFields DEF TypeOK, StoreTypeOK, CurrentContests
<1>7. CASE start <= Reached
  BY <1>1, <1>7 DEF Announced
<1> DEFINE Goes == \A t \in {state', current'} \ {None} :
                      \E s \in {state, current} \ {None} : Continues(s, t)
<1> DEFINE Ends == \A t \in {state', current'} \ {None} :
                      state # None /\ Follows(state, t)
<1>8. Goes \/ Ends
  BY <1>1, TargetsGoOn
<1>9. ASSUME NEW x \in Int, x <= Reached PROVE x <= Reached'
  BY <1>1, <1>9
<1>10. CASE StillTarget(id, due)
  <2>1. due <= Reached /\ due <= Reached'
    BY <1>9, <1>10 DEF StillTarget
  <2>2. CASE Goes
    <3>1. ASSUME NEW t \in {state', current'} \ {None}
          PROVE  t.contest.id = id /\ t.normalStatus = "sent" /\ due <= t.contest.startTime
      <4>1. PICK s \in {state, current} \ {None} : Continues(s, t)
        BY <2>2
      <4> QED BY <1>1, <1>5, <1>6, <1>10, <2>1, <4>1 DEF Continues, StillTarget
    <3>2. StillTarget(id, due)'
      BY <2>1, <3>1 DEF StillTarget
    <3> QED BY <1>1, <1>2, <3>2 DEF Announced, StillTarget
  <2>3. CASE Ends
    <3>1. state # None /\ ended <= Reached
      <4>1. state # None /\ state.contest.endTime <= Reached
        BY <1>1, <2>3 DEF Follows
      <4>2. due <= state.contest.startTime
        BY <1>10, <4>1 DEF StillTarget
      <4> QED BY <1>1, <1>2, <1>3, <1>5, <4>1, <4>2
    <3>2. ASSUME NEW t \in {state', current'} \ {None}
          PROVE  t.contest.id # id /\ ended <= t.contest.startTime
      BY <1>1, <1>6, <1>10, <2>3, <3>1 DEF Follows, StillTarget
    <3>3. Succeeded(id, ended)'
      BY <1>9, <3>1, <3>2 DEF Succeeded
    <3> QED BY <1>1, <1>3, <3>3 DEF Announced, Succeeded
  <2> QED BY <1>8, <2>2, <2>3
<1>11. CASE Succeeded(id, ended)
  <2>1. ended <= Reached /\ ended <= Reached'
    BY <1>9, <1>11 DEF Succeeded
  <2>2. CASE Goes
    <3>1. ASSUME NEW t \in {state', current'} \ {None}
          PROVE  t.contest.id # id /\ ended <= t.contest.startTime
      <4>1. PICK s \in {state, current} \ {None} : Continues(s, t)
        BY <2>2
      <4> QED BY <1>1, <1>5, <1>6, <1>11, <2>1, <4>1 DEF Continues, Succeeded
    <3>2. Succeeded(id, ended)'
      BY <2>1, <3>1 DEF Succeeded
    <3> QED BY <1>1, <1>3, <3>2 DEF Announced, Succeeded
  <2>3. CASE Ends
    <3>1. state # None /\ state.contest.endTime <= Reached
      BY <1>1, <2>3 DEF Follows
    <3>2. ended <= state.contest.startTime
      BY <1>11, <3>1 DEF Succeeded
    <3>3. start <= Reached
      BY <1>1, <1>3, <1>5, <3>1, <3>2
    <3> QED BY <1>1, <1>9, <3>3 DEF Announced
  <2> QED BY <1>8, <2>2, <2>3
<1> QED BY <1>2, <1>3, <1>7, <1>10, <1>11 DEF Announced

\* Where a reminder is to be recorded, only the record changes the history.
LEMMA MarkWrites ==
    ASSUME [Next]_vars, pc = "remindMark", history' # history
    PROVE  RemindMark
<1>1. CASE FetchStep \/ NoticeBlock \/ WeeklyStep
  BY <1>1
     DEF FetchStep, NoticeBlock, NoticeNotDue, NoticeNone, NoticeLoadFails,
         NoticeExpire, NoticeUnconfirmed, NoticeRefresh, NoticeUpdateFails,
         NoticeSend, NoticeMark, NoticeMarkFails, NoticeDue,
         WeeklyStep, WeeklySend, WeeklyMark, WeeklyMarkFails
<1>2. CASE RemindIdle \/ RemindPending \/ RemindPendingFails \/ RemindSend
  BY <1>2 DEF RemindIdle, RemindPending, RemindPendingFails, RemindSend
<1>3. CASE RemindMarkFails
  BY <1>3 DEF RemindMarkFails, DbFails, storeVars
<1>4. CASE QuietStep
  BY <1>4, QuietRests DEF storeVars
<1> QED BY <1>1, <1>2, <1>3, <1>4, StepKinds DEF RemindBlock

\* A reminder that is being recorded announces the target.
LEMMA MarkAnnounces ==
    ASSUME Inductive, [Next]_vars, NEW d \in Nat, NEW id \in Ids, NEW start \in Starts,
           pc = "remindMark", <<"normal", id, start>> = state.pendingMessageKey,
           history'[<<"normal", id, start>>] # history[<<"normal", id, start>>]
    PROVE  Announced(id, start, d)'
<1>1. TypeOK /\ StatusCoherent /\ AtSend /\ PendingMeansDue
  BY DEF Inductive, Timeless
<1>2. /\ state \in CurrentContests /\ state # None
      /\ state.pendingKind = "normal"
      /\ state.contest.id = id /\ state.contest.startTime = start
  BY <1>1, PendingTyped, StoreAssumption DEF notificationKey
<1>3. /\ state.reminderTime = start - ReminderBefore
      /\ state.reminderTime <= now
  BY <1>1, <1>2 DEF PendingMeansDue, StatusCoherent, Coherent, InIteration
<1>4. RemindMark
  BY MarkWrites
<1>5. /\ state' = markSentState(state, "normal") /\ current' = state'
      /\ pc' = "sleep" /\ now' = now
  BY <1>2, <1>4 DEF RemindMark, MarkSent, RemindStep
<1>6. /\ state' \in CurrentContests
      /\ state'.contest = state.contest /\ state'.normalStatus = "sent"
  BY <1>2, <1>5, markSentTyped DEF markSentState, CurrentContests
<1>7. Reached' = now
  BY <1>5 DEF Reached, InIteration
<1>8. start - ReminderBefore <= start
  BY PolicyAssumption DEF Starts
<1>9. StillTarget(id, start - ReminderBefore)'
  BY <1>2, <1>3, <1>5, <1>6, <1>7, <1>8 DEF StillTarget
<1> QED BY <1>5, <1>6, <1>9, StoreAssumption DEF Announced

\* A normal reminder is sent once for a start time (FR-10), although the loop
\* never reads the history (main.cpp:328-374): for contests that last at least
\* half as long as reminders lead, no contest comes back as the target before the
\* start that was announced has passed.
THEOREM RemindedOnce ==
    ASSUME NEW d \in Nat, ReminderBefore <= d + d,
           \A slot \in Slots : slot[1] + d <= slot[2]
    PROVE  Spec => []NormalNotRepeated
<1> DEFINE Inv == Agreement /\ PostsRecorded /\ AnnouncedOnce(d)
<1>1. Init => Inv
  BY DEF Init, StoreInit, Agreement, PostsRecorded, PostedMeansRecorded, AnnouncedOnce,
         NotificationKeys, Kinds
<1>2. ASSUME Inductive, AnnouncedOnce(d), Agreement, [Next]_vars PROVE AnnouncedOnce(d)'
  <2>1. ASSUME NEW id \in Ids, NEW start \in Starts,
               history'[<<"normal", id, start>>] = "sent"
        PROVE  Announced(id, start, d)'
    <3>1. CASE history[<<"normal", id, start>>] = "sent"
      BY <1>2, <3>1, AnnouncedStays DEF AnnouncedOnce
    <3>2. CASE history[<<"normal", id, start>>] # "sent"
      <4>1. <<"normal", id, start>> \in NotificationKeys
        BY DEF NotificationKeys, Kinds
      <4> QED BY <1>2, <2>1, <3>2, <4>1, HistorySteps, MarkAnnounces DEF Inductive, Timeless
    <3> QED BY <3>1, <3>2
  <2> QED BY <2>1 DEF AnnouncedOnce
<1>3. Inductive /\ Inv /\ [Next]_vars => Inv'
  BY <1>2, InductiveInserts, NextAgreement, NextPostsRecorded DEF Inductive
<1>4. ASSUME Inductive, Inv PROVE NormalNotRepeated
  <2> SUFFICES ASSUME pc = "remindSend", state.pendingKind = "normal"
               PROVE  history[state.pendingMessageKey] = "pending"
    BY DEF NormalNotRepeated
  <2>1. TypeOK /\ StatusCoherent /\ AtSend
    BY <1>4 DEF Inductive, Timeless
  <2>2. /\ state \in CurrentContests /\ state # None
        /\ state.pendingMessageKey = <<"normal", state.contest.id, state.contest.startTime>>
        /\ state.pendingMessageKey \in NotificationKeys
    BY <2>1, PendingTyped, StoreAssumption DEF notificationKey
  <2>3. state.contest.id \in Ids /\ state.contest.startTime \in Starts
          /\ state.contest.startTime \in Nat
    BY <2>2, ContestFields DEF CurrentContests
  <2>4. now < state.contest.startTime /\ Reached = now /\ now \in Nat
    BY <2>1 DEF AtSend, Reached, InIteration, TypeOK, Times
  <2>5. state.normalStatus = "pending"
    BY <2>1, <2>2 DEF StatusCoherent, Coherent
  <2>6. history[state.pendingMessageKey] # "sent"
    <3>1. ~Announced(state.contest.id, state.contest.startTime, d)
      BY <2>2, <2>3, <2>4, <2>5 DEF Announced, StillTarget, Succeeded
    <3> QED BY <1>4, <2>2, <2>3, <3>1 DEF AnnouncedOnce
  <2>7. history[state.pendingMessageKey] \in {"pending", "sent"}
    BY <1>4, <2>1, <2>2 DEF PostsRecorded, TypeOK, StoreTypeOK
  <2> QED BY <2>6, <2>7
<1>5. Inductive /\ Inv => NormalNotRepeated
  BY <1>4
<1> HIDE DEF Inv
<1> QED BY <1>1, <1>3, <1>5, AlwaysInductive, PTL DEF Spec

-----------------------------------------------------------------------------
(* The calls of the store.                                                 *)

\* The targets the loop hands to the repository.
CoherentTargets == {s \in CurrentContests : Coherent(s)}

Store == INSTANCE AtomicStore WITH States <- CoherentTargets

\* One call of the repository, with the arguments SqliteRepository allows.
StoreCall ==
    \/ \E s \in CoherentTargets : Save(s)
    \/ \E s \in CoherentTargets, kind \in Kinds :
          \/ MarkPending(notificationKey(kind, s.contest), s)
          \/ MarkSent(notificationKey(kind, s.contest), s)
    \/ \E previous, next \in CoherentTargets, t \in Times :
          AdvanceToNextContest(previous, next, t)
    \/ \E key \in NoticeKeys, contest \in Contests :
          RefreshNextContestNotice(key, contest)
    \/ \E key \in NoticeKeys, status \in {"sent", "skipped"} :
          UpdateNextContestNotice(key, status)
    \/ \E date \in Dates : MarkWeeklyCheckCompleted(date)

\* The target is coherent, whenever there is one.
LEMMA TargetIsCoherent ==
    ASSUME Timeless, state # None
    PROVE  state \in CoherentTargets
  BY DEF Timeless, TypeOK, StatusCoherent, CoherentTargets

\* The fetch saves a target or advances from one to the next.
LEMMA FetchCalls ==
    ASSUME Timeless, Timeless', FetchStep
    PROVE  StoreCall \/ UNCHANGED storeVars
<1>1. TypeOK /\ page \in [Ids -> Slots \cup {None}] /\ now \in Times
  BY DEF Timeless, TypeOK
<1>2. ASSUME state' # None PROVE state' \in CoherentTargets
  BY <1>2 DEF Timeless, TypeOK, StatusCoherent, CoherentTargets
<1>3. CASE FetchSelect
  <2>1. PICK d, r :
          /\ d \in CallDelays /\ r \in FetchResults(now, d)
          /\ r.contests # {}
          /\ state' = newState(Earliest(r.contests))
          /\ Save(state') \/ DbFails
    BY <1>3 DEF FetchSelect
  <2>2. Earliest(r.contests) \in Contests
    BY <1>1, <2>1, FetchResultTyped, EarliestIsMember
  <2>3. state' \in CoherentTargets
    BY <1>2, <2>1, <2>2, newStateTyped, StoreAssumption
  <2> QED BY <2>1, <2>3 DEF StoreCall, DbFails
<1>4. CASE FetchTrack
  <2>1. PICK d, r :
          /\ d \in CallDelays /\ r \in FetchResults(now, d)
          /\ state # None
          /\ state' = Tracked(r)
          /\ UNCHANGED storeVars \/ Save(state') \/ DbFails
    BY <1>4 DEF FetchTrack
  <2>2. state \in CurrentContests
    BY <1>1, <2>1 DEF TypeOK
  <2>3. state' \in CoherentTargets
    BY <1>1, <1>2, <2>1, <2>2, FetchResultTyped, TrackedTyped, StoreAssumption
  <2> QED BY <2>1, <2>3 DEF StoreCall, DbFails
<1>5. CASE FetchAdvance
  <2>1. PICK d, r :
          /\ d \in CallDelays /\ r \in FetchResults(now, d)
          /\ state # None
          /\ NextContest(r) # None
          /\ state' = newState(NextContest(r))
          /\ AdvanceToNextContest(state, state', now)
    BY <1>5 DEF FetchAdvance
  <2>2. NextContest(r) \in Contests
    BY <1>1, <2>1, FetchResultTyped, NextContestTyped
  <2>3. state \in CoherentTargets /\ state' \in CoherentTargets
    BY <1>2, <2>1, <2>2, TargetIsCoherent, newStateTyped, StoreAssumption
  <2> QED BY <1>1, <2>1, <2>3 DEF StoreCall
<1>6. CASE FetchFailed \/ FetchEmptyWeek \/ FetchAdvanceFails \/ FetchNoNext
  BY <1>6 DEF FetchFailed, FetchEmptyWeek, FetchAdvanceFails, FetchNoNext, DbFails
<1> QED BY <1>3, <1>4, <1>5, <1>6 DEF FetchStep

\* The Saturday check marks the date of the iteration.
LEMMA WeeklyCalls ==
    ASSUME Timeless, WeeklyStep
    PROVE  StoreCall \/ UNCHANGED storeVars
<1>1. CASE WeeklyMark
  BY <1>1, DateOfTime DEF WeeklyMark, StoreCall, Timeless, TypeOK
<1>2. CASE WeeklySend \/ WeeklyMarkFails
  BY <1>2 DEF WeeklySend, WeeklyMarkFails, DbFails
<1> QED BY <1>1, <1>2 DEF WeeklyStep

\* The notice block refreshes or settles the row it loaded.
LEMMA NoticeCalls ==
    ASSUME Timeless, NoticeBlock
    PROVE  StoreCall \/ UNCHANGED storeVars
<1>1. TypeOK /\ StoreTypeOK
  BY DEF Timeless, TypeOK
<1>2. ASSUME PendingNotices # {} PROVE FirstPendingNotice \in NoticeKeys
  BY <1>1, <1>2, FirstPendingIsPending, PendingRow
<1>3. CASE NoticeExpire
  BY <1>2, <1>3 DEF NoticeExpire, StoreCall
<1>4. CASE NoticeRefresh
  <2>1. PICK c \in Confirmed : RefreshNextContestNotice(FirstPendingNotice, c)
    BY <1>4 DEF NoticeRefresh
  <2>2. c \in Contests
    BY <1>1 DEF Confirmed, findContest, TypeOK
  <2> QED BY <1>2, <1>4, <2>1, <2>2 DEF NoticeRefresh, StoreCall
<1>5. CASE NoticeMark
  <2>1. notice.key \in NoticeKeys
    BY <1>5 DEF NoticeMark, Timeless, TypeOK, AtSend
  <2> QED BY <1>5, <2>1 DEF NoticeMark, StoreCall
<1>6. CASE NoticeNotDue \/ NoticeNone \/ NoticeLoadFails \/ NoticeUnconfirmed
  BY <1>6 DEF NoticeNotDue, NoticeNone, NoticeLoadFails, NoticeUnconfirmed, DbFails
<1>7. CASE NoticeUpdateFails \/ NoticeSend \/ NoticeMarkFails
  BY <1>7 DEF NoticeUpdateFails, NoticeSend, NoticeMarkFails, DbFails
<1> QED BY <1>3, <1>4, <1>5, <1>6, <1>7 DEF NoticeBlock

\* The reminder block passes a key that is the target's own: a key kept from an
\* earlier iteration was not made for another schedule.
LEMMA RemindCalls ==
    ASSUME Timeless, Timeless', RemindBlock
    PROVE  StoreCall \/ UNCHANGED storeVars
<1>1. TypeOK /\ StatusCoherent /\ AtSend
  BY DEF Timeless
<1>2. ASSUME state' \in CurrentContests PROVE state' \in CoherentTargets
  BY <1>2, StoreAssumption DEF Timeless, StatusCoherent, CoherentTargets
<1>3. CASE RemindPending
  <2> DEFINE kind == ReadyKind(state, now)
  <2>1. /\ state' = WithPending(kind)
        /\ MarkPending(state'.pendingMessageKey, state')
        /\ ReminderReady
    BY <1>3 DEF RemindPending
  <2>2. state \in CurrentContests
    BY <1>1, <2>1 DEF ReminderReady, TypeOK
  <2>3. kind \in Kinds
    BY <2>1, <2>2, ReadyKindTyped DEF ReminderReady
  <2>4. state' \in CoherentTargets
    BY <1>1, <1>2, <2>1, ReadyTyped
  <2>5. state'.pendingMessageKey = notificationKey(kind, state'.contest)
    BY <2>1, <2>2 DEF WithPending, CurrentContests
  <2> HIDE DEF kind
  <2> QED BY <2>1, <2>3, <2>4, <2>5 DEF StoreCall
<1>4. CASE RemindMark
  <2>1. /\ state' = markSentState(state, state.pendingKind)
        /\ MarkSent(state.pendingMessageKey, state')
        /\ pc = "remindMark"
    BY <1>4 DEF RemindMark
  <2>2. /\ state \in CurrentContests
        /\ state.pendingKind \in Kinds
        /\ state.pendingMessageKey = notificationKey(state.pendingKind, state.contest)
    BY <1>1, <2>1, PendingTyped
  <2>3. state' \in CoherentTargets
    BY <1>2, <2>1, <2>2, markSentTyped
  <2>4. state'.contest = state.contest
    BY <2>1, <2>2 DEF markSentState, CurrentContests
  <2> QED BY <2>1, <2>2, <2>3, <2>4 DEF StoreCall
<1>5. CASE RemindIdle \/ RemindPendingFails \/ RemindSend \/ RemindMarkFails
  BY <1>5 DEF RemindIdle, RemindPendingFails, RemindSend, RemindMarkFails, DbFails
<1> QED BY <1>3, <1>4, <1>5 DEF RemindBlock

\* No step of the loop makes more than one call that changes the store.
LEMMA StepCalls ==
    ASSUME Timeless, Timeless', [Next]_vars
    PROVE  StoreCall \/ UNCHANGED storeVars
<1>1. CASE QuietStep
  BY <1>1, QuietRests DEF storeVars
<1> QED BY <1>1, FetchCalls, WeeklyCalls, NoticeCalls, RemindCalls, StepKinds

\* A call is a step of the abstract store.
LEMMA CallIsStoreStep ==
    ASSUME StoreCall
    PROVE  Store!StoreNext
<1>1. /\ Store!Kinds = Kinds /\ Store!NoticeKeys = NoticeKeys /\ Store!Contests = Contests
      /\ \A kind, c : Store!notificationKey(kind, c) = notificationKey(kind, c)
  BY DEF Kinds, Store!Kinds, NoticeKeys, Store!NoticeKeys, Starts, Store!Starts, Contests,
         Store!Contests, Contest, Store!Contest, notificationKey, Store!notificationKey
<1>2. Store!PendingNotices = PendingNotices
  BY <1>1 DEF PendingNotices, Store!PendingNotices
<1>3. ASSUME NEW s \in CoherentTargets, Save(s)
      PROVE  Store!StoreNext
  BY <1>3 DEF Save, Store!Save, Store!StoreNext
<1>4. ASSUME NEW s \in CoherentTargets, NEW kind \in Kinds,
             \/ MarkPending(notificationKey(kind, s.contest), s)
             \/ MarkSent(notificationKey(kind, s.contest), s)
      PROVE  Store!StoreNext
  BY <1>1, <1>4
     DEF MarkPending, Store!MarkPending, MarkSent, Store!MarkSent, Store!StoreNext
<1>5. ASSUME NEW previous \in CoherentTargets, NEW next \in CoherentTargets,
             NEW t \in Times, AdvanceToNextContest(previous, next, t)
      PROVE  Store!StoreNext
  <2>1. Store!AdvanceToNextContest(previous, next, t)
    BY <1>5
       DEF AdvanceToNextContest, Store!AdvanceToNextContest, MayAdvance,
           Store!MayAdvance, NoticeKey, Store!NoticeKey, PendingNotice,
           Store!PendingNotice
  <2> QED BY <2>1 DEF Store!StoreNext
<1>6. ASSUME NEW key \in NoticeKeys, NEW c \in Contests, RefreshNextContestNotice(key, c)
      PROVE  Store!StoreNext
  BY <1>1, <1>2, <1>6
     DEF RefreshNextContestNotice, Store!RefreshNextContestNotice, CanRefresh,
         Store!CanRefresh, Store!StoreNext
<1>7. ASSUME NEW key \in NoticeKeys, NEW status \in {"sent", "skipped"},
             UpdateNextContestNotice(key, status)
      PROVE  Store!StoreNext
  BY <1>1, <1>2, <1>7
     DEF UpdateNextContestNotice, Store!UpdateNextContestNotice, Store!StoreNext
<1>8. ASSUME NEW date \in Dates, MarkWeeklyCheckCompleted(date)
      PROVE  Store!StoreNext
  BY <1>8 DEF MarkWeeklyCheckCompleted, Store!MarkWeeklyCheckCompleted, Store!StoreNext
<1> QED BY <1>3, <1>4, <1>5, <1>6, <1>7, <1>8 DEF StoreCall

\* The tables are empty at first.
LEMMA InitStore == Init => Store!StoreInit
<1>1. Store!NoticeKeys = NoticeKeys /\ Store!NotificationKeys = NotificationKeys
  BY DEF NoticeKeys, Store!NoticeKeys, NotificationKeys, Store!NotificationKeys,
         Kinds, Store!Kinds, Starts, Store!Starts
<1> QED BY <1>1 DEF Init, StoreInit, Store!StoreInit

\* The loop calls the repository only as RepositoryImplementsStore allows its
\* callers: one call at a time, with a coherent target and its own key, and the
\* dates and notice keys of its tables (main.cpp:228-366).
THEOREM LoopKeepsToStore == Spec => Store!StoreSpec
<1>1. Init => Store!StoreInit
  BY InitStore
<1>2. Timeless /\ Timeless' /\ [Next]_vars => [Store!StoreNext]_(Store!storeVars)
  BY StepCalls, CallIsStoreStep DEF storeVars, Store!storeVars
<1> QED BY <1>1, <1>2, AlwaysTimeless, PTL DEF Spec, Store!StoreSpec
=============================================================================
