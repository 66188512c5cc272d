----------------------------- MODULE StateStore -----------------------------
(***************************************************************************)
(* What the state database promises to the loop: the four tables of         *)
(* src/src/state_repository.cpp as values, and each member function that    *)
(* changes them as ONE atomic action.  A call that fails changes nothing.   *)
(* SqliteRepository runs the same functions statement by statement and is   *)
(* checked to implement this module.                                       *)
(***************************************************************************)
EXTENDS ReminderPolicy

CONSTANT Dates   \* the check dates that may occur

VARIABLES
    current,  \* current_contest: its only row, or None
    history,  \* notification_history: status by message_key
    weekly,   \* weekly_absence_checks: the completed dates
    notices   \* next_contest_notices: row by message_key, or None

storeVars == <<current, history, weekly, notices>>

\* "next:" + previous id + ":" + previous start time.
NoticeKeys == Ids \X Starts

NoticeRows == [previousEndTime : {slot[2] : slot \in Slots},
               contest         : Contests,
               status          : {"pending", "sent", "skipped"}]

ASSUME StoreAssumption ==
    /\ Dates \subseteq Int
    /\ None \notin CurrentContests
    /\ None \notin Contests
    /\ None \notin NoticeRows

-----------------------------------------------------------------------------

StoreTypeOK ==
    /\ current \in CurrentContests \cup {None}
    /\ history \in [NotificationKeys -> {"absent", "pending", "sent"}]
    /\ weekly \subseteq Dates
    /\ notices \in [NoticeKeys -> NoticeRows \cup {None}]

StoreInit ==
    /\ current = None
    /\ history = [key \in NotificationKeys |-> "absent"]
    /\ weekly = {}
    /\ notices = [key \in NoticeKeys |-> None]

-----------------------------------------------------------------------------
(* Reads.                                                                  *)

NoticeKey(contest) == <<contest.id, contest.startTime>>

PendingNotices ==
    {key \in NoticeKeys : notices[key] # None /\ notices[key].status = "pending"}

\* ORDER BY previous_end_time, message_key.
LoadsBefore(j, k) ==
    \/ notices[j].previousEndTime < notices[k].previousEndTime
    \/ /\ notices[j].previousEndTime = notices[k].previousEndTime
       /\ j[1] < k[1] \/ (j[1] = k[1] /\ j[2] < k[2])

\* LIMIT 1.
FirstPendingNotice ==
    CHOOSE key \in PendingNotices :
        \A other \in PendingNotices : ~LoadsBefore(other, key)

-----------------------------------------------------------------------------
(* Operations: save, clear, markPending, markSent, advanceToNextContest,    *)
(* refreshNextContestNotice, markNextContestNotice{Sent,Skipped} and        *)
(* markWeeklyCheckCompleted.                                               *)

Save(s) ==
    /\ current' = s
    /\ UNCHANGED <<history, weekly, notices>>

Clear ==
    /\ current' = None
    /\ UNCHANGED <<history, weekly, notices>>

\* Mutant: an UPDATE where no row exists yet.
MarkPendingUpdates(key, s) ==
    /\ history' = [history EXCEPT ![key] = IF @ = "absent" THEN @ ELSE "pending"]
    /\ current' = s
    /\ UNCHANGED <<weekly, notices>>

\* INSERT OR IGNORE: a key that has a row keeps its status.
MarkPending(key, s) ==
    /\ history' = [history EXCEPT ![key] = IF @ = "absent" THEN "pending" ELSE @]
    /\ current' = s
    /\ UNCHANGED <<weekly, notices>>

\* Mutant: the target is not saved with the history.
MarkSentHistoryOnly(key, s) ==
    /\ history' = [history EXCEPT ![key] = IF @ = "absent" THEN @ ELSE "sent"]
    /\ UNCHANGED <<current, weekly, notices>>

\* UPDATE: a key without a row stays without one.
MarkSent(key, s) ==
    /\ history' = [history EXCEPT ![key] = IF @ = "absent" THEN @ ELSE "sent"]
    /\ current' = s
    /\ UNCHANGED <<weekly, notices>>

MayAdvance(previous, next, now) ==
    /\ previous.contest.endTime <= now
    /\ next.contest.id # previous.contest.id
    /\ next.contest.startTime > now
    /\ next.contest.endTime > next.contest.startTime

PendingNotice(previous, next) ==
    [previousEndTime |-> previous.contest.endTime,
     contest         |-> next.contest,
     status          |-> "pending"]

\* Mutant: the row is keyed by the contest it announces.
AdvanceKeyedByNext(previous, next, now) ==
    /\ MayAdvance(previous, next, now)
    /\ notices' = [notices EXCEPT ![NoticeKey(next.contest)] = PendingNotice(previous, next)]
    /\ current' = next
    /\ UNCHANGED <<history, weekly>>

\* The target moves only when the notice row is new: an ignored insert still
\* commits and still reports success.
AdvanceToNextContest(previous, next, now) ==
    LET key == NoticeKey(previous.contest)
    IN  /\ MayAdvance(previous, next, now)
        /\ IF notices[key] = None
           THEN /\ notices' = [notices EXCEPT ![key] = PendingNotice(previous, next)]
                /\ current' = next
           ELSE UNCHANGED <<notices, current>>
        /\ UNCHANGED <<history, weekly>>

\* The row the UPDATE's WHERE clause selects; the call fails when it is missing.
CanRefresh(key, contest) ==
    key \in PendingNotices /\ notices[key].contest.id = contest.id

\* Mutant: the row is checked but not rewritten.
RefreshChecksOnly(key, contest) ==
    CanRefresh(key, contest) /\ UNCHANGED storeVars

RefreshNextContestNotice(key, contest) ==
    /\ CanRefresh(key, contest)
    /\ notices' = [notices EXCEPT ![key].contest = contest]
    /\ UNCHANGED <<current, history, weekly>>

\* Mutant: a notice that was dealt with is deleted.
UpdateDeletes(key, status) ==
    /\ notices' = [notices EXCEPT ![key] = None]
    /\ UNCHANGED <<current, history, weekly>>

\* An UPDATE that matches no row reports success as well.
UpdateNextContestNotice(key, status) ==
    /\ notices' = IF key \in PendingNotices
                  THEN [notices EXCEPT ![key].status = status]
                  ELSE notices
    /\ UNCHANGED <<current, history, weekly>>

MarkWeeklyCheckCompleted(date) ==
    /\ weekly' = weekly \cup {date}
    /\ UNCHANGED <<current, history, notices>>

=============================================================================
