-------------------------- MODULE ReminderLiveness --------------------------
(***************************************************************************)
(* What the main loop gets done in the end, if no fault lasts for ever.     *)
(***************************************************************************)
EXTENDS ReminderLoop

\* A fetch that reads every row and whose advance, if it is one, commits.
CleanFetch ==
    /\ FetchSelect \/ FetchTrack \/ FetchAdvance
    /\ confirmedFutureContests' = Upcoming(Listed, now, clock)

SuccessfulNoticeSend == NoticeSend /\ pc' = "noticeMark"

(***************************************************************************)
(* The process is scheduled and systemd starts it again (Restart=on-failure *)
(* in deploy/atcoder-abc-reminder.service): weak fairness of its steps.     *)
(* What depends on AtCoder, Discord or the disk succeeds now and then if it *)
(* is tried again and again: strong fairness of the successful outcomes.    *)
(***************************************************************************)
Fairness ==
    /\ WF_vars(ProcessStep)
    /\ SF_vars(CleanFetch)
    /\ SF_vars(NoticeRefresh)
    /\ SF_vars(NoticeExpire)
    /\ SF_vars(SuccessfulNoticeSend)
    /\ SF_vars(NoticeMark)

LiveSpec == Spec /\ Fairness

-----------------------------------------------------------------------------

\* A contest that lies ahead for the whole behaviour.
Ahead(slot) == slot # None /\ slot[1] > MaxTime

SomethingAhead == \E id \in Ids : Ahead(page[id])

\* A service without a target finds one, as long as one is listed.
TargetChosen ==
    (pc = "top" /\ state = None /\ SomethingAhead)
        ~> (state # None \/ ~SomethingAhead)

\* A target that has ended is replaced, as long as a contest is listed that it
\* can be replaced by: no order of failures, edits and restarts leaves the
\* service stuck on a contest of the past (main.cpp:156-162 asks for the fetch
\* only once per id, and memory forgets for which).
TargetFollowed ==
    (TargetEnded(clock) /\ SomethingAhead)
        ~> (~TargetEnded(clock) \/ ~SomethingAhead)

NoticePending(key) == key \in PendingNotices

\* The notice's contest was withdrawn and would only start after MaxTime: its
\* notice is rightly held back until then.
HeldBack(key) ==
    /\ notices[key].contest.startTime > MaxTime
    /\ page[notices[key].contest.id] = None

\* A queued notice is sent or, once its contest has started, skipped.  Only the
\* oldest is looked at (LIMIT 1): none that cannot be confirmed holds back the
\* later ones for ever.  A key names the contest that ended before its notice
\* was queued, so its start lies before MaxTime.
NoticesResolved ==
    \A key \in {k \in NoticeKeys : k[2] < MaxTime} :
        NoticePending(key) ~> (~NoticePending(key) \/ HeldBack(key))
=============================================================================
