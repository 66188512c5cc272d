----------------------------- MODULE AtomicStore -----------------------------
(***************************************************************************)
(* The abstract specification of the repository: a store on which each      *)
(* operation of StateStore happens in one step.                            *)
(***************************************************************************)
EXTENDS StateStore

CONSTANTS
    States,  \* the CurrentContest values a caller passes
    Times    \* the values of next.updatedAt

StoreNext ==
    \/ \E s \in States : Save(s)
    \/ Clear
    \/ \E s \in States, kind \in Kinds :
          MarkPending(notificationKey(kind, s.contest), s)
    \/ \E s \in States, kind \in Kinds :
          MarkSent(notificationKey(kind, s.contest), s)
    \/ \E previous, next \in States, now \in Times :
          AdvanceToNextContest(previous, next, now)
    \/ \E key \in NoticeKeys, contest \in Contests :
          RefreshNextContestNotice(key, contest)
    \/ \E key \in NoticeKeys, status \in {"sent", "skipped"} :
          UpdateNextContestNotice(key, status)
    \/ \E date \in Dates : MarkWeeklyCheckCompleted(date)

StoreSpec == StoreInit /\ [][StoreNext]_storeVars
==============================================================================
