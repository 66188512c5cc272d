---------------------------- MODULE StoreProofs -----------------------------
(***************************************************************************)
(* Facts about the rules of ReminderPolicy and the operations of            *)
(* StateStore, shared by the proofs about their caller (ReminderLoopProofs) *)
(* and about their implementation (SqliteProofs).                          *)
(***************************************************************************)
EXTENDS StateStore, FiniteSetTheorems, TLAPS


\* Every nonempty set of naturals has a least element: the intervals 0..n it
\* spans are finite sets, and strict inclusion of those is well founded.
LEMMA LeastNatural ==
    ASSUME NEW T, T \subseteq Nat, T # {}
    PROVE  \E least \in T : \A n \in T : least <= n
<1> DEFINE Below(n) == 0 .. n
           Family == {Below(n) : n \in T}
<1>1. Family \subseteq FiniteSubsetsOf(Nat) /\ Family # {}
  <2>1. ASSUME NEW n \in T PROVE Below(n) \in FiniteSubsetsOf(Nat)
    <3>1. n \in Int /\ 0 \in Int
      OBVIOUS
    <3>2. IsFiniteSet(Below(n))
      BY <3>1, FS_Interval
    <3>3. Below(n) \subseteq Nat
      BY <3>1
    <3> QED BY <3>2, <3>3 DEF FiniteSubsetsOf
  <2>2. Family # {}
    OBVIOUS
  <2> HIDE DEF Below
  <2> QED BY <2>1, <2>2
<1>2. PICK x \in Family : \A y \in Family : ~(<<y, x>> \in StrictSubsetOrdering(Nat))
  BY <1>1, FS_StrictSubsetOrderingWellFounded, WFMin
<1>3. PICK least \in T : x = Below(least)
  BY <1>2
<1>4. ASSUME NEW n \in T, n < least PROVE FALSE
  <2>1. Below(n) \in Family /\ Below(n) \subseteq Below(least)
    BY <1>4
  <2>2. Below(n) # Below(least)
    <3>1. least \in Below(least) /\ least \notin Below(n)
      BY <1>4
    <3> QED BY <3>1
  <2>3. Below(n) \in SUBSET Nat /\ x \in SUBSET Nat
    BY <1>3
  <2> HIDE DEF Below
  <2>4. <<Below(n), x>> \in StrictSubsetOrdering(Nat)
    BY <2>1, <2>2, <2>3, <1>3 DEF StrictSubsetOrdering
  <2> QED BY <2>1, <2>4, <1>2
<1> QED BY <1>4

\* Contests have natural fields and end after they start.
LEMMA ContestFields ==
    \A c \in Contests :
        /\ c.id \in Ids /\ c.id \in Nat
        /\ c.startTime \in Starts /\ c.startTime \in Nat
        /\ c.endTime \in Nat
        /\ c.endTime \in {slot[2] : slot \in Slots}
        /\ c.startTime < c.endTime
  BY PolicyAssumption DEF Contests, Contest, Starts

\* The choice that selects a target is defined: a nonempty set of contests has
\* an earliest one.
LEMMA EarliestIsMember ==
    ASSUME NEW S, S \subseteq Contests, S # {}
    PROVE  /\ Earliest(S) \in S
           /\ \A d \in S : ~StartsBefore(d, Earliest(S))
<1> USE ContestFields
<1>1. PICK start \in {c.startTime : c \in S} :
          \A n \in {c.startTime : c \in S} : start <= n
  <2>1. {c.startTime : c \in S} \subseteq Nat /\ {c.startTime : c \in S} # {}
    OBVIOUS
  <2> QED BY <2>1, LeastNatural
<1> DEFINE First == {c \in S : c.startTime = start}
<1>2. PICK id \in {c.id : c \in First} : \A n \in {c.id : c \in First} : id <= n
  <2>1. {c.id : c \in First} \subseteq Nat /\ {c.id : c \in First} # {}
    BY <1>1
  <2> QED BY <2>1, LeastNatural
<1>3. PICK best \in First : best.id = id
  BY <1>2
<1>4. ASSUME NEW d \in S PROVE ~StartsBefore(d, best)
  <2>1. start <= d.startTime /\ best.startTime = start
    BY <1>1, <1>3
  <2>2. d.startTime \in Nat /\ start \in Nat /\ d.id \in Nat /\ best.id \in Nat
    BY <1>3, <2>1
  <2>3. CASE d.startTime = start
    <3>1. id <= d.id
      BY <1>2, <2>3
    <3> QED BY <1>3, <2>1, <2>2, <3>1 DEF StartsBefore
  <2>4. CASE d.startTime # start
    BY <2>1, <2>2, <2>4 DEF StartsBefore
  <2> QED BY <2>3, <2>4
<1> QED BY <1>3, <1>4 DEF Earliest

\* What follows a finished contest: another one, of the list, that has not
\* started, and only once the old one is over.
LEMMA NextContestFollows ==
    ASSUME NEW s, NEW contests, NEW now, contests \subseteq Contests,
           nextContestAfterEnd(s, contests, now) # None
    PROVE  LET next == nextContestAfterEnd(s, contests, now)
           IN  /\ next \in contests /\ next \in Contests
               /\ now >= s.contest.endTime
               /\ next.id # s.contest.id
               /\ next.startTime > now
               /\ next.endTime > next.startTime
<1>1. Successors(s, contests, now) # {}
  BY DEF nextContestAfterEnd
<1>2. Successors(s, contests, now) \subseteq Contests
  BY DEF Successors
<1>3. nextContestAfterEnd(s, contests, now) \in Successors(s, contests, now)
  BY <1>1, <1>2, EarliestIsMember DEF nextContestAfterEnd
<1> QED BY <1>3 DEF Successors

\* The row loadPendingNextContestNotice picks is defined when one is pending.
LEMMA FirstPendingIsPending ==
    ASSUME StoreTypeOK, PendingNotices # {}
    PROVE  FirstPendingNotice \in PendingNotices
<1> DEFINE End(k) == notices[k].previousEndTime
<1>1. ASSUME NEW k \in PendingNotices
      PROVE  End(k) \in Nat /\ k[1] \in Nat /\ k[2] \in Nat
  <2>1. k \in NoticeKeys /\ notices[k] # None
    BY DEF PendingNotices
  <2>2. notices[k] \in NoticeRows
    BY <2>1 DEF StoreTypeOK
  <2>3. \A slot \in Slots : slot[1] \in Nat /\ slot[2] \in Nat
    BY PolicyAssumption
  <2>4. End(k) \in Nat
    BY <2>2, <2>3 DEF NoticeRows
  <2>5. k \in Ids \X Starts
    BY <2>1 DEF NoticeKeys
  <2>6. Ids \subseteq Nat /\ Starts \subseteq Nat
    BY <2>3, PolicyAssumption DEF Starts
  <2> QED BY <2>4, <2>5, <2>6
<1>2. PICK end \in {End(k) : k \in PendingNotices} :
          \A n \in {End(k) : k \in PendingNotices} : end <= n
  <2>1. /\ {End(k) : k \in PendingNotices} \subseteq Nat
        /\ {End(k) : k \in PendingNotices} # {}
    BY <1>1
  <2> QED BY <2>1, LeastNatural
<1> DEFINE A == {k \in PendingNotices : End(k) = end}
<1>3. PICK id \in {k[1] : k \in A} : \A n \in {k[1] : k \in A} : id <= n
  <2>1. {k[1] : k \in A} \subseteq Nat /\ {k[1] : k \in A} # {}
    BY <1>1, <1>2
  <2> QED BY <2>1, LeastNatural
<1> DEFINE B == {k \in A : k[1] = id}
<1>4. PICK start \in {k[2] : k \in B} : \A n \in {k[2] : k \in B} : start <= n
  <2>1. {k[2] : k \in B} \subseteq Nat /\ {k[2] : k \in B} # {}
    BY <1>1, <1>3
  <2> QED BY <2>1, LeastNatural
<1>5. PICK best \in B : best[2] = start
  BY <1>4
<1>6. ASSUME NEW k \in PendingNotices PROVE ~LoadsBefore(k, best)
  <2>1. end <= End(k) /\ End(best) = end /\ best[1] = id /\ best[2] = start
    BY <1>2, <1>5
  <2>2. /\ End(k) \in Nat /\ k[1] \in Nat /\ k[2] \in Nat
        /\ end \in Nat /\ id \in Nat /\ start \in Nat
    BY <1>1, <1>5, <2>1
  <2>3. End(k) = end => id <= k[1]
    BY <1>3
  <2>4. End(k) = end /\ k[1] = id => start <= k[2]
    BY <1>4
  <2>5. /\ ~(End(k) < End(best))
        /\ ~(End(k) = End(best) /\ (k[1] < best[1] \/ (k[1] = best[1] /\ k[2] < best[2])))
    <3> HIDE DEF End
    <3> QED BY <2>1, <2>2, <2>3, <2>4
  <2> QED BY <2>5, Zenon DEF LoadsBefore
<1> QED BY <1>5, <1>6 DEF FirstPendingNotice

-----------------------------------------------------------------------------
(* The operations.                                                         *)

\* A contest's message keys are keys of the history.
LEMMA KeyTyped ==
    ASSUME NEW kind \in Kinds, NEW c \in Contests
    PROVE  notificationKey(kind, c) \in NotificationKeys
  BY ContestFields DEF notificationKey, NotificationKeys

\* A contest's notice key is a key of the notices.
LEMMA NoticeKeyTyped ==
    ASSUME NEW c \in Contests
    PROVE  NoticeKey(c) \in NoticeKeys
  BY ContestFields DEF NoticeKey, NoticeKeys

-----------------------------------------------------------------------------
(* The store's operations keep its type.                                   *)

\* save writes a row of the type of current_contest.
LEMMA SaveTyped ==
    ASSUME StoreTypeOK, NEW s \in CurrentContests, Save(s)
    PROVE  StoreTypeOK'
  BY DEF StoreTypeOK, Save

\* markPending keeps the types of the tables.
LEMMA MarkPendingTyped ==
    ASSUME StoreTypeOK, NEW s \in CurrentContests, NEW key \in NotificationKeys,
           MarkPending(key, s)
    PROVE  StoreTypeOK'
  BY DEF StoreTypeOK, MarkPending

\* markSent keeps the types of the tables.
LEMMA MarkSentTyped ==
    ASSUME StoreTypeOK, NEW s \in CurrentContests, NEW key \in NotificationKeys,
           MarkSent(key, s)
    PROVE  StoreTypeOK'
  BY DEF StoreTypeOK, MarkSent

\* advanceToNextContest keeps the types of the tables.
LEMMA AdvanceTyped ==
    ASSUME StoreTypeOK, NEW previous \in CurrentContests,
           NEW next \in CurrentContests, NEW t,
           AdvanceToNextContest(previous, next, t)
    PROVE  StoreTypeOK'
<1>1. previous.contest \in Contests /\ next.contest \in Contests
  BY DEF CurrentContests
<1>2. NoticeKey(previous.contest) \in NoticeKeys
  BY <1>1, NoticeKeyTyped
<1>3. PendingNotice(previous, next) \in NoticeRows
  BY <1>1, ContestFields DEF PendingNotice, NoticeRows
<1> QED BY <1>2, <1>3 DEF StoreTypeOK, AdvanceToNextContest

\* A pending notice has a row.
LEMMA PendingRow ==
    ASSUME StoreTypeOK, NEW key \in PendingNotices
    PROVE  key \in NoticeKeys /\ notices[key] \in NoticeRows
  BY DEF StoreTypeOK, PendingNotices

\* refreshNextContestNotice keeps the types of the tables.
LEMMA RefreshTyped ==
    ASSUME StoreTypeOK, NEW key, NEW c \in Contests,
           RefreshNextContestNotice(key, c)
    PROVE  StoreTypeOK' /\ key \in NoticeKeys
<1>1. key \in NoticeKeys /\ notices[key] \in NoticeRows
  BY PendingRow DEF RefreshNextContestNotice, CanRefresh
<1>2. [notices[key] EXCEPT !.contest = c] \in NoticeRows
  BY <1>1 DEF NoticeRows
<1>3. notices' = [notices EXCEPT ![key] = [notices[key] EXCEPT !.contest = c]]
  BY <1>1 DEF StoreTypeOK, RefreshNextContestNotice
<1> QED BY <1>1, <1>2, <1>3 DEF StoreTypeOK, RefreshNextContestNotice

\* Marking a notice sent or skipped keeps the types of the tables.
LEMMA UpdateTyped ==
    ASSUME StoreTypeOK, NEW key, NEW status \in {"sent", "skipped"},
           UpdateNextContestNotice(key, status)
    PROVE  StoreTypeOK'
<1>1. CASE key \notin PendingNotices
  BY <1>1 DEF StoreTypeOK, UpdateNextContestNotice
<1>2. CASE key \in PendingNotices
  <2>1. key \in NoticeKeys /\ notices[key] \in NoticeRows
    BY <1>2, PendingRow
  <2>2. [notices[key] EXCEPT !.status = status] \in NoticeRows
    BY <2>1 DEF NoticeRows
  <2>3. notices' = [notices EXCEPT ![key] = [notices[key] EXCEPT !.status = status]]
    BY <1>2, <2>1 DEF StoreTypeOK, UpdateNextContestNotice
  <2> QED BY <2>1, <2>2, <2>3 DEF StoreTypeOK, UpdateNextContestNotice
<1> QED BY <1>1, <1>2

\* markWeeklyCheckCompleted keeps the types of the tables.
LEMMA MarkWeeklyTyped ==
    ASSUME StoreTypeOK, NEW date \in Dates, MarkWeeklyCheckCompleted(date)
    PROVE  StoreTypeOK'
  BY DEF StoreTypeOK, MarkWeeklyCheckCompleted

\* So does a call that fails.
LEMMA StoreUnchangedTyped ==
    ASSUME StoreTypeOK, UNCHANGED storeVars
    PROVE  StoreTypeOK'
  BY DEF StoreTypeOK, storeVars, NoticeKeys, NoticeRows
=============================================================================
