--------------------------- MODULE ReminderPolicy ---------------------------
(***************************************************************************)
(* The scheduling rules of src/src/reminder_policy.cpp over the records of  *)
(* src/include/atcoder_reminder/domain.hpp.                                 *)
(*                                                                         *)
(* Time is an integer.  The unit is a constant of the instance, so the     *)
(* same rules run with the code's seconds or with a few scaled ticks.  An  *)
(* id is a number that stands for its rank among the ids' texts (the code  *)
(* compares ids as strings); a contest's number and url are functions of   *)
(* its id and are left out.                                                *)
(***************************************************************************)
EXTENDS Integers

CONSTANTS
    Ids,             \* contest ids, as ranks in the order of their texts
    Slots,           \* the <<startTime, endTime>> pairs a contest may have
    None,            \* an empty std::optional
    ReminderBefore,  \* kReminderBeforeSeconds: 7200
    DayWindow,       \* 24 hours
    SixHourWindow,   \* 6 hours
    LongInterval,    \* 3600: check interval far from a contest
    MidInterval,     \* 900: within DayWindow
    ShortInterval    \* 300: within SixHourWindow

ASSUME PolicyAssumption ==
    /\ Ids \subseteq Nat
    /\ \A slot \in Slots : /\ slot \in Nat \X Nat
                           /\ slot[1] < slot[2]
    /\ None \notin Int
    /\ None \notin {"normal", "change"}
    /\ ReminderBefore \in Nat
    /\ DayWindow \in Nat
    /\ SixHourWindow \in Nat
    /\ LongInterval \in Nat \ {0}
    /\ MidInterval \in Nat \ {0}
    /\ ShortInterval \in Nat \ {0}

-----------------------------------------------------------------------------
(* Records.                                                                *)

Contest(id, slot) == [id |-> id, startTime |-> slot[1], endTime |-> slot[2]]

Contests == {Contest(id, slot) : id \in Ids, slot \in Slots}

Starts == {slot[1] : slot \in Slots}

\* NotificationKind.
Kinds == {"normal", "change"}

\* The three fields notificationKey joins into the history's primary key.
NotificationKeys == Kinds \X Ids \X Starts

\* CurrentContest without lastFetchedAt and updatedAt, which no decision reads
\* (advanceToNextContest gets updatedAt as a parameter of its own).
CurrentContests ==
    [contest                : Contests,
     reminderTime           : Int,
     normalStatus           : {"pending", "sent"},
     normalSentForStartTime : Starts \cup {None},
     changeStatus           : {"none", "pending", "sent"},
     changeSentForStartTime : Starts \cup {None},
     pendingKind            : Kinds \cup {None},
     pendingMessageKey      : NotificationKeys \cup {None}]

-----------------------------------------------------------------------------
(* Rules.                                                                  *)

reminderTime(contest) == contest.startTime - ReminderBefore

shouldSendNormal(s, now) ==
    /\ s.normalStatus = "pending"
    /\ now >= s.reminderTime
    /\ now < s.contest.startTime

notificationKey(kind, contest) == <<kind, contest.id, contest.startTime>>

\* The order the parser sorts by and nextContestAfterEnd selects by.
StartsBefore(a, b) ==
    \/ a.startTime < b.startTime
    \/ a.startTime = b.startTime /\ a.id < b.id

Earliest(contests) ==
    CHOOSE c \in contests : \A d \in contests : ~StartsBefore(d, c)

\* Mutant: the next contest is expected to have a larger id.
SuccessorsById(s, contests, now) ==
    {c \in contests : now >= s.contest.endTime /\ c.id > s.contest.id /\ c.startTime > now}

\* The contests that may follow s once s has ended.
Successors(s, contests, now) ==
    {c \in contests : /\ now >= s.contest.endTime
                      /\ c.id # s.contest.id
                      /\ c.startTime > now
                      /\ c.endTime > c.startTime}

nextContestAfterEnd(s, contests, now) ==
    LET successors == Successors(s, contests, now)
    IN  IF successors = {} THEN None ELSE Earliest(successors)

atcoderCheckIntervalSeconds(s, now) ==
    LET remaining == s.contest.startTime - now
    IN  IF remaining <= 0 \/ remaining > DayWindow THEN LongInterval
        ELSE IF remaining > SixHourWindow THEN MidInterval
        ELSE ShortInterval
=============================================================================
