------------------------- MODULE MCSqliteRepository -------------------------
(***************************************************************************)
(* Two contests in three target states: announced, correction pending, and  *)
(* the next contest fresh.                                                 *)
(***************************************************************************)
EXTENDS SqliteRepository

MCIds == {1, 2}

MCSlots == {<<1, 2>>, <<4, 5>>}

Fresh(contest) ==
    [contest |-> contest, reminderTime |-> reminderTime(contest),
     normalStatus |-> "pending", normalSentForStartTime |-> None,
     changeStatus |-> "none", changeSentForStartTime |-> None,
     pendingKind |-> None, pendingMessageKey |-> None]

MCStates ==
    LET first  == Fresh(Contest(1, <<1, 2>>))
        second == Fresh(Contest(2, <<4, 5>>))
    IN  {[first EXCEPT !.pendingKind = "normal",
                       !.pendingMessageKey = notificationKey("normal", first.contest)],
         [first EXCEPT !.normalStatus = "sent", !.normalSentForStartTime = 1],
         second}
=============================================================================
