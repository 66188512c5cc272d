-------------------------- MODULE MCServiceRequests --------------------------
(***************************************************************************)
(* Around 29 February 2028, a Tuesday: a contest from half past eleven the  *)
(* evening before, one from midnight, one from 21:00, one from the next     *)
(* midnight, which is 1 March.  Requests are made at the start of the day,  *)
(* a quarter of a minute before 21:00, and at the end of the day.           *)
(***************************************************************************)
EXTENDS ServiceRequests, TLC

MCIds == {1, 2}

Evening == 1835361000

Midnight == 1835362800

Nine == 1835438400

NextMidnight == 1835449200

MCRequestTimes == {Midnight, Nine - 15, NextMidnight - 1}

MCSlots ==
    {<<Evening, Evening + 6000>>, <<Midnight, Midnight + 6000>>,
     <<Nine, Nine + 6000>>, <<NextMidnight, NextMidnight + 6000>>}

MCInitialPages ==
    {p \in [Ids -> Slots \cup {None}] :
        IF p[1] = None THEN p[2] = None ELSE p[2] = None \/ p[1][1] < p[2][1]}

JstCell(year, month, day, hour, minute) ==
    [matches |-> TRUE, year |-> year, month |-> month, day |-> day,
     hour |-> hour, minute |-> minute, second |-> 0,
     sign |-> 1, offsetHour |-> 9, offsetMinute |-> 0]

MCTimeText ==
    (Evening :> JstCell(2028, 2, 28, 23, 30))
        @@ (Midnight :> JstCell(2028, 2, 29, 0, 0))
        @@ (Nine :> JstCell(2028, 2, 29, 21, 0))
        @@ (NextMidnight :> JstCell(2028, 3, 1, 0, 0))

MCDurationText == 6000 :> [matches |-> TRUE, hours |-> 1, minutes |-> 40]
=============================================================================
