--------------------------- MODULE MCReminderClock ---------------------------
(***************************************************************************)
(* Two contests, one after the other, on a host whose clock is set back.    *)
(***************************************************************************)
EXTENDS ReminderClock, TLC

MCIds == {1, 2}

MCSlots == {<<3, 5>>, <<6, 7>>}

MCDates == {jstDateKey(t) : t \in 0 .. MaxTime}

MCInitialPages == {(1 :> <<3, 5>> @@ 2 :> None), (1 :> <<3, 5>> @@ 2 :> <<6, 7>>)}
=============================================================================
