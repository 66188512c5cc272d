--------------------------- MODULE MCReminderLoop ---------------------------
(***************************************************************************)
(* A small instance of the main loop.                                      *)
(***************************************************************************)
EXTENDS ReminderSafety, TLC

MCIds == {1, 2}

MCSlots == {<<3, 5>>, <<6, 8>>, <<7, 8>>}

MCDates == {jstDateKey(t) : t \in 0 .. MaxTime}

\* One contest is announced, or both with the second after the first.
MCInitialPages ==
    {(1 :> <<3, 5>> @@ 2 :> None), (1 :> <<3, 5>> @@ 2 :> <<6, 8>>)}
=============================================================================
