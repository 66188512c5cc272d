--------------------------- MODULE MCReminderLive ---------------------------
(***************************************************************************)
(* A small instance for liveness: contest 2 ends early, contest 1 follows   *)
(* and can be moved beyond the end of the clock.  Contest 3 can be          *)
(* announced after it: then the notice of each advance waits for the page,  *)
(* the disk and Discord, and the later one for the earlier.                 *)
(***************************************************************************)
EXTENDS ReminderLiveness, TLC

MCIds == {1, 2, 3}

MCSlots == {<<1, 2>>, <<3, 4>>, <<5, 6>>}

MCDates == {jstDateKey(t) : t \in 0 .. MaxTime}

MCInitialPages ==
    {(1 :> <<3, 4>> @@ 2 :> <<1, 2>> @@ 3 :> None)}
=============================================================================
