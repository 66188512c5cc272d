-------------------------- MODULE MCReminderClaims --------------------------
(***************************************************************************)
(* A small instance for the documents' claims: contest 1 can move past      *)
(* contest 2, within the day or to the next one.                           *)
(***************************************************************************)
EXTENDS ReminderClaims, TLC

MCIds == {1, 2}

MCSlots == {<<5, 6>>, <<6, 7>>, <<8, 9>>}

MCDates == {jstDateKey(t) : t \in 0 .. MaxTime}

MCInitialPages == {(1 :> <<5, 6>> @@ 2 :> <<6, 7>>), (1 :> <<5, 6>> @@ 2 :> None)}
=============================================================================
