--------------------------- MODULE MCReminderPace ---------------------------
(***************************************************************************)
(* The instance of MCReminderLoop, with the time of the last fetch.         *)
(***************************************************************************)
EXTENDS MCReminderLoop, ReminderPace
=============================================================================
