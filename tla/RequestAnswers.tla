--------------------------- MODULE RequestAnswers ---------------------------
(***************************************************************************)
(* The abstract specification of a request: what the main loop assumes of   *)
(* one call of AtCoderClient::fetch or of WebhookDiscordClient::send.  The   *)
(* answer comes in one step; it is a reading of the page at some time until *)
(* the request's time is up, or one of the outcomes of send.                *)
(***************************************************************************)
EXTENDS SchedulePage, DiscordClient

CONSTANTS
    RequestTimes,   \* when requests may be made
    InitialPages,   \* what AtCoder may list
    RequestTimeout

VARIABLES post, now, answer

Answers ==
    IF post THEN SendOutcomes(FALSE)
    ELSE UNION {Readings(now, seen) : seen \in now .. now + RequestTimeout}

Respond ==
    /\ answer = None /\ answer' # None
    /\ answer' \in Answers
    /\ UNCHANGED <<page, post, now>>

RequestSpec ==
    /\ page \in InitialPages
    /\ post \in BOOLEAN
    /\ now \in RequestTimes
    /\ answer = None
    /\ [][Respond]_<<page, post, now, answer>>
=============================================================================
