---------------------------- MODULE DiscordClient ----------------------------
(***************************************************************************)
(* WebhookDiscordClient::send of src/src/discord_client.cpp: how one POST   *)
(* becomes a SendResult, beside what Discord itself did with the message.  *)
(*                                                                         *)
(* The webhook's answer is external.  A response is transport failure or a  *)
(* status; `delivered` is whether the message is in the channel.  A         *)
(* transport failure (timeout, reset, an answer over the size limit) and a  *)
(* 5xx leave that open: the message may be there although send reports an   *)
(* error.                                                                  *)
(***************************************************************************)
EXTENDS Integers

CONSTANTS
    WebhookUrlValid,  \* isDiscordWebhookUrl of the configured url
    RoleIdValid,      \* isNumeric of the configured role id
    HttpStatuses      \* the statuses Discord may answer with

ASSUME DiscordAssumption ==
    /\ WebhookUrlValid \in BOOLEAN
    /\ RoleIdValid \in BOOLEAN
    /\ HttpStatuses \subseteq 100 .. 599

SendResults == {"Sent", "RetryableError", "ConfigurationError"}

IsSuccess(status) == status >= 200 /\ status < 300

IsTemporary(status) == status = 429 \/ status >= 500

\* The webhook's behaviour: a success means delivered, a refusal means not.
WebhookResponses ==
    [transportSucceeded : {FALSE}, status : {0}, delivered : BOOLEAN]
        \cup {r \in [transportSucceeded : {TRUE}, status : HttpStatuses,
                     delivered : BOOLEAN] :
                /\ IsSuccess(r.status) => r.delivered
                /\ r.delivered => IsSuccess(r.status) \/ r.status >= 500}

\* The configuration checks that precede the request.
CanRequest(mentionRole) ==
    WebhookUrlValid /\ (mentionRole => RoleIdValid)

\* Mutant: whatever is not an error status counts as sent.
ClassifyByErrorStatus(response) ==
    IF IsTemporary(response.status) THEN "RetryableError"
    ELSE IF response.status >= 400 THEN "ConfigurationError"
    ELSE "Sent"

Classify(response) ==
    IF ~response.transportSucceeded THEN "RetryableError"
    ELSE IF IsSuccess(response.status) THEN "Sent"
    ELSE IF IsTemporary(response.status) THEN "RetryableError"
    ELSE "ConfigurationError"

\* What one call of send may return and do.
SendOutcomes(mentionRole) ==
    IF CanRequest(mentionRole)
    THEN {[result |-> Classify(r), delivered |-> r.delivered] :
            r \in WebhookResponses}
    ELSE {[result |-> "ConfigurationError", delivered |-> FALSE]}
==============================================================================
