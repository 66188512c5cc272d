---------------------------- MODULE HttpTransfer ----------------------------
(***************************************************************************)
(* One request of src/src/http_client.cpp: perform(), the callbacks libcurl *)
(* calls while it runs, and what the server may do.                        *)
(*                                                                         *)
(* External: libcurl and the servers.  libcurl follows redirects as told,   *)
(* gives the body to writeCallback in pieces, fails the transfer if the     *)
(* callback does not take a piece or if the connection breaks before the    *)
(* body is complete, and ends it when CURLOPT_TIMEOUT runs out.  What        *)
(* Discord does with a message is DiscordClient's WebhookResponses.         *)
(***************************************************************************)
EXTENDS DiscordClient

CONSTANTS
    GetLimit,        \* config.atcoderResponseLimit: 2 MiB
    PostLimit,       \* 512 KiB
    Pieces,          \* sizes of what libcurl passes to writeCallback
    MaxBody,         \* the servers stop here
    RequestTimeout,  \* config.requestTimeoutSeconds: 30
    Tick,            \* the step of the modelled time
    MaxRedirects     \* 3

ASSUME TransferAssumption ==
    /\ GetLimit \in Nat
    /\ PostLimit \in Nat
    /\ Pieces \subseteq Nat
    /\ MaxBody \in Nat
    /\ RequestTimeout \in Nat
    /\ Tick \in Nat \ {0}
    /\ MaxRedirects \in Nat

VARIABLES
    post,       \* postJson, or else get
    phase,      \* "asking", "receiving" the body, or "done"
    elapsed,    \* since the request was sent
    redirects,  \* hops followed
    expected,   \* whether the current url has the allowed prefix
    status,     \* of the answer being received
    offered,    \* how much of the body the server has sent
    body,       \* how much context.body holds
    delivered,  \* whether Discord has, or will have, the message
    response    \* HttpResponse: whether error is set, and the size of the body

transferVars == <<post, phase, elapsed, redirects, expected, status, offered,
                  body, delivered, response>>

NoResponse == [failed |-> FALSE, status |-> 0, body |-> 0]

FailedResponse == [NoResponse EXCEPT !.failed = TRUE]

maxBytes == IF post THEN PostLimit ELSE GetLimit

TransferInit ==
    /\ post \in BOOLEAN
    /\ phase = "asking"
    /\ elapsed = 0
    /\ redirects = 0
    /\ expected = TRUE
    /\ status = 0
    /\ offered = 0
    /\ body = 0
    /\ delivered = FALSE
    /\ response = NoResponse

-----------------------------------------------------------------------------
(* The end of the transfer.                                                *)

\* Whether Discord has a message to which it has not answered.
Undecided == post /\ phase = "asking"

\* curl_easy_perform does not return CURLE_OK.
Fail ==
    /\ phase' = "done"
    /\ response' = FailedResponse
    /\ delivered' \in IF Undecided THEN BOOLEAN ELSE {delivered}
    /\ UNCHANGED <<post, redirects, expected, status>>

\* curl_easy_init returned nothing, so nothing was sent.
SetupFails ==
    /\ phase = "asking" /\ elapsed = 0 /\ redirects = 0
    /\ phase' = "done"
    /\ response' = FailedResponse
    /\ UNCHANGED <<post, elapsed, redirects, expected, status, offered, body, delivered>>

\* Name lookup, connection, TLS, or the connection breaks.
Break ==
    /\ phase # "done"
    /\ Fail
    /\ UNCHANGED <<elapsed, offered, body>>

Wait ==
    /\ phase # "done"
    /\ elapsed < RequestTimeout
    /\ elapsed' = IF elapsed + Tick < RequestTimeout THEN elapsed + Tick
                  ELSE RequestTimeout
    /\ UNCHANGED <<post, phase, redirects, expected, status, offered, body,
                   delivered, response>>

\* Mutant: only connecting is limited.
ConnectTimedOut ==
    /\ phase = "asking" /\ elapsed = RequestTimeout
    /\ Fail
    /\ UNCHANGED <<elapsed, offered, body>>

\* CURLOPT_TIMEOUT bounds the whole request, redirects and body included.
TimedOut ==
    /\ phase # "done" /\ elapsed = RequestTimeout
    /\ Fail
    /\ UNCHANGED <<elapsed, offered, body>>

-----------------------------------------------------------------------------
(* The answer.                                                             *)

\* What one more hop does, to any host.
Follow ==
    /\ redirects' = redirects + 1
    /\ expected' \in BOOLEAN
    /\ UNCHANGED <<post, phase, status, delivered, response>>

\* Mutant: one hop more than CURLOPT_MAXREDIRS.
RedirectOnceMore ==
    /\ phase = "asking" /\ ~post
    /\ IF redirects > MaxRedirects THEN Fail ELSE Follow
    /\ UNCHANGED <<elapsed, offered, body>>

\* CURLOPT_FOLLOWLOCATION for GET only; one hop too many is an error.
Redirect ==
    /\ phase = "asking" /\ ~post
    /\ IF redirects = MaxRedirects THEN Fail ELSE Follow
    /\ UNCHANGED <<elapsed, offered, body>>

Answer ==
    /\ phase = "asking"
    /\ phase' = "receiving"
    /\ status' \in HttpStatuses
    /\ delivered' \in BOOLEAN
    /\ IF post
       THEN [transportSucceeded |-> TRUE, status |-> status',
             delivered |-> delivered'] \in WebhookResponses
       ELSE ~delivered'
    /\ UNCHANGED <<post, elapsed, redirects, expected, offered, body, response>>

\* Mutant: the limit is applied to each piece.
FitsAlone(piece) == piece <= maxBytes

\* writeCallback's condition, on unsigned sizes: the difference is never negative.
Fits(piece) == piece <= maxBytes - (IF maxBytes < body THEN maxBytes ELSE body)

\* Mutant: a piece that does not fit is skipped.
ReceiveWhatFits(piece) ==
    /\ offered' = offered + piece
    /\ body' = IF Fits(piece) THEN body + piece ELSE body
    /\ UNCHANGED <<post, phase, redirects, expected, status, delivered, response>>

Receive(piece) ==
    /\ offered' = offered + piece
    /\ IF Fits(piece)
       THEN /\ body' = body + piece
            /\ UNCHANGED <<post, phase, redirects, expected, status, delivered, response>>
       ELSE /\ Fail
            /\ UNCHANGED body

Piece ==
    /\ phase = "receiving"
    /\ \E piece \in Pieces : offered + piece <= MaxBody /\ Receive(piece)
    /\ UNCHANGED elapsed

\* CURLE_OK, and the prefix of the effective url is compared.
Complete ==
    /\ phase = "receiving"
    /\ phase' = "done"
    /\ response' = IF expected
                   THEN [failed |-> FALSE, status |-> status, body |-> body]
                   ELSE FailedResponse
    /\ UNCHANGED <<post, elapsed, redirects, expected, status, offered, body, delivered>>

TransferNext ==
    \/ SetupFails \/ Break \/ Wait \/ TimedOut
    \/ Redirect \/ Answer \/ Piece \/ Complete

-----------------------------------------------------------------------------
(* Properties.                                                             *)

TransferTypeOK ==
    /\ post \in BOOLEAN
    /\ phase \in {"asking", "receiving", "done"}
    /\ elapsed \in 0 .. RequestTimeout
    /\ redirects \in 0 .. MaxRedirects
    /\ expected \in BOOLEAN
    /\ status \in HttpStatuses \cup {0}
    /\ offered \in Nat
    /\ body \in Nat
    /\ delivered \in BOOLEAN
    /\ response \in [failed : BOOLEAN, status : HttpStatuses \cup {0}, body : Nat]

\* However the server cuts its answer into pieces, the process never holds more
\* of it than the limit of the request (http_client.cpp:36, whose subtraction
\* would wrap around if it did).
BodyBounded == body <= maxBytes

\* A response without an error has the whole body: a page that was cut off is
\* never taken for the schedule, which would make the contests at its end look
\* cancelled.
CompleteOrError ==
    phase = "done" /\ ~response.failed =>
        /\ response.body = offered
        /\ expected
=============================================================================
