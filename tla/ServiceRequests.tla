--------------------------- MODULE ServiceRequests ---------------------------
(***************************************************************************)
(* The two requests the service makes, from the first byte to the caller:   *)
(* WebhookDiscordClient::send is a POST and its classification,             *)
(* AtCoderClient::fetch a GET and the parser.                               *)
(***************************************************************************)
EXTENDS HttpTransfer, HtmlParser, FiniteSets

CONSTANTS
    InitialPages,  \* what AtCoder may list
    TimeText,      \* how AtCoder writes a start time
    DurationText   \* and a duration

vars == <<page, transferVars, parserVars>>

-----------------------------------------------------------------------------
(* AtCoder's page, external.                                               *)

RightRow(id, slot) ==
    [links     |-> <<id>>,
     times     |-> <<TimeText[slot[1]]>>,
     durations |-> <<DurationText[slot[2] - slot[1]]>>]

\* What can be wrong with a row that still has a contest's link.
DamagedRows(row) ==
    {[row EXCEPT !.links = @ \o <<OtherLink>>],
     [row EXCEPT !.links = <<BadNumber>>],
     [row EXCEPT !.times = <<>>],
     [row EXCEPT !.times[1].matches = FALSE],
     [row EXCEPT !.times[1].month = 2, !.times[1].day = 30],
     [row EXCEPT !.durations = <<>>],
     [row EXCEPT !.durations[1].minutes = 60],
     [row EXCEPT !.durations[1].hours = 0, !.durations[1].minutes = 0]}

OtherRow == [links |-> <<OtherLink>>, times |-> <<>>, durations |-> <<>>]

\* The rows of a listed contest: one, damaged or not, and a row of another kind of
\* contest, or two rows of it, with the same schedule or not.
RowPairs(id) ==
    LET right == RightRow(id, page[id])
    IN  ((DamagedRows(right) \cup {right}) \X {OtherRow})
           \cup ({right} \X {RightRow(id, slot) : slot \in Slots})

\* The page lists finitely many contests, and a right row shows its slot.
ASSUME PageAssumption ==
    /\ IsFiniteSet(Ids)
    /\ BadNumber \notin Ids
    /\ OtherLink \notin AbcLinks
    /\ None \notin Documents
    /\ InitialPages \subseteq [Ids -> Slots \cup {None}]
    /\ \A slot \in Slots :
          LET row == RightRow(0, slot)
          IN  /\ row.times[1] \in TimeCells
              /\ IsTimestamp(row.times[1])
              /\ parseTimestamp(row.times[1]) = slot[1]
              /\ row.durations[1] \in DurationCells
              /\ IsDuration(row.durations[1])
              /\ parseDuration(row.durations[1]) = slot[2] - slot[1]

SectionOf(id, seen) ==
    IF page[id][1] > seen THEN "upcoming"
    ELSE IF page[id][2] > seen THEN "action"
    ELSE "recent"

\* The contests of a section in one order; the parser's result depends on none.
Ordered(ids) ==
    CHOOSE order \in [1 .. Cardinality(ids) -> ids] :
        \A id \in ids : \E i \in DOMAIN order : order[i] = id

\* The rows chosen for the contests of a section.
SectionRows(rows, section, seen) ==
    LET ids == Ordered({id \in Listed : SectionOf(id, seen) = section})
    IN  [i \in DOMAIN ids |-> rows[ids[i]][1]] \o [i \in DOMAIN ids |-> rows[ids[i]][2]]

Renderings(seen) ==
    {[upcoming |-> SectionRows(rows, "upcoming", seen),
      action   |-> SectionRows(rows, "action", seen),
      recent   |-> SectionRows(rows, "recent", seen),
      tables   |-> tables] :
        tables \in 1 .. 2,
        rows \in {f \in [Listed -> UNION {RowPairs(id) : id \in Listed}] :
                     \A id \in Listed : f[id] \in RowPairs(id)}}

-----------------------------------------------------------------------------
(* AtCoderClient::fetch.                                                   *)

FetchReturns == phase = "done" /\ ~post /\ place = "idle"

Accepted == ~response.failed /\ IsSuccess(response.status)

\* The response is read by nobody after parse has the document.
Forget ==
    /\ response' = NoResponse
    /\ elapsed' = 0 /\ redirects' = 0 /\ expected' = TRUE /\ status' = 0
    /\ offered' = 0 /\ body' = 0
    /\ UNCHANGED <<post, phase, delivered>>

\* No answer, an error status, or html without the upcoming section.
NothingToRead ==
    /\ FetchReturns
    /\ Unreadable
    /\ UNCHANGED <<page, transferVars>>

\* When AtCoder may have rendered the page.
Instants == {t \in now .. now + elapsed : (t - now) % Tick = 0}

ReadPage ==
    /\ FetchReturns
    /\ Accepted
    /\ response.body > 0
    /\ \E seen \in Instants : \E doc \in Renderings(seen) : Open(doc)
    /\ Forget
    /\ UNCHANGED page

Transfer == TransferNext /\ UNCHANGED <<page, parserVars>>

Parse == ParserNext /\ UNCHANGED <<page, transferVars>>

\* A POST is made only with a webhook's url (discord_client.cpp:48-52).
Init ==
    /\ page \in InitialPages
    /\ TransferInit
    /\ post => CanRequest(FALSE)
    /\ ParserInit

Next == Transfer \/ NothingToRead \/ ReadPage \/ Parse

(***************************************************************************)
(* Time passes, libcurl ends a request whose time is up, and the process    *)
(* goes on with what it has (NothingToRead is possible whenever ReadPage    *)
(* is).  Nothing is assumed of the servers.                                *)
(***************************************************************************)
Fairness ==
    /\ WF_vars(Wait /\ UNCHANGED <<page, parserVars>>)
    /\ WF_vars(TimedOut /\ UNCHANGED <<page, parserVars>>)
    /\ WF_vars(NothingToRead)
    /\ WF_vars(Parse)

Spec == Init /\ [][Next]_vars /\ Fairness

-----------------------------------------------------------------------------
(* Properties.                                                             *)

Returned == phase = "done" /\ (post \/ place = "done")

\* A request ends, whatever the server does: with fetch, send and the database
\* the loop never hangs (its fairness rests on this).
RequestEnds == <>Returned

Shown ==
    {RowContest(row) : row \in {r \in {DailyRows[i] : i \in DOMAIN DailyRows} : Readable(r)}}

\* The page shows two schedules of a contest, which leaves open what its schedule
\* is: what comes of that is ConflictsDropped.
Contradictory == \E c, d \in Shown : c.id = d.id /\ c # d

\* A reading to compare with the page.  One during which memory ran out
\* unnoticed (`lost`) is not.
Faithful == document = None \/ (~lost /\ ~Contradictory)

\* What the caller has got.
Got ==
    IF ~Returned THEN None
    ELSE IF post
         THEN [result    |-> Classify([transportSucceeded |-> ~response.failed,
                                       status             |-> response.status]),
               delivered |-> delivered]
         ELSE IF Faithful THEN result ELSE None

Answers == INSTANCE RequestAnswers
    WITH page <- page, post <- post, now <- now, answer <- Got

\* What the loop is given is what RequestAnswers promises it: a page read in
\* part is flagged, today's contest is seen whichever section it is in, a contest
\* that starts while the page is on its way is not an upcoming one, and an
\* unanswered POST is never taken for a decided one.
ImplementsAnswers == Answers!RequestSpec

\* The types of the transfer, of the parser and of the page.
TypeOK ==
    /\ TransferTypeOK
    /\ ParserTypeOK
    /\ page \in [Ids -> Slots \cup {None}]
=============================================================================
