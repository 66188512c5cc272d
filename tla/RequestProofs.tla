--------------------------- MODULE RequestProofs ---------------------------
(***************************************************************************)
(* The safety of a request, for pages, pieces, limits and servers of any    *)
(* kind.  The invariant of the transfer says that until the end the whole   *)
(* of what was offered is held; the one of the parser is the loop invariant *)
(* of the duplicate check.                                                 *)
(***************************************************************************)
EXTENDS ServiceRequests, SequenceTheorems, TLAPS

\* What libcurl has taken, and what the response says at the end.
TransferInductive ==
    /\ offered \in Nat
    /\ body \in Nat
    /\ BodyBounded
    /\ phase # "done" => body = offered
    /\ CompleteOrError

\* `kept` has one row of every id among `rows`, and `dropped` the ids of
\* different rows.
Deduplicated(rows, kept, dropped) ==
    /\ kept \subseteq rows
    /\ \A c \in rows : \E d \in kept : d.id = c.id
    /\ \A c, d \in kept : c.id = d.id => c = d
    /\ dropped = {c.id : c \in {e \in rows : \E d \in rows : d.id = e.id /\ d # e}}

\* The candidates before the one at `index`.
Before == {candidates[i] : i \in 1 .. (index - 1)}

ParserInductive ==
    /\ index \in Nat \ {0}
    /\ candidates \in Seq(Candidates)
    /\ {"contests", "hasInvalidAbcRows", "tableFound"} \subseteq DOMAIN result
    /\ place = "idle" => ~result.tableFound
    /\ place \in {"idle", "upcoming", "daily"} => deduplicated = {} /\ conflictingIds = {}
    /\ place = "deduplicate" =>
          /\ index <= Len(candidates) + 1
          /\ Deduplicated(Before, deduplicated, conflictingIds)
    /\ ConflictsDropped

-----------------------------------------------------------------------------
(* The transfer.                                                           *)

\* A failed response claims nothing.
LEMMA FailedResponses == FailedResponse.failed
BY DEF FailedResponse, NoResponse

\* The limit of a request is a number.
LEMMA LimitIsNatural == maxBytes \in Nat
BY TransferAssumption DEF maxBytes

\* Every step of a transfer keeps its invariant.
LEMMA TransferStep ==
    ASSUME TransferInductive, TransferNext
    PROVE  TransferInductive'
<1> USE DEF TransferInductive, BodyBounded, CompleteOrError
<1>1. CASE SetupFails
  BY <1>1, FailedResponses DEF SetupFails, maxBytes
<1>2. CASE Break
  BY <1>2, FailedResponses DEF Break, Fail, maxBytes
<1>3. CASE Wait
  BY <1>3 DEF Wait, maxBytes
<1>4. CASE TimedOut
  BY <1>4, FailedResponses DEF TimedOut, Fail, maxBytes
<1>5. CASE Redirect
  BY <1>5, FailedResponses DEF Redirect, Fail, Follow, maxBytes
<1>6. CASE Answer
  BY <1>6 DEF Answer, maxBytes
<1>7. CASE Piece
  <2>1. PICK piece \in Pieces : Receive(piece)
    BY <1>7 DEF Piece
  <2>2. piece \in Nat /\ post' = post
    BY <2>1, TransferAssumption DEF Receive, Fail
  <2>3. CASE Fits(piece)
    <3>1. piece <= maxBytes - body
      BY <2>3, LimitIsNatural DEF Fits
    <3>2. /\ offered' = offered + piece
          /\ body' = body + piece
          /\ phase' = "receiving"
      BY <1>7, <2>1, <2>3 DEF Receive, Piece
    <3>3. body' <= maxBytes
      BY <2>2, <3>1, <3>2, LimitIsNatural
    <3>4. maxBytes' = maxBytes
      BY <2>2 DEF maxBytes
    <3> QED
      BY <1>7, <2>2, <3>2, <3>3, <3>4 DEF Piece
  <2>4. CASE ~Fits(piece)
    BY <2>1, <2>2, <2>4, FailedResponses DEF Receive, Fail, maxBytes
  <2> QED
    BY <2>3, <2>4
<1>8. CASE Complete
  BY <1>8, FailedResponses DEF Complete, maxBytes
<1> QED
  BY <1>1, <1>2, <1>3, <1>4, <1>5, <1>6, <1>7, <1>8 DEF TransferNext

\* So does every step of the two requests.
LEMMA RequestStepOfTransfer ==
    ASSUME TransferInductive, [Next]_vars
    PROVE  TransferInductive'
<1> USE DEF TransferInductive, BodyBounded, CompleteOrError
<1>1. CASE Transfer
  BY <1>1, TransferStep DEF Transfer
<1>2. CASE NothingToRead
  BY <1>2 DEF NothingToRead, transferVars, maxBytes
<1>3. CASE ReadPage
  <2>1. /\ offered' = 0 /\ body' = 0
        /\ phase' = phase /\ phase = "done"
        /\ response' = NoResponse
        /\ expected' = TRUE
        /\ post' = post
    BY <1>3 DEF ReadPage, Forget, FetchReturns
  <2>2. response'.body = 0
    BY <2>1 DEF NoResponse
  <2>3. maxBytes' \in Nat
    BY <2>1, LimitIsNatural DEF maxBytes
  <2> QED
    BY <2>1, <2>2, <2>3
<1>4. CASE Parse
  BY <1>4 DEF Parse, transferVars, maxBytes
<1>5. CASE UNCHANGED vars
  BY <1>5 DEF vars, transferVars, maxBytes
<1> QED
  BY <1>1, <1>2, <1>3, <1>4, <1>5 DEF Next

\* A request starts with nothing received.
LEMMA InitOfTransfer == Init => TransferInductive
BY LimitIsNatural
   DEF Init, TransferInit, TransferInductive, BodyBounded, CompleteOrError

\* The transfer's invariant always holds.
LEMMA TransferAlways == Spec => []TransferInductive
BY InitOfTransfer, RequestStepOfTransfer, PTL DEF Spec

\* The process never holds more of an answer than the limit of the request,
\* whatever the limits and the sizes of the pieces (http_client.cpp:33-42).
THEOREM BodiesBounded == Spec => []BodyBounded
<1>1. TransferInductive => BodyBounded
  BY DEF TransferInductive
<1> QED
  BY <1>1, TransferAlways, PTL

\* A response without an error is the whole of what the server sent, from the
\* expected host (http_client.cpp:102-119).
THEOREM CompleteOrFailed == Spec => []CompleteOrError
<1>1. TransferInductive => CompleteOrError
  BY DEF TransferInductive
<1> QED
  BY <1>1, TransferAlways, PTL

-----------------------------------------------------------------------------
(* The parser.                                                             *)

\* A sequence is one over the set of its elements.
LEMMA OverItsElements ==
    ASSUME NEW S, NEW s \in Seq(S)
    PROVE  s \in Seq({s[i] : i \in DOMAIN s})
<1> DEFINE R == {s[i] : i \in DOMAIN s}
<1>1. Len(s) \in Nat /\ s \in [1 .. Len(s) -> S] /\ DOMAIN s = 1 .. Len(s)
  BY LenProperties
<1>2. s \in [1 .. Len(s) -> R]
  BY <1>1
<1> HIDE DEF R
<1>3. s \in UNION {[1 .. n -> R] : n \in Nat}
  BY <1>1, <1>2
<1>4. s \in Seq(R)
  BY <1>3, SeqDef
<1> QED
  BY <1>4 DEF R

\* One more element.
LEMMA OneMore ==
    ASSUME NEW S, NEW s \in Seq(S), NEW c, NEW t, t = Append(s, c)
    PROVE  t \in Seq({t[i] : i \in DOMAIN t})
<1>1. s \in Seq(S \cup {c})
  BY SeqMonotonic
<1>2. t \in Seq(S \cup {c})
  BY <1>1
<1> QED
  BY <1>2, OverItsElements

\* Nothing has no duplicates.
LEMMA NothingDeduplicated == Deduplicated({}, {}, {})
BY DEF Deduplicated

\* The body of the loop over the candidates: one more row.
LEMMA OneMoreRow ==
    ASSUME NEW rows, NEW kept, NEW dropped, NEW row, Deduplicated(rows, kept, dropped),
           NEW existing, existing = {c \in kept : c.id = row.id}
    PROVE  Deduplicated(rows \cup {row},
                        IF existing = {} THEN kept \cup {row} ELSE kept,
                        dropped \cup {c.id : c \in existing \ {row}})
<1> DEFINE rows1 == rows \cup {row}
           kept1 == IF existing = {} THEN kept \cup {row} ELSE kept
           dropped1 == dropped \cup {c.id : c \in existing \ {row}}
           Clash(R) == {c.id : c \in {e \in R : \E d \in R : d.id = e.id /\ d # e}}
<1>1. kept1 \subseteq rows1
  BY DEF Deduplicated
<1>2. \A c \in rows1 : \E d \in kept1 : d.id = c.id
  BY DEF Deduplicated
<1>3. \A c, d \in kept1 : c.id = d.id => c = d
  BY DEF Deduplicated
<1>4. dropped1 \subseteq Clash(rows1)
  <2> SUFFICES ASSUME NEW id \in dropped1
               PROVE  id \in Clash(rows1)
    OBVIOUS
  <2>1. CASE id \in dropped
    <3>1. PICK e \in rows : id = e.id /\ \E d \in rows : d.id = e.id /\ d # e
      BY <2>1 DEF Deduplicated
    <3> QED
      BY <3>1
  <2>2. CASE id \in {c.id : c \in existing \ {row}}
    <3>1. PICK c \in kept : id = c.id /\ c.id = row.id /\ c # row
      BY <2>2
    <3>2. c \in rows
      BY DEF Deduplicated
    <3> QED
      BY <3>1, <3>2
  <2> QED
    BY <2>1, <2>2
<1>5. Clash(rows1) \subseteq dropped1
  <2> SUFFICES ASSUME NEW id \in Clash(rows1)
               PROVE  id \in dropped1
    OBVIOUS
  <2>1. PICK e \in rows1 : id = e.id /\ \E d \in rows1 : d.id = e.id /\ d # e
    OBVIOUS
  <2>2. PICK d \in rows1 : d.id = e.id /\ d # e
    BY <2>1
  <2>3. CASE e \in rows /\ d \in rows
    BY <2>1, <2>2, <2>3 DEF Deduplicated
  <2>4. CASE ~(e \in rows /\ d \in rows)
    <3>1. PICK c \in rows : c.id = row.id /\ c # row /\ row.id = id
      BY <2>1, <2>2, <2>4
    <3>2. PICK k \in kept : k.id = c.id
      BY DEF Deduplicated
    <3>3. CASE k = row
      <4>1. row \in rows
        BY <3>3 DEF Deduplicated
      <4> QED
        BY <3>1, <4>1 DEF Deduplicated
    <3>4. CASE k # row
      BY <3>1, <3>2, <3>4
    <3> QED
      BY <3>3, <3>4
  <2> QED
    BY <2>3, <2>4
<1> QED
  BY <1>1, <1>2, <1>3, <1>4, <1>5 DEF Deduplicated

\* Dropping the ids of different rows leaves the rows that no other contradicts.
LEMMA WhatIsLeft ==
    ASSUME NEW rows, NEW kept, NEW dropped, Deduplicated(rows, kept, dropped)
    PROVE  /\ {c \in kept : c.id \notin dropped}
                = {c \in rows : ~(\E d, e \in rows : d.id = c.id /\ e.id = c.id /\ d # e)}
           /\ (\E c \in rows : \E d, e \in rows : d.id = c.id /\ e.id = c.id /\ d # e)
                => dropped # {}
<1>1. ASSUME NEW c \in kept, c.id \notin dropped,
             NEW d \in rows, NEW e \in rows, d.id = c.id, e.id = c.id, d # e
      PROVE  FALSE
  BY <1>1 DEF Deduplicated
<1>2. ASSUME NEW c \in rows, ~(\E d, e \in rows : d.id = c.id /\ e.id = c.id /\ d # e)
      PROVE  c \in kept /\ c.id \notin dropped
  <2>1. PICK k \in kept : k.id = c.id
    BY DEF Deduplicated
  <2>2. k \in rows
    BY DEF Deduplicated
  <2>3. k = c
    BY <1>2, <2>1, <2>2
  <2>4. c.id \notin dropped
    <3> SUFFICES ASSUME c.id \in dropped
                 PROVE  FALSE
      OBVIOUS
    <3>1. PICK e \in rows : c.id = e.id /\ \E d \in rows : d.id = e.id /\ d # e
      BY DEF Deduplicated
    <3> QED
      BY <1>2, <3>1
  <2> QED
    BY <2>3, <2>4
<1>3. ASSUME NEW c \in rows, NEW d \in rows, NEW e \in rows,
             d.id = c.id, e.id = c.id, d # e
      PROVE  dropped # {}
  BY <1>3 DEF Deduplicated
<1>4. kept \subseteq rows
  BY DEF Deduplicated
<1> QED
  BY <1>1, <1>2, <1>3, <1>4

\* Every step of the parser keeps its invariant.
LEMMA ParserStep ==
    ASSUME ParserInductive, ParserNext
    PROVE  ParserInductive'
<1> USE DEF ParserInductive
<1>1. CASE ReadUpcoming
  <2>1. /\ place = "upcoming" /\ place' = place
        /\ index' = index + 1
        /\ deduplicated' = deduplicated /\ conflictingIds' = conflictingIds
    BY <1>1 DEF ReadUpcoming
  <2>2. PICK row \in parseRow(document.upcoming[index], now) :
          /\ candidates' = IF row.contest = None THEN candidates
                           ELSE Append(candidates, row.contest)
          /\ result' = Flagged(row.invalid)
    BY <1>1 DEF ReadUpcoming
  <2>3. candidates' \in Seq(Candidates')
    BY <2>2, OneMore DEF Candidates
  <2>4. DOMAIN result' = DOMAIN result
    BY <2>2 DEF Flagged
  <2> QED
    BY <2>1, <2>3, <2>4 DEF ConflictsDropped
<1>2. CASE CheckTables
  <2>1. /\ place = "upcoming" /\ place' = "daily"
        /\ index' = 1
        /\ candidates' = candidates
        /\ deduplicated' = deduplicated /\ conflictingIds' = conflictingIds
    BY <1>2 DEF CheckTables
  <2>2. DOMAIN result' = DOMAIN result
    BY <1>2 DEF CheckTables, Flagged
  <2> QED
    BY <2>1, <2>2 DEF ConflictsDropped, Candidates
<1>3. CASE ReadDaily
  <2>1. /\ place = "daily" /\ place' = place
        /\ index' = index + 1
        /\ candidates' = candidates
        /\ deduplicated' = deduplicated /\ conflictingIds' = conflictingIds
    BY <1>3 DEF ReadDaily
  <2>2. DOMAIN result' = DOMAIN result
    BY <1>3 DEF ReadDaily, Flagged
  <2> QED
    BY <2>1, <2>2 DEF ConflictsDropped, Candidates
<1>4. CASE LeaveDaily
  <2>1. /\ place = "daily" /\ place' = "deduplicate"
        /\ index' = 1
        /\ candidates' = candidates
        /\ deduplicated' = deduplicated /\ conflictingIds' = conflictingIds
    BY <1>4 DEF LeaveDaily
  <2>2. DOMAIN result' = DOMAIN result
    BY <1>4 DEF LeaveDaily, Flagged
  <2>3. Before' = {} /\ index' <= Len(candidates') + 1
    BY <2>1, LenProperties DEF Before
  <2>4. Deduplicated(Before', deduplicated', conflictingIds')
    BY <2>1, <2>3, NothingDeduplicated
  <2>5. candidates' \in Seq(Candidates')
    BY <2>1 DEF Candidates
  <2>6. ConflictsDropped'
    BY <2>1 DEF ConflictsDropped
  <2> QED
    BY <2>1, <2>2, <2>3, <2>4, <2>5, <2>6
<1>5. CASE Deduplicate
  <2>1. /\ place = "deduplicate" /\ place' = place
        /\ index <= Len(candidates) /\ index' = index + 1
        /\ candidates' = candidates /\ result' = result
    BY <1>5 DEF Deduplicate
  <2>2. Before' = Before \cup {candidates[index]}
    BY <2>1 DEF Before
  <2>3. Deduplicated(Before', deduplicated', conflictingIds')
    <3>1. Deduplicated(Before, deduplicated, conflictingIds)
      BY <2>1
    <3>2. Existing = {c \in deduplicated : c.id = candidates[index].id}
      BY DEF Existing
    <3>3. Deduplicated(Before \cup {candidates[index]},
                       IF Existing = {} THEN deduplicated \cup {candidates[index]}
                       ELSE deduplicated,
                       conflictingIds \cup {c.id : c \in Existing \ {candidates[index]}})
      BY <3>1, <3>2, OneMoreRow
    <3>4. /\ deduplicated' = IF Existing = {} THEN deduplicated \cup {candidates[index]}
                             ELSE deduplicated
          /\ conflictingIds' = conflictingIds
                                  \cup {c.id : c \in Existing \ {candidates[index]}}
      BY <1>5 DEF Deduplicate
    <3> QED
      BY <2>2, <3>3, <3>4
  <2>4. index' <= Len(candidates') + 1
    BY <2>1, LenProperties
  <2> QED
    BY <2>1, <2>3, <2>4 DEF ConflictsDropped, Candidates
<1>6. CASE Finish
  <2>1. /\ place = "deduplicate" /\ place' = "done"
        /\ index > Len(candidates) /\ index' = index
        /\ candidates' = candidates
    BY <1>6 DEF Finish
  <2>2. Before = Candidates
    <3>1. Len(candidates) \in Nat /\ DOMAIN candidates = 1 .. Len(candidates)
      BY LenProperties
    <3>2. 1 .. (index - 1) = DOMAIN candidates
      BY <2>1, <3>1
    <3> QED
      BY <3>2 DEF Before, Candidates
  <2>3. Deduplicated(Candidates, deduplicated, conflictingIds)
    BY <2>1, <2>2
  <2>4. /\ DOMAIN result' = DOMAIN result
        /\ result'.contests = {c \in deduplicated : c.id \notin conflictingIds}
        /\ conflictingIds # {} => result'.hasInvalidAbcRows
    BY <1>6 DEF Finish, Flagged
  <2>5. ConflictsDropped'
    BY <2>1, <2>3, <2>4, WhatIsLeft DEF ConflictsDropped, Conflicting, Candidates
  <2> QED
    BY <2>1, <2>4, <2>5 DEF Candidates
<1> QED
  BY <1>1, <1>2, <1>3, <1>4, <1>5, <1>6 DEF ParserNext

\* So does every step of the two requests.
LEMMA RequestStepOfParser ==
    ASSUME ParserInductive, [Next]_vars
    PROVE  ParserInductive'
<1> USE DEF ParserInductive
<1>1. CASE UNCHANGED parserVars
  BY <1>1 DEF parserVars, Before, Candidates, ConflictsDropped, Conflicting
<1>2. CASE NothingToRead
  <2>1. /\ place = "idle" /\ place' = "done"
        /\ UNCHANGED <<index, candidates, deduplicated, conflictingIds, result>>
    BY <1>2 DEF NothingToRead, FetchReturns, Unreadable
  <2> QED
    BY <2>1 DEF Before, Candidates, ConflictsDropped
<1>3. CASE ReadPage
  <2>1. PICK doc : Open(doc)
    BY <1>3 DEF ReadPage
  <2>2. /\ place = "idle" /\ place' = "upcoming"
        /\ UNCHANGED <<index, candidates, deduplicated, conflictingIds>>
        /\ result' = Parsed({}, FALSE, FALSE)
    BY <1>3, <2>1 DEF ReadPage, FetchReturns, Open
  <2>3. {"contests", "hasInvalidAbcRows", "tableFound"} \subseteq DOMAIN result'
    BY <2>2 DEF Parsed
  <2> QED
    BY <2>2, <2>3 DEF Candidates, ConflictsDropped
<1>4. CASE Parse
  BY <1>4, ParserStep DEF Parse
<1> QED
  BY <1>1, <1>2, <1>3, <1>4 DEF Next, Transfer, vars

\* The parser starts with nothing.
LEMMA InitOfParser == Init => ParserInductive
<1> SUFFICES ASSUME Init
             PROVE  ParserInductive
  OBVIOUS
<1>1. /\ place = "idle" /\ index = 1 /\ candidates = <<>>
      /\ deduplicated = {} /\ conflictingIds = {} /\ result = NoTable
  BY DEF Init, ParserInit
<1>2. candidates \in Seq(Candidates)
  BY <1>1, EmptySeq
<1>3. /\ {"contests", "hasInvalidAbcRows", "tableFound"} \subseteq DOMAIN result
      /\ ~result.tableFound
  BY <1>1 DEF NoTable
<1> QED
  BY <1>1, <1>2, <1>3 DEF ParserInductive, ConflictsDropped

\* The parser's invariant always holds.
LEMMA ParserAlways == Spec => []ParserInductive
BY InitOfParser, RequestStepOfParser, PTL DEF Spec

\* Whatever the rows and their order: a contest is reported exactly if its rows
\* agree, and rows that do not agree are flagged (atcoder_html_parser.cpp:267-294).
THEOREM ConflictsAreDropped == Spec => []ConflictsDropped
<1>1. ParserInductive => ConflictsDropped
  BY DEF ParserInductive
<1> QED
  BY <1>1, ParserAlways, PTL
=============================================================================
