---------------------------- MODULE AnswerProofs -----------------------------
(***************************************************************************)
(* A request gives its caller what RequestAnswers promises the main loop:   *)
(* the types, and the refinement, for pages with any number of contests,    *)
(* damaged or listed twice, and any outcome of the transfer.               *)
(***************************************************************************)
EXTENDS ReadingProofs, FiniteSetTheorems

ContestRecords == [id : Ids, startTime : Int, endTime : Int]

\* What ParseResult may be when its contests are among `contests`.
Results(contests) ==
    [tableFound : BOOLEAN, contests : SUBSET contests,
     hasInvalidAbcRows : BOOLEAN, hasAbcToday : BOOLEAN]

-----------------------------------------------------------------------------
(* Types.                                                                  *)

\* A request starts with numbers in their ranges.
LEMMA TransferInitTyped == TransferInit => TransferTypeOK
<1> SUFFICES ASSUME TransferInit
             PROVE  TransferTypeOK
  OBVIOUS
<1>1. NoResponse \in [failed : BOOLEAN, status : HttpStatuses \cup {0}, body : Nat]
  BY DEF NoResponse
<1>2. 0 \in 0 .. RequestTimeout /\ 0 \in 0 .. MaxRedirects
  BY TransferAssumption
<1> QED BY <1>1, <1>2 DEF TransferInit, TransferTypeOK

\* And keeps them there.
LEMMA TransferStepTyped ==
    ASSUME TransferTypeOK, TransferNext
    PROVE  TransferTypeOK'
<1> USE DEF TransferTypeOK
<1> DEFINE Responses == [failed : BOOLEAN, status : HttpStatuses \cup {0}, body : Nat]
<1>1. FailedResponse \in Responses
  BY DEF FailedResponse, NoResponse
<1>2. ASSUME Fail
      PROVE  /\ phase' = "done" /\ response' \in Responses /\ delivered' \in BOOLEAN
             /\ UNCHANGED <<post, redirects, expected, status>>
  BY <1>1, <1>2 DEF Fail
<1> HIDE DEF Responses
<1>3. CASE SetupFails
  BY <1>1, <1>3 DEF SetupFails, Responses
<1>4. CASE Break
  BY <1>2, <1>4 DEF Break, Responses
<1>5. CASE Wait
  BY <1>5, TransferAssumption DEF Wait
<1>6. CASE TimedOut
  BY <1>2, <1>6 DEF TimedOut, Responses
<1>7. CASE Redirect
  <2>1. UNCHANGED <<elapsed, offered, body>>
    BY <1>7 DEF Redirect
  <2>2. CASE redirects = MaxRedirects
    BY <1>2, <1>7, <2>1, <2>2 DEF Redirect, Responses
  <2>3. CASE redirects # MaxRedirects
    <3>1. redirects + 1 \in 0 .. MaxRedirects
      BY <2>3, TransferAssumption
    <3> QED BY <1>7, <2>1, <2>3, <3>1 DEF Redirect, Follow
  <2> QED BY <2>2, <2>3
<1>8. CASE Answer
  BY <1>8 DEF Answer
<1>9. CASE Piece
  <2>1. PICK piece \in Pieces : Receive(piece)
    BY <1>9 DEF Piece
  <2>2. piece \in Nat
    BY TransferAssumption
  <2>3. UNCHANGED elapsed
    BY <1>9 DEF Piece
  <2>4. offered' \in Nat
    BY <2>1, <2>2 DEF Receive
  <2>5. CASE Fits(piece)
    BY <2>1, <2>2, <2>3, <2>4, <2>5 DEF Receive
  <2>6. CASE ~Fits(piece)
    BY <1>2, <2>1, <2>3, <2>4, <2>6 DEF Receive, Responses
  <2> QED BY <2>5, <2>6
<1>10. CASE Complete
  <2>1. response' \in Responses
    BY <1>1, <1>10 DEF Complete, Responses
  <2> QED BY <1>10, <2>1 DEF Complete, Responses
<1> QED
  BY <1>3, <1>4, <1>5, <1>6, <1>7, <1>8, <1>9, <1>10 DEF TransferNext

\* ReadPage clears the response.
LEMMA ForgetTyped ==
    ASSUME TransferTypeOK, Forget
    PROVE  TransferTypeOK'
<1>1. NoResponse \in [failed : BOOLEAN, status : HttpStatuses \cup {0}, body : Nat]
  BY DEF NoResponse
<1>2. 0 \in 0 .. RequestTimeout /\ 0 \in 0 .. MaxRedirects
  BY TransferAssumption
<1> QED BY <1>1, <1>2 DEF TransferTypeOK, Forget

\* Setting the flag changes nothing else.
LEMMA FlaggedTyped ==
    ASSUME NEW contests, result \in Results(contests), NEW flag \in BOOLEAN
    PROVE  /\ Flagged(flag) \in Results(contests)
           /\ Flagged(flag).tableFound = result.tableFound
           /\ Flagged(flag).contests = result.contests
           /\ Flagged(flag).hasAbcToday = result.hasAbcToday
BY DEF Flagged, Results

\* What parseRow returns: a record or nothing, and two flags.
LEMMA RowOutcomesTyped ==
    ASSUME NEW row \in Rows, NEW since, NEW r \in parseRow(row, since)
    PROVE  /\ r.contest \in ContestRecords \cup {None}
           /\ r.invalid \in BOOLEAN /\ r.lost \in BOOLEAN
<1>1. Readable(row) => RowContest(row) \in ContestRecords
  BY ReadableContest DEF ContestRecords
<1>2. Recognized(row) \in BOOLEAN
  BY DEF Recognized
<1>3. CASE r = [contest |-> IF Readable(row) /\ RowContest(row).startTime > since
                            THEN RowContest(row) ELSE None,
                invalid |-> Recognized(row) /\ ~Readable(row),
                lost    |-> FALSE]
  BY <1>1, <1>3
<1>4. CASE r = [contest |-> None, invalid |-> TRUE, lost |-> FALSE]
  BY <1>4
<1>5. CASE r = [contest |-> None, invalid |-> FALSE, lost |-> Recognized(row)]
  BY <1>2, <1>5
<1> QED BY <1>3, <1>4, <1>5 DEF parseRow

\* The parser starts with nothing.
LEMMA ParserInitTyped == ParserInit => ParserTypeOK
<1> SUFFICES ASSUME ParserInit
             PROVE  ParserTypeOK
  OBVIOUS
<1>1. candidates \in Seq([id : Ids, startTime : Int, endTime : Int])
  BY EmptySeq DEF ParserInit
<1>2. result \in [tableFound : BOOLEAN, contests : SUBSET Candidates,
                  hasInvalidAbcRows : BOOLEAN, hasAbcToday : BOOLEAN]
  BY DEF ParserInit, NoTable
<1>3. index \in Nat \ {0}
  BY SMT DEF ParserInit
<1>4. lost \in BOOLEAN
  BY Zenon DEF ParserInit
<1>5. deduplicated \subseteq Candidates /\ conflictingIds \subseteq Ids
  BY DEF ParserInit
<1>6. now \in RequestTimes /\ place \in {"idle", "upcoming", "daily", "deduplicate", "done"}
  BY DEF ParserInit
<1> QED BY <1>1, <1>2, <1>3, <1>4, <1>5, <1>6 DEF ParserTypeOK

\* And keeps the types, candidate by candidate.
LEMMA ParserStepTyped ==
    ASSUME ParserTypeOK, ParserInductive, ReadingInductive, ParserNext
    PROVE  ParserTypeOK'
<1>1. /\ now \in RequestTimes
      /\ index \in Nat \ {0}
      /\ candidates \in Seq(ContestRecords)
      /\ deduplicated \subseteq Candidates
      /\ conflictingIds \subseteq Ids
      /\ result \in Results(Candidates)
      /\ lost \in BOOLEAN
  BY DEF ParserTypeOK, ContestRecords, Results
<1>2. place \in {"upcoming", "daily", "deduplicate"} => document \in Documents
  BY DEF ReadingInductive
<1>3. SUFFICES /\ now' = now
               /\ place' \in {"idle", "upcoming", "daily", "deduplicate", "done"}
               /\ index' \in Nat \ {0}
               /\ candidates' \in Seq(ContestRecords)
               /\ deduplicated' \subseteq Candidates'
               /\ conflictingIds' \subseteq Ids
               /\ result' \in Results(Candidates')
               /\ lost' \in BOOLEAN
  BY <1>1 DEF ParserTypeOK, ContestRecords, Results
<1>4. Candidates \subseteq ContestRecords
  BY <1>1 DEF Candidates
<1>5. CASE ReadUpcoming
  <2> DEFINE next == document.upcoming[index]
  <2>1. PICK row \in parseRow(next, now) :
          /\ candidates' = IF row.contest = None THEN candidates
                           ELSE Append(candidates, row.contest)
          /\ result' = Flagged(row.invalid)
          /\ lost' = (lost \/ row.lost)
    BY <1>5 DEF ReadUpcoming
  <2>2. next \in Rows
    BY <1>1, <1>2, <1>5, DocumentRows DEF ReadUpcoming
  <2>3. row.contest \in ContestRecords \cup {None} /\ row.invalid \in BOOLEAN
        /\ row.lost \in BOOLEAN
    BY <2>1, <2>2, RowOutcomesTyped
  <2>4. candidates' \in Seq(ContestRecords)
    BY <1>1, <2>1, <2>3, AppendProperties
  <2>5. Candidates \subseteq Candidates'
    <3>1. candidates \in Seq(Candidates)
      BY DEF ParserInductive
    <3>2. CASE row.contest = None
      BY <2>1, <3>2 DEF Candidates
    <3>3. CASE row.contest # None
      <4>1. {candidates'[i] : i \in DOMAIN candidates'}
              = {candidates[i] : i \in DOMAIN candidates} \cup {row.contest}
        BY <2>1, <3>1, <3>3, CandidateAppended
      <4> QED BY <4>1 DEF Candidates
    <3> QED BY <3>2, <3>3
  <2>6. result' \in Results(Candidates)
    BY <1>1, <2>1, <2>3, FlaggedTyped
  <2>7. result' \in Results(Candidates')
    BY <2>5, <2>6 DEF Results
  <2> QED BY <1>1, <1>5, <2>1, <2>3, <2>4, <2>5, <2>7 DEF ReadUpcoming
<1>6. CASE CheckTables
  <2>1. PICK evaluated \in BOOLEAN :
          result' = Flagged(~evaluated \/ document.tables # 2)
    BY <1>6 DEF CheckTables
  <2>2. result' \in Results(Candidates)
    BY <1>1, <2>1, FlaggedTyped
  <2>3. Candidates' = Candidates
    BY <1>6 DEF CheckTables, Candidates
  <2> QED BY <1>1, <1>6, <2>2, <2>3 DEF CheckTables
<1>7. CASE ReadDaily
  <2> DEFINE next == DailyRows[index]
  <2>1. PICK row \in parseRow(next, BeforeToday) :
          /\ result' = [Flagged(row.invalid) EXCEPT
                           !.hasAbcToday = @ \/ (row.contest # None
                               /\ jstDateKey(row.contest.startTime) = jstDateKey(now))]
          /\ lost' = (lost \/ row.lost)
    BY <1>7 DEF ReadDaily
  <2>2. next \in Rows
    BY <1>1, <1>2, <1>7, DocumentRows DEF ReadDaily
  <2>3. row.invalid \in BOOLEAN /\ row.lost \in BOOLEAN
    BY <2>1, <2>2, RowOutcomesTyped
  <2>4. Flagged(row.invalid) \in Results(Candidates)
    BY <1>1, <2>3, FlaggedTyped
  <2>5. result' \in Results(Candidates)
    BY <2>1, <2>4 DEF Results
  <2>6. Candidates' = Candidates
    BY <1>7 DEF ReadDaily, Candidates
  <2> QED BY <1>1, <1>7, <2>1, <2>3, <2>5, <2>6 DEF ReadDaily
<1>8. CASE LeaveDaily
  <2>1. result' \in Results(Candidates)
    BY <1>1, <1>8, FlaggedTyped DEF LeaveDaily
  <2>2. Candidates' = Candidates
    BY <1>8 DEF LeaveDaily, Candidates
  <2> QED BY <1>1, <1>8, <2>1, <2>2 DEF LeaveDaily
<1>9. CASE Deduplicate
  <2>1. Candidates' = Candidates
    BY <1>9 DEF Deduplicate, Candidates
  <2>2. candidates[index] \in Candidates
    <3>1. index \in 1 .. Len(candidates) /\ DOMAIN candidates = 1 .. Len(candidates)
      BY <1>1, <1>9, LenProperties DEF Deduplicate
    <3> QED BY <3>1 DEF Candidates
  <2>3. {c.id : c \in Existing \ {candidates[index]}} \subseteq Ids
    BY <1>1, <1>4 DEF Existing, ContestRecords
  <2> QED BY <1>1, <1>9, <2>1, <2>2, <2>3 DEF Deduplicate
<1>10. CASE Finish
  <2>1. Flagged(conflictingIds # {}) \in Results(Candidates)
    BY <1>1, FlaggedTyped
  <2>2. {c \in deduplicated : c.id \notin conflictingIds} \subseteq Candidates
    BY <1>1
  <2>3. result' \in Results(Candidates)
    BY <1>10, <2>1, <2>2 DEF Finish, Results
  <2>4. Candidates' = Candidates
    BY <1>10 DEF Finish, Candidates
  <2> QED BY <1>1, <1>10, <2>3, <2>4 DEF Finish
<1> QED BY <1>5, <1>6, <1>7, <1>8, <1>9, <1>10 DEF ParserNext

\* What the caller holds of the transfer and of the parser are only numbers,
\* flags and contests (http_client.hpp, atcoder_html_parser.hpp).
LEMMA RequestStepTyped ==
    ASSUME TypeOK, ParserInductive, ReadingInductive, [Next]_vars
    PROVE  TypeOK'
<1>1. TransferTypeOK /\ ParserTypeOK /\ page \in [Ids -> Slots \cup {None}]
  BY DEF TypeOK
<1>2. page' = page
  BY DEF Next, Transfer, NothingToRead, ReadPage, Parse, vars
<1>3. ASSUME UNCHANGED parserVars PROVE ParserTypeOK'
  BY <1>1, <1>3 DEF ParserTypeOK, parserVars, Candidates
<1>4. ASSUME UNCHANGED transferVars PROVE TransferTypeOK'
  BY <1>1, <1>4 DEF TransferTypeOK, transferVars
<1>5. CASE UNCHANGED vars
  BY <1>1, <1>3, <1>4, <1>5 DEF vars, TypeOK
<1>6. CASE Transfer
  BY <1>1, <1>2, <1>3, <1>6, TransferStepTyped DEF Transfer, TypeOK
<1>7. CASE NothingToRead
  <2>1. ParserTypeOK'
    BY <1>1, <1>7 DEF NothingToRead, Unreadable, ParserTypeOK, Candidates
  <2> QED BY <1>1, <1>2, <1>4, <1>7, <2>1 DEF NothingToRead, TypeOK
<1>8. CASE ReadPage
  <2>1. PICK doc : Open(doc)
    BY <1>8 DEF ReadPage
  <2>2. UNCHANGED <<now, index, candidates, deduplicated, conflictingIds, lost>>
        /\ place' = "upcoming" /\ result' = Parsed({}, FALSE, FALSE)
    BY <2>1 DEF Open
  <2>3. Candidates' = Candidates
    BY <2>2 DEF Candidates
  <2>4. result' \in [tableFound : BOOLEAN, contests : SUBSET Candidates',
                     hasInvalidAbcRows : BOOLEAN, hasAbcToday : BOOLEAN]
    BY <2>2 DEF Parsed
  <2>5. ParserTypeOK'
    BY <1>1, <2>2, <2>3, <2>4 DEF ParserTypeOK
  <2>6. TransferTypeOK'
    BY <1>1, <1>8, ForgetTyped DEF ReadPage
  <2> QED BY <1>1, <1>2, <2>5, <2>6 DEF TypeOK
<1>9. CASE Parse
  BY <1>1, <1>2, <1>4, <1>9, ParserStepTyped DEF Parse, TypeOK
<1> QED BY <1>5, <1>6, <1>7, <1>8, <1>9 DEF Next

\* The reading's invariant, with those it rests on.
LEMMA ReadingAlways == Spec => [](ParserInductive /\ ReadingInductive)
BY InitOfReading, RequestStepOfReading, ParserAlways, NowIsNumber, PTL DEF Spec

\* Whatever the page, the server and the pieces: the transfer stays within its
\* time and its redirects, and the result is made of rows' contests.
THEOREM RequestsTyped == Spec => []TypeOK
<1>1. Init => TypeOK
  BY TransferInitTyped, ParserInitTyped, PageAssumption DEF Init, TypeOK
<1> QED BY <1>1, RequestStepTyped, ReadingAlways, PTL DEF Spec

-----------------------------------------------------------------------------
(* The rows of a page.                                                     *)

InSection(section, seen) == {id \in Listed : SectionOf(id, seen) = section}

\* The choices among which AtCoder renders a page.
RowChoices ==
    {f \in [Listed -> UNION {RowPairs(id) : id \in Listed}] :
        \A id \in Listed : f[id] \in RowPairs(id)}

RowsOf(rows, ids) == {rows[id][1] : id \in ids} \cup {rows[id][2] : id \in ids}

\* The listed contests can be put in an order.
LEMMA OrderedCovers ==
    ASSUME NEW ids, ids \subseteq Ids
    PROVE  /\ Cardinality(ids) \in Nat
           /\ Ordered(ids) \in [1 .. Cardinality(ids) -> ids]
           /\ \A id \in ids : \E i \in 1 .. Cardinality(ids) : Ordered(ids)[i] = id
<1>1. IsFiniteSet(ids)
  BY PageAssumption, FS_Subset
<1>2. Cardinality(ids) \in Nat /\ ExistsBijection(1 .. Cardinality(ids), ids)
  BY <1>1, FS_CardinalityType
<1>3. PICK order \in Bijection(1 .. Cardinality(ids), ids) : TRUE
  BY <1>2 DEF ExistsBijection
<1>4. /\ order \in [1 .. Cardinality(ids) -> ids]
      /\ \A id \in ids : \E i \in DOMAIN order : order[i] = id
  BY <1>3 DEF Bijection, Surjection
<1>5. /\ Ordered(ids) \in [1 .. Cardinality(ids) -> ids]
      /\ \A id \in ids : \E i \in DOMAIN Ordered(ids) : Ordered(ids)[i] = id
  BY <1>4, Zenon DEF Ordered
<1> QED BY <1>2, <1>5

\* A section has the rows of its contests and no others.
LEMMA SectionRowsAre ==
    ASSUME NEW rows, NEW section, NEW seen
    PROVE  /\ SectionRows(rows, section, seen) \in Seq(RowsOf(rows, InSection(section, seen)))
           /\ Range(SectionRows(rows, section, seen)) = RowsOf(rows, InSection(section, seen))
<1> DEFINE ids == InSection(section, seen)
           order == Ordered(ids)
           firsts == [i \in DOMAIN order |-> rows[order[i]][1]]
           seconds == [i \in DOMAIN order |-> rows[order[i]][2]]
<1>1. ids \subseteq Ids
  BY DEF InSection, Listed
<1>2. PICK n \in Nat :
        /\ DOMAIN order = 1 .. n
        /\ \A i \in 1 .. n : order[i] \in ids
        /\ \A id \in ids : \E i \in 1 .. n : order[i] = id
  BY <1>1, OrderedCovers
<1>3. SectionRows(rows, section, seen) = firsts \o seconds
  BY DEF SectionRows, InSection
<1> HIDE DEF order
<1>4. /\ firsts \in Seq(RowsOf(rows, ids)) /\ seconds \in Seq(RowsOf(rows, ids))
      /\ DOMAIN firsts = 1 .. n /\ DOMAIN seconds = 1 .. n
  <2>1. \A i \in 1 .. n : /\ rows[order[i]][1] \in RowsOf(rows, ids)
                          /\ rows[order[i]][2] \in RowsOf(rows, ids)
    BY <1>2 DEF RowsOf
  <2> QED BY <1>2, <2>1
<1>5. Range(firsts) = {rows[id][1] : id \in ids}
  BY <1>2, <1>4 DEF Range
<1>6. Range(seconds) = {rows[id][2] : id \in ids}
  BY <1>2, <1>4 DEF Range
<1>7. Range(firsts \o seconds) = Range(firsts) \cup Range(seconds)
  BY <1>4, RangeConcatenation
<1>8. firsts \o seconds \in Seq(RowsOf(rows, ids))
  BY <1>4, ConcatProperties
<1> QED BY <1>3, <1>5, <1>6, <1>7, <1>8 DEF RowsOf

\* The sections share out the listed contests, so the three together have the
\* rows of all of them.
LEMMA PageRowsAre ==
    ASSUME NEW rows, NEW seen,
           document.upcoming = SectionRows(rows, "upcoming", seen),
           document.action = SectionRows(rows, "action", seen),
           document.recent = SectionRows(rows, "recent", seen)
    PROVE  /\ Range(document.upcoming) = RowsOf(rows, {id \in Listed : page[id][1] > seen})
           /\ Range(DailyRows) = RowsOf(rows, Listed)
<1>1. /\ InSection("upcoming", seen) = {id \in Listed : page[id][1] > seen}
      /\ InSection("upcoming", seen) \cup InSection("action", seen)
            \cup InSection("recent", seen) = Listed
  BY DEF InSection, SectionOf
<1>2. ASSUME NEW section \in {"upcoming", "action", "recent"}
      PROVE  /\ SectionRows(rows, section, seen) \in Seq(RowsOf(rows, Listed))
             /\ Range(SectionRows(rows, section, seen))
                  = RowsOf(rows, InSection(section, seen))
  <2>1. RowsOf(rows, InSection(section, seen)) \subseteq RowsOf(rows, Listed)
    BY DEF InSection, RowsOf
  <2>2. SectionRows(rows, section, seen) \in Seq(RowsOf(rows, InSection(section, seen)))
    BY SectionRowsAre
  <2>3. SectionRows(rows, section, seen) \in Seq(RowsOf(rows, Listed))
    BY <2>1, <2>2, SeqMonotonic
  <2> QED BY <2>3, SectionRowsAre
<1>3. Range(document.upcoming \o document.action)
        = Range(document.upcoming) \cup Range(document.action)
  BY <1>2, RangeConcatenation
<1>4. document.upcoming \o document.action \in Seq(RowsOf(rows, Listed))
  BY <1>2, ConcatProperties
<1>5. Range(DailyRows)
        = Range(document.upcoming) \cup Range(document.action) \cup Range(document.recent)
  <2> DEFINE both == document.upcoming \o document.action
             last == document.recent
  <2>1. last \in Seq(RowsOf(rows, Listed)) /\ both \in Seq(RowsOf(rows, Listed))
    BY <1>2, <1>4
  <2>2. DailyRows = both \o last
    BY Zenon DEF DailyRows
  <2> HIDE DEF both, last
  <2>3. Range(both \o last) = Range(both) \cup Range(last)
    BY <2>1, RangeConcatenation
  <2> QED BY <1>3, <2>2, <2>3 DEF both, last
<1>6. RowsOf(rows, Listed)
        = RowsOf(rows, InSection("upcoming", seen))
            \cup RowsOf(rows, InSection("action", seen))
            \cup RowsOf(rows, InSection("recent", seen))
  BY <1>1 DEF RowsOf
<1> QED BY <1>1, <1>2, <1>5, <1>6

\* The cells of a right row are those of its slot.
LEMMA RightCells ==
    ASSUME NEW id, NEW slot \in Slots
    PROVE  LET row == RightRow(id, slot)
           IN  /\ row.links = <<id>>
               /\ row.times = <<TimeText[slot[1]]>>
               /\ row.durations = <<DurationText[slot[2] - slot[1]]>>
               /\ TimeText[slot[1]] \in TimeCells
               /\ DurationText[slot[2] - slot[1]] \in DurationCells
               /\ IsTimestamp(TimeText[slot[1]])
               /\ parseTimestamp(TimeText[slot[1]]) = slot[1]
               /\ IsDuration(DurationText[slot[2] - slot[1]])
               /\ parseDuration(DurationText[slot[2] - slot[1]]) = slot[2] - slot[1]
<1> DEFINE cell == TimeText[slot[1]]
           length == DurationText[slot[2] - slot[1]]
<1>1. /\ RightRow(id, slot).links = <<id>>
      /\ \A any : RightRow(any, slot).times = <<cell>>
      /\ \A any : RightRow(any, slot).durations = <<length>>
  BY DEF RightRow
<1>2. /\ RightRow(0, slot).times[1] = cell
      /\ RightRow(0, slot).durations[1] = length
  BY <1>1
<1>3. /\ RightRow(0, slot).times[1] \in TimeCells
      /\ IsTimestamp(RightRow(0, slot).times[1])
      /\ parseTimestamp(RightRow(0, slot).times[1]) = slot[1]
      /\ RightRow(0, slot).durations[1] \in DurationCells
      /\ IsDuration(RightRow(0, slot).durations[1])
      /\ parseDuration(RightRow(0, slot).durations[1]) = slot[2] - slot[1]
  BY PageAssumption, Zenon
<1> HIDE DEF cell, length
<1> QED BY <1>1, <1>2, <1>3 DEF cell, length

\* A right row shows its contest.
LEMMA RightRowShows ==
    ASSUME NEW id \in Ids, NEW slot \in Slots
    PROVE  /\ Readable(RightRow(id, slot))
           /\ RowContest(RightRow(id, slot)) = Contest(id, slot)
<1> DEFINE row == RightRow(id, slot)
           cell == TimeText[slot[1]]
           length == DurationText[slot[2] - slot[1]]
<1>1. /\ row.links = <<id>> /\ row.times = <<cell>> /\ row.durations = <<length>>
      /\ IsTimestamp(cell) /\ parseTimestamp(cell) = slot[1]
      /\ IsDuration(length) /\ parseDuration(length) = slot[2] - slot[1]
  BY RightCells
<1> HIDE DEF row, cell, length
<1>2. /\ Len(row.links) = 1 /\ row.links[1] = id
      /\ Len(row.times) = 1 /\ row.times[1] = cell
      /\ Len(row.durations) = 1 /\ row.durations[1] = length
  BY <1>1
<1>3. slot[1] \in Nat /\ slot[2] \in Nat /\ slot[1] < slot[2]
  BY PolicyAssumption
<1>4. Readable(row)
  BY <1>1, <1>2, <1>3 DEF Readable
<1>5. RowContest(row) = [id |-> id, startTime |-> slot[1],
                         endTime |-> slot[1] + (slot[2] - slot[1])]
  BY <1>1, <1>2 DEF RowContest
<1>6. slot[1] + (slot[2] - slot[1]) = slot[2]
  BY <1>3
<1> QED BY <1>4, <1>5, <1>6 DEF Contest, row

\* A row with no contest's link is passed over.
LEMMA OtherRowIgnored == ~Recognized(OtherRow) /\ ~Readable(OtherRow)
<1>1. OtherRow.links = <<OtherLink>> /\ OtherRow.times = <<>>
  BY DEF OtherRow
<1>2. ~Recognized(OtherRow)
  BY <1>1, PageAssumption DEF Recognized
<1> QED BY <1>1, <1>2 DEF Readable

\* A damaged row is recognized as a contest's, and not read.
LEMMA DamagedRowFound ==
    ASSUME NEW id \in Ids, NEW slot \in Slots,
           NEW damaged \in DamagedRows(RightRow(id, slot))
    PROVE  Recognized(damaged) /\ ~Readable(damaged)
<1> DEFINE row == RightRow(id, slot)
           cell == TimeText[slot[1]]
           length == DurationText[slot[2] - slot[1]]
<1>1. row = [links |-> <<id>>, times |-> <<cell>>, durations |-> <<length>>]
  BY DEF RightRow
<1>2. cell \in TimeCells /\ length \in DurationCells
  BY RightCells
<1>3. damaged \in DamagedRows(row)
  OBVIOUS
<1> HIDE DEF row, cell, length
<1>4. id \in AbcLinks /\ BadNumber \in AbcLinks /\ BadNumber \notin Ids
  BY PageAssumption DEF AbcLinks
<1>5. CASE damaged = [row EXCEPT !.links = @ \o <<OtherLink>>]
  <2>1. damaged.links = <<id>> \o <<OtherLink>>
    BY <1>1, <1>5
  <2> DEFINE first == <<id>>
             second == <<OtherLink>>
  <2>2. /\ first \in Seq({id, OtherLink}) /\ second \in Seq({id, OtherLink})
        /\ Len(first) = 1 /\ Len(second) = 1 /\ first[1] = id
    OBVIOUS
  <2> HIDE DEF first, second
  <2> DEFINE Links == {id, OtherLink}
  <2> HIDE DEF Links
  <2>3. /\ first \o second \in Seq(Links)
        /\ Len(first \o second) = Len(first) + Len(second)
        /\ \A i \in 1 .. Len(first) + Len(second) :
              (first \o second)[i]
                = IF i <= Len(first) THEN first[i] ELSE second[i - Len(first)]
    <3>1. first \in Seq(Links) /\ second \in Seq(Links)
      BY <2>2 DEF Links
    <3> QED BY <3>1, ConcatProperties, Zenon
  <2>4. Len(damaged.links) = 2 /\ 1 \in DOMAIN damaged.links /\ damaged.links[1] = id
    <3>1. damaged.links = first \o second
      BY <2>1 DEF first, second
    <3>2. damaged.links \in Seq(Links) /\ Len(damaged.links) = 2
      BY <2>2, <2>3, <3>1
    <3>3. damaged.links[1] = id
      BY <2>2, <2>3, <3>1
    <3> QED BY <3>2, <3>3, LenProperties
  <2> QED BY <1>4, <2>4 DEF Recognized, Readable
<1>6. CASE damaged = [row EXCEPT !.links = <<BadNumber>>]
  <2>1. damaged.links = <<BadNumber>>
    BY <1>1, <1>6
  <2> QED BY <1>4, <2>1 DEF Recognized, Readable
<1>7. ASSUME damaged.links = <<id>>
      PROVE  Recognized(damaged)
  BY <1>4, <1>7 DEF Recognized
<1>8. CASE damaged = [row EXCEPT !.times = <<>>]
  <2>1. damaged.links = <<id>> /\ damaged.times = <<>>
    BY <1>1, <1>8
  <2> QED BY <1>7, <2>1 DEF Readable
<1>9. CASE damaged = [row EXCEPT !.times[1].matches = FALSE]
  <2>1. damaged.links = <<id>> /\ damaged.times[1] = [cell EXCEPT !.matches = FALSE]
    BY <1>1, <1>9
  <2>2. ~IsTimestamp(damaged.times[1])
    BY <1>2, <2>1 DEF IsTimestamp, TimeCells
  <2> QED BY <1>7, <2>1, <2>2 DEF Readable
<1>10. CASE damaged = [row EXCEPT !.times[1].month = 2, !.times[1].day = 30]
  <2>1. /\ damaged.links = <<id>>
        /\ damaged.times[1] = [cell EXCEPT !.month = 2, !.day = 30]
    BY <1>1, <1>10
  <2>2. damaged.times[1].month = 2 /\ damaged.times[1].day = 30
    BY <1>2, <2>1 DEF TimeCells
  <2>3. ~IsTimestamp(damaged.times[1])
    BY <2>2 DEF IsTimestamp, IsDate, DaysInMonth
  <2> QED BY <1>7, <2>1, <2>3 DEF Readable
<1>11. CASE damaged = [row EXCEPT !.durations = <<>>]
  <2>1. damaged.links = <<id>> /\ damaged.durations = <<>>
    BY <1>1, <1>11
  <2> QED BY <1>7, <2>1 DEF Readable
<1>12. CASE damaged = [row EXCEPT !.durations[1].minutes = 60]
  <2>1. damaged.links = <<id>> /\ damaged.durations[1] = [length EXCEPT !.minutes = 60]
    BY <1>1, <1>12
  <2>2. ~IsDuration(damaged.durations[1])
    BY <1>2, <2>1 DEF IsDuration, DurationCells
  <2> QED BY <1>7, <2>1, <2>2 DEF Readable
<1>13. CASE damaged = [row EXCEPT !.durations[1].hours = 0, !.durations[1].minutes = 0]
  <2>1. /\ damaged.links = <<id>>
        /\ damaged.durations[1] = [length EXCEPT !.hours = 0, !.minutes = 0]
    BY <1>1, <1>13
  <2>2. damaged.durations[1].hours = 0 /\ damaged.durations[1].minutes = 0
    BY <1>2, <2>1 DEF DurationCells
  <2>3. parseDuration(damaged.durations[1]) = 0
    BY <2>2 DEF parseDuration
  <2> QED BY <1>7, <2>1, <2>3 DEF Readable
<1> QED
  BY <1>3, <1>5, <1>6, <1>8, <1>9, <1>10, <1>11, <1>12, <1>13 DEF DamagedRows

\* What a listed contest's pair of rows is.
LEMMA PairsAre ==
    ASSUME page \in [Ids -> Slots \cup {None}], NEW id \in Listed, NEW pair \in RowPairs(id)
    PROVE  /\ id \in Ids /\ page[id] \in Slots
           /\ \/ pair[1] \in DamagedRows(RightRow(id, page[id])) /\ pair[2] = OtherRow
              \/ pair[1] = RightRow(id, page[id]) /\ pair[2] = OtherRow
              \/ /\ pair[1] = RightRow(id, page[id])
                 /\ \E slot \in Slots : pair[2] = RightRow(id, slot)
<1> DEFINE right == RightRow(id, page[id])
           damaged == DamagedRows(right)
           others == {RightRow(id, slot) : slot \in Slots}
<1>1. id \in Ids /\ page[id] \in Slots
  BY DEF Listed
<1>2. pair \in ((damaged \cup {right}) \X {OtherRow}) \cup ({right} \X others)
  BY DEF RowPairs
<1> HIDE DEF right, damaged, others
<1>3. \/ pair[1] \in damaged /\ pair[2] = OtherRow
      \/ pair[1] = right /\ pair[2] = OtherRow
      \/ pair[1] = right /\ pair[2] \in others
  BY <1>2
<1> QED BY <1>1, <1>3, Zenon DEF right, damaged, others

\* On a page that does not contradict itself, some of its rows show the listings
\* of those of their contests that have a right row.
LEMMA ShownListings ==
    ASSUME page \in [Ids -> Slots \cup {None}], ~Contradictory,
           NEW rows \in RowChoices, Range(DailyRows) = RowsOf(rows, Listed),
           NEW ids \in SUBSET Listed, NEW some, Range(some) = RowsOf(rows, ids)
    PROVE  ShownContests(some)
             = {Listing(id) : id \in {i \in ids : rows[i][1] = RightRow(i, page[i])}}
<1>1. ASSUME NEW id \in Listed
      PROVE  /\ id \in Ids /\ page[id] \in Slots
             /\ \/ /\ rows[id][1] \in DamagedRows(RightRow(id, page[id]))
                   /\ rows[id][2] = OtherRow
                \/ rows[id][1] = RightRow(id, page[id]) /\ rows[id][2] = OtherRow
                \/ /\ rows[id][1] = RightRow(id, page[id])
                   /\ \E slot \in Slots : rows[id][2] = RightRow(id, slot)
  <2>1. rows[id] \in RowPairs(id)
    BY DEF RowChoices
  <2> QED BY <2>1, PairsAre
<1>2. Shown = {RowContest(r) : r \in {q \in RowsOf(rows, Listed) : Readable(q)}}
  BY DEF Shown, Range
<1>3. ShownContests(some) = {RowContest(r) : r \in {q \in RowsOf(rows, ids) : Readable(q)}}
  BY DEF ShownContests, Range
<1>4. ASSUME NEW id \in Listed, rows[id][1] = RightRow(id, page[id])
      PROVE  /\ Readable(rows[id][1])
             /\ RowContest(rows[id][1]) = Listing(id)
             /\ Listing(id) \in Shown
             /\ Listing(id).id = id
  <2>1. Readable(rows[id][1]) /\ RowContest(rows[id][1]) = Listing(id)
    BY <1>1, <1>4, RightRowShows DEF Listing
  <2>2. rows[id][1] \in RowsOf(rows, Listed)
    BY DEF RowsOf
  <2>3. Listing(id).id = id
    BY DEF Listing, Contest
  <2> QED BY <1>2, <2>1, <2>2, <2>3
<1>5. ASSUME NEW id \in Listed, NEW r \in {rows[id][1], rows[id][2]}, Readable(r)
      PROVE  rows[id][1] = RightRow(id, page[id]) /\ RowContest(r) = Listing(id)
  <2>1. rows[id][1] = RightRow(id, page[id])
    BY <1>1, <1>5, DamagedRowFound, OtherRowIgnored
  <2>2. CASE r = rows[id][1]
    BY <1>4, <2>1, <2>2
  <2>3. CASE \E slot \in Slots : r = RightRow(id, slot)
    <3>1. PICK slot \in Slots : r = RightRow(id, slot)
      BY <2>3
    <3>2. RowContest(r) = Contest(id, slot)
      BY <1>1, <3>1, RightRowShows
    <3>3. RowContest(r).id = id
      BY <3>2 DEF Contest
    <3>4. r \in RowsOf(rows, Listed)
      BY DEF RowsOf
    <3>5. RowContest(r) \in Shown
      BY <1>2, <1>5, <3>4
    <3> QED BY <1>4, <2>1, <3>3, <3>5 DEF Contradictory
  <2> QED BY <1>1, <1>5, <2>1, <2>2, <2>3, OtherRowIgnored
<1>6. ASSUME NEW c \in ShownContests(some)
      PROVE  \E id \in ids : rows[id][1] = RightRow(id, page[id]) /\ c = Listing(id)
  <2>1. PICK r \in RowsOf(rows, ids) : Readable(r) /\ c = RowContest(r)
    BY <1>3, <1>6
  <2>2. PICK id \in ids : r \in {rows[id][1], rows[id][2]}
    BY <2>1 DEF RowsOf
  <2> QED BY <1>5, <2>1, <2>2
<1>7. ASSUME NEW id \in ids, rows[id][1] = RightRow(id, page[id])
      PROVE  Listing(id) \in ShownContests(some)
  <2>1. rows[id][1] \in RowsOf(rows, ids)
    BY DEF RowsOf
  <2> QED BY <1>3, <1>4, <1>7, <2>1
<1> QED BY <1>6, <1>7

\* A reading that is true of a page which does not contradict itself is one of
\* those the main loop is modelled with.
LEMMA TrueReading ==
    ASSUME TypeOK, ReadingIsTrue, place = "done", result.tableFound,
           ~lost, ~Contradictory,
           NEW seen \in Int, document \in Renderings(seen)
    PROVE  result \in Readings(now, seen)
<1>1. /\ page \in [Ids -> Slots \cup {None}]
      /\ result \in Results(Candidates)
  BY DEF TypeOK, ParserTypeOK, Results
<1>2. PICK rows \in RowChoices :
        /\ document.upcoming = SectionRows(rows, "upcoming", seen)
        /\ document.action = SectionRows(rows, "action", seen)
        /\ document.recent = SectionRows(rows, "recent", seen)
  <2>1. PICK tables \in 1 .. 2, rows \in RowChoices :
          document = [upcoming |-> SectionRows(rows, "upcoming", seen),
                      action   |-> SectionRows(rows, "action", seen),
                      recent   |-> SectionRows(rows, "recent", seen),
                      tables   |-> tables]
    BY DEF Renderings, RowChoices
  <2> QED BY <2>1
<1> DEFINE Ahead == {id \in Listed : page[id][1] > seen}
           IsRight(id) == rows[id][1] = RightRow(id, page[id])
<1>3. Range(document.upcoming) = RowsOf(rows, Ahead) /\ Range(DailyRows) = RowsOf(rows, Listed)
  BY <1>2, PageRowsAre
<1>4. ShownContests(document.upcoming) = {Listing(id) : id \in {i \in Ahead : IsRight(i)}}
  BY <1>1, <1>3, ShownListings
<1>5. ShownContests(DailyRows) = {Listing(id) : id \in {i \in Listed : IsRight(i)}}
  BY <1>1, <1>3, ShownListings
<1>6. \A id \in Listed : Listing(id).startTime = page[id][1] /\ Listing(id).id = id
  BY DEF Listing, Contest
<1>7. ShownAhead = {Listing(id) : id \in {i \in Ahead : IsRight(i) /\ page[i][1] > now}}
  BY <1>4, <1>6 DEF ShownAhead
<1>8. result = Parsed(result.contests, result.hasInvalidAbcRows, result.hasAbcToday)
  BY <1>1 DEF Results, Parsed
<1>9. CASE result.hasInvalidAbcRows
  <2> DEFINE read == {id \in Listed : Listing(id) \in result.contests}
  <2>1. result.contests \subseteq ShownAhead
    BY DEF ReadingIsTrue
  <2>2. result.contests = Upcoming(read, now, seen)
    BY <1>6, <1>7, <2>1 DEF Upcoming
  <2>3. result = Parsed(Upcoming(read, now, seen), TRUE, result.hasAbcToday)
    BY <1>1, <1>8, <1>9, <2>2 DEF Results
  <2>4. read \in SUBSET Listed /\ result.hasAbcToday \in BOOLEAN
    BY <1>1 DEF Results
  <2> DEFINE Partial(some) == {Parsed(Upcoming(some, now, seen), TRUE, today) : today \in BOOLEAN}
  <2>5. result \in Partial(read)
    BY <2>3, <2>4, Zenon
  <2>6. Partial(read) \in {Partial(some) : some \in SUBSET Listed}
    BY <2>4, Zenon
  <2> HIDE DEF Partial, read
  <2>7. result \in UNION {Partial(some) : some \in SUBSET Listed}
    BY <2>5, <2>6
  <2> QED BY <2>7, Zenon DEF Readings, Partial
<1>10. CASE ~result.hasInvalidAbcRows
  <2>1. /\ \A i \in DOMAIN DailyRows : Recognized(DailyRows[i]) => Readable(DailyRows[i])
        /\ result.contests = ShownAhead
        /\ result.hasAbcToday <=> ShownToday
    BY <1>10 DEF ReadingIsTrue
  <2>2. ASSUME NEW id \in Listed PROVE IsRight(id)
    <3>1. rows[id][1] \in RowsOf(rows, Listed)
      BY DEF RowsOf
    <3>2. PICK i \in DOMAIN DailyRows : rows[id][1] = DailyRows[i]
      BY <1>3, <3>1 DEF Range
    <3>3. Recognized(rows[id][1]) => Readable(rows[id][1])
      BY <2>1, <3>2
    <3>4. rows[id] \in RowPairs(id)
      BY DEF RowChoices
    <3> QED BY <1>1, <3>3, <3>4, PairsAre, DamagedRowFound
  <2>3. result.contests = Upcoming(Listed, now, seen)
    BY <1>7, <2>1, <2>2 DEF Upcoming
  <2>4. ShownToday <=> AbcToday(now)
    BY <1>5, <1>6, <2>2 DEF ShownToday, AbcToday
  <2>5. result.hasAbcToday = AbcToday(now) /\ result.hasInvalidAbcRows = FALSE
    BY <1>1, <1>10, <2>1, <2>4 DEF Results, AbcToday
  <2>6. result = Parsed(Upcoming(Listed, now, seen), FALSE, AbcToday(now))
    BY <1>8, <2>3, <2>5
  <2> QED BY <2>6, Zenon DEF Readings
<1> QED BY <1>9, <1>10

-----------------------------------------------------------------------------
(* The answer.                                                             *)

\* What Discord did, and what the client has of its answer.
Reply(succeeded, code) ==
    [transportSucceeded |-> succeeded, status |-> code, delivered |-> delivered]

\* A POST never reaches the parser; its answer is one Discord can give.  A
\* document is a rendering of the page at a time of the request.
AnswersInductive ==
    /\ page \in InitialPages
    /\ post => CanRequest(FALSE) /\ place = "idle"
    /\ place # "idle" => phase = "done"
    /\ post /\ phase = "receiving" => Reply(TRUE, status) \in WebhookResponses
    /\ post /\ phase = "done" => Reply(~response.failed, response.status) \in WebhookResponses
    /\ document = None => place \in {"idle", "done"} /\ result = NoTable
    /\ document # None =>
          /\ place # "idle"
          /\ result.tableFound
          /\ \E seen \in now .. now + RequestTimeout : document \in Renderings(seen)

\* A request starts without an answer or a document.
LEMMA InitOfAnswers == Init => AnswersInductive
<1> SUFFICES ASSUME Init
             PROVE  AnswersInductive
  OBVIOUS
<1>1. /\ phase = "asking" /\ place = "idle" /\ document = None /\ result = NoTable
      /\ post => CanRequest(FALSE)
      /\ page \in InitialPages
  BY DEF Init, TransferInit, ParserInit
<1> QED BY <1>1 DEF AnswersInductive

\* A page that stays the same is rendered the same.
LEMMA RenderingsKept ==
    ASSUME page' = page
    PROVE  \A seen : Renderings(seen)' = Renderings(seen)
<1>1. Listed' = Listed
  BY DEF Listed
<1>2. \A id : RowPairs(id)' = RowPairs(id)
  BY DEF RowPairs
<1>3. \A id, seen : SectionOf(id, seen)' = SectionOf(id, seen)
  BY DEF SectionOf
<1>4. ASSUME NEW rows, NEW section, NEW seen
      PROVE  SectionRows(rows, section, seen)' = SectionRows(rows, section, seen)
  <2>1. {id \in Listed : SectionOf(id, seen) = section}'
          = {id \in Listed : SectionOf(id, seen) = section}
    BY <1>1, <1>3
  <2> QED BY <2>1, Zenon DEF SectionRows
<1> DEFINE Choices == {f \in [Listed -> UNION {RowPairs(id) : id \in Listed}] :
                          \A id \in Listed : f[id] \in RowPairs(id)}
<1>5. Choices' = Choices
  <2>1. {RowPairs(id) : id \in Listed}' = {RowPairs(id) : id \in Listed}
    BY <1>1, <1>2, Zenon
  <2> QED BY <1>1, <1>2, <2>1
<1> SUFFICES ASSUME NEW seen
             PROVE  Renderings(seen)' = Renderings(seen)
  OBVIOUS
<1>6. Renderings(seen) =
        {[upcoming |-> SectionRows(rows, "upcoming", seen),
          action   |-> SectionRows(rows, "action", seen),
          recent   |-> SectionRows(rows, "recent", seen),
          tables   |-> tables] : tables \in 1 .. 2, rows \in Choices}
  BY DEF Renderings
<1>7. Renderings(seen)' =
        {[upcoming |-> SectionRows(rows, "upcoming", seen)',
          action   |-> SectionRows(rows, "action", seen)',
          recent   |-> SectionRows(rows, "recent", seen)',
          tables   |-> tables] : tables \in 1 .. 2, rows \in Choices'}
  BY DEF Renderings
<1> HIDE DEF Choices
<1> QED BY <1>4, <1>5, <1>6, <1>7

\* A failure decides nothing about the message.
LEMMA FailureIsReply ==
    ASSUME NEW sent \in BOOLEAN
    PROVE  [transportSucceeded |-> FALSE, status |-> 0, delivered |-> sent]
             \in WebhookResponses
BY DEF WebhookResponses

\* A step of the transfer keeps what is known of Discord's answer.
LEMMA TransferStepAnswers ==
    ASSUME TypeOK, AnswersInductive, TransferNext
    PROVE  /\ UNCHANGED post
           /\ phase # "done"
           /\ post /\ phase' = "receiving" => Reply(TRUE, status)' \in WebhookResponses
           /\ post /\ phase' = "done" =>
                 Reply(~response.failed, response.status)' \in WebhookResponses
<1> USE DEF AnswersInductive
<1>1. /\ delivered \in BOOLEAN /\ delivered' \in BOOLEAN
      /\ phase \in {"asking", "receiving", "done"}
  BY TransferStepTyped DEF TypeOK, TransferTypeOK
<1>2. ASSUME response' = FailedResponse
      PROVE  Reply(~response.failed, response.status)' \in WebhookResponses
  <2>1. Reply(~response.failed, response.status)'
          = [transportSucceeded |-> FALSE, status |-> 0, delivered |-> delivered']
    BY <1>2 DEF Reply, FailedResponse, NoResponse
  <2> QED BY <1>1, <2>1, FailureIsReply
<1>3. CASE SetupFails
  BY <1>2, <1>3 DEF SetupFails
<1>4. CASE Break
  BY <1>2, <1>4 DEF Break, Fail
<1>5. CASE Wait
  BY <1>5 DEF Wait, Reply
<1>6. CASE TimedOut
  BY <1>2, <1>6 DEF TimedOut, Fail
<1>7. CASE Redirect
  BY <1>7 DEF Redirect, Fail, Follow
<1>8. CASE Answer
  BY <1>8 DEF Answer, Reply
<1>9. CASE Piece
  <2>1. PICK piece \in Pieces : Receive(piece)
    BY <1>9 DEF Piece
  <2>2. CASE Fits(piece)
    BY <1>9, <2>1, <2>2 DEF Piece, Receive, Reply
  <2>3. CASE ~Fits(piece)
    BY <1>2, <1>9, <2>1, <2>3 DEF Piece, Receive, Fail
  <2> QED BY <2>2, <2>3
<1>10. CASE Complete
  <2>1. CASE expected
    BY <1>10, <2>1 DEF Complete, Reply
  <2>2. CASE ~expected
    BY <1>2, <1>10, <2>2 DEF Complete
  <2> QED BY <1>10, <2>1, <2>2 DEF Complete
<1> QED
  BY <1>3, <1>4, <1>5, <1>6, <1>7, <1>8, <1>9, <1>10 DEF TransferNext

\* A step of the parser reads on in the same document, and never goes back to a
\* result without a table.
LEMMA ParserStepAnswers ==
    ASSUME ParserTypeOK, ParserNext
    PROVE  /\ place \in {"upcoming", "daily", "deduplicate"} /\ place' # "idle"
           /\ UNCHANGED <<now, document>>
           /\ result.tableFound => result'.tableFound
<1>1. result \in Results(Candidates)
  BY DEF ParserTypeOK, Results
<1>2. \A flag : Flagged(flag).tableFound = result.tableFound
  BY <1>1 DEF Flagged, Results
<1>3. CASE ReadUpcoming
  BY <1>2, <1>3 DEF ReadUpcoming
<1>4. CASE CheckTables
  BY <1>2, <1>4 DEF CheckTables
<1>5. CASE ReadDaily
  <2>1. PICK row : result' = [Flagged(row.invalid) EXCEPT
                                !.hasAbcToday = @ \/ (row.contest # None
                                  /\ jstDateKey(row.contest.startTime) = jstDateKey(now))]
    BY <1>5 DEF ReadDaily
  <2>2. result'.tableFound = Flagged(row.invalid).tableFound
    BY <1>1, <2>1 DEF Flagged, Results
  <2> QED BY <1>2, <1>5, <2>2 DEF ReadDaily
<1>6. CASE LeaveDaily
  BY <1>2, <1>6 DEF LeaveDaily
<1>7. CASE Deduplicate
  BY <1>7 DEF Deduplicate
<1>8. CASE Finish
  <2>1. result'.tableFound = Flagged(conflictingIds # {}).tableFound
    BY <1>1, <1>8 DEF Finish, Flagged, Results
  <2> QED BY <1>2, <1>8, <2>1 DEF Finish
<1> QED BY <1>3, <1>4, <1>5, <1>6, <1>7, <1>8 DEF ParserNext

\* Every step of the two requests keeps the invariant.
LEMMA RequestStepOfAnswers ==
    ASSUME TypeOK, AnswersInductive, [Next]_vars
    PROVE  AnswersInductive'
<1> USE DEF AnswersInductive
<1>1. page' = page /\ Listed' = Listed
  BY DEF Next, Transfer, NothingToRead, ReadPage, Parse, vars, Listed
<1>2. \A seen : Renderings(seen)' = Renderings(seen)
  BY <1>1, RenderingsKept
<1>3. CASE UNCHANGED vars
  BY <1>1, <1>2, <1>3 DEF vars, transferVars, parserVars, Reply
<1>4. CASE Transfer
  <2>1. UNCHANGED <<now, document, place, result>>
    BY <1>4 DEF Transfer, parserVars
  <2>2. /\ UNCHANGED post /\ phase # "done"
        /\ post /\ phase' = "receiving" => Reply(TRUE, status)' \in WebhookResponses
        /\ post /\ phase' = "done" =>
              Reply(~response.failed, response.status)' \in WebhookResponses
    BY <1>4, TransferStepAnswers DEF Transfer
  <2> QED BY <1>1, <1>2, <2>1, <2>2
<1>5. CASE NothingToRead
  BY <1>1, <1>2, <1>5
     DEF NothingToRead, FetchReturns, Unreadable, transferVars
<1>6. CASE ReadPage
  <2>1. PICK seen \in Instants : \E doc \in Renderings(seen) : Open(doc)
    BY <1>6 DEF ReadPage
  <2> PICK doc \in Renderings(seen) : Open(doc)
    BY <2>1
  <2>2. seen \in now .. now + RequestTimeout
    <3>1. now \in Int /\ elapsed \in 0 .. RequestTimeout /\ RequestTimeout \in Nat
      BY ParserAssumption, TransferAssumption DEF TypeOK, ParserTypeOK, TransferTypeOK
    <3>2. seen \in now .. now + elapsed
      BY DEF Instants
    <3> QED BY <3>1, <3>2
  <2>3. /\ place' = "upcoming" /\ document' = doc /\ doc \in Documents /\ now' = now
        /\ result'.tableFound
    BY DEF Open, Parsed
  <2>4. document' # None
    BY <2>3, PageAssumption
  <2>5. ~post /\ UNCHANGED <<post, phase>> /\ phase = "done"
    BY <1>6 DEF ReadPage, FetchReturns, Forget
  <2> QED BY <1>1, <1>2, <2>2, <2>3, <2>4, <2>5
<1>7. CASE Parse
  <2>1. /\ place \in {"upcoming", "daily", "deduplicate"} /\ place' # "idle"
        /\ UNCHANGED <<now, document>>
        /\ result.tableFound => result'.tableFound
    BY <1>7, ParserStepAnswers DEF Parse, TypeOK
  <2>2. ~post /\ document # None /\ phase = "done" /\ UNCHANGED <<post, phase>>
    BY <1>7, <2>1 DEF Parse, transferVars
  <2> QED BY <1>1, <1>2, <2>1, <2>2
<1> QED BY <1>3, <1>4, <1>5, <1>6, <1>7 DEF Next

\* RequestAnswers' readings and outcomes are the operators of SchedulePage and
\* DiscordClient over the same page.
LEMMA SameAnswers ==
    /\ \A t, seen : Answers!Readings(t, seen) = Readings(t, seen)
    /\ Answers!SendOutcomes(FALSE) = SendOutcomes(FALSE)
<1>1. \A t, seen : Answers!Readings(t, seen) = Readings(t, seen)
  BY DEF Answers!Readings, Readings, Answers!NoTable, NoTable, Answers!Parsed, Parsed,
         Answers!Upcoming, Upcoming, Answers!Listed, Listed, Answers!Listing, Listing,
         Answers!Contest, Contest, Answers!AbcToday, AbcToday, Answers!jstDateKey, jstDateKey
<1>2. Answers!SendOutcomes(FALSE) = SendOutcomes(FALSE)
  BY DEF Answers!SendOutcomes, SendOutcomes, Answers!CanRequest, CanRequest,
         Answers!WebhookResponses, WebhookResponses, Answers!Classify, Classify,
         Answers!IsSuccess, IsSuccess, Answers!IsTemporary, IsTemporary
<1> QED BY <1>1, <1>2

\* When a POST ends, its caller gets an outcome of send.
LEMMA PostAnswered ==
    AnswersInductive /\ post /\ phase = "done" => Got \in SendOutcomes(FALSE)
<1> SUFFICES ASSUME AnswersInductive, post, phase = "done"
             PROVE  Got \in SendOutcomes(FALSE)
  OBVIOUS
<1>1. Returned /\ CanRequest(FALSE)
  BY DEF Returned, AnswersInductive
<1>2. Reply(~response.failed, response.status) \in WebhookResponses
  BY DEF AnswersInductive
<1>3. Got = [result    |-> Classify([transportSucceeded |-> ~response.failed,
                                    status             |-> response.status]),
             delivered |-> delivered]
  BY <1>1 DEF Got
<1> DEFINE r == Reply(~response.failed, response.status)
<1>4. /\ r.delivered = delivered
      /\ r.transportSucceeded = ~response.failed
      /\ r.status = response.status
  BY DEF Reply
<1>5. Got = [result |-> Classify(r), delivered |-> r.delivered]
  BY <1>3, <1>4 DEF Classify
<1> QED BY <1>1, <1>2, <1>5 DEF SendOutcomes

\* When a GET ends, its caller gets a reading of the page at a time of the
\* request.
LEMMA GetAnswered ==
    TypeOK /\ ReadingIsTrue /\ AnswersInductive /\ ~post /\ place = "done" /\ Got # None
      => \E seen \in now .. now + RequestTimeout : Got \in Readings(now, seen)
<1> SUFFICES ASSUME TypeOK, ReadingIsTrue, AnswersInductive, ~post, place = "done", Got # None
             PROVE  \E seen \in now .. now + RequestTimeout : Got \in Readings(now, seen)
  OBVIOUS
<1>1. now \in Int /\ RequestTimeout \in Nat
  BY ParserAssumption, TransferAssumption DEF TypeOK, ParserTypeOK
<1>2. Returned
  BY DEF Returned, AnswersInductive
<1>3. Faithful /\ Got = result
  BY <1>2 DEF Got
<1>4. CASE document = None
  <2>1. Got \in Readings(now, now)
    BY <1>3, <1>4 DEF AnswersInductive, Readings
  <2>2. now \in now .. now + RequestTimeout
    BY <1>1
  <2> QED BY <2>1, <2>2
<1>5. CASE document # None
  <2>1. PICK seen \in now .. now + RequestTimeout : document \in Renderings(seen)
    BY <1>5 DEF AnswersInductive
  <2>2. result.tableFound /\ ~lost /\ ~Contradictory
    BY <1>3, <1>5 DEF AnswersInductive, Faithful
  <2>3. seen \in Int
    BY <1>1
  <2>4. result \in Readings(now, seen)
    BY <2>1, <2>2, <2>3, TrueReading
  <2> QED BY <1>3, <2>1, <2>4
<1> QED BY <1>4, <1>5

\* Nothing happens to a request that has returned.
LEMMA ReturnedStays ==
    ASSUME AnswersInductive, Returned, [Next]_vars
    PROVE  UNCHANGED vars
<1>1. /\ phase = "done"
      /\ place \in {"idle", "done"}
      /\ post \/ place = "done"
  BY DEF Returned, AnswersInductive
<1>2. ~Transfer
  BY <1>1 DEF Transfer, TransferNext, SetupFails, Break, Wait, TimedOut, Redirect,
              Answer, Piece, Complete
<1>3. ~NothingToRead /\ ~ReadPage
  BY <1>1 DEF NothingToRead, ReadPage, FetchReturns
<1>4. ~Parse
  BY <1>1 DEF Parse, ParserNext, ReadUpcoming, CheckTables, ReadDaily, LeaveDaily,
              Deduplicate, Finish
<1> QED BY <1>2, <1>3, <1>4 DEF Next

\* A request does not change what is asked, of whom or when.
LEMMA QuestionStays ==
    ASSUME TypeOK, AnswersInductive, [Next]_vars
    PROVE  UNCHANGED <<page, post, now>>
<1>1. CASE UNCHANGED vars
  BY <1>1 DEF vars, transferVars, parserVars
<1>2. CASE Transfer
  BY <1>2, TransferStepAnswers DEF Transfer, parserVars
<1>3. CASE NothingToRead
  BY <1>3 DEF NothingToRead, Unreadable, transferVars
<1>4. CASE ReadPage
  BY <1>4 DEF ReadPage, Forget, Open
<1>5. CASE Parse
  BY <1>5, ParserStepAnswers DEF Parse, transferVars, TypeOK
<1> QED BY <1>1, <1>2, <1>3, <1>4, <1>5 DEF Next

\* The steps of a request are the one step of its answer, or none.
LEMMA RequestResponds ==
    ASSUME TypeOK, AnswersInductive, [Next]_vars,
           TypeOK', AnswersInductive', ReadingIsTrue'
    PROVE  [Answers!Respond]_<<page, post, now, Got>>
<1>1. UNCHANGED <<page, post, now>>
  BY QuestionStays
<1>2. CASE Returned
  <2>1. UNCHANGED vars
    BY <1>2, ReturnedStays
  <2>2. Got' = Got
    BY <2>1 DEF vars, transferVars, parserVars, Got, Returned, Faithful, Contradictory,
                Shown, DailyRows
  <2> QED BY <1>1, <2>2
<1>3. CASE ~Returned
  <2>1. Got = None
    BY <1>3 DEF Got
  <2>2. CASE Got' = None
    BY <1>1, <2>1, <2>2
  <2>3. CASE Got' # None
    <3>1. phase' = "done" /\ (post' \/ place' = "done")
      BY <2>3 DEF Got, Returned
    <3>2. CASE post'
      <4>1. (AnswersInductive /\ post /\ phase = "done" => Got \in SendOutcomes(FALSE))'
        BY PostAnswered, PTL
      <4> QED BY <1>1, <2>1, <2>3, <3>1, <3>2, <4>1, SameAnswers DEF Answers!Respond, Answers!Answers
    <3>3. CASE ~post'
      <4>1. (TypeOK /\ ReadingIsTrue /\ AnswersInductive /\ ~post /\ place = "done" /\ Got # None
              => \E seen \in now .. now + RequestTimeout : Got \in Readings(now, seen))'
        BY GetAnswered, PTL
      <4>2. PICK seen \in now' .. now' + RequestTimeout : Got' \in Readings(now, seen)'
        BY <2>3, <3>1, <3>3, <4>1
      <4>3. Readings(now, seen)' = Readings(now, seen)
        BY <1>1 DEF Readings, NoTable, Parsed, Upcoming, Listed, Listing, Contest, AbcToday
      <4> QED
        BY <1>1, <2>1, <2>3, <3>3, <4>2, <4>3, SameAnswers DEF Answers!Respond, Answers!Answers
    <3> QED BY <3>2, <3>3
  <2> QED BY <2>2, <2>3
<1> QED BY <1>2, <1>3

\* The three invariants together.
LEMMA AnswersAlways == Spec => [](TypeOK /\ AnswersInductive /\ ReadingIsTrue)
BY InitOfAnswers, RequestStepOfAnswers, RequestsTyped, ReadingsAreTrue, PTL DEF Spec

\* fetch and send, with everything that may go wrong in libcurl, at the servers and
\* in the page, give the loop what it is modelled with: one answer, a reading of the
\* page while the request was on its way, or an outcome of send
\* (atcoder_client.cpp, discord_client.cpp:42-100).
THEOREM RequestsImplementAnswers == Spec => ImplementsAnswers
<1>1. Init => /\ page \in InitialPages
              /\ post \in BOOLEAN
              /\ now \in RequestTimes
              /\ Got = None
  BY DEF Init, TransferInit, ParserInit, Got, Returned
<1> QED
  BY <1>1, RequestResponds, AnswersAlways, PTL DEF Spec, ImplementsAnswers, Answers!RequestSpec
=============================================================================
