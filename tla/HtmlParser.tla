----------------------------- MODULE HtmlParser -----------------------------
(***************************************************************************)
(* AtCoderHtmlParser::parse of src/src/atcoder_html_parser.cpp, one row per  *)
(* step.  A document is what the XPath expressions select from it: the rows *)
(* of the three sections and the number of tables.  A row is the links,     *)
(* times and durations in its cells.                                       *)
(*                                                                         *)
(* External: libxml2.  An evaluation that runs out of memory returns         *)
(* nothing; `lost` remembers that a contest disappeared that way with no    *)
(* flag set.                                                               *)
(***************************************************************************)
EXTENDS SchedulePage, Calendar, Sequences

CONSTANTS
    RequestTimes,  \* when the caller may ask
    BadNumber,     \* a link to a contest whose number is 0 or out of range
    OtherLink      \* a link to no ABC

VARIABLES
    now,             \* the caller's time
    document,        \* the document being read, or None
    place,           \* the loop it is in
    index,           \* the next row or candidate of that loop
    candidates,      \* result.contests before the duplicates are removed
    deduplicated,
    conflictingIds,
    result,          \* ParseResult
    lost

parserVars == <<now, document, place, index, candidates, deduplicated,
                conflictingIds, result, lost>>

-----------------------------------------------------------------------------
(* Rows.                                                                   *)

\* The links that match idPattern.  Its letters match in both cases and the id
\* is lowered, so a link stands for its id.
AbcLinks == Ids \cup {BadNumber}

Recognized(row) == \E i \in DOMAIN row.links : row.links[i] \in AbcLinks

Readable(row) ==
    /\ Len(row.links) = 1 /\ row.links[1] \in Ids
    /\ Len(row.times) = 1 /\ IsTimestamp(row.times[1])
    /\ Len(row.durations) = 1 /\ IsDuration(row.durations[1])
    /\ parseDuration(row.durations[1]) > 0

RowContest(row) ==
    LET start == parseTimestamp(row.times[1])
    IN  [id        |-> row.links[1],
         startTime |-> start,
         endTime   |-> start + parseDuration(row.durations[1])]

ASSUME ParserAssumption ==
    /\ RequestTimes \subseteq Int
    /\ None \notin [id : Ids, startTime : Int, endTime : Int]

\* What parseRow returns for contests after `since`, and the flag it sets.  The
\* second outcome is a context, times or durations that could not be allocated,
\* the third the links.
parseRow(row, since) ==
    {[contest |-> IF Readable(row) /\ RowContest(row).startTime > since
                  THEN RowContest(row) ELSE None,
      invalid |-> Recognized(row) /\ ~Readable(row),
      lost    |-> FALSE],
     [contest |-> None, invalid |-> TRUE, lost |-> FALSE],
     [contest |-> None, invalid |-> FALSE, lost |-> Recognized(row)]}

Rows ==
    [links     : Seq(AbcLinks \cup {OtherLink}),
     times     : Seq(TimeCells),
     durations : Seq(DurationCells)]

\* What the XPath expressions may select, each in the order of the page.
Documents ==
    [upcoming : Seq(Rows), action : Seq(Rows), recent : Seq(Rows), tables : Nat]

DailyRows == document.upcoming \o document.action \o document.recent

-----------------------------------------------------------------------------

ParserInit ==
    /\ now \in RequestTimes
    /\ document = None
    /\ place = "idle"
    /\ index = 1
    /\ candidates = <<>>
    /\ deduplicated = {}
    /\ conflictingIds = {}
    /\ result = NoTable
    /\ lost = FALSE

\* The early returns: no html, no document, no XPath context, no upcoming table.
Unreadable ==
    /\ place' = "done"
    /\ UNCHANGED <<now, document, index, candidates, deduplicated, conflictingIds,
                   result, lost>>

Open(doc) ==
    /\ doc \in Documents
    /\ place' = "upcoming"
    /\ document' = doc
    /\ result' = Parsed({}, FALSE, FALSE)
    /\ UNCHANGED <<now, index, candidates, deduplicated, conflictingIds, lost>>

\* Mutant: the last row decides.
FlaggedByLast(flag) == [result EXCEPT !.hasInvalidAbcRows = flag]

Flagged(flag) == [result EXCEPT !.hasInvalidAbcRows = @ \/ flag]

ReadUpcoming ==
    /\ place = "upcoming" /\ index <= Len(document.upcoming)
    /\ \E row \in parseRow(document.upcoming[index], now) :
          /\ candidates' = IF row.contest = None THEN candidates
                           ELSE Append(candidates, row.contest)
          /\ result' = Flagged(row.invalid)
          /\ lost' = (lost \/ row.lost)
    /\ index' = index + 1
    /\ UNCHANGED <<now, document, place, deduplicated, conflictingIds>>

\* The end of the loop, or no node set to loop over, and the count of tables.
CheckTables ==
    /\ place = "upcoming"
    /\ index = 1 \/ index > Len(document.upcoming)
    /\ \E evaluated \in BOOLEAN :
          result' = Flagged(~evaluated \/ document.tables # 2)
    /\ lost' = (lost \/ index <= Len(document.upcoming))
    /\ place' = "daily"
    /\ index' = 1
    /\ UNCHANGED <<now, document, candidates, deduplicated, conflictingIds>>

\* Mutant: the contest at the first second of the day is not after it.
SinceToday == now - TimeOfDay(now)

\* todayStart - 1.
BeforeToday == now - TimeOfDay(now) - 1

ReadDaily ==
    /\ place = "daily" /\ index <= Len(DailyRows)
    /\ \E row \in parseRow(DailyRows[index], BeforeToday) :
          /\ result' = [Flagged(row.invalid) EXCEPT
                           !.hasAbcToday = @ \/ (row.contest # None
                               /\ jstDateKey(row.contest.startTime) = jstDateKey(now))]
          /\ lost' = (lost \/ row.lost)
    /\ index' = index + 1
    /\ UNCHANGED <<now, document, place, candidates, deduplicated, conflictingIds>>

\* The end of the loop, or no result to loop over.
LeaveDaily ==
    /\ place = "daily"
    /\ \/ index > Len(DailyRows) /\ UNCHANGED result
       \/ index = 1 /\ result' = Flagged(TRUE)
    /\ place' = "deduplicate"
    /\ index' = 1
    /\ UNCHANGED <<now, document, candidates, deduplicated, conflictingIds, lost>>

Existing == {c \in deduplicated : c.id = candidates[index].id}

\* Mutant: the first of two rows wins.
DeduplicateFirstWins ==
    /\ place = "deduplicate" /\ index <= Len(candidates)
    /\ deduplicated' = IF Existing = {} THEN deduplicated \cup {candidates[index]}
                       ELSE deduplicated
    /\ index' = index + 1
    /\ UNCHANGED <<now, document, place, candidates, conflictingIds, result, lost>>

Deduplicate ==
    /\ place = "deduplicate" /\ index <= Len(candidates)
    /\ deduplicated' = IF Existing = {} THEN deduplicated \cup {candidates[index]}
                       ELSE deduplicated
    /\ conflictingIds' = conflictingIds \cup {c.id : c \in Existing \ {candidates[index]}}
    /\ index' = index + 1
    /\ UNCHANGED <<now, document, place, candidates, result, lost>>

Finish ==
    /\ place = "deduplicate" /\ index > Len(candidates)
    /\ result' = [Flagged(conflictingIds # {}) EXCEPT
                     !.contests = {c \in deduplicated : c.id \notin conflictingIds}]
    /\ place' = "done"
    /\ UNCHANGED <<now, document, index, candidates, deduplicated, conflictingIds, lost>>

ParserNext ==
    ReadUpcoming \/ CheckTables \/ ReadDaily \/ LeaveDaily \/ Deduplicate \/ Finish

-----------------------------------------------------------------------------
(* Properties.                                                             *)

Candidates == {candidates[i] : i \in DOMAIN candidates}

Conflicting(id) == \E c, d \in Candidates : c.id = id /\ d.id = id /\ c # d

\* Of the rows for one contest either all agree and the contest is reported
\* once, or it is not reported at all and the page is flagged: which row comes
\* first never decides (atcoder_html_parser.cpp:267-294).
ConflictsDropped ==
    place = "done" /\ result.tableFound =>
        /\ result.contests = {c \in Candidates : ~Conflicting(c.id)}
        /\ (\E c \in Candidates : Conflicting(c.id)) => result.hasInvalidAbcRows

ShownContests(rows) ==
    {RowContest(rows[i]) : i \in {j \in DOMAIN rows : Readable(rows[j])}}

ShownAhead == {c \in ShownContests(document.upcoming) : c.startTime > now}

ShownToday ==
    \E c \in ShownContests(DailyRows) : jstDateKey(c.startTime) = jstDateKey(now)

\* What is reported is on the page; and if nothing is flagged, then everything
\* on the page was read: both sections are there, every row of a contest is
\* readable, all contests ahead are reported and today's is seen
\* (atcoder_html_parser.cpp:218-265), unless an allocation failed unnoticed.
ReadingIsTrue ==
    place = "done" /\ result.tableFound =>
        /\ result.contests \subseteq ShownAhead
        /\ result.hasAbcToday => ShownToday
        /\ ~result.hasInvalidAbcRows /\ ~lost =>
              /\ document.tables = 2
              /\ \A i \in DOMAIN DailyRows :
                    Recognized(DailyRows[i]) => Readable(DailyRows[i])
              /\ result.contests = ShownAhead
              /\ ShownToday => result.hasAbcToday

ParserTypeOK ==
    /\ now \in RequestTimes
    /\ place \in {"idle", "upcoming", "daily", "deduplicate", "done"}
    /\ index \in Nat \ {0}
    /\ candidates \in Seq([id : Ids, startTime : Int, endTime : Int])
    /\ deduplicated \subseteq Candidates
    /\ conflictingIds \subseteq Ids
    /\ result \in [tableFound : BOOLEAN, contests : SUBSET Candidates,
                   hasInvalidAbcRows : BOOLEAN, hasAbcToday : BOOLEAN]
    /\ lost \in BOOLEAN
=============================================================================
