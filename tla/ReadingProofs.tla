---------------------------- MODULE ReadingProofs ----------------------------
(***************************************************************************)
(* What AtCoderHtmlParser::parse reports is on the page, and a page that is *)
(* not flagged was read to its end: for any rows, any number of them and    *)
(* any failed evaluation that the code notices.  The invariant follows the  *)
(* loops over the rows; the duplicate check is RequestProofs'.  First, the  *)
(* calendar arithmetic, for every year from 2000 on, and its agreement with *)
(* the dates of the time service.                                          *)
(***************************************************************************)
EXTENDS RequestProofs


\* The date that follows a date.
FollowingDate(year, month, day) ==
    IF day < DaysInMonth(year, month) THEN <<year, month, day + 1>>
    ELSE IF month < 12 THEN <<year, month + 1, 1>>
    ELSE <<year + 1, 1, 1>>

\* Two dates of a month are as far apart as their days: the last check of
\* parseTimestamp (atcoder_html_parser.cpp:83) never rejects a cell.
THEOREM DaysWithinMonth ==
    ASSUME NEW year \in Nat, NEW month \in 1 .. 12, NEW day \in 1 .. 31
    PROVE  daysFromCivil(year, month, day) = daysFromCivil(year, month, 1) + (day - 1)
BY SMTT(60) DEF daysFromCivil

\* Day numbers are integers.
LEMMA DayIsInteger ==
    ASSUME NEW year \in Int, NEW month \in Int, NEW day \in Int
    PROVE  daysFromCivil(year, month, day) \in Int
BY DEF daysFromCivil

\* The last day of every month but February and the first of the next.
LEMMA MonthEnd ==
    ASSUME NEW year \in Nat, NEW month \in (1 .. 11) \ {2}
    PROVE  daysFromCivil(year, month + 1, 1)
               = daysFromCivil(year, month, DaysInMonth(year, month)) + 1
<1>1. CASE month = 1
  BY <1>1, SMTT(60) DEF daysFromCivil, DaysInMonth
<1>2. CASE month \in {4, 6, 9, 11}
  BY <1>2, SMTT(60) DEF daysFromCivil, DaysInMonth
<1>3. CASE month \in {3, 5, 7, 8, 10}
  BY <1>3, SMTT(60) DEF daysFromCivil, DaysInMonth
<1> QED
  BY <1>1, <1>2, <1>3

\* 28 or 29 February and 1 March, where the year of the computation turns.
LEMMA FebruaryEnd ==
    ASSUME NEW year \in Nat, year >= 2000
    PROVE  daysFromCivil(year, 3, 1)
               = daysFromCivil(year, 2, DaysInMonth(year, 2)) + 1
BY Z3 DEF daysFromCivil, DaysInMonth, LeapYear

\* 31 December and 1 January.
LEMMA YearEnd ==
    ASSUME NEW year \in Nat
    PROVE  daysFromCivil(year + 1, 1, 1) = daysFromCivil(year, 12, 31) + 1
BY SMTT(60) DEF daysFromCivil

\* Consecutive dates get consecutive numbers, in all leap years and centuries
\* and at each turn of a month or year: with day 0 in 1970 daysFromCivil is the
\* number of days since then, so a start time is never off by a day.
THEOREM OneDayAfterAnother ==
    ASSUME NEW year \in Nat, NEW month, NEW day, IsDate(year, month, day),
           NEW next, next = FollowingDate(year, month, day)
    PROVE  daysFromCivil(next[1], next[2], next[3])
               = daysFromCivil(year, month, day) + 1
<1>1. /\ year >= 2000
      /\ month \in 1 .. 12
      /\ day \in 1 .. DaysInMonth(year, month)
      /\ DaysInMonth(year, month) \in 28 .. 31
  BY DEF IsDate, DaysInMonth
<1>2. CASE day < DaysInMonth(year, month)
  <2>1. next = <<year, month, day + 1>>
    BY <1>2 DEF FollowingDate
  <2>2. day \in 1 .. 31 /\ day + 1 \in 1 .. 31
    BY <1>1, <1>2
  <2> QED
    BY <1>1, <2>1, <2>2, DaysWithinMonth DEF daysFromCivil
<1>3. CASE day = DaysInMonth(year, month) /\ month < 12
  <2>1. next = <<year, month + 1, 1>>
    BY <1>1, <1>3 DEF FollowingDate
  <2>2. CASE month = 2
    BY <1>1, <1>3, <2>1, <2>2, FebruaryEnd
  <2>3. CASE month # 2
    <3>1. month \in (1 .. 11) \ {2}
      BY <1>1, <1>3, <2>3
    <3> QED
      BY <1>3, <2>1, <3>1, MonthEnd
  <2> QED
    BY <2>2, <2>3
<1>4. CASE day = DaysInMonth(year, month) /\ month = 12
  <2>1. day = 31
    BY <1>4 DEF DaysInMonth
  <2>2. next = <<year + 1, 1, 1>>
    BY <1>1, <1>4, <2>1 DEF FollowingDate
  <2> QED
    BY <1>4, <2>1, <2>2, YearEnd
<1> QED
  BY <1>1, <1>2, <1>3, <1>4

\* Where the numbers start.
THEOREM EpochDay == daysFromCivil(1970, 1, 1) = 0
BY SMT DEF daysFromCivil

\* A number of days and a time of day make one timestamp, and only one.
LEMMA DaySplit ==
    ASSUME NEW days \in Int, NEW seconds \in Int, 0 <= seconds, seconds < 86400
    PROVE  /\ (days * 86400 + seconds) \div 86400 = days
           /\ (days * 86400 + seconds) % 86400 = seconds
<1>1. (days * 86400 + seconds) \div 86400 = days
  BY SMT
<1>2. (days * 86400 + seconds) % 86400 = seconds
  BY SMT
<1> QED
  BY <1>1, <1>2, SMT

\* The date and the time of day that the time service reads from a start time
\* are the ones the cell shows, if the cell is in Japanese time: the parser and
\* the Saturday check mean the same day by "today".
THEOREM DateOfTimestamp ==
    ASSUME DayLength = 86400, JstOffset = 32400,
           NEW year \in Int, NEW month \in Int, NEW day \in Int,
           NEW hour \in Nat, NEW minute \in Nat, NEW second \in Nat,
           NEW cell, IsTimestamp(cell),
           cell = [matches |-> TRUE, year |-> year, month |-> month, day |-> day,
                   hour |-> hour, minute |-> minute, second |-> second,
                   sign |-> 1, offsetHour |-> 9, offsetMinute |-> 0]
    PROVE  /\ jstDateKey(parseTimestamp(cell)) = daysFromCivil(year, month, day)
           /\ TimeOfDay(parseTimestamp(cell)) = hour * 3600 + minute * 60 + second
<1> DEFINE days == daysFromCivil(year, month, day)
           seconds == hour * 3600 + minute * 60 + second
<1>1. hour <= 23 /\ minute <= 59 /\ second <= 59
  BY SMT DEF IsTimestamp
<1>2. days \in Int
  BY DayIsInteger, SMT
<1>3. seconds \in Int /\ 0 <= seconds /\ seconds < 86400
  BY <1>1, SMT
<1>4. parseTimestamp(cell) = days * 86400 + hour * 3600 + minute * 60 + second - 32400
  BY <1>2, SMT DEF parseTimestamp
<1> HIDE DEF days
<1>5. parseTimestamp(cell) + 32400 = days * 86400 + seconds
  BY <1>2, <1>4, SMT
<1> HIDE DEF seconds
<1>6. /\ (days * 86400 + seconds) \div 86400 = days
      /\ (days * 86400 + seconds) % 86400 = seconds
  BY <1>2, <1>3, DaySplit, SMT
<1>7. jstDateKey(parseTimestamp(cell)) = days
  BY <1>5, <1>6, SMT DEF jstDateKey
<1>8. TimeOfDay(parseTimestamp(cell)) = seconds
  BY <1>5, <1>6, SMT DEF TimeOfDay
<1> QED
  BY <1>7, <1>8, SMT DEF days, seconds

-----------------------------------------------------------------------------
(* The readings.                                                           *)

\* The contests of the first n rows that start after `since`.
ReadUpTo(rows, n, since) ==
    {RowContest(rows[i]) : i \in {j \in 1 .. n : /\ Readable(rows[j])
                                                 /\ RowContest(rows[j]).startTime > since}}

\* Every contest's row among the first n can be read.
AllReadable(rows, n) == \A i \in 1 .. n : Recognized(rows[i]) => Readable(rows[i])

OfToday(contests) == \E c \in contests : jstDateKey(c.startTime) = jstDateKey(now)

Clean == ~result.hasInvalidAbcRows /\ ~lost

\* What the loop over the upcoming rows has done after n of them.
UpcomingRead(n) ==
    /\ Candidates \subseteq ReadUpTo(document.upcoming, n, now)
    /\ Clean => /\ Candidates = ReadUpTo(document.upcoming, n, now)
                /\ AllReadable(document.upcoming, n)

\* What the loop over all rows has done after n of them.
DailyRead(n) ==
    /\ result.hasAbcToday => OfToday(ReadUpTo(DailyRows, n, BeforeToday))
    /\ Clean => /\ OfToday(ReadUpTo(DailyRows, n, BeforeToday)) => result.hasAbcToday
                /\ AllReadable(DailyRows, n)
                /\ document.tables = 2

ReadingInductive ==
    /\ {"contests", "hasInvalidAbcRows", "tableFound", "hasAbcToday"} \subseteq DOMAIN result
    /\ place = "idle" => ~result.tableFound /\ index = 1 /\ candidates = <<>> /\ ~lost
    /\ place \in {"upcoming", "daily", "deduplicate"} => document \in Documents
    /\ place = "upcoming" =>
          /\ index <= Len(document.upcoming) + 1
          /\ UpcomingRead(index - 1)
          /\ ~result.hasAbcToday
    /\ place = "daily" =>
          /\ index <= Len(DailyRows) + 1
          /\ UpcomingRead(Len(document.upcoming))
          /\ DailyRead(index - 1)
    /\ place = "deduplicate" =>
          /\ UpcomingRead(Len(document.upcoming))
          /\ DailyRead(Len(DailyRows))
    /\ ReadingIsTrue

-----------------------------------------------------------------------------
(* Rows.                                                                   *)

\* A document's rows are sequences of rows.
LEMMA DocumentRows ==
    ASSUME document \in Documents
    PROVE  /\ document.upcoming \in Seq(Rows)
           /\ DailyRows \in Seq(Rows)
           /\ Len(document.upcoming) \in Nat /\ Len(DailyRows) \in Nat
           /\ DOMAIN document.upcoming = 1 .. Len(document.upcoming)
           /\ DOMAIN DailyRows = 1 .. Len(DailyRows)
<1>1. /\ document.upcoming \in Seq(Rows)
      /\ document.action \in Seq(Rows)
      /\ document.recent \in Seq(Rows)
  BY DEF Documents
<1>2. document.upcoming \o document.action \in Seq(Rows)
  BY <1>1, ConcatProperties
<1>3. DailyRows \in Seq(Rows)
  BY <1>1, <1>2, ConcatProperties DEF DailyRows
<1> QED BY <1>1, <1>3, LenProperties

\* The numbers of a time cell.
LEMMA CellNumbers ==
    ASSUME NEW cell \in TimeCells
    PROVE  /\ cell.year \in Int /\ cell.month \in Int /\ cell.day \in Int
           /\ cell.hour \in Int /\ cell.minute \in Int /\ cell.second \in Int
           /\ cell.sign \in Int /\ cell.offsetHour \in Int /\ cell.offsetMinute \in Int
<1> DEFINE year == cell.year
<1>1. year \in 0 .. 9999
  BY SMT DEF TimeCells
<1> HIDE DEF year
<1>2. year \in Int
  BY <1>1, SMT
<1>3. cell.year \in Int
  BY <1>2 DEF year
<1>4. cell.month \in Int /\ cell.day \in Int
  BY SMT DEF TimeCells
<1>5. cell.hour \in Int /\ cell.minute \in Int /\ cell.second \in Int
  BY SMT DEF TimeCells
<1>6. cell.sign \in Int
  BY SMT DEF TimeCells
<1>7. cell.offsetHour \in Int /\ cell.offsetMinute \in Int
  BY SMT DEF TimeCells
<1> QED BY <1>3, <1>4, <1>5, <1>6, <1>7

\* The numbers of a duration cell.
LEMMA DurationNumbers ==
    ASSUME NEW cell \in DurationCells
    PROVE  cell.hours \in Int /\ cell.minutes \in Int
<1> DEFINE hours == cell.hours
<1>1. hours \in 0 .. 999
  BY SMT DEF DurationCells
<1> HIDE DEF hours
<1>2. hours \in Int
  BY <1>1, SMT
<1>3. cell.minutes \in Int
  BY SMT DEF DurationCells
<1> QED BY <1>2, <1>3 DEF hours

\* A readable row's contest has numbers for its times.
LEMMA ReadableStart ==
    ASSUME NEW row \in Rows, Readable(row)
    PROVE  RowContest(row).startTime \in Int
<1>1. row.times \in Seq(TimeCells) /\ Len(row.times) = 1
  BY DEF Readable, Rows
<1>2. row.times[1] \in TimeCells
  BY <1>1
<1> DEFINE cell == row.times[1]
<1>3. /\ cell.year \in Int /\ cell.month \in Int /\ cell.day \in Int
      /\ cell.hour \in Int /\ cell.minute \in Int /\ cell.second \in Int
      /\ cell.sign \in Int /\ cell.offsetHour \in Int /\ cell.offsetMinute \in Int
  BY <1>2, CellNumbers
<1>4. daysFromCivil(cell.year, cell.month, cell.day) \in Int
  BY <1>3, DayIsInteger
<1> HIDE DEF cell
<1>5. (cell.offsetHour * 60 + cell.offsetMinute) * 60 \in Int
  BY <1>3, SMT
<1>6. cell.sign * ((cell.offsetHour * 60 + cell.offsetMinute) * 60) \in Int
  BY <1>3, <1>5, SMT
<1>7. parseTimestamp(cell) \in Int
  BY <1>3, <1>4, <1>6, SMT DEF parseTimestamp
<1> QED BY <1>7 DEF RowContest, cell

\* What the next row adds.
LEMMA NextRowRead ==
    ASSUME NEW rows, NEW n \in Nat, NEW since
    PROVE  ReadUpTo(rows, n + 1, since) =
             ReadUpTo(rows, n, since)
               \cup (IF Readable(rows[n + 1]) /\ RowContest(rows[n + 1]).startTime > since
                     THEN {RowContest(rows[n + 1])} ELSE {})
<1>1. 1 .. (n + 1) = (1 .. n) \cup {n + 1}
  OBVIOUS
<1> QED BY <1>1 DEF ReadUpTo

\* And whether it can be read.
LEMMA NextRowReadable ==
    ASSUME NEW rows, NEW n \in Nat
    PROVE  AllReadable(rows, n + 1)
             <=> AllReadable(rows, n) /\ (Recognized(rows[n + 1]) => Readable(rows[n + 1]))
<1>1. 1 .. (n + 1) = (1 .. n) \cup {n + 1}
  OBVIOUS
<1> QED BY <1>1 DEF AllReadable

\* A start on the day of `now` is not before its midnight, the limit that
\* parse hands to parseRow (atcoder_html_parser.cpp:236, 257).
LEMMA TodayIsAfterMidnight ==
    ASSUME NEW s \in Int, NEW t \in Int, jstDateKey(s) = jstDateKey(t)
    PROVE  s > t - TimeOfDay(t) - 1
<1>1. JstOffset \in Int /\ DayLength \in Nat \ {0}
  BY CalendarAssumption
<1>2. PICK a \in Int : a = s + JstOffset
  BY <1>1
<1>3. PICK b \in Int : b = t + JstOffset
  BY <1>1
<1>4. PICK d \in Int : d = b \div DayLength /\ d = a \div DayLength
  BY <1>1, <1>2, <1>3 DEF jstDateKey
<1>5. PICK m \in Int : m = DayLength * d
  BY <1>1
<1>6. a >= m
  BY <1>1, <1>4, <1>5
<1>7. PICK r \in Int : r = b % DayLength /\ b = m + r
  BY <1>1, <1>4, <1>5
<1>8. TimeOfDay(t) = r
  BY <1>3, <1>7 DEF TimeOfDay
<1> QED BY <1>1, <1>2, <1>3, <1>6, <1>7, <1>8

\* A readable row's contest is a record of its id and times.
LEMMA ReadableContest ==
    ASSUME NEW row \in Rows, Readable(row)
    PROVE  RowContest(row) \in [id : Ids, startTime : Int, endTime : Int]
<1>1. row.durations \in Seq(DurationCells) /\ Len(row.durations) = 1
  BY DEF Readable, Rows
<1>2. row.durations[1] \in DurationCells
  BY <1>1
<1>3. row.durations[1].hours \in Int /\ row.durations[1].minutes \in Int
  BY <1>2, DurationNumbers
<1>4. parseDuration(row.durations[1]) \in Int
  BY <1>3, SMT DEF parseDuration
<1>5. parseTimestamp(row.times[1]) \in Int
  BY ReadableStart DEF RowContest
<1>6. row.links[1] \in Ids
  BY DEF Readable
<1> QED BY <1>4, <1>5, <1>6 DEF RowContest

\* A readable row has a contest.
LEMMA ReadableIsSome ==
    ASSUME NEW row \in Rows, Readable(row)
    PROVE  RowContest(row) # None
BY ReadableContest, ParserAssumption

\* What parseRow returns is the row's contest, and nothing is returned for a
\* contest's row without a flag, a lost allocation or a start that is over.
LEMMA RowOutcomes ==
    ASSUME NEW row \in Rows, NEW since, NEW r \in parseRow(row, since)
    PROVE  /\ r.contest # None => /\ Readable(row)
                                  /\ RowContest(row).startTime > since
                                  /\ r.contest = RowContest(row)
           /\ ~r.invalid /\ ~r.lost =>
                 /\ Recognized(row) => Readable(row)
                 /\ Readable(row) /\ RowContest(row).startTime > since => r.contest # None
<1>1. Readable(row) => Recognized(row)
  <2> SUFFICES ASSUME Readable(row) PROVE Recognized(row)
    OBVIOUS
  <2>1. row.links \in Seq(AbcLinks \cup {OtherLink}) /\ Len(row.links) = 1
    BY DEF Rows, Readable
  <2>2. 1 \in DOMAIN row.links
    BY <2>1, LenProperties
  <2>3. row.links[1] \in AbcLinks
    BY DEF Readable, AbcLinks
  <2> QED BY <2>2, <2>3 DEF Recognized
<1>2. Readable(row) => RowContest(row) # None
  BY ReadableIsSome
<1>3. CASE r = [contest |-> IF Readable(row) /\ RowContest(row).startTime > since
                            THEN RowContest(row) ELSE None,
                invalid |-> Recognized(row) /\ ~Readable(row),
                lost    |-> FALSE]
  BY <1>2, <1>3
<1>4. CASE r = [contest |-> None, invalid |-> TRUE, lost |-> FALSE]
  BY <1>4
<1>5. CASE r = [contest |-> None, invalid |-> FALSE, lost |-> Recognized(row)]
  BY <1>1, <1>5
<1> QED BY <1>3, <1>4, <1>5 DEF parseRow

-----------------------------------------------------------------------------
(* The steps of the parser.                                                *)

\* Appending adds one element.
LEMMA CandidateAppended ==
    ASSUME NEW s \in Seq(Candidates), NEW c, NEW t, t = Append(s, c)
    PROVE  {t[i] : i \in DOMAIN t} = {s[i] : i \in DOMAIN s} \cup {c}
<1>1. /\ Len(s) \in Nat /\ DOMAIN s = 1 .. Len(s)
      /\ DOMAIN t = 1 .. (Len(s) + 1)
      /\ t[Len(s) + 1] = c
      /\ \A i \in 1 .. Len(s) : t[i] = s[i]
  BY LenProperties, AppendProperties
<1>2. 1 .. (Len(s) + 1) = (1 .. Len(s)) \cup {Len(s) + 1}
  BY <1>1
<1> QED BY <1>1, <1>2

\* One more upcoming row.
LEMMA ReadUpcomingStep ==
    ASSUME ReadingInductive, ParserInductive, ReadUpcoming
    PROVE  ReadingInductive'
<1> USE DEF ReadingInductive
<1> DEFINE row == document.upcoming[index]
<1>1. /\ place = "upcoming" /\ place' = "upcoming"
      /\ index \in Nat \ {0} /\ index <= Len(document.upcoming)
      /\ index' = index + 1 /\ document' = document /\ now' = now
      /\ document \in Documents
      /\ UpcomingRead(index - 1)
      /\ ~result.hasAbcToday
  BY DEF ReadUpcoming, ParserInductive
<1>2. Len(document.upcoming) \in Nat /\ row \in Rows
  BY <1>1, DocumentRows
<1> HIDE DEF row
<1>3. PICK r \in parseRow(row, now) :
        /\ candidates' = IF r.contest = None THEN candidates
                         ELSE Append(candidates, r.contest)
        /\ result' = Flagged(r.invalid)
        /\ lost' = (lost \/ r.lost)
  BY DEF ReadUpcoming, row
<1>4. Candidates' = IF r.contest = None THEN Candidates ELSE Candidates \cup {r.contest}
  <2>1. candidates \in Seq(Candidates)
    BY DEF ParserInductive
  <2> QED BY <1>3, <2>1, CandidateAppended DEF Candidates
<1>5. /\ DOMAIN result' = DOMAIN result
      /\ result'.hasAbcToday = result.hasAbcToday
      /\ result'.hasInvalidAbcRows = (result.hasInvalidAbcRows \/ r.invalid)
  BY <1>3 DEF Flagged
<1>6. PICK n \in Nat : index = n + 1
  BY <1>1
<1>7. /\ UpcomingRead(n)
      /\ (index - 1)' = n + 1
      /\ row = document.upcoming[n + 1]
  BY <1>1, <1>6 DEF row
<1>8. ReadUpTo(document.upcoming, n + 1, now) =
        ReadUpTo(document.upcoming, n, now)
          \cup (IF Readable(row) /\ RowContest(row).startTime > now
                THEN {RowContest(row)} ELSE {})
  BY <1>7, NextRowRead
<1>9. AllReadable(document.upcoming, n + 1)
        <=> AllReadable(document.upcoming, n) /\ (Recognized(row) => Readable(row))
  BY <1>7, NextRowReadable
<1>10. Clean' <=> Clean /\ ~r.invalid /\ ~r.lost
  BY <1>3, <1>5 DEF Clean
<1>11. UpcomingRead(index - 1)'
  <2>1. Candidates' \subseteq ReadUpTo(document.upcoming, n + 1, now)
    BY <1>2, <1>3, <1>4, <1>7, <1>8, RowOutcomes DEF UpcomingRead
  <2>2. ASSUME Clean'
        PROVE  /\ Candidates' = ReadUpTo(document.upcoming, n + 1, now)
               /\ AllReadable(document.upcoming, n + 1)
    <3>1. Clean /\ ~r.invalid /\ ~r.lost
      BY <1>10, <2>2
    <3>2. /\ Candidates = ReadUpTo(document.upcoming, n, now)
          /\ AllReadable(document.upcoming, n)
      BY <1>7, <3>1 DEF UpcomingRead
    <3> QED BY <1>2, <1>3, <1>4, <1>8, <1>9, <3>1, <3>2, RowOutcomes
  <2>3. /\ Candidates' \subseteq ReadUpTo(document'.upcoming, (index - 1)', now')
        /\ Clean' => /\ Candidates' = ReadUpTo(document'.upcoming, (index - 1)', now')
                     /\ AllReadable(document'.upcoming, (index - 1)')
    BY <1>1, <1>7, <2>1, <2>2
  <2> QED BY <2>3 DEF UpcomingRead, ReadUpTo, AllReadable
<1> QED BY <1>1, <1>2, <1>5, <1>11 DEF ReadingIsTrue

\* What a step leaves of the loop over the upcoming rows.
LEMMA UpcomingKept ==
    ASSUME UpcomingRead(Len(document.upcoming)),
           UNCHANGED <<document, now, candidates>>, Clean' => Clean
    PROVE  UpcomingRead(Len(document.upcoming))'
<1>1. Candidates' = Candidates
  BY DEF Candidates
<1> QED BY <1>1 DEF UpcomingRead, ReadUpTo, AllReadable

\* No row is none.
LEMMA NoRowsRead ==
    ASSUME NEW rows, NEW since
    PROVE  ReadUpTo(rows, 0, since) = {} /\ AllReadable(rows, 0)
<1>1. 1 .. 0 = {}
  OBVIOUS
<1> QED BY <1>1 DEF ReadUpTo, AllReadable

\* The end of the first loop and the count of the tables.
LEMMA CheckTablesStep ==
    ASSUME ReadingInductive, ParserInductive, CheckTables
    PROVE  ReadingInductive'
<1> USE DEF ReadingInductive
<1>1. /\ place = "upcoming" /\ place' = "daily" /\ index' = 1
      /\ index \in Nat \ {0} /\ index <= Len(document.upcoming) + 1
      /\ index = 1 \/ index > Len(document.upcoming)
      /\ lost' = (lost \/ index <= Len(document.upcoming))
      /\ UNCHANGED <<now, document, candidates>>
      /\ document \in Documents /\ UpcomingRead(index - 1) /\ ~result.hasAbcToday
  BY DEF CheckTables, ParserInductive
<1>2. Len(document.upcoming) \in Nat /\ Len(DailyRows) \in Nat
  BY <1>1, DocumentRows
<1>3. PICK evaluated \in BOOLEAN : result' = Flagged(~evaluated \/ document.tables # 2)
  BY DEF CheckTables
<1>4. /\ DOMAIN result' = DOMAIN result
      /\ result'.hasAbcToday = result.hasAbcToday
      /\ ~result'.hasInvalidAbcRows => ~result.hasInvalidAbcRows /\ document.tables = 2
  BY <1>3 DEF Flagged
<1>5. Clean' => Clean /\ document.tables = 2 /\ index > Len(document.upcoming)
  <2>1. Clean' => ~lost /\ ~(index <= Len(document.upcoming))
    BY <1>1, Zenon DEF Clean
  <2>2. Clean' => ~result.hasInvalidAbcRows /\ document.tables = 2
    BY <1>4 DEF Clean
  <2> QED BY <1>1, <1>2, <2>1, <2>2 DEF Clean
<1>6. index > Len(document.upcoming) => index - 1 = Len(document.upcoming)
  BY <1>1, <1>2
<1>7. Candidates \subseteq ReadUpTo(document.upcoming, Len(document.upcoming), now)
  <2>1. CASE index > Len(document.upcoming)
    BY <1>1, <1>6, <2>1 DEF UpcomingRead
  <2>2. CASE index = 1
    BY <1>1, <2>2, NoRowsRead DEF UpcomingRead
  <2> QED BY <1>1, <2>1, <2>2
<1>8. Clean' => /\ Candidates = ReadUpTo(document.upcoming, Len(document.upcoming), now)
                /\ AllReadable(document.upcoming, Len(document.upcoming))
  BY <1>1, <1>5, <1>6 DEF UpcomingRead
<1>9. UpcomingRead(Len(document.upcoming))'
  <2>1. Candidates' = Candidates
    BY <1>1 DEF Candidates
  <2> QED BY <1>1, <1>7, <1>8, <2>1 DEF UpcomingRead, ReadUpTo, AllReadable
<1>10. DailyRead(index - 1)'
  <2>1. (index - 1)' = 0 /\ ~result'.hasAbcToday
    BY <1>1, <1>4
  <2>2. /\ ReadUpTo(DailyRows', 0, BeforeToday') = {}
        /\ AllReadable(DailyRows', 0)
    BY NoRowsRead
  <2>3. ~OfToday(ReadUpTo(DailyRows, index - 1, BeforeToday))'
    BY <2>1, <2>2 DEF OfToday, ReadUpTo
  <2>4. AllReadable(DailyRows, index - 1)'
    BY <2>1, <2>2 DEF AllReadable
  <2>5. Clean' => document'.tables = 2
    BY <1>1, <1>5
  <2> QED BY <2>1, <2>3, <2>4, <2>5 DEF DailyRead
<1>11. index' <= Len(DailyRows') + 1
  <2>1. DailyRows' = DailyRows
    BY <1>1 DEF DailyRows
  <2> QED BY <1>1, <1>2, <2>1
<1> QED BY <1>1, <1>4, <1>9, <1>10, <1>11 DEF ReadingIsTrue

\* One more row of any section.
LEMMA ReadDailyStep ==
    ASSUME ReadingInductive, ParserInductive, ReadDaily
    PROVE  ReadingInductive'
<1> USE DEF ReadingInductive
<1> DEFINE row == DailyRows[index]
           since == BeforeToday
<1>1. /\ place = "daily" /\ place' = "daily"
      /\ index \in Nat \ {0} /\ index <= Len(DailyRows)
      /\ index' = index + 1
      /\ UNCHANGED <<now, document, candidates>>
      /\ document \in Documents
      /\ UpcomingRead(Len(document.upcoming)) /\ DailyRead(index - 1)
  BY DEF ReadDaily, ParserInductive
<1>2. Len(DailyRows) \in Nat /\ row \in Rows
  BY <1>1, DocumentRows
<1>3. DailyRows' = DailyRows /\ BeforeToday' = since
  BY <1>1 DEF DailyRows, BeforeToday, TimeOfDay
<1>4. PICK r \in parseRow(row, since) :
        /\ result' = [Flagged(r.invalid) EXCEPT
                         !.hasAbcToday = @ \/ (r.contest # None
                             /\ jstDateKey(r.contest.startTime) = jstDateKey(now))]
        /\ lost' = (lost \/ r.lost)
  BY DEF ReadDaily
<1> HIDE DEF row, since
<1>5. /\ DOMAIN result' = DOMAIN result
      /\ result'.hasInvalidAbcRows = (result.hasInvalidAbcRows \/ r.invalid)
      /\ result'.hasAbcToday = (result.hasAbcToday \/ (r.contest # None
                                  /\ jstDateKey(r.contest.startTime) = jstDateKey(now)))
  BY <1>4 DEF Flagged
<1>6. PICK n \in Nat : index = n + 1
  BY <1>1
<1>7. /\ DailyRead(n)
      /\ (index - 1)' = n + 1
      /\ row = DailyRows[n + 1]
  BY <1>1, <1>6 DEF row
<1>8. ReadUpTo(DailyRows, n + 1, since) =
        ReadUpTo(DailyRows, n, since)
          \cup (IF Readable(row) /\ RowContest(row).startTime > since
                THEN {RowContest(row)} ELSE {})
  BY <1>7, NextRowRead
<1>9. AllReadable(DailyRows, n + 1)
        <=> AllReadable(DailyRows, n) /\ (Recognized(row) => Readable(row))
  BY <1>7, NextRowReadable
<1>10. Clean' => Clean /\ ~r.invalid /\ ~r.lost
  BY <1>4, <1>5 DEF Clean
<1>11. result'.hasAbcToday => OfToday(ReadUpTo(DailyRows, n + 1, since))
  BY <1>2, <1>5, <1>7, <1>8, RowOutcomes DEF DailyRead, OfToday, since
<1>12. Clean' => /\ OfToday(ReadUpTo(DailyRows, n + 1, since)) => result'.hasAbcToday
                 /\ AllReadable(DailyRows, n + 1)
                 /\ document.tables = 2
  <2> SUFFICES ASSUME Clean'
               PROVE  /\ OfToday(ReadUpTo(DailyRows, n + 1, since)) => result'.hasAbcToday
                      /\ AllReadable(DailyRows, n + 1)
                      /\ document.tables = 2
    OBVIOUS
  <2>1. /\ OfToday(ReadUpTo(DailyRows, n, since)) => result.hasAbcToday
        /\ AllReadable(DailyRows, n)
        /\ document.tables = 2
    BY <1>7, <1>10 DEF DailyRead, since
  <2>2. AllReadable(DailyRows, n + 1)
    BY <1>2, <1>9, <1>10, <2>1, RowOutcomes
  <2>3. Readable(row) /\ RowContest(row).startTime > since => r.contest = RowContest(row)
                                                              /\ r.contest # None
    BY <1>2, <1>10, RowOutcomes
  <2>4. OfToday(ReadUpTo(DailyRows, n + 1, since)) => result'.hasAbcToday
    BY <1>5, <1>8, <2>1, <2>3 DEF OfToday
  <2> QED BY <2>1, <2>2, <2>4
<1>13. DailyRead(index - 1)'
  <2>1. /\ ReadUpTo(DailyRows, index - 1, BeforeToday)' = ReadUpTo(DailyRows, n + 1, since)
        /\ AllReadable(DailyRows, index - 1)' = AllReadable(DailyRows, n + 1)
    BY <1>3, <1>7 DEF ReadUpTo, AllReadable
  <2>2. OfToday(ReadUpTo(DailyRows, index - 1, BeforeToday))'
          <=> OfToday(ReadUpTo(DailyRows, n + 1, since))
    BY <1>1, <2>1 DEF OfToday
  <2> QED BY <1>1, <1>11, <1>12, <2>1, <2>2 DEF DailyRead
<1>14. UpcomingRead(Len(document.upcoming))'
  BY <1>1, <1>10, UpcomingKept
<1>15. index' <= Len(DailyRows') + 1
  BY <1>1, <1>2, <1>3
<1> QED BY <1>1, <1>5, <1>13, <1>14, <1>15 DEF ReadingIsTrue

\* What a step leaves of the loop over all rows.
LEMMA DailyKept ==
    ASSUME DailyRead(Len(DailyRows)), UNCHANGED <<document, now>>,
           result'.hasAbcToday = result.hasAbcToday, Clean' => Clean
    PROVE  DailyRead(Len(DailyRows))'
<1>1. DailyRows' = DailyRows /\ BeforeToday' = BeforeToday
  BY DEF DailyRows, BeforeToday, TimeOfDay
<1>2. /\ ReadUpTo(DailyRows, Len(DailyRows), BeforeToday)'
           = ReadUpTo(DailyRows, Len(DailyRows), BeforeToday)
      /\ AllReadable(DailyRows, Len(DailyRows))' = AllReadable(DailyRows, Len(DailyRows))
  BY <1>1 DEF ReadUpTo, AllReadable
<1>3. OfToday(ReadUpTo(DailyRows, Len(DailyRows), BeforeToday))'
        <=> OfToday(ReadUpTo(DailyRows, Len(DailyRows), BeforeToday))
  BY <1>2 DEF OfToday
<1> QED BY <1>2, <1>3 DEF DailyRead

\* The end of the second loop.
LEMMA LeaveDailyStep ==
    ASSUME ReadingInductive, ParserInductive, LeaveDaily
    PROVE  ReadingInductive'
<1> USE DEF ReadingInductive
<1>1. /\ place = "daily" /\ place' = "deduplicate" /\ index \in Nat \ {0}
      /\ index <= Len(DailyRows) + 1
      /\ UNCHANGED <<now, document, candidates, lost>>
      /\ document \in Documents
      /\ UpcomingRead(Len(document.upcoming)) /\ DailyRead(index - 1)
  BY DEF LeaveDaily, ParserInductive
<1>2. Len(DailyRows) \in Nat
  BY <1>1, DocumentRows
<1>3. \/ index > Len(DailyRows) /\ result' = result
      \/ index = 1 /\ result' = Flagged(TRUE)
  BY DEF LeaveDaily
<1>4. /\ DOMAIN result' = DOMAIN result
      /\ result'.hasAbcToday = result.hasAbcToday
      /\ Clean' => Clean /\ index > Len(DailyRows)
  BY <1>1, <1>3 DEF Flagged, Clean
<1>5. UpcomingRead(Len(document.upcoming))'
  BY <1>1, <1>4, UpcomingKept
<1>6. DailyRead(Len(DailyRows))'
  <2>1. CASE index > Len(DailyRows)
    <3>1. index - 1 = Len(DailyRows)
      BY <1>1, <1>2, <2>1
    <3> QED BY <1>1, <1>4, <3>1, DailyKept
  <2>2. CASE index = 1 /\ ~Clean'
    <3>1. ~result.hasAbcToday
      BY <1>1, <2>2, NoRowsRead DEF DailyRead, OfToday
    <3> QED BY <1>4, <2>2, <3>1 DEF DailyRead
  <2> QED BY <1>3, <1>4, <2>1, <2>2
<1> QED BY <1>1, <1>4, <1>5, <1>6 DEF ReadingIsTrue

\* The duplicate check reads no row.
LEMMA DeduplicateReads ==
    ASSUME ReadingInductive, Deduplicate
    PROVE  ReadingInductive'
<1> USE DEF ReadingInductive
<1>1. /\ place = "deduplicate" /\ place' = "deduplicate"
      /\ UNCHANGED <<now, document, candidates, result, lost>>
  BY DEF Deduplicate
<1>2. Clean' => Clean
  BY <1>1 DEF Clean
<1>3. UpcomingRead(Len(document.upcoming))' /\ DailyRead(Len(DailyRows))'
  BY <1>1, <1>2, UpcomingKept, DailyKept
<1> QED BY <1>1, <1>3 DEF ReadingIsTrue

\* The contests a page shows are those of its readable rows.
LEMMA ShownIsRead ==
    ASSUME document \in Documents, now \in Int
    PROVE  /\ ReadUpTo(document.upcoming, Len(document.upcoming), now) = ShownAhead
           /\ OfToday(ReadUpTo(DailyRows, Len(DailyRows), BeforeToday)) <=> ShownToday
           /\ AllReadable(DailyRows, Len(DailyRows)) =>
                 \A i \in DOMAIN DailyRows : Recognized(DailyRows[i]) => Readable(DailyRows[i])
<1>1. /\ DOMAIN document.upcoming = 1 .. Len(document.upcoming)
      /\ DOMAIN DailyRows = 1 .. Len(DailyRows)
      /\ \A i \in DOMAIN DailyRows : DailyRows[i] \in Rows
  BY DocumentRows
<1>2. ReadUpTo(document.upcoming, Len(document.upcoming), now) = ShownAhead
  BY <1>1 DEF ReadUpTo, ShownAhead, ShownContests
<1>3. ASSUME NEW i \in DOMAIN DailyRows, Readable(DailyRows[i]),
             jstDateKey(RowContest(DailyRows[i]).startTime) = jstDateKey(now)
      PROVE  RowContest(DailyRows[i]).startTime > BeforeToday
  <2>1. RowContest(DailyRows[i]).startTime \in Int
    BY <1>1, <1>3, ReadableStart
  <2> QED BY <1>3, <2>1, TodayIsAfterMidnight DEF BeforeToday
<1>4. OfToday(ReadUpTo(DailyRows, Len(DailyRows), BeforeToday)) <=> ShownToday
  BY <1>1, <1>3 DEF OfToday, ReadUpTo, ShownToday, ShownContests
<1> QED BY <1>1, <1>2, <1>4 DEF AllReadable

\* The end of parse.
LEMMA FinishReads ==
    ASSUME ReadingInductive, ParserInductive, now \in Int, Finish
    PROVE  ReadingInductive'
<1> USE DEF ReadingInductive
<1>1. /\ place = "deduplicate" /\ place' = "done"
      /\ UNCHANGED <<now, document, candidates, lost>>
      /\ document \in Documents
      /\ UpcomingRead(Len(document.upcoming)) /\ DailyRead(Len(DailyRows))
  BY DEF Finish
<1>2. /\ DOMAIN result' = DOMAIN result
      /\ result'.hasAbcToday = result.hasAbcToday
      /\ ~result'.hasInvalidAbcRows => ~result.hasInvalidAbcRows
  BY DEF Finish, Flagged
<1>3. ConflictsDropped'
  BY ParserStep DEF ParserNext, ParserInductive
<1>4. Candidates' = Candidates /\ DailyRows' = DailyRows
  BY <1>1 DEF Candidates, DailyRows
<1>5. ASSUME result'.tableFound
      PROVE  /\ result'.contests = {c \in Candidates : ~Conflicting(c.id)'}
             /\ ~result'.hasInvalidAbcRows => result'.contests = Candidates
  BY <1>1, <1>3, <1>4, <1>5 DEF ConflictsDropped
<1>6. Clean' => Clean
  BY <1>1, <1>2 DEF Clean
<1>7. ShownAhead' = ShownAhead /\ (ShownToday' <=> ShownToday)
  BY <1>1, <1>4 DEF ShownAhead, ShownToday, ShownContests
<1>8. /\ Candidates \subseteq ShownAhead
      /\ Clean => Candidates = ShownAhead
  BY <1>1, ShownIsRead DEF UpcomingRead
<1>9. /\ result.hasAbcToday => ShownToday
      /\ Clean => /\ ShownToday => result.hasAbcToday
                  /\ document.tables = 2
                  /\ \A i \in DOMAIN DailyRows :
                        Recognized(DailyRows[i]) => Readable(DailyRows[i])
  BY <1>1, ShownIsRead DEF DailyRead
<1>10. ReadingIsTrue'
  <2> SUFFICES ASSUME result'.tableFound
               PROVE  /\ result'.contests \subseteq ShownAhead'
                      /\ result'.hasAbcToday => ShownToday'
                      /\ Clean' =>
                            /\ document'.tables = 2
                            /\ \A i \in DOMAIN DailyRows' :
                                  Recognized(DailyRows'[i]) => Readable(DailyRows'[i])
                            /\ result'.contests = ShownAhead'
                            /\ ShownToday' => result'.hasAbcToday
    BY DEF ReadingIsTrue, Clean
  <2>1. ~result'.hasInvalidAbcRows => result'.contests = Candidates
    BY <1>5
  <2>2. result'.contests \subseteq Candidates
    BY <1>5
  <2>3. Clean' => ~result'.hasInvalidAbcRows
    BY DEF Clean
  <2> QED BY <1>1, <1>2, <1>4, <1>6, <1>7, <1>8, <1>9, <2>1, <2>2, <2>3
<1> QED BY <1>1, <1>2, <1>10

\* Every step of the two requests.
LEMMA RequestStepOfReading ==
    ASSUME ReadingInductive, ParserInductive, now \in Int, [Next]_vars
    PROVE  ReadingInductive'
<1> USE DEF ReadingInductive
<1>1. CASE UNCHANGED parserVars
  <2>1. UNCHANGED <<now, document, place, index, candidates, result, lost>>
    BY <1>1 DEF parserVars
  <2>2. /\ DailyRows' = DailyRows /\ Candidates' = Candidates /\ Clean' = Clean
        /\ BeforeToday' = BeforeToday
    BY <2>1 DEF DailyRows, Candidates, Clean, BeforeToday, TimeOfDay
  <2>3. /\ UpcomingRead(index - 1)' = UpcomingRead(index - 1)
        /\ UpcomingRead(Len(document.upcoming))' = UpcomingRead(Len(document.upcoming))
    BY <2>1, <2>2 DEF UpcomingRead, ReadUpTo, AllReadable
  <2>4. /\ DailyRead(index - 1)' = DailyRead(index - 1)
        /\ DailyRead(Len(DailyRows))' = DailyRead(Len(DailyRows))
    BY <2>1, <2>2 DEF DailyRead, OfToday, ReadUpTo, AllReadable
  <2>5. ReadingIsTrue'
    BY <2>1, <2>2 DEF ReadingIsTrue, ShownAhead, ShownToday, ShownContests
  <2> QED BY <2>1, <2>2, <2>3, <2>4, <2>5
<1>2. CASE NothingToRead
  <2>1. place = "idle" /\ place' = "done" /\ UNCHANGED result
    BY <1>2 DEF NothingToRead, FetchReturns, Unreadable
  <2> QED BY <2>1 DEF ReadingIsTrue
<1>3. CASE ReadPage
  <2>1. PICK doc : Open(doc)
    BY <1>3 DEF ReadPage
  <2>2. /\ place = "idle" /\ place' = "upcoming"
        /\ UNCHANGED <<now, index, candidates, lost>>
        /\ document' \in Documents
        /\ result' = Parsed({}, FALSE, FALSE)
    BY <1>3, <2>1 DEF ReadPage, FetchReturns, Open
  <2>3. /\ {"contests", "hasInvalidAbcRows", "tableFound", "hasAbcToday"}
              \subseteq DOMAIN result'
        /\ ~result'.hasAbcToday
    BY <2>2 DEF Parsed
  <2>4. (index - 1)' = 0 /\ Candidates' = {}
    BY <2>2 DEF Candidates
  <2>5. UpcomingRead(index - 1)'
    BY <2>4, NoRowsRead DEF UpcomingRead, ReadUpTo, AllReadable
  <2>6. index' <= Len(document'.upcoming) + 1
    <3>1. document'.upcoming \in Seq(Rows)
      BY <2>2 DEF Documents
    <3> QED BY <2>2, <3>1, LenProperties
  <2> QED BY <2>2, <2>3, <2>5, <2>6 DEF ReadingIsTrue
<1>4. CASE Parse
  BY <1>4, ReadUpcomingStep, CheckTablesStep, ReadDailyStep, LeaveDailyStep,
     DeduplicateReads, FinishReads DEF Parse, ParserNext
<1> QED
  BY <1>1, <1>2, <1>3, <1>4 DEF Next, Transfer, vars

\* The parser starts with nothing.
LEMMA InitOfReading == Init => ReadingInductive
<1> SUFFICES ASSUME Init
             PROVE  ReadingInductive
  OBVIOUS
<1>1. place = "idle" /\ index = 1 /\ candidates = <<>> /\ lost = FALSE /\ result = NoTable
  BY DEF Init, ParserInit
<1> QED
  BY <1>1 DEF ReadingInductive, ReadingIsTrue, NoTable

\* The caller's time is a number and stays the same.
LEMMA NowIsNumber == Spec => [](now \in Int)
<1>1. Init => now \in Int
  BY ParserAssumption DEF Init, ParserInit
<1>2. now \in Int /\ [Next]_vars => (now \in Int)'
  <2> SUFFICES ASSUME now \in Int, [Next]_vars
               PROVE  now' = now
    OBVIOUS
  <2>1. CASE UNCHANGED parserVars
    BY <2>1 DEF parserVars
  <2>2. CASE NothingToRead
    BY <2>2 DEF NothingToRead, Unreadable
  <2>3. CASE ReadPage
    BY <2>3 DEF ReadPage, Open
  <2>4. CASE Parse
    BY <2>4
       DEF Parse, ParserNext, ReadUpcoming, CheckTables, ReadDaily, LeaveDaily,
           Deduplicate, Finish
  <2> QED BY <2>1, <2>2, <2>3, <2>4 DEF Next, Transfer, vars
<1> QED BY <1>1, <1>2, PTL DEF Spec

\* What the parser reports is on the page, and a page without a flag was read
\* to its end, for any rows in any order (atcoder_html_parser.cpp:218-294).
THEOREM ReadingsAreTrue == Spec => []ReadingIsTrue
<1>1. Spec => []ReadingInductive
  BY InitOfReading, RequestStepOfReading, ParserAlways, NowIsNumber, PTL DEF Spec
<1>2. ReadingInductive => ReadingIsTrue
  BY DEF ReadingInductive
<1> QED BY <1>1, <1>2, PTL
=============================================================================
