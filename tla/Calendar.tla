------------------------------ MODULE Calendar ------------------------------
(***************************************************************************)
(* How src/src/atcoder_html_parser.cpp turns the text of a time cell and of  *)
(* a duration cell into seconds.  A cell is the numbers its pattern picks   *)
(* out of the text, and whether the text has the pattern's form at all.    *)
(***************************************************************************)
EXTENDS Integers

\* "2028-02-29 21:00:00+0900"
TimeCells ==
    [matches : BOOLEAN,
     year : 0 .. 9999, month : 0 .. 99, day : 0 .. 99,
     hour : 0 .. 99, minute : 0 .. 99, second : 0 .. 99,
     sign : {1, -1}, offsetHour : 0 .. 99, offsetMinute : 0 .. 99]

\* "01:40"
DurationCells == [matches : BOOLEAN, hours : 0 .. 999, minutes : 0 .. 99]

-----------------------------------------------------------------------------

LeapYear(year) == (year % 4 = 0 /\ year % 100 # 0) \/ year % 400 = 0

DaysInMonth(year, month) ==
    CASE month = 2              -> IF LeapYear(year) THEN 29 ELSE 28
      [] month \in {4, 6, 9, 11} -> 30
      [] OTHER                  -> 31

\* The day number, 0 on 1970-01-01, counted from March in eras of 400 years.
daysFromCivil(year, month, day) ==
    LET y            == IF month <= 2 THEN year - 1 ELSE year
        era          == y \div 400
        yearOfEra    == y % 400
        shiftedMonth == IF month > 2 THEN month - 3 ELSE month + 9
        dayOfYear    == (153 * shiftedMonth + 2) \div 5 + day - 1
    IN  era * 146097 + yearOfEra * 365 + yearOfEra \div 4 - yearOfEra \div 100
          + dayOfYear - 719468

IsDate(year, month, day) ==
    /\ year >= 2000
    /\ month \in 1 .. 12
    /\ day \in 1 .. DaysInMonth(year, month)

\* parseTimestamp returns a value exactly for these cells.  Its last check, that
\* the day does not run over the month, can no longer fail (DaysWithinMonth of
\* ReadingProofs).
IsTimestamp(cell) ==
    /\ cell.matches
    /\ IsDate(cell.year, cell.month, cell.day)
    /\ cell.hour <= 23 /\ cell.minute <= 59 /\ cell.second <= 59
    /\ cell.offsetHour <= 23 /\ cell.offsetMinute <= 59

parseTimestamp(cell) ==
    daysFromCivil(cell.year, cell.month, cell.day) * 86400
      + cell.hour * 3600 + cell.minute * 60 + cell.second
      - cell.sign * (cell.offsetHour * 60 + cell.offsetMinute) * 60

IsDuration(cell) == cell.matches /\ cell.minutes <= 59

parseDuration(cell) == cell.hours * 3600 + cell.minutes * 60
=============================================================================
