---------------------------- MODULE SchedulePage ----------------------------
(***************************************************************************)
(* AtCoder's schedule page and what AtCoderClient::fetch may read from it.  *)
(*                                                                         *)
(* The page lists each contest in the section its state calls for when      *)
(* AtCoder renders it: upcoming, running or recently ended.  That is after  *)
(* `now`, which the caller read before the request.  HtmlParser and         *)
(* HttpTransfer produce these readings row by row and byte by byte.        *)
(***************************************************************************)
EXTENDS ReminderPolicy, TimeService

VARIABLE page   \* the slot of each listed id, or None

Listed == {id \in Ids : page[id] # None}

Listing(id) == Contest(id, page[id])

\* The contests of some rows that a caller's time t and a page rendered at time
\* seen both take for upcoming.
Upcoming(rows, t, seen) ==
    {Listing(id) : id \in {r \in rows : page[r][1] > t /\ page[r][1] > seen}}

AbcToday(t) == \E id \in Listed : jstDateKey(page[id][1]) = jstDateKey(t)

\* ParseResult.
Parsed(contests, invalid, today) ==
    [tableFound        |-> TRUE,
     contests          |-> contests,
     hasInvalidAbcRows |-> invalid,
     hasAbcToday       |-> today]

NoTable == [tableFound |-> FALSE, contests |-> {},
            hasInvalidAbcRows |-> FALSE, hasAbcToday |-> FALSE]

\* There is no table, or everything is read, or some rows are not and the result
\* is flagged, which leaves hasAbcToday open.
Readings(t, seen) ==
    {NoTable, Parsed(Upcoming(Listed, t, seen), FALSE, AbcToday(t))}
        \cup UNION {{Parsed(Upcoming(rows, t, seen), TRUE, today) : today \in BOOLEAN} :
                       rows \in SUBSET Listed}
=============================================================================
