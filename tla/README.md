# AtCoder ABC reminder: a TLA+ model

This directory specifies, model-checks and proves properties of the service in this
repository: one process that polls AtCoder's schedule page, keeps one contest of the
ABC series as its *target*, and posts to a Discord webhook a reminder two hours before
the contest, a correction if the contest is moved after that, a notice of the next
contest once one has ended, and on Saturday evenings a note if there is no ABC that day.
Everything it must remember is in one SQLite database.

Line numbers below are those of `src/src/*.cpp` in this repository.

## 1. The system

| part | state it keeps | operations | talks to |
|---|---|---|---|
| main loop, `main.cpp` | locals of `run()`: the target `state`, three timers, the failure count, what was fetched last, two "already asked" marks; per iteration `now`, `allowNotificationAction`, `weeklyCheckPending` | one iteration every 30 s: read the clock, maybe fetch, Saturday check, notice block, reminder block, sleep | all others, by synchronous calls |
| reminder policy, `reminder_policy.cpp` | none | reminder time, send window, successor of an ended target, check interval, message key | called by the loop |
| state repository, `state_repository.cpp` | four tables: `current_contest` (one row), `notification_history`, `weekly_absence_checks`, `next_contest_notices` | `save`, `clear`, `markPending`, `markSent`, `advanceToNextContest`, `refreshNextContestNotice`, `markNextContestNotice{Sent,Skipped}`, `markWeeklyCheckCompleted`, and the loads | SQLite, WAL, `synchronous=FULL` |
| Discord client, `discord_client.cpp` | none | `send`: two configuration checks, a POST, classification of the answer as sent, retryable or configuration error | HTTP client |
| AtCoder client and parser, `atcoder_client.cpp`, `atcoder_html_parser.cpp` | locals of `parse`: the candidates, the kept ones, the conflicting ids, the result | GET, then the rows of the schedule tables as contests with two flags (rows that could not be read; an ABC today) | HTTP client, libxml2 |
| time service, `time_service.cpp` | none | plausible clock, JST date, "is it Saturday from 19:00" | system clock |
| message template, `message_template.cpp` | none | the three texts | |
| HTTP client, `http_client.cpp` | `TransferContext` of one transfer: the body so far | one libcurl transfer with a time limit, a size limit, redirects for GET only, and a check of where it ended | network, through callbacks from libcurl |
| configuration, systemd unit | environment variables | | systemd restarts the process after a failure |

**How they interact.** There is one thread and no callback into the loop; libcurl's
callbacks only fill the body of the transfer they belong to. All the
concurrency is between that thread and what surrounds it: time that passes while a
request blocks (30 s each; up to three requests in an iteration that latched `now` once)
or SQLite waits for a lock (up to 5 s each, `state_repository.cpp:82`),
AtCoder editing the schedule between and during fetches, Discord delivering a message
whose answer is lost, SQLite failing at any statement, and the process dying at any
point, with only the committed tables left.

**What is hard.** (a) Memory is updated before, after or instead of the database
depending on the branch: `main.cpp:248` only logs a failed save, `357-366` works on a
copy, `228-230` lets the database decide. (b) Eight status fields of the target are
changed by reschedules, sends, failures and restarts in any order. (c) Three timers
drive each other: the notice retry pulls the fetch timer forward, the backoff pushes it
away, the end of the target and the Saturday check reset it once each. (d) A POST has an
outcome nobody knows. (e) A notice is confirmed against a list an earlier iteration
fetched. (f) Only one pending notice is looked at. (g) `now` is older than everything it
is compared with: the page is rendered after it, the messages leave after it. (h) All
timers are wall-clock times, and the wall clock can be set back. (i) A page can be cut
off, redirected, changed in one section or contradict itself, and must then never look
like a complete page with fewer contests.

**What makes each part correct.**
- loop: records, memory and channel agree whatever fails (`SentMeansPosted`,
  `PostedMeansRecorded`, `RestartKeepsProgress`, `RecordsNeverRegress`); the status
  fields stay meaningful (`StatusCoherent`); reminders leave in their window, are not
  repeated and not dropped (`NormalInWindow`, `NormalNotRepeated`, `DueReminderRetried`);
  notices tell the confirmed schedule (`NoticeMatchesRow`); the Saturday note is true and
  not repeated once recorded (`AbsencePostsAreTrue`, `AbsenceNotRepeated`); AtCoder is not
  asked on every poll, whichever of the steps of an iteration failed (`FetchesApart`), and
  the timers stay bounded when the clock is set back (`TimersBounded`); the
  service always moves on (`TargetChosen`, `TargetFollowed`, `NoticesResolved`);
- repository: every call is all or nothing and its return value tells which
  (`ImplementsStore` and the three other properties of `SqliteRepository`);
- policy: the choices are well defined and have the order's properties (`EarliestIsMember`,
  `NextContestFollows`, `FirstPendingIsPending`);
- Discord client: only a 2xx counts as sent (`SentMeansPosted` depends on it);
- AtCoder client, parser, HTTP client: an answer is a true reading of the page, or flagged,
  or an error (`ImplementsAnswers`, `ReadingIsTrue`); a body is complete and within its limit
  (`CompleteOrError`, `BodyBounded`); rows that contradict each other drop their contest in
  any order (`ConflictsDropped`); a request ends (`RequestEnds`);
- time: the calendar arithmetic of the parser agrees with the dates of the time service
  (`OneDayAfterAnother`, `DateOfTimestamp`).

## 2. Modules

```
ReminderPolicy <- StateStore <- AtomicStore
     ^               ^  ^-------- SqliteRepository (INSTANCE AtomicStore) <- MCSqliteRepository
     |               |
SchedulePage ------> ReminderLoop <--- DiscordClient
 (TimeService)       ^-- ReminderSafety <- MCReminderLoop
     |               |        ^-- ReminderPace <- MCReminderPace
     |               |        ^-- ReminderClaims <- MCReminderClaims
     |               |        ^-- ReminderClock <- MCReminderClock
     |               ^-- ReminderLiveness <- MCReminderLive
     |
     +-----> HtmlParser <- Calendar    DiscordClient <- HttpTransfer
     |           ^                                          ^
     |           +------------- ServiceRequests ------------+  <- MCServiceRequests
     +-----> RequestAnswers      (INSTANCE RequestAnswers)

the theorems, and what each module of them is about:
StoreProofs (ReminderPolicy, StateStore) <- SqliteProofs (SqliteRepository)
   ^-- ReminderLoopProofs (ReminderSafety) <- ReminderRecordProofs (the same, ReminderPace, INSTANCE AtomicStore)
                                                 ^-- ClockProofs (ReminderClock)
RequestProofs (HttpTransfer, HtmlParser) <- ReadingProofs (the parser, Calendar, TimeService)
                                                 ^-- AnswerProofs (ServiceRequests)
```

| module | models | correspondence |
|---|---|---|
| `ReminderPolicy` | `reminder_policy.cpp`, `domain.hpp` | one operator per function with the function's name. A contest is its id with start and end; number and url depend on the id. Ids are ranks in the order of their texts, since the code compares ids as strings. `lastFetchedAt` and `updatedAt` are read by no decision; the one use of `updatedAt` (as "now" in `advanceToNextContest`) is a parameter |
| `TimeService` | `time_service.cpp` | dates are day numbers, `Weekday` and `TimeOfDay` the fields `tm_wday` and the time of day; lengths are constants |
| `DiscordClient` | `discord_client.cpp` | `Classify` is the chain of conditions at lines 63-85; `WebhookResponses` (external) pairs each answer with whether the message is in the channel |
| `StateStore` | what `state_repository.cpp` promises | four variables for the four tables, each member function one atomic action, early returns and `WHERE` clauses as guards, `INSERT OR IGNORE` and "update of nothing succeeds" as in the SQL |
| `AtomicStore` | the abstract specification of the repository | `StoreSpec`: any of those actions at any time |
| `SqliteRepository` | `state_repository.cpp` statement by statement | a call is `begin`, statement, `upsert` (`saveInternal`), `commit`, with `rollback` on failure; single-statement calls autocommit. The tables are the committed content; `transaction` is the uncommitted one |
| `ReminderLoop` | `run()` in `main.cpp` | see below |
| `SchedulePage` | AtCoder's page, and `ParseResult` | the schedule of each listed contest; `Readings(t, seen)` are the results of a fetch at `t` of a page rendered at `seen` |
| `Calendar` | `atcoder_html_parser.cpp:46-107` | a cell is the numbers its pattern picks out of the text; `daysFromCivil`, `parseTimestamp` and `parseDuration` are the arithmetic of the functions of the same name |
| `HtmlParser` | `AtCoderHtmlParser::parse` and `parseRow` | one row per step, in the loops `upcoming`, `daily` and `deduplicate`; the variables are the locals. A row is the links, times and durations that XPath selects; each evaluation may also come back empty |
| `HttpTransfer` | `perform`, `writeCallback` | one step per thing libcurl or the server does; sizes and times are numbers, `offered` and `delivered` are what the process cannot see |
| `ServiceRequests` | `AtCoderClient::fetch`, the POST of `WebhookDiscordClient::send` | composes the two: the parser starts on what the transfer returned, on a page rendered at some instant of the request |
| `RequestAnswers` | the abstract specification of a request | one step: an answer among the readings of the page, or among the outcomes of `send` |
| `ReminderClock` | the loop on a host whose clock is set back | `SetBack` is the environment's; `Run` is any step of the loop, remembering the latest time shown |
| `ReminderPace` | the loop with the time of its last fetch | `lastFetch` is a history variable: no step reads it, and it is forgotten with the rest of the memory |
| `ReminderSafety`, `ReminderLiveness`, `ReminderClaims` | the properties of the loop | |
| `StoreProofs`, `SqliteProofs`, `ReminderLoopProofs`, `ReminderRecordProofs`, `ClockProofs`, `RequestProofs`, `ReadingProofs`, `AnswerProofs` | the theorems | |

**The loop.** `pc` is the place in the loop body; a step is the code between two calls
that others can see. Every local of `run()` that outlives a step is a variable of the same
name.

| `main.cpp` | actions |
|---|---|
| 128-145, start and death of the process | `Boot`, `Downtime`, `Crash` |
| 148-177, top of the iteration | `ImplausibleClock`, `BeginIteration`, `WeeklyLookupFails` |
| 179-249, the fetch, by what it finds | `FetchFailed`, `FetchEmptyWeek`, `FetchSelect`, `FetchTrack`, `FetchAdvance`, `FetchAdvanceFails`, `FetchNoNext` |
| 251-280, the Saturday check | `WeeklySend`, `WeeklyMark`, `WeeklyMarkFails` |
| 284-326, the notice of the next contest | `NoticeNotDue`, `NoticeNone`, `NoticeLoadFails`, `NoticeExpire`, `NoticeUnconfirmed`, `NoticeRefresh`, `NoticeUpdateFails`, `NoticeSend`, `NoticeMark`, `NoticeMarkFails` |
| 328-374, reminders and corrections | `RemindIdle`, `RemindPending`, `RemindPendingFails`, `RemindSend`, `RemindMark`, `RemindMarkFails` |
| 376, the sleep | `Sleep` |
| outside the process | `EditPage` |

A database call and the code around it are one step, which `SqliteRepository` justifies:
every call is atomic. Such a step may wait for a lock (`StoreDelays`), and the clock runs on
while `now` keeps its value, as it does when a request blocks (`CallDelays`). A fetch and the save that follows it are one step as well; a death
between the two leaves nothing else behind than a death just before the fetch, because
until the save nothing outside the process has changed. A fetch that blocks may see the
page at any time until it returns (`RenderTimes`), or, where `ClocksAgree` is FALSE, at
any time at all: then the sections AtCoder chooses have nothing to do with `now`. `posts` is the set of messages in the channel,
each named by what identifies it (`normal`/`change` with id and start; `next` with the
notice's key; `weekly` with the date): a second copy of a message is not told from the
first.

What is external: AtCoder's page (`page`, `EditPage`), the webhook's answers
(`WebhookResponses`), SQLite's transactions, systemd, the clock, libcurl, the connections
and servers behind it, libxml2 and the regular expressions.

## 3. Runs

Times in the instances are scaled: a few ticks stand for 300 s, an hour, a day, with the
code's constants in their order, some of them equal (30 <= 60 <= 300 <= 900 <= 1800 <= 3600;
2 <= 6 <= 24 hours). Only `requests` uses the code's seconds, calendar and time limit; its
size limits are a few bytes. `records`
has a poll shorter than the retry delay, so that polls without a fetch come between retries;
`schedule` retries at every poll, so that a notice can be confirmed again after its contest
was moved. The clock stops at `MaxTime`, which stands for "`MaxTime` or any later time":
timers saturate there, so a behaviour continues for ever with every timer due, and no
property is judged by a difference of saturated times (`FetchesApart` and
`DueReminderRetried` exclude `now = MaxTime`).

| run | instance | checks | states, time |
|---|---|---|---|
| `records` (`LoopRecords.cfg`) | two contests, one or both announced at first; faults of the database, of fetching and of sending; 1 edit, 1 crash | type invariant, records against channel and memory, `StatusCoherent`, `AdvanceAlwaysInserts`, `NormalNotRepeated`, `DueReminderRetried`, `AbsenceNotRepeated`, `RecordsNeverRegress`, `FetchesApart` | 3.18 million, 115 s |
| `schedule` (`LoopSchedule.cfg`) | same contests; all five kinds of faults (clock, fetching, rows, database, sending); requests that block and database calls that wait; 1 edit | `NormalInWindow`, `NoticeMatchesRow`, `NoticesOfThePast`, `AbsencePostsAreTrue` | 5.61 million, 140 s |
| `liveness` (`LoopLiveness.cfg`) | contest 2 ends early, contest 1 follows and may be moved past the end of the clock or withdrawn, contest 3 may be announced after it; invalid role id; faults of rows, database and sending; 1 edit, 1 crash | `TargetChosen`, `TargetFollowed`, `NoticesResolved` | 57 thousand, 145 s |
| `sqlite` (`Sqlite.cfg`) | every call with three target states, two contests, any statement failing, death at any statement | type invariant, `NoTransactionLeaks`, `OkMeansPerformed`, `OtherwiseUnchanged`, `ImplementsStore` | 707 thousand, 17 s |
| `requests` (`Requests.cfg`) | two contests among 28 February 23:30, 29 February 00:00 and 21:00, 1 March 00:00 of 2028; requests at the first and the last second of the 29th and 15 s before 21:00; each contest in one row, damaged in one of eight ways or not, or in two rows; limits of 4 (GET) and 1 (POST), pieces of 1 and 3; at most 3 redirects | type invariant, `BodyBounded`, `CompleteOrError`, `ConflictsDropped`, `ReadingIsTrue`, `ImplementsAnswers`, `RequestEnds` | 446 thousand, 55 s |
| `clock` (`Clock.cfg`) | the contests of `records`; the clock is set back up to twice, at any step, to any earlier time; faults of fetching, of rows and of sending | `TimersBounded`, `AdvanceAlwaysInserts`, `NormalNotRepeated`, `AbsencePostsAreTrue`, `AbsenceNotRepeated` | 1.84 million, 85 s |
| `claim_*` | two contests that can pass each other | one statement of the documents each, refuted (section 6) | stop at the counterexample |

**Why these bounds are enough to be interesting.** Two contests are what every rule relates:
the target and another. Three slots let a contest be moved forward, moved behind the other,
and overlap with it. Within nine ticks a contest is reminded, run, ended, followed by its
successor, and the successor's notice and reminder come due; two-day weeks of four ticks put
Saturdays with and without contests in the behaviour. One edit and one crash at any point,
among any failures, meet each branch once; that the properties hold for any number of them
is proved (section 5), and `claim_resend` shows what two edits do to a statement that does
not hold. In `records` the delays after which the loop asks AtCoder again are longer than a
poll, so that `FetchesApart` tells a fetch on every poll from one after the shortest of
them. In `liveness` contests end at 2 and at 4, and the notice of the first can still be
unsent when the second is queued, whether by failures or by a crash: one pending notice then
waits for the other. Reminders lead by less than a tick there, so that none is sent; they
touch neither notices nor which contest is the target. `records` leaves out the faults of
the clock and of rows only for size: they change which contests a fetch finds and when, and
`schedule` has them. In `requests` two rows of two contests are enough for any order of
equal, different and damaged rows, a piece of 3 after one of 1 meets the GET limit exactly
and any further one exceeds it, and the requests at the two ends of a leap day meet every
comparison with a start on its boundary, with the page rendered in the same second or up to
30 s later. Setting the clock back twice is once before and once after a timer is set again.
Every action fires in these runs.

**A clock that is set back.** `clock` also shows by what it leaves out: `NormalInWindow`
and `NoticesOfThePast` do not hold there (TLC refutes both). A reminder that is pending
already is sent without another look at its window, so after a set-back it may leave
earlier than two hours before the start; and an old notice row may then lie ahead of the
target. What still holds is that nothing recorded is repeated, nothing untrue is said of a
Saturday, `advanceToNextContest` still inserts, and no timer lies further ahead than the
latest time the clock showed plus the longest delay. That no reminder is repeated and that
the advance inserts need that AtCoder edits no schedule meanwhile, so the instance has no edits: with one set-back,
one restart (which resets the timers that otherwise wait for the old time) and one edit
that moves the successor before the contest it followed, TLC finds a notice whose key is
taken and a reminder that is sent twice. The rest is proved with any number of edits and
crashes (section 5).

**Fairness** (`ReminderLiveness`). Weak fairness of the process's own steps: it is one
thread without locks, requests have a timeout (`http_client.cpp:85-86`), and systemd
starts it again (`deploy/atcoder-abc-reminder.service:13`). Strong fairness of the
successful outcome of what the loop retries without end: a fetch that reads every row
(and whose advance commits), the confirmation and the skipping of a notice, its POST and
its mark. Nothing is assumed of reminders, corrections and the Saturday check, of
when faults stop, or of AtCoder: `TargetChosen` and `TargetFollowed` promise something only
while a contest is listed that lies ahead, and `NoticesResolved` excludes a notice whose
contest was withdrawn and has not come up (the code rightly holds it back). In
`ServiceRequests`: time passes, libcurl ends a request whose time is up
(`CURLOPT_TIMEOUT`), and the process goes on with what it got. Nothing is assumed of the
servers, and `RequestEnds` is what the fairness of the loop's own steps rests on.

## 4. The abstract specifications and their refinements

**The store.** `AtomicStore` says what the loop relies on: each operation happens at once or not at all.
`SqliteRepository` keeps the tables a new connection would read apart from the open
transaction, so the refinement mapping is the identity on the four tables, and
`ImplementsStore` (`Store!StoreSpec`) says that every statement is a step of the abstract
store or leaves it alone. Two further properties tie it to the calls: `OkMeansPerformed`
(`true` means that this call's operation, with its arguments, was performed by this very
step) and `OtherwiseUnchanged`. All of it is proved as well (section 5), for callers that pass targets whose
pending key is absent when nothing is pending, keys made from the target that is passed
along, and one call at a time. `ReminderLoop` uses the actions of `StateStore`; that it is
such a caller is `LoopKeepsToStore`: its steps are steps of the same `AtomicStore`, with
the coherent targets for `States`. TLC does not check this one, since it would try all
pairs of targets at every step.

**The requests.** `RequestAnswers` says what the loop relies on: a request is answered in
one step, by a reading of the page at some moment until its time was up, or by one of
`SendOutcomes`. These are the `Readings` and `SendOutcomes` that `ReminderLoop` takes its
own steps from. `ServiceRequests` maps `answer` to `Got`, which is `None` until the call
returns; `ImplementsAnswers` says that what it is then is allowed. Two kinds of reading are
left out of the comparison, as the code has no answer to them (section 7): one in which an
allocation failed unnoticed, and one of a page that contradicts itself. `ReadingIsTrue` says
of the parser alone what such an answer rests on: nothing is reported that is not on the
page, and without a flag every row was read.

## 5. Proofs

Checked by TLAPS for all values of the constants that satisfy the named assumptions
(`PolicyAssumption`, `CalendarAssumption`, `DiscordAssumption`, `StoreAssumption`,
`LoopAssumption`, `SqliteAssumption`, `TransferAssumption`, `ParserAssumption`,
`PageAssumption`): any set of contests and slots with start before end, any positive
intervals, any set of faults, any number of edits and crashes. The assumptions say
only what kind of value each constant is, and that `None` is none of the values it stands
beside; `PageAssumption` adds that the page lists finitely many contests and that an
undamaged row shows the schedule of its contest. TLC evaluates all of them in the runs.

| theorem | module | says |
|---|---|---|
| `TypeCorrect` | `ReminderLoopProofs` | `Spec => []TypeOK` |
| `StatusesCohere` | `ReminderLoopProofs` | `Spec => []StatusCoherent` |
| `AdvanceInserts` | `ReminderLoopProofs` | `Spec => []AdvanceAlwaysInserts`: the insert that `state_repository.cpp:187` could silently ignore is never ignored |
| `NormalSentInWindow` | `ReminderLoopProofs` | `Spec => []NormalInWindow` |
| `DueRemindersRetried` | `ReminderLoopProofs` | `Spec => []DueReminderRetried` |
| `SentIsPosted`, `PostedIsRecorded` | `ReminderRecordProofs` | `Spec => []SentMeansPosted`, `Spec => []PostedMeansRecorded`: what is recorded as sent is in the channel, and what is in the channel has a row |
| `RestartFindsProgress` | `ReminderRecordProofs` | `Spec => []RestartKeepsProgress`: with any number of deaths at any point |
| `RecordsStay` | `ReminderRecordProofs` | `Spec => RecordsNeverRegress`, an action property |
| `NoticesLookBack`, `NoticeIsCurrent` | `ReminderRecordProofs` | `Spec => []NoticesOfThePast`, `Spec => []NoticeMatchesRow` |
| `AbsenceIsTrue`, `AbsenceAnnouncedOnce` | `ReminderRecordProofs` | `Spec => []AbsencePostsAreTrue`, `Spec => []AbsenceNotRepeated` |
| `FetchesStayApart` | `ReminderRecordProofs` | `PaceSpec => FetchesApart`, an action property |
| `RemindedOnce` | `ReminderRecordProofs` | `Spec => []NormalNotRepeated`, if every contest lasts at least half as long as reminders lead (an ABC: 100 minutes, and 2 hours) |
| `ClockTypesCorrect`, `ClockRecordsStay`, `ClockSentIsPosted`, `ClockPostedIsRecorded`, `ClockNoticeIsCurrent`, `ClockAbsenceIsTrue`, `ClockAbsenceAnnouncedOnce` | `ClockProofs` | as `TypeCorrect` and the theorems above of the same names without `Clock`, for `ClockSpec`: the clock may be set back at any step, any number of times |
| `ClockTimersBounded` | `ClockProofs` | `ClockSpec => []TimersBounded` |
| `ClockAdvanceInserts`, `ClockRestartFindsProgress`, `ClockRemindedOnce` | `ClockProofs` | `ClockSpec => [](edits = 0 => P)` for `AdvanceAlwaysInserts`, `RestartKeepsProgress`, `NormalNotRepeated`: as long as AtCoder has edited no schedule, set-backs break none of the three |
| `LoopKeepsToStore`, `ClockKeepsToStore` | `ReminderRecordProofs`, `ClockProofs` | `Spec => Store!StoreSpec`, `ClockSpec => Store!StoreSpec`: the loop is a caller the repository is proved for |
| `RepositoryImplementsStore` | `SqliteProofs` | `Spec => ImplementsStore`: the refinement of `AtomicStore` |
| `OkIsPerformed`, `OtherwiseNothing` | `SqliteProofs` | `Spec => OkMeansPerformed`, `Spec => OtherwiseUnchanged` |
| `RepositoryTypeCorrect`, `TransactionsEnd` | `SqliteProofs` | `Spec => []TypeOK`, `Spec => []NoTransactionLeaks` |
| `ReadingsAreTrue` | `ReadingProofs` | `Spec => []ReadingIsTrue`: for any rows, any number of them, and any evaluation that fails with a flag |
| `RequestsImplementAnswers` | `AnswerProofs` | `Spec => ImplementsAnswers`: the refinement of `RequestAnswers`, from the first byte to the caller |
| `RequestsTyped` | `AnswerProofs` | `Spec => []TypeOK` |
| `BodiesBounded` | `RequestProofs` | `Spec => []BodyBounded`: for all limits and pieces |
| `CompleteOrFailed` | `RequestProofs` | `Spec => []CompleteOrError` |
| `ConflictsAreDropped` | `RequestProofs` | `Spec => []ConflictsDropped`: for any rows, any number of them, in any order |
| `OneDayAfterAnother`, `DaysWithinMonth`, `EpochDay` | `ReadingProofs` | `daysFromCivil` numbers the dates from 2000 on one after the other, with 0 at 1970-01-01; the last check of `parseTimestamp` (line 83) never rejects what passed the others |
| `DateOfTimestamp` | `ReadingProofs` | the date and time of day the time service reads from a parsed start are those in the cell |
| `EarliestIsMember`, `NextContestFollows`, `FirstPendingIsPending` | `StoreProofs` | the choices among contests and notices exist and have the property that defines them, for any non-empty set of candidates |

**The argument.** The first five rest on one inductive invariant, `Inductive` in
`ReminderSafety` (lemma `AlwaysInductive`):
`Timeless /\ NowReached /\ NoticesOfThePast /\ PendingMeansDue`, where `Timeless` is
`TypeOK /\ StatusCoherent /\ AtSend` and inductive by itself, on any clock.
- `AdvanceAlwaysInserts` is not inductive: a reschedule gives the target a new start time,
  and nothing in it says that no old notice row has that key. `NoticesOfThePast` does: every
  row is about a contest that ended, no later than now, before the target starts, and a
  contest becomes the target or is moved only to a start after now.
- `NormalInWindow` is not inductive: a reminder that is pending already is sent without a
  look at the window. `PendingMeansDue` says that such a reminder became pending at or
  after its reminder time, and that a reschedule takes it back; `AtSend` carries the
  condition of `main.cpp:328` from the step that records to the step that sends.
- Both compare times of different iterations, so they need that the clock does not run
  backwards: `NowReached` says that `now` is not ahead of it.

The proof that a step keeps the invariant does not go conjunct by conjunct through thirty
actions. It first classifies what an action does to the target (takes a new one, moves it,
marks it pending, marks it sent, or leaves it, possibly by losing or loading it), to the time (a new iteration, or
`now` kept) and to the notice rows (one added for an ended contest, or kept); then each
conjunct is proved once per class. `DueReminderRetried` is an invariant of `sleep` only;
it is proved with `Inductive` from the steps that enter `sleep`.

**Records, memory and channel.** Each theorem of `ReminderRecordProofs` adds to `Timeless`,
or to `Inductive` where it compares times, what its property leaves unsaid between two
steps:
- `RecordsBacked` (for `SentMeansPosted`) covers the gap between the POST and the mark: at
  `remindMark` and `noticeMark` the message in memory is already in the channel.
- `PostsRecorded` (for `PostedMeansRecorded`) covers the gap before the POST: at
  `remindSend` and `noticeSend` the row is already there. It needs that message keys of
  different kinds differ, and that `RecordsKept` never removes a row.
- `Agreement` (for `RestartKeepsProgress`) says that memory and table differ at most in the
  schedule of one contest and in the pending fields; it holds through `main.cpp:248`, which
  goes on after a failed save, because `newState` and a reschedule announce nothing.
- `CheckOpen` and `AbsenceJustified` carry the condition of the Saturday check, and that
  nothing is listed on its date, from the fetch to the POST. Like the property, they speak
  of a page that was not edited (`PageKept`).
- `Paced` (for `FetchesApart`) says of every point after the fetch that the fetch timer is no
  nearer to the last fetch than the shortest delay: the Saturday check and the notice block,
  which set it again, do so from a `now` that is not before that fetch.
- `AnnouncedOnce` (for `NormalNotRepeated`): once a normal reminder for a start is recorded
  as sent, either that start has passed, or its contest is still the target, knows it, and
  the reminder time is reached (`StillTarget`), or another contest is the target, chosen
  when the announced one had ended and starting after that (`Succeeded`). An announced
  contest leaves the target only by ending; if it ended before its announced start it was
  moved to an earlier one. To come back it must wait until its successor has ended too. By
  then two contests have run since the reminder time, and the announced start has passed:
  this is where the length of contests is used.

**The caller's side.** `LoopKeepsToStore` rests on `Timeless` at both ends of a step: what is
saved is coherent, and by `Coherent` the key that the reminder block passes, possibly made in an
earlier iteration or an earlier life of the process, is that of the target it passes.

**A clock that is set back.** A theorem that rests on `Timeless` alone holds on any clock:
its lemmas are about one step of the loop, and `SetBack` changes nothing they mention. That
`RecordsNeverRegress`, `SentMeansPosted`, `PostedMeansRecorded`, `NoticeMatchesRow`,
`AbsenceNotRepeated` and `AbsencePostsAreTrue` are among these says that none of them is
owed to the order of times. `LatestBounds` (for `TimersBounded`) says that neither the clock
nor `now` is ahead of `latest`. The other three properties do owe something to the order of
times, and get it from the schedules instead, which order the contests as long as nobody
edits them (`Unedited`): the target, in memory and stored, is the contest the page shows
(`TargetsListed`); every notice row tells of a contest that starts before the target
(`RowsBehind`); every start that was announced is the target's own, with the status saying
so, or lies before it (`AnnouncedBehind`). The target only moves to later starts, whatever the clock
shows. With an edit that no longer follows: TLC refutes `AdvanceAlwaysInserts` and
`NormalNotRepeated` then. For `RestartKeepsProgress` it found no counterexample with one edit,
but the argument here does not extend to edits.

**The repository.** `SqliteInductive` says at each statement which call may be running and
what the open transaction holds, as a function of the committed tables and of the call's
arguments: nothing at `statement`, the first statement's effect at `upsert`, the whole
operation at `commit`. So `Commit` is a step of the abstract store, and all other steps leave
the tables alone, in particular `BeginFails`, `Rollback` and `Crash` at any of them.

**The rows.** `ReadingInductive` is the loop invariant of the two loops over the rows: of
the rows before `index`, what is reported are contests of readable ones, and without a flag
those are all. That today's contest is never dropped by the limit `todayStart - 1` (line
257) is `TodayIsAfterMidnight`.

**The requests.** `TransferInductive` adds to the two properties of the transfer that until
the end the body held is all that was offered; a refused piece ends the transfer, so the
two numbers never part in a response without an error. `ParserInductive` is the loop
invariant of the duplicate check: of the candidates before `index`, `deduplicated` has one
of every id, and `conflictingIds` are the ids of different ones. It needs no types of rows.
Both were first checked by TLC on the instance of `requests`.

**From bytes to an answer.** That a request implements `RequestAnswers` puts these together.
`AnswersInductive` remembers what later steps rest on: what the client has of an answer to a
POST is one Discord can give, and the document that is being read is a rendering of the page
at some second of the request, while the limits were computed from the `now` before it. What
remains is `TrueReading`: whenever `ReadingIsTrue` holds of such a document and the page
does not contradict itself, the result is one of `Readings(now, seen)`. Its lemmas say that
the rows of a rendering are those of the listed contests, each in the section the time of
rendering puts it in (`PageRowsAre`; here the page must be finite, as the rows are a
sequence), that a right row shows the schedule of its contest (`RightRowShows`, from
`PageAssumption`), and that each of the eight kinds of damage makes the row unreadable
(`DamagedRowFound`). So a result without a flag has every contest, and one with a flag those
of some of the rows. Of a POST
it uses that one is made only with a webhook's url (`discord_client.cpp:48-52`).

**The calendar.** That dates are numbered one after the other is split by what turns: the
day, a month's end (with the leap day), the year's end. The code's numbers are large
literals; each leaf names the one prover that handles them.

**Only model-checked:** liveness (`TargetChosen`, `TargetFollowed`, `NoticesResolved`,
`RequestEnds`), which is outside what the prover handles. Every safety invariant, action property and
refinement that a passing run checks is proved; those of `clock` that need it, with the
hypothesis `edits = 0`, which the run satisfies by its bound.

## 6. Where the documents and the code differ

Each is a run that refutes the statement.

| run | statement | what the code does |
|---|---|---|
| `claim_failed_fetch` | comment `main.cpp:187-190`: after a failed fetch "retry and do not send in this iteration until a complete ABC candidate is available again" | the flag is a local of one iteration; the next poll, 30 s later and without a fetch, sends |
| `claim_nearest` | `docs/atcoder_abc_discord_reminder_requirements.md:193-200` (FR-04): the target is the nearest ABC after now | a target moved behind another listed contest stays the target (`main.cpp:225-226`); the nearer one is not reminded of |
| `claim_resend` | `docs/atcoder_abc_discord_reminder_detailed_design.md:717`: one correction per new date | a contest moved away and back is corrected again under a key the history holds as sent; the history is never read |
| `claim_start` | detailed design, line 376: after the start no normal notification | the start is compared with `now` latched at line 148, before the fetch and up to two POSTs |
| `claim_midnight` | `tests/test_main.cpp:143-144`: the Saturday check "must stop at Sunday midnight JST" | the date is decided by `now` of line 148; the fetch before the POST (line 182) may block past midnight, and "today" is then Sunday |
| `claim_today` | requirements, 329-341 (FR-09): the correction shows the changed date | `message_template.cpp:25-35` says "today" and the hours, for corrections on another day too |

One more difference is not a run, because the loop only sees that a fetch failed, not why:
line 605 of the detailed design asks for at least 30 minutes between fetches after a 4xx
answer of AtCoder, and `main.cpp:189-194` starts with 300 s after any failure.

## 7. Not modelled

- Texts, JSON, message ids, logging, url and number of a contest.
- The regular expressions and the HTML recovery of libxml2: a cell has the form or not, and
  a row yields any links, times and durations. Rows whose link the pattern does not
  recognise are not flagged by the code, and not part of the page here.
- Allocation failures that the code does not notice (`atcoder_html_parser.cpp:130` and `224`):
  they are steps of `HtmlParser`, and set `lost`, but no property promises anything then.
- A page that contradicts itself (two schedules of one contest): `ConflictsDropped` says
  what comes of two upcoming rows, nothing is said of an upcoming and a past one (which the
  code does not compare), nor of a damaged row beside a readable one of the same contest.
- Which two sections the table count (lines 240-247) counted.
- A body that ends early without libcurl noticing (neither a length nor a closing chunk):
  `CompleteOrError` covers refused pieces and the connections libcurl reports as broken.
- The HTTP status of a page in the loop: whatever is not a complete 2xx answer is a failed fetch.
- Response headers: `headerCallback` collects them and nobody reads them.
- Copies of a message: reminders and notices may be posted twice after an undecided POST
  or a failed mark. The documents accept that; the set `posts` does not count.
- Schema creation and migration in `initialize`, and a failed start: the process exits and
  is started again, which is the same as staying down (`Downtime`).

## 8. What could follow

1. Copies of posts: a bound on how often each failure repeats a message. It needs a counter
   per message in place of the set `posts`.
2. Start-up: the migrations in `initialize`, and `load` of a row that another version wrote.
3. The texts, as a function of contest and time, with the end date that is left out on the
   day of the start.
