-------------------------- MODULE SqliteRepository --------------------------
(***************************************************************************)
(* src/src/state_repository.cpp statement by statement.  A call runs its     *)
(* SQL statements one after the other on the one connection; any statement  *)
(* may fail and the process may die between two of them.  The tables of     *)
(* StateStore are what a new connection would read, that is, the committed  *)
(* content; `transaction` holds the uncommitted content while one is open.  *)
(*                                                                         *)
(* External: SQLite itself.  COMMIT makes the transaction's content durable *)
(* at once (journal_mode=WAL, synchronous=FULL); a failed COMMIT leaves the *)
(* transaction open; ROLLBACK always ends it; a statement outside a         *)
(* transaction commits by itself; a failed statement changes nothing.       *)
(***************************************************************************)
EXTENDS StateStore

CONSTANTS
    States,  \* the CurrentContest values a caller passes
    Times    \* the values of next.updatedAt

VARIABLES
    transaction,  \* the tables inside BEGIN ... COMMIT, or None
    call,         \* the member function being run with its arguments, or None
    stage,        \* the statement it comes to next
    result        \* what the last call returned

sqliteVars == <<transaction, call, stage, result>>
vars == <<storeVars, sqliteVars>>

-----------------------------------------------------------------------------
(* Calls.                                                                  *)

TransactionCalls ==
    {[op |-> "save", s |-> s] : s \in States}
        \cup {[op |-> "clear"]}
        \cup {[op |-> op, key |-> notificationKey(kind, s.contest), s |-> s] :
                op \in {"markPending", "markSent"}, kind \in Kinds, s \in States}
        \cup {[op |-> "advance", previous |-> p, s |-> s, now |-> t] :
                p \in States, s \in States, t \in Times}

SingleStatementCalls ==
    {[op |-> "refresh", key |-> key, contest |-> c] :
        key \in NoticeKeys, c \in Contests}
        \cup {[op |-> "update", key |-> key, status |-> status] :
                key \in NoticeKeys, status \in {"sent", "skipped"}}
        \cup {[op |-> "markWeekly", date |-> date] : date \in Dates}

Calls == TransactionCalls \cup SingleStatementCalls

ASSUME SqliteAssumption ==
    /\ States \subseteq CurrentContests
    /\ \A s \in States : s.pendingKind = None => s.pendingMessageKey = None
    /\ Times \subseteq Int
    /\ None \notin Calls

Tables == [current |-> current, history |-> history, notices |-> notices]

Return(value) ==
    /\ result' = value
    /\ call' = None
    /\ stage' = "idle"

Start(c) ==
    /\ call = None
    /\ call' = c
    /\ stage' = IF c.op = "advance" THEN "guard"
                ELSE IF c \in TransactionCalls THEN "begin" ELSE "single"
    /\ result' = "running"
    /\ UNCHANGED <<storeVars, transaction>>

\* The early return of advanceToNextContest, before any statement.
Guard ==
    /\ stage = "guard"
    /\ IF MayAdvance(call.previous, call.s, call.now)
       THEN stage' = "begin" /\ UNCHANGED <<call, result>>
       ELSE Return("failed")
    /\ UNCHANGED <<storeVars, transaction>>

\* BEGIN IMMEDIATE is refused inside a transaction, and may fail otherwise.
Begin ==
    /\ stage = "begin"
    /\ transaction = None
    /\ transaction' = Tables
    /\ stage' = IF call.op = "save" THEN "upsert" ELSE "statement"
    /\ UNCHANGED <<storeVars, call, result>>

BeginFails ==
    /\ stage = "begin"
    /\ Return("failed")
    /\ UNCHANGED <<storeVars, transaction>>

\* Mutant: INSERT OR REPLACE.
InsertOrReplace(status) == "pending"

\* INSERT OR IGNORE ... 'pending', of a key's status.
InsertOrIgnore(status) == IF status = "absent" THEN "pending" ELSE status

\* Mutant: an insert where the key has no row.
UpdateOrInsert(status) == "sent"

\* Mutant: the other table's status.
UpdateToSkipped(status) == IF status = "absent" THEN status ELSE "skipped"

\* UPDATE ... SET status = 'sent'.
UpdateToSent(status) == IF status = "absent" THEN status ELSE "sent"

\* The statement before saveInternal.  advance skips the save when its insert
\* was ignored.
Statement ==
    /\ stage = "statement"
    /\ transaction' =
          CASE call.op = "clear" ->
                  [transaction EXCEPT !.current = None]
            [] call.op = "markPending" ->
                  [transaction EXCEPT !.history[call.key] = InsertOrIgnore(@)]
            [] call.op = "markSent" ->
                  [transaction EXCEPT !.history[call.key] = UpdateToSent(@)]
            [] call.op = "advance" ->
                  [transaction EXCEPT !.notices[NoticeKey(call.previous.contest)] =
                      IF @ = None THEN PendingNotice(call.previous, call.s) ELSE @]
    /\ stage' = IF \/ call.op = "clear"
                  \/ (call.op = "advance" /\ transaction'.notices = transaction.notices)
                THEN "commit" ELSE "upsert"
    /\ UNCHANGED <<storeVars, call, result>>

\* saveInternal: a row without a pending kind has a NULL pending_key.
Row(s) == IF s.pendingKind = None THEN [s EXCEPT !.pendingMessageKey = None] ELSE s

\* Mutant: the row is written outside the transaction.
UpsertAutocommits ==
    /\ stage = "upsert"
    /\ current' = Row(call.s)
    /\ transaction' = [transaction EXCEPT !.current = Row(call.s)]
    /\ stage' = "commit"
    /\ UNCHANGED <<history, weekly, notices, call, result>>

Upsert ==
    /\ stage = "upsert"
    /\ transaction' = [transaction EXCEPT !.current = Row(call.s)]
    /\ stage' = "commit"
    /\ UNCHANGED <<storeVars, call, result>>

Commit ==
    /\ stage = "commit"
    /\ current' = transaction.current
    /\ history' = transaction.history
    /\ notices' = transaction.notices
    /\ transaction' = None
    /\ Return("ok")
    /\ UNCHANGED weekly

\* Mutant: the failed statement returns without ROLLBACK.
StepFailsWithoutRollback ==
    /\ stage \in {"statement", "upsert", "commit"}
    /\ Return("failed")
    /\ UNCHANGED <<storeVars, transaction>>

StepFails ==
    /\ stage \in {"statement", "upsert", "commit"}
    /\ stage' = "rollback"
    /\ UNCHANGED <<storeVars, transaction, call, result>>

Rollback ==
    /\ stage = "rollback"
    /\ transaction' = None
    /\ Return("failed")
    /\ UNCHANGED storeVars

-----------------------------------------------------------------------------
(* Calls of one statement, which commits by itself.                        *)

\* WHERE message_key=? AND contest_id=? AND status='pending', and the call
\* fails unless one row changed.
Refresh ==
    /\ stage = "single" /\ call.op = "refresh"
    /\ IF CanRefresh(call.key, call.contest)
       THEN /\ notices' = [notices EXCEPT ![call.key].contest = call.contest]
            /\ Return("ok")
       ELSE Return("failed") /\ UNCHANGED notices
    /\ UNCHANGED <<current, history, weekly, transaction>>

\* No count of the changed rows: an update of nothing is a success.
Update ==
    /\ stage = "single" /\ call.op = "update"
    /\ notices' = [key \in NoticeKeys |->
                      IF key = call.key /\ key \in PendingNotices
                      THEN [notices[key] EXCEPT !.status = call.status]
                      ELSE notices[key]]
    /\ Return("ok")
    /\ UNCHANGED <<current, history, weekly, transaction>>

MarkWeekly ==
    /\ stage = "single" /\ call.op = "markWeekly"
    /\ weekly' = weekly \cup {call.date}
    /\ Return("ok")
    /\ UNCHANGED <<current, history, notices, transaction>>

SingleFails ==
    /\ stage = "single"
    /\ Return("failed")
    /\ UNCHANGED <<storeVars, transaction>>

-----------------------------------------------------------------------------

\* The process dies; the next connection recovers the committed content.
Crash ==
    /\ call # None
    /\ transaction' = None
    /\ Return("died")
    /\ UNCHANGED storeVars

Init ==
    /\ StoreInit
    /\ transaction = None
    /\ call = None
    /\ stage = "idle"
    /\ result = "none"

Next ==
    \/ \E c \in Calls : Start(c)
    \/ Guard \/ Begin \/ BeginFails \/ Statement \/ Upsert \/ Commit
    \/ StepFails \/ Rollback
    \/ Refresh \/ Update \/ MarkWeekly \/ SingleFails
    \/ Crash

Spec == Init /\ [][Next]_vars

-----------------------------------------------------------------------------
(* Properties.                                                             *)

\* What the running call should do, as one step of the abstract store.
Performs(c) ==
    CASE c.op = "save"        -> Save(c.s)
      [] c.op = "clear"       -> Clear
      [] c.op = "markPending" -> MarkPending(c.key, c.s)
      [] c.op = "markSent"    -> MarkSent(c.key, c.s)
      [] c.op = "advance"     -> AdvanceToNextContest(c.previous, c.s, c.now)
      [] c.op = "refresh"     -> RefreshNextContestNotice(c.key, c.contest)
      [] c.op = "update"      -> UpdateNextContestNotice(c.key, c.status)
      [] c.op = "markWeekly"  -> MarkWeeklyCheckCompleted(c.date)

Returned == call # None /\ call' = None

\* A call that returns true has done, at that moment and durably, exactly what
\* the store promises of it, with the arguments of that call.
OkMeansPerformed == [][Returned /\ result' = "ok" => Performs(call)]_vars

\* Every other step, a failed statement, a rollback or the death of the process
\* at any statement, leaves the committed tables as they were.
OtherwiseUnchanged ==
    [][~(Returned /\ result' = "ok") => UNCHANGED storeVars]_vars

\* No call returns inside a transaction: the next BEGIN IMMEDIATE would be
\* refused, and single statements would no longer commit by themselves.
NoTransactionLeaks == stage \in {"idle", "guard", "begin", "single"} => transaction = None

TypeOK ==
    /\ StoreTypeOK
    /\ transaction = None \/ transaction.current \in CurrentContests \cup {None}
    /\ call \in Calls \cup {None}
    /\ (call = None) = (stage = "idle")
    /\ stage \in {"idle", "guard", "begin", "statement", "upsert", "commit",
                  "rollback", "single"}
    /\ result \in {"none", "running", "ok", "failed", "died"}

\* The repository implements the atomic store, whose tables are the committed
\* ones.
Store == INSTANCE AtomicStore
    WITH current <- current, history <- history, weekly <- weekly,
         notices <- notices, States <- States, Times <- Times

ImplementsStore == Store!StoreSpec
=============================================================================
