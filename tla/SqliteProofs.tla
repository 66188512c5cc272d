---------------------------- MODULE SqliteProofs ----------------------------
(***************************************************************************)
(* Theorems about the repository, for every value of the constants: its     *)
(* statements, with a failure or the death of the process at any of them,   *)
(* implement the atomic store.  They rest on an invariant that says, at     *)
(* each statement, which call may be running and what its transaction       *)
(* holds.                                                                  *)
(***************************************************************************)
EXTENDS SqliteRepository, StoreProofs

-----------------------------------------------------------------------------
(* The inductive invariant.                                                *)

\* The call that may be running at each statement.
CallPlaced ==
    /\ stage = "guard" => call \in TransactionCalls /\ call.op = "advance"
    /\ stage \in {"begin", "statement", "upsert", "commit", "rollback"} =>
          call \in TransactionCalls
    /\ stage = "single" => call \in SingleStatementCalls
    /\ stage = "statement" => call.op # "save"
    /\ stage = "upsert" => call.op # "clear"
    /\ stage \in {"begin", "statement", "upsert", "commit"} /\ call.op = "advance" =>
          MayAdvance(call.previous, call.s, call.now)

\* The tables as the statement before saveInternal leaves them.
HistoryAfter(c) ==
    IF c.op = "markPending" THEN [history EXCEPT ![c.key] = InsertOrIgnore(@)]
    ELSE IF c.op = "markSent" THEN [history EXCEPT ![c.key] = UpdateToSent(@)]
    ELSE history

IsIgnored(c) == c.op = "advance" /\ notices[NoticeKey(c.previous.contest)] # None

NoticesAfter(c) ==
    IF c.op = "advance" /\ ~IsIgnored(c)
    THEN [notices EXCEPT ![NoticeKey(c.previous.contest)] = PendingNotice(c.previous, c.s)]
    ELSE notices

\* The target as the whole call leaves it.
CurrentAfter(c) ==
    IF c.op = "clear" THEN None ELSE IF IsIgnored(c) THEN current ELSE c.s

\* What the open transaction holds, as a function of the committed tables.
TransactionHolds ==
    /\ stage = "statement" => transaction = Tables
    /\ stage = "upsert" =>
          /\ ~IsIgnored(call)
          /\ transaction = [current |-> current, history |-> HistoryAfter(call),
                            notices |-> NoticesAfter(call)]
    /\ stage = "commit" =>
          transaction = [current |-> CurrentAfter(call), history |-> HistoryAfter(call),
                         notices |-> NoticesAfter(call)]

SqliteInductive == TypeOK /\ NoTransactionLeaks /\ CallPlaced /\ TransactionHolds

-----------------------------------------------------------------------------
(* The calls.                                                              *)

\* The calls that run in a transaction and their arguments.
LEMMA TransactionCallShapes ==
    ASSUME NEW c \in TransactionCalls
    PROVE  /\ c.op \in {"save", "clear", "markPending", "markSent", "advance"}
           /\ c.op # "clear" => c.s \in States
           /\ c.op \in {"markPending", "markSent"} =>
                 /\ c.key \in NotificationKeys
                 /\ \E kind \in Kinds : c.key = notificationKey(kind, c.s.contest)
           /\ c.op = "advance" => c.previous \in States /\ c.now \in Times
<1>1. CASE c \in {[op |-> "save", s |-> s] : s \in States}
  BY <1>1
<1>2. CASE c \in {[op |-> "clear"]}
  BY <1>2
<1>3. CASE c \in {[op |-> op, key |-> notificationKey(kind, s.contest), s |-> s] :
                    op \in {"markPending", "markSent"}, kind \in Kinds, s \in States}
  <2>1. PICK op \in {"markPending", "markSent"}, kind \in Kinds, s \in States :
          c = [op |-> op, key |-> notificationKey(kind, s.contest), s |-> s]
    BY <1>3
  <2>2. s.contest \in Contests
    BY SqliteAssumption DEF CurrentContests
  <2> QED BY <2>1, <2>2, KeyTyped
<1>4. CASE c \in {[op |-> "advance", previous |-> p, s |-> s, now |-> t] :
                    p \in States, s \in States, t \in Times}
  BY <1>4
<1> QED BY <1>1, <1>2, <1>3, <1>4 DEF TransactionCalls

\* The calls of one statement and their arguments.
LEMMA SingleCallShapes ==
    ASSUME NEW c \in SingleStatementCalls
    PROVE  /\ c.op \in {"refresh", "update", "markWeekly"}
           /\ c.op \in {"refresh", "update"} => c.key \in NoticeKeys
           /\ c.op = "refresh" => c.contest \in Contests
           /\ c.op = "update" => c.status \in {"sent", "skipped"}
           /\ c.op = "markWeekly" => c.date \in Dates
  BY DEF SingleStatementCalls

\* saveInternal writes the target it is given: what it leaves out of a row
\* without a pending kind is empty already.
LEMMA RowIsState ==
    ASSUME NEW s \in States
    PROVE  Row(s) = s
<1>1. s \in CurrentContests /\ (s.pendingKind = None => s.pendingMessageKey = None)
  BY SqliteAssumption
<1>2. CASE s.pendingKind = None
  <2>1. [s EXCEPT !.pendingMessageKey = s.pendingMessageKey] = s
    BY <1>1 DEF CurrentContests
  <2> QED BY <1>1, <1>2, <2>1 DEF Row
<1> QED BY <1>2 DEF Row

\* What a whole call leaves in the tables is what the store promises of it.
LEMMA CommitPerforms ==
    ASSUME StoreTypeOK, NEW c \in TransactionCalls,
           c.op = "advance" => MayAdvance(c.previous, c.s, c.now),
           current' = CurrentAfter(c), history' = HistoryAfter(c),
           notices' = NoticesAfter(c), weekly' = weekly
    PROVE  Performs(c)
<1> USE DEF CurrentAfter, HistoryAfter, NoticesAfter, IsIgnored, Performs
<1>1. CASE c.op = "save"
  BY <1>1 DEF Save
<1>2. CASE c.op = "clear"
  BY <1>2 DEF Clear
<1>3. CASE c.op = "markPending"
  BY <1>3 DEF MarkPending, InsertOrIgnore
<1>4. CASE c.op = "markSent"
  BY <1>4 DEF MarkSent, UpdateToSent
<1>5. CASE c.op = "advance"
  BY <1>5 DEF AdvanceToNextContest
<1> QED BY <1>1, <1>2, <1>3, <1>4, <1>5, TransactionCallShapes

\* Whatever the store promises of a call keeps the tables typed.
LEMMA PerformsTyped ==
    ASSUME StoreTypeOK, NEW c \in Calls, Performs(c)
    PROVE  StoreTypeOK'
<1> USE DEF Performs
<1>1. CASE c \in TransactionCalls
  <2>1. c.op # "clear" => c.s \in CurrentContests
    BY <1>1, TransactionCallShapes, SqliteAssumption
  <2>2. CASE c.op = "save"
    BY <2>1, <2>2, SaveTyped
  <2>3. CASE c.op = "clear"
    BY <2>3 DEF Clear, StoreTypeOK
  <2>4. CASE c.op = "markPending"
    BY <1>1, <2>1, <2>4, TransactionCallShapes, MarkPendingTyped
  <2>5. CASE c.op = "markSent"
    BY <1>1, <2>1, <2>5, TransactionCallShapes, MarkSentTyped
  <2>6. CASE c.op = "advance"
    <3>1. c.previous \in CurrentContests
      BY <1>1, <2>6, TransactionCallShapes, SqliteAssumption
    <3> QED BY <2>1, <2>6, <3>1, AdvanceTyped
  <2> QED BY <1>1, <2>2, <2>3, <2>4, <2>5, <2>6, TransactionCallShapes
<1>2. CASE c \in SingleStatementCalls
  <2>1. CASE c.op = "refresh"
    BY <1>2, <2>1, SingleCallShapes, RefreshTyped
  <2>2. CASE c.op = "update"
    BY <1>2, <2>2, SingleCallShapes, UpdateTyped
  <2>3. CASE c.op = "markWeekly"
    BY <1>2, <2>3, SingleCallShapes, MarkWeeklyTyped
  <2> QED BY <1>2, <2>1, <2>2, <2>3, SingleCallShapes
<1> QED BY <1>1, <1>2 DEF Calls

-----------------------------------------------------------------------------
(* The steps.                                                              *)

\* A call that ends with true: COMMIT, or a single statement.
OkStep ==
    \/ Commit
    \/ Refresh /\ CanRefresh(call.key, call.contest)
    \/ Update
    \/ MarkWeekly

\* The steps that leave the committed tables alone.
SilentStep ==
    \/ \E c \in Calls : Start(c)
    \/ Guard \/ Begin \/ BeginFails \/ Statement \/ Upsert \/ StepFails \/ Rollback
    \/ Refresh /\ ~CanRefresh(call.key, call.contest)
    \/ SingleFails \/ Crash

\* Every step is one of the two.
LEMMA SqliteStepKinds ==
    ASSUME Next
    PROVE  OkStep \/ SilentStep
  BY DEF Next, OkStep, SilentStep

\* A silent step changes no table, and no call returns true by it.
LEMMA SilentSteps ==
    ASSUME TypeOK, SilentStep
    PROVE  /\ UNCHANGED storeVars
           /\ call' = None => result' \in {"failed", "died"}
<1>1. stage # "idle" => call # None
  BY DEF TypeOK
<1>2. ASSUME NEW c \in Calls, Start(c)
      PROVE  UNCHANGED storeVars /\ call' # None
  BY <1>2, SqliteAssumption DEF Start
<1>3. CASE Guard \/ BeginFails \/ Rollback \/ SingleFails \/ Crash
  BY <1>1, <1>3 DEF Guard, BeginFails, Rollback, SingleFails, Crash, Return
<1>4. CASE Begin \/ Statement \/ Upsert \/ StepFails
  BY <1>1, <1>4 DEF Begin, Statement, Upsert, StepFails
<1>5. CASE Refresh /\ ~CanRefresh(call.key, call.contest)
  BY <1>5 DEF Refresh, Return, storeVars
<1> QED BY <1>2, <1>3, <1>4, <1>5 DEF SilentStep

\* A call that ends with true did what the store promises of it.
LEMMA OkSteps ==
    ASSUME SqliteInductive, OkStep
    PROVE  call \in Calls /\ Performs(call) /\ call' = None /\ result' = "ok"
           /\ stage' = "idle" /\ transaction' = None
<1> USE DEF SqliteInductive
<1>1. CASE Commit
  <2>1. call \in TransactionCalls
        /\ (call.op = "advance" => MayAdvance(call.previous, call.s, call.now))
    BY <1>1 DEF Commit, CallPlaced
  <2>2. /\ current' = CurrentAfter(call) /\ history' = HistoryAfter(call)
        /\ notices' = NoticesAfter(call) /\ weekly' = weekly
    BY <1>1 DEF Commit, TransactionHolds
  <2> QED BY <1>1, <2>1, <2>2, CommitPerforms DEF Commit, Return, Calls, TypeOK
<1>2. CASE Refresh /\ CanRefresh(call.key, call.contest)
  BY <1>2
     DEF Refresh, Return, Performs, RefreshNextContestNotice, CallPlaced, Calls,
         NoTransactionLeaks
<1>3. CASE Update
  <2>1. call \in SingleStatementCalls /\ call.key \in NoticeKeys
    BY <1>3, SingleCallShapes DEF Update, CallPlaced
  <2>2. notices \in [NoticeKeys -> NoticeRows \cup {None}]
    BY DEF TypeOK, StoreTypeOK
  <2>3. notices' = IF call.key \in PendingNotices
                   THEN [notices EXCEPT ![call.key].status = call.status]
                   ELSE notices
    BY <1>3, <2>1, <2>2 DEF Update
  <2> QED
    BY <1>3, <2>1, <2>3
       DEF Update, Return, Performs, UpdateNextContestNotice, Calls, NoTransactionLeaks
<1>4. CASE MarkWeekly
  BY <1>4
     DEF MarkWeekly, Return, Performs, MarkWeeklyCheckCompleted, CallPlaced, Calls,
         NoTransactionLeaks
<1> QED BY <1>1, <1>2, <1>3, <1>4 DEF OkStep

-----------------------------------------------------------------------------
(* The invariant is kept.                                                  *)

\* The statement before saveInternal brings the transaction where
\* TransactionHolds expects it.
LEMMA StatementHolds ==
    ASSUME SqliteInductive, Statement
    PROVE  SqliteInductive'
<1> USE DEF SqliteInductive
<1>1. /\ call \in TransactionCalls /\ call.op # "save"
      /\ (call.op = "advance" => MayAdvance(call.previous, call.s, call.now))
      /\ transaction = Tables
      /\ UNCHANGED <<storeVars, call, result>>
  BY DEF Statement, CallPlaced, TransactionHolds
<1>2. UNCHANGED <<current, history, weekly, notices, call, result>>
  BY <1>1 DEF storeVars
<1>3. stage' \in {"upsert", "commit"} /\ (call.op = "clear" => stage' = "commit")
  BY DEF Statement
<1>4. /\ call.op = "clear" =>
            transaction' = [current |-> None, history |-> history, notices |-> notices]
      /\ call.op = "markPending" =>
            transaction' = [current |-> current, history |-> HistoryAfter(call),
                            notices |-> notices]
      /\ call.op = "markSent" =>
            transaction' = [current |-> current, history |-> HistoryAfter(call),
                            notices |-> notices]
      /\ call.op = "advance" =>
            transaction' = [current |-> current, history |-> history,
                            notices |-> NoticesAfter(call)]
  <2>1. transaction = [current |-> current, history |-> history, notices |-> notices]
    BY <1>1 DEF Tables
  <2>2. notices \in [NoticeKeys -> NoticeRows \cup {None}]
    BY DEF TypeOK, StoreTypeOK
  <2>3. CASE call.op = "clear"
    BY <2>1, <2>3 DEF Statement
  <2>4. CASE call.op = "markPending"
    BY <2>1, <2>4 DEF Statement, HistoryAfter
  <2>5. CASE call.op = "markSent"
    BY <2>1, <2>5 DEF Statement, HistoryAfter
  <2>6. CASE call.op = "advance"
    <3> DEFINE key == NoticeKey(call.previous.contest)
    <3>1. transaction' =
            [current |-> current, history |-> history,
             notices |-> [notices EXCEPT ![key] =
                IF notices[key] = None THEN PendingNotice(call.previous, call.s)
                ELSE notices[key]]]
      BY <2>1, <2>6 DEF Statement
    <3>2. CASE notices[key] = None
      BY <2>6, <3>1, <3>2 DEF NoticesAfter, IsIgnored
    <3>3. CASE notices[key] # None
      <4>1. [notices EXCEPT ![key] = notices[key]] = notices
        BY <2>2
      <4> QED BY <2>6, <3>1, <3>3, <4>1 DEF NoticesAfter, IsIgnored
    <3> QED BY <3>2, <3>3
  <2> QED BY <2>3, <2>4, <2>5, <2>6
<1>5. call.op = "advance" => stage' = (IF IsIgnored(call) THEN "commit" ELSE "upsert")
  <2> SUFFICES ASSUME call.op = "advance"
               PROVE  stage' = (IF IsIgnored(call) THEN "commit" ELSE "upsert")
    OBVIOUS
  <2>1. call.previous \in CurrentContests /\ call.s \in CurrentContests
    BY <1>1, TransactionCallShapes, SqliteAssumption
  <2>2. NoticeKey(call.previous.contest) \in NoticeKeys
    BY <2>1, NoticeKeyTyped DEF CurrentContests
  <2>3. PendingNotice(call.previous, call.s) \in NoticeRows
    BY <2>1, ContestFields DEF PendingNotice, NoticeRows, CurrentContests
  <2>4. notices \in [NoticeKeys -> NoticeRows \cup {None}]
    BY DEF TypeOK, StoreTypeOK
  <2>5. NoticesAfter(call) = notices <=> IsIgnored(call)
    BY <2>2, <2>3, <2>4, StoreAssumption DEF NoticesAfter, IsIgnored
  <2>6. transaction'.notices = NoticesAfter(call) /\ transaction.notices = notices
    BY <1>1, <1>4 DEF Tables
  <2>7. stage' = IF transaction'.notices = transaction.notices THEN "commit" ELSE "upsert"
    BY DEF Statement
  <2> QED BY <2>5, <2>6, <2>7
<1>6. call.op \in {"clear", "markPending", "markSent", "advance"}
  BY <1>1, TransactionCallShapes
<1>7. call.op \in {"markPending", "markSent"} => stage' = "upsert"
  BY DEF Statement
<1>8. CallPlaced'
  BY <1>1, <1>2, <1>3 DEF CallPlaced
<1>9. TransactionHolds'
  BY <1>2, <1>3, <1>4, <1>5, <1>6, <1>7
     DEF TransactionHolds, HistoryAfter, NoticesAfter, CurrentAfter, IsIgnored
<1>10. StoreTypeOK' /\ call' \in Calls /\ call' # None
  BY <1>1, <1>2, StoreUnchangedTyped, SqliteAssumption DEF TypeOK, Calls, storeVars
<1>11. transaction'.current \in CurrentContests \cup {None}
  BY <1>4, <1>6 DEF TypeOK, StoreTypeOK
<1>12. TypeOK' /\ NoTransactionLeaks'
  BY <1>2, <1>3, <1>10, <1>11 DEF TypeOK, NoTransactionLeaks
<1> QED BY <1>8, <1>9, <1>12

\* saveInternal completes what the transaction holds.
LEMMA UpsertHolds ==
    ASSUME SqliteInductive, Upsert
    PROVE  SqliteInductive'
<1> USE DEF SqliteInductive
<1>1. /\ call \in TransactionCalls /\ call.op # "clear" /\ ~IsIgnored(call)
      /\ (call.op = "advance" => MayAdvance(call.previous, call.s, call.now))
      /\ transaction = [current |-> current, history |-> HistoryAfter(call),
                        notices |-> NoticesAfter(call)]
  BY DEF Upsert, CallPlaced, TransactionHolds
<1>2. UNCHANGED <<current, history, weekly, notices, call, result>> /\ stage' = "commit"
  BY DEF Upsert, storeVars
<1>3. call.s \in States /\ call.s \in CurrentContests /\ Row(call.s) = call.s
  BY <1>1, TransactionCallShapes, RowIsState, SqliteAssumption
<1>4. transaction' = [current |-> call.s, history |-> HistoryAfter(call),
                      notices |-> NoticesAfter(call)]
  BY <1>1, <1>3 DEF Upsert
<1>5. TransactionHolds' /\ CallPlaced'
  BY <1>1, <1>2, <1>4
     DEF TransactionHolds, CallPlaced, HistoryAfter, NoticesAfter, CurrentAfter, IsIgnored
<1>6. StoreTypeOK' /\ call' \in Calls /\ call' # None
  BY <1>1, <1>2, StoreUnchangedTyped, SqliteAssumption DEF TypeOK, Calls, storeVars
<1>7. TypeOK' /\ NoTransactionLeaks'
  BY <1>2, <1>3, <1>4, <1>6 DEF TypeOK, NoTransactionLeaks
<1> QED BY <1>5, <1>7

\* A call starts outside a transaction, at its first statement.
LEMMA StartHolds ==
    ASSUME SqliteInductive, NEW c \in Calls, Start(c)
    PROVE  SqliteInductive'
<1> USE DEF SqliteInductive
<1>1. /\ stage = "idle" /\ transaction' = None /\ call' = c /\ c # None
      /\ result' = "running" /\ UNCHANGED storeVars
  BY SqliteAssumption DEF Start, TypeOK, NoTransactionLeaks
<1>2. stage' = IF c.op = "advance" THEN "guard"
               ELSE IF c \in TransactionCalls THEN "begin" ELSE "single"
  BY DEF Start
<1>3. c.op = "advance" => c \in TransactionCalls
  BY SingleCallShapes DEF Calls
<1>4. CallPlaced' /\ TransactionHolds'
  BY <1>1, <1>2, <1>3 DEF CallPlaced, TransactionHolds, Calls
<1>5. StoreTypeOK'
  BY <1>1, StoreUnchangedTyped DEF TypeOK
<1>6. TypeOK' /\ NoTransactionLeaks'
  BY <1>1, <1>2, <1>5 DEF TypeOK, NoTransactionLeaks
<1> QED BY <1>4, <1>6

\* Guards, BEGIN, failures and returns.
LEMMA OtherStepsHold ==
    ASSUME SqliteInductive,
           \/ Guard \/ Begin \/ BeginFails \/ StepFails \/ Rollback
           \/ Refresh /\ ~CanRefresh(call.key, call.contest)
           \/ SingleFails \/ Crash
    PROVE  SqliteInductive'
<1> USE DEF SqliteInductive
<1>1. UNCHANGED storeVars
  BY SilentSteps DEF SilentStep
<1>2. StoreTypeOK'
  BY <1>1, StoreUnchangedTyped DEF TypeOK
<1>3. CASE /\ call' = None /\ stage' = "idle" /\ result' \in {"failed", "died"}
           /\ transaction' = None
  BY <1>2, <1>3 DEF TypeOK, NoTransactionLeaks, CallPlaced, TransactionHolds
<1>4. CASE Guard /\ MayAdvance(call.previous, call.s, call.now)
  <2>1. /\ stage' = "begin" /\ UNCHANGED <<call, result, transaction>>
        /\ stage = "guard" /\ transaction = None
    BY <1>4 DEF Guard, NoTransactionLeaks
  <2>2. MayAdvance(call.previous, call.s, call.now)'
    BY <1>4, <2>1 DEF MayAdvance
  <2> QED
    BY <1>2, <2>1, <2>2 DEF TypeOK, NoTransactionLeaks, CallPlaced, TransactionHolds
<1>5. CASE Begin
  <2>1. /\ stage' \in {"upsert", "statement"} /\ (call.op = "save" <=> stage' = "upsert")
        /\ stage = "begin" /\ transaction' = Tables /\ UNCHANGED <<call, result>>
    BY <1>5 DEF Begin
  <2>2. transaction' = [current |-> current, history |-> history, notices |-> notices]
    BY <2>1 DEF Tables
  <2>3. UNCHANGED <<current, history, weekly, notices>>
    BY <1>1 DEF storeVars
  <2>4. transaction'.current \in CurrentContests \cup {None}
    BY <2>2 DEF TypeOK, StoreTypeOK
  <2>5. CallPlaced' /\ NoTransactionLeaks' /\ TypeOK'
    BY <1>2, <2>1, <2>4 DEF TypeOK, NoTransactionLeaks, CallPlaced
  <2>6. TransactionHolds'
    BY <2>1, <2>2, <2>3
       DEF TransactionHolds, Tables, HistoryAfter, NoticesAfter, IsIgnored
  <2> QED BY <2>5, <2>6
<1>6. CASE StepFails
  BY <1>2, <1>6 DEF StepFails, TypeOK, NoTransactionLeaks, CallPlaced, TransactionHolds
<1> QED
  BY <1>3, <1>4, <1>5, <1>6
     DEF Guard, BeginFails, Rollback, Refresh, SingleFails, Crash, Return,
         NoTransactionLeaks

\* Every step keeps the invariant.
LEMMA NextSqliteInductive ==
    ASSUME SqliteInductive, [Next]_vars
    PROVE  SqliteInductive'
<1>1. CASE OkStep
  <2>1. call \in Calls /\ Performs(call) /\ call' = None /\ result' = "ok"
        /\ stage' = "idle" /\ transaction' = None
    BY <1>1, OkSteps
  <2>2. StoreTypeOK'
    BY <2>1, PerformsTyped DEF SqliteInductive, TypeOK
  <2> QED
    BY <2>1, <2>2
       DEF SqliteInductive, TypeOK, NoTransactionLeaks, CallPlaced, TransactionHolds
<1>2. CASE SilentStep
  BY <1>2, StartHolds, StatementHolds, UpsertHolds, OtherStepsHold DEF SilentStep
<1>3. CASE UNCHANGED vars
  <2>1. UNCHANGED <<current, history, weekly, notices, transaction, call, stage, result>>
    BY <1>3 DEF vars, storeVars, sqliteVars
  <2>2. StoreTypeOK'
    BY <2>1, StoreUnchangedTyped DEF SqliteInductive, TypeOK, storeVars
  <2>3. TypeOK' /\ NoTransactionLeaks' /\ CallPlaced'
    BY <2>1, <2>2 DEF SqliteInductive, TypeOK, NoTransactionLeaks, CallPlaced
  <2>4. TransactionHolds'
    BY <2>1
       DEF SqliteInductive, TransactionHolds, Tables, HistoryAfter, NoticesAfter,
           CurrentAfter, IsIgnored
  <2> QED BY <2>3, <2>4 DEF SqliteInductive
<1> QED BY <1>1, <1>2, <1>3, SqliteStepKinds

\* The repository starts with empty tables and no call.
LEMMA InitSqliteInductive == Init => SqliteInductive
<1> SUFFICES ASSUME Init PROVE SqliteInductive
  OBVIOUS
<1>1. StoreTypeOK
  BY DEF Init, StoreInit, StoreTypeOK
<1> QED
  BY <1>1
     DEF Init, SqliteInductive, TypeOK, NoTransactionLeaks, CallPlaced, TransactionHolds

\* At each statement the running call is one that has it, and the open
\* transaction holds exactly what that call has done so far
\* (state_repository.cpp:120-330).
LEMMA AlwaysSqliteInductive == Spec => []SqliteInductive
  BY InitSqliteInductive, NextSqliteInductive, PTL DEF Spec

-----------------------------------------------------------------------------
(* The theorems.                                                           *)

\* The tables, the open transaction and the running call keep their types
\* (state_repository.cpp:120-330).
THEOREM RepositoryTypeCorrect == Spec => []TypeOK
  BY AlwaysSqliteInductive, PTL DEF SqliteInductive

\* Whatever statement fails, no call returns inside a transaction
\* (state_repository.cpp:123-136, 146-160).
THEOREM TransactionsEnd == Spec => []NoTransactionLeaks
  BY AlwaysSqliteInductive, PTL DEF SqliteInductive

\* A call that returns true has done, durably and in one step, what the store
\* promises of it (state_repository.cpp:120-330).
THEOREM OkIsPerformed == Spec => OkMeansPerformed
<1>1. SqliteInductive /\ [Next]_vars => [Returned /\ result' = "ok" => Performs(call)]_vars
  BY OkSteps, SilentSteps, SqliteStepKinds DEF Returned, SqliteInductive
<1> QED BY <1>1, AlwaysSqliteInductive, PTL DEF Spec, OkMeansPerformed

\* Any other step leaves the committed tables alone: a failed or rolled back
\* call and a death at any statement are as if the call had not been made
\* (state_repository.cpp:120-330).
THEOREM OtherwiseNothing == Spec => OtherwiseUnchanged
<1>1. SqliteInductive /\ [Next]_vars =>
         [~(Returned /\ result' = "ok") => UNCHANGED storeVars]_vars
  <2> SUFFICES ASSUME SqliteInductive, Next, ~(Returned /\ result' = "ok")
               PROVE  UNCHANGED storeVars
    OBVIOUS
  <2>1. CASE OkStep
    <3>1. call # None
      BY <2>1 DEF SqliteInductive, TypeOK, OkStep, Commit, Refresh, Update, MarkWeekly
    <3> QED BY <2>1, <3>1, OkSteps DEF Returned
  <2>2. CASE SilentStep
    BY <2>2, SilentSteps DEF SqliteInductive
  <2> QED BY <2>1, <2>2, SqliteStepKinds
<1> QED BY <1>1, AlwaysSqliteInductive, PTL DEF Spec, OtherwiseUnchanged

\* A call's operation, with arguments a caller may pass, is a step of the
\* abstract store.
LEMMA PerformsIsStoreStep ==
    ASSUME StoreTypeOK, NEW c \in Calls, Performs(c)
    PROVE  Store!StoreNext
<1> USE DEF Performs
<1>1. CASE c \in TransactionCalls
  <2>1. CASE c.op = "save"
    <3>1. c.s \in States /\ Save(c.s)
      BY <1>1, <2>1, TransactionCallShapes
    <3>2. Store!Save(c.s)
      BY <3>1 DEF Save, Store!Save
    <3> QED BY <3>1, <3>2 DEF Store!StoreNext
  <2>2. CASE c.op = "clear"
    <3>1. Store!Clear
      BY <2>2 DEF Clear, Store!Clear
    <3> QED BY <3>1 DEF Store!StoreNext
  <2>3. CASE c.op = "markPending"
    <3>1. PICK kind \in Kinds : c.key = notificationKey(kind, c.s.contest)
      BY <1>1, <2>3, TransactionCallShapes
    <3>2. c.s \in States /\ MarkPending(notificationKey(kind, c.s.contest), c.s)
      BY <1>1, <2>3, <3>1, TransactionCallShapes
    <3>3. Store!MarkPending(Store!notificationKey(kind, c.s.contest), c.s)
      BY <3>2
         DEF MarkPending, Store!MarkPending, notificationKey, Store!notificationKey
    <3>4. kind \in Store!Kinds
      BY DEF Kinds, Store!Kinds
    <3> QED BY <3>2, <3>3, <3>4 DEF Store!StoreNext
  <2>4. CASE c.op = "markSent"
    <3>1. PICK kind \in Kinds : c.key = notificationKey(kind, c.s.contest)
      BY <1>1, <2>4, TransactionCallShapes
    <3>2. c.s \in States /\ MarkSent(notificationKey(kind, c.s.contest), c.s)
      BY <1>1, <2>4, <3>1, TransactionCallShapes
    <3>3. Store!MarkSent(Store!notificationKey(kind, c.s.contest), c.s)
      BY <3>2 DEF MarkSent, Store!MarkSent, notificationKey, Store!notificationKey
    <3>4. kind \in Store!Kinds
      BY DEF Kinds, Store!Kinds
    <3> QED BY <3>2, <3>3, <3>4 DEF Store!StoreNext
  <2>5. CASE c.op = "advance"
    <3>1. /\ c.previous \in States /\ c.s \in States /\ c.now \in Times
          /\ AdvanceToNextContest(c.previous, c.s, c.now)
      BY <1>1, <2>5, TransactionCallShapes
    <3>2. Store!AdvanceToNextContest(c.previous, c.s, c.now)
      BY <3>1
         DEF AdvanceToNextContest, Store!AdvanceToNextContest, MayAdvance,
             Store!MayAdvance, NoticeKey, Store!NoticeKey, PendingNotice,
             Store!PendingNotice
    <3> QED BY <3>1, <3>2 DEF Store!StoreNext
  <2> QED BY <1>1, <2>1, <2>2, <2>3, <2>4, <2>5, TransactionCallShapes
<1>2. CASE c \in SingleStatementCalls
  <2>1. Store!NoticeKeys = NoticeKeys /\ Store!Contests = Contests
    BY DEF NoticeKeys, Store!NoticeKeys, Starts, Store!Starts, Contests,
           Store!Contests, Contest, Store!Contest
  <2>2. Store!PendingNotices = PendingNotices
    BY <2>1 DEF PendingNotices, Store!PendingNotices
  <2>3. CASE c.op = "refresh"
    <3>1. /\ c.key \in NoticeKeys /\ c.contest \in Contests
          /\ RefreshNextContestNotice(c.key, c.contest)
      BY <1>2, <2>3, SingleCallShapes
    <3>2. Store!RefreshNextContestNotice(c.key, c.contest)
      BY <2>2, <3>1
         DEF RefreshNextContestNotice, Store!RefreshNextContestNotice, CanRefresh,
             Store!CanRefresh
    <3> QED BY <2>1, <3>1, <3>2 DEF Store!StoreNext
  <2>4. CASE c.op = "update"
    <3>1. /\ c.key \in NoticeKeys /\ c.status \in {"sent", "skipped"}
          /\ UpdateNextContestNotice(c.key, c.status)
      BY <1>2, <2>4, SingleCallShapes
    <3>2. Store!UpdateNextContestNotice(c.key, c.status)
      BY <2>2, <3>1 DEF UpdateNextContestNotice, Store!UpdateNextContestNotice
    <3> QED BY <2>1, <3>1, <3>2 DEF Store!StoreNext
  <2>5. CASE c.op = "markWeekly"
    <3>1. c.date \in Dates /\ MarkWeeklyCheckCompleted(c.date)
      BY <1>2, <2>5, SingleCallShapes
    <3>2. Store!MarkWeeklyCheckCompleted(c.date)
      BY <3>1 DEF MarkWeeklyCheckCompleted, Store!MarkWeeklyCheckCompleted
    <3> QED BY <3>1, <3>2 DEF Store!StoreNext
  <2> QED BY <1>2, <2>3, <2>4, <2>5, SingleCallShapes
<1> QED BY <1>1, <1>2 DEF Calls

\* Statement by statement, with failures and deaths, the repository implements
\* the store in which every call is one step (state_repository.cpp:120-330).
THEOREM RepositoryImplementsStore == Spec => ImplementsStore
<1>1. Init => Store!StoreInit
  <2>1. Store!NoticeKeys = NoticeKeys
    BY DEF NoticeKeys, Store!NoticeKeys, Starts, Store!Starts
  <2>2. Store!NotificationKeys = NotificationKeys
    BY DEF NotificationKeys, Store!NotificationKeys, Kinds, Store!Kinds, Starts,
           Store!Starts
  <2> QED BY <2>1, <2>2 DEF Init, StoreInit, Store!StoreInit
<1>2. SqliteInductive /\ [Next]_vars => [Store!StoreNext]_(Store!storeVars)
  <2> SUFFICES ASSUME SqliteInductive, [Next]_vars
               PROVE  Store!StoreNext \/ UNCHANGED Store!storeVars
    OBVIOUS
  <2>1. Store!storeVars = storeVars
    BY DEF storeVars, Store!storeVars
  <2>2. CASE OkStep
    BY <2>2, OkSteps, PerformsIsStoreStep DEF SqliteInductive, TypeOK
  <2>3. CASE SilentStep
    BY <2>3, SilentSteps DEF SqliteInductive, storeVars, Store!storeVars
  <2>4. CASE UNCHANGED vars
    BY <2>4 DEF vars, storeVars, Store!storeVars
  <2> QED BY <2>2, <2>3, <2>4, SqliteStepKinds
<1> QED
  BY <1>1, <1>2, AlwaysSqliteInductive, PTL DEF Spec, ImplementsStore, Store!StoreSpec
=============================================================================
