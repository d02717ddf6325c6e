------------------------------ MODULE TxConsumer ------------------------------
(***************************************************************************)
(* tx-consumer: the saga consumer (saga/consumer.go) checks a command of   *)
(* the transactions topic, runs the actions on aggregate, log and count,   *)
(* and marks it handled, in one database transaction whose statements      *)
(* interleave with those of other clients.  An alarm is published in the   *)
(* middle of it.                                                           *)
(***************************************************************************)
EXTENDS TransactionalConsumer

CONSTANTS
    Aggregates,         \* the keys (player, currency, day)
    AlarmValue

Register(t, a, value) ==
    [kind |-> "register", id |-> t, of |-> t, aggregate |-> a, value |-> value]

Unregister(u, t, a, value) ==
    [kind |-> "unregister", id |-> u, of |-> t, aggregate |-> a, value |-> value]

ASSUME TxConsumerAssumption ==
    /\ \A c \in Commands :
          /\ c.kind \in {"register", "unregister"}
          /\ c.kind = "register" => c.of = c.id
          /\ c.aggregate \in Aggregates /\ c.value \in Nat
    /\ AlarmValue \in Int

VARIABLES
    \* each worker's attempt
    updated,                \* the value the upsert of the aggregate returned
    seen,                   \* how many rows of counts the update of counts found
    alarm,                  \* position in alarms of the alarm of this attempt, or 0
    \* the committed contents of the tables
    aggregates,             \* transactions_aggregates
    logs,                   \* transaction_logs: [id, aggregate, value]
    compensatingLogs,       \* compensating_transaction_logs: [id, of]
    counts,                 \* counts, which has no key: its rows in order of commit
    \* the alarms topic
    alarms,                 \* [kind, aggregate]
    told                    \* history: positions of alarms whose transaction committed

attemptVars == <<updated, seen, alarm>>
tableVars == <<aggregates, logs, compensatingLogs, counts, told>>
vars == <<handlingVars, attemptVars, tableVars, alarms>>

\* The rows and the aggregates are those of the contract.
Ledger == INSTANCE SagaLedger WITH
              Aggregates <- Aggregates, Commands <- Commands,
              processed <- processed, aggregates <- aggregates

TypeOK ==
    /\ topic \in Topics
    /\ HandlingTypeOK({"aggregate", "alarm", "log", "count", "counting"})
    /\ updated \in [Workers -> Int]
    /\ seen \in [Workers -> Nat] /\ \A w \in Workers : seen[w] =< Len(counts)
    /\ alarm \in [Workers -> Nat] /\ \A w \in Workers : alarm[w] =< Len(alarms)
    /\ aggregates \in [Aggregates -> Int]
    /\ \A row \in logs : row.aggregate \in Aggregates /\ row.value \in Nat
    /\ \A row \in compensatingLogs : \E c \in Commands : c.id = row.id /\ c.of = row.of
    /\ counts \in Seq(Int)
    /\ alarms \in Seq([kind : {"raise", "clear"}, aggregate : Aggregates])
    /\ told \subseteq 1 .. Len(alarms)

Init ==
    /\ HandlingInit
    /\ updated = [w \in Workers |-> 0]
    /\ seen = [w \in Workers |-> 0]
    /\ alarm = [w \in Workers |-> 0]
    /\ aggregates = [a \in Aggregates |-> 0]
    /\ logs = {} /\ compensatingLogs = {} /\ counts = <<>>
    /\ alarms = <<>> /\ told = {}

\* The variables of an attempt end with it.
KeepAttempt(w) ==
    IF pc'[w] # "idle" THEN UNCHANGED attemptVars
    ELSE /\ updated' = [updated EXCEPT ![w] = 0]
         /\ seen' = [seen EXCEPT ![w] = 0]
         /\ alarm' = [alarm EXCEPT ![w] = 0]

NothingElse(w) == KeepAttempt(w) /\ UNCHANGED <<tableVars, alarms>>

-----------------------------------------------------------------------------
(* Delivery, and the saga consumer up to its actions.                      *)

Begin(w, r) == BeginRecord(w, r) /\ NothingElse(w)

RejectPoison(w) == RejectRecord(w) /\ NothingElse(w)

\* Slip: compensation undoes the actions in reverse order.
StatementsReversed(c) ==
    IF Compensating(c) THEN <<"count", "aggregate", "log", "mark">>
    ELSE <<"aggregate", "log", "count", "mark">>

\* The statements of a command in order: the actions of tx (aggregate, then log) and
\* count, then the mark; compensation takes the same order.
StatementsOf(c) == <<"aggregate", "log", "count", "mark">>

First(w) == StatementsOf(Command(w))[1]

After(w, statement) ==
    LET order == StatementsOf(Command(w))
    IN  order[1 + CHOOSE n \in 1 .. 3 : order[n] = statement]

CheckHandled(w) ==
    /\ CheckHandledThen(w, IF Compensating(Command(w)) THEN First(w) ELSE "compensated")
    /\ NothingElse(w)

CheckCompensated(w) == CheckCompensatedThen(w, First(w)) /\ NothingElse(w)

-----------------------------------------------------------------------------
(* The statements of the database transaction.                             *)

\* The open transaction of v changed the row of aggregate a.
HoldsRow(v, a) == "aggregate" \in wrote[v] /\ Command(v).aggregate = a

\* Slip: the two comparisons disagree on the limit itself.
CrossingUnevenly(previous, value) ==
    IF previous =< AlarmValue /\ value >= AlarmValue THEN "raise"
    ELSE IF previous > AlarmValue /\ value < AlarmValue THEN "clear"
    ELSE "none"

Crossing(previous, value) ==
    IF previous < AlarmValue /\ value >= AlarmValue THEN "raise"
    ELSE IF previous >= AlarmValue /\ value < AlarmValue THEN "clear"
    ELSE "none"

\* updateAlarmState computes the previous value from the returned one.
CrossingOf(w, value) == Crossing(value - Ledger!Delta(Command(w)), value)

\* AggregateRepository.shift, then the decision of updateAlarmState.
ShiftAggregate(w) ==
    /\ pc[w] = "aggregate"
    /\ ~ \E v \in Workers \ {w} : HoldsRow(v, Command(w).aggregate)
    /\ LET value == aggregates[Command(w).aggregate] + Ledger!Delta(Command(w))
       IN  /\ updated' = [updated EXCEPT ![w] = value]
           /\ Execute(w, "aggregate", IF CrossingOf(w, value) = "none" THEN After(w, "aggregate")
                                      ELSE "alarm")
    /\ UNCHANGED <<seen, alarm, tableVars, alarms>>

\* ProduceSync returns when the alarm is in the topic; if it returns an error the alarm
\* may be there too, which is this step followed by a rollback.
ProduceAlarm(w) ==
    /\ pc[w] = "alarm"
    /\ alarms' = Append(alarms, [kind |-> CrossingOf(w, updated[w]),
                                 aggregate |-> Command(w).aggregate])
    /\ alarm' = [alarm EXCEPT ![w] = Len(alarms')]
    /\ Goto(w, After(w, "aggregate"))
    /\ UNCHANGED <<deliveryVars, faults, at, wrote, processed, updated, seen, tableVars>>

\* A committed row of the log that w writes to has the key of its command.
LogKeyTaken(w) ==
    \E row \in IF Compensating(Command(w)) THEN compensatingLogs ELSE logs :
        row.id = Command(w).id

\* LogRepository.InsertLog, InsertCompensatingLog.
InsertLog(w) == Insert(w, "log", LogKeyTaken(w), After(w, "log")) /\ NothingElse(w)

Mark(w) == MarkHandled(w) /\ NothingElse(w)

\* The update of counts finds the rows committed so far; without any the transaction
\* inserts one, which nothing keeps another from doing as well.
UpdateCounts(w) ==
    /\ pc[w] = "count"
    /\ seen' = [seen EXCEPT ![w] = Len(counts)]
    /\ IF counts = <<>>
       THEN Execute(w, "count", After(w, "count"))
       ELSE Goto(w, "counting") /\ UNCHANGED <<deliveryVars, faults, at, wrote, processed>>
    /\ UNCHANGED <<updated, alarm, tableVars, alarms>>

\* The open transaction of v changed the rows of counts that others see.
HoldsCounts(v) == "count" \in wrote[v] /\ seen[v] # 0

\* The update waits for the transactions that changed the same rows.
LockCounts(w) ==
    /\ pc[w] = "counting"
    /\ ~ \E v \in Workers \ {w} : HoldsCounts(v)
    /\ Execute(w, "count", After(w, "count"))
    /\ NothingElse(w)

-----------------------------------------------------------------------------
(* The end of the database transaction.                                    *)

CountDelta(w) == IF Compensating(Command(w)) THEN -1 ELSE 1

ApplyTables(w) ==
    LET c == Command(w) IN
    /\ aggregates' =
          IF "aggregate" \in wrote[w] THEN [aggregates EXCEPT ![c.aggregate] = updated[w]]
          ELSE aggregates
    /\ logs' =
          IF "log" \in wrote[w] /\ ~Compensating(c)
          THEN logs \cup {[id |-> c.id, aggregate |-> c.aggregate, value |-> c.value]}
          ELSE logs
    /\ compensatingLogs' =
          IF "log" \in wrote[w] /\ Compensating(c)
          THEN compensatingLogs \cup {[id |-> c.id, of |-> c.of]}
          ELSE compensatingLogs
    /\ counts' =
          IF "count" \notin wrote[w] THEN counts
          ELSE IF seen[w] = 0 THEN Append(counts, CountDelta(w))
          ELSE [n \in DOMAIN counts |->
                   IF n =< seen[w] THEN counts[n] + CountDelta(w) ELSE counts[n]]
    /\ told' = IF alarm[w] = 0 THEN told ELSE told \cup {alarm[w]}

Commit(w) == CommitTx(w) /\ ApplyTables(w) /\ KeepAttempt(w) /\ UNCHANGED alarms

CommitUnanswered(w) ==
    CommitTxUnanswered(w) /\ ApplyTables(w) /\ KeepAttempt(w) /\ UNCHANGED alarms

FailStatement(w) == RollBack(w) /\ NothingElse(w)

Idle == AllConsumed /\ UNCHANGED vars

-----------------------------------------------------------------------------
Next ==
    \/ \E w \in Workers :
          \/ RejectPoison(w) \/ CheckHandled(w) \/ CheckCompensated(w)
          \/ ShiftAggregate(w) \/ ProduceAlarm(w) \/ InsertLog(w)
          \/ UpdateCounts(w) \/ LockCounts(w) \/ Mark(w)
          \/ Commit(w) \/ CommitUnanswered(w) \/ FailStatement(w)
    \/ \E w \in Workers, r \in Records : Begin(w, r)
    \/ Idle

Spec == Init /\ [][Next]_vars

-----------------------------------------------------------------------------
\* Deliveries of the transactions topic, in any number of open transactions, handle each
\* command once, and change the aggregates with it or not at all: no interleaving of
\* checks, locks, duplicate keys and unanswered commits counts a command twice or loses
\* an update (saga/consumer.go:37-68, postgres/transactions.go:12-35).
LedgerSafety == Ledger!Spec

Total(S) == MapThenSumSet(LAMBDA x : x.value, S)

\* The tables agree whenever no transaction is half applied: an aggregate is the sum of
\* its log rows less the values of the commands in the compensating log (aggregate, logs
\* and mark are written by three repositories, sagaadapters/tx.go:45-63).
AggregatesMatchLogs ==
    \A a \in Aggregates :
        aggregates[a] = Total({row \in logs : row.aggregate = a})
                      - Total({c \in Commands : /\ c.kind = "unregister" /\ c.aggregate = a
                                                /\ [id |-> c.id, of |-> c.of] \in compensatingLogs})

\* The open transactions that found no row of counts and will insert one.
Inserting == {w \in Workers : "count" \in wrote[w] /\ seen[w] = 0}

\* The first row of the unkeyed table of counts is the number of the transactions executed
\* and not compensated.  Clients that found the table empty at the same time insert a row
\* each; the first then misses one command per further row, and there are never more rows
\* than clients, however the updates of the rows go on (postgres/count_adapter_out.go:27-52).
CountIsExact ==
    /\ Len(counts) + Cardinality(Inserting) =< Cardinality(Workers)
    /\ counts # <<>> =>
          Cardinality(logs) - Cardinality(compensatingLogs) - counts[1]
              \in -(Len(counts) - 1) .. Len(counts) - 1

LastTold(a) == Max({0} \cup {n \in told : alarms[n].aggregate = a})

\* The alarms of committed transactions are in the topic in the order of the crossings:
\* the last one of an aggregate says on which side of the limit it is, whatever client
\* changed it (domain/tx/aggregate.go:69-110: the row stays locked while it is published).
CrossingsAreTold ==
    \A a \in Aggregates :
        aggregates[a] >= AlarmValue <=> LastTold(a) # 0 /\ alarms[LastTold(a)].kind = "raise"

\* The transaction of w waits for that of v.
WaitsFor(w, v) ==
    \/ pc[w] = "aggregate" /\ HoldsRow(v, Command(w).aggregate)
    \/ pc[w] \in {"log", "mark"} /\ HoldsKey(v, Command(w), pc[w])
    \/ pc[w] = "counting" /\ HoldsCounts(v)

\* No transactions wait for each other in a circle.  PostgreSQL would fail one with an
\* error that is not transient, and dead-letter a good record (postgres/errors.go:20-32);
\* that both kinds of command take their locks in one order (saga/consumer.go:61-65)
\* keeps it from happening, also with duplicate keys waiting on each other.
NoCircleOfWaits ==
    ~ \E S \in (SUBSET Workers) \ {{}} : \A w \in S : \E v \in S \ {w} : WaitsFor(w, v)

\* What the executed transactions of a that were not compensated amount to.
NotCompensated(a) ==
    Total({row \in logs : row.aggregate = a /\ ~Compensated(processed, row.id)})

\* The saga unwinds: as long as no record was dead-lettered, and no transaction has two
\* compensations, only what was not compensated remains in an aggregate, whatever fails,
\* is retried or is consumed twice at once (saga/consumer.go:70-97 keeps no order itself).
SagaUnwinds == dlq = {} => \A a \in Aggregates : aggregates[a] = NotCompensated(a)

\* README.md:117-120: "a compensating command that arrives before the original transaction
\* is still handled correctly": also then only what was not compensated remains.
SagaUnwindsInAnyOrder == \A a \in Aggregates : aggregates[a] = NotCompensated(a)

=============================================================================
