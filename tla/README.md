# Verification of saga-go

TLA+ models of saga-go, the TLC configurations that check them on small instances, and theorems about
them that TLAPS checks for every instance. Paths such as `kgoconsumer/consumer.go` are relative to the root
of the repository, `examples/internal` is shortened to `internal`.

```
tlc -config KgoContract.cfg MCKgoConsumer     # one run
tlapm KgoConsumer_proofs.tla                  # the proofs of one module
```

## 1. The system

saga-go is three libraries (`kgoconsumer`, `saga`, `idempotent`) and an example of four services that are
built from them around two Kafka topics:

```
tx-producer --register--> transactions --> tx-consumer --raise/clear--> alarms --> mail-sender --> SMTP
                               ^   |
                    unregister |   v
                             tx-validator
```

| Component | State it keeps | Operations | What is hard about it | What makes it correct |
|---|---|---|---|---|
| **kgoconsumer: polling loop** (`consumer.go`) | the batch in hand, its context; in franz-go the position and the assignment; in Kafka the committed offsets | `StartPolling`, `pollFetches`, `consumeFetches`, `consumeWithRetry`, `commitOffsets`, `rewindToCommitted`, `Close` | a batch may be cut short anywhere by a deadline, a shutdown or a blocked rebalance, and then commits what it has and rewinds; clients crash, expire and take over from each other | no record is skipped; records of a partition are begun in order; committed offsets never go back; one client per partition; every record is consumed in the end |
| **kgoconsumer: dead-letter producer** (`dlq.go`) | publications in flight, acknowledged records, errors | `produce`, its callback, `drain` | callbacks run on other goroutines; one publication of several fails; the context of the batch ends under them | a record that was not published counts as not processed |
| **kgoconsumer: offset tracker** (`offsets.go`) | per partition the epoch of each processed offset, least and greatest | `registerAsProcessed`, `committableEpochOffsets` | registrations out of order, zero values that stand for "unset", epochs, gaps | the committable offset ends the unbroken run from the least registered record, with the right epoch |
| **kgoconsumer: rebalance cancellation** (`rebalance.go`) | cancel function, `shouldCancel` | `store`, `cancel`, `release` | the callback's goroutine runs before, during or after the batch it is for | the batch that blocks a rebalance is cancelled |
| **kgoconsumer: backoff** (`backoff.go`, `options.go`) | attempt; base, maximum and factor from the options | `wait`, `clear`, `sleepDuration` | an integer quotient of durations, a truncated factor, panics of the division and of `rand.N` | the wait is bounded by the maximum, grows up to it, starts over after a success, and never panics if the settings are sensible |
| **kgoconsumer: runner** (`runner.go`) | the channel of reports, the context of the consumers | `Run`: goroutines, collection of reports | one consumer's end stops the others; `Close` is deferred behind the report; there may be no consumer at all | all are told to stop, each report is received, nothing is released while a consumer polls |
| **saga consumer** (`saga/consumer.go`) | none of its own; `processed_transactions` through its port | `Consume`: check, actions, deferred mark | check and mark are separate statements; compensations meet transactions in any order | each command takes effect once; a compensation undoes what was done |
| **idempotent consumer** (`idempotent/consumer.go`) | the same | `Consume` | the same, without compensations | each message takes effect once |
| **tx-consumer** | `transactions_aggregates`, `transaction_logs`, `compensating_transaction_logs`, `counts`; publishes alarms | register, unregister | several clients in one database; an alarm is published in the middle of a database transaction | tables agree; crossings of the limit are told in order; no lock cycles |
| **tx-validator** | `processed_transactions`; publishes unregister commands | validate and compensate | the verdict is drawn anew by each attempt; a publication survives a rollback; it reads the topic it writes | what is rejected is compensated, after it, by nothing but its own output |
| **mail-sender** | `processed_transactions`; sends mails | raise, clear | a mail survives a rollback; what a clear command compensates | an alarm that is marked handled was mailed; the last mail is right |
| **postgres** (`internal/adapters/postgres`) | an open transaction in the context | `WithTx`, repositories, `wrapIfTransient` | locks, duplicate keys, a commit whose answer is lost, errors that are taken for permanent | all or nothing; retried exactly if not done |
| **tx-producer** (`cmd/tx-producer/main.go`) | records in flight, their errors | generate, publish at a limited rate, wait for the callbacks | repeats transaction ids with other contents, produces poison records; the loop ends while callbacks are outstanding | the client is not closed under them, and the exit code tells whether every record was acknowledged |
| **start and exit of the commands** (`cmd/*/main.go`, `otelinit.go`, `migrations.go`) | deferred releases, the signal context, the exit code | acquire, run, release in reverse | every step of the start may fail, in the middle of the SDK too; a signal comes at any time | nothing is released in use or before what depends on it |
| **the saga as a whole** | the two topics, both databases | - | two services consume one topic at their own pace, and one appends to it | aggregates end up with what the validator left; every saga ends |
| **spans, decorators and observers; keys of the configuration; deployment** | none | - | - | not modelled |

Interaction. A service passes a function to `kgoconsumer`, which calls it for each record of a batch in turn.
The function maps the record to a command, opens a database transaction (`WithTx`), and hands the command to
the saga or idempotent consumer, which calls the repositories and the actions of the service inside that
transaction. The error that comes back decides: none, the record is registered as processed; one that wraps
`ErrTransient`, it is retried after a backoff, unless the context of the batch is done; any other, the record
is published to the dead-letter topic. Actions may publish to Kafka or send mail from inside the transaction.

## 2. Modules

| Module | Models | State and actions against the code |
|---|---|---|
| `OffsetTracker` | `offsets.go` | The maps of `processedEpochOffsetsTracker`, with Go's zero value for a missing entry. `RegisterSingleAsProcessed` adds a record of a log with compaction gaps and leader epochs; `Walk` is the loop of `committableEpochOffsets`. |
| `CommitRun` | the result of that loop | `RunEnd(S)`: the end of the run of the registered next-offsets from the least one. `OffsetTracker` is checked against it, `KgoConsumer` uses it. |
| `AtLeastOnce` | the contract | Abstract specification of `kgoconsumer`: records settle, committed offsets advance over settled records. |
| `KgoConsumer` | `consumer.go`, `dlq.go`, `rebalance.go`, the effect of `runner.go` | A group of clients, each with its loop (`pc`), and the coordinator. One action per step between which another actor can act: see below. |
| `KgoConsumerInv` | - | Inductive invariants of `KgoConsumer`. |
| `Backoff` | `backoff.go`, `options.go` | `NewBackoff` per batch, `Wait` with the bound that `sleepDuration` draws below, `Clear`; the options set base, maximum and factor first. |
| `ProcessedTransactions` | table `processed_transactions` | The row of a command and the two queries of `saga_consumer_adapter_out.go`. |
| `TransactionalConsumer` | `WithTx`, `saga/consumer.go`, `idempotent/consumer.go`, as far as the services share them | Delivery (what `kgoconsumer` promises: in order per partition, at least once, sometimes to a second client meanwhile), the checks, insertions that wait for keys, commit, lost answers, rollback. |
| `SagaLedger` | the contract of the saga | Abstract specification: each command is handled once, and changes its aggregate with it. |
| `TxConsumer` | tx-consumer | Extends `TransactionalConsumer` by the statements on aggregate, logs and counts, with their locks, and by the alarm. Implements `SagaLedger`. |
| `TxValidator` | tx-validator | Extends it by the verdict and the unregister command, which is appended to the topic that is consumed. |
| `MailSender` | mail-sender | Extends it by the mail. |
| `SagaSystem` | the transactions topic with both its services | `TxValidator` in detail, and tx-consumer by its contract: `Consume` is a step of `SagaLedger` (`Ledger!Handle`, `Ledger!Ignore`) or no change, in order per partition or again after a rewind; `SetAside` is a dead letter. |
| `Process` | `main` and `run` of the commands, `otelinit.go` | Configuration, the parts of the SDK in order, the stack of deferred releases, the exit code. |
| `Service` | `runner.go`, the bodies of the three services | Pool, migrations, a goroutine per consumer, the reports in `errCh`, which has room for one of each and blocks when it is full. Extends `Process`. |
| `TxProducer` | the body of tx-producer | Publications, callbacks, the deferred wait. Extends `Process`. |
| `Programs` | the four commands | Composes `Service` and `TxProducer`. |
| `*_proofs` of `CommitRun`, `OffsetTracker`, `KgoConsumer`, `Backoff`, `Programs`, `TxConsumer`, `SagaSystem`, `MailSender` | - | Theorems. `CommitRun_proofs` also has what the others need about least elements and finite sums. |
| `MC*` | - | Symmetry sets, compaction gaps, factors, and the topics that the runs consume. |

The loop of `KgoConsumer`. `pc[c]` is where client `c` stands: `"poll"` (in `PollFetches`, or between polls),
`"fetched"` (it returned, the cancel function is not stored), `"next"`, `"running"`, `"backoff"` (in
`consumeFetches`), `"drain"`, `"commit"`, `"release"` and `"allow"` (the two deferred calls), `"stopped"`
(`StartPolling` returned), `"down"` (the process is gone). `PollFetches` picks a batch of any lengths from
the partitions the client holds; `StoreCancel` is `store` with its `shouldCancel` test; `StartRecord`,
`Succeed`, `FailTransiently`, `BackoffElapses`, `FailPermanently` and `AbortBatch` are the branches of
`consumeWithRetry`; `Published` and `NotPublished` are the callbacks of publications; `Drain` waits for them
and joins their errors; `Commit` is the commit with the rewind after it, `CommitFails` a failed request;
`Release` and `AllowRebalance` end the poll. Beside it run `NotifyBlocked` and
`CancelProcessing` (franz-go's goroutine for a blocked callback), `Timeout`, `Shutdown`, `Crash`, and the
coordinator: `Expire`, `StartRebalance`, `Revoke`, `Assign`, `DropLost`.

The database transaction of the services. `pc[w]` is the statement that worker `w`, one client of the group,
executes next; `wrote[w]` is what its open transaction has executed, and therefore which rows and keys it
holds; the committed tables change at `Commit` only. At READ COMMITTED a statement sees committed rows, waits
for the open transaction that changed the same row or inserted the same key, and goes on with what that left.
`RollBack` at any statement, `CommitUnanswered` and redelivery are the faults; a crash of a client is a
rollback or an unanswered commit followed by a redelivery.

How the modules meet. What `KgoConsumer` shows of `kgoconsumer` with a dead-letter topic that takes every
publication, the contract `AtLeastOnce`, is what `TransactionalConsumer` assumes of delivery: a record that finding 1
loses has no counterpart there. What `TxConsumer` is proved to implement, `SagaLedger`, is what `SagaSystem` uses for tx-consumer, so
that the run of `SagaSystem` need not interleave the statements of two databases. A goroutine of `Service` is
a client of `KgoConsumer`: `NewConsumer`, `StopPolling` and `Close` are the start, `"stopped"` and `Close` there,
and `ContextDone` is its `ctxDone`.

### What is abstracted

- *KgoConsumer* has logs of fixed length `LogEnd` with compaction gaps (`Gaps`), without leader epochs (they
  are in `OffsetTracker`). A batch is any non-empty stretch of each partition that ends in a record. A gap
  counts as settled. Fetch errors are fatal or the poll returns nothing (data loss resets in franz-go, which is external).
- A publication ends acknowledged, refused, or dropped with the context of the batch. The last can happen
  only once that context is done.
- Names, JSON, mail texts, spans, metrics and log messages are left out, ids are model values. A record is a
  command or `Poison`, a record without a valid header or body.
- The alarm limit is one constant (the adapter is static), and positive: an aggregate without rows is below
  it. Aggregates are integers without bounds, the column is a 32-bit `int`.
- Which errors of the driver are transient is not decided by the model: each statement may fail either way.
  Two errors are decided, as the code classifies them: a duplicate key is permanent, and so is a deadlock,
  which `NoCircleOfWaits` excludes.
- *Backoff* has durations as natural numbers (milliseconds) and factors as fractions, of which only the
  comparison and the truncation of the code are taken; the rounding of `math.Pow` beyond that, and its overflow
  to infinity, which the comparison with the maximum catches, are left out. The draw below the bound is random.
- *Process*: the parts of the SDK, the pool and the client are names; that a release fails is logged only, and
  therefore no case of its own. Reports of `Run` are counted, not told apart: each is an error.
- *SagaSystem* takes delivery to tx-consumer in order per partition with bounded repetitions, and its dead
  letters as faults. Amounts are positive, as tx-producer generates them.
- The clock, the time zone and the day of an aggregate are part of its key.

## 3. Runs

Deadlock is checked in every run. `Idle`, `AtRest`, `Exited` and `Panicked` stand for a system that is done, and
are enabled only then, so that one in which everyone waits for everyone is reported.

| Run | Instance | Question |
|---|---|---|
| `offset_tracker` | 2 partitions, offsets 0-3 with gaps, 2 epochs | Does the loop over the maps compute the end of the run, with the epoch of the record below it, for every order and repetition? |
| `group` | 2 clients, 1 partition of 2 records, 1 fault of 5 kinds (crash, expired session, fatal fetch error, failing commit, shutdown), 1 move, publications acknowledged or dropped | Is nothing untried committed past, do committed offsets never go back, and are the invariants of the proofs invariants? |
| `batch` | 1 client, 2 partitions, of 3 records with a gap between them and of 1 record behind a gap, 2 faults out of timeout, failing commit and crash, all outcomes of publications | Are records begun in order after every cut, in every partition of the fetch, and what does a commit pass over? |
| `contract` | 2 clients, 1 partition of 2 records and a gap, a crash or a timeout, 2 moves | Does the group implement `AtLeastOnce`, with one processor per partition? Does a poll that blocks a rebalance end, and is every record in front of the gap at least settled and committed past? |
| `loses_record` | 1 client, 2 records, 1 timeout | Finding 1 |
| `tx_consistency` | 2 clients, 2 partitions, 4 topics of 3 or 4 records, 2 faults, 2 redeliveries | Do tables, alarms and ledger agree in every interleaving? |
| `saga_any_order` | the same clients, 1 permanent fault | Finding 2 |
| `saga_system` | 2 clients of tx-validator beside tx-consumer, topics of 2 and 3 registrations and what they lead to, 1 fault, 1 redelivery | Is what is rejected compensated, after it, once per commit; do the aggregates end up with what was not; does every saga end? |
| `programs` | the four commands, up to 3 consumers, 2 records | Is nothing released in use or out of order, does the exit code tell, does one end end all? |
| `backoff` | 4 bases, 4 maxima, 6 factors, streaks of 12 | Does the delay stay below the maximum, grow, and start over? What panics? |
| `mail_sender` | 2 clients, topics of 4 and 5 alarms, 2 faults, 1 redelivery | Is every alarm mailed, and do the mails end right? |
| `mail_suppressed` | no faults | Finding 3 |

Why the bounds are enough. A hand-over takes two clients, and the ways a partition can come back take two
moves. In `batch` one
partition has a record to be passed over before, and one between, registered ones and a gap that ends a run, hence
`LogEnd` of 4; the other has a record that a batch may not have reached, or may have left, when it is cut. In `contract`
a gap in the middle lets every batch end before, start at and run over it. One fault of each kind at any point covers each cut, two cover a fault during the recovery
from another; `MaxCallbacks` of 1 or 2 covers a callback that is late for its batch and one for the next.
Safety of `kgoconsumer` beyond the bounds is proved. For the services two
workers are what a wait, a duplicate key and a zombie client need; the topics of `MCTxConsumer` hold a saga
beside a transaction on the same and on another aggregate, a repeated id with other contents, a repeated
transaction, and a poison record, with values that reach the limit exactly. Those of `MCSagaSystem` hold a
repeated id with other contents around a poison record, and two transactions of one aggregate in two
partitions; with up to three registrations judged, and each judgement possibly repeated, up to four unregister
commands follow. In `programs` three consumers let one end while one is created and one polls. In `backoff` every
quotient of a maximum and a base is exact, rounded, zero or undefined for some pair, and twelve waits take each
factor above 1 past the maximum for all but the smallest bases.

Fairness. The safety runs assume none. `ResponsiveSpec` of `KgoConsumer` assumes `LoopFairness`: a goroutine that
can run does, the record consumer returns (it is given a context), the callbacks of `Produce` are called (franz-go
ends every record, also by its delivery timeout or context), and the goroutine that franz-go launches for a blocked
callback runs. That is what `BlockedPollEnds` gets. `AtLeastOnceProgress` has `GroupFairness` as premise,
which the code alone does not give: a record does not fail transiently for ever (the code retries it without
bound on purpose), and the coordinator and franz-go get to move partitions between polls, which the
library's `BlockRebalanceOnPoll` with `AllowRebalance` after each poll is for. Strong fairness is needed
because a poll can begin again before a rebalance takes its turn. The run leaves out commits that fail for a
partition only: the code does not read that error, so at the end of a topic nothing commits again.

`FairSpec` of `Programs` assumes that the calls of `main` return, that callbacks are called, and that a consumer
whose context is done stops polling, which `StartPolling` and `BlockedPollEnds` are about. A consumer that polls
in peace may do so for ever. `SystemFairness` of `SagaSystem` assumes that each service goes on with what it has;
that faults and repeated deliveries end is their bound, and the bound is what the retries of `kgoconsumer` are worth: a service that
fails for ever ends no saga.

Every property has a mutation of the model that it must catch: a definition that begins with the comment
`Slip:` is the same operation with a plausible bug (a check dropped, an error ignored, a rewind to the wrong
offset), and `PROJECT.json` says which definition it replaces and which property then fails. One of them,
`RevokeInPoll` for `SingleProcessor`, is a mutation of the group session and not of this code: it stands for a
client that is configured without `BlockRebalanceOnPoll` (`consumer.go:36`).

## 4. Findings

1. **A cancelled batch can commit past a failed record** (`loses_record`). A record fails permanently, and the
   context of the batch ends before its publication is sent: the publication fails with the context's error.
   `pollFetches` takes the joined error for a cancelled batch (`consumer.go:114`), commits what the tracker
   holds and rewinds to it; the tracker's run starts at the least registered record (`offsets.go:23-33`),
   so with a later record registered the commit passes the failed one. `README.md:109-111` says a cancelled
   batch is refetched "rather than lost". `SkipsOnlyAtHead` bounds the damage: only records
   before the first registered one of a batch, in the same partition, can be passed over.
2. **Compensations are not looked up** (`saga_any_order`). `README.md:117-120` says the saga consumer looks up
   for a compensating command whether its transaction was compensated, and handles a compensating command
   that comes first. `saga/consumer.go:70-94` looks that up for transactions only: a compensation of a
   transaction that was not executed is subtracted, and a second one of the same transaction too, which
   tx-validator can issue. `SagaUnwinds` states what does hold: without dead letters, and with one
   compensation per transaction, aggregates hold exactly what was not compensated.
3. **An alarm that was cleared once is never mailed again** (`mail_suppressed`). A clear command is recorded as
   compensating its *player*, and a raise command of a compensated player is not executed
   (`alarm_consumer_adapter_out.go:66`, `:77`), although `README.md:84-85` promises a mail whenever the limit
   is exceeded.

What contradicts no statement of the repository, and is therefore no run:

- An alarm or unregister command stays in its topic when the database transaction around it rolls back.
  `CrossingsAreTold` is about committed ones, `CompensatedOncePerCommit` counts the wasted ones, and
  `OnlyValidRemains` needs that there is none.
- Two clients that start on an empty `counts` table insert a row each, after which every update changes both. `CountIsExact`
  bounds what that does: there are never more rows than clients, and the first row differs from the logs by less than
  there are rows.
- tx-producer repeats ids with other contents, and each service takes the first record of an id that it did not
  dead-letter. If the two differ, a compensation subtracts what was never added. `OnlyValidRemains` therefore asks
  for no dead letters of commands, and TLC refutes it without that condition.
- A service that is stopped by a signal exits with code 1, as `Run` reports the cancelled context of each consumer;
  with a configured number of 0 consumers it exits at once with code 0. `ExitCodeTells` says both.
- `Run` does not wait for the `Close` calls: the process may exit before a client has left its group, which then
  waits for the session to expire (`Crash` and `Expire` of `KgoConsumer`).
- A record that is dead-lettered does not clear the backoff: the next record's first retry goes on with its streak.
- A compaction gap ends the run of committable offsets: the records behind it are committed with a later batch
  only, and consumed again after a crash. `AtLeastOnce` allows that, and `Progress` promises no more.

## 5. Proofs

Every safety property that a passing run checks is a theorem about the specification of its module, for any
values of the constants that satisfy the assumptions below.

| Theorem | Property | Rests on |
|---|---|---|
| **offset tracker**, logs of any length, gaps and epochs | | |
| `TrackerTypes` | `TypeOK` | `TrackerInv` |
| `CommitsRunEnd` | `CommittableIsRunEnd` | `TrackerInv` and `WalkIsRunEnd`; that the run ends is `RunEndExists` |
| `CommitsRecordEpoch` | `CommittableEpochMatchesRecord` | the same |
| **`kgoconsumer`**, any clients, partitions, logs, gaps and faults | | |
| `TypeCorrect` | `TypeOK` | `TypeInv` |
| `NothingUntriedIsSkipped` | `CommittedAccounted` | `AccountInv` |
| `AccountAlways` | `AccountInv` | itself |
| `RecordsBegunInOrder` | `ConsumedInOrder` | `AccountInv` |
| `SkipsAreAtHead` | `SkipsOnlyAtHead` | `SkipInv` |
| `SkipAlways` | a batch that commits uncancelled settled what it handed out | `SkipInv` |
| `CommittedMonotone` | `CommittedNeverDecreases` | `AheadOfCommitted` |
| `AheadAlways` | `AheadOfCommitted` | itself |
| `OneProcessorPerPartition` | `SingleProcessor` | `HeldIsOwned` |
| `BlockedBatchesAreCancelled` | `BlockedBatchIsCancelled` | `NotifiedInv` |
| `SettledAlways` | `SettledInv`, with `DlqOutcomes \subseteq {"ok"}` | itself |
| `NothingIsLost` | `NoRecordLost`, with the same | `SettledInv` |
| `ImplementsAtLeastOnce` | `AtLeastOnceSafety`, with the same | `SettledInv` and `AheadOfCommitted` |
| **backoff**, any durations, factors and streaks | | |
| `NoDelayBeyondMax` | `DelayNeverExceedsMax` | `TypeOK` and the bound of the quotient |
| `NoPanic` | `PanicsOnlyIfMisconfigured` | the growth is at least 1 |
| `StreaksGrow` | `DelaysGrow` | `StreakInv` |
| **commands**, any consumers and records | | |
| `ProgramTypes` | `TypeOK` | `OpenInv` |
| `NothingReleasedInUse` | `ResourcesOutliveUse` | `UseInv` |
| `AlwaysReleasedInReverse` | `ReleasedInReverse` | `OpenInv` |
| `ExitCodeAlwaysTells` | `ExitCodeTells` | `UseInv` and an account of the records |
| **tx-consumer**, any topics, clients, faults and redeliveries | | |
| `TypesOK` | `TypeOK` | `LocksInv`, `CountInv` |
| `LedgerIsKept` | `LedgerSafety` (refinement of `SagaLedger`) | `LocksInv` |
| `NoCircleEver` | `NoCircleOfWaits` | `LocksInv` |
| `CountStaysExact` | `CountIsExact` | `CountInv` |
| `CrossingsStayTold` | `CrossingsAreTold`, with `AlarmValue > 0` | `CrossingInv` |
| `AggregatesStayMatched` | `AggregatesMatchLogs`, with `CompensationsAreDistinct` | `SumsInv` |
| `SagasUnwind` | `SagaUnwinds`, with `SagasInOrder` of every topic | `SagaInv` |
| **tx-validator and the saga as a whole**, the same | | |
| `SystemTypes` | `SystemTypeOK` | `TypeInv` |
| `CompensationComesAfter` | `CompensationFollows` | `ValidatorInv` |
| `RejectionIsCompensated` | `RejectedAreCompensated` | `ValidatorInv` |
| `CompensatedOnce` | `CompensatedOncePerCommit` | `CountInv` |
| `TopicsStayInOrder` | `SagasStayInOrder` (hypothesis of `SagasUnwind`) | `JudgeInv`, `CountInv` |
| `ValidTransactionsRemain` | `OnlyValidRemains` | `JudgeInv`, `CountInv`, `ApplyInv` |
| **mail-sender**, the same | | |
| `NothingSwallowed` | `NoAlarmSwallowed` | `MailInv` |
| `OneMailPerCommit` | `MailedOncePerCommit` | `MailInv` |
| `LastMailTells` | `LastMailIsRight` | `TurnInv` |

### Assumptions

Each module names what its constants must satisfy, and TLC evaluates it in the runs: they have their types, and the clients
and consumers are finitely many (`ConsumerAssumption`, `TrackerAssumption`, `BackoffAssumption`, `AmountAssumption`,
`TransactionalAssumption`, `TxConsumerAssumption`). Beyond types:

- A transaction is its own subject: a registration has `of = id` (`sagaadapters/tx.go`).
- The ids that the services draw are UUIDs, so that none is drawn twice: a transaction does not have the number of a
  publication of tx-validator (`TxValidatorAssumption`), and an alarm is published once under its id, to the partition
  of its player (`PublishedOnce`). tx-producer draws from few ids; `KeyedById` says that it sends each to one partition.
- Five theorems have a hypothesis of their own. The limit of `CrossingsStayTold` is positive because an aggregate without
  rows is at 0. `CompensationsAreDistinct` and `SagasInOrder` are what tx-validator writes: an unregister command has an id
  of its own (`IdsInv`), and comes behind the first registration of its transaction, with its content and as its only
  one. `TopicsStayInOrder` proves the latter of the topic of `SagaSystem`, for as long as tx-validator dead-lettered no command,
  wasted no publication and has none on the way; other registrations may repeat the id with other contents. The topics
  of `MCTxConsumer` that `tx_consistency` consumes satisfy both. Without the order `SagaUnwinds` is false (finding 2); with a dead-letter topic that refuses, so is
  `NoRecordLost` (finding 1).

### Arguments

*Offset tracker.* `TrackerInv` says that the map and the range of a partition follow from the set of registered next-offsets. The loop is a
recursive function. `WalkExists` shows that the function exists: it leads from each number to the next one without a
successor. `WalkEnds` shows that any such function leads from the least entry to the end of the run, by the least
number of rounds before the end from which it would not.

*`kgoconsumer`.*

- `TypeInv` is `TypeOK` and `RecordInHand`: without the latter `next + 1` may leave the log.
- `AccountInv` strengthens `CommittedAccounted` by `BatchInv` for each client: the iterator lies within the
  batch, everything before it is settled, given up or being published (`IteratedAccounted`, also before the
  batch, because a rewind or an assignment starts at an offset that is itself accounted for), what is
  registered lies in the batch and is settled (`RegisteredInBatch`), and nothing is left of a batch once it
  is over (`NothingLeftOver`). A commit is then to an offset at or before an iterator, and a rewind to one as well.
- `AheadOfCommitted`: a client that still owns a partition works at or ahead of its committed offset. A client
  whose session expired may work behind it, and is fenced.
- `HeldIsOwned`: without expired sessions a client holds only what it owns, and has no batch elsewhere.
- `SettledInv`: with a dead-letter topic that takes what it is given, only the last record the iterator handed
  out can be unsettled, when its publication was refused because the context was done, and the batch stops there.

*Backoff.* `StreakInv` relates the last wait to the growth: from a factor of 1 on the next wait is drawn below no less; under a
smaller one only the maximum can be drawn below twice, and anything else truncates to 0 and panics.

*Commands.* `UseInv` relates goroutines to reports: the consumers that ended are as many as the reports sent and received,
so that when all are received none polls. `OpenInv` says that what is open is a start of the SDK's parts with at most a pool or a
client on top.

*tx-consumer.* `LocksInv` says of each worker that what its transaction wrote follows from where it stands (`WroteInOrder`), that the
value it will commit is the committed one and its delta, and that a key it inserted is not taken
(`FitsTables`); and of any two that they hold neither the same row nor the same key (`Exclusive`). The locks
keep both: a commit changes no row and takes no key that another open transaction relies on. A commit is then a
step of `SagaLedger`, every other step a stutter. `NoCircleOfWaits` follows because whoever is waited for stands further
in the common order of locks. The rest adds, each time, what one more table knows:

- `CountInv`: the rows of counts that an open transaction will update are there, and its log row is new. A transaction that
  inserts a row began to while there was none (`SeesOnce`), so that rows and insertions under way are at most one per client, and
  each of them can put the first row out by one at most.
- `CrossingInv`: the alarm of an open transaction is in the topic, behind the last one that was told, and says
  what the row will be.
- `SumsInv`: the sums of the two logs are the aggregates. A commit adds one row to one sum.
- `SagaInv`: without dead letters a transaction that is done, handled or compensated is in the log, with the content of its first
  registration, and what remains in an aggregate is what was not compensated. A compensation is begun only behind that
  registration, whose row it removes from the sum.

*tx-validator and the saga.* `ValidatorInv` is `LocksInv` for the mark of tx-validator, with `RejectedKnown`. For
`OnlyValidRemains` the two services are followed apart and meet in the topic:

- `JudgeInv`: publications have numbers of their own (`IdsInv`), a record is begun in its turn (`PlacesInv`), and without a dead
  letter every registration that is done is marked, so that only the first of an id can be rejected (`FirstsInv`).
- `CountInv`: as many unregister commands as rejections, if none was wasted and no attempt is open; and since each rejection has
  one, each has exactly one.
- `ApplyInv`: tx-consumer consumed the start of each partition, and without a dead letter the aggregates hold the first
  registrations it consumed less the compensations it consumed.

`TopicInOrder` leads from the first two to the hypothesis of `SagasUnwind`: a compensation is that of a rejected registration
(`OneCompensation`), which is the first of its id (`FirstsInv`), and lies in its partition behind some registration of
that id, so behind the first.

When all is consumed the second sum is that of the rejected first registrations, paired with their compensations
(`SumPaired`), and the difference is the sum of the others.

*mail-sender.* `MailInv` is the same for its mark, with the mail before it. `TurnInv` adds that without a redelivery records are handled in
turn, so that the last mail of a player is that of the record that was handled last.

*Finite sums.* The sums of the models are folds over sets. `CommitRun_proofs` shows that a fold with `+` is a sum: that the function it
recurs by exists (`SumExists`) and is unique (`SumUnique`), and that it does not depend on the order in which elements are taken
(`SumRemove`). Where one would use induction over finite sets, it takes a set that is least, by inclusion, among those that would violate the claim
(`SmallestSet`, from the well-foundedness of strict inclusion).

Each invariant is proved by one lemma for `Init` and one for `Next` with a step per action, or per shape of action (`Moves`, `Ends`,
`Commits`: what a statement, a failure and a commit have in common), and the theorem combines them by temporal logic. TLC checks the invariants
`AccountInv`, `AheadOfCommitted` and `SettledInv` in the runs `group` and `contract`, and the theorems' properties in the runs of their modules.

### Only model-checked

Liveness: `BlockedPollEnds`, `AtLeastOnceProgress`, `OneStopsAll` and `EverySagaEnds` are about fairness and `ENABLED`, which is out of the prover's reach.

## 6. Not modelled, and plan

Not modelled: spans, decorators and observers (`oteldecorator`, `otelobserver`, `spanwrap`), which return what they
wrap and change no state; the names in the configuration; goose, which `migrations.go` calls, beyond its outcome; the
deployment. Partly: the options of `kgoconsumer` that only configure franz-go; a panic of tx-producer's random
draws when a configured amount is 0, which ends the process before anything is published. External, and modelled
from how they are used: franz-go, the group coordinator, PostgreSQL, the SMTP server.

Done, in this order: `OffsetTracker`, `KgoConsumer` with `AtLeastOnce`, their proofs, `TxConsumer` with
`SagaLedger`, `TxValidator`, `MailSender`; then compaction gaps in `KgoConsumer`, `Backoff`, `SagaSystem`, the commands
(`Process`, `Service`, `TxProducer`, `Programs`), and the proofs of `Backoff`, `Programs` and `TxConsumer`.

After these, every safety property of the runs became a theorem: those of `OffsetTracker`, `MailSender`, `TxValidator` and
`SagaSystem`, and the rest of `TxConsumer`, `Programs` and `Backoff`.

Next, in order of importance:

1. The step relations behind the liveness properties: which measure each fair action lowers, as action properties that can be proved
   although the liveness cannot.
2. The alarms topic end to end: what mail-sender makes of alarms whose transaction rolled back.
