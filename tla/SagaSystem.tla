------------------------------ MODULE SagaSystem ------------------------------
(***************************************************************************)
(* The transactions topic and the two services that consume it, each at    *)
(* its own pace: tx-validator in detail, and tx-consumer by its contract,  *)
(* SagaLedger, which TxConsumer implements.  tx-producer wrote the         *)
(* registrations, the validator appends the unregister commands.           *)
(***************************************************************************)
EXTENDS TxValidator

CONSTANT Aggregates     \* the keys (player, currency, day)

\* tx-producer draws ids and contents independently, so that ids come again with other
\* contents, but keys records by the id: one id has one partition.
KeyedById(content) ==
    \A p, q \in Partitions : \A m \in DOMAIN content[p], n \in DOMAIN content[q] :
        \/ IsPoison(content[p][m]) \/ IsPoison(content[q][n]) \/ p = q
        \/ content[p][m].id # content[q][n].id

ASSUME SagaSystemAssumption ==
    /\ Values \subseteq [aggregate : Aggregates, amount : Nat \ {0}]
    /\ \A content \in Topics : KeyedById(content)

VARIABLES
    consumed,       \* records tx-consumer is done with
    setAside,       \* records tx-consumer dead-lettered
    ledger,         \* the rows of its processed_transactions
    aggregates      \* the values of its aggregates

consumerVars == <<consumed, setAside, ledger, aggregates>>
systemVars == <<vars, consumerVars>>

\* mapToTxCommand: the content of a record, as tx-consumer names it.
ToTxCommand(c) ==
    [kind |-> c.kind, id |-> c.id, of |-> c.of,
     aggregate |-> c.value.aggregate, value |-> c.value.amount]

TxCommands ==
    {ToTxCommand(c) : c \in Commands \cup {Unregister(n, d) : n \in Nat, d \in Commands}}

Ledger == INSTANCE SagaLedger WITH
              Aggregates <- Aggregates, Commands <- TxCommands,
              processed <- ledger, aggregates <- aggregates

SystemTypeOK ==
    /\ TypeOK
    /\ setAside \subseteq consumed /\ consumed \subseteq Records
    /\ \A row \in ledger : \E r \in consumed : ~IsPoison(At(r)) /\ row = RowOf(At(r))
    /\ aggregates \in [Aggregates -> Int]

SystemInit ==
    /\ Init /\ Ledger!Init
    /\ consumed = {} /\ setAside = {}

-----------------------------------------------------------------------------
(* tx-consumer: in order per partition, or again after a rewind.           *)

Deliver(r) ==
    /\ IF r \in consumed
       THEN redeliveries < MaxRedeliveries /\ redeliveries' = redeliveries + 1
       ELSE /\ \A n \in 1 .. r[2] - 1 : <<r[1], n>> \in consumed
            /\ UNCHANGED redeliveries
    /\ consumed' = consumed \cup {r}
    /\ UNCHANGED <<topic, done, dlq, pc, at, wrote, processed>>
    /\ UNCHANGED <<published, verdicts, rejected, wasted>>

\* A command that is handled already changes nothing.
Consume(r) ==
    /\ ~IsPoison(At(r))
    /\ Deliver(r)
    /\ LET c == ToTxCommand(At(r))
       IN  \/ Ledger!Handle(c)
           \/ Ledger!Ignore(c)
           \/ Handled(ledger, c.id) /\ UNCHANGED <<ledger, aggregates>>
    /\ UNCHANGED <<faults, setAside>>

\* A poison record, or an error that is not transient.  The command may be handled, when
\* the answer to its commit was lost or another client was faster.
SetAside(r) ==
    /\ Deliver(r)
    /\ IF IsPoison(At(r)) THEN UNCHANGED faults ELSE Fault("permanent")
    /\ setAside' = setAside \cup {r}
    /\ UNCHANGED <<ledger, aggregates>>

-----------------------------------------------------------------------------
Quiet == AllConsumed /\ consumed = Records

AtRest == Quiet /\ UNCHANGED systemVars

Validator == Next /\ ~AllConsumed /\ UNCHANGED consumerVars

SystemNext ==
    \/ Validator
    \/ \E r \in Records : Consume(r) \/ SetAside(r)
    \/ AtRest

\* Each service goes on with what it has.  The records behind a rewind are not owed.
Owed(r) == r \notin consumed /\ (Consume(r) \/ SetAside(r))

SystemFairness ==
    /\ WF_systemVars(Validator)
    /\ WF_systemVars(\E r \in Records : Owed(r))

SystemSpec == SystemInit /\ [][SystemNext]_systemVars /\ SystemFairness

-----------------------------------------------------------------------------
IsRegister(r) == ~IsPoison(At(r)) /\ ~IsUnregister(r)

\* No record of the same transaction lies before r.
IsFirst(r) ==
    IsRegister(r) /\ \A n \in 1 .. r[2] - 1 :
        IsRegister(<<r[1], n>>) => At(<<r[1], n>>).id # At(r).id

\* What the validator left of the transactions of a.
Valid(a) ==
    MapThenSumSet(LAMBDA r : At(r).value.amount,
                  {r \in Records : /\ IsFirst(r) /\ At(r).value.aggregate = a
                                   /\ \A c \in rejected : c.id # At(r).id})

\* No command was dead-lettered, and no unregister command of a failed attempt is left.
Untroubled == (\A r \in dlq \cup setAside : IsPoison(At(r))) /\ wasted = 0

\* When both services have consumed the topic, the aggregates hold the transactions that
\* the validator did not reject, each once and with the content of its first record,
\* although ids are repeated with other contents, records come twice, and tx-consumer may
\* be ahead of the validator or behind it (kafka/validator_adapter_out.go:35-72,
\* saga/consumer.go:48-65).  A dead letter of either service leaves less or more.
OnlyValidRemains == Quiet /\ Untroubled => \A a \in Aggregates : aggregates[a] = Valid(a)

\* tx-consumer undid transaction c, or its compensation is in the dead-letter topic.
Undone(c) ==
    \/ Compensated(ledger, c.id)
    \/ \E r \in setAside : IsUnregister(r) /\ At(r).of = c.id

\* Every saga ends: each registration is judged or dead-lettered, and what is rejected is
\* undone in the aggregates, although the validator appends to the topic it consumes
\* (kafka/tx_consumer_adapter_in.go:26-66, domain/tx/validator.go:25-41).
EverySagaEnds ==
    <>[] \A r \in Records : IsRegister(r) =>
            /\ r \in dlq \/ Handled(processed, At(r).id)
            /\ At(r) \in rejected => Undone(At(r))

=============================================================================
