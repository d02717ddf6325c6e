------------------------ MODULE TransactionalConsumer ------------------------
(***************************************************************************)
(* What tx-consumer, tx-validator and mail-sender have in common: clients  *)
(* of a group consume a topic, and handle each command in a database       *)
(* transaction (postgres/transactions.go) that checks and marks it in      *)
(* processed_transactions.  The actions here say what happens to these;    *)
(* the modules that extend this one add the statements of a service.       *)
(*                                                                         *)
(* PostgreSQL at READ COMMITTED is external: a statement sees committed    *)
(* rows, and what an open transaction changed makes others wait for its    *)
(* end.  So is delivery, which is what KgoConsumer shows of kgoconsumer: a *)
(* record is begun when the earlier ones of its partition are done,        *)
(* possibly again, and possibly by a second client meanwhile.              *)
(***************************************************************************)
EXTENDS Integers, Sequences, FiniteSetsExt, ProcessedTransactions

CONSTANTS
    Workers,            \* the clients of the group, in one process or in several
    Partitions,
    Topics,             \* contents of the topic: a sequence of commands per partition
    FaultKinds,         \* which of the faults below may happen
    MaxFaults,          \* bound: faults in a behaviour
    MaxRedeliveries     \* bound: records begun again, or beside their partition's client

\* "transient": a statement, a side effect or the commit fails and the record is retried;
\* "permanent": the same, and the record goes to the dead-letter topic; "commit": the
\* transaction commits, but the client is told an error of either sort.
AllFaults == {"transient", "permanent", "commit"}

NoRecord == <<>>

\* A record that cannot be mapped to a command.
IsPoison(c) == c.kind = "poison"

Entries ==
    LET In(content) == UNION {{content[p][n] : n \in 1 .. Len(content[p])} : p \in Partitions}
    IN  UNION {In(content) : content \in Topics}

Commands == {c \in Entries : ~IsPoison(c)}

ASSUME TransactionalAssumption ==
    /\ IsFiniteSet(Workers)
    /\ Topics \subseteq [Partitions -> Seq(Entries)]
    /\ FaultKinds \subseteq AllFaults
    /\ MaxFaults \in Nat /\ MaxRedeliveries \in Nat

VARIABLES
    topic,                  \* the topic that is consumed
    done,                   \* records consumed without error, or dead-lettered
    dlq,                    \* records dead-lettered
    redeliveries, faults,   \* how much of the bounds is used up
    pc,                     \* where each worker is
    at,                     \* its record
    wrote,                  \* the statements its open transaction executed
    processed               \* the committed rows of processed_transactions

deliveryVars == <<topic, done, dlq, redeliveries>>
handlingVars == <<deliveryVars, faults, pc, at, wrote, processed>>

Records == UNION {{p} \X (1 .. Len(topic[p])) : p \in Partitions}

Command(w) == topic[at[w][1]][at[w][2]]

HandlingTypeOK(statements) ==
    /\ done \subseteq Records /\ dlq \subseteq done
    /\ redeliveries \in 0 .. MaxRedeliveries
    /\ faults \in 0 .. MaxFaults
    /\ pc \in [Workers -> {"idle", "begun", "compensated", "mark", "commit"} \cup statements]
    /\ \A w \in Workers : at[w] \in (IF pc[w] = "idle" THEN {NoRecord} ELSE Records)
    /\ wrote \in [Workers -> SUBSET ({"mark"} \cup statements)]
    /\ processed \subseteq {RowOf(c) : c \in Commands}

HandlingInit ==
    /\ topic \in Topics
    /\ done = {} /\ dlq = {} /\ redeliveries = 0 /\ faults = 0
    /\ pc = [w \in Workers |-> "idle"]
    /\ at = [w \in Workers |-> NoRecord]
    /\ wrote = [w \in Workers |-> {}]
    /\ processed = {}

Goto(w, state) == pc' = [pc EXCEPT ![w] = state]

Fault(kind) ==
    /\ kind \in FaultKinds
    /\ faults < MaxFaults
    /\ faults' = faults + 1

\* The transaction and the attempt at the record are over.
EndAttempt(w) ==
    /\ Goto(w, "idle")
    /\ at' = [at EXCEPT ![w] = NoRecord]
    /\ wrote' = [wrote EXCEPT ![w] = {}]

Settle(w) == done' = done \cup {at[w]} /\ UNCHANGED dlq

\* Slip: the record is begun again all the same.
DeadLetterOnly(w) == dlq' = dlq \cup {at[w]} /\ UNCHANGED done

DeadLetter(w) == done' = done \cup {at[w]} /\ dlq' = dlq \cup {at[w]}

-----------------------------------------------------------------------------
(* Delivery.                                                               *)

EarlierDone(r) == \A n \in 1 .. r[2] - 1 : <<r[1], n>> \in done

\* No worker has a record of p in hand.
NoClientOf(p) == \A v \in Workers : pc[v] # "idle" => at[v][1] # p

BeginRecord(w, r) ==
    /\ pc[w] = "idle" /\ EarlierDone(r)
    /\ IF r \notin done /\ NoClientOf(r[1])
       THEN UNCHANGED redeliveries
       ELSE redeliveries < MaxRedeliveries /\ redeliveries' = redeliveries + 1
    /\ Goto(w, "begun")
    /\ at' = [at EXCEPT ![w] = r]
    /\ UNCHANGED <<topic, done, dlq, faults, wrote, processed>>

\* The record cannot be mapped to a command.
RejectRecord(w) ==
    /\ pc[w] = "begun" /\ IsPoison(Command(w))
    /\ DeadLetter(w) /\ EndAttempt(w)
    /\ UNCHANGED <<topic, redeliveries, faults, processed>>

-----------------------------------------------------------------------------
(* The database transaction.                                               *)

\* A command that is already handled is neither executed nor marked again.
CheckHandledThen(w, next) ==
    /\ pc[w] = "begun" /\ ~IsPoison(Command(w))
    /\ Goto(w, IF Handled(processed, Command(w).id) THEN "commit" ELSE next)
    /\ UNCHANGED <<deliveryVars, faults, at, wrote, processed>>

\* A transaction that was compensated already is marked, but not executed.
CheckCompensatedThen(w, next) ==
    /\ pc[w] = "compensated"
    /\ Goto(w, IF Compensated(processed, Command(w).of) THEN "mark" ELSE next)
    /\ UNCHANGED <<deliveryVars, faults, at, wrote, processed>>

Execute(w, statement, next) ==
    /\ wrote' = [wrote EXCEPT ![w] = @ \cup {statement}]
    /\ Goto(w, next)
    /\ UNCHANGED <<deliveryVars, faults, at, processed>>

\* The open transaction of v inserted the key of c by the same statement.
HoldsKey(v, c, statement) == statement \in wrote[v] /\ Command(v).id = c.id

\* Slip: a table without a primary key.
InsertUnkeyed(w, statement, taken, next) == pc[w] = statement /\ Execute(w, statement, next)

\* An insertion waits for one of the same key; if a committed row has it (taken), the
\* error is not transient and the record goes to the dead-letter topic.
Insert(w, statement, taken, next) ==
    /\ pc[w] = statement
    /\ ~ \E v \in Workers \ {w} : HoldsKey(v, Command(w), statement)
    /\ IF taken
       THEN /\ DeadLetter(w) /\ EndAttempt(w)
            /\ UNCHANGED <<topic, redeliveries, faults, processed>>
       ELSE Execute(w, statement, next)

\* The deferred mark, after the actions.
MarkHandled(w) == Insert(w, "mark", Handled(processed, Command(w).id), "commit")

ApplyMark(w) ==
    processed' = IF "mark" \in wrote[w] THEN processed \cup {RowOf(Command(w))} ELSE processed

\* WithTx commits and the record is consumed.
CommitTx(w) ==
    /\ pc[w] = "commit"
    /\ ApplyMark(w) /\ Settle(w) /\ EndAttempt(w)
    /\ UNCHANGED <<topic, redeliveries, faults>>

\* The transaction commits, but the connection or the context ends before the answer.
CommitTxUnanswered(w) ==
    /\ pc[w] = "commit" /\ Fault("commit")
    /\ ApplyMark(w) /\ EndAttempt(w)
    /\ DeadLetter(w) \/ UNCHANGED <<done, dlq>>
    /\ UNCHANGED <<topic, redeliveries>>

\* Slip: the mark is written outside the transaction.
RollBackAllButMark(w) ==
    /\ pc[w] # "idle" /\ Fault("transient")
    /\ ApplyMark(w) /\ EndAttempt(w)
    /\ UNCHANGED deliveryVars

\* WithTx does not begin, or rolls back with an error: wrapIfTransient tells whether the
\* record is begun again.  The death of the client is a transient fault of this kind.
RollBack(w) ==
    /\ pc[w] # "idle" /\ ~(pc[w] = "begun" /\ IsPoison(Command(w)))
    /\ \/ Fault("transient") /\ UNCHANGED <<done, dlq>>
       \/ Fault("permanent") /\ DeadLetter(w)
    /\ EndAttempt(w)
    /\ UNCHANGED <<topic, redeliveries, processed>>

AllConsumed == done = Records /\ \A w \in Workers : pc[w] = "idle"

=============================================================================
