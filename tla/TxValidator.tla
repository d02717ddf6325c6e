----------------------------- MODULE TxValidator -----------------------------
(***************************************************************************)
(* tx-validator: the idempotent consumer (idempotent/consumer.go) checks a *)
(* register command, has it validated, publishes an unregister command if  *)
(* it is not valid, and marks it handled.  The unregister command goes to  *)
(* the topic that is consumed, from which no rollback takes it back.       *)
(***************************************************************************)
EXTENDS TransactionalConsumer

CONSTANT Values     \* what registrations of one transaction id may differ in

Register(t, value) == [kind |-> "register", id |-> t, of |-> t, value |-> value]

\* Slip: the command has the id of the transaction.
UnregisterUnderKey(n, c) == [kind |-> "unregister", id |-> c.id, of |-> c.id, value |-> c.value]

\* The id is a new UUID: the number of the publication.
Unregister(n, c) == [kind |-> "unregister", id |-> <<n>>, of |-> c.id, value |-> c.value]

\* Ids are UUIDs: no transaction has the number of a publication.
ASSUME TxValidatorAssumption ==
    \A c \in Commands : /\ c.kind = "register" /\ c.value \in Values
                        /\ c.of = c.id /\ c.id \notin Seq(Nat)

VARIABLES
    published,  \* the number of unregister commands published
    verdicts,   \* the verdict of each worker's attempt
    \* history
    rejected,   \* register commands handled as not valid
    wasted      \* unregister commands published by attempts that failed

vars == <<handlingVars, published, verdicts, rejected, wasted>>

Verdicts == {"none", "valid", "invalid"}

At(r) == topic[r[1]][r[2]]

IsUnregister(r) == At(r).kind = "unregister"

TypeOK ==
    /\ HandlingTypeOK({"validate", "unregister"})
    /\ published = Cardinality({r \in Records : IsUnregister(r)})
    /\ verdicts \in [Workers -> Verdicts]
    /\ \A w \in Workers : pc[w] = "unregister" => verdicts[w] = "invalid"
    /\ rejected \subseteq Commands /\ wasted \in Nat

Init ==
    /\ HandlingInit
    /\ published = 0
    /\ verdicts = [w \in Workers |-> "none"]
    /\ rejected = {} /\ wasted = 0

\* The verdict is forgotten with the attempt; a publication it led to is wasted.
EndFailed(w) ==
    /\ verdicts' = IF pc'[w] = "idle" THEN [verdicts EXCEPT ![w] = "none"] ELSE verdicts
    /\ wasted' = IF pc'[w] = "idle" /\ "unregister" \in wrote[w] THEN wasted + 1 ELSE wasted

Begin(w, r) == BeginRecord(w, r) /\ UNCHANGED <<published, verdicts, rejected, wasted>>

RejectPoison(w) == RejectRecord(w) /\ UNCHANGED <<published, verdicts, rejected, wasted>>

\* mapToRegisterCommand: other commands than register commands are not consumed.
SkipUnregister(w) ==
    /\ pc[w] = "begun" /\ Command(w).kind = "unregister"
    /\ Settle(w) /\ EndAttempt(w)
    /\ UNCHANGED <<topic, redeliveries, faults, processed, published, verdicts, rejected, wasted>>

CheckHandled(w) ==
    /\ pc[w] = "begun" /\ Command(w).kind # "unregister"
    /\ CheckHandledThen(w, "validate")
    /\ UNCHANGED <<published, verdicts, rejected, wasted>>

\* Every attempt is validated anew, at random.
Validate(w) ==
    /\ pc[w] = "validate"
    /\ \E verdict \in Verdicts \ {"none"} :
          /\ verdicts' = [verdicts EXCEPT ![w] = verdict]
          /\ Execute(w, "validate", IF verdict = "valid" THEN "mark" ELSE "unregister")
    /\ UNCHANGED <<published, rejected, wasted>>

Publish(w, p) ==
    /\ published' = published + 1
    /\ topic' = [topic EXCEPT ![p] = Append(@, Unregister(published', Command(w)))]

Published(w) ==
    /\ wrote' = [wrote EXCEPT ![w] = @ \cup {"unregister"}]
    /\ Goto(w, "mark")
    /\ UNCHANGED <<done, dlq, redeliveries, faults, at, processed, verdicts, rejected, wasted>>

\* Slip: the publication is not waited for, and may be lost.
ProduceAsync(w) ==
    /\ pc[w] = "unregister"
    /\ Publish(w, at[w][1]) \/ UNCHANGED <<topic, published>>
    /\ Published(w)

\* Slip: the record is keyed by its own id and goes to any partition.
ProduceAnywhere(w) ==
    /\ pc[w] = "unregister"
    /\ \E p \in Partitions : Publish(w, p)
    /\ Published(w)

\* ProduceSync of a record with the key of the register command: into its partition.  If
\* an error is returned the record may be there too: this step, then a rollback.
ProduceUnregister(w) ==
    /\ pc[w] = "unregister"
    /\ Publish(w, at[w][1])
    /\ Published(w)

Mark(w) == MarkHandled(w) /\ EndFailed(w) /\ UNCHANGED <<published, rejected>>

EndSuccessful(w) ==
    /\ verdicts' = [verdicts EXCEPT ![w] = "none"]
    /\ rejected' = IF verdicts[w] = "invalid" THEN rejected \cup {Command(w)} ELSE rejected
    /\ UNCHANGED <<published, wasted>>

Commit(w) == CommitTx(w) /\ EndSuccessful(w)

CommitUnanswered(w) == CommitTxUnanswered(w) /\ EndSuccessful(w)

\* An unregister record needs no database.
Fail(w) ==
    /\ RollBack(w) /\ Command(w).kind # "unregister"
    /\ EndFailed(w) /\ UNCHANGED <<published, rejected>>

Idle == AllConsumed /\ UNCHANGED vars

Next ==
    \/ \E w \in Workers :
          \/ RejectPoison(w) \/ SkipUnregister(w) \/ CheckHandled(w) \/ Validate(w)
          \/ ProduceUnregister(w) \/ Mark(w)
          \/ Commit(w) \/ CommitUnanswered(w) \/ Fail(w)
    \/ \E w \in Workers, r \in Records : Begin(w, r)
    \/ Idle

Spec == Init /\ [][Next]_vars

-----------------------------------------------------------------------------
\* An unregister command comes after a registration of its transaction, with the same
\* content, in the same partition: whoever consumes the topic in order meets the
\* transaction first (kafka/validator_adapter_out.go:35-72).
CompensationFollows ==
    \A r \in Records : IsUnregister(r) =>
        \E n \in 1 .. r[2] - 1 :
            /\ At(<<r[1], n>>).kind = "register"
            /\ At(<<r[1], n>>).id = At(r).of /\ At(<<r[1], n>>).value = At(r).value

\* A registration that was handled as not valid has its unregister command in the topic,
\* with its content and not that of another registration of the same id: no retry, no
\* lost answer of a commit and no redelivery drops it (domain/tx/validator.go:25-41).
RejectedAreCompensated ==
    \A c \in rejected :
        \E r \in Records : IsUnregister(r) /\ At(r).of = c.id /\ At(r).value = c.value

\* The service does not compensate a transaction twice, nor feed on its own output: every
\* unregister command belongs to a registration handled as not valid, to an open attempt,
\* or to an attempt that failed after publishing it (idempotent/consumer.go:31-56).
CompensatedOncePerCommit ==
    published =< Cardinality({c.id : c \in rejected}) + wasted
                 + Cardinality({w \in Workers : "unregister" \in wrote[w]})

=============================================================================
