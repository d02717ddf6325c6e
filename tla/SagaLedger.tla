------------------------------ MODULE SagaLedger ------------------------------
(***************************************************************************)
(* What the saga consumer and its database promise about the commands of   *)
(* the transactions topic, however often and by however many clients they  *)
(* are consumed: a command is handled once, and with it, at once, changes  *)
(* the aggregate it is for; only a transaction that has been compensated   *)
(* is handled without changing anything.                                   *)
(***************************************************************************)
EXTENDS Integers, ProcessedTransactions

CONSTANTS
    Aggregates,
    Commands    \* records [kind, id, of, aggregate, value], of TxConsumer

VARIABLES
    processed,     \* rows [id, compensates] of the commands handled
    aggregates     \* aggregates[a]: the value of a

vars == <<processed, aggregates>>

\* What handling a command adds to its aggregate.
Delta(c) == IF c.kind = "register" THEN c.value ELSE -c.value

Init ==
    /\ processed = {}
    /\ aggregates = [a \in Aggregates |-> 0]

\* Also a transaction compensated by now, if it was not when its consumer looked.
Handle(c) ==
    /\ ~Handled(processed, c.id)
    /\ processed' = processed \cup {RowOf(c)}
    /\ aggregates' = [aggregates EXCEPT ![c.aggregate] = @ + Delta(c)]

Ignore(c) ==
    /\ ~Handled(processed, c.id)
    /\ c.kind = "register" /\ Compensated(processed, c.of)
    /\ processed' = processed \cup {RowOf(c)}
    /\ UNCHANGED aggregates

Next == \E c \in Commands : Handle(c) \/ Ignore(c)

Spec == Init /\ [][Next]_vars

-----------------------------------------------------------------------------
\* Record n of a partition is the first that registers transaction t.
Registers(c, t) == c.kind = "register" /\ c.id = t

IsFirstOf(partition, n, t) ==
    Registers(partition[n], t) /\ \A m \in 1 .. n - 1 : ~Registers(partition[m], t)

\* The topics on which the ledger unwinds, and those that tx-validator leaves
\* (kafka/validator_adapter_out.go:35-72): a compensation has an id of its own, is the only
\* one of its transaction, and comes behind the first registration of it, whose content it
\* has; other registrations may repeat the id there with other contents.
SagasInOrder(content) ==
    \A p \in DOMAIN content : \A n \in DOMAIN content[p] :
        LET c == content[p][n]
        IN  c.kind = "unregister" =>
                /\ \E m \in 1 .. n - 1 :
                      /\ IsFirstOf(content[p], m, c.of)
                      /\ content[p][m].aggregate = c.aggregate /\ content[p][m].value = c.value
                /\ \A q \in DOMAIN content : \A m \in DOMAIN content[q] :
                      LET d == content[q][m]
                      IN  /\ ~Registers(d, c.id)
                          /\ Registers(d, c.of) => q = p
                          /\ d.kind = "unregister" /\ d.of = c.of => d.id = c.id

=============================================================================
