---------------------------- MODULE MCTxConsumer ----------------------------
EXTENDS TxConsumer, TLC

CONSTANTS p1, p2, t1, t2, u1, u2, a, b

Poison == [kind |-> "poison"]

One(commands) == [p \in Partitions |-> IF p = p1 THEN commands ELSE <<>>]

Two(first, second) == [p \in Partitions |-> IF p = p1 THEN first ELSE second]

\* A transaction and its compensation beside another one: of the same aggregate, which
\* they take over the limit together, or of another aggregate.
Sagas ==
    {Two(<<Register(t1, a, 6), Unregister(u1, t1, a, 6)>>, <<Register(t2, k, 4)>>) : k \in {a, b}}

\* The same transaction id for two registrations, and a record that is no command.
Repeated ==
    {Two(<<Register(t1, a, 6), Register(t1, b, 9)>>, <<Poison, Register(t2, a, 7)>>)}

\* The validator compensated a transaction twice.
TwiceCompensated ==
    {One(<<Register(t1, a, 6), Unregister(u1, t1, a, 6), Unregister(u2, t1, a, 6)>>)}

\* The producer repeated a transaction, with other contents, after it was compensated.
CompensatedBetween ==
    {One(<<Register(t1, a, 6), Unregister(u1, t1, a, 6), Register(t1, b, 9)>>)}

SagasAndRepeated == Sagas \cup Repeated \cup CompensatedBetween

AnyOrder == CompensatedBetween \cup TwiceCompensated

WorkerSymmetry == Permutations(Workers)
=============================================================================
