----------------------------- MODULE MCSagaSystem -----------------------------
EXTENDS SagaSystem, TLC

CONSTANTS p1, p2, t1, t2, a, b

Poison == [kind |-> "poison"]

Content(aggregate, amount) == [aggregate |-> aggregate, amount |-> amount]

Contents == {Content(a, 6), Content(a, 3), Content(b, 9)}

Two(first, second) == [p \in Partitions |-> IF p = p1 THEN first ELSE second]

\* tx-producer repeats transaction ids, with other contents.
Repeated == Two(<<Register(t1, Content(a, 6)), Poison, Register(t1, Content(b, 9))>>, <<>>)

\* Two transactions of one aggregate, of which the services can be at any point.
Beside == Two(<<Register(t1, Content(a, 6))>>, <<Register(t2, Content(a, 3))>>)

Registrations == {Repeated, Beside}

=============================================================================
