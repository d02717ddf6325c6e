----------------------------- MODULE MCMailSender -----------------------------
EXTENDS MailSender, TLC

CONSTANTS p1, p2, r1, r2, r3, c1, c2, player1, player2

Poison == [kind |-> "poison"]

Two(first, second) == [p \in Partitions |-> IF p = p1 THEN first ELSE second]

\* tx-consumer raised the alarm again because its first transaction failed after it.
RaisedTwice ==
    {Two(<<Raise(r1, player1), Raise(r2, player1), Clear(c1, player1)>>,
         <<Poison, Raise(r3, player2)>>)}

\* The aggregate goes over the limit, below, over it again, and below.
RaisedAgain ==
    {Two(<<Raise(r1, player1), Clear(c1, player1), Raise(r2, player1), Clear(c2, player1)>>,
         <<>>)}

Alarms == RaisedTwice \cup RaisedAgain

WorkerSymmetry == Permutations(Workers)
=============================================================================
