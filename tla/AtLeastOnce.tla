----------------------------- MODULE AtLeastOnce -----------------------------
(***************************************************************************)
(* What kgoconsumer promises to the owner of a topic, whatever the group   *)
(* does: records settle (are consumed, or taken by the dead-letter topic)  *)
(* and the committed offset of a partition follows only over settled ones. *)
(***************************************************************************)
EXTENDS Naturals

CONSTANTS
    Partitions,
    LogEnd,
    Absent        \* offsets <<p, o>> without a record, which count as settled

VARIABLES
    settled,      \* the records <<p, o>> that settled
    committed     \* committed[p]: where consumption of p resumes after a crash

vars == <<settled, committed>>

Records == Partitions \X (0 .. LogEnd - 1)

Init ==
    /\ settled = Absent
    /\ committed = [p \in Partitions |-> 0]

Settle(r) ==
    /\ settled' = settled \cup {r}
    /\ UNCHANGED committed

\* One commit request may move several partitions.
Advance ==
    /\ \E target \in [Partitions -> 0 .. LogEnd] :
          /\ \A p \in Partitions :
                /\ committed[p] =< target[p]
                /\ \A o \in committed[p] .. target[p] - 1 : <<p, o>> \in settled
          /\ committed' = target
    /\ UNCHANGED settled

Next == Advance \/ \E r \in Records : Settle(r)

Spec == Init /\ [][Next]_vars

\* Every record settles, and the committed offset of a partition gets to its first absent
\* record or further: from there on, one crash after another may have the same records
\* consumed again.
Progress ==
    /\ <>(Records \subseteq settled)
    /\ \A p \in Partitions :
          <>(\A o \in 0 .. LogEnd - 1 :
                (\A i \in 0 .. o : <<p, i>> \notin Absent) => o < committed[p])

=============================================================================
