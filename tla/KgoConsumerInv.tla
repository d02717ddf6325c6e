---------------------------- MODULE KgoConsumerInv ----------------------------
(***************************************************************************)
(* Inductive strengthening of the safety properties of KgoConsumer, in     *)
(* named parts; checked by TLC here and proved in KgoConsumer_proofs.      *)
(***************************************************************************)
EXTENDS KgoConsumer

\* The batch is being worked on: its tracker and publications are in use.
Working(c) == pc[c] \in {"next", "running", "backoff", "drain", "commit"}

\* A record is only in hand while the iterator stands before the end of the batch.
RecordInHand ==
    \A c \in Consumers : pc[c] = "running" =>
        cur[c] \in Partitions /\ next[c][cur[c]] < position[c][cur[c]]

BatchOrdered(c) ==
    \A p \in Partitions : from[c][p] =< next[c][p] /\ next[c][p] =< position[c][p]

\* Nothing before the iterator was left out, not even before the batch.
IteratedAccounted(c) ==
    \A p \in Partitions : \A o \in 0 .. next[c][p] - 1 :
        <<p, o>> \in settled \cup gaveUp \cup pending[c]

RegisteredInBatch(c) ==
    Working(c) =>
        /\ \A p \in Partitions : \A n \in registered[c][p] :
              from[c][p] < n /\ n =< next[c][p] /\ <<p, n - 1>> \in settled
        /\ \A r \in pending[c] \cup acked[c] :
              from[c][r[1]] =< r[2] /\ r[2] < next[c][r[1]]
        /\ acked[c] \subseteq settled

NothingLeftOver(c) ==
    /\ ~Working(c) /\ pc[c] # "release" =>
          registered[c] = NothingRegistered /\ acked[c] = {}
    /\ pc[c] \notin {"next", "running", "backoff", "drain"} => pending[c] = {}

BatchInv(c) ==
    /\ BatchOrdered(c)
    /\ IteratedAccounted(c)
    /\ RegisteredInBatch(c)
    /\ NothingLeftOver(c)

AccountInv ==
    /\ Gaps \subseteq settled
    /\ CommittedAccounted
    /\ \A c \in Consumers : BatchInv(c)

\* A client that may still commit works at or behind the committed offset of the
\* partitions that are its own; it has no batch in those it does not hold.
AheadOfCommitted ==
    \A c \in Consumers :
        /\ failed[c] => pc[c] \in {"release", "allow", "stopped"}
        /\ \A p \in Partitions :
              /\ p \in held[c] /\ owner[p] = c /\ ~failed[c] => committed[p] =< from[c][p]
              /\ p \notin held[c] => from[c][p] = position[c][p]

\* A batch that commits without having been cancelled took every record it iterated.
SkipInv ==
    \A c \in Consumers :
        /\ \A p \in Partitions : \A o \in from[c][p] .. next[c][p] - 1 :
              \/ <<p, o>> \in settled \cup pending[c]
              \/ failed[c]
              \/ Working(c) /\ publishErr[c] # {}
        /\ pc[c] = "commit" /\ publishErr[c] # {} => ConsumerCanceled(c)

\* The batch stops at a record whose publication was refused with the batch's context,
\* or stopped altogether.
StopsAtRefusal(c) ==
    \/ pc[c] \in {"next", "drain", "commit"} /\ "context" \in publishErr[c] /\ CtxIsDone(c)
    \/ pc[c] \in {"release", "allow", "stopped"} /\ failed[c]

\* Only the last record the iterator handed out may be neither settled nor on its way
\* to the dead-letter topic, and then the batch stops there.
IteratedSettled(c) ==
    \A p \in Partitions : \A o \in 0 .. next[c][p] - 1 :
        \/ <<p, o>> \in settled \cup pending[c]
        \/ o = next[c][p] - 1 /\ from[c][p] =< o /\ StopsAtRefusal(c)

\* With a dead-letter topic that takes what it is given, a committed offset follows
\* over settled records only.
SettledInv == DlqOutcomes \subseteq {"ok"} => NoRecordLost /\ \A c \in Consumers : IteratedSettled(c)

=============================================================================
