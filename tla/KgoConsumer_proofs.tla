-------------------------- MODULE KgoConsumer_proofs --------------------------
(***************************************************************************)
(* Proofs about KgoConsumer for any number of clients and partitions, logs *)
(* of any length, any set of faults and any outcome of publications.       *)
(***************************************************************************)
EXTENDS KgoConsumerInv, CommitRun_proofs

TypeInv == TypeOK /\ RecordInHand

\* The initial state is of its type, and no record is in hand.
LEMMA TypeInit == Init => TypeInv
<1>1. Gaps \subseteq Records
  BY ConsumerAssumption DEF Records
<1> QED
  BY <1>1, ConsumerAssumption
     DEF Init, TypeInv, TypeOK, RecordInHand, Origin, NothingRegistered, States

\* The record handed out is the first one left of its partition; it lies in the batch.
LEMMA StartedRecord ==
    ASSUME TypeOK, NEW c \in Consumers, StartRecord(c)
    PROVE  \E p \in Partitions, o \in 0 .. LogEnd :
              /\ cur' = [cur EXCEPT ![c] = p]
              /\ next' = [next EXCEPT ![c][p] = o]
              /\ next[c][p] =< o /\ o < position[c][p] /\ position[c][p] \in 0 .. LogEnd
              /\ \A i \in next[c][p] .. o - 1 : <<p, i>> \in Gaps
<1>1. PICK p \in NextPartition(c), o \in 0 .. LogEnd : NextRecord(c, p, o) /\ HandOut(c, p, o)
  BY DEF StartRecord
<1>2. p \in Partitions
  BY DEF NextPartition
<1>3. position[c][p] \in 0 .. LogEnd /\ next[c][p] \in 0 .. LogEnd
  BY <1>2 DEF TypeOK
<1>4. next[c][p] =< o /\ o < position[c][p]
  BY <1>1, <1>3, ConsumerAssumption DEF NextRecord
<1> QED
  BY <1>1, <1>2, <1>3, <1>4 DEF NextRecord, HandOut

\* The offset a batch may commit for a partition is one it registered.
LEMMA CommittableRegistered ==
    ASSUME TypeOK, NEW c \in Consumers, NEW p \in HasCommittable(c)
    PROVE  /\ p \in Partitions
           /\ Committable(c, p) \in registered[c][p]
           /\ Committable(c, p) \in 1 .. LogEnd
           /\ \A k \in Min(registered[c][p]) .. Committable(c, p) : k \in registered[c][p]
<1>1. p \in Partitions /\ registered[c][p] # {}
  BY DEF HasCommittable
<1>2. registered[c][p] \in SUBSET (1 .. LogEnd) /\ LogEnd \in Nat
  BY <1>1, ConsumerAssumption DEF TypeOK
<1>3. registered[c][p] \in SUBSET (0 .. LogEnd)
  BY <1>2
<1>4. /\ RunEnd(registered[c][p]) \in registered[c][p]
      /\ \A k \in Min(registered[c][p]) .. RunEnd(registered[c][p]) : k \in registered[c][p]
  BY <1>1, <1>2, <1>3, RunEndProperties
<1> QED
  BY <1>1, <1>2, <1>4 DEF Committable

\* Every step keeps the types, and a record in hand stays before the end of its batch.
LEMMA TypeStep == TypeInv /\ [Next]_vars => TypeInv'
<1> SUFFICES ASSUME TypeInv, [Next]_vars
             PROVE  TypeInv'
  OBVIOUS
<1> USE ConsumerAssumption DEF TypeInv, TypeOK, RecordInHand, Goto, States,
        outerVars, groupVars, batchVars, loopVars, dlqVars, cancelVars, historyVars
<1>1. ASSUME NEW c \in Consumers, PollFetches(c)
      PROVE  TypeInv'
  BY <1>1 DEF PollFetches
<1>2. ASSUME NEW c \in Consumers, PollFails(c)
      PROVE  TypeInv'
  BY <1>2 DEF PollFails, Fault
<1>3. ASSUME NEW c \in Consumers, StoreCancel(c)
      PROVE  TypeInv'
  BY <1>3 DEF StoreCancel
<1>4. ASSUME NEW c \in Consumers, StartRecord(c)
      PROVE  TypeInv'
  <2>1. PICK p \in Partitions, o \in 0 .. LogEnd :
           /\ cur' = [cur EXCEPT ![c] = p]
           /\ next' = [next EXCEPT ![c][p] = o]
           /\ o < position[c][p]
    BY <1>4, StartedRecord
  <2>2. pc' = [pc EXCEPT ![c] = "running"]
        /\ UNCHANGED <<outerVars, held, position, from, failed, registered>>
    BY <1>4 DEF StartRecord
  <2> QED
    BY <2>1, <2>2
<1>5. ASSUME NEW c \in Consumers, AbortBatch(c)
      PROVE  TypeInv'
  BY <1>5 DEF AbortBatch
<1>6. ASSUME NEW c \in Consumers, Succeed(c)
      PROVE  TypeInv'
  BY <1>6 DEF Succeed, Current, Records
<1>7. ASSUME NEW c \in Consumers, FailTransiently(c)
      PROVE  TypeInv'
  BY <1>7 DEF FailTransiently
<1>8. ASSUME NEW c \in Consumers, BackoffElapses(c)
      PROVE  TypeInv'
  BY <1>8 DEF BackoffElapses
<1>9. ASSUME NEW c \in Consumers, FailPermanently(c)
      PROVE  TypeInv'
  <2>1. /\ pc[c] = "running" /\ Current(c) \in Records
        /\ next[c][cur[c]] + 1 \in 0 .. LogEnd
    BY <1>9 DEF FailPermanently, Current, Records
  <2> DEFINE refused == [publishErr EXCEPT ![c] = @ \cup {"context"}]
             waiting == [pending EXCEPT ![c] = @ \cup {Current(c)}]
  <2>a. refused \in [Consumers -> SUBSET {"broker", "context"}]
    OBVIOUS
  <2>b. waiting \in [Consumers -> SUBSET Records]
    BY <2>1
  <2>c. \/ publishErr' = refused /\ pending' = pending /\ gaveUp' = gaveUp \cup {Current(c)}
        \/ publishErr' = publishErr /\ pending' = waiting /\ gaveUp' = gaveUp
    BY <1>9 DEF FailPermanently
  <2> HIDE DEF refused, waiting
  <2>2. /\ pending' \in [Consumers -> SUBSET Records]
        /\ publishErr' \in [Consumers -> SUBSET {"broker", "context"}]
        /\ gaveUp' \subseteq Records
    BY <2>1, <2>a, <2>b, <2>c
  <2>3. /\ next' \in [Consumers -> [Partitions -> 0 .. LogEnd]]
        /\ pc' \in [Consumers -> States]
        /\ RecordInHand'
    BY <1>9, <2>1 DEF FailPermanently
  <2>4. UNCHANGED <<groupVars, faults, held, position, from, cur, failed, registered,
                    acked, cancelVars, settled>>
    BY <1>9 DEF FailPermanently
  <2> QED
    BY <2>2, <2>3, <2>4
<1>10. ASSUME NEW c \in Consumers, EndOfRecords(c)
      PROVE  TypeInv'
  BY <1>10 DEF EndOfRecords
<1>11. ASSUME NEW c \in Consumers, Drain(c)
      PROVE  TypeInv'
  <2>1. \A p \in Partitions : {r[2] + 1 : r \in {a \in acked[c] : a[1] = p}} \in SUBSET (1 .. LogEnd)
    BY DEF Records
  <2>2. registered' \in [Consumers -> [Partitions -> SUBSET (1 .. LogEnd)]]
    <3>1. [p \in Partitions |-> registered[c][p]
                \cup {r[2] + 1 : r \in {a \in acked[c] : a[1] = p}}]
            \in [Partitions -> SUBSET (1 .. LogEnd)]
      BY <2>1
    <3> QED
      BY <1>11, <3>1 DEF Drain
  <2>3. pc'[c] # "running" /\ pc' \in [Consumers -> States]
    <3>1. \E state \in {"release", "commit"} : pc' = [pc EXCEPT ![c] = state]
      BY <1>11 DEF Drain
    <3>2. pc \in [Consumers -> States]
      OBVIOUS
    <3> HIDE DEF TypeInv, TypeOK
    <3> QED
      BY <3>1, <3>2
  <2>4. failed' \in [Consumers -> BOOLEAN]
    BY <1>11 DEF Drain
  <2>5. \A d \in Consumers : pc'[d] = "running" => pc[d] = "running"
    BY <1>11 DEF Drain
  <2>6. UNCHANGED <<groupVars, faults, held, position, from, next, cur,
                    dlqVars, cancelVars, historyVars>>
    BY <1>11 DEF Drain
  <2> QED
    BY <2>2, <2>3, <2>4, <2>5, <2>6
<1>12. ASSUME NEW c \in Consumers, Commit(c)
      PROVE  TypeInv'
  <2>1. committed' \in [Partitions -> 0 .. LogEnd]
    <3>1. PICK accepted \in SUBSET Fenced(c) : CommitOffsets(c, accepted)
      BY <1>12 DEF Commit
    <3>2. \A p \in accepted : Committable(c, p) \in 0 .. LogEnd
      BY <3>1, CommittableRegistered DEF Fenced
    <3> QED
      BY <3>1, <3>2 DEF CommitOffsets
  <2>2. faults' \in 0 .. MaxFaults
    BY <1>12 DEF Commit, Fault
  <2>3. /\ position' \in [Consumers -> [Partitions -> 0 .. LogEnd]]
        /\ from' \in [Consumers -> [Partitions -> 0 .. LogEnd]]
        /\ next' \in [Consumers -> [Partitions -> 0 .. LogEnd]]
    <3> DEFINE resume == [p \in Partitions |->
                      IF ~ConsumerCanceled(c) \/ from[c][p] = position[c][p]
                      THEN position[c][p]
                      ELSE IF p \in HasCommittable(c) THEN Committable(c, p)
                      ELSE from[c][p]]
    <3>1. resume \in [Partitions -> 0 .. LogEnd]
      BY CommittableRegistered
    <3>2. /\ position' = [position EXCEPT ![c] = resume]
          /\ from' = [from EXCEPT ![c] = resume]
          /\ next' = [next EXCEPT ![c] = resume]
      BY <1>12 DEF Commit, RewindToCommitted
    <3> HIDE DEF resume
    <3> QED
      BY <3>1, <3>2
  <2>4. /\ pc[c] = "commit" /\ pc' = [pc EXCEPT ![c] = "release"]
        /\ \A d \in Consumers : d # c => next'[d] = next[d] /\ position'[d] = position[d]
    BY <1>12 DEF Commit, RewindToCommitted
  <2>5. UNCHANGED <<owner, moving, moves, held, cur, failed, registered, dlqVars,
                    cancelVars, historyVars>>
    BY <1>12 DEF Commit
  <2>6. RecordInHand'
    BY <2>4, <2>5
  <2> QED
    BY <2>1, <2>2, <2>3, <2>4, <2>5, <2>6
<1>13. ASSUME NEW c \in Consumers, CommitFails(c)
      PROVE  TypeInv'
  <2>1. committed' \in [Partitions -> 0 .. LogEnd]
    <3>1. \A p \in Fenced(c) : Committable(c, p) \in 0 .. LogEnd
      BY CommittableRegistered DEF Fenced
    <3> QED
      BY <1>13, <3>1 DEF CommitFails, CommitOffsets
  <2>2. faults' \in 0 .. MaxFaults
    BY <1>13 DEF CommitFails, Fault
  <2> QED
    BY <1>13, <2>1, <2>2 DEF CommitFails
<1>14. ASSUME NEW c \in Consumers, Release(c)
      PROVE  TypeInv'
  BY <1>14 DEF Release, NothingRegistered
<1>15. ASSUME NEW c \in Consumers, AllowRebalance(c)
      PROVE  TypeInv'
  BY <1>15 DEF AllowRebalance
<1>16. ASSUME NEW c \in Consumers, Close(c)
      PROVE  TypeInv'
  BY <1>16 DEF Close, ForgetClient, RemoveMember, Origin, NothingRegistered
<1>17. ASSUME NEW c \in Consumers, Restart(c)
      PROVE  TypeInv'
  BY <1>17 DEF Restart
<1>18. ASSUME NEW c \in Consumers, CancelProcessing(c)
      PROVE  TypeInv'
  <2>1. callbacks' \in [Consumers -> 0 .. MaxCallbacks]
    BY <1>18 DEF CancelProcessing
  <2>2. cancelled' \in [Consumers -> BOOLEAN] /\ shouldCancel' \in [Consumers -> BOOLEAN]
    BY <1>18 DEF CancelProcessing
  <2>3. UNCHANGED <<groupVars, faults, loopVars, dlqVars, ctxDone, notified, historyVars>>
    BY <1>18 DEF CancelProcessing
  <2> QED
    BY <2>1, <2>2, <2>3
<1>19. ASSUME NEW c \in Consumers, Timeout(c)
      PROVE  TypeInv'
  BY <1>19 DEF Timeout, Fault
<1>20. ASSUME NEW c \in Consumers, Shutdown(c)
      PROVE  TypeInv'
  BY <1>20 DEF Shutdown, Fault
<1>21. ASSUME NEW c \in Consumers, Crash(c)
      PROVE  TypeInv'
  BY <1>21 DEF Crash, Fault, ForgetClient, Origin, NothingRegistered
<1>22. ASSUME NEW c \in Consumers, Expire(c)
      PROVE  TypeInv'
  BY <1>22 DEF Expire, Fault, RemoveMember
<1>23. ASSUME NEW c \in Consumers, DropLost(c)
      PROVE  TypeInv'
  <2>1. /\ held' \in [Consumers -> SUBSET Partitions]
        /\ position' \in [Consumers -> [Partitions -> 0 .. LogEnd]]
        /\ from' \in [Consumers -> [Partitions -> 0 .. LogEnd]]
        /\ next' \in [Consumers -> [Partitions -> 0 .. LogEnd]]
    BY <1>23 DEF DropLost, DropPartitions
  <2>2. pc[c] # "running" /\ pc' = pc /\ cur' = cur
    BY <1>23 DEF DropLost, MayRebalance, InPoll
  <2>3. RecordInHand'
    BY <1>23, <2>2 DEF DropLost, DropPartitions
  <2> QED
    BY <1>23, <2>1, <2>2, <2>3 DEF DropLost
<1>24. ASSUME NEW c \in Consumers, NotifyBlocked(c)
      PROVE  TypeInv'
  BY <1>24 DEF NotifyBlocked
<1>25. ASSUME NEW c \in Consumers, NEW p \in Partitions, Revoke(c, p)
      PROVE  TypeInv'
  <2>1. /\ held' \in [Consumers -> SUBSET Partitions]
        /\ position' \in [Consumers -> [Partitions -> 0 .. LogEnd]]
        /\ from' \in [Consumers -> [Partitions -> 0 .. LogEnd]]
        /\ next' \in [Consumers -> [Partitions -> 0 .. LogEnd]]
    BY <1>25 DEF Revoke, DropPartitions
  <2>2. pc[c] # "running" /\ pc' = pc /\ cur' = cur
    BY <1>25 DEF Revoke, MayRebalance, InPoll
  <2>3. RecordInHand'
    BY <1>25, <2>2 DEF Revoke, DropPartitions
  <2> QED
    BY <1>25, <2>1, <2>2, <2>3 DEF Revoke
<1>26. ASSUME NEW c \in Consumers, NEW p \in Partitions, Assign(c, p)
      PROVE  TypeInv'
  <2>1. /\ held' \in [Consumers -> SUBSET Partitions]
        /\ position' \in [Consumers -> [Partitions -> 0 .. LogEnd]]
        /\ from' \in [Consumers -> [Partitions -> 0 .. LogEnd]]
        /\ next' \in [Consumers -> [Partitions -> 0 .. LogEnd]]
    BY <1>26 DEF Assign
  <2>2. pc[c] # "running" /\ pc' = pc /\ cur' = cur
    BY <1>26 DEF Assign, MayRebalance, InPoll
  <2>3. RecordInHand'
    BY <1>26, <2>2 DEF Assign
  <2> QED
    BY <1>26, <2>1, <2>2, <2>3 DEF Assign
<1>27. ASSUME NEW c \in Consumers, NEW r \in pending[c], Published(c, r) \/ NotPublished(c, r)
      PROVE  TypeInv'
  <2>1. r \in Records
    BY <1>27
  <2>2. CASE Published(c, r)
    BY <2>1, <2>2 DEF Published
  <2>3. CASE NotPublished(c, r)
    <3>1. publishErr' \in [Consumers -> SUBSET {"broker", "context"}]
      BY <2>3 DEF NotPublished, AllDlqOutcomes
    <3> QED
      BY <2>1, <2>3, <3>1 DEF NotPublished
  <2> QED
    BY <1>27, <2>2, <2>3
<1>28. ASSUME NEW p \in Partitions, StartRebalance(p)
       PROVE  TypeInv'
  BY <1>28 DEF StartRebalance
<1>29. CASE Idle \/ UNCHANGED vars
  BY <1>29 DEF Idle, vars
<1> QED
  BY <1>1, <1>2, <1>3, <1>4, <1>5, <1>6, <1>7, <1>8, <1>9, <1>10, <1>11, <1>12, <1>13, <1>14, <1>15, <1>16, <1>17, <1>18, <1>19, <1>20, <1>21, <1>22, <1>23, <1>24, <1>25, <1>26, <1>27, <1>28, <1>29 DEF Next, Loop, Publications, Environment

\* Type correctness: every variable stays in its type.
THEOREM TypeCorrect == Spec => []TypeOK
<1>1. TypeInv => TypeOK
  BY DEF TypeInv
<1> QED
  BY TypeInit, TypeStep, <1>1, PTL DEF Spec

-----------------------------------------------------------------------------
\* Nothing is committed, registered or iterated initially.
LEMMA AccountInit == Init => AccountInv
BY ConsumerAssumption
   DEF Init, AccountInv, BatchInv, BatchOrdered, IteratedAccounted, RegisteredInBatch,
       Working, NothingLeftOver, CommittedAccounted, Origin, NothingRegistered

\* What a client's part of the invariant speaks of.
BatchState(c) ==
    <<pc[c], position[c], from[c], next[c], registered[c], pending[c], acked[c]>>

\* A step of client c leaves the other clients' parts of the invariant alone: the
\* records that settled or whose publication failed only grow in number.
LEMMA OthersKeepBatchInv ==
    ASSUME AccountInv, NEW c \in Consumers,
           \A d \in Consumers \ {c} : UNCHANGED BatchState(d),
           settled \subseteq settled', gaveUp \subseteq gaveUp',
           BatchInv(c)', CommittedAccounted'
    PROVE  AccountInv'
<1>1. ASSUME NEW d \in Consumers \ {c}
      PROVE  BatchInv(d)'
  <2> USE DEF BatchInv, BatchState, AccountInv
  <2>1. BatchInv(d) /\ UNCHANGED BatchState(d)
    BY <1>1
  <2>2. BatchOrdered(d)'
    BY <2>1 DEF BatchOrdered
  <2>3. IteratedAccounted(d)'
    BY <2>1 DEF IteratedAccounted
  <2>4. RegisteredInBatch(d)'
    BY <2>1 DEF RegisteredInBatch, Working
  <2>5. NothingLeftOver(d)'
    BY <2>1 DEF NothingLeftOver, Working, NothingRegistered
  <2> QED
    BY <2>2, <2>3, <2>4, <2>5
<1> QED
  BY <1>1 DEF AccountInv

\* Every step keeps the records below the committed offsets and below each iterator
\* accounted for.
LEMMA AccountStep == TypeInv /\ AccountInv /\ [Next]_vars => AccountInv'
<1> SUFFICES ASSUME TypeInv, AccountInv, [Next]_vars
             PROVE  AccountInv'
  OBVIOUS
<1> USE ConsumerAssumption DEF TypeInv, TypeOK, RecordInHand, Goto, Working,
        outerVars, groupVars, batchVars, loopVars, dlqVars, cancelVars, historyVars,
        AccountInv, BatchInv
<1>1. ASSUME NEW c \in Consumers, PollFetches(c)
      PROVE  AccountInv'
  <2>1. BatchOrdered(c)'
    <3>1. PICK end \in [Partitions -> 0 .. LogEnd] :
             /\ \A p \in Partitions : position[c][p] =< end[p]
             /\ position' = [position EXCEPT ![c] = end]
      <4>1. PICK end \in [Partitions -> 0 .. LogEnd] :
               /\ \A p \in held[c] : position[c][p] =< end[p]
               /\ \A p \in Partitions \ held[c] : end[p] = position[c][p]
               /\ position' = [position EXCEPT ![c] = end]
        BY <1>1 DEF PollFetches
      <4>2. \A p \in Partitions : position[c][p] =< end[p]
        <5>1. \A p \in Partitions : position[c][p] \in Nat
          OBVIOUS
        <5> HIDE DEF TypeInv, TypeOK
        <5> QED
          BY <4>1, <5>1
      <4> QED
        BY <4>1, <4>2
    <3> QED
      BY <1>1, <3>1 DEF PollFetches, BatchOrdered
  <2>2. IteratedAccounted(c)'
    BY <1>1 DEF PollFetches, IteratedAccounted
  <2>3. RegisteredInBatch(c)'
    BY <1>1 DEF PollFetches, RegisteredInBatch, NothingLeftOver
  <2>4. NothingLeftOver(c)'
    BY <1>1 DEF PollFetches, NothingLeftOver
  <2>5. CommittedAccounted'
    BY <1>1 DEF PollFetches, CommittedAccounted
  <2>6. /\ \A e \in Consumers \ {c} : UNCHANGED BatchState(e)
        /\ settled \subseteq settled' /\ gaveUp \subseteq gaveUp'
    BY <1>1 DEF PollFetches, BatchState
  <2> QED
    BY <2>1, <2>2, <2>3, <2>4, <2>5, <2>6, OthersKeepBatchInv
<1>2. ASSUME NEW c \in Consumers, PollFails(c)
      PROVE  AccountInv'
  <2>1. UNCHANGED <<committed, position, from, next, registered, pending, acked,
                    settled, gaveUp>>
    BY <1>2 DEF PollFails
  <2>2. pc[c] = "poll" /\ pc'[c] = "stopped" /\ \A d \in Consumers \ {c} : pc'[d] = pc[d]
    BY <1>2 DEF PollFails
  <2> HIDE DEF TypeInv, TypeOK, RecordInHand
  <2>3. BatchOrdered(c)' /\ IteratedAccounted(c)' /\ CommittedAccounted'
    BY <2>1 DEF BatchOrdered, IteratedAccounted, CommittedAccounted
  <2>4. RegisteredInBatch(c)' /\ NothingLeftOver(c)'
    BY <2>1, <2>2 DEF RegisteredInBatch, NothingLeftOver
  <2>5. /\ \A e \in Consumers \ {c} : UNCHANGED BatchState(e)
        /\ settled \subseteq settled' /\ gaveUp \subseteq gaveUp'
    BY <2>1, <2>2 DEF BatchState
  <2> QED
    BY <2>3, <2>4, <2>5, OthersKeepBatchInv
<1>3. ASSUME NEW c \in Consumers, StoreCancel(c)
      PROVE  AccountInv'
  <2>1. BatchOrdered(c)'
    BY <1>3 DEF StoreCancel, BatchOrdered
  <2>2. IteratedAccounted(c)'
    BY <1>3 DEF StoreCancel, IteratedAccounted
  <2>3. RegisteredInBatch(c)'
    <3>1. registered[c] = NothingRegistered /\ acked[c] = {} /\ pending[c] = {}
      BY <1>3 DEF StoreCancel, NothingLeftOver
    <3>2. UNCHANGED <<registered, acked, pending>>
      BY <1>3 DEF StoreCancel
    <3> HIDE DEF TypeInv, TypeOK, RecordInHand
    <3> QED
      BY <3>1, <3>2 DEF RegisteredInBatch, NothingRegistered
  <2>4. NothingLeftOver(c)'
    BY <1>3 DEF StoreCancel, NothingLeftOver
  <2>5. CommittedAccounted'
    BY <1>3 DEF StoreCancel, CommittedAccounted
  <2>6. /\ \A e \in Consumers \ {c} : UNCHANGED BatchState(e)
        /\ settled \subseteq settled' /\ gaveUp \subseteq gaveUp'
    BY <1>3 DEF StoreCancel, BatchState
  <2> QED
    BY <2>1, <2>2, <2>3, <2>4, <2>5, <2>6, OthersKeepBatchInv
<1>4. ASSUME NEW c \in Consumers, StartRecord(c)
      PROVE  AccountInv'
  <2>1. PICK p \in Partitions, o \in 0 .. LogEnd :
           /\ next' = [next EXCEPT ![c][p] = o]
           /\ next[c][p] =< o /\ o < position[c][p]
           /\ \A i \in next[c][p] .. o - 1 : <<p, i>> \in Gaps
    BY <1>4, StartedRecord
  <2>2. /\ pc[c] = "next" /\ pc' = [pc EXCEPT ![c] = "running"]
        /\ UNCHANGED <<position, from, registered, pending, acked, committed, settled, gaveUp>>
    BY <1>4 DEF StartRecord
  <2>n. \A q \in Partitions : /\ next[c][q] \in Nat /\ next'[c][q] \in Nat
                              /\ next[c][q] =< next'[c][q]
                              /\ q # p => next'[c][q] = next[c][q]
    BY <2>1
  <2>t. /\ \A q \in Partitions : registered[c][q] \in SUBSET Nat /\ from[c][q] \in Nat
        /\ \A r \in pending[c] \cup acked[c] : r[1] \in Partitions /\ r[2] \in Nat
    BY DEF Records
  <2>3. BatchOrdered(c)'
    BY <2>1, <2>2 DEF BatchOrdered
  <2>4. IteratedAccounted(c)'
    <3>1. SUFFICES ASSUME NEW q \in Partitions, NEW i \in 0 .. next'[c][q] - 1
                   PROVE  <<q, i>> \in settled \cup gaveUp \cup pending[c]
      BY <2>2 DEF IteratedAccounted
    <3>2. i \in 0 .. next[c][q] - 1 \/ (q = p /\ i \in next[c][p] .. o - 1)
      BY <2>1, <2>n, <3>1
    <3> QED
      BY <2>1, <3>2 DEF IteratedAccounted
  <2> HIDE DEF TypeInv, TypeOK, RecordInHand
  <2>5. RegisteredInBatch(c)'
    <3>1. /\ \A q \in Partitions : \A n \in registered[c][q] :
                from[c][q] < n /\ n =< next[c][q] /\ <<q, n - 1>> \in settled
          /\ \A r \in pending[c] \cup acked[c] : from[c][r[1]] =< r[2] /\ r[2] < next[c][r[1]]
          /\ acked[c] \subseteq settled
      BY <2>2 DEF RegisteredInBatch
    <3>2. \A q \in Partitions : \A n \in registered[c][q] :
             from[c][q] < n /\ n =< next'[c][q] /\ <<q, n - 1>> \in settled
      <4>1. SUFFICES ASSUME NEW q \in Partitions, NEW n \in registered[c][q]
                     PROVE  from[c][q] < n /\ n =< next'[c][q] /\ <<q, n - 1>> \in settled
        OBVIOUS
      <4>2. n \in Nat /\ n =< next[c][q] /\ from[c][q] < n /\ <<q, n - 1>> \in settled
        BY <2>t, <3>1
      <4> QED
        BY <2>n, <4>2
    <3>3. \A r \in pending[c] \cup acked[c] : from[c][r[1]] =< r[2] /\ r[2] < next'[c][r[1]]
      BY <2>n, <2>t, <3>1
    <3> QED
      BY <2>2, <3>1, <3>2, <3>3 DEF RegisteredInBatch
  <2>6. NothingLeftOver(c)'
    BY <2>2, TypeInv DEF NothingLeftOver, TypeInv, TypeOK
  <2>7. CommittedAccounted'
    BY <2>2 DEF CommittedAccounted
  <2>8. /\ \A e \in Consumers \ {c} : UNCHANGED BatchState(e)
        /\ settled \subseteq settled' /\ gaveUp \subseteq gaveUp'
    BY <2>1, <2>2, TypeInv DEF TypeInv, TypeOK, BatchState
  <2> QED
    BY <2>3, <2>4, <2>5, <2>6, <2>7, <2>8, OthersKeepBatchInv
<1>5. ASSUME NEW c \in Consumers, AbortBatch(c)
      PROVE  AccountInv'
  BY <1>5 DEF AbortBatch,
     BatchOrdered, IteratedAccounted, RegisteredInBatch, NothingLeftOver, CommittedAccounted
<1>6. ASSUME NEW c \in Consumers, Succeed(c)
      PROVE  AccountInv'
  <2>a. /\ next'[c][cur[c]] = next[c][cur[c]] + 1
        /\ \A q \in Partitions : q # cur[c] => next'[c][q] = next[c][q]
    BY <1>6 DEF Succeed
  <2>r. /\ registered'[c][cur[c]] = registered[c][cur[c]] \cup {next[c][cur[c]] + 1}
        /\ \A q \in Partitions : q # cur[c] => registered'[c][q] = registered[c][q]
    BY <1>6 DEF Succeed
  <2>b. /\ settled' = settled \cup {<<cur[c], next[c][cur[c]]>>}
        /\ UNCHANGED <<gaveUp, pending, acked, from>>
        /\ pc[c] = "running" /\ cur[c] \in Partitions
    BY <1>6 DEF Succeed, Current
  <2>t. /\ \A q \in Partitions : from[c][q] \in Nat /\ next[c][q] \in Nat
        /\ \A q \in Partitions : registered[c][q] \in SUBSET Nat
        /\ \A r \in pending[c] \cup acked[c] : r[1] \in Partitions /\ r[2] \in Nat
    BY DEF Records
  <2>1. BatchOrdered(c)'
    BY <1>6 DEF Succeed, Current, Records, BatchOrdered
  <2>2. IteratedAccounted(c)'
    <3> HIDE DEF TypeInv, TypeOK, RecordInHand
    <3>1. SUFFICES ASSUME NEW q \in Partitions, NEW o \in 0 .. next'[c][q] - 1
                   PROVE  <<q, o>> \in settled' \cup gaveUp' \cup pending'[c]
      BY DEF IteratedAccounted
    <3>2. o \in 0 .. next[c][q] - 1 \/ (q = cur[c] /\ o = next[c][cur[c]])
      BY <2>a, <2>b, <2>t, <3>1
    <3> QED
      BY <2>b, <3>2 DEF IteratedAccounted
  <2>3. RegisteredInBatch(c)'
    <3> HIDE DEF TypeInv, TypeOK, RecordInHand
    <3>1. \A q \in Partitions : \A n \in registered'[c][q] :
             from[c][q] < n /\ n =< next'[c][q] /\ <<q, n - 1>> \in settled'
      <4>1. SUFFICES ASSUME NEW q \in Partitions, NEW n \in registered'[c][q]
                     PROVE  from[c][q] < n /\ n =< next'[c][q] /\ <<q, n - 1>> \in settled'
        OBVIOUS
      <4>2. n \in registered[c][q] \/ (q = cur[c] /\ n = next[c][q] + 1)
        BY <2>r, <2>b, <4>1
      <4>3. next[c][q] =< next'[c][q] /\ next'[c][q] \in Nat
        BY <2>a, <2>b, <2>t
      <4>4. CASE n \in registered[c][q]
        <5>1. from[c][q] < n /\ n =< next[c][q] /\ <<q, n - 1>> \in settled
          BY <2>b, <4>4 DEF RegisteredInBatch
        <5>2. n \in Nat
          BY <2>t, <4>4
        <5> QED
          BY <2>b, <2>t, <4>3, <5>1, <5>2
      <4>5. CASE q = cur[c] /\ n = next[c][q] + 1
        <5>1. from[c][q] =< next[c][q]
          BY <4>1 DEF BatchOrdered
        <5>2. n - 1 = next[c][q]
          BY <2>t, <4>5
        <5> QED
          BY <2>a, <2>b, <2>t, <4>5, <5>1, <5>2
      <4> QED
        BY <4>2, <4>4, <4>5
    <3>2. \A r \in pending[c] \cup acked[c] : from[c][r[1]] =< r[2] /\ r[2] < next'[c][r[1]]
      <4>1. \A r \in pending[c] \cup acked[c] : from[c][r[1]] =< r[2] /\ r[2] < next[c][r[1]]
        BY <2>b DEF RegisteredInBatch
      <4> QED
        BY <2>a, <2>b, <2>t, <4>1
    <3> QED
      BY <2>b, <3>1, <3>2 DEF RegisteredInBatch
  <2>4. NothingLeftOver(c)'
    BY <1>6 DEF Succeed, Current, Records, NothingLeftOver
  <2>5. CommittedAccounted'
    BY <1>6 DEF Succeed, Current, Records, CommittedAccounted
  <2>6. /\ \A e \in Consumers \ {c} : UNCHANGED BatchState(e)
        /\ settled \subseteq settled' /\ gaveUp \subseteq gaveUp'
    BY <1>6 DEF Succeed, Current, Records, BatchState
  <2> QED
    BY <2>1, <2>2, <2>3, <2>4, <2>5, <2>6, OthersKeepBatchInv
<1>7. ASSUME NEW c \in Consumers, FailTransiently(c)
      PROVE  AccountInv'
  BY <1>7 DEF FailTransiently,
     BatchOrdered, IteratedAccounted, RegisteredInBatch, NothingLeftOver, CommittedAccounted
<1>8. ASSUME NEW c \in Consumers, BackoffElapses(c)
      PROVE  AccountInv'
  BY <1>8 DEF BackoffElapses,
     BatchOrdered, IteratedAccounted, RegisteredInBatch, NothingLeftOver, CommittedAccounted
<1>9. ASSUME NEW c \in Consumers, FailPermanently(c)
      PROVE  AccountInv'
  <2>a. /\ next'[c][cur[c]] = next[c][cur[c]] + 1
        /\ \A q \in Partitions : q # cur[c] => next'[c][q] = next[c][q]
    BY <1>9 DEF FailPermanently
  <2>b. /\ UNCHANGED <<settled, registered, acked, from>>
        /\ pc[c] = "running" /\ cur[c] \in Partitions
    BY <1>9 DEF FailPermanently
  <2>c. \/ pending'[c] = pending[c] /\ gaveUp' = gaveUp \cup {Current(c)}
        \/ pending'[c] = pending[c] \cup {Current(c)} /\ gaveUp' = gaveUp
    BY <1>9 DEF FailPermanently
  <2>d. Current(c) = <<cur[c], next[c][cur[c]]>>
    BY DEF Current
  <2>t. /\ \A q \in Partitions : from[c][q] \in Nat /\ next[c][q] \in Nat
        /\ \A q \in Partitions : registered[c][q] \in SUBSET Nat
        /\ \A r \in pending[c] \cup acked[c] : r[1] \in Partitions /\ r[2] \in Nat
    BY DEF Records
  <2>1. BatchOrdered(c)'
    BY <1>9 DEF FailPermanently, Current, Records, BatchOrdered
  <2>2. IteratedAccounted(c)'
    <3> HIDE DEF TypeInv, TypeOK, RecordInHand
    <3>1. SUFFICES ASSUME NEW q \in Partitions, NEW o \in 0 .. next'[c][q] - 1
                   PROVE  <<q, o>> \in settled' \cup gaveUp' \cup pending'[c]
      BY DEF IteratedAccounted
    <3>2. o \in 0 .. next[c][q] - 1 \/ <<q, o>> = Current(c)
      BY <2>a, <2>b, <2>d, <2>t, <3>1
    <3> QED
      BY <2>b, <2>c, <3>2 DEF IteratedAccounted
  <2>3. RegisteredInBatch(c)'
    <3> HIDE DEF TypeInv, TypeOK, RecordInHand
    <3>1. \A q \in Partitions : \A n \in registered[c][q] :
             from[c][q] < n /\ n =< next'[c][q] /\ <<q, n - 1>> \in settled
      <4>1. \A q \in Partitions : \A n \in registered[c][q] :
               from[c][q] < n /\ n =< next[c][q] /\ <<q, n - 1>> \in settled
        BY <2>b DEF RegisteredInBatch
      <4>2. \A q \in Partitions : next[c][q] =< next'[c][q] /\ next'[c][q] \in Nat
        BY <2>a, <2>b, <2>t
      <4>3. \A q \in Partitions : \A n \in registered[c][q] : n \in Nat
        BY <2>t
      <4> QED
        <5>1. SUFFICES ASSUME NEW q \in Partitions, NEW n \in registered[c][q]
                       PROVE  from[c][q] < n /\ n =< next'[c][q] /\ <<q, n - 1>> \in settled
          OBVIOUS
        <5>2. n \in Nat /\ next[c][q] \in Nat /\ from[c][q] \in Nat /\ next'[c][q] \in Nat
          BY <2>t, <4>2, <4>3
        <5>3. from[c][q] < n /\ n =< next[c][q] /\ <<q, n - 1>> \in settled
          BY <4>1, <5>1
        <5>4. next[c][q] =< next'[c][q]
          BY <4>2
        <5>5. n =< next'[c][q]
          BY <5>2, <5>3, <5>4
        <5> QED
          BY <5>3, <5>5
    <3>2. \A r \in pending[c] \cup acked[c] : from[c][r[1]] =< r[2] /\ r[2] < next'[c][r[1]]
      <4>1. \A r \in pending[c] \cup acked[c] : from[c][r[1]] =< r[2] /\ r[2] < next[c][r[1]]
        BY <2>b DEF RegisteredInBatch
      <4> QED
        BY <2>a, <2>b, <2>t, <4>1
    <3>3. /\ from[c][cur[c]] =< next[c][cur[c]]
          /\ next[c][cur[c]] < next'[c][cur[c]]
      BY <2>a, <2>b, <2>t DEF BatchOrdered
    <3>4. \A r \in pending'[c] \cup acked[c] : from[c][r[1]] =< r[2] /\ r[2] < next'[c][r[1]]
      BY <2>c, <2>d, <3>2, <3>3
    <3> QED
      BY <2>b, <3>1, <3>4 DEF RegisteredInBatch
  <2>4. NothingLeftOver(c)'
    BY <1>9 DEF FailPermanently, Current, Records, NothingLeftOver
  <2>5. CommittedAccounted'
    BY <1>9 DEF FailPermanently, Current, Records, CommittedAccounted
  <2>6. /\ \A e \in Consumers \ {c} : UNCHANGED BatchState(e)
        /\ settled \subseteq settled' /\ gaveUp \subseteq gaveUp'
    BY <1>9 DEF FailPermanently, Current, Records, BatchState
  <2> QED
    BY <2>1, <2>2, <2>3, <2>4, <2>5, <2>6, OthersKeepBatchInv
<1>10. ASSUME NEW c \in Consumers, EndOfRecords(c)
      PROVE  AccountInv'
  BY <1>10 DEF EndOfRecords,
     BatchOrdered, IteratedAccounted, RegisteredInBatch, NothingLeftOver, CommittedAccounted
<1>11. ASSUME NEW c \in Consumers, Drain(c)
      PROVE  AccountInv'
  <2>t. /\ \A q \in Partitions : from[c][q] \in Nat /\ next[c][q] \in Nat
        /\ \A q \in Partitions : registered[c][q] \in SUBSET Nat
        /\ \A r \in pending[c] \cup acked[c] : r[1] \in Partitions /\ r[2] \in Nat
    BY DEF Records
  <2>1. BatchOrdered(c)'
    BY <1>11 DEF Drain, Records, BatchOrdered
  <2>2. IteratedAccounted(c)'
    BY <1>11 DEF Drain, Records, IteratedAccounted
  <2>3. RegisteredInBatch(c)'
    <3>1. ASSUME NEW q \in Partitions, NEW n \in registered'[c][q]
          PROVE  n \in registered[c][q] \/ <<q, n - 1>> \in acked[c]
      <4>1. \/ registered' = registered
            \/ registered'[c][q] = registered[c][q]
                  \cup {r[2] + 1 : r \in {a \in acked[c] : a[1] = q}}
        BY <1>11 DEF Drain
      <4>2. \A r \in acked[c] : r[1] = q => <<q, (r[2] + 1) - 1>> = r
        BY <2>t DEF Records
      <4> QED
        <5>1. CASE registered' = registered
          BY <3>1, <5>1
        <5>2. CASE registered'[c][q] = registered[c][q]
                     \cup {r[2] + 1 : r \in {a \in acked[c] : a[1] = q}}
          <6>1. CASE n \notin registered[c][q]
            <7>1. PICK r \in acked[c] : r[1] = q /\ n = r[2] + 1
              BY <3>1, <5>2, <6>1
            <7> QED
              BY <4>2, <7>1
          <6> QED
            BY <6>1
        <5> QED
          BY <4>1, <5>1, <5>2
    <3>2. registered'[c] \in [Partitions -> SUBSET (1 .. LogEnd)]
      BY <1>11, TypeStep DEF Next, Loop
    <3>3. /\ pc[c] = "drain" /\ pending[c] = {}
          /\ UNCHANGED <<from, next, acked, pending, settled>>
      BY <1>11 DEF Drain
    <3>4. \A q \in Partitions : \A n \in registered'[c][q] :
             from[c][q] < n /\ n =< next[c][q] /\ <<q, n - 1>> \in settled
      <4> HIDE DEF TypeInv, TypeOK, RecordInHand
      <4>1. SUFFICES ASSUME NEW q \in Partitions, NEW n \in registered'[c][q]
                     PROVE  from[c][q] < n /\ n =< next[c][q] /\ <<q, n - 1>> \in settled
        OBVIOUS
      <4>2. n \in 1 .. LogEnd
        BY <3>2
      <4>3. CASE n \in registered[c][q]
        BY <3>3, <4>3 DEF RegisteredInBatch
      <4>4. CASE <<q, n - 1>> \in acked[c]
        <5>1. from[c][q] =< n - 1 /\ n - 1 < next[c][q] /\ <<q, n - 1>> \in settled
          BY <3>3, <4>4 DEF RegisteredInBatch
        <5> QED
          BY <2>t, <4>2, <5>1
      <4> QED
        BY <3>1, <4>1, <4>3, <4>4
    <3> QED
      BY <3>3, <3>4 DEF RegisteredInBatch
  <2>4. NothingLeftOver(c)'
    BY <1>11 DEF Drain, Records, NothingLeftOver
  <2>5. CommittedAccounted'
    BY <1>11 DEF Drain, Records, CommittedAccounted
  <2>6. /\ \A e \in Consumers \ {c} : UNCHANGED BatchState(e)
        /\ settled \subseteq settled' /\ gaveUp \subseteq gaveUp'
    BY <1>11 DEF Drain, Records, BatchState
  <2> QED
    BY <2>1, <2>2, <2>3, <2>4, <2>5, <2>6, OthersKeepBatchInv
<1>12. ASSUME NEW c \in Consumers, Commit(c)
      PROVE  AccountInv'
  <2>a. pc[c] = "commit" /\ pending[c] = {}
    BY <1>12 DEF Commit, NothingLeftOver
  <2>b. \A q \in HasCommittable(c) :
           from[c][q] < Committable(c, q) /\ Committable(c, q) =< next[c][q]
    BY <2>a, CommittableRegistered DEF RegisteredInBatch
  <2> DEFINE resume == [q \in Partitions |->
                      IF ~ConsumerCanceled(c) \/ from[c][q] = position[c][q]
                      THEN position[c][q]
                      ELSE IF q \in HasCommittable(c) THEN Committable(c, q)
                      ELSE from[c][q]]
  <2>c. \A q \in Partitions : resume[q] \in Nat /\ resume[q] =< next[c][q]
    <3>1. ~ConsumerCanceled(c) => \A q \in Partitions : position[c][q] =< next[c][q]
      BY DEF ConsumerCanceled, HasMore
    <3> QED
      BY <2>b, <3>1, CommittableRegistered DEF BatchOrdered
  <2>d. /\ position'[c] = resume /\ from'[c] = resume /\ next'[c] = resume
        /\ UNCHANGED <<pending, settled, gaveUp>>
    BY <1>12 DEF Commit, RewindToCommitted
  <2> HIDE DEF resume
  <2>1. BatchOrdered(c)'
    BY <2>c, <2>d DEF BatchOrdered
  <2>2. IteratedAccounted(c)'
    <3>1. \A q \in Partitions : \A o \in 0 .. resume[q] - 1 : o \in 0 .. next[c][q] - 1
      BY <2>c
    <3> QED
      BY <2>d, <3>1 DEF IteratedAccounted
  <2>3. RegisteredInBatch(c)'
    BY <1>12 DEF Commit, Fault, CommitOffsets, RewindToCommitted, Fenced, HasCommittable, Committable, RegisteredInBatch, NothingLeftOver
  <2>4. NothingLeftOver(c)'
    BY <1>12 DEF Commit, Fault, CommitOffsets, RewindToCommitted, Fenced, HasCommittable, Committable, NothingLeftOver
  <2>5. CommittedAccounted'
    <3>1. ASSUME NEW q \in Partitions, NEW o \in 0 .. committed'[q] - 1
          PROVE  <<q, o>> \in settled \cup gaveUp
      <4>1. \/ committed'[q] = committed[q]
            \/ q \in HasCommittable(c) /\ committed'[q] = Committable(c, q)
        BY <1>12 DEF Commit, CommitOffsets, Fenced
      <4>2. CASE committed'[q] = committed[q]
        BY <3>1, <4>2 DEF CommittedAccounted
      <4>3. CASE q \in HasCommittable(c) /\ committed'[q] = Committable(c, q)
        <5>1. o \in 0 .. next[c][q] - 1
          BY <2>b, <3>1, <4>3, CommittableRegistered
        <5> QED
          BY <2>a, <5>1 DEF IteratedAccounted
      <4> QED
        BY <4>1, <4>2, <4>3
    <3> QED
      BY <2>d, <3>1 DEF CommittedAccounted
  <2>6. /\ \A e \in Consumers \ {c} : UNCHANGED BatchState(e)
        /\ settled \subseteq settled' /\ gaveUp \subseteq gaveUp'
    BY <1>12 DEF Commit, Fault, CommitOffsets, RewindToCommitted, Fenced, HasCommittable, Committable, BatchState
  <2> QED
    BY <2>1, <2>2, <2>3, <2>4, <2>5, <2>6, OthersKeepBatchInv
<1>13. ASSUME NEW c \in Consumers, CommitFails(c)
      PROVE  AccountInv'
  <2>a. pc[c] = "commit" /\ pending[c] = {}
    BY <1>13 DEF CommitFails, NothingLeftOver
  <2>b. \A q \in HasCommittable(c) :
           from[c][q] < Committable(c, q) /\ Committable(c, q) =< next[c][q]
    BY <2>a, CommittableRegistered DEF RegisteredInBatch
  <2>d. UNCHANGED <<pending, settled, gaveUp>>
    BY <1>13 DEF CommitFails
  <2>1. BatchOrdered(c)'
    BY <1>13 DEF CommitFails, Fault, CommitOffsets, Fenced, HasCommittable, Committable, BatchOrdered
  <2>2. IteratedAccounted(c)'
    BY <1>13 DEF CommitFails, Fault, CommitOffsets, Fenced, HasCommittable, Committable, IteratedAccounted
  <2>3. RegisteredInBatch(c)'
    BY <1>13 DEF CommitFails, Fault, CommitOffsets, Fenced, HasCommittable, Committable, RegisteredInBatch, NothingLeftOver
  <2>4. NothingLeftOver(c)'
    BY <1>13 DEF CommitFails, Fault, CommitOffsets, Fenced, HasCommittable, Committable, NothingLeftOver
  <2>5. CommittedAccounted'
    <3>1. ASSUME NEW q \in Partitions, NEW o \in 0 .. committed'[q] - 1
          PROVE  <<q, o>> \in settled \cup gaveUp
      <4>1. \/ committed'[q] = committed[q]
            \/ q \in HasCommittable(c) /\ committed'[q] = Committable(c, q)
        BY <1>13 DEF CommitFails, CommitOffsets, Fenced
      <4>2. CASE committed'[q] = committed[q]
        BY <3>1, <4>2 DEF CommittedAccounted
      <4>3. CASE q \in HasCommittable(c) /\ committed'[q] = Committable(c, q)
        <5>1. o \in 0 .. next[c][q] - 1
          BY <2>b, <3>1, <4>3, CommittableRegistered
        <5> QED
          BY <2>a, <5>1 DEF IteratedAccounted
      <4> QED
        BY <4>1, <4>2, <4>3
    <3> QED
      BY <2>d, <3>1 DEF CommittedAccounted
  <2>6. /\ \A e \in Consumers \ {c} : UNCHANGED BatchState(e)
        /\ settled \subseteq settled' /\ gaveUp \subseteq gaveUp'
    BY <1>13 DEF CommitFails, Fault, CommitOffsets, Fenced, HasCommittable, Committable, BatchState
  <2> QED
    BY <2>1, <2>2, <2>3, <2>4, <2>5, <2>6, OthersKeepBatchInv
<1>14. ASSUME NEW c \in Consumers, Release(c)
      PROVE  AccountInv'
  BY <1>14 DEF Release, NothingRegistered,
     BatchOrdered, IteratedAccounted, RegisteredInBatch, NothingLeftOver, CommittedAccounted
<1>15. ASSUME NEW c \in Consumers, AllowRebalance(c)
      PROVE  AccountInv'
  BY <1>15 DEF AllowRebalance,
     BatchOrdered, IteratedAccounted, RegisteredInBatch, NothingLeftOver, CommittedAccounted
<1>16. ASSUME NEW c \in Consumers, Close(c)
      PROVE  AccountInv'
  BY <1>16 DEF Close, ForgetClient, RemoveMember, Origin, NothingRegistered,
     BatchOrdered, IteratedAccounted, RegisteredInBatch, NothingLeftOver, CommittedAccounted
<1>17. ASSUME NEW c \in Consumers, Restart(c)
      PROVE  AccountInv'
  BY <1>17 DEF Restart,
     BatchOrdered, IteratedAccounted, RegisteredInBatch, NothingLeftOver, CommittedAccounted
<1>18. ASSUME NEW c \in Consumers, CancelProcessing(c)
      PROVE  AccountInv'
  BY <1>18 DEF CancelProcessing,
     BatchOrdered, IteratedAccounted, RegisteredInBatch, NothingLeftOver, CommittedAccounted
<1>19. ASSUME NEW c \in Consumers, Timeout(c)
      PROVE  AccountInv'
  BY <1>19 DEF Timeout, Fault,
     BatchOrdered, IteratedAccounted, RegisteredInBatch, NothingLeftOver, CommittedAccounted
<1>20. ASSUME NEW c \in Consumers, Shutdown(c)
      PROVE  AccountInv'
  BY <1>20 DEF Shutdown, Fault,
     BatchOrdered, IteratedAccounted, RegisteredInBatch, NothingLeftOver, CommittedAccounted
<1>21. ASSUME NEW c \in Consumers, Crash(c)
      PROVE  AccountInv'
  BY <1>21 DEF Crash, Fault, ForgetClient, Origin, NothingRegistered,
     BatchOrdered, IteratedAccounted, RegisteredInBatch, NothingLeftOver, CommittedAccounted
<1>22. ASSUME NEW c \in Consumers, Expire(c)
      PROVE  AccountInv'
  BY <1>22 DEF Expire, Fault, RemoveMember,
     BatchOrdered, IteratedAccounted, RegisteredInBatch, NothingLeftOver, CommittedAccounted
<1>23. ASSUME NEW c \in Consumers, DropLost(c)
      PROVE  AccountInv'
  <2>1. BatchOrdered(c)'
    BY <1>23 DEF DropLost, DropPartitions, MayRebalance, InPoll, BatchOrdered
  <2>2. IteratedAccounted(c)'
    <3>1. \A q \in Partitions : next'[c][q] = 0 \/ next'[c][q] = next[c][q]
      BY <1>23 DEF DropLost, DropPartitions
    <3>2. UNCHANGED <<settled, gaveUp, pending>>
      BY <1>23 DEF DropLost
    <3>3. \A q \in Partitions : \A o \in 0 .. next'[c][q] - 1 : o \in 0 .. next[c][q] - 1
      <4>1. \A q \in Partitions : next[c][q] \in Nat
        OBVIOUS
      <4> HIDE DEF TypeInv, TypeOK
      <4> QED
        BY <3>1, <4>1
    <3> QED
      BY <3>2, <3>3 DEF IteratedAccounted
  <2>3. RegisteredInBatch(c)'
    BY <1>23 DEF DropLost, DropPartitions, MayRebalance, InPoll, RegisteredInBatch, NothingLeftOver
  <2>4. NothingLeftOver(c)'
    BY <1>23 DEF DropLost, DropPartitions, MayRebalance, InPoll, NothingLeftOver
  <2>5. CommittedAccounted'
    BY <1>23 DEF DropLost, DropPartitions, MayRebalance, InPoll, CommittedAccounted
  <2>6. /\ \A e \in Consumers \ {c} : UNCHANGED BatchState(e)
        /\ settled \subseteq settled' /\ gaveUp \subseteq gaveUp'
    BY <1>23 DEF DropLost, DropPartitions, MayRebalance, InPoll, BatchState
  <2> QED
    BY <2>1, <2>2, <2>3, <2>4, <2>5, <2>6, OthersKeepBatchInv
<1>24. ASSUME NEW c \in Consumers, NotifyBlocked(c)
      PROVE  AccountInv'
  BY <1>24 DEF NotifyBlocked,
     BatchOrdered, IteratedAccounted, RegisteredInBatch, NothingLeftOver, CommittedAccounted
<1>25. ASSUME NEW c \in Consumers, NEW p \in Partitions, Revoke(c, p)
      PROVE  AccountInv'
  <2>1. BatchOrdered(c)'
    BY <1>25 DEF Revoke, DropPartitions, MayRebalance, InPoll, BatchOrdered
  <2>2. IteratedAccounted(c)'
    <3>1. \A q \in Partitions : next'[c][q] = 0 \/ next'[c][q] = next[c][q]
      BY <1>25 DEF Revoke, DropPartitions
    <3>2. UNCHANGED <<settled, gaveUp, pending>>
      BY <1>25 DEF Revoke
    <3>3. \A q \in Partitions : \A o \in 0 .. next'[c][q] - 1 : o \in 0 .. next[c][q] - 1
      <4>1. \A q \in Partitions : next[c][q] \in Nat
        OBVIOUS
      <4> HIDE DEF TypeInv, TypeOK
      <4> QED
        BY <3>1, <4>1
    <3> QED
      BY <3>2, <3>3 DEF IteratedAccounted
  <2>3. RegisteredInBatch(c)'
    BY <1>25 DEF Revoke, DropPartitions, MayRebalance, InPoll, RegisteredInBatch, NothingLeftOver
  <2>4. NothingLeftOver(c)'
    BY <1>25 DEF Revoke, DropPartitions, MayRebalance, InPoll, NothingLeftOver
  <2>5. CommittedAccounted'
    BY <1>25 DEF Revoke, DropPartitions, MayRebalance, InPoll, CommittedAccounted
  <2>6. /\ \A e \in Consumers \ {c} : UNCHANGED BatchState(e)
        /\ settled \subseteq settled' /\ gaveUp \subseteq gaveUp'
    BY <1>25 DEF Revoke, DropPartitions, MayRebalance, InPoll, BatchState
  <2> QED
    BY <2>1, <2>2, <2>3, <2>4, <2>5, <2>6, OthersKeepBatchInv
<1>26. ASSUME NEW c \in Consumers, NEW p \in Partitions, Assign(c, p)
      PROVE  AccountInv'
  <2>1. BatchOrdered(c)'
    BY <1>26 DEF Assign, MayRebalance, InPoll, BatchOrdered
  <2>2. IteratedAccounted(c)'
    <3>1. \A q \in Partitions : next'[c][q] = committed[q] \/ next'[c][q] = next[c][q]
      BY <1>26 DEF Assign
    <3>2. UNCHANGED <<settled, gaveUp, pending>>
      BY <1>26 DEF Assign
    <3> QED
      BY <3>1, <3>2 DEF IteratedAccounted, CommittedAccounted
  <2>3. RegisteredInBatch(c)'
    BY <1>26 DEF Assign, MayRebalance, InPoll, RegisteredInBatch, NothingLeftOver
  <2>4. NothingLeftOver(c)'
    BY <1>26 DEF Assign, MayRebalance, InPoll, NothingLeftOver
  <2>5. CommittedAccounted'
    BY <1>26 DEF Assign, MayRebalance, InPoll, CommittedAccounted
  <2>6. /\ \A e \in Consumers \ {c} : UNCHANGED BatchState(e)
        /\ settled \subseteq settled' /\ gaveUp \subseteq gaveUp'
    BY <1>26 DEF Assign, MayRebalance, InPoll, BatchState
  <2> QED
    BY <2>1, <2>2, <2>3, <2>4, <2>5, <2>6, OthersKeepBatchInv
<1>27. ASSUME NEW c \in Consumers, NEW r \in pending[c], Published(c, r) \/ NotPublished(c, r)
      PROVE  AccountInv'
  <2>a. /\ pending'[c] = pending[c] \ {r}
        /\ settled' \cup gaveUp' = settled \cup gaveUp \cup {r}
        /\ acked'[c] \subseteq acked[c] \cup {r}
        /\ settled \subseteq settled'
        /\ acked'[c] \subseteq settled' \cup acked[c]
        /\ UNCHANGED <<pc, from, next, registered>>
    BY <1>27 DEF Published, NotPublished
  <2>1. BatchOrdered(c)'
    BY <1>27 DEF Published, NotPublished, Records, BatchOrdered
  <2>2. IteratedAccounted(c)'
    BY <2>a DEF IteratedAccounted
  <2>3. RegisteredInBatch(c)'
    <3>1. \A q \in pending'[c] \cup acked'[c] : q \in pending[c] \cup acked[c]
      BY <2>a
    <3> QED
      BY <2>a, <3>1 DEF RegisteredInBatch
  <2>4. NothingLeftOver(c)'
    BY <1>27 DEF Published, NotPublished, Records, NothingLeftOver
  <2>5. CommittedAccounted'
    BY <1>27 DEF Published, NotPublished, Records, CommittedAccounted
  <2>6. /\ \A e \in Consumers \ {c} : UNCHANGED BatchState(e)
        /\ settled \subseteq settled' /\ gaveUp \subseteq gaveUp'
    BY <1>27 DEF Published, NotPublished, Records, BatchState
  <2> QED
    BY <2>1, <2>2, <2>3, <2>4, <2>5, <2>6, OthersKeepBatchInv
<1>28. ASSUME NEW p \in Partitions, StartRebalance(p)
       PROVE  AccountInv'
  BY <1>28 DEF StartRebalance, BatchOrdered, IteratedAccounted, RegisteredInBatch, NothingLeftOver, CommittedAccounted
<1>29. CASE Idle \/ UNCHANGED vars
  BY <1>29 DEF Idle, vars, BatchOrdered, IteratedAccounted, RegisteredInBatch, NothingLeftOver, CommittedAccounted
<1> QED
  BY <1>1, <1>2, <1>3, <1>4, <1>5, <1>6, <1>7, <1>8, <1>9, <1>10, <1>11, <1>12, <1>13, <1>14, <1>15, <1>16, <1>17, <1>18, <1>19, <1>20, <1>21, <1>22, <1>23, <1>24, <1>25, <1>26, <1>27, <1>28, <1>29 DEF Next, Loop, Publications, Environment

\* The inductive invariant of the records accounted for holds always.
THEOREM AccountAlways == Spec => [](TypeInv /\ AccountInv)
<1>1. TypeInv /\ AccountInv /\ [Next]_vars => (TypeInv /\ AccountInv)'
  BY TypeStep, AccountStep
<1> QED
  BY TypeInit, AccountInit, <1>1, PTL DEF Spec

\* No commit passes a record that was never consumed, dead-lettered, nor refused by
\* the dead-letter topic, whatever the group, the faults and the retries do.
THEOREM NothingUntriedIsSkipped == Spec => []CommittedAccounted
<1>1. AccountInv => CommittedAccounted
  BY DEF AccountInv
<1> QED
  BY AccountAlways, <1>1, PTL

\* Every record is begun with all earlier ones of its partition dealt with.
THEOREM RecordsBegunInOrder == Spec => []ConsumedInOrder
<1>1. TypeInv /\ AccountInv => ConsumedInOrder
  BY DEF TypeInv, RecordInHand, AccountInv, BatchInv, IteratedAccounted, ConsumedInOrder
<1> QED
  BY AccountAlways, <1>1, PTL

-----------------------------------------------------------------------------
\* Which steps move a committed offset, and to where.
LEMMA CommittedChange ==
    ASSUME TypeInv, AccountInv, [Next]_vars, NEW p \in Partitions,
           committed'[p] # committed[p]
    PROVE  \E c \in Consumers :
              /\ Commit(c) \/ CommitFails(c)
              /\ pc[c] = "commit"
              /\ owner[p] = c
              /\ p \in HasCommittable(c)
              /\ committed'[p] = Committable(c, p)
<1>1. PICK c \in Consumers : Commit(c) \/ CommitFails(c)
  <2> USE DEF groupVars, outerVars, loopVars, batchVars, dlqVars, cancelVars, historyVars
  <2>1. ASSUME NEW c \in Consumers, Loop(c), ~Commit(c), ~CommitFails(c)
        PROVE  committed' = committed
    BY <2>1 DEF Loop, PollFetches, PollFails, StoreCancel, StartRecord, AbortBatch, Succeed, FailTransiently, BackoffElapses, FailPermanently,
       EndOfRecords, Drain, Release, AllowRebalance, Close, Restart
  <2>2. ASSUME NEW c \in Consumers, Publications(c)
        PROVE  committed' = committed
    BY <2>2 DEF Publications, Published, NotPublished
  <2>3. ASSUME NEW c \in Consumers, Environment(c)
        PROVE  committed' = committed
    BY <2>3 DEF Environment, CancelProcessing, Timeout, Shutdown, Crash, Expire, DropLost, NotifyBlocked, Revoke, Assign
  <2>4. ASSUME NEW q \in Partitions, StartRebalance(q)
        PROVE  committed' = committed
    BY <2>4 DEF StartRebalance
  <2>5. ASSUME Idle \/ UNCHANGED vars
        PROVE  committed' = committed
    BY <2>5 DEF Idle, vars
  <2> QED
    BY <2>1, <2>2, <2>3, <2>4, <2>5 DEF Next
<1>2. PICK accepted \in SUBSET Fenced(c) : committed' = committed \/ CommitOffsets(c, accepted)
  BY <1>1 DEF Commit, CommitFails
<1>3. p \in accepted /\ committed'[p] = Committable(c, p)
  BY <1>2 DEF CommitOffsets
<1>4. pc[c] = "commit"
  BY <1>1 DEF Commit, CommitFails
<1> QED
  BY <1>1, <1>3, <1>4 DEF Fenced

-----------------------------------------------------------------------------
\* No client has a batch and nothing is committed initially.
LEMMA AheadInit == Init => AheadOfCommitted
BY DEF Init, AheadOfCommitted, Origin

\* Every step keeps the batches of a partition's own client at or ahead of what is
\* committed; a client that lost the partition cannot commit it.
LEMMA AheadStep == TypeInv /\ AccountInv /\ AheadOfCommitted /\ [Next]_vars => AheadOfCommitted'
<1> SUFFICES ASSUME TypeInv, AccountInv, AheadOfCommitted, [Next]_vars
             PROVE  AheadOfCommitted'
  OBVIOUS
<1> USE ConsumerAssumption DEF TypeInv, TypeOK, Goto,
        outerVars, groupVars, batchVars, loopVars, dlqVars, cancelVars, historyVars,
        AheadOfCommitted
<1>1. ASSUME NEW c \in Consumers, PollFetches(c)
      PROVE  AheadOfCommitted'
  BY <1>1 DEF PollFetches
<1>2. ASSUME NEW c \in Consumers, PollFails(c)
      PROVE  AheadOfCommitted'
  BY <1>2 DEF PollFails, Fault
<1>3. ASSUME NEW c \in Consumers, StoreCancel(c)
      PROVE  AheadOfCommitted'
  BY <1>3 DEF StoreCancel
<1>4. ASSUME NEW c \in Consumers, StartRecord(c)
      PROVE  AheadOfCommitted'
  BY <1>4 DEF StartRecord
<1>5. ASSUME NEW c \in Consumers, AbortBatch(c)
      PROVE  AheadOfCommitted'
  BY <1>5 DEF AbortBatch
<1>6. ASSUME NEW c \in Consumers, Succeed(c)
      PROVE  AheadOfCommitted'
  BY <1>6 DEF Succeed, Current, Records
<1>7. ASSUME NEW c \in Consumers, FailTransiently(c)
      PROVE  AheadOfCommitted'
  BY <1>7 DEF FailTransiently
<1>8. ASSUME NEW c \in Consumers, BackoffElapses(c)
      PROVE  AheadOfCommitted'
  BY <1>8 DEF BackoffElapses
<1>9. ASSUME NEW c \in Consumers, FailPermanently(c)
      PROVE  AheadOfCommitted'
  BY <1>9 DEF FailPermanently, Current, Records
<1>10. ASSUME NEW c \in Consumers, EndOfRecords(c)
      PROVE  AheadOfCommitted'
  BY <1>10 DEF EndOfRecords
<1>11. ASSUME NEW c \in Consumers, Drain(c)
      PROVE  AheadOfCommitted'
  <2>1. UNCHANGED <<committed, owner, held, from, position>>
    BY <1>11 DEF Drain
  <2>2. \A d \in Consumers : d # c => failed'[d] = failed[d] /\ pc'[d] = pc[d]
    BY <1>11 DEF Drain
  <2>3. ~failed[c]
    BY <1>11 DEF Drain
  <2>4. failed'[c] => pc'[c] = "release"
    BY <1>11, <2>3 DEF Drain
  <2>5. \A d \in Consumers : failed[d] => failed'[d]
    BY <2>2, <2>3
  <2>6. \A d \in Consumers : failed'[d] => pc'[d] \in {"release", "allow", "stopped"}
    BY <2>2, <2>4
  <2> HIDE DEF TypeInv, TypeOK, RecordInHand
  <2> QED
    BY <2>1, <2>5, <2>6
<1>12. ASSUME NEW c \in Consumers, Commit(c)
      PROVE  AheadOfCommitted'
  <2>1. /\ pc[c] = "commit" /\ pc'[c] = "release" /\ ~failed[c]
        /\ UNCHANGED <<owner, held, failed>>
        /\ \A d \in Consumers : d # c => /\ pc'[d] = pc[d] /\ from'[d] = from[d]
                                         /\ position'[d] = position[d]
    BY <1>12 DEF Commit, RewindToCommitted
  <2>2. \A q \in Partitions :
           \/ committed'[q] = committed[q]
           \/ q \in HasCommittable(c) /\ owner[q] = c /\ committed'[q] = Committable(c, q)
    BY <1>12 DEF Commit, CommitOffsets, Fenced
  <2>3. \A q \in HasCommittable(c) :
           /\ from[c][q] < Committable(c, q) /\ Committable(c, q) =< next[c][q]
           /\ Committable(c, q) \in Nat
    <3>1. \A q \in Partitions : \A n \in registered[c][q] : from[c][q] < n /\ n =< next[c][q]
      BY <2>1 DEF AccountInv, BatchInv, RegisteredInBatch, Working
    <3>2. \A q \in HasCommittable(c) : /\ q \in Partitions
                                       /\ Committable(c, q) \in registered[c][q]
                                       /\ Committable(c, q) \in 1 .. LogEnd
      BY CommittableRegistered
    <3> HIDE DEF TypeInv, TypeOK, AheadOfCommitted
    <3> QED
      BY <3>1, <3>2
  <2>4. \A q \in Partitions : from[c][q] =< next[c][q] /\ next[c][q] =< position[c][q]
    BY DEF AccountInv, BatchInv, BatchOrdered
  <2>5. \A q \in Partitions :
           /\ from'[c][q] = position'[c][q]
           /\ \/ from'[c][q] = position[c][q]
              \/ q \in HasCommittable(c) /\ from'[c][q] = Committable(c, q)
              \/ q \notin HasCommittable(c) /\ from'[c][q] = from[c][q]
    BY <1>12 DEF Commit, RewindToCommitted
  <2>6. \A q \in Partitions : /\ from[c][q] \in Nat /\ next[c][q] \in Nat
                              /\ position[c][q] \in Nat /\ committed[q] \in Nat
    OBVIOUS
  <2>7. ASSUME NEW q \in Partitions, q \in held[c], owner[q] = c
        PROVE  committed'[q] =< from'[c][q]
    <3>1. committed[q] =< from[c][q]
      BY <2>1, <2>7
    <3> HIDE DEF TypeInv, TypeOK, AheadOfCommitted
    <3> QED
      BY <2>2, <2>3, <2>4, <2>5, <2>6, <3>1
  <2>8. ASSUME NEW d \in Consumers, d # c, NEW q \in Partitions
        PROVE  /\ q \in held'[d] /\ owner'[q] = d /\ ~failed'[d] => committed'[q] =< from'[d][q]
               /\ q \notin held'[d] => from'[d][q] = position'[d][q]
    <3>1. owner[q] = d => committed'[q] = committed[q]
      BY <2>2, <2>8
    <3> QED
      BY <2>1, <2>8, <3>1
  <2>9. /\ \A d \in Consumers : failed'[d] => pc'[d] \in {"release", "allow", "stopped"}
        /\ \A q \in Partitions :
              /\ q \in held'[c] /\ owner'[q] = c => committed'[q] =< from'[c][q]
              /\ q \notin held'[c] => from'[c][q] = position'[c][q]
    BY <2>1, <2>5, <2>7
  <2> QED
    BY <2>8, <2>9
<1>13. ASSUME NEW c \in Consumers, CommitFails(c)
      PROVE  AheadOfCommitted'
  BY <1>13 DEF CommitFails, Fault, CommitOffsets, Fenced, HasCommittable, Committable
<1>14. ASSUME NEW c \in Consumers, Release(c)
      PROVE  AheadOfCommitted'
  BY <1>14 DEF Release, NothingRegistered
<1>15. ASSUME NEW c \in Consumers, AllowRebalance(c)
      PROVE  AheadOfCommitted'
  BY <1>15 DEF AllowRebalance
<1>16. ASSUME NEW c \in Consumers, Close(c)
      PROVE  AheadOfCommitted'
  BY <1>16 DEF Close, ForgetClient, RemoveMember, Origin, NothingRegistered
<1>17. ASSUME NEW c \in Consumers, Restart(c)
      PROVE  AheadOfCommitted'
  BY <1>17 DEF Restart
<1>18. ASSUME NEW c \in Consumers, CancelProcessing(c)
      PROVE  AheadOfCommitted'
  BY <1>18 DEF CancelProcessing
<1>19. ASSUME NEW c \in Consumers, Timeout(c)
      PROVE  AheadOfCommitted'
  BY <1>19 DEF Timeout, Fault
<1>20. ASSUME NEW c \in Consumers, Shutdown(c)
      PROVE  AheadOfCommitted'
  BY <1>20 DEF Shutdown, Fault
<1>21. ASSUME NEW c \in Consumers, Crash(c)
      PROVE  AheadOfCommitted'
  BY <1>21 DEF Crash, Fault, ForgetClient, Origin, NothingRegistered
<1>22. ASSUME NEW c \in Consumers, Expire(c)
      PROVE  AheadOfCommitted'
  BY <1>22 DEF Expire, Fault, RemoveMember
<1>23. ASSUME NEW c \in Consumers, DropLost(c)
      PROVE  AheadOfCommitted'
  BY <1>23 DEF DropLost, DropPartitions
<1>24. ASSUME NEW c \in Consumers, NotifyBlocked(c)
      PROVE  AheadOfCommitted'
  BY <1>24 DEF NotifyBlocked
<1>25. ASSUME NEW c \in Consumers, NEW p \in Partitions, Revoke(c, p)
      PROVE  AheadOfCommitted'
  BY <1>25 DEF Revoke, DropPartitions, MayRebalance, InPoll
<1>26. ASSUME NEW c \in Consumers, NEW p \in Partitions, Assign(c, p)
      PROVE  AheadOfCommitted'
  BY <1>26 DEF Assign, MayRebalance, InPoll
<1>27. ASSUME NEW c \in Consumers, Publications(c)
      PROVE  AheadOfCommitted'
  BY <1>27 DEF Publications, Published, NotPublished
<1>28. ASSUME NEW p \in Partitions, StartRebalance(p)
       PROVE  AheadOfCommitted'
  BY <1>28 DEF StartRebalance
<1>29. CASE Idle \/ UNCHANGED vars
  BY <1>29 DEF Idle, vars
<1> QED
  BY <1>1, <1>2, <1>3, <1>4, <1>5, <1>6, <1>7, <1>8, <1>9, <1>10, <1>11, <1>12, <1>13, <1>14, <1>15, <1>16, <1>17, <1>18, <1>19, <1>20, <1>21, <1>22, <1>23, <1>24, <1>25, <1>26, <1>27, <1>28, <1>29 DEF Next, Loop, Environment

\* A client that may still commit works at or behind the committed offset.
THEOREM AheadAlways == Spec => []AheadOfCommitted
BY TypeInit, AccountInit, AheadInit, TypeStep, AccountStep, AheadStep, PTL DEF Spec

\* A step moves no committed offset back: what is committed was registered in a batch that
\* began at or behind it.
LEMMA CommitsForward ==
    ASSUME TypeInv, AccountInv, AheadOfCommitted, [Next]_vars, NEW p \in Partitions
    PROVE  committed[p] =< committed'[p]
<1>1. CASE committed'[p] = committed[p]
  BY <1>1, ConsumerAssumption DEF TypeInv, TypeOK
<1>2. CASE committed'[p] # committed[p]
  <2>1. PICK c \in Consumers : /\ pc[c] = "commit" /\ owner[p] = c
                               /\ p \in HasCommittable(c)
                               /\ committed'[p] = Committable(c, p)
    BY <1>2, CommittedChange
  <2>2. from[c][p] < Committable(c, p) /\ Committable(c, p) =< next[c][p]
    BY <2>1, CommittableRegistered DEF TypeInv, AccountInv, BatchInv, RegisteredInBatch, Working
  <2>3. p \in held[c] /\ ~failed[c]
    <3>1. from[c][p] # position[c][p]
      BY <2>1, <2>2, CommittableRegistered, ConsumerAssumption
         DEF TypeInv, TypeOK, AccountInv, BatchInv, BatchOrdered
    <3> QED
      BY <2>1, <3>1 DEF AheadOfCommitted
  <2> QED
    BY <2>1, <2>2, <2>3, CommittableRegistered, ConsumerAssumption
       DEF AheadOfCommitted, TypeInv, TypeOK
<1> QED
  BY <1>1, <1>2

\* Committed offsets only grow: a late commit of an expired member, a rewind or a
\* reassignment cannot make the group consume again what it had committed.
THEOREM CommittedMonotone == Spec => CommittedNeverDecreases
<1>1. /\ TypeInv /\ AccountInv /\ AheadOfCommitted /\ [Next]_vars
         => [\A p \in Partitions : committed[p] =< committed'[p]]_vars
  BY CommitsForward
<1> QED
  BY TypeInit, AccountInit, AheadInit, TypeStep, AccountStep, AheadStep, <1>1, PTL
     DEF Spec, CommittedNeverDecreases

-----------------------------------------------------------------------------
\* No batch has begun initially.
LEMMA SkipInit == Init => SkipInv
BY ConsumerAssumption DEF Init, SkipInv, Origin

\* What the settling of a client's batch depends on.
SkipState(c) ==
    <<pc[c], position[c], from[c], next[c], pending[c], failed[c], publishErr[c]>>

SkipPart(c) ==
    /\ \A p \in Partitions : \A o \in from[c][p] .. next[c][p] - 1 :
          \/ <<p, o>> \in settled \cup pending[c]
          \/ failed[c]
          \/ Working(c) /\ publishErr[c] # {}
    /\ pc[c] = "commit" /\ publishErr[c] # {} => ConsumerCanceled(c)

LEMMA OthersKeepSkipInv ==
    ASSUME SkipInv, NEW c \in Consumers,
           \A d \in Consumers \ {c} : UNCHANGED SkipState(d),
           settled \subseteq settled', SkipPart(c)'
    PROVE  SkipInv'
<1>1. ASSUME NEW d \in Consumers \ {c}
      PROVE  SkipPart(d)'
  <2>1. SkipPart(d) /\ UNCHANGED SkipState(d)
    BY DEF SkipInv, SkipPart
  <2> QED
    BY <2>1 DEF SkipPart, SkipState, Working, ConsumerCanceled, HasMore
<1> QED
  BY <1>1 DEF SkipInv, SkipPart

\* Every step keeps a batch without refused publications to what it settled.
LEMMA SkipInvStep ==
    TypeInv /\ AccountInv /\ AheadOfCommitted /\ SkipInv /\ [Next]_vars => SkipInv'
<1> SUFFICES ASSUME TypeInv, AccountInv, AheadOfCommitted, SkipInv, [Next]_vars
             PROVE  SkipInv'
  OBVIOUS
<1> USE ConsumerAssumption DEF TypeInv, TypeOK, RecordInHand, Goto,
        outerVars, groupVars, batchVars, loopVars, dlqVars, cancelVars, historyVars
<1>1. ASSUME NEW c \in Consumers, PollFetches(c)
      PROVE  SkipInv'
  <2>1. (\A d \in Consumers \ {c} : UNCHANGED SkipState(d)) /\ settled' = settled
    BY <1>1 DEF PollFetches, SkipState
  <2>2. SkipPart(c)'
    BY <1>1 DEF PollFetches, SkipInv, SkipPart, Working, ConsumerCanceled, HasMore
  <2> QED
    BY <2>1, <2>2, OthersKeepSkipInv
<1>2. ASSUME NEW c \in Consumers, PollFails(c)
      PROVE  SkipInv'
  <2>1. (\A d \in Consumers \ {c} : UNCHANGED SkipState(d)) /\ settled' = settled
    BY <1>2 DEF PollFails, SkipState, Fault
  <2>2. SkipPart(c)'
    BY <1>2 DEF PollFails, SkipInv, SkipPart, Working, ConsumerCanceled, HasMore, Fault
  <2> QED
    BY <2>1, <2>2, OthersKeepSkipInv
<1>3. ASSUME NEW c \in Consumers, StoreCancel(c)
      PROVE  SkipInv'
  <2>1. (\A d \in Consumers \ {c} : UNCHANGED SkipState(d)) /\ settled' = settled
    BY <1>3 DEF StoreCancel, SkipState
  <2>2. SkipPart(c)'
    BY <1>3 DEF StoreCancel, SkipInv, SkipPart, Working, ConsumerCanceled, HasMore
  <2> QED
    BY <2>1, <2>2, OthersKeepSkipInv
<1>4. ASSUME NEW c \in Consumers, StartRecord(c)
      PROVE  SkipInv'
  <2>1. PICK p \in Partitions, o \in 0 .. LogEnd :
           /\ next' = [next EXCEPT ![c][p] = o]
           /\ next[c][p] =< o
           /\ \A i \in next[c][p] .. o - 1 : <<p, i>> \in Gaps
    BY <1>4, StartedRecord
  <2>2. /\ pc[c] = "next" /\ pc' = [pc EXCEPT ![c] = "running"]
        /\ UNCHANGED <<position, from, pending, failed, publishErr, settled>>
    BY <1>4 DEF StartRecord
  <2>3. \A d \in Consumers \ {c} : UNCHANGED SkipState(d)
    BY <2>1, <2>2 DEF SkipState
  <2>4. ASSUME NEW q \in Partitions, NEW i \in from[c][q] .. next'[c][q] - 1
        PROVE  \/ <<q, i>> \in settled \cup pending[c]
               \/ failed[c]
               \/ publishErr[c] # {}
    <3>1. i \in from[c][q] .. next[c][q] - 1 \/ (q = p /\ i \in next[c][p] .. o - 1)
      BY <2>1, <2>4
    <3> QED
      BY <2>1, <3>1 DEF AccountInv, SkipInv
  <2>5. SkipPart(c)'
    BY <2>2, <2>4 DEF SkipPart, Working
  <2> QED
    BY <2>2, <2>3, <2>5, OthersKeepSkipInv
<1>5. ASSUME NEW c \in Consumers, AbortBatch(c)
      PROVE  SkipInv'
  <2>1. (\A d \in Consumers \ {c} : UNCHANGED SkipState(d)) /\ settled' = settled
    BY <1>5 DEF AbortBatch, SkipState
  <2>2. SkipPart(c)'
    BY <1>5 DEF AbortBatch, SkipInv, SkipPart, Working, ConsumerCanceled, HasMore
  <2> QED
    BY <2>1, <2>2, OthersKeepSkipInv
<1>6. ASSUME NEW c \in Consumers, Succeed(c)
      PROVE  SkipInv'
  <2>1. /\ next'[c][cur[c]] = next[c][cur[c]] + 1
        /\ \A q \in Partitions : q # cur[c] => next'[c][q] = next[c][q]
        /\ pc[c] = "running" /\ pc' = [pc EXCEPT ![c] = "next"]
        /\ cur[c] \in Partitions
        /\ UNCHANGED <<position, from, pending, failed, publishErr>>
        /\ settled' = settled \cup {<<cur[c], next[c][cur[c]]>>}
    BY <1>6 DEF Succeed, Current
  <2>2. \A d \in Consumers \ {c} : UNCHANGED SkipState(d)
    BY <1>6 DEF Succeed, SkipState
  <2>3. ASSUME NEW q \in Partitions, NEW i \in from[c][q] .. next'[c][q] - 1
        PROVE  \/ <<q, i>> \in settled' \cup pending[c]
               \/ failed[c]
               \/ publishErr[c] # {}
    <3>1. i \in from[c][q] .. next[c][q] - 1 \/ (q = cur[c] /\ i = next[c][cur[c]])
      BY <2>1, <2>3
    <3> QED
      BY <2>1, <3>1 DEF SkipInv
  <2>4. SkipPart(c)'
    BY <2>1, <2>3 DEF SkipPart, Working
  <2> QED
    BY <2>1, <2>2, <2>4, OthersKeepSkipInv
<1>7. ASSUME NEW c \in Consumers, FailTransiently(c)
      PROVE  SkipInv'
  <2>1. (\A d \in Consumers \ {c} : UNCHANGED SkipState(d)) /\ settled' = settled
    BY <1>7 DEF FailTransiently, SkipState
  <2>2. SkipPart(c)'
    BY <1>7 DEF FailTransiently, SkipInv, SkipPart, Working, ConsumerCanceled, HasMore
  <2> QED
    BY <2>1, <2>2, OthersKeepSkipInv
<1>8. ASSUME NEW c \in Consumers, BackoffElapses(c)
      PROVE  SkipInv'
  <2>1. (\A d \in Consumers \ {c} : UNCHANGED SkipState(d)) /\ settled' = settled
    BY <1>8 DEF BackoffElapses, SkipState
  <2>2. SkipPart(c)'
    BY <1>8 DEF BackoffElapses, SkipInv, SkipPart, Working, ConsumerCanceled, HasMore
  <2> QED
    BY <2>1, <2>2, OthersKeepSkipInv
<1>9. ASSUME NEW c \in Consumers, FailPermanently(c)
      PROVE  SkipInv'
  <2>1. /\ next'[c][cur[c]] = next[c][cur[c]] + 1
        /\ \A q \in Partitions : q # cur[c] => next'[c][q] = next[c][q]
        /\ pc[c] = "running" /\ pc' = [pc EXCEPT ![c] = "next"]
        /\ cur[c] \in Partitions
        /\ UNCHANGED <<position, from, failed, settled>>
    BY <1>9 DEF FailPermanently
  <2>a. \/ /\ publishErr' = [publishErr EXCEPT ![c] = @ \cup {"context"}]
           /\ UNCHANGED pending
        \/ /\ pending' = [pending EXCEPT ![c] = @ \cup {Current(c)}]
           /\ UNCHANGED publishErr
    BY <1>9 DEF FailPermanently
  <2>b. /\ pending[c] \subseteq pending'[c]
        /\ publishErr[c] # {} => publishErr'[c] # {}
        /\ publishErr'[c] # {} \/ <<cur[c], next[c][cur[c]]>> \in pending'[c]
        /\ \A d \in Consumers \ {c} : publishErr'[d] = publishErr[d] /\ pending'[d] = pending[d]
    <3> DEFINE refused == [publishErr EXCEPT ![c] = @ \cup {"context"}]
               waiting == [pending EXCEPT ![c] = @ \cup {Current(c)}]
    <3>1. refused[c] # {} /\ \A d \in Consumers \ {c} : refused[d] = publishErr[d]
      OBVIOUS
    <3>2. /\ pending[c] \subseteq waiting[c] /\ <<cur[c], next[c][cur[c]]>> \in waiting[c]
          /\ \A d \in Consumers \ {c} : waiting[d] = pending[d]
      BY DEF Current
    <3>3. \/ publishErr' = refused /\ pending' = pending
          \/ publishErr' = publishErr /\ pending' = waiting
      BY <2>a
    <3> HIDE DEF refused, waiting
    <3> QED
      BY <3>1, <3>2, <3>3
  <2>c. \A d \in Consumers \ {c} : pc'[d] = pc[d] /\ next'[d] = next[d]
    BY <1>9 DEF FailPermanently
  <2>2. \A d \in Consumers \ {c} : UNCHANGED SkipState(d)
    BY <2>1, <2>b, <2>c DEF SkipState
  <2>3. ASSUME NEW q \in Partitions, NEW i \in from[c][q] .. next'[c][q] - 1
        PROVE  \/ <<q, i>> \in settled \cup pending'[c]
               \/ failed[c]
               \/ publishErr'[c] # {}
    <3>1. i \in from[c][q] .. next[c][q] - 1 \/ (q = cur[c] /\ i = next[c][cur[c]])
      <4>1. from[c][q] \in Nat /\ next[c][q] \in Nat
        OBVIOUS
      <4> HIDE DEF TypeInv, TypeOK
      <4> QED
        BY <2>1, <2>3, <4>1
    <3> QED
      BY <2>1, <2>b, <3>1 DEF SkipInv
  <2>4. SkipPart(c)'
    BY <2>1, <2>b, <2>3 DEF SkipPart, Working
  <2> QED
    BY <2>1, <2>2, <2>4, OthersKeepSkipInv
<1>10. ASSUME NEW c \in Consumers, EndOfRecords(c)
      PROVE  SkipInv'
  <2>1. (\A d \in Consumers \ {c} : UNCHANGED SkipState(d)) /\ settled' = settled
    BY <1>10 DEF EndOfRecords, SkipState
  <2>2. SkipPart(c)'
    BY <1>10 DEF EndOfRecords, SkipInv, SkipPart, Working, ConsumerCanceled, HasMore
  <2> QED
    BY <2>1, <2>2, OthersKeepSkipInv
<1>11. ASSUME NEW c \in Consumers, Drain(c)
      PROVE  SkipInv'
  <2>1. /\ pc[c] = "drain" /\ pending[c] = {}
        /\ UNCHANGED <<position, from, next, pending, publishErr, settled>>
        /\ \/ pc' = [pc EXCEPT ![c] = "release"] /\ failed' = [failed EXCEPT ![c] = TRUE]
           \/ /\ pc' = [pc EXCEPT ![c] = "commit"] /\ failed' = failed
              /\ publishErr[c] # {} => ConsumerCanceled(c)
    BY <1>11 DEF Drain
  <2>2. \A d \in Consumers \ {c} : UNCHANGED SkipState(d)
    BY <2>1 DEF SkipState
  <2>3. SkipPart(c)'
    BY <2>1 DEF SkipInv, SkipPart, Working, ConsumerCanceled, HasMore
  <2> QED
    BY <2>1, <2>2, <2>3, OthersKeepSkipInv
<1>12. ASSUME NEW c \in Consumers, Commit(c)
      PROVE  SkipInv'
  <2>1. /\ pc' = [pc EXCEPT ![c] = "release"]
        /\ UNCHANGED <<pending, failed, publishErr, settled>>
        /\ RewindToCommitted(c)
    BY <1>12 DEF Commit
  <2>2. \A d \in Consumers \ {c} : UNCHANGED SkipState(d)
    BY <2>1 DEF RewindToCommitted, SkipState
  <2>3. \A q \in Partitions : from'[c][q] = next'[c][q]
    BY <2>1 DEF RewindToCommitted
  <2>4. \A q \in Partitions : next'[c][q] \in Nat
    BY <1>12, TypeStep DEF Next, Loop
  <2>5. SkipPart(c)'
    BY <2>1, <2>3, <2>4 DEF SkipPart
  <2> QED
    BY <2>1, <2>2, <2>5, OthersKeepSkipInv
<1>13. ASSUME NEW c \in Consumers, CommitFails(c)
      PROVE  SkipInv'
  <2>1. (\A d \in Consumers \ {c} : UNCHANGED SkipState(d)) /\ settled' = settled
    BY <1>13 DEF CommitFails, SkipState, Fault
  <2>2. SkipPart(c)'
    BY <1>13 DEF CommitFails, SkipInv, SkipPart, Working, ConsumerCanceled, HasMore, Fault
  <2> QED
    BY <2>1, <2>2, OthersKeepSkipInv
<1>14. ASSUME NEW c \in Consumers, Release(c)
      PROVE  SkipInv'
  <2>1. (\A d \in Consumers \ {c} : UNCHANGED SkipState(d)) /\ settled' = settled
    BY <1>14 DEF Release, SkipState
  <2>2. SkipPart(c)'
    BY <1>14 DEF Release, SkipInv, SkipPart, Working, ConsumerCanceled, HasMore
  <2> QED
    BY <2>1, <2>2, OthersKeepSkipInv
<1>15. ASSUME NEW c \in Consumers, AllowRebalance(c)
      PROVE  SkipInv'
  <2>1. (\A d \in Consumers \ {c} : UNCHANGED SkipState(d)) /\ settled' = settled
    BY <1>15 DEF AllowRebalance, SkipState
  <2>2. SkipPart(c)'
    BY <1>15 DEF AllowRebalance, SkipInv, SkipPart, Working, ConsumerCanceled, HasMore
  <2> QED
    BY <2>1, <2>2, OthersKeepSkipInv
<1>16. ASSUME NEW c \in Consumers, Close(c)
      PROVE  SkipInv'
  <2>1. (\A d \in Consumers \ {c} : UNCHANGED SkipState(d)) /\ settled' = settled
    BY <1>16 DEF Close, SkipState, ForgetClient, RemoveMember, Origin
  <2>2. SkipPart(c)'
    BY <1>16 DEF Close, SkipInv, SkipPart, Working, ConsumerCanceled, HasMore, ForgetClient, RemoveMember, Origin
  <2> QED
    BY <2>1, <2>2, OthersKeepSkipInv
<1>17. ASSUME NEW c \in Consumers, Restart(c)
      PROVE  SkipInv'
  <2>1. (\A d \in Consumers \ {c} : UNCHANGED SkipState(d)) /\ settled' = settled
    BY <1>17 DEF Restart, SkipState
  <2>2. SkipPart(c)'
    BY <1>17 DEF Restart, SkipInv, SkipPart, Working, ConsumerCanceled, HasMore
  <2> QED
    BY <2>1, <2>2, OthersKeepSkipInv
<1>18. ASSUME NEW c \in Consumers, CancelProcessing(c)
      PROVE  SkipInv'
  <2>1. (\A d \in Consumers \ {c} : UNCHANGED SkipState(d)) /\ settled' = settled
    BY <1>18 DEF CancelProcessing, SkipState
  <2>2. SkipPart(c)'
    BY <1>18 DEF CancelProcessing, SkipInv, SkipPart, Working, ConsumerCanceled, HasMore
  <2> QED
    BY <2>1, <2>2, OthersKeepSkipInv
<1>19. ASSUME NEW c \in Consumers, Timeout(c)
      PROVE  SkipInv'
  <2>1. (\A d \in Consumers \ {c} : UNCHANGED SkipState(d)) /\ settled' = settled
    BY <1>19 DEF Timeout, SkipState, Fault
  <2>2. SkipPart(c)'
    BY <1>19 DEF Timeout, SkipInv, SkipPart, Working, ConsumerCanceled, HasMore, Fault
  <2> QED
    BY <2>1, <2>2, OthersKeepSkipInv
<1>20. ASSUME NEW c \in Consumers, Shutdown(c)
      PROVE  SkipInv'
  <2>1. (\A d \in Consumers \ {c} : UNCHANGED SkipState(d)) /\ settled' = settled
    BY <1>20 DEF Shutdown, SkipState, Fault
  <2>2. SkipPart(c)'
    BY <1>20 DEF Shutdown, SkipInv, SkipPart, Working, ConsumerCanceled, HasMore, Fault
  <2> QED
    BY <2>1, <2>2, OthersKeepSkipInv
<1>21. ASSUME NEW c \in Consumers, Crash(c)
      PROVE  SkipInv'
  <2>1. (\A d \in Consumers \ {c} : UNCHANGED SkipState(d)) /\ settled' = settled
    BY <1>21 DEF Crash, SkipState, Fault, ForgetClient, Origin
  <2>2. SkipPart(c)'
    BY <1>21 DEF Crash, SkipInv, SkipPart, Working, ConsumerCanceled, HasMore, Fault, ForgetClient, Origin
  <2> QED
    BY <2>1, <2>2, OthersKeepSkipInv
<1>22. ASSUME NEW c \in Consumers, Expire(c)
      PROVE  SkipInv'
  <2>1. (\A d \in Consumers \ {c} : UNCHANGED SkipState(d)) /\ settled' = settled
    BY <1>22 DEF Expire, SkipState, Fault, RemoveMember
  <2>2. SkipPart(c)'
    BY <1>22 DEF Expire, SkipInv, SkipPart, Working, ConsumerCanceled, HasMore, Fault, RemoveMember
  <2> QED
    BY <2>1, <2>2, OthersKeepSkipInv
<1>23. ASSUME NEW c \in Consumers, DropLost(c)
      PROVE  SkipInv'
  <2>1. (\A d \in Consumers \ {c} : UNCHANGED SkipState(d)) /\ settled' = settled
    BY <1>23 DEF DropLost, SkipState, DropPartitions, MayRebalance, InPoll
  <2>2. SkipPart(c)'
    BY <1>23 DEF DropLost, SkipInv, SkipPart, Working, ConsumerCanceled, HasMore, DropPartitions, MayRebalance, InPoll
  <2> QED
    BY <2>1, <2>2, OthersKeepSkipInv
<1>24. ASSUME NEW c \in Consumers, NotifyBlocked(c)
      PROVE  SkipInv'
  <2>1. (\A d \in Consumers \ {c} : UNCHANGED SkipState(d)) /\ settled' = settled
    BY <1>24 DEF NotifyBlocked, SkipState
  <2>2. SkipPart(c)'
    BY <1>24 DEF NotifyBlocked, SkipInv, SkipPart, Working, ConsumerCanceled, HasMore
  <2> QED
    BY <2>1, <2>2, OthersKeepSkipInv
<1>25. ASSUME NEW c \in Consumers, NEW p \in Partitions, Revoke(c, p)
      PROVE  SkipInv'
  <2>1. (\A d \in Consumers \ {c} : UNCHANGED SkipState(d)) /\ settled' = settled
    BY <1>25 DEF Revoke, SkipState, DropPartitions, MayRebalance, InPoll
  <2>2. SkipPart(c)'
    BY <1>25 DEF Revoke, SkipInv, SkipPart, Working, ConsumerCanceled, HasMore, DropPartitions, MayRebalance, InPoll
  <2> QED
    BY <2>1, <2>2, OthersKeepSkipInv
<1>26. ASSUME NEW c \in Consumers, NEW p \in Partitions, Assign(c, p)
      PROVE  SkipInv'
  <2>1. (\A d \in Consumers \ {c} : UNCHANGED SkipState(d)) /\ settled' = settled
    BY <1>26 DEF Assign, SkipState, MayRebalance, InPoll
  <2>2. SkipPart(c)'
    BY <1>26 DEF Assign, SkipInv, SkipPart, Working, ConsumerCanceled, HasMore, MayRebalance, InPoll
  <2> QED
    BY <2>1, <2>2, OthersKeepSkipInv
<1>27. ASSUME NEW c \in Consumers, Publications(c)
      PROVE  SkipInv'
  <2>1. PICK r \in pending[c] : Published(c, r) \/ NotPublished(c, r)
    BY <1>27 DEF Publications
  <2>2. pc[c] \in {"next", "running", "backoff", "drain"}
    BY <2>1 DEF AccountInv, BatchInv, NothingLeftOver
  <2>3. \A d \in Consumers \ {c} : UNCHANGED SkipState(d)
    BY <2>1 DEF Published, NotPublished, SkipState
  <2>4. /\ UNCHANGED <<pc, position, from, next, failed>>
        /\ settled \subseteq settled'
    BY <2>1 DEF Published, NotPublished
  <2>p. CASE Published(c, r)
    <3>1. UNCHANGED publishErr /\ pending[c] \subseteq settled' \cup pending'[c]
      BY <2>p DEF Published
    <3> QED
      BY <2>2, <2>3, <2>4, <3>1, OthersKeepSkipInv DEF SkipInv, SkipPart, Working
  <2>n. CASE NotPublished(c, r)
    <3>1. PICK outcome \in DlqOutcomes :
             publishErr' = [publishErr EXCEPT ![c] = @ \cup {outcome}]
      BY <2>n DEF NotPublished
    <3>2. publishErr'[c] # {}
      BY <3>1
    <3> QED
      BY <2>2, <2>3, <2>4, <3>2, OthersKeepSkipInv DEF SkipInv, SkipPart, Working
  <2> QED
    BY <2>1, <2>p, <2>n
<1>28. ASSUME NEW p \in Partitions, StartRebalance(p)
      PROVE  SkipInv'
  BY <1>28 DEF StartRebalance, SkipInv, Working, ConsumerCanceled, HasMore
<1>29. CASE Idle \/ UNCHANGED vars
  BY <1>29 DEF Idle, vars, SkipInv, Working, ConsumerCanceled, HasMore
<1> QED
  BY <1>1, <1>2, <1>3, <1>4, <1>5, <1>6, <1>7, <1>8, <1>9, <1>10, <1>11, <1>12, <1>13, <1>14, <1>15, <1>16, <1>17, <1>18, <1>19, <1>20, <1>21, <1>22, <1>23, <1>24, <1>25, <1>26, <1>27, <1>28, <1>29
     DEF Next, Loop, Environment

\* A batch that commits without having been cancelled took every record it iterated.
THEOREM SkipAlways == Spec => []SkipInv
BY TypeInit, AccountInit, AheadInit, SkipInit, TypeStep, AccountStep, AheadStep, SkipInvStep,
   PTL DEF Spec

\* A commit passes a record left unsettled only before the first registered one.
LEMMA SkipStep ==
    ASSUME TypeInv, AccountInv, AheadOfCommitted, SkipInv, [Next]_vars
    PROVE  \A p \in Partitions : SkipsAtHead(p)
<1>1. SUFFICES ASSUME NEW p \in Partitions, committed'[p] # committed[p]
               PROVE  SkipsAtHead(p)
  BY DEF SkipsAtHead
<1>2. PICK c \in Consumers : /\ pc[c] = "commit"
                             /\ p \in HasCommittable(c)
                             /\ committed'[p] = Committable(c, p)
  BY <1>1, CommittedChange
<1> DEFINE S == registered[c][p]
<1>3. /\ S \in SUBSET (1 .. LogEnd) /\ S # {} /\ LogEnd \in Nat
      /\ committed[p] \in Nat /\ committed'[p] \in Nat
      /\ \A k \in Min(S) .. committed'[p] : k \in S
  BY <1>2, ConsumerAssumption, CommittableRegistered DEF TypeInv, TypeOK, HasCommittable
<1>4. Min(S) \in Nat /\ \A x \in S : Min(S) =< x
  BY <1>3, LeastElement
<1>5. \A n \in S : <<p, n - 1>> \in settled
  BY <1>2 DEF AccountInv, BatchInv, RegisteredInBatch, Working
<1> HIDE DEF S
<1>6. ASSUME NEW o \in committed[p] .. committed'[p] - 1, NEW x \in S \cap (0 .. o + 1)
      PROVE  <<p, o>> \in settled
  <2>1. o \in Nat /\ x \in Nat
    BY <1>3, <1>6
  <2>2. o + 1 \in Min(S) .. committed'[p]
    BY <1>3, <1>4, <1>6, <2>1
  <2>3. o + 1 \in S
    BY <1>3, <2>2
  <2> QED
    BY <1>5, <2>1, <2>3
<1>7. ASSUME NEW o \in committed[p] .. committed'[p] - 1, from[c][p] =< o, ~ConsumerCanceled(c)
      PROVE  <<p, o>> \in settled
  <2>1. p \in Partitions /\ committed'[p] \in registered[c][p]
    BY <1>2, CommittableRegistered DEF TypeInv
  <2>2. committed'[p] =< next[c][p]
    BY <1>2, <2>1 DEF AccountInv, BatchInv, RegisteredInBatch, Working
  <2>3. o \in from[c][p] .. next[c][p] - 1
    BY <1>3, <1>7, <2>1, <2>2 DEF TypeInv, TypeOK
  <2>4. pending[c] = {} /\ publishErr[c] = {} /\ ~failed[c]
    BY <1>2, <1>7 DEF AccountInv, BatchInv, NothingLeftOver, SkipInv, AheadOfCommitted
  <2> QED
    BY <2>1, <2>3, <2>4 DEF SkipInv
<1>8. \A o \in committed[p] .. committed'[p] - 1 : from[c][p] =< o \/ o < from[c][p]
  BY <1>2, <1>3, CommittableRegistered DEF TypeInv, TypeOK
<1> QED
  BY <1>2, <1>6, <1>7, <1>8 DEF SkipsAtHead, S

\* Losing a record takes a batch that was cancelled and that registered nothing before it:
\* otherwise a commit passes settled records only.
THEOREM SkipsAreAtHead == Spec => SkipsOnlyAtHead
<1>1. TypeInv /\ AccountInv /\ AheadOfCommitted /\ SkipInv /\ [Next]_vars
         => [\A p \in Partitions : SkipsAtHead(p)]_vars
  BY SkipStep
<1> QED
  BY TypeInit, AccountInit, AheadInit, SkipInit, TypeStep, AccountStep, AheadStep, SkipInvStep,
     <1>1, PTL DEF Spec, SkipsOnlyAtHead

-----------------------------------------------------------------------------
\* Without expired sessions a client holds only partitions that are its own.
HeldIsOwned ==
    /\ \A c \in Consumers : pc[c] = "down" => held[c] = {}
    /\ "expire" \notin FaultKinds => \A c \in Consumers : Lost(c) = {}

\* Ownership only leaves a client together with the partitions it holds.
LEMMA HeldStep == TypeInv /\ HeldIsOwned /\ [Next]_vars => HeldIsOwned'
<1> SUFFICES ASSUME TypeInv, HeldIsOwned, [Next]_vars
             PROVE  HeldIsOwned'
  OBVIOUS
<1> USE ConsumerAssumption DEF TypeInv, TypeOK, HeldIsOwned, Lost, Goto,
        outerVars, groupVars, batchVars, loopVars, dlqVars, cancelVars, historyVars
<1>1. ASSUME NEW c \in Consumers, Loop(c)
      PROVE  HeldIsOwned'
  <2>1. CASE Close(c)
    <3>1. /\ held' = [held EXCEPT ![c] = {}] /\ pc' = [pc EXCEPT ![c] = "down"]
          /\ owner' = [p \in Partitions |-> IF owner[p] = c THEN NoOne ELSE owner[p]]
      BY <2>1 DEF Close, ForgetClient, RemoveMember
    <3> QED
      BY <3>1
  <2>2. CASE ~Close(c)
    <3>1. held' = held
      BY <1>1, <2>2 DEF Loop, PollFetches, PollFails, StoreCancel, StartRecord,
         AbortBatch, Succeed, FailTransiently, BackoffElapses, FailPermanently,
         EndOfRecords, Drain, Commit, CommitFails, Release, AllowRebalance, Restart
    <3>2. owner' = owner
      BY <1>1, <2>2 DEF Loop, PollFetches, PollFails, StoreCancel, StartRecord,
         AbortBatch, Succeed, FailTransiently, BackoffElapses, FailPermanently,
         EndOfRecords, Drain, Commit, CommitFails, Release, AllowRebalance, Restart
    <3>3. \E state \in States \ {"down"} : pc' = [pc EXCEPT ![c] = state]
      BY <1>1, <2>2 DEF States, Loop, PollFetches, PollFails, StoreCancel, StartRecord,
         AbortBatch, Succeed, FailTransiently, BackoffElapses, FailPermanently,
         EndOfRecords, Drain, Commit, CommitFails, Release, AllowRebalance, Restart
    <3> QED
      BY <3>1, <3>2, <3>3
  <2> QED
    BY <2>1, <2>2
<1>2. ASSUME NEW c \in Consumers, Publications(c)
      PROVE  HeldIsOwned'
  BY <1>2 DEF Publications, Published, NotPublished
<1>3. ASSUME NEW c \in Consumers, Crash(c)
      PROVE  HeldIsOwned'
  <2>1. held' = [held EXCEPT ![c] = {}] /\ pc' = [pc EXCEPT ![c] = "down"] /\ owner' = owner
    BY <1>3 DEF Crash, ForgetClient
  <2> QED
    BY <2>1
<1>4. ASSUME NEW c \in Consumers, DropLost(c)
      PROVE  HeldIsOwned'
  <2>1. held' = [held EXCEPT ![c] = @ \ Lost(c)] /\ pc' = pc /\ owner' = owner
    BY <1>4 DEF DropLost, DropPartitions
  <2>2. \A d \in Consumers : held'[d] \subseteq held[d]
    BY <2>1
  <2> QED
    BY <2>1, <2>2
<1>5. ASSUME NEW c \in Consumers, Expire(c)
      PROVE  HeldIsOwned'
  <2>1. /\ held' = held /\ pc' = pc
        /\ owner' = [p \in Partitions |-> IF owner[p] = c THEN NoOne ELSE owner[p]]
        /\ "expire" \notin FaultKinds => pc[c] = "down"
    BY <1>5 DEF Expire, Fault, RemoveMember
  <2> QED
    BY <2>1
<1>6. ASSUME NEW c \in Consumers,
             CancelProcessing(c) \/ Timeout(c) \/ Shutdown(c) \/ NotifyBlocked(c)
      PROVE  HeldIsOwned'
  BY <1>6 DEF CancelProcessing, Timeout, Shutdown, NotifyBlocked
<1>7. ASSUME NEW c \in Consumers, NEW p \in Partitions, Revoke(c, p)
      PROVE  HeldIsOwned'
  <2>1. /\ held' = [held EXCEPT ![c] = @ \ {p}] /\ pc' = pc
        /\ owner' = [owner EXCEPT ![p] = NoOne] /\ owner[p] = c
    BY <1>7 DEF Revoke, DropPartitions
  <2> QED
    BY <2>1
<1>8. ASSUME NEW c \in Consumers, NEW p \in Partitions, Assign(c, p)
      PROVE  HeldIsOwned'
  <2>1. /\ held' = [held EXCEPT ![c] = @ \cup {p}] /\ pc' = pc /\ pc[c] # "down"
        /\ owner' = [owner EXCEPT ![p] = c] /\ owner[p] = NoOne
    BY <1>8 DEF Assign, MayRebalance
  <2> QED
    BY <2>1
<1>9. ASSUME NEW p \in Partitions, StartRebalance(p)
      PROVE  HeldIsOwned'
  BY <1>9 DEF StartRebalance
<1>10. CASE Idle \/ UNCHANGED vars
  BY <1>10 DEF Idle, vars
<1> QED
  BY <1>1, <1>2, <1>3, <1>4, <1>5, <1>6, <1>7, <1>8, <1>9, <1>10 DEF Next, Environment

\* Revocation waits for the batch and a restart for the end of the old membership, so
\* blocking rebalances on the poll keeps a partition's records in one pair of hands.
THEOREM OneProcessorPerPartition == Spec => []SingleProcessor
<1>1. Init => HeldIsOwned
  BY DEF Init, HeldIsOwned, Lost
<1>2. TypeInv /\ HeldIsOwned /\ AheadOfCommitted => SingleProcessor
  <2>1. SUFFICES ASSUME TypeInv, HeldIsOwned, AheadOfCommitted, "expire" \notin FaultKinds,
                        NEW c \in Consumers, NEW d \in Consumers, NEW p \in Partitions,
                        from[c][p] < position[c][p], from[d][p] < position[d][p]
                 PROVE  c = d
    BY DEF SingleProcessor
  <2>2. from[c][p] # position[c][p] /\ from[d][p] # position[d][p]
    BY <2>1, ConsumerAssumption DEF TypeInv, TypeOK
  <2>3. p \in held[c] /\ p \in held[d]
    BY <2>1, <2>2 DEF AheadOfCommitted
  <2> QED
    BY <2>1, <2>3 DEF HeldIsOwned, Lost
<1> QED
  BY TypeInit, AccountInit, AheadInit, <1>1, TypeStep, AccountStep, AheadStep, HeldStep, <1>2,
     PTL DEF Spec

-----------------------------------------------------------------------------
\* Only a poll can be told that it blocks a rebalance.
NotifiedInv == BlockedBatchIsCancelled /\ \A c \in Consumers : notified[c] => InPoll(c)

\* However the callback, store and release interleave, the cancellation is not dropped.
LEMMA NotifiedStep == TypeInv /\ NotifiedInv /\ [Next]_vars => NotifiedInv'
<1> SUFFICES ASSUME TypeInv, NotifiedInv, [Next]_vars
             PROVE  NotifiedInv'
  OBVIOUS
<1> USE ConsumerAssumption DEF TypeInv, TypeOK, Goto, InPoll, HasCancelFunc,
        BlockedBatchIsCancelled, NotifiedInv,
        outerVars, groupVars, batchVars, loopVars, dlqVars, cancelVars, historyVars
<1>1. ASSUME NEW c \in Consumers, PollFetches(c)
      PROVE  NotifiedInv'
  BY <1>1 DEF PollFetches
<1>2. ASSUME NEW c \in Consumers, PollFails(c)
      PROVE  NotifiedInv'
  BY <1>2 DEF PollFails, Fault
<1>3. ASSUME NEW c \in Consumers, StoreCancel(c)
      PROVE  NotifiedInv'
  BY <1>3 DEF StoreCancel
<1>4. ASSUME NEW c \in Consumers, StartRecord(c)
      PROVE  NotifiedInv'
  BY <1>4 DEF StartRecord
<1>5. ASSUME NEW c \in Consumers, AbortBatch(c)
      PROVE  NotifiedInv'
  BY <1>5 DEF AbortBatch
<1>6. ASSUME NEW c \in Consumers, Succeed(c)
      PROVE  NotifiedInv'
  BY <1>6 DEF Succeed
<1>7. ASSUME NEW c \in Consumers, FailTransiently(c)
      PROVE  NotifiedInv'
  BY <1>7 DEF FailTransiently
<1>8. ASSUME NEW c \in Consumers, BackoffElapses(c)
      PROVE  NotifiedInv'
  BY <1>8 DEF BackoffElapses
<1>9. ASSUME NEW c \in Consumers, FailPermanently(c)
      PROVE  NotifiedInv'
  BY <1>9 DEF FailPermanently
<1>10. ASSUME NEW c \in Consumers, EndOfRecords(c)
      PROVE  NotifiedInv'
  BY <1>10 DEF EndOfRecords
<1>11. ASSUME NEW c \in Consumers, Drain(c)
      PROVE  NotifiedInv'
  <2>1. /\ pc[c] = "drain" /\ UNCHANGED <<notified, callbacks, cancelled, shouldCancel>>
        /\ pc' = [pc EXCEPT ![c] = "release"] \/ pc' = [pc EXCEPT ![c] = "commit"]
    BY <1>11 DEF Drain
  <2>2. ASSUME NEW state \in {"release", "commit"}, pc' = [pc EXCEPT ![c] = state]
        PROVE  NotifiedInv'
    <3>1. \A d \in Consumers : InPoll(d) => InPoll(d)'
      BY <2>2
    <3>2. \A d \in Consumers : HasCancelFunc(d) => HasCancelFunc(d)'
      BY <2>2
    <3>3. \A d \in Consumers : pc[d] \in {"fetched", "allow"} => pc'[d] = pc[d]
      BY <2>1, <2>2
    <3> HIDE DEF InPoll, HasCancelFunc, TypeInv, TypeOK
    <3> QED
      BY <2>1, <3>1, <3>2, <3>3
  <2> QED
    BY <2>1, <2>2
<1>12. ASSUME NEW c \in Consumers, Commit(c)
      PROVE  NotifiedInv'
  BY <1>12 DEF Commit
<1>13. ASSUME NEW c \in Consumers, CommitFails(c)
      PROVE  NotifiedInv'
  BY <1>13 DEF CommitFails, Fault
<1>14. ASSUME NEW c \in Consumers, Release(c)
      PROVE  NotifiedInv'
  BY <1>14 DEF Release
<1>15. ASSUME NEW c \in Consumers, AllowRebalance(c)
      PROVE  NotifiedInv'
  BY <1>15 DEF AllowRebalance
<1>16. ASSUME NEW c \in Consumers, Close(c)
      PROVE  NotifiedInv'
  BY <1>16 DEF Close, ForgetClient, RemoveMember
<1>17. ASSUME NEW c \in Consumers, Restart(c)
      PROVE  NotifiedInv'
  BY <1>17 DEF Restart
<1>18. ASSUME NEW c \in Consumers, CancelProcessing(c)
      PROVE  NotifiedInv'
  BY <1>18 DEF CancelProcessing
<1>19. ASSUME NEW c \in Consumers, Timeout(c)
      PROVE  NotifiedInv'
  BY <1>19 DEF Timeout, Fault
<1>20. ASSUME NEW c \in Consumers, Shutdown(c)
      PROVE  NotifiedInv'
  BY <1>20 DEF Shutdown, Fault
<1>21. ASSUME NEW c \in Consumers, Crash(c)
      PROVE  NotifiedInv'
  BY <1>21 DEF Crash, Fault, ForgetClient
<1>22. ASSUME NEW c \in Consumers, Expire(c)
      PROVE  NotifiedInv'
  BY <1>22 DEF Expire, Fault, RemoveMember
<1>23. ASSUME NEW c \in Consumers, DropLost(c)
      PROVE  NotifiedInv'
  BY <1>23 DEF DropLost, DropPartitions
<1>24. ASSUME NEW c \in Consumers, NotifyBlocked(c)
      PROVE  NotifiedInv'
  BY <1>24 DEF NotifyBlocked
<1>25. ASSUME NEW c \in Consumers, NEW p \in Partitions, Revoke(c, p)
      PROVE  NotifiedInv'
  BY <1>25 DEF Revoke, DropPartitions
<1>26. ASSUME NEW c \in Consumers, NEW p \in Partitions, Assign(c, p)
      PROVE  NotifiedInv'
  BY <1>26 DEF Assign
<1>27. ASSUME NEW c \in Consumers, Publications(c)
      PROVE  NotifiedInv'
  BY <1>27 DEF Publications, Published, NotPublished
<1>28. ASSUME NEW p \in Partitions, StartRebalance(p)
      PROVE  NotifiedInv'
  BY <1>28 DEF StartRebalance
<1>29. CASE Idle \/ UNCHANGED vars
  BY <1>29 DEF Idle, vars
<1> QED
  BY <1>1, <1>2, <1>3, <1>4, <1>5, <1>6, <1>7, <1>8, <1>9, <1>10, <1>11, <1>12, <1>13, <1>14, <1>15, <1>16, <1>17, <1>18, <1>19, <1>20, <1>21, <1>22, <1>23, <1>24, <1>25, <1>26, <1>27, <1>28, <1>29
     DEF Next, Loop, Environment

\* A batch that blocks a rebalance gets its cancellation, whether the callback runs before
\* the cancel function is stored, during the batch, or after its release.
THEOREM BlockedBatchesAreCancelled == Spec => []BlockedBatchIsCancelled
<1>1. Init => NotifiedInv
  BY DEF Init, NotifiedInv, BlockedBatchIsCancelled
<1>2. NotifiedInv => BlockedBatchIsCancelled
  BY DEF NotifiedInv
<1> QED
  BY TypeInit, TypeStep, <1>1, NotifiedStep, <1>2, PTL DEF Spec

-----------------------------------------------------------------------------
(* KgoConsumer implements AtLeastOnce: with a dead-letter topic that takes *)
(* every publication, each step of a group of any size is a step of the    *)
(* abstract specification or leaves it alone.                              *)

\* A client whose iterator stays where it is keeps its part of the invariant if records
\* only move from the publications to the settled ones.
LEMMA QuietStep ==
    ASSUME NEW d \in Consumers, IteratedSettled(d),
           from'[d] = from[d], next'[d] = next[d],
           settled \cup pending[d] \subseteq settled' \cup pending'[d],
           StopsAtRefusal(d) => StopsAtRefusal(d)'
    PROVE  IteratedSettled(d)'
BY DEF IteratedSettled

\* A step that changes none of the variables the invariant is about, but the program
\* counter of one client.
LEMMA OtherClientsQuiet ==
    ASSUME NEW c \in Consumers, NEW d \in Consumers \ {c}, IteratedSettled(d),
           pc'[d] = pc[d], failed'[d] = failed[d], from'[d] = from[d], next'[d] = next[d],
           pending'[d] = pending[d], publishErr'[d] = publishErr[d],
           cancelled'[d] = cancelled[d], ctxDone'[d] = ctxDone[d],
           settled \subseteq settled'
    PROVE  IteratedSettled(d)'
<1>1. StopsAtRefusal(d) => StopsAtRefusal(d)'
  BY DEF StopsAtRefusal, CtxIsDone
<1> QED
  BY <1>1, QuietStep

\* What client c can do to another client's batch: nothing, but settle records.
LEMMA OthersUntouched ==
    ASSUME TypeOK, NEW c \in Consumers, Loop(c) \/ Publications(c) \/ Environment(c),
           NEW d \in Consumers \ {c}
    PROVE  /\ pc'[d] = pc[d] /\ failed'[d] = failed[d]
           /\ from'[d] = from[d] /\ next'[d] = next[d]
           /\ pending'[d] = pending[d] /\ publishErr'[d] = publishErr[d]
           /\ cancelled'[d] = cancelled[d] /\ ctxDone'[d] = ctxDone[d]
           /\ settled \subseteq settled'
<1> USE DEF TypeOK, Goto, outerVars, groupVars, batchVars, loopVars, dlqVars, cancelVars,
        historyVars
<1>1. CASE Loop(c)
  BY <1>1 DEF Loop, PollFetches, PollFails, StoreCancel, StartRecord, HandOut, AbortBatch,
     Succeed, FailTransiently, BackoffElapses, FailPermanently, EndOfRecords, Drain, Commit,
     CommitFails, RewindToCommitted, Release, AllowRebalance, Close, ForgetClient, Restart
<1>2. CASE Publications(c)
  BY <1>2 DEF Publications, Published, NotPublished
<1>3. CASE Environment(c)
  BY <1>3 DEF Environment, CancelProcessing, Timeout, Shutdown, Crash, ForgetClient, Expire,
     DropLost, DropPartitions, NotifyBlocked, Revoke, Assign
<1> QED
  BY <1>1, <1>2, <1>3

\* The steps of the polling loop that neither move the iterator nor settle a record.
LEMMA QuietLoop ==
    ASSUME TypeOK, NEW c \in Consumers, IteratedSettled(c),
           Loop(c), ~StartRecord(c), ~Succeed(c), ~FailPermanently(c), ~Commit(c), ~Close(c)
    PROVE  IteratedSettled(c)'
<1> USE DEF TypeOK, Goto, outerVars, groupVars, batchVars, loopVars, dlqVars, cancelVars,
        historyVars
<1>1. /\ from'[c] = from[c] /\ next'[c] = next[c]
      /\ UNCHANGED <<settled, pending>>
  BY DEF Loop, PollFetches, PollFails, StoreCancel, AbortBatch, FailTransiently,
     BackoffElapses, EndOfRecords, Drain, CommitFails, Release, AllowRebalance, Restart
<1>2. ASSUME StopsAtRefusal(c)
      PROVE  StopsAtRefusal(c)'
  <2> USE <1>2 DEF StopsAtRefusal, CtxIsDone
  <2>1. CASE PollFetches(c)
    BY <2>1 DEF PollFetches
  <2>2. CASE PollFails(c)
    BY <2>2 DEF PollFails
  <2>3. CASE StoreCancel(c)
    BY <2>3 DEF StoreCancel
  <2>5. CASE AbortBatch(c)
    BY <2>5 DEF AbortBatch
  <2>6. CASE FailTransiently(c)
    BY <2>6 DEF FailTransiently
  <2>7. CASE BackoffElapses(c)
    BY <2>7 DEF BackoffElapses
  <2>8. CASE EndOfRecords(c)
    BY <2>8 DEF EndOfRecords
  <2>9. CASE Drain(c)
    BY <2>9 DEF ConsumerCanceled, Drain
  <2>10. CASE CommitFails(c)
    BY <2>10 DEF CommitFails
  <2>11. CASE Release(c)
    BY <2>11 DEF Release
  <2>12. CASE AllowRebalance(c)
    BY <2>12 DEF AllowRebalance
  <2>13. CASE Restart(c)
    BY <2>13 DEF Restart
  <2> QED
    BY <2>1, <2>2, <2>3, <2>5, <2>6, <2>7, <2>8, <2>9, <2>10, <2>11, <2>12, <2>13 DEF Loop
<1> QED
  BY <1>1, <1>2, QuietStep

\* The iterator moves over gaps only, which are settled; a batch that begins another record
\* had no publication refused with its context.
LEMMA GapsPassed ==
    ASSUME TypeOK, NEW c \in Consumers, IteratedSettled(c), Gaps \subseteq settled,
           StartRecord(c)
    PROVE  IteratedSettled(c)'
<1>1. PICK p \in Partitions, o \in 0 .. LogEnd :
         /\ next' = [next EXCEPT ![c][p] = o]
         /\ \A i \in next[c][p] .. o - 1 : <<p, i>> \in Gaps
  BY StartedRecord
<1>2. pc[c] = "next" /\ ~CtxIsDone(c) /\ UNCHANGED <<settled, pending>>
  BY DEF StartRecord, outerVars, dlqVars, historyVars
<1>3. \A q \in Partitions : \A i \in 0 .. next[c][q] - 1 : <<q, i>> \in settled \cup pending[c]
  BY <1>2 DEF IteratedSettled, StopsAtRefusal
<1>4. ASSUME NEW q \in Partitions, NEW i \in 0 .. next'[c][q] - 1
      PROVE  <<q, i>> \in settled \cup pending[c]
  <2>1. /\ next[c][q] \in Nat
        /\ next'[c][q] = IF q = p THEN o ELSE next[c][q]
    BY <1>1, ConsumerAssumption DEF TypeOK
  <2>2. i \in 0 .. next[c][q] - 1 \/ (q = p /\ i \in next[c][p] .. o - 1)
    BY <1>4, <2>1
  <2> QED
    BY <1>1, <1>3, <2>2
<1> QED
  BY <1>2, <1>4 DEF IteratedSettled

\* A record that succeeds settles, one that fails is on its way to the dead-letter topic
\* or stops the batch.
LEMMA RecordDone ==
    ASSUME TypeOK, NEW c \in Consumers, IteratedSettled(c), BatchOrdered(c),
           cur[c] \in Partitions, Succeed(c) \/ FailPermanently(c)
    PROVE  IteratedSettled(c)'
<1>1. /\ from' = from /\ pc[c] = "running" /\ pc'[c] = "next"
      /\ next'[c][cur[c]] = next[c][cur[c]] + 1
      /\ \A q \in Partitions : q # cur[c] => next'[c][q] = next[c][q]
      /\ settled \cup pending[c] \subseteq settled' \cup pending'[c]
      /\ UNCHANGED <<cancelled, ctxDone>>
  <2> USE DEF TypeOK, Goto, batchVars, loopVars, dlqVars, cancelVars
  <2>1. CASE Succeed(c)
    BY <2>1 DEF Succeed
  <2>2. CASE FailPermanently(c)
    BY <2>2 DEF FailPermanently
  <2> QED
    BY <2>1, <2>2
<1>2. \/ <<cur[c], next[c][cur[c]]>> \in settled' \cup pending'[c]
      \/ "context" \in publishErr'[c] /\ CtxIsDone(c)
  BY DEF TypeOK, Succeed, FailPermanently, Current
<1>3. \A q \in Partitions : \A o \in 0 .. next[c][q] - 1 : <<q, o>> \in settled' \cup pending'[c]
  BY <1>1 DEF IteratedSettled, StopsAtRefusal
<1>a. \A q \in Partitions : next[c][q] \in Nat
  BY ConsumerAssumption DEF TypeOK
<1>b. from[c][cur[c]] =< next[c][cur[c]]
  BY DEF BatchOrdered
<1>c. next'[c][cur[c]] - 1 = next[c][cur[c]]
  BY <1>1, <1>a
<1>4. /\ \A q \in Partitions : next[c][q] \in Nat
      /\ from[c][cur[c]] =< next[c][cur[c]] /\ next'[c][cur[c]] - 1 = next[c][cur[c]]
  BY <1>a, <1>b, <1>c
<1>5. SUFFICES ASSUME NEW q \in Partitions, NEW o \in 0 .. next'[c][q] - 1
               PROVE  \/ <<q, o>> \in settled' \cup pending'[c]
                      \/ o = next'[c][q] - 1 /\ from'[c][q] =< o /\ StopsAtRefusal(c)'
  BY DEF IteratedSettled
<1>6. o \in 0 .. next[c][q] - 1 \/ (q = cur[c] /\ o = next[c][cur[c]])
  BY <1>1, <1>4, <1>5
<1>7. CASE q = cur[c] /\ o = next[c][cur[c]]
  BY <1>1, <1>2, <1>4, <1>7 DEF StopsAtRefusal, CtxIsDone
<1> QED
  BY <1>3, <1>6, <1>7

\* What a batch may commit follows over settled records.
LEMMA CommittableSettled ==
    ASSUME TypeOK, NEW c \in Consumers, BatchInv(c), IteratedSettled(c), pc[c] = "commit",
           NEW p \in HasCommittable(c)
    PROVE  /\ Committable(c, p) =< next[c][p]
           /\ \A o \in 0 .. Committable(c, p) - 1 : <<p, o>> \in settled
<1>1. /\ p \in Partitions /\ Committable(c, p) \in registered[c][p]
      /\ Committable(c, p) \in Nat /\ next[c][p] \in Nat
  BY CommittableRegistered, ConsumerAssumption DEF TypeOK
<1>2. Committable(c, p) =< next[c][p] /\ <<p, Committable(c, p) - 1>> \in settled
  BY <1>1 DEF BatchInv, RegisteredInBatch, Working
<1>3. pending[c] = {}
  BY DEF BatchInv, NothingLeftOver
<1>4. ASSUME NEW o \in 0 .. Committable(c, p) - 1
      PROVE  <<p, o>> \in settled
  <2>1. o \in 0 .. next[c][p] - 1
    BY <1>1, <1>2, <1>4
  <2>2. o = next[c][p] - 1 => o = Committable(c, p) - 1
    BY <1>1, <1>2, <1>4
  <2> QED
    BY <1>1, <1>2, <1>3, <2>1, <2>2 DEF IteratedSettled
<1> QED
  BY <1>2, <1>4

\* After a commit the client stands behind settled records.
LEMMA CommitKeepsSettled ==
    ASSUME TypeOK, NEW c \in Consumers, BatchInv(c), IteratedSettled(c), Commit(c)
    PROVE  IteratedSettled(c)'
<1>1. pc[c] = "commit" /\ settled' = settled /\ pending'[c] = {} /\ pending[c] = {}
  BY DEF Commit, BatchInv, NothingLeftOver, historyVars, dlqVars
<1>2. /\ \A p \in Partitions : from[c][p] \in Nat /\ next[c][p] \in Nat /\ position[c][p] \in Nat
      /\ \A p \in Partitions : from[c][p] =< next[c][p] /\ next[c][p] =< position[c][p]
  BY DEF TypeOK, BatchInv, BatchOrdered
<1>3. ASSUME NEW p \in Partitions
      PROVE  \A o \in 0 .. next'[c][p] - 1 : <<p, o>> \in settled
  <2>1. \/ next'[c][p] = position[c][p]
              /\ (~ConsumerCanceled(c) \/ from[c][p] = position[c][p])
        \/ p \in HasCommittable(c) /\ next'[c][p] = Committable(c, p)
        \/ next'[c][p] = from[c][p]
    BY DEF TypeOK, Commit, RewindToCommitted
  <2>2. CASE p \in HasCommittable(c) /\ next'[c][p] = Committable(c, p)
    BY <1>1, <2>2, CommittableSettled
  <2>3. CASE next'[c][p] = from[c][p]
    <3>1. \A o \in 0 .. from[c][p] - 1 : o \in 0 .. next[c][p] - 1 /\ ~(from[c][p] =< o)
      BY <1>2
    <3> QED
      BY <1>1, <2>3, <3>1 DEF IteratedSettled
  <2>4. CASE next'[c][p] = position[c][p] /\ from[c][p] = position[c][p]
    BY <2>3, <2>4
  <2>5. CASE next'[c][p] = position[c][p] /\ ~ConsumerCanceled(c)
    <3>1. ~StopsAtRefusal(c)
      BY <1>1, <2>5 DEF StopsAtRefusal, ConsumerCanceled
    <3>2. position[c][p] = next[c][p]
      BY <1>2, <2>5 DEF ConsumerCanceled, HasMore
    <3> QED
      BY <1>1, <2>5, <3>1, <3>2 DEF IteratedSettled
  <2> QED
    BY <2>1, <2>2, <2>3, <2>4, <2>5
<1> QED
  BY <1>1, <1>3 DEF IteratedSettled

\* A client that stops, loses partitions or is given one stands at the beginning of a
\* partition or at its committed offset.
LEMMA MovedClientSettled ==
    ASSUME TypeOK, NEW c \in Consumers, IteratedSettled(c), NoRecordLost,
           \/ Close(c) \/ Crash(c) \/ DropLost(c)
           \/ \E p \in Partitions : Revoke(c, p) \/ Assign(c, p)
    PROVE  IteratedSettled(c)'
<1>1. /\ settled' = settled /\ committed' = committed
      /\ \/ next'[c] = Origin
         \/ /\ pending' = pending /\ publishErr' = publishErr /\ failed' = failed /\ pc' = pc
            /\ UNCHANGED <<cancelled, ctxDone>>
            /\ \A p \in Partitions :
                  \/ next'[c][p] = next[c][p] /\ from'[c][p] = from[c][p]
                  \/ next'[c][p] = 0
                  \/ next'[c][p] = committed[p]
  <2> USE DEF TypeOK, outerVars, groupVars, batchVars, loopVars, dlqVars, cancelVars, historyVars
  <2>1. CASE Close(c)
    BY <2>1 DEF Close, ForgetClient
  <2>2. CASE Crash(c)
    BY <2>2 DEF Crash, ForgetClient
  <2>3. CASE DropLost(c)
    BY <2>3 DEF DropLost, DropPartitions
  <2>4. CASE \E p \in Partitions : Revoke(c, p)
    BY <2>4 DEF Revoke, DropPartitions
  <2>5. CASE \E p \in Partitions : Assign(c, p)
    BY <2>5 DEF Assign
  <2> QED
    BY <2>1, <2>2, <2>3, <2>4, <2>5
<1>2. CASE next'[c] = Origin
  <2>1. \A p \in Partitions : next'[c][p] = 0
    BY <1>2 DEF Origin
  <2>2. \A p \in Partitions : 0 .. next'[c][p] - 1 = {}
    BY <2>1
  <2> QED
    BY <2>2 DEF IteratedSettled
<1>3. CASE next'[c] # Origin
  <2>1. StopsAtRefusal(c) => StopsAtRefusal(c)'
    BY <1>1, <1>3 DEF StopsAtRefusal, CtxIsDone
  <2>2. settled' \cup pending'[c] = settled \cup pending[c]
    BY <1>1, <1>3
  <2>3. SUFFICES ASSUME NEW p \in Partitions, NEW o \in 0 .. next'[c][p] - 1
                 PROVE  \/ <<p, o>> \in settled' \cup pending'[c]
                        \/ o = next'[c][p] - 1 /\ from'[c][p] =< o /\ StopsAtRefusal(c)'
    BY DEF IteratedSettled
  <2>4. CASE next'[c][p] = next[c][p] /\ from'[c][p] = from[c][p]
    BY <2>1, <2>2, <2>3, <2>4 DEF IteratedSettled
  <2>5. CASE next'[c][p] = 0
    BY <2>3, <2>5
  <2>6. CASE next'[c][p] = committed[p]
    BY <2>2, <2>3, <2>6 DEF NoRecordLost
  <2> QED
    BY <1>1, <1>3, <2>4, <2>5, <2>6
<1> QED
  BY <1>2, <1>3

\* Cancellation, membership and acknowledged publications leave the iterator alone.
LEMMA QuietEnvironment ==
    ASSUME TypeOK, NEW c \in Consumers, IteratedSettled(c),
           \/ CancelProcessing(c) \/ Timeout(c) \/ Shutdown(c) \/ Expire(c) \/ NotifyBlocked(c)
           \/ \E r \in pending[c] : Published(c, r)
    PROVE  IteratedSettled(c)'
<1>1. /\ UNCHANGED <<from, next, pc, failed, publishErr>>
      /\ settled \cup pending[c] \subseteq settled' \cup pending'[c]
      /\ CtxIsDone(c) => CtxIsDone(c)'
  BY DEF TypeOK, CtxIsDone, loopVars, batchVars, dlqVars, cancelVars, historyVars,
     CancelProcessing, Timeout, Shutdown, Expire, NotifyBlocked, Published
<1>2. StopsAtRefusal(c) => StopsAtRefusal(c)'
  BY <1>1 DEF StopsAtRefusal
<1> QED
  BY <1>1, <1>2, QuietStep

\* The committed offsets follow over settled records, whoever commits.
LEMMA CommittedFollows ==
    ASSUME TypeInv, AccountInv, [Next]_vars, \A c \in Consumers : IteratedSettled(c),
           NEW p \in Partitions, committed'[p] # committed[p]
    PROVE  \A o \in 0 .. committed'[p] - 1 : <<p, o>> \in settled
<1>1. PICK c \in Consumers : /\ pc[c] = "commit" /\ p \in HasCommittable(c)
                             /\ committed'[p] = Committable(c, p)
  BY CommittedChange
<1> QED
  BY <1>1, CommittableSettled DEF TypeInv, AccountInv

\* Records never leave the settled ones.
LEMMA SettledGrows == ASSUME TypeOK, [Next]_vars PROVE settled \subseteq settled'
<1>1. CASE \E p \in Partitions : StartRebalance(p)
  BY <1>1 DEF StartRebalance, historyVars
<1>2. CASE Idle \/ UNCHANGED vars
  BY <1>2 DEF Idle, vars, historyVars
<1>3. ASSUME NEW c \in Consumers, Loop(c) \/ Publications(c) \/ Environment(c)
      PROVE  settled \subseteq settled'
  <2> USE DEF outerVars, historyVars
  <2>1. CASE Loop(c)
    BY <2>1 DEF Loop, PollFetches, PollFails, StoreCancel, StartRecord, AbortBatch, Succeed,
       FailTransiently, BackoffElapses, FailPermanently, EndOfRecords, Drain, Commit,
       CommitFails, Release, AllowRebalance, Close, Restart
  <2>2. CASE Publications(c)
    BY <2>2 DEF Publications, Published, NotPublished
  <2>3. CASE Environment(c)
    BY <2>3 DEF Environment, CancelProcessing, Timeout, Shutdown, Crash, Expire, DropLost,
       NotifyBlocked, Revoke, Assign
  <2> QED
    BY <1>3, <2>1, <2>2, <2>3
<1> QED
  BY <1>1, <1>2, <1>3 DEF Next

\* Every step keeps committed offsets and iterators behind settled records.
LEMMA SettledStep == TypeInv /\ AccountInv /\ SettledInv /\ [Next]_vars => SettledInv'
<1> SUFFICES ASSUME TypeInv, AccountInv, [Next]_vars, DlqOutcomes \subseteq {"ok"},
                    NoRecordLost, \A c \in Consumers : IteratedSettled(c)
             PROVE  NoRecordLost' /\ \A c \in Consumers : IteratedSettled(c)'
  BY DEF SettledInv
<1>1. NoRecordLost'
  BY CommittedFollows, SettledGrows DEF NoRecordLost, TypeInv
<1>2. ASSUME NEW c \in Consumers, Loop(c) \/ Publications(c) \/ Environment(c)
      PROVE  \A d \in Consumers : IteratedSettled(d)'
  <2>1. \A d \in Consumers \ {c} : IteratedSettled(d)'
    BY <1>2, OthersUntouched, OtherClientsQuiet DEF TypeInv
  <2>2. BatchInv(c) /\ BatchOrdered(c) /\ IteratedSettled(c)
    BY DEF AccountInv, BatchInv
  <2>9. IteratedSettled(c)'
    <3>3. CASE Succeed(c) \/ FailPermanently(c)
      <4>1. cur[c] \in Partitions
        BY <3>3 DEF TypeInv, RecordInHand, Succeed, FailPermanently
      <4> QED
        BY <2>2, <3>3, <4>1, RecordDone DEF TypeInv
    <3>4. CASE Commit(c)
      BY <2>2, <3>4, CommitKeepsSettled DEF TypeInv
    <3>5. CASE StartRecord(c)
      BY <2>2, <3>5, GapsPassed DEF TypeInv, AccountInv
    <3>l. CASE /\ Loop(c) /\ ~StartRecord(c) /\ ~Succeed(c) /\ ~FailPermanently(c)
               /\ ~Commit(c) /\ ~Close(c)
      BY <2>2, <3>l, QuietLoop DEF TypeInv
    <3>6. CASE Publications(c)
      <4>1. \E r \in pending[c] : Published(c, r)
        BY <3>6 DEF Publications, NotPublished
      <4> QED
        BY <2>2, <4>1, QuietEnvironment DEF TypeInv
    <3>7. CASE CancelProcessing(c) \/ Timeout(c) \/ Shutdown(c) \/ Expire(c) \/ NotifyBlocked(c)
      BY <2>2, <3>7, QuietEnvironment DEF TypeInv
    <3>8. CASE \/ Close(c) \/ Crash(c) \/ DropLost(c)
               \/ \E p \in Partitions : Revoke(c, p) \/ Assign(c, p)
      BY <2>2, <3>8, MovedClientSettled DEF TypeInv
    <3> QED
      BY <1>2, <3>3, <3>4, <3>5, <3>l, <3>6, <3>7, <3>8 DEF Environment
  <2> QED
    BY <2>1, <2>9
<1>3. ASSUME (\E p \in Partitions : StartRebalance(p)) \/ Idle \/ UNCHANGED vars
      PROVE  \A d \in Consumers : IteratedSettled(d)'
  <2>1. UNCHANGED <<from, next, settled, pending, pc, failed, publishErr, cancelled, ctxDone>>
    BY <1>3 DEF StartRebalance, Idle, vars, batchVars, loopVars, dlqVars, cancelVars, historyVars
  <2> QED
    BY <2>1 DEF IteratedSettled, StopsAtRefusal, CtxIsDone
<1> QED
  BY <1>1, <1>2, <1>3 DEF Next

\* No offset is committed and no record iterated initially.
LEMMA SettledInit == Init => SettledInv
BY DEF Init, SettledInv, NoRecordLost, IteratedSettled, Origin

\* With such a topic only the last record handed out of a partition may be unsettled, by a
\* batch that stops there.
THEOREM SettledAlways == Spec => []SettledInv
BY TypeInit, AccountInit, SettledInit, TypeStep, AccountStep, SettledStep, PTL DEF Spec

\* With a dead-letter topic that takes every publication, a committed offset never passes
\* a record that is neither consumed nor dead-lettered, whatever is cancelled, expires,
\* crashes or fails to commit (README.md:109-111).
THEOREM NothingIsLost ==
    ASSUME DlqOutcomes \subseteq {"ok"}
    PROVE  Spec => []NoRecordLost
<1>1. SettledInv => NoRecordLost
  BY DEF SettledInv
<1> QED
  BY TypeInit, AccountInit, SettledInit, TypeStep, AccountStep, SettledStep, <1>1, PTL DEF Spec

-----------------------------------------------------------------------------
\* A step settles at most one record, and then commits nothing.
LEMMA SettlesOrCommits ==
    ASSUME TypeInv, [Next]_vars
    PROVE  \/ settled' = settled
           \/ committed' = committed /\ \E r \in Records : settled' = settled \cup {r}
<1>1. CASE \E p \in Partitions : StartRebalance(p)
  BY <1>1 DEF StartRebalance, historyVars
<1>2. CASE Idle \/ UNCHANGED vars
  BY <1>2 DEF Idle, vars, historyVars
<1>3. ASSUME NEW c \in Consumers, Succeed(c)
      PROVE  committed' = committed /\ \E r \in Records : settled' = settled \cup {r}
  <2>1. Current(c) \in Records
    <3>1. pc[c] = "running"
      BY <1>3 DEF Succeed
    <3> QED
      BY <3>1, ConsumerAssumption DEF TypeInv, TypeOK, RecordInHand, Current, Records
  <2> QED
    BY <1>3, <2>1 DEF Succeed, groupVars
<1>4. ASSUME NEW c \in Consumers, Publications(c)
      PROVE  \/ settled' = settled
             \/ committed' = committed /\ \E r \in Records : settled' = settled \cup {r}
  BY <1>4 DEF Publications, Published, NotPublished, groupVars, historyVars, TypeInv, TypeOK
<1>5. ASSUME NEW c \in Consumers, Loop(c) \/ Environment(c), ~Succeed(c)
      PROVE  settled' = settled
  <2> USE DEF outerVars, historyVars
  <2>1. CASE Loop(c)
    BY <1>5, <2>1 DEF Loop, PollFetches, PollFails, StoreCancel, StartRecord, AbortBatch,
       FailTransiently, BackoffElapses, FailPermanently, EndOfRecords, Drain, Commit,
       CommitFails, Release, AllowRebalance, Close, Restart
  <2>2. CASE Environment(c)
    BY <2>2 DEF Environment, CancelProcessing, Timeout, Shutdown, Crash, Expire, DropLost,
       NotifyBlocked, Revoke, Assign
  <2> QED
    BY <1>5, <2>1, <2>2
<1> QED
  BY <1>1, <1>2, <1>3, <1>4, <1>5 DEF Next

\* The group implements the contract of AtLeastOnce: success and acknowledgement settle
\* one record, a commit advances over settled records, everything else is invisible.
THEOREM ImplementsAtLeastOnce ==
    ASSUME DlqOutcomes \subseteq {"ok"}
    PROVE  Spec => AtLeastOnceSafety
<1> DEFINE Inv == TypeInv /\ AccountInv /\ AheadOfCommitted /\ SettledInv
<1>1. Init => Contract!Init
  BY DEF Init, Contract!Init, Origin
<1>2. Inv /\ TypeOK' /\ [Next]_vars => [Contract!Next]_(Contract!vars)
  <2> SUFFICES ASSUME Inv, TypeOK', [Next]_vars
               PROVE  Contract!Next \/ UNCHANGED <<settled, committed>>
    BY DEF Contract!vars
  <2>1. CASE committed' = committed
    BY <2>1, SettlesOrCommits DEF Contract!Next, Contract!Settle, Contract!Records, Records
  <2>2. CASE committed' # committed
    <3>1. settled' = settled
      BY <2>2, SettlesOrCommits
    <3>2. ASSUME NEW p \in Partitions
          PROVE  /\ committed[p] =< committed'[p]
                 /\ \A o \in committed[p] .. committed'[p] - 1 : <<p, o>> \in settled
      <4>1. committed[p] =< committed'[p]
        BY CommitsForward
      <4>2. CASE committed'[p] = committed[p]
        BY <4>1, <4>2, ConsumerAssumption DEF TypeInv, TypeOK
      <4>3. CASE committed'[p] # committed[p]
        <5>1. \A o \in 0 .. committed'[p] - 1 : <<p, o>> \in settled
          BY <4>3, CommittedFollows DEF SettledInv
        <5>2. committed[p] \in Nat
          BY ConsumerAssumption DEF TypeInv, TypeOK
        <5> QED
          BY <4>1, <5>1, <5>2
      <4> QED
        BY <4>2, <4>3, <4>1
    <3>3. committed' \in [Partitions -> 0 .. LogEnd]
      BY DEF TypeOK
    <3> QED
      BY <3>1, <3>2, <3>3 DEF Contract!Next, Contract!Advance
  <2> QED
    BY <2>1, <2>2
<1>3. TypeInv => TypeOK
  BY DEF TypeInv
<1> QED
  BY TypeInit, AccountInit, AheadInit, SettledInit, TypeStep, AccountStep, AheadStep,
     SettledStep, <1>1, <1>2, <1>3, PTL DEF Spec, AtLeastOnceSafety, Contract!Spec

=============================================================================
