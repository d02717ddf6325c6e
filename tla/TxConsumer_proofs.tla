-------------------------- MODULE TxConsumer_proofs --------------------------
(***************************************************************************)
(* TxConsumer implements SagaLedger, and its database transactions never   *)
(* wait for each other in a circle, for every topic, any number of clients *)
(* and any faults and redeliveries.                                        *)
(***************************************************************************)
EXTENDS TxConsumer, CommitRun_proofs, FiniteSetTheorems, TLAPS

Statements == {"aggregate", "log", "count", "mark"}

Places == {"idle", "begun", "compensated", "aggregate", "alarm", "log", "count", "counting",
           "mark", "commit"}

Typed ==
    /\ topic \in Topics
    /\ pc \in [Workers -> Places]
    /\ at \in [Workers -> {NoRecord} \cup Records]
    /\ wrote \in [Workers -> SUBSET Statements]
    /\ updated \in [Workers -> Int]
    /\ aggregates \in [Aggregates -> Int]

\* The transaction of w marks its command without executing it.
Ignorable(w) == ~Compensating(Command(w)) /\ Compensated(processed, Command(w).of)

\* What an open transaction wrote follows from where its worker is.
WroteInOrder(w) ==
    /\ pc[w] \in {"idle", "begun", "compensated", "aggregate"} => wrote[w] = {}
    /\ pc[w] \in {"alarm", "log"} => wrote[w] = {"aggregate"}
    /\ pc[w] \in {"count", "counting"} => wrote[w] = {"aggregate", "log"}
    /\ pc[w] = "mark" => \/ wrote[w] = {"aggregate", "log", "count"}
                         \/ wrote[w] = {} /\ Ignorable(w)
    /\ pc[w] = "commit" => \/ wrote[w] = {} \/ wrote[w] = Statements
                           \/ wrote[w] = {"mark"} /\ Ignorable(w)

\* What the transaction of w will commit fits the committed rows, which its locks keep.
FitsTables(w) ==
    /\ "aggregate" \in wrote[w] =>
          updated[w] = aggregates[Command(w).aggregate] + Ledger!Delta(Command(w))
    /\ "mark" \in wrote[w] => ~Handled(processed, Command(w).id)

WorkerInv(w) ==
    /\ pc[w] # "idle" => at[w] \in Records
    /\ pc[w] \notin {"idle", "begun"} => ~IsPoison(Command(w))
    /\ pc[w] = "compensated" => ~Compensating(Command(w))
    /\ WroteInOrder(w) /\ FitsTables(w)

\* Two open transactions hold neither the same row nor the same key.
Exclusive(v, w) ==
    /\ "aggregate" \in wrote[w] => ~HoldsRow(v, Command(w).aggregate)
    /\ "mark" \in wrote[w] => ~HoldsKey(v, Command(w), "mark")

LocksInv ==
    /\ Typed
    /\ \A w \in Workers : WorkerInv(w)
    /\ \A v, w \in Workers : v # w => Exclusive(v, w)

-----------------------------------------------------------------------------
\* A record in hand that is no poison is a command that the assumptions speak of.
LEMMA CommandKnown ==
    ASSUME Typed, NEW w \in Workers, at[w] \in Records, ~IsPoison(Command(w))
    PROVE  /\ Command(w) \in Commands
           /\ Command(w).aggregate \in Aggregates /\ Ledger!Delta(Command(w)) \in Int
           /\ ~Compensating(Command(w)) => Command(w).kind = "register"
<1>1. PICK p \in Partitions : at[w] \in {p} \X (1 .. Len(topic[p]))
  BY DEF Records
<1>2. at[w][1] = p /\ at[w][2] \in 1 .. Len(topic[p])
  BY <1>1
<1>3. Command(w) \in {topic[p][n] : n \in 1 .. Len(topic[p])}
  BY <1>2 DEF Command
<1>4. Command(w) \in Commands
  BY <1>3 DEF Commands, Entries, Typed, Command
<1> QED
  BY <1>4, TxConsumerAssumption DEF Ledger!Delta, Compensating

\* The order of the statements.
LEMMA StatementOrder ==
    ASSUME NEW w \in Workers
    PROVE  /\ First(w) = "aggregate" /\ After(w, "aggregate") = "log"
           /\ After(w, "log") = "count" /\ After(w, "count") = "mark"
<1> DEFINE order == <<"aggregate", "log", "count", "mark">>
<1>1. StatementsOf(Command(w)) = order
  BY DEF StatementsOf
<1>2. /\ \A n \in 1 .. 3 : order[n] = "aggregate" <=> n = 1
      /\ \A n \in 1 .. 3 : order[n] = "log" <=> n = 2
      /\ \A n \in 1 .. 3 : order[n] = "count" <=> n = 3
  OBVIOUS
<1>3. /\ (CHOOSE n \in 1 .. 3 : order[n] = "aggregate") = 1
      /\ (CHOOSE n \in 1 .. 3 : order[n] = "log") = 2
      /\ (CHOOSE n \in 1 .. 3 : order[n] = "count") = 3
  BY <1>2
<1> QED
  BY <1>1, <1>3 DEF First, After

\* A worker that takes no part in a step keeps its invariants, if the rows and keys it
\* holds stay as they are.
LEMMA BystandersKeep ==
    ASSUME LocksInv, UNCHANGED topic, NEW v \in Workers,
           pc'[v] = pc[v], at'[v] = at[v], wrote'[v] = wrote[v], updated'[v] = updated[v],
           \A id : Compensated(processed, id) => Compensated(processed', id),
           "aggregate" \in wrote[v] =>
               aggregates'[Command(v).aggregate] = aggregates[Command(v).aggregate],
           "mark" \in wrote[v] => ~Handled(processed', Command(v).id)
    PROVE  WorkerInv(v)'
<1>1. Command(v)' = Command(v) /\ Records' = Records
  BY DEF Command, Records
<1>2. WroteInOrder(v)'
  BY <1>1 DEF LocksInv, WorkerInv, WroteInOrder, Ignorable
<1>3. FitsTables(v)'
  BY <1>1 DEF LocksInv, WorkerInv, FitsTables
<1> QED
  BY <1>1, <1>2, <1>3 DEF LocksInv, WorkerInv

Bystanders(w) ==
    \A v \in Workers \ {w} :
        pc'[v] = pc[v] /\ at'[v] = at[v] /\ wrote'[v] = wrote[v] /\ updated'[v] = updated[v]

\* The end of an attempt that commits nothing.
LEMMA EndKeepsLocks ==
    ASSUME LocksInv, NEW w \in Workers, EndAttempt(w), KeepAttempt(w),
           UNCHANGED <<topic, processed, aggregates>>
    PROVE  LocksInv'
<1>1. pc'[w] = "idle" /\ wrote'[w] = {} /\ Bystanders(w)
  BY DEF EndAttempt, Goto, KeepAttempt, Bystanders, LocksInv, Typed
<1>2. updated' = [updated EXCEPT ![w] = 0] /\ Records' = Records
  BY <1>1 DEF KeepAttempt, Records
<1>3. Typed'
  BY <1>2 DEF EndAttempt, Goto, LocksInv, Typed, Places
<1>4. ASSUME NEW v \in Workers PROVE WorkerInv(v)'
  <2>1. CASE v = w
    <3>1. pc'[v] = "idle" /\ wrote'[v] = {}
      BY <1>1, <2>1
    <3> QED
      BY <3>1 DEF WorkerInv, WroteInOrder, FitsTables
  <2>2. CASE v # w
    BY <1>1, <2>2, BystandersKeep DEF Bystanders, LocksInv, WorkerInv, FitsTables
  <2> QED
    BY <2>1, <2>2
<1>5. \A v \in Workers \ {w} : Command(v)' = Command(v)
  BY <1>1 DEF Bystanders, Command
<1>6. ASSUME NEW u \in Workers, NEW v \in Workers, u # v PROVE Exclusive(u, v)'
  <2>1. CASE u = w \/ v = w
    BY <1>1, <2>1 DEF Exclusive, HoldsRow, HoldsKey
  <2>2. CASE u # w /\ v # w
    BY <1>1, <1>5, <1>6, <2>2 DEF Bystanders, LocksInv, Exclusive, HoldsRow, HoldsKey
  <2> QED
    BY <2>1, <2>2
<1> QED
  BY <1>3, <1>4, <1>6 DEF LocksInv

\* A step within an attempt: what it newly wrote must be free.
LEMMA MoveKeepsLocks ==
    ASSUME LocksInv, NEW w \in Workers, NEW place \in Places, NEW wrote1 \in SUBSET Statements,
           pc[w] # "idle", place # "idle", Goto(w, place),
           wrote' = [wrote EXCEPT ![w] = wrote1],
           UNCHANGED <<topic, at, processed, aggregates>>,
           updated' \in [Workers -> Int], \A v \in Workers \ {w} : updated'[v] = updated[v],
           WorkerInv(w)',
           \A v \in Workers \ {w} :
               /\ "aggregate" \in wrote1 \ wrote[w] => ~HoldsRow(v, Command(w).aggregate)
               /\ "mark" \in wrote1 \ wrote[w] => ~HoldsKey(v, Command(w), "mark")
    PROVE  LocksInv'
<1>1. wrote'[w] = wrote1 /\ Bystanders(w) /\ at'[w] = at[w]
  BY DEF Goto, Bystanders, LocksInv, Typed
<1>2. Typed'
  BY DEF Goto, LocksInv, Typed, Records
<1>3. ASSUME NEW v \in Workers PROVE WorkerInv(v)'
  BY <1>1, BystandersKeep DEF Bystanders, LocksInv, WorkerInv, FitsTables
<1>4. \A v \in Workers : Command(v)' = Command(v)
  BY DEF Command
<1>5. ASSUME NEW u \in Workers, NEW v \in Workers, u # v PROVE Exclusive(u, v)'
  <2>1. CASE u # w /\ v # w
    BY <1>1, <1>4, <1>5, <2>1 DEF Bystanders, LocksInv, Exclusive, HoldsRow, HoldsKey
  <2>2. CASE v = w
    BY <1>1, <1>4, <1>5, <2>2 DEF Bystanders, LocksInv, Exclusive, HoldsRow, HoldsKey
  <2>3. CASE u = w
    BY <1>1, <1>4, <1>5, <2>3 DEF Bystanders, LocksInv, Exclusive, HoldsRow, HoldsKey
  <2> QED
    BY <2>1, <2>2, <2>3
<1> QED
  BY <1>2, <1>3, <1>5 DEF LocksInv

-----------------------------------------------------------------------------
(* The steps that commit nothing.                                          *)

LEMMA BeginKeepsLocks ==
    ASSUME LocksInv, NEW w \in Workers, NEW r \in Records, Begin(w, r)
    PROVE  LocksInv'
<1>1. /\ pc[w] = "idle" /\ pc' = [pc EXCEPT ![w] = "begun"] /\ at' = [at EXCEPT ![w] = r]
      /\ UNCHANGED <<topic, processed, wrote>>
  BY DEF Begin, BeginRecord, Goto
<1>2. pc'[w] = "begun" /\ at'[w] = r /\ wrote[w] = {}
  BY <1>1 DEF LocksInv, Typed, WorkerInv, WroteInOrder
<1>3. UNCHANGED <<updated, aggregates>> /\ Records' = Records
  BY <1>1, <1>2 DEF Begin, NothingElse, KeepAttempt, attemptVars, tableVars, Records
<1>4. Typed'
  BY <1>1, <1>3 DEF LocksInv, Typed, Places
<1>5. Bystanders(w)
  BY <1>1, <1>3 DEF Bystanders, LocksInv, Typed
<1>6. ASSUME NEW v \in Workers PROVE WorkerInv(v)'
  <2>1. CASE v = w
    BY <1>1, <1>2, <1>3, <2>1 DEF WorkerInv, WroteInOrder, FitsTables
  <2>2. CASE v # w
    BY <1>1, <1>3, <1>5, <2>2, BystandersKeep DEF Bystanders, LocksInv, WorkerInv, FitsTables
  <2> QED
    BY <2>1, <2>2
<1>7. \A v \in Workers \ {w} : Command(v)' = Command(v)
  BY <1>1, <1>5 DEF Bystanders, Command
<1>8. ASSUME NEW u \in Workers, NEW v \in Workers, u # v PROVE Exclusive(u, v)'
  <2>1. CASE u = w \/ v = w
    BY <1>1, <1>2, <2>1 DEF Exclusive, HoldsRow, HoldsKey
  <2>2. CASE u # w /\ v # w
    BY <1>1, <1>7, <1>8, <2>2 DEF LocksInv, Exclusive, HoldsRow, HoldsKey
  <2> QED
    BY <2>1, <2>2
<1> QED
  BY <1>4, <1>6, <1>8 DEF LocksInv

LEMMA CheckHandledKeepsLocks ==
    ASSUME LocksInv, NEW w \in Workers, CheckHandled(w)
    PROVE  LocksInv'
<1> DEFINE place == IF Handled(processed, Command(w).id) THEN "commit"
                    ELSE IF Compensating(Command(w)) THEN First(w) ELSE "compensated"
<1>1. /\ pc[w] = "begun" /\ ~IsPoison(Command(w)) /\ Goto(w, place)
      /\ UNCHANGED <<topic, at, wrote, processed>>
  BY DEF CheckHandled, CheckHandledThen, deliveryVars
<1>2. place \in {"commit", "aggregate", "compensated"}
  BY StatementOrder
<1>3. place = "compensated" => ~Compensating(Command(w))
  BY StatementOrder
<1> HIDE DEF place
<1>4. pc'[w] = place
  BY <1>1 DEF Goto, LocksInv, Typed
<1>5. UNCHANGED <<updated, aggregates>>
  BY <1>2, <1>4 DEF CheckHandled, NothingElse, KeepAttempt, attemptVars, tableVars
<1>6. wrote[w] = {} /\ at[w] \in Records /\ wrote[w] \in SUBSET Statements
  BY <1>1 DEF LocksInv, WorkerInv, WroteInOrder, Typed
<1>7. WorkerInv(w)'
  BY <1>1, <1>2, <1>3, <1>4, <1>6 DEF WorkerInv, WroteInOrder, FitsTables, Command, Records
<1>8. wrote' = [wrote EXCEPT ![w] = wrote[w]]
  BY <1>1 DEF LocksInv, Typed
<1> QED
  BY <1>1, <1>2, <1>5, <1>6, <1>7, <1>8, MoveKeepsLocks DEF Places, LocksInv, Typed

LEMMA CheckCompensatedKeepsLocks ==
    ASSUME LocksInv, NEW w \in Workers, CheckCompensated(w)
    PROVE  LocksInv'
<1> DEFINE place == IF Compensated(processed, Command(w).of) THEN "mark" ELSE First(w)
<1>1. /\ pc[w] = "compensated" /\ Goto(w, place) /\ UNCHANGED <<topic, at, wrote, processed>>
  BY DEF CheckCompensated, CheckCompensatedThen, deliveryVars
<1>2. place \in {"mark", "aggregate"}
  BY StatementOrder
<1>3. place = "mark" => Compensated(processed, Command(w).of)
  BY StatementOrder
<1> HIDE DEF place
<1>4. pc'[w] = place
  BY <1>1 DEF Goto, LocksInv, Typed
<1>5. UNCHANGED <<updated, aggregates>>
  BY <1>2, <1>4 DEF CheckCompensated, NothingElse, KeepAttempt, attemptVars, tableVars
<1>6. /\ wrote[w] = {} /\ at[w] \in Records /\ wrote[w] \in SUBSET Statements
      /\ ~IsPoison(Command(w)) /\ ~Compensating(Command(w))
  BY <1>1 DEF LocksInv, WorkerInv, WroteInOrder, Typed
<1>7. Command(w)' = Command(w)
  BY <1>1 DEF Command
<1>8. WorkerInv(w)'
  BY <1>1, <1>2, <1>3, <1>4, <1>6, <1>7 DEF WorkerInv, WroteInOrder, FitsTables, Ignorable, Records
<1>9. wrote' = [wrote EXCEPT ![w] = wrote[w]]
  BY <1>1 DEF LocksInv, Typed
<1> QED
  BY <1>1, <1>2, <1>5, <1>6, <1>8, <1>9, MoveKeepsLocks DEF Places, LocksInv, Typed

\* The update waits for the transaction that holds the row.
LEMMA ShiftAggregateKeepsLocks ==
    ASSUME LocksInv, NEW w \in Workers, ShiftAggregate(w)
    PROVE  LocksInv'
<1> DEFINE value == aggregates[Command(w).aggregate] + Ledger!Delta(Command(w))
           place == IF CrossingOf(w, value) = "none" THEN After(w, "aggregate") ELSE "alarm"
<1>1. /\ pc[w] = "aggregate" /\ updated' = [updated EXCEPT ![w] = value]
      /\ wrote' = [wrote EXCEPT ![w] = @ \cup {"aggregate"}] /\ Goto(w, place)
      /\ UNCHANGED <<topic, at, processed, aggregates>>
      /\ \A v \in Workers \ {w} : ~HoldsRow(v, Command(w).aggregate)
  BY DEF ShiftAggregate, Execute, deliveryVars, tableVars
<1>2. place \in {"log", "alarm"}
  BY StatementOrder
<1>3. /\ wrote[w] = {} /\ at[w] \in Records /\ ~IsPoison(Command(w))
  BY <1>1 DEF LocksInv, WorkerInv, WroteInOrder
<1>4. value \in Int
  BY <1>3, CommandKnown DEF LocksInv, Typed
<1> HIDE DEF place
<1>5. Command(w)' = Command(w)
  BY <1>1 DEF Command
<1>6. /\ pc'[w] = place /\ wrote'[w] = {"aggregate"} /\ updated'[w] = value
      /\ wrote' = [wrote EXCEPT ![w] = {"aggregate"}]
  BY <1>1, <1>3 DEF Goto, LocksInv, Typed
<1>7. value' = value
  BY <1>1, <1>5 DEF Ledger!Delta
<1>8. FitsTables(w)'
  BY <1>5, <1>6, <1>7 DEF FitsTables
<1>9. WorkerInv(w)'
  BY <1>1, <1>2, <1>3, <1>5, <1>6, <1>8 DEF WorkerInv, WroteInOrder, Records
<1>10. /\ updated' \in [Workers -> Int]
       /\ \A v \in Workers \ {w} : updated'[v] = updated[v]
  BY <1>1, <1>4 DEF LocksInv, Typed
<1> HIDE DEF value
<1> QED
  BY <1>1, <1>2, <1>6, <1>9, <1>10, MoveKeepsLocks DEF Places, Statements

LEMMA ProduceAlarmKeepsLocks ==
    ASSUME LocksInv, NEW w \in Workers, ProduceAlarm(w)
    PROVE  LocksInv'
<1>1. /\ pc[w] = "alarm" /\ Goto(w, "log")
      /\ UNCHANGED <<topic, at, wrote, processed, updated, aggregates>>
  BY StatementOrder DEF ProduceAlarm, deliveryVars, tableVars
<1>2. /\ wrote[w] = {"aggregate"} /\ at[w] \in Records /\ ~IsPoison(Command(w))
  BY <1>1 DEF LocksInv, WorkerInv, WroteInOrder
<1>3. pc'[w] = "log" /\ wrote' = [wrote EXCEPT ![w] = wrote[w]]
  BY <1>1 DEF Goto, LocksInv, Typed
<1>4. Command(w)' = Command(w)
  BY <1>1 DEF Command
<1>5. WorkerInv(w)'
  BY <1>1, <1>2, <1>3, <1>4 DEF LocksInv, WorkerInv, WroteInOrder, FitsTables, Records
<1> QED
  BY <1>1, <1>2, <1>3, <1>5, MoveKeepsLocks DEF Places, Statements, LocksInv, Typed

\* A statement that only adds itself to what its transaction wrote.
LEMMA ExecuteKeepsLocks ==
    ASSUME LocksInv, NEW w \in Workers, NEW statement \in {"log", "count"},
           NEW place \in Places, pc[w] # "idle", place # "idle",
           ~IsPoison(Command(w)), place # "compensated",
           Execute(w, statement, place), UNCHANGED <<updated, aggregates>>,
           WroteInOrder(w)'
    PROVE  LocksInv'
<1>1. /\ Goto(w, place) /\ wrote' = [wrote EXCEPT ![w] = wrote[w] \cup {statement}]
      /\ UNCHANGED <<topic, at, processed>>
  BY DEF Execute, deliveryVars
<1>2. pc'[w] = place /\ wrote'[w] = wrote[w] \cup {statement} /\ at[w] \in Records
  BY <1>1 DEF Goto, LocksInv, Typed, WorkerInv
<1>3. Command(w)' = Command(w)
  BY <1>1 DEF Command
<1>4. FitsTables(w)'
  BY <1>1, <1>2, <1>3 DEF LocksInv, WorkerInv, FitsTables
<1>5. WorkerInv(w)'
  BY <1>1, <1>2, <1>3, <1>4 DEF WorkerInv, Records
<1>6. wrote[w] \cup {statement} \in SUBSET Statements
  BY DEF Statements, LocksInv, Typed
<1> QED
  BY <1>1, <1>5, <1>6, MoveKeepsLocks DEF LocksInv, Typed

LEMMA InsertLogKeepsLocks ==
    ASSUME LocksInv, NEW w \in Workers, InsertLog(w)
    PROVE  LocksInv'
<1>1. /\ pc[w] = "log" /\ KeepAttempt(w) /\ UNCHANGED aggregates
      /\ \/ EndAttempt(w) /\ UNCHANGED <<topic, processed>>
         \/ Execute(w, "log", "count")
  BY StatementOrder DEF InsertLog, Insert, NothingElse, tableVars
<1>2. CASE EndAttempt(w) /\ UNCHANGED <<topic, processed>>
  BY <1>1, <1>2, EndKeepsLocks
<1>3. CASE Execute(w, "log", "count")
  <2>1. pc'[w] = "count" /\ wrote'[w] = {"aggregate", "log"}
    BY <1>1, <1>3 DEF Execute, Goto, LocksInv, Typed, WorkerInv, WroteInOrder
  <2>2. UNCHANGED updated /\ ~IsPoison(Command(w))
    BY <1>1, <2>1 DEF KeepAttempt, attemptVars, LocksInv, WorkerInv
  <2>3. WroteInOrder(w)'
    BY <2>1 DEF WroteInOrder
  <2> QED
    BY <1>1, <1>3, <2>2, <2>3, ExecuteKeepsLocks DEF Places
<1> QED
  BY <1>1, <1>2, <1>3

LEMMA UpdateCountsKeepsLocks ==
    ASSUME LocksInv, NEW w \in Workers, UpdateCounts(w)
    PROVE  LocksInv'
<1>1. /\ pc[w] = "count" /\ UNCHANGED <<updated, aggregates>>
      /\ \/ Execute(w, "count", "mark")
         \/ Goto(w, "counting") /\ UNCHANGED <<topic, at, wrote, processed>>
  BY StatementOrder DEF UpdateCounts, tableVars, deliveryVars
<1>2. /\ wrote[w] = {"aggregate", "log"} /\ at[w] \in Records /\ ~IsPoison(Command(w))
  BY <1>1 DEF LocksInv, WorkerInv, WroteInOrder
<1>3. CASE Execute(w, "count", "mark")
  <2>1. pc'[w] = "mark" /\ wrote'[w] = {"aggregate", "log", "count"}
    BY <1>2, <1>3 DEF Execute, Goto, LocksInv, Typed
  <2>2. WroteInOrder(w)'
    BY <2>1 DEF WroteInOrder
  <2> QED
    BY <1>1, <1>2, <1>3, <2>2, ExecuteKeepsLocks DEF Places
<1>4. CASE Goto(w, "counting") /\ UNCHANGED <<topic, at, wrote, processed>>
  <2>1. pc'[w] = "counting" /\ wrote' = [wrote EXCEPT ![w] = wrote[w]]
    BY <1>4 DEF Goto, LocksInv, Typed
  <2>2. Command(w)' = Command(w)
    BY <1>4 DEF Command
  <2>3. WorkerInv(w)'
    BY <1>1, <1>2, <1>4, <2>1, <2>2 DEF LocksInv, WorkerInv, WroteInOrder, FitsTables, Records
  <2> QED
    BY <1>1, <1>2, <1>4, <2>1, <2>3, MoveKeepsLocks DEF Places, Statements, LocksInv, Typed
<1> QED
  BY <1>1, <1>3, <1>4

LEMMA LockCountsKeepsLocks ==
    ASSUME LocksInv, NEW w \in Workers, LockCounts(w)
    PROVE  LocksInv'
<1>1. /\ pc[w] = "counting" /\ KeepAttempt(w) /\ UNCHANGED aggregates
      /\ Execute(w, "count", "mark")
  BY StatementOrder DEF LockCounts, NothingElse, tableVars
<1>2. /\ wrote[w] = {"aggregate", "log"} /\ ~IsPoison(Command(w))
  BY <1>1 DEF LocksInv, WorkerInv, WroteInOrder
<1>3. pc'[w] = "mark" /\ wrote'[w] = {"aggregate", "log", "count"}
  BY <1>1, <1>2 DEF Execute, Goto, LocksInv, Typed
<1>4. UNCHANGED updated
  BY <1>1, <1>3 DEF KeepAttempt, attemptVars
<1>5. WroteInOrder(w)'
  BY <1>3 DEF WroteInOrder
<1> QED
  BY <1>1, <1>2, <1>4, <1>5, ExecuteKeepsLocks DEF Places

\* The insertion waits for the transaction that holds the key.
LEMMA MarkKeepsLocks ==
    ASSUME LocksInv, NEW w \in Workers, Mark(w)
    PROVE  LocksInv'
<1>1. /\ pc[w] = "mark" /\ KeepAttempt(w) /\ UNCHANGED aggregates
      /\ \A v \in Workers \ {w} : ~HoldsKey(v, Command(w), "mark")
      /\ \/ EndAttempt(w) /\ UNCHANGED <<topic, processed>>
         \/ Execute(w, "mark", "commit") /\ ~Handled(processed, Command(w).id)
  BY DEF Mark, MarkHandled, Insert, NothingElse, tableVars
<1>2. CASE EndAttempt(w) /\ UNCHANGED <<topic, processed>>
  BY <1>1, <1>2, EndKeepsLocks
<1>3. CASE Execute(w, "mark", "commit") /\ ~Handled(processed, Command(w).id)
  <2>1. /\ Goto(w, "commit") /\ wrote' = [wrote EXCEPT ![w] = wrote[w] \cup {"mark"}]
        /\ UNCHANGED <<topic, at, processed>>
    BY <1>3 DEF Execute, deliveryVars
  <2>2. pc'[w] = "commit" /\ wrote'[w] = wrote[w] \cup {"mark"}
    BY <2>1 DEF Goto, LocksInv, Typed
  <2>3. UNCHANGED updated /\ ~IsPoison(Command(w)) /\ at[w] \in Records
    BY <1>1, <2>2 DEF KeepAttempt, attemptVars, LocksInv, WorkerInv
  <2>4. Command(w)' = Command(w)
    BY <2>1 DEF Command
  <2>5. WroteInOrder(w)'
    <3>1. \/ wrote[w] = {"aggregate", "log", "count"}
          \/ wrote[w] = {} /\ Ignorable(w)
      BY <1>1 DEF LocksInv, WorkerInv, WroteInOrder
    <3>2. \/ wrote'[w] = Statements
          \/ wrote'[w] = {"mark"} /\ Ignorable(w)
      BY <2>2, <3>1 DEF Statements
    <3> QED
      BY <2>1, <2>2, <2>4, <3>2 DEF WroteInOrder, Ignorable
  <2>6. FitsTables(w)'
    BY <1>1, <1>3, <2>1, <2>2, <2>3, <2>4 DEF LocksInv, WorkerInv, FitsTables
  <2>7. WorkerInv(w)'
    BY <2>1, <2>2, <2>3, <2>4, <2>5, <2>6 DEF WorkerInv, Records
  <2>8. wrote[w] \cup {"mark"} \in SUBSET Statements
    BY DEF Statements, LocksInv, Typed
  <2> QED
    BY <1>1, <2>1, <2>3, <2>7, <2>8, MoveKeepsLocks DEF Places, LocksInv, Typed
<1> QED
  BY <1>1, <1>2, <1>3

-----------------------------------------------------------------------------
(* Commits.                                                                *)

\* WithTx commits, whether its client is told or not.
Commits(w) ==
    /\ pc[w] = "commit" /\ ApplyMark(w) /\ EndAttempt(w) /\ ApplyTables(w) /\ KeepAttempt(w)
    /\ UNCHANGED topic

LEMMA CommittedRows ==
    ASSUME LocksInv, NEW w \in Workers, Commits(w)
    PROVE  /\ processed' = IF "mark" \in wrote[w] THEN processed \cup {RowOf(Command(w))}
                           ELSE processed
           /\ aggregates' =
                 IF "aggregate" \in wrote[w]
                 THEN [aggregates EXCEPT ![Command(w).aggregate] =
                          @ + Ledger!Delta(Command(w))]
                 ELSE aggregates
<1>1. processed' = IF "mark" \in wrote[w] THEN processed \cup {RowOf(Command(w))} ELSE processed
  BY DEF Commits, ApplyMark
<1>2. aggregates' = IF "aggregate" \in wrote[w]
                    THEN [aggregates EXCEPT ![Command(w).aggregate] = updated[w]]
                    ELSE aggregates
  BY DEF Commits, ApplyTables
<1>3. CASE "aggregate" \in wrote[w]
  <2>1. updated[w] = aggregates[Command(w).aggregate] + Ledger!Delta(Command(w))
    BY <1>3 DEF LocksInv, WorkerInv, FitsTables
  <2> QED
    BY <1>1, <1>2, <1>3, <2>1
<1>4. CASE "aggregate" \notin wrote[w]
  BY <1>1, <1>2, <1>4
<1> QED
  BY <1>3, <1>4

\* The rows and keys of the other open transactions stay as they are.
LEMMA CommitKeepsLocks ==
    ASSUME LocksInv, NEW w \in Workers, Commits(w)
    PROVE  LocksInv'
<1>1. pc'[w] = "idle" /\ wrote'[w] = {} /\ Bystanders(w)
  BY DEF Commits, EndAttempt, Goto, KeepAttempt, Bystanders, LocksInv, Typed
<1>2. updated' = [updated EXCEPT ![w] = 0] /\ Records' = Records /\ UNCHANGED topic
  BY <1>1 DEF Commits, KeepAttempt, Records
<1>3. aggregates' \in [Aggregates -> Int]
  BY DEF Commits, ApplyTables, LocksInv, Typed
<1>4. Typed'
  BY <1>2, <1>3 DEF Commits, EndAttempt, Goto, LocksInv, Typed, Places
<1>5. \A v \in Workers \ {w} : Command(v)' = Command(v)
  BY <1>1, <1>2 DEF Bystanders, Command
<1>6. ASSUME NEW v \in Workers PROVE WorkerInv(v)'
  <2>1. CASE v = w
    <3>1. pc'[v] = "idle" /\ wrote'[v] = {}
      BY <1>1, <2>1
    <3> QED
      BY <3>1 DEF WorkerInv, WroteInOrder, FitsTables
  <2>2. CASE v # w
    <3>1. Exclusive(w, v)
      BY <2>2 DEF LocksInv
    <3>2. ASSUME NEW id, Compensated(processed, id) PROVE Compensated(processed', id)
      BY <3>2, CommittedRows DEF Compensated
    <3>3. ASSUME "aggregate" \in wrote[v]
          PROVE  aggregates'[Command(v).aggregate] = aggregates[Command(v).aggregate]
      <4>1. ~HoldsRow(w, Command(v).aggregate)
        BY <3>1, <3>3 DEF Exclusive
      <4>2. CASE "aggregate" \notin wrote[w]
        BY <4>2, CommittedRows
      <4>3. CASE Command(w).aggregate # Command(v).aggregate
        <5>1. at[v] \in Records /\ ~IsPoison(Command(v))
          BY <3>3 DEF LocksInv, WorkerInv, WroteInOrder
        <5>2. Command(v).aggregate \in Aggregates
          BY <5>1, CommandKnown DEF LocksInv
        <5> QED
          BY <4>3, <5>2, CommittedRows DEF LocksInv, Typed
      <4> QED
        BY <4>1, <4>2, <4>3 DEF HoldsRow
    <3>4. ASSUME "mark" \in wrote[v]
          PROVE  ~Handled(processed', Command(v).id)
      <4>1. ~Handled(processed, Command(v).id) /\ ~HoldsKey(w, Command(v), "mark")
        BY <3>1, <3>4 DEF Exclusive, LocksInv, WorkerInv, FitsTables
      <4>2. RowOf(Command(w)).id = Command(w).id
        BY DEF RowOf
      <4> QED
        BY <4>1, <4>2, CommittedRows DEF Handled, HoldsKey
    <3>5. /\ pc'[v] = pc[v] /\ at'[v] = at[v] /\ wrote'[v] = wrote[v]
          /\ updated'[v] = updated[v]
      BY <1>1, <2>2 DEF Bystanders
    <3> QED
      BY <1>2, <3>2, <3>3, <3>4, <3>5, BystandersKeep
  <2> QED
    BY <2>1, <2>2
<1>7. ASSUME NEW u \in Workers, NEW v \in Workers, u # v PROVE Exclusive(u, v)'
  <2>1. CASE u = w \/ v = w
    BY <1>1, <2>1 DEF Exclusive, HoldsRow, HoldsKey
  <2>2. CASE u # w /\ v # w
    BY <1>1, <1>5, <1>7, <2>2 DEF Bystanders, LocksInv, Exclusive, HoldsRow, HoldsKey
  <2> QED
    BY <2>1, <2>2
<1> QED
  BY <1>4, <1>6, <1>7 DEF LocksInv

\* The whole attempt at a record shows in the ledger as one step of its commit.
LEMMA CommitIsLedgerStep ==
    ASSUME LocksInv, NEW w \in Workers, Commits(w)
    PROVE  Ledger!Next \/ UNCHANGED Ledger!vars
<1>1. /\ at[w] \in Records /\ ~IsPoison(Command(w))
      /\ \/ wrote[w] = {} \/ wrote[w] = Statements
         \/ wrote[w] = {"mark"} /\ Ignorable(w)
  BY DEF Commits, LocksInv, WorkerInv, WroteInOrder
<1>2. Command(w) \in Commands
  BY <1>1, CommandKnown DEF LocksInv
<1>3. CASE wrote[w] = {}
  BY <1>3, CommittedRows DEF Ledger!vars
<1>4. CASE wrote[w] = Statements
  <2>1. ~Handled(processed, Command(w).id)
    BY <1>4 DEF LocksInv, WorkerInv, FitsTables, Statements
  <2>2. Ledger!Handle(Command(w))
    BY <1>4, <2>1, CommittedRows
    DEF Statements, Ledger!Handle, Ledger!Handled, Ledger!RowOf, Ledger!Compensating,
        Handled, RowOf, Compensating
  <2> QED
    BY <1>2, <2>2 DEF Ledger!Next
<1>5. CASE wrote[w] = {"mark"} /\ Ignorable(w)
  <2>1. ~Handled(processed, Command(w).id)
    BY <1>5 DEF LocksInv, WorkerInv, FitsTables
  <2>2. Command(w).kind = "register"
    BY <1>1, <1>5, CommandKnown DEF LocksInv, Ignorable
  <2>3. Ledger!Ignore(Command(w))
    BY <1>5, <2>1, <2>2, CommittedRows
    DEF Ledger!Ignore, Ledger!Handled, Ledger!RowOf, Ledger!Compensated, Ledger!Compensating,
        Ignorable, Handled, RowOf, Compensated, Compensating
  <2> QED
    BY <1>2, <2>3 DEF Ledger!Next
<1> QED
  BY <1>1, <1>3, <1>4, <1>5

-----------------------------------------------------------------------------
(* Every step, and the theorems.                                           *)

LEMMA InitLocks ==
    Init => LocksInv /\ Ledger!Init
<1> SUFFICES ASSUME Init
             PROVE  LocksInv /\ Ledger!Init
  OBVIOUS
<1>1. Typed
  BY DEF Init, HandlingInit, Typed, Places
<1>2. \A w \in Workers : pc[w] = "idle" /\ wrote[w] = {}
  BY DEF Init, HandlingInit
<1>3. \A w \in Workers : WorkerInv(w)
  BY <1>2 DEF WorkerInv, WroteInOrder, FitsTables
<1>4. \A v, w \in Workers : Exclusive(v, w)
  BY <1>2 DEF Exclusive
<1> QED
  BY <1>1, <1>3, <1>4 DEF LocksInv, Init, HandlingInit, Ledger!Init

LEMMA LocksStep ==
    ASSUME LocksInv, [Next]_vars
    PROVE  LocksInv' /\ (Ledger!Next \/ UNCHANGED Ledger!vars)
<1>1. CASE UNCHANGED vars
  <2>1. UNCHANGED <<topic, pc, at, wrote, processed, updated, aggregates>>
    BY <1>1 DEF vars, handlingVars, deliveryVars, attemptVars, tableVars
  <2>2. Records' = Records /\ \A w \in Workers : Command(w)' = Command(w)
    BY <2>1 DEF Records, Command
  <2> QED
    BY <2>1, <2>2 DEF LocksInv, Typed, WorkerInv, WroteInOrder, FitsTables, Exclusive, Ignorable,
                      HoldsRow, HoldsKey, Ledger!vars
<1>2. ASSUME NEW w \in Workers, NEW r \in Records, Begin(w, r)
      PROVE  LocksInv' /\ UNCHANGED Ledger!vars
  BY <1>2, BeginKeepsLocks DEF Begin, BeginRecord, NothingElse, tableVars, Ledger!vars
<1>3. ASSUME NEW w \in Workers
      PROVE  /\ RejectPoison(w) => LocksInv' /\ UNCHANGED Ledger!vars
             /\ FailStatement(w) => LocksInv' /\ UNCHANGED Ledger!vars
  <2>1. ASSUME RejectPoison(w) \/ FailStatement(w)
        PROVE  /\ EndAttempt(w) /\ KeepAttempt(w) /\ UNCHANGED <<topic, processed, aggregates>>
    BY <2>1 DEF RejectPoison, RejectRecord, FailStatement, RollBack, NothingElse, tableVars
  <2> QED
    BY <2>1, EndKeepsLocks DEF Ledger!vars
<1>4. ASSUME NEW w \in Workers, CheckHandled(w) \/ CheckCompensated(w) \/ ShiftAggregate(w)
      PROVE  LocksInv' /\ UNCHANGED Ledger!vars
  <2>1. LocksInv'
    BY <1>4, CheckHandledKeepsLocks, CheckCompensatedKeepsLocks, ShiftAggregateKeepsLocks
  <2>2. UNCHANGED <<processed, aggregates>>
    BY <1>4 DEF CheckHandled, CheckHandledThen, CheckCompensated, CheckCompensatedThen,
                ShiftAggregate, Execute, NothingElse, tableVars
  <2> QED
    BY <2>1, <2>2 DEF Ledger!vars
<1>5. ASSUME NEW w \in Workers, ProduceAlarm(w) \/ InsertLog(w) \/ Mark(w)
      PROVE  LocksInv' /\ UNCHANGED Ledger!vars
  <2>1. LocksInv'
    BY <1>5, ProduceAlarmKeepsLocks, InsertLogKeepsLocks, MarkKeepsLocks
  <2>2. UNCHANGED <<processed, aggregates>>
    BY <1>5 DEF ProduceAlarm, InsertLog, Mark, MarkHandled, Insert, Execute, NothingElse, tableVars
  <2> QED
    BY <2>1, <2>2 DEF Ledger!vars
<1>6. ASSUME NEW w \in Workers, UpdateCounts(w) \/ LockCounts(w)
      PROVE  LocksInv' /\ UNCHANGED Ledger!vars
  <2>1. LocksInv'
    BY <1>6, UpdateCountsKeepsLocks, LockCountsKeepsLocks
  <2>2. UNCHANGED <<processed, aggregates>>
    BY <1>6 DEF UpdateCounts, LockCounts, Execute, NothingElse, tableVars
  <2> QED
    BY <2>1, <2>2 DEF Ledger!vars
<1>7. ASSUME NEW w \in Workers, Commit(w) \/ CommitUnanswered(w)
      PROVE  LocksInv' /\ (Ledger!Next \/ UNCHANGED Ledger!vars)
  <2>1. Commits(w)
    BY <1>7 DEF Commit, CommitUnanswered, CommitTx, CommitTxUnanswered, Commits, deliveryVars
  <2> QED
    BY <2>1, CommitKeepsLocks, CommitIsLedgerStep
<1>8. CASE Idle
  BY <1>1, <1>8 DEF Idle
<1> QED
  BY <1>1, <1>2, <1>3, <1>4, <1>5, <1>6, <1>7, <1>8 DEF Next

\* However often and by however many clients the topic is consumed, and whatever fails: a
\* command is handled once, and what its handling changes is committed with its mark
\* (saga/consumer.go:37-68, postgres/transactions.go:12-35).
THEOREM LedgerIsKept ==
    Spec => LedgerSafety
<1>1. Spec => []LocksInv
  BY InitLocks, LocksStep, PTL DEF Spec
<1>2. LocksInv /\ [Next]_vars => [Ledger!Next]_(Ledger!vars)
  BY LocksStep
<1> QED
  BY <1>1, <1>2, InitLocks, PTL DEF Spec, LedgerSafety, Ledger!Spec

\* What a worker that another one waits for has reached: it is further in the common order.
LEMMA WaitsForFurther ==
    ASSUME LocksInv, NEW w \in Workers, NEW v \in Workers, WaitsFor(w, v)
    PROVE  /\ pc[w] \in {"aggregate", "log", "counting", "mark"}
           /\ pc[w] = "aggregate" => pc[v] # "aggregate"
           /\ pc[w] = "log" => pc[v] \notin {"aggregate", "log"}
           /\ pc[w] = "counting" => pc[v] \notin {"aggregate", "log", "counting"}
           /\ pc[w] = "mark" => pc[v] \notin {"aggregate", "log", "counting", "mark"}
<1>1. WroteInOrder(v)
  BY DEF LocksInv, WorkerInv
<1> QED
  BY <1>1 DEF WaitsFor, HoldsRow, HoldsKey, HoldsCounts, WroteInOrder

LEMMA NoCircle ==
    LocksInv => NoCircleOfWaits
<1> SUFFICES ASSUME LocksInv,
                    NEW S \in (SUBSET Workers) \ {{}},
                    \A w \in S : \E v \in S \ {w} : WaitsFor(w, v)
             PROVE  FALSE
  BY DEF NoCircleOfWaits
<1>1. \A w \in S : w \in Workers /\ \E v \in S : v \in Workers /\ WaitsFor(w, v)
  OBVIOUS
<1>2. \A w \in S : pc[w] \in {"aggregate", "log", "counting", "mark"}
  BY <1>1, WaitsForFurther
<1>3. \A w \in S : pc[w] # "mark"
  BY <1>1, <1>2, WaitsForFurther
<1>4. \A w \in S : pc[w] # "counting"
  BY <1>1, <1>2, <1>3, WaitsForFurther
<1>5. \A w \in S : pc[w] # "log"
  BY <1>1, <1>2, <1>3, <1>4, WaitsForFurther
<1>6. \A w \in S : pc[w] # "aggregate"
  BY <1>1, <1>2, <1>3, <1>4, <1>5, WaitsForFurther
<1>7. S # {}
  OBVIOUS
<1> QED
  BY <1>2, <1>3, <1>4, <1>5, <1>6, <1>7

\* Because both kinds of command take their locks in one order, no transactions of any
\* number of clients wait for each other in a circle (saga/consumer.go:61-65).
THEOREM NoCircleEver ==
    Spec => []NoCircleOfWaits
<1>1. Spec => []LocksInv
  BY InitLocks, LocksStep, PTL DEF Spec
<1> QED
  BY <1>1, NoCircle, PTL

-----------------------------------------------------------------------------
(* The steps, as the tables and the alarms topic see them.                 *)

Alarms == [kind : {"raise", "clear"}, aggregate : Aggregates]

TablesTyped ==
    /\ seen \in [Workers -> Nat] /\ alarm \in [Workers -> Nat]
    /\ IsFiniteSet(logs) /\ IsFiniteSet(compensatingLogs)
    /\ counts \in Seq(Int)
    /\ alarms \in Seq(Alarms) /\ told \subseteq 1 .. Len(alarms)

\* An alarm is due where it is published, and is in the topic once it is.
AlarmDue(w) ==
    /\ pc[w] = "alarm" => CrossingOf(w, updated[w]) # "none"
    /\ alarm[w] =< Len(alarms)

\* Nothing changes for another worker.
Apart(w) ==
    /\ Bystanders(w)
    /\ \A v \in Workers \ {w} : seen'[v] = seen[v] /\ alarm'[v] = alarm[v]

\* An attempt ends without a commit.
Ends(w) ==
    /\ EndAttempt(w) /\ KeepAttempt(w)
    /\ UNCHANGED <<topic, processed, tableVars, alarms>>

\* Once the update of counts is written, the rows that it found stay as they are.
SeesOnce(w) ==
    /\ pc'[w] = "counting" => seen'[w] # 0
    /\ "count" \in wrote[w] => seen'[w] = seen[w]
    /\ "count" \in wrote'[w] \ wrote[w] =>
          counts = <<>> \/ (pc[w] = "counting" /\ seen'[w] = seen[w])

\* An attempt begins or goes on, and changes no table yet.
Moves(w) ==
    /\ UNCHANGED <<topic, processed, tableVars>>
    /\ Apart(w)
    /\ pc'[w] # "idle"
    /\ wrote[w] \subseteq wrote'[w] /\ (wrote'[w] # {} => at'[w] = at[w])
    /\ "log" \in wrote'[w] \ wrote[w] =>
          ~LogKeyTaken(w) /\ \A v \in Workers \ {w} : ~HoldsKey(v, Command(w), "log")
    /\ seen' \in [Workers -> Nat] /\ seen'[w] \in {seen[w], Len(counts)}
    /\ SeesOnce(w)
    /\ \/ ShiftAggregate(w)
       \/ ProduceAlarm(w)
       \/ /\ UNCHANGED <<updated, alarm, alarms>> /\ "alarm" \notin {pc[w], pc'[w]}
          /\ "aggregate" \in wrote'[w] => "aggregate" \in wrote[w]

\* A step that ends no attempt counts the rows at most once.
LEMMA CountSeenOnce ==
    ASSUME LocksInv, TablesTyped, NEW w \in Workers,
           \/ CheckHandled(w) \/ CheckCompensated(w) \/ ShiftAggregate(w) \/ ProduceAlarm(w)
           \/ UpdateCounts(w) \/ LockCounts(w) \/ InsertLog(w) \/ Mark(w)
           \/ \E r \in Records : Begin(w, r),
           pc'[w] # "idle"
    PROVE  SeesOnce(w)
<1> USE DEF LocksInv, Typed, TablesTyped
<1>1. CASE UpdateCounts(w)
  <2>1. seen'[w] = Len(counts) /\ (counts # <<>> => Len(counts) # 0)
    BY <1>1 DEF UpdateCounts
  <2>2. pc[w] = "count" /\ "count" \notin wrote[w]
    BY <1>1 DEF UpdateCounts, WorkerInv, WroteInOrder
  <2>3. CASE counts = <<>>
    <3>1. pc' = [pc EXCEPT ![w] = After(w, "count")]
      BY <1>1, <2>3 DEF UpdateCounts, Execute, Goto
    <3>2. pc'[w] = "mark"
      BY <3>1, StatementOrder
    <3> QED
      BY <2>2, <2>3, <3>2 DEF SeesOnce
  <2>4. CASE counts # <<>>
    <3>1. wrote'[w] = wrote[w]
      BY <1>1, <2>4 DEF UpdateCounts
    <3>2. seen'[w] # 0
      BY <2>1, <2>4
    <3> QED
      BY <2>2, <3>1, <3>2 DEF SeesOnce
  <2> QED
    BY <2>3, <2>4
<1>2. CASE LockCounts(w)
  <2>1. pc[w] = "counting" /\ UNCHANGED seen /\ pc'[w] = "mark" /\ "count" \notin wrote[w]
    BY <1>2, StatementOrder
       DEF LockCounts, Execute, Goto, NothingElse, KeepAttempt, attemptVars, WorkerInv,
           WroteInOrder
  <2> QED
    BY <2>1 DEF SeesOnce
<1>3. CASE \/ CheckHandled(w) \/ CheckCompensated(w) \/ ShiftAggregate(w) \/ ProduceAlarm(w)
           \/ InsertLog(w) \/ Mark(w) \/ \E r \in Records : Begin(w, r)
  <2>1. UNCHANGED seen
    BY <1>3
       DEF CheckHandled, CheckCompensated, ShiftAggregate, ProduceAlarm, InsertLog, Mark, Begin,
           NothingElse, KeepAttempt, attemptVars
  <2>2. pc'[w] # "counting" /\ ("count" \in wrote'[w] => "count" \in wrote[w])
    <3>1. CASE CheckHandled(w) \/ CheckCompensated(w)
      BY <3>1, StatementOrder
         DEF CheckHandled, CheckHandledThen, CheckCompensated, CheckCompensatedThen, Goto
    <3>2. CASE ShiftAggregate(w) \/ ProduceAlarm(w)
      BY <3>2, StatementOrder DEF ShiftAggregate, ProduceAlarm, Execute, Goto
    <3>3. CASE InsertLog(w)
      BY <3>3, StatementOrder DEF InsertLog, Insert, Execute, Goto, EndAttempt
    <3>4. CASE Mark(w)
      BY <3>4 DEF Mark, MarkHandled, Insert, Execute, Goto, EndAttempt
    <3>5. CASE \E r \in Records : Begin(w, r)
      BY <3>5 DEF Begin, BeginRecord, Goto
    <3> QED
      BY <1>3, <3>1, <3>2, <3>3, <3>4, <3>5
  <2> QED
    BY <2>1, <2>2 DEF SeesOnce
<1> QED
  BY <1>1, <1>2, <1>3

LEMMA MoveShapes ==
    ASSUME LocksInv, TablesTyped, NEW w \in Workers,
           \/ CheckHandled(w) \/ CheckCompensated(w) \/ ShiftAggregate(w) \/ ProduceAlarm(w)
           \/ UpdateCounts(w) \/ LockCounts(w) \/ \E r \in Records : Begin(w, r)
    PROVE  Moves(w)
<1> USE DEF LocksInv, Typed, TablesTyped, Bystanders, Apart, Moves, WorkerInv, WroteInOrder
<1>0. Len(counts) \in Nat /\ (pc'[w] # "idle" => SeesOnce(w))
  BY CountSeenOnce
<1>1. CASE CheckHandled(w)
  BY <1>0, <1>1, StatementOrder
     DEF CheckHandled, CheckHandledThen, Goto, NothingElse, KeepAttempt, attemptVars, deliveryVars
<1>2. CASE CheckCompensated(w)
  BY <1>0, <1>2, StatementOrder
     DEF CheckCompensated, CheckCompensatedThen, Goto, NothingElse, KeepAttempt, attemptVars,
         deliveryVars
<1>3. CASE ShiftAggregate(w)
  <2>1. LET value == aggregates[Command(w).aggregate] + Ledger!Delta(Command(w))
        IN  /\ updated' = [updated EXCEPT ![w] = value]
            /\ pc' = [pc EXCEPT ![w] = IF CrossingOf(w, value) = "none" THEN "log" ELSE "alarm"]
    BY <1>3, StatementOrder DEF ShiftAggregate, Execute, Goto
  <2>2. pc'[w] # "idle" /\ Bystanders(w)
    BY <1>3, <2>1 DEF ShiftAggregate, Execute, deliveryVars
  <2> QED
    BY <1>0, <1>3, <2>2 DEF ShiftAggregate, Execute, deliveryVars
<1>4. CASE ProduceAlarm(w)
  BY <1>0, <1>4, StatementOrder DEF ProduceAlarm, Goto, deliveryVars
<1>5. CASE UpdateCounts(w)
  <2>1. seen' = [seen EXCEPT ![w] = Len(counts)] /\ seen' \in [Workers -> Nat]
    BY <1>0, <1>5 DEF UpdateCounts
  <2> QED
    BY <1>0, <1>5, <2>1, StatementOrder DEF UpdateCounts, Execute, Goto, deliveryVars
<1>6. CASE LockCounts(w)
  BY <1>0, <1>6, StatementOrder
     DEF LockCounts, Execute, Goto, NothingElse, KeepAttempt, attemptVars, deliveryVars
<1>7. CASE \E r \in Records : Begin(w, r)
  BY <1>0, <1>7 DEF Begin, BeginRecord, Goto, NothingElse, KeepAttempt, attemptVars
<1> QED
  BY <1>1, <1>2, <1>3, <1>4, <1>5, <1>6, <1>7

\* The insertions go on, or end the attempt because the key is taken.
LEMMA InsertShapes ==
    ASSUME LocksInv, TablesTyped, NEW w \in Workers, InsertLog(w) \/ Mark(w)
    PROVE  Moves(w) \/ Ends(w)
<1> USE DEF LocksInv, Typed, TablesTyped, Bystanders, Apart, Moves, Ends, WorkerInv, WroteInOrder
<1>0. pc'[w] # "idle" => SeesOnce(w)
  BY CountSeenOnce
<1>1. CASE InsertLog(w)
  <2>1. CASE LogKeyTaken(w)
    BY <1>1, <2>1 DEF InsertLog, Insert, NothingElse
  <2>2. CASE ~LogKeyTaken(w)
    BY <1>0, <1>1, <2>2, StatementOrder
       DEF InsertLog, Insert, Execute, Goto, NothingElse, KeepAttempt, attemptVars, deliveryVars
  <2> QED
    BY <2>1, <2>2
<1>2. CASE Mark(w)
  <2>1. CASE Handled(processed, Command(w).id)
    BY <1>2, <2>1 DEF Mark, MarkHandled, Insert, NothingElse
  <2>2. CASE ~Handled(processed, Command(w).id)
    BY <1>0, <1>2, <2>2
       DEF Mark, MarkHandled, Insert, Execute, Goto, NothingElse, KeepAttempt, attemptVars,
           deliveryVars
  <2> QED
    BY <2>1, <2>2
<1> QED
  BY <1>1, <1>2

LEMMA StepShapes ==
    ASSUME LocksInv, TablesTyped, [Next]_vars
    PROVE  \/ UNCHANGED vars
           \/ \E w \in Workers : Moves(w) \/ Ends(w) \/ (Commits(w) /\ UNCHANGED alarms)
<1>1. ASSUME NEW w \in Workers, RejectPoison(w) \/ FailStatement(w)
      PROVE  Ends(w)
  BY <1>1 DEF RejectPoison, RejectRecord, FailStatement, RollBack, NothingElse, Ends
<1>2. ASSUME NEW w \in Workers, Commit(w) \/ CommitUnanswered(w)
      PROVE  Commits(w) /\ UNCHANGED alarms
  BY <1>2 DEF Commit, CommitUnanswered, CommitTx, CommitTxUnanswered, Commits, deliveryVars
<1>3. Idle => UNCHANGED vars
  BY DEF Idle
<1> QED
  BY <1>1, <1>2, <1>3, MoveShapes, InsertShapes DEF Next

LEMMA AttemptEnds ==
    ASSUME LocksInv, TablesTyped, NEW w \in Workers, EndAttempt(w), KeepAttempt(w)
    PROVE  /\ Apart(w) /\ pc'[w] = "idle" /\ wrote'[w] = {}
           /\ seen'[w] = 0 /\ alarm'[w] = 0
           /\ seen' \in [Workers -> Nat] /\ alarm' \in [Workers -> Nat]
<1>1. /\ pc' = [pc EXCEPT ![w] = "idle"] /\ at' = [at EXCEPT ![w] = NoRecord]
      /\ wrote' = [wrote EXCEPT ![w] = {}]
  BY DEF EndAttempt, Goto
<1>2. pc'[w] = "idle" /\ wrote'[w] = {}
  BY <1>1 DEF LocksInv, Typed
<1>3. /\ updated' = [updated EXCEPT ![w] = 0] /\ seen' = [seen EXCEPT ![w] = 0]
      /\ alarm' = [alarm EXCEPT ![w] = 0]
  BY <1>2 DEF KeepAttempt
<1>4. /\ seen'[w] = 0 /\ alarm'[w] = 0
      /\ seen' \in [Workers -> Nat] /\ alarm' \in [Workers -> Nat]
      /\ \A v \in Workers \ {w} : seen'[v] = seen[v] /\ alarm'[v] = alarm[v]
  BY <1>3 DEF TablesTyped
<1>5. Bystanders(w)
  BY <1>1, <1>3 DEF Bystanders, LocksInv, Typed
<1> QED
  BY <1>2, <1>4, <1>5 DEF Apart

LEMMA CommandApart ==
    ASSUME NEW w \in Workers, Apart(w), UNCHANGED topic, NEW v \in Workers \ {w}
    PROVE  Command(v)' = Command(v)
BY DEF Apart, Bystanders, Command

\* An alarm that is published stays where it is.
LEMMA AlarmsGrow ==
    ASSUME TablesTyped, NEW w \in Workers, pc[w] = "alarm", at[w] \in Records,
           ~IsPoison(Command(w)), LocksInv, CrossingOf(w, updated[w]) # "none", ProduceAlarm(w)
    PROVE  /\ alarms' \in Seq(Alarms) /\ Len(alarms') = Len(alarms) + 1
           /\ \A n \in 1 .. Len(alarms) : alarms'[n] = alarms[n]
           /\ alarms'[Len(alarms')] = [kind |-> CrossingOf(w, updated[w]),
                                       aggregate |-> Command(w).aggregate]
           /\ alarm' = [alarm EXCEPT ![w] = Len(alarms')]
<1> DEFINE new == [kind |-> CrossingOf(w, updated[w]), aggregate |-> Command(w).aggregate]
<1>1. CrossingOf(w, updated[w]) \in {"raise", "clear"}
  BY DEF CrossingOf, Crossing
<1>2. new \in Alarms
  BY <1>1, CommandKnown DEF Alarms, LocksInv
<1>3. alarms' = Append(alarms, new) /\ alarm' = [alarm EXCEPT ![w] = Len(alarms')]
  BY DEF ProduceAlarm
<1> HIDE DEF new
<1>4. /\ Append(alarms, new) \in Seq(Alarms) /\ Len(Append(alarms, new)) = Len(alarms) + 1
      /\ \A n \in 1 .. Len(alarms) : Append(alarms, new)[n] = alarms[n]
      /\ Append(alarms, new)[Len(alarms) + 1] = new
  BY <1>2 DEF TablesTyped
<1> QED
  BY <1>3, <1>4 DEF new

-----------------------------------------------------------------------------
(* The count.                                                              *)

CountInv ==
    /\ TablesTyped
    /\ \A w \in Workers : seen[w] =< Len(counts) /\ ("log" \in wrote[w] => ~LogKeyTaken(w))
    /\ \A v, w \in Workers : v # w /\ "log" \in wrote[w] => ~HoldsKey(v, Command(w), "log")
    /\ \A w \in Workers : pc[w] = "counting" => seen[w] # 0
    /\ counts = <<>> => logs = {} /\ compensatingLogs = {}
    /\ CountIsExact

\* Whoever is going to insert a row of counts was so already, or begins while there is none.
LEMMA InsertersFew ==
    ASSUME CountInv, TablesTyped, UNCHANGED counts,
           Inserting' \subseteq Inserting \/ counts = <<>>
    PROVE  Len(counts') + Cardinality(Inserting') =< Cardinality(Workers)
<1>1. IsFiniteSet(Workers) /\ Inserting \subseteq Workers /\ Inserting' \subseteq Workers
  BY TransactionalAssumption DEF Inserting
<1>2. /\ IsFiniteSet(Inserting) /\ IsFiniteSet(Inserting')
      /\ Cardinality(Inserting') =< Cardinality(Workers)
  BY <1>1, FS_Subset
<1>3. /\ Cardinality(Inserting) \in Nat /\ Cardinality(Inserting') \in Nat
      /\ Cardinality(Workers) \in Nat /\ Len(counts) \in Nat
  BY <1>1, <1>2, FS_CardinalityType DEF TablesTyped
<1>4. CASE counts = <<>>
  BY <1>2, <1>3, <1>4
<1>5. CASE Inserting' \subseteq Inserting
  <2>1. Cardinality(Inserting') =< Cardinality(Inserting)
    BY <1>2, <1>5, FS_Subset
  <2> QED
    BY <1>3, <2>1 DEF CountInv, CountIsExact
<1> QED
  BY <1>4, <1>5

\* What is in the tables stays, and so does what workers that do not commit rely on.
LEMMA CountKept ==
    ASSUME LocksInv, CountInv, UNCHANGED <<topic, tableVars>>, NEW w \in Workers, Apart(w),
           seen'[w] =< Len(counts), seen' \in [Workers -> Nat], TablesTyped',
           pc'[w] = "counting" => seen'[w] # 0,
           Inserting' \subseteq Inserting \/ counts = <<>>,
           "log" \in wrote'[w] => Command(w)' = Command(w),
           "log" \in wrote'[w] \ wrote[w] =>
               ~LogKeyTaken(w) /\ \A v \in Workers \ {w} : ~HoldsKey(v, Command(w), "log")
    PROVE  CountInv'
<1>1. UNCHANGED <<counts, logs, compensatingLogs>>
  BY DEF tableVars
<1>2. ASSUME NEW v \in Workers, "log" \in wrote'[v]
      PROVE  /\ Command(v)' = Command(v) /\ ~LogKeyTaken(v)
             /\ v # w => "log" \in wrote[v]
             /\ v = w => \A u \in Workers \ {w} : ~HoldsKey(u, Command(w), "log")
  <2>1. CASE v = w
    BY <1>2, <2>1 DEF CountInv
  <2>2. CASE v # w
    BY <1>2, <2>2, CommandApart DEF CountInv, Apart, Bystanders
  <2> QED
    BY <2>1, <2>2
<1>3. ASSUME NEW v \in Workers
      PROVE  seen'[v] =< Len(counts') /\ ("log" \in wrote'[v] => ~LogKeyTaken(v)')
  <2>1. seen'[v] =< Len(counts')
    BY <1>1 DEF CountInv, Apart
  <2>2. "log" \in wrote'[v] => ~LogKeyTaken(v)'
    BY <1>1, <1>2 DEF LogKeyTaken
  <2> QED
    BY <2>1, <2>2
<1>4. ASSUME NEW u \in Workers, NEW v \in Workers, u # v, "log" \in wrote'[u], "log" \in wrote'[v]
      PROVE  Command(u)'.id # Command(v)'.id
  <2>1. Command(u)' = Command(u) /\ Command(v)' = Command(v)
    BY <1>2, <1>4
  <2>2. CASE u = w
    BY <1>2, <1>4, <2>1, <2>2 DEF HoldsKey
  <2>3. CASE v = w
    BY <1>2, <1>4, <2>1, <2>3 DEF HoldsKey
  <2>4. CASE u # w /\ v # w
    BY <1>2, <1>4, <2>1, <2>4 DEF CountInv, HoldsKey
  <2> QED
    BY <2>2, <2>3, <2>4
<1>5. \A u, v \in Workers : u # v /\ "log" \in wrote'[v] => ~HoldsKey(u, Command(v), "log")'
  BY <1>4 DEF HoldsKey
<1>6. CountIsExact' /\ (counts' = <<>> => logs' = {} /\ compensatingLogs' = {})
  <2>1. Len(counts') + Cardinality(Inserting') =< Cardinality(Workers)
    BY <1>1, InsertersFew DEF CountInv
  <2> QED
    BY <1>1, <2>1 DEF CountInv, CountIsExact
<1>7. \A v \in Workers : pc'[v] = "counting" => seen'[v] # 0
  BY DEF CountInv, Apart, Bystanders
<1> QED
  BY <1>3, <1>5, <1>6, <1>7 DEF CountInv

\* What a transaction that executed its command adds to the tables.
LEMMA CommittedTables ==
    ASSUME LocksInv, CountInv, NEW w \in Workers, Commits(w), wrote[w] = Statements
    PROVE  /\ IsFiniteSet(logs') /\ IsFiniteSet(compensatingLogs')
           /\ Cardinality(logs') - Cardinality(compensatingLogs') =
                 Cardinality(logs) - Cardinality(compensatingLogs) + CountDelta(w)
           /\ ~Compensating(Command(w)) =>
                 /\ compensatingLogs' = compensatingLogs
                 /\ logs' = logs \cup {[id |-> Command(w).id,
                                        aggregate |-> Command(w).aggregate,
                                        value |-> Command(w).value]}
           /\ Compensating(Command(w)) =>
                 /\ logs' = logs
                 /\ compensatingLogs' = compensatingLogs \cup
                                           {[id |-> Command(w).id, of |-> Command(w).of]}
<1> DEFINE c == Command(w)
           log == [id |-> c.id, aggregate |-> c.aggregate, value |-> c.value]
           undone == [id |-> c.id, of |-> c.of]
<1>0. ~LogKeyTaken(w)
  BY DEF CountInv, Statements
<1>1. /\ IsFiniteSet(logs) /\ Cardinality(logs) \in Nat
      /\ IsFiniteSet(compensatingLogs) /\ Cardinality(compensatingLogs) \in Nat
  BY FS_CardinalityType DEF CountInv, TablesTyped
<1>2. CASE Compensating(c)
  <2>1. logs' = logs /\ compensatingLogs' = compensatingLogs \cup {undone}
    BY <1>2 DEF Commits, ApplyTables, Statements
  <2>2. undone \notin compensatingLogs
    BY <1>0, <1>2 DEF LogKeyTaken
  <2>3. /\ IsFiniteSet(compensatingLogs')
        /\ Cardinality(compensatingLogs') = Cardinality(compensatingLogs) + 1
    BY <1>1, <2>1, <2>2, FS_AddElement
  <2> QED
    BY <1>1, <1>2, <2>1, <2>3 DEF CountDelta
<1>3. CASE ~Compensating(c)
  <2>1. compensatingLogs' = compensatingLogs /\ logs' = logs \cup {log}
    BY <1>3 DEF Commits, ApplyTables, Statements
  <2>2. log \notin logs
    BY <1>0, <1>3 DEF LogKeyTaken
  <2>3. IsFiniteSet(logs') /\ Cardinality(logs') = Cardinality(logs) + 1
    BY <1>1, <2>1, <2>2, FS_AddElement
  <2> QED
    BY <1>1, <1>3, <2>1, <2>3 DEF CountDelta
<1> QED
  BY <1>2, <1>3

\* Rows of counts are changed, the first among them, or one is appended.
LEMMA CommittedCounts ==
    ASSUME LocksInv, CountInv, NEW w \in Workers, Commits(w), wrote[w] = Statements
    PROVE  /\ counts' \in Seq(Int) /\ Len(counts') \in Nat /\ Len(counts) =< Len(counts')
           /\ counts' # <<>>
           /\ seen[w] = 0 =>
                 /\ Len(counts') = Len(counts) + 1
                 /\ counts'[1] = IF counts = <<>> THEN CountDelta(w) ELSE counts[1]
           /\ seen[w] # 0 =>
                 /\ Len(counts') = Len(counts) /\ counts # <<>>
                 /\ counts'[1] = counts[1] + CountDelta(w)
<1>1. counts \in Seq(Int) /\ seen[w] \in Nat /\ seen[w] =< Len(counts) /\ CountDelta(w) \in Int
  BY DEF CountInv, TablesTyped, CountDelta
<1>2. CASE seen[w] = 0
  <2>1. counts' = Append(counts, CountDelta(w))
    BY <1>2 DEF Commits, ApplyTables, Statements
  <2>2. /\ counts' \in Seq(Int) /\ Len(counts') = Len(counts) + 1
        /\ counts'[Len(counts) + 1] = CountDelta(w)
        /\ \A n \in 1 .. Len(counts) : counts'[n] = counts[n]
    BY <1>1, <2>1
  <2>3. Len(counts) \in Nat /\ (Len(counts) = 0 <=> counts = <<>>)
    BY <1>1
  <2>4. counts' # <<>>
    BY <2>2, <2>3
  <2>5. counts'[1] = IF counts = <<>> THEN CountDelta(w) ELSE counts[1]
    <3>1. CASE counts = <<>>
      BY <2>2, <2>3, <3>1
    <3>2. CASE counts # <<>>
      <4>1. 1 \in 1 .. Len(counts)
        BY <2>3, <3>2
      <4> QED
        BY <2>2, <3>2, <4>1
    <3> QED
      BY <3>1, <3>2
  <2>6. Len(counts') \in Nat /\ Len(counts) =< Len(counts')
    BY <2>2, <2>3
  <2> QED
    BY <1>2, <2>2, <2>4, <2>5, <2>6
<1>3. CASE seen[w] # 0
  <2>1. counts' = [n \in DOMAIN counts |->
                      IF n =< seen[w] THEN counts[n] + CountDelta(w) ELSE counts[n]]
    BY <1>3 DEF Commits, ApplyTables, Statements
  <2>2. DOMAIN counts = 1 .. Len(counts) /\ Len(counts) \in Nat /\ \A n \in 1 .. Len(counts) : counts[n] \in Int
    BY <1>1
  <2>3. counts' \in [1 .. Len(counts) -> Int]
    BY <1>1, <2>1, <2>2
  <2>4. counts' \in Seq(Int) /\ Len(counts') = Len(counts)
    BY <2>2, <2>3
  <2>5. counts # <<>> /\ counts' # <<>>
    BY <1>1, <1>3, <2>2, <2>4
  <2>6. counts'[1] = counts[1] + CountDelta(w)
    BY <1>1, <1>3, <2>1, <2>2
  <2>7. Len(counts') \in Nat /\ Len(counts) =< Len(counts')
    BY <2>2, <2>4
  <2> QED
    BY <1>3, <2>4, <2>5, <2>6, <2>7
<1> QED
  BY <1>2, <1>3

LEMMA CommitKeepsCount ==
    ASSUME LocksInv, CountInv, NEW w \in Workers, Commits(w), UNCHANGED alarms, TablesTyped'
    PROVE  CountInv'
<1>1. Apart(w) /\ wrote'[w] = {} /\ seen'[w] = 0 /\ UNCHANGED topic
  BY AttemptEnds DEF Commits, CountInv
<1>2. wrote[w] = Statements \/ wrote[w] \in {{}, {"mark"}}
  BY DEF Commits, LocksInv, WorkerInv, WroteInOrder
<1>3. CASE wrote[w] = Statements
  <2>1. /\ Len(counts) =< Len(counts') /\ counts' # <<>>
        /\ Len(counts) \in Nat /\ Len(counts') \in Nat
    BY <1>3, CommittedCounts DEF CountInv, TablesTyped
  <2>2. ASSUME NEW v \in Workers PROVE seen'[v] =< Len(counts')
    <3>1. seen'[v] =< Len(counts) /\ seen'[v] \in Nat
      <4>1. seen[v] =< Len(counts) /\ seen[v] \in Nat
        BY DEF CountInv, TablesTyped
      <4>2. v # w => seen'[v] = seen[v]
        BY <1>1 DEF Apart
      <4> QED
        BY <1>1, <2>1, <4>1, <4>2
    <3> QED
      BY <2>1, <3>1
  <2>3. ASSUME NEW v \in Workers, "log" \in wrote'[v]
        PROVE  /\ v # w /\ "log" \in wrote[v] /\ Command(v)' = Command(v) /\ ~LogKeyTaken(v)
               /\ Command(v).id # Command(w).id
    <3>1. v # w /\ "log" \in wrote[v]
      BY <1>1, <2>3 DEF Apart, Bystanders
    <3>2. "log" \in wrote[w]
      BY <1>3 DEF Statements
    <3> QED
      BY <1>1, <3>1, <3>2, CommandApart DEF CountInv, HoldsKey
  <2>4. ASSUME NEW v \in Workers, "log" \in wrote'[v] PROVE ~LogKeyTaken(v)'
    <3>1. /\ Command(v)' = Command(v) /\ ~LogKeyTaken(v) /\ Command(v).id # Command(w).id
      BY <2>3, <2>4
    <3>2. /\ \A row \in logs' : row \in logs \/ row.id = Command(w).id
          /\ \A row \in compensatingLogs' : row \in compensatingLogs \/ row.id = Command(w).id
      BY <1>3, CommittedTables
    <3>3. LogKeyTaken(v)' <=>
            \E row \in IF Compensating(Command(v)) THEN compensatingLogs' ELSE logs' :
                row.id = Command(v).id
      BY <3>1 DEF LogKeyTaken
    <3> QED
      BY <3>1, <3>2, <3>3 DEF LogKeyTaken
  <2>5. \A u, v \in Workers : u # v /\ "log" \in wrote'[v] => ~HoldsKey(u, Command(v), "log")'
    BY <2>3 DEF CountInv, HoldsKey
  <2>6. CountIsExact'
    <3>1. CountDelta(w) \in {1, -1} /\ Len(counts) \in Nat /\ (Len(counts) = 0 <=> counts = <<>>)
      BY DEF CountDelta, CountInv, TablesTyped
    <3>2. counts # <<>> => counts[1] \in Int
      BY <3>1 DEF CountInv, TablesTyped
    <3>3. Cardinality(logs') - Cardinality(compensatingLogs') =
            Cardinality(logs) - Cardinality(compensatingLogs) + CountDelta(w)
      BY <1>3, CommittedTables
    <3>4. PICK n \in Int : n = Cardinality(logs) - Cardinality(compensatingLogs)
      BY FS_CardinalityType DEF CountInv, TablesTyped
    <3>5. counts = <<>> => n = 0
      <4>1. counts = <<>> => Cardinality(logs) = 0 /\ Cardinality(compensatingLogs) = 0
        BY FS_EmptySet DEF CountInv
      <4> QED
        BY <3>4, <4>1
    <3>6. counts # <<>> => n - counts[1] \in -(Len(counts) - 1) .. Len(counts) - 1
      BY <3>4 DEF CountInv, CountIsExact
    <3>7. (n + CountDelta(w)) - counts'[1] \in -(Len(counts') - 1) .. Len(counts') - 1
      <4>1. PICK d \in Int : d = CountDelta(w)
        BY <3>1
      <4>2. CASE seen[w] = 0 /\ counts = <<>>
        <5>1. Len(counts') = 1 /\ counts'[1] = d /\ n = 0
          BY <1>3, <3>1, <3>5, <4>1, <4>2, CommittedCounts
        <5> QED
          BY <4>1, <5>1
      <4>3. CASE seen[w] = 0 /\ counts # <<>>
        <5>1. Len(counts') = Len(counts) + 1 /\ counts'[1] = counts[1]
          BY <1>3, <4>3, CommittedCounts
        <5>2. d \in {1, -1}
          BY <3>1, <4>1
        <5> QED
          BY <3>1, <3>2, <3>6, <4>1, <4>3, <5>1, <5>2
      <4>4. CASE seen[w] # 0
        <5>1. Len(counts') = Len(counts) /\ counts'[1] = counts[1] + d /\ counts # <<>>
          BY <1>3, <4>1, <4>4, CommittedCounts
        <5> QED
          BY <3>1, <3>2, <3>6, <4>1, <5>1
      <4> QED
        BY <4>2, <4>3, <4>4
    <3>8. Len(counts') + Cardinality(Inserting') =< Cardinality(Workers)
      <4>1. Inserting' \subseteq Inserting \ {w}
        BY <1>1 DEF Inserting, Apart, Bystanders
      <4>2. /\ IsFiniteSet(Inserting) /\ Cardinality(Inserting) \in Nat
            /\ Cardinality(Workers) \in Nat
        BY TransactionalAssumption, FS_Subset, FS_CardinalityType DEF Inserting
      <4>3. /\ IsFiniteSet(Inserting \ {w})
            /\ Cardinality(Inserting \ {w}) =
                  IF w \in Inserting THEN Cardinality(Inserting) - 1 ELSE Cardinality(Inserting)
        BY <4>2, FS_RemoveElement
      <4>4. Cardinality(Inserting') =< Cardinality(Inserting \ {w}) /\ IsFiniteSet(Inserting')
        BY <4>1, <4>3, FS_Subset
      <4>5. Cardinality(Inserting') \in Nat
        BY <4>4, FS_CardinalityType
      <4>6. w \in Inserting <=> seen[w] = 0
        BY <1>3 DEF Inserting, Statements
      <4>7. Len(counts') = IF w \in Inserting THEN Len(counts) + 1 ELSE Len(counts)
        BY <1>3, <4>6, CommittedCounts
      <4> QED
        BY <3>1, <4>2, <4>3, <4>4, <4>5, <4>7 DEF CountInv, CountIsExact
    <3> QED
      BY <3>3, <3>4, <3>7, <3>8 DEF CountIsExact
  <2>7. \A v \in Workers : pc'[v] = "counting" => seen'[v] # 0
    BY AttemptEnds DEF CountInv, Commits, Apart, Bystanders
  <2> QED
    BY <2>1, <2>2, <2>4, <2>5, <2>6, <2>7 DEF CountInv
<1>4. CASE wrote[w] \in {{}, {"mark"}}
  <2>1. UNCHANGED <<counts, logs, compensatingLogs>>
    BY <1>4 DEF Commits, ApplyTables
  <2>2. ASSUME NEW v \in Workers
        PROVE  seen'[v] =< Len(counts') /\ ("log" \in wrote'[v] => ~LogKeyTaken(v)')
    <3>1. seen'[v] =< Len(counts')
      <4>1. Len(counts) \in Nat
        BY DEF CountInv, TablesTyped
      <4> QED
        BY <1>1, <2>1, <4>1 DEF CountInv, Apart
    <3>2. "log" \in wrote'[v] => v # w /\ "log" \in wrote[v] /\ Command(v)' = Command(v)
      BY <1>1, CommandApart DEF Apart, Bystanders
    <3>3. "log" \in wrote'[v] => ~LogKeyTaken(v)'
      BY <2>1, <3>2 DEF CountInv, LogKeyTaken
    <3> QED
      BY <3>1, <3>3
  <2>3. ASSUME NEW u \in Workers, NEW v \in Workers, u # v, "log" \in wrote'[u], "log" \in wrote'[v]
        PROVE  Command(u)'.id # Command(v)'.id
    <3>1. /\ "log" \in wrote[u] /\ Command(u)' = Command(u)
          /\ "log" \in wrote[v] /\ Command(v)' = Command(v)
      BY <1>1, <2>3, CommandApart DEF Apart, Bystanders
    <3> QED
      BY <2>3, <3>1 DEF CountInv, HoldsKey
  <2>4. \A u, v \in Workers : u # v /\ "log" \in wrote'[v] => ~HoldsKey(u, Command(v), "log")'
    BY <2>3 DEF HoldsKey
  <2>5. CountIsExact' /\ (counts' = <<>> => logs' = {} /\ compensatingLogs' = {})
    <3>1. Inserting' \subseteq Inserting
      BY <1>1 DEF Inserting, Apart, Bystanders
    <3>2. Len(counts') + Cardinality(Inserting') =< Cardinality(Workers)
      BY <2>1, <3>1, InsertersFew DEF CountInv
    <3> QED
      BY <2>1, <3>2 DEF CountInv, CountIsExact
  <2>6. \A v \in Workers : pc'[v] = "counting" => seen'[v] # 0
    BY AttemptEnds DEF CountInv, Commits, Apart, Bystanders
  <2> QED
    BY <2>2, <2>4, <2>5, <2>6 DEF CountInv
<1> QED
  BY <1>2, <1>3, <1>4

LEMMA AlarmsStayDue ==
    ASSUME LocksInv, TablesTyped, \A w \in Workers : AlarmDue(w), [Next]_vars
    PROVE  \A w \in Workers : AlarmDue(w)'
<1>1. CASE UNCHANGED vars
  BY <1>1 DEF vars, handlingVars, deliveryVars, attemptVars, AlarmDue, CrossingOf, Ledger!Delta, Command
<1>2. ASSUME NEW w \in Workers, Apart(w), UNCHANGED topic,
             Len(alarms') >= Len(alarms), Len(alarms') \in Nat, AlarmDue(w)'
      PROVE  \A v \in Workers : AlarmDue(v)'
  <2>1. ASSUME NEW v \in Workers \ {w} PROVE AlarmDue(v)'
    <3>1. Command(v)' = Command(v) /\ pc'[v] = pc[v] /\ updated'[v] = updated[v] /\ alarm'[v] = alarm[v]
      BY <1>2, CommandApart DEF Apart, Bystanders
    <3>2. alarm[v] \in Nat /\ Len(alarms) \in Nat
      BY DEF TablesTyped
    <3> QED
      BY <1>2, <3>1, <3>2 DEF AlarmDue, CrossingOf, Ledger!Delta
  <2> QED
    BY <1>2, <2>1
<1>3. Len(alarms) \in Nat
  BY DEF TablesTyped
<1>4. ASSUME NEW w \in Workers, Moves(w) PROVE \A v \in Workers : AlarmDue(v)'
  <2>1. Apart(w) /\ UNCHANGED topic
    BY <1>4 DEF Moves
  <2>2. CASE ProduceAlarm(w)
    <3>1. pc[w] = "alarm" /\ at[w] \in Records /\ ~IsPoison(Command(w)) /\ pc'[w] = "log"
      BY <2>2, StatementOrder DEF ProduceAlarm, Goto, LocksInv, WorkerInv, Typed
    <3>2. Len(alarms') = Len(alarms) + 1 /\ alarm' = [alarm EXCEPT ![w] = Len(alarms')]
      BY <2>2, <3>1, AlarmsGrow DEF AlarmDue
    <3>3. alarm'[w] = Len(alarms')
      BY <3>2 DEF TablesTyped
    <3> QED
      BY <1>2, <1>3, <2>1, <3>1, <3>2, <3>3 DEF AlarmDue
  <2>3. CASE ShiftAggregate(w)
    <3> DEFINE value == aggregates[Command(w).aggregate] + Ledger!Delta(Command(w))
    <3>1. /\ pc'[w] = IF CrossingOf(w, value) = "none" THEN "log" ELSE "alarm"
          /\ updated'[w] = value /\ UNCHANGED <<topic, at, alarm, alarms>>
      BY <2>3, StatementOrder
         DEF ShiftAggregate, Execute, Goto, deliveryVars, LocksInv, Typed
    <3>2. CrossingOf(w, updated[w])' = CrossingOf(w, value)
      BY <3>1 DEF CrossingOf, Ledger!Delta, Command
    <3> HIDE DEF value
    <3>3. AlarmDue(w)'
      BY <3>1, <3>2 DEF AlarmDue
    <3> QED
      BY <1>2, <1>3, <2>1, <3>1, <3>3
  <2>4. CASE ~ProduceAlarm(w) /\ ~ShiftAggregate(w)
    <3>1. UNCHANGED <<alarm, alarms>> /\ pc'[w] # "alarm"
      BY <1>4, <2>4 DEF Moves
    <3> QED
      BY <1>2, <1>3, <2>1, <3>1 DEF AlarmDue
  <2> QED
    BY <2>2, <2>3, <2>4
<1>5. ASSUME NEW w \in Workers, Ends(w) \/ (Commits(w) /\ UNCHANGED alarms)
      PROVE  \A v \in Workers : AlarmDue(v)'
  <2>1. /\ Apart(w) /\ pc'[w] = "idle" /\ alarm'[w] = 0 /\ UNCHANGED <<topic, alarms>>
    BY <1>5, AttemptEnds DEF Ends, Commits
  <2> QED
    BY <1>2, <1>3, <2>1 DEF AlarmDue
<1> QED
  BY <1>1, <1>4, <1>5, StepShapes

LEMMA TablesStayTyped ==
    ASSUME LocksInv, CountInv, \A w \in Workers : AlarmDue(w), [Next]_vars
    PROVE  TablesTyped'
<1> USE DEF CountInv
<1>1. CASE UNCHANGED vars
  BY <1>1 DEF vars, attemptVars, tableVars, TablesTyped
<1>2. ASSUME NEW w \in Workers, Moves(w) PROVE TablesTyped'
  <2>1. UNCHANGED <<logs, compensatingLogs, counts, told>> /\ seen' \in [Workers -> Nat]
    BY <1>2 DEF Moves, tableVars
  <2>2. CASE ProduceAlarm(w)
    <3>1. pc[w] = "alarm" /\ at[w] \in Records /\ ~IsPoison(Command(w))
      BY <2>2 DEF ProduceAlarm, LocksInv, WorkerInv
    <3>2. /\ alarms' \in Seq(Alarms) /\ Len(alarms') = Len(alarms) + 1
          /\ alarm' = [alarm EXCEPT ![w] = Len(alarms')]
      BY <2>2, <3>1, AlarmsGrow DEF AlarmDue
    <3>3. told' \subseteq 1 .. Len(alarms') /\ Len(alarms') \in Nat
      BY <2>1, <3>2 DEF TablesTyped
    <3> QED
      BY <2>1, <3>2, <3>3 DEF TablesTyped
  <2>3. CASE ~ProduceAlarm(w)
    <3>1. UNCHANGED <<alarm, alarms>>
      BY <1>2, <2>3 DEF Moves, ShiftAggregate
    <3> QED
      BY <2>1, <3>1 DEF TablesTyped
  <2> QED
    BY <2>2, <2>3
<1>3. ASSUME NEW w \in Workers, Ends(w) PROVE TablesTyped'
  <2>1. UNCHANGED <<logs, compensatingLogs, counts, told, alarms>>
    BY <1>3 DEF Ends, tableVars
  <2> QED
    BY <1>3, <2>1, AttemptEnds DEF Ends, TablesTyped
<1>4. ASSUME NEW w \in Workers, Commits(w), UNCHANGED alarms PROVE TablesTyped'
  <2>1. seen' \in [Workers -> Nat] /\ alarm' \in [Workers -> Nat]
    BY <1>4, AttemptEnds DEF Commits
  <2>2. wrote[w] = Statements \/ wrote[w] \in {{}, {"mark"}}
    BY <1>4 DEF Commits, LocksInv, WorkerInv, WroteInOrder
  <2>3. counts' \in Seq(Int) /\ IsFiniteSet(logs') /\ IsFiniteSet(compensatingLogs')
    <3>1. CASE wrote[w] = Statements
      BY <1>4, <3>1, CommittedCounts, CommittedTables
    <3>2. CASE wrote[w] \in {{}, {"mark"}}
      <4>1. UNCHANGED <<counts, logs, compensatingLogs>>
        BY <1>4, <3>2 DEF Commits, ApplyTables
      <4> QED
        BY <4>1 DEF TablesTyped
    <3> QED
      BY <2>2, <3>1, <3>2
  <2>4. told' \subseteq 1 .. Len(alarms')
    <3>1. alarm[w] \in Nat /\ alarm[w] =< Len(alarms) /\ Len(alarms) \in Nat
      BY DEF TablesTyped, AlarmDue
    <3>2. told' = IF alarm[w] = 0 THEN told ELSE told \cup {alarm[w]}
      BY <1>4 DEF Commits, ApplyTables
    <3> QED
      BY <1>4, <3>1, <3>2 DEF TablesTyped
  <2> QED
    BY <1>4, <2>1, <2>3, <2>4 DEF TablesTyped
<1> QED
  BY <1>1, <1>2, <1>3, <1>4, StepShapes

LEMMA CountStep ==
    ASSUME LocksInv, CountInv, \A w \in Workers : AlarmDue(w), [Next]_vars
    PROVE  CountInv'
<1>0. TablesTyped' /\ TablesTyped
  BY TablesStayTyped DEF CountInv
<1>1. CASE UNCHANGED vars
  <2>1. UNCHANGED <<topic, pc, wrote, at, seen, counts, logs, compensatingLogs>>
    BY <1>1 DEF vars, handlingVars, deliveryVars, attemptVars, tableVars
  <2>2. \A w : Command(w)' = Command(w)
    BY <2>1 DEF Command
  <2> QED
    BY <1>0, <2>1, <2>2 DEF CountInv, CountIsExact, Inserting, LogKeyTaken, HoldsKey
<1>2. ASSUME NEW w \in Workers, Moves(w) PROVE CountInv'
  <2>1. /\ UNCHANGED <<topic, tableVars>> /\ Apart(w) /\ seen' \in [Workers -> Nat]
        /\ "log" \in wrote'[w] \ wrote[w] =>
              ~LogKeyTaken(w) /\ \A v \in Workers \ {w} : ~HoldsKey(v, Command(w), "log")
    BY <1>2 DEF Moves
  <2>2. seen'[w] =< Len(counts)
    <3>1. Len(counts) \in Nat
      BY <1>0 DEF TablesTyped
    <3> QED
      BY <1>2, <3>1 DEF Moves, CountInv
  <2>3. "log" \in wrote'[w] => Command(w)' = Command(w)
    BY <1>2, <2>1 DEF Moves, Command
  <2>4. pc'[w] = "counting" => seen'[w] # 0
    BY <1>2 DEF Moves, SeesOnce
  <2>5. Inserting' \subseteq Inserting \/ counts = <<>>
    <3>1. ASSUME NEW v \in Inserting', counts # <<>> PROVE v \in Inserting
      BY <1>2, <3>1 DEF Inserting, Moves, SeesOnce, CountInv, Apart, Bystanders
    <3> QED
      BY <3>1
  <2> QED
    BY <1>0, <2>1, <2>2, <2>3, <2>4, <2>5, CountKept
<1>3. ASSUME NEW w \in Workers, Ends(w) PROVE CountInv'
  <2>1. /\ UNCHANGED <<topic, tableVars>> /\ Apart(w) /\ seen' \in [Workers -> Nat]
        /\ pc'[w] = "idle" /\ wrote'[w] = {} /\ seen'[w] = 0
    BY <1>0, <1>3, AttemptEnds DEF Ends
  <2>2. Len(counts) \in Nat
    BY <1>0 DEF TablesTyped
  <2>3. Inserting' \subseteq Inserting
    BY <2>1 DEF Inserting, Apart, Bystanders
  <2> QED
    BY <1>0, <2>1, <2>2, <2>3, CountKept
<1>4. ASSUME NEW w \in Workers, Commits(w), UNCHANGED alarms PROVE CountInv'
  BY <1>0, <1>4, CommitKeepsCount
<1> QED
  BY <1>0, <1>1, <1>2, <1>3, <1>4, StepShapes

LEMMA InitCount ==
    Init => CountInv /\ \A w \in Workers : AlarmDue(w)
<1> SUFFICES ASSUME Init PROVE CountInv /\ \A w \in Workers : AlarmDue(w)
  OBVIOUS
<1>1. TablesTyped
  BY FS_EmptySet DEF Init, TablesTyped
<1>2. CountIsExact
  <2>1. Inserting = {} /\ counts = <<>>
    BY DEF Init, HandlingInit, Inserting
  <2>2. Len(counts) = 0 /\ Cardinality(Inserting) = 0 /\ Cardinality(Workers) \in Nat
    BY <2>1, TransactionalAssumption, FS_EmptySet, FS_CardinalityType
  <2> QED
    BY <2>1, <2>2 DEF CountIsExact
<1> QED
  BY <1>1, <1>2 DEF Init, HandlingInit, CountInv, AlarmDue

\* What the proofs of this module show of every reachable state.
LEMMA TablesInvariant ==
    Spec => [](LocksInv /\ CountInv /\ \A w \in Workers : AlarmDue(w))
<1> DEFINE Inv == LocksInv /\ CountInv /\ \A w \in Workers : AlarmDue(w)
<1>1. Init => Inv
  BY InitLocks, InitCount
<1>2. Inv /\ [Next]_vars => Inv'
  <2>1. CountInv => TablesTyped
    BY DEF CountInv
  <2> QED
    BY <2>1, LocksStep, CountStep, AlarmsStayDue
<1> QED
  BY <1>1, <1>2, PTL DEF Spec

\* No interleaving of the unlocked read of counts with other commits loses or repeats a
\* change in the first row, but for one per further row, and there are at most as many rows
\* as clients (postgres/count_adapter_out.go:27-52).
THEOREM CountStaysExact ==
    Spec => []CountIsExact
<1>1. CountInv => CountIsExact
  BY DEF CountInv
<1> QED
  BY <1>1, TablesInvariant, PTL

-----------------------------------------------------------------------------
(* The alarms.                                                             *)

\* The alarm that w published tells its crossing, and is the last one of its aggregate.
Tells(w) ==
    /\ alarm[w] # 0
    /\ alarms[alarm[w]] = [kind |-> CrossingOf(w, updated[w]), aggregate |-> Command(w).aggregate]
    /\ \A n \in told : alarms[n].aggregate = Command(w).aggregate => n < alarm[w]

AlarmInv(w) ==
    /\ "aggregate" \notin wrote[w] \/ pc[w] = "alarm" => alarm[w] = 0
    /\ "aggregate" \in wrote[w] /\ pc[w] # "alarm" =>
          IF CrossingOf(w, updated[w]) = "none" THEN alarm[w] = 0 ELSE Tells(w)

CrossingInv ==
    /\ \A w \in Workers : AlarmInv(w)
    /\ CrossingsAreTold

LEMMA LastToldIs ==
    ASSUME TablesTyped, NEW a
    PROVE  /\ LastTold(a) # 0 => LastTold(a) \in told /\ alarms[LastTold(a)].aggregate = a
           /\ LastTold(a) \in 0 .. Len(alarms)
<1> DEFINE S == {0} \cup {n \in told : alarms[n].aggregate = a}
<1>0. Len(alarms) \in Nat /\ told \subseteq 1 .. Len(alarms)
  BY DEF TablesTyped
<1>1. ASSUME NEW n \in S PROVE n \in 0 .. Len(alarms)
  BY <1>0
<1>2. 0 \in S
  OBVIOUS
<1>3. Max(S) \in S
  <2> HIDE DEF S
  <2> QED
    BY <1>0, <1>1, <1>2, GreatestElement
<1> QED
  BY <1>1, <1>3 DEF LastTold

\* Nobody tells anything of an aggregate: what is told of it stays.
LEMMA LastToldKept ==
    ASSUME TablesTyped, NEW a,
           \A n \in 1 .. Len(alarms) : alarms'[n] = alarms[n],
           told \subseteq told',
           \A n \in told' \ told : alarms'[n].aggregate # a
    PROVE  /\ LastTold(a)' = LastTold(a)
           /\ LastTold(a) # 0 => alarms'[LastTold(a)] = alarms[LastTold(a)]
<1>1. {0} \cup {n \in told' : alarms'[n].aggregate = a} = {0} \cup {n \in told : alarms[n].aggregate = a}
  BY DEF TablesTyped
<1>2. LastTold(a)' = LastTold(a)
  BY <1>1 DEF LastTold
<1>3. LastTold(a) # 0 => LastTold(a) \in 1 .. Len(alarms)
  BY LastToldIs DEF TablesTyped
<1> QED
  BY <1>2, <1>3

\* The alarm of an open transaction stays the last one, since the others hold other rows.
LEMMA AlarmApart ==
    ASSUME TablesTyped, NEW w \in Workers, Apart(w), UNCHANGED topic, NEW v \in Workers \ {w},
           AlarmInv(v), AlarmDue(v),
           \A n \in 1 .. Len(alarms) : alarms'[n] = alarms[n],
           "aggregate" \in wrote[v] =>
               \A n \in told' \ told : alarms'[n].aggregate # Command(v).aggregate
    PROVE  AlarmInv(v)'
<1>1. /\ Command(v)' = Command(v) /\ wrote'[v] = wrote[v] /\ pc'[v] = pc[v]
      /\ alarm'[v] = alarm[v] /\ updated'[v] = updated[v]
  BY CommandApart DEF Apart, Bystanders
<1>2. CrossingOf(v, updated[v])' = CrossingOf(v, updated[v])
  BY <1>1 DEF CrossingOf, Ledger!Delta
<1>3. ASSUME "aggregate" \in wrote[v], Tells(v)
      PROVE  Tells(v)'
  <2>1. alarm[v] \in 1 .. Len(alarms)
    BY <1>3 DEF Tells, AlarmDue, TablesTyped
  <2>2. alarms'[alarm[v]] = alarms[alarm[v]]
    BY <2>1
  <2>3. ASSUME NEW n \in told', alarms'[n].aggregate = Command(v).aggregate
        PROVE  n < alarm[v]
    <3>1. n \in told
      BY <1>3, <2>3
    <3>2. alarms'[n] = alarms[n]
      BY <3>1 DEF TablesTyped
    <3> QED
      BY <1>3, <2>3, <3>1, <3>2 DEF Tells
  <2> QED
    BY <1>1, <1>2, <1>3, <2>2, <2>3 DEF Tells
<1> QED
  BY <1>1, <1>2, <1>3 DEF AlarmInv

LEMMA MoveKeepsAlarms ==
    ASSUME LocksInv, CountInv, \A v \in Workers : AlarmDue(v), CrossingInv,
           NEW w \in Workers, Moves(w)
    PROVE  CrossingInv'
<1>1. Apart(w) /\ UNCHANGED <<topic, aggregates, told>> /\ TablesTyped
  BY DEF Moves, tableVars, CountInv
<1>2. \A n \in 1 .. Len(alarms) : alarms'[n] = alarms[n]
  <2>1. CASE ProduceAlarm(w)
    <3>1. pc[w] = "alarm" /\ at[w] \in Records /\ ~IsPoison(Command(w))
      BY <2>1 DEF ProduceAlarm, LocksInv, WorkerInv
    <3> QED
      BY <1>1, <2>1, <3>1, AlarmsGrow DEF AlarmDue
  <2>2. CASE ~ProduceAlarm(w)
    BY <2>2 DEF Moves, ShiftAggregate
  <2> QED
    BY <2>1, <2>2
<1>3. CrossingsAreTold'
  <2>1. ASSUME NEW a \in Aggregates
        PROVE  LastTold(a)' = LastTold(a) /\ (LastTold(a) # 0 => alarms'[LastTold(a)] = alarms[LastTold(a)])
    BY <1>1, <1>2, LastToldKept
  <2> QED
    BY <1>1, <2>1 DEF CrossingInv, CrossingsAreTold
<1>4. \A v \in Workers \ {w} : AlarmInv(v)'
  BY <1>1, <1>2, AlarmApart DEF CrossingInv
<1>5. AlarmInv(w)'
  <2>1. CASE ProduceAlarm(w)
    <3>1. /\ pc[w] = "alarm" /\ at[w] \in Records /\ ~IsPoison(Command(w))
          /\ wrote[w] = {"aggregate"}
      BY <2>1 DEF ProduceAlarm, LocksInv, WorkerInv, WroteInOrder
    <3>2. CrossingOf(w, updated[w]) # "none"
      BY <3>1 DEF AlarmDue
    <3>3. /\ Len(alarms') = Len(alarms) + 1
          /\ alarms'[Len(alarms')] = [kind |-> CrossingOf(w, updated[w]),
                                      aggregate |-> Command(w).aggregate]
          /\ alarm' = [alarm EXCEPT ![w] = Len(alarms')]
      BY <1>1, <2>1, <3>1, <3>2, AlarmsGrow
    <3>4. pc'[w] = "log" /\ wrote'[w] = wrote[w] /\ updated'[w] = updated[w] /\ Command(w)' = Command(w)
      BY <2>1, StatementOrder DEF ProduceAlarm, Goto, deliveryVars, LocksInv, Typed, Command
    <3>5. CrossingOf(w, updated[w])' = CrossingOf(w, updated[w])
      BY <3>4 DEF CrossingOf, Ledger!Delta
    <3>6. alarm'[w] = Len(alarms') /\ Len(alarms) \in Nat
      BY <1>1, <3>3 DEF TablesTyped
    <3>7. \A n \in told' : n < alarm'[w]
      BY <1>1, <3>3, <3>6 DEF TablesTyped
    <3>8. Tells(w)'
      BY <3>3, <3>4, <3>5, <3>6, <3>7 DEF Tells
    <3> QED
      BY <3>1, <3>4, <3>8, <3>2, <3>5 DEF AlarmInv
  <2>2. CASE ShiftAggregate(w)
    <3> DEFINE value == aggregates[Command(w).aggregate] + Ledger!Delta(Command(w))
    <3>1. /\ pc'[w] = IF CrossingOf(w, value) = "none" THEN "log" ELSE "alarm"
          /\ updated'[w] = value /\ UNCHANGED <<topic, at, alarm, alarms>>
          /\ pc[w] = "aggregate"
      BY <2>2, StatementOrder
         DEF ShiftAggregate, Execute, Goto, deliveryVars, LocksInv, Typed
    <3>2. CrossingOf(w, updated[w])' = CrossingOf(w, value)
      BY <3>1 DEF CrossingOf, Ledger!Delta, Command
    <3>3. alarm[w] = 0
      BY <3>1 DEF LocksInv, WorkerInv, WroteInOrder, CrossingInv, AlarmInv
    <3> HIDE DEF value
    <3> QED
      BY <3>1, <3>2, <3>3 DEF AlarmInv
  <2>3. CASE ~ProduceAlarm(w) /\ ~ShiftAggregate(w)
    <3>1. /\ UNCHANGED <<updated, alarm, alarms>> /\ "alarm" \notin {pc[w], pc'[w]}
          /\ "aggregate" \in wrote'[w] <=> "aggregate" \in wrote[w]
          /\ wrote'[w] # {} => at'[w] = at[w]
      BY <2>3 DEF Moves
    <3>2. AlarmInv(w)
      BY DEF CrossingInv
    <3>3. CASE "aggregate" \notin wrote[w]
      BY <3>1, <3>2, <3>3 DEF AlarmInv
    <3>4. CASE "aggregate" \in wrote[w]
      <4>1. Command(w)' = Command(w)
        BY <1>1, <3>1, <3>4 DEF Command
      <4>2. CrossingOf(w, updated[w])' = CrossingOf(w, updated[w])
        BY <3>1, <4>1 DEF CrossingOf, Ledger!Delta
      <4>3. Tells(w)' <=> Tells(w)
        BY <1>1, <3>1, <4>1, <4>2 DEF Tells
      <4> QED
        BY <3>1, <3>2, <3>4, <4>2, <4>3 DEF AlarmInv
    <3> QED
      BY <3>3, <3>4
  <2> QED
    BY <2>1, <2>2, <2>3
<1> QED
  BY <1>3, <1>4, <1>5 DEF CrossingInv

\* Which side of the limit the aggregate is on after a crossing.
LEMMA CrossingSides ==
    ASSUME NEW previous \in Int, NEW value \in Int
    PROVE  /\ Crossing(previous, value) \in {"none", "raise", "clear"}
           /\ Crossing(previous, value) = "raise" => value >= AlarmValue
           /\ Crossing(previous, value) = "clear" => value < AlarmValue
           /\ Crossing(previous, value) = "none" =>
                 (previous >= AlarmValue <=> value >= AlarmValue)
BY TxConsumerAssumption DEF Crossing

LEMMA EndKeepsAlarms ==
    ASSUME LocksInv, CountInv, \A v \in Workers : AlarmDue(v), CrossingInv,
           NEW w \in Workers, Ends(w)
    PROVE  CrossingInv'
<1>1. /\ Apart(w) /\ wrote'[w] = {} /\ alarm'[w] = 0
      /\ UNCHANGED <<topic, aggregates, told, alarms>> /\ TablesTyped
  BY AttemptEnds DEF Ends, tableVars, CountInv
<1>2. CrossingsAreTold'
  BY <1>1 DEF CrossingInv, CrossingsAreTold, LastTold
<1>3. \A v \in Workers \ {w} : AlarmInv(v)'
  BY <1>1, AlarmApart DEF CrossingInv
<1>4. AlarmInv(w)'
  BY <1>1 DEF AlarmInv
<1> QED
  BY <1>2, <1>3, <1>4 DEF CrossingInv

LEMMA CommitKeepsAlarms ==
    ASSUME LocksInv, CountInv, \A v \in Workers : AlarmDue(v), CrossingInv,
           NEW w \in Workers, Commits(w), UNCHANGED alarms
    PROVE  CrossingInv'
<1>1. Apart(w) /\ wrote'[w] = {} /\ alarm'[w] = 0 /\ UNCHANGED topic /\ TablesTyped
  BY AttemptEnds DEF Commits, CountInv
<1>2. pc[w] = "commit" /\ AlarmInv(w) /\ (wrote[w] = Statements \/ wrote[w] \in {{}, {"mark"}})
  BY DEF Commits, LocksInv, WorkerInv, WroteInOrder, CrossingInv
<1>3. told' = IF alarm[w] = 0 THEN told ELSE told \cup {alarm[w]}
  BY DEF Commits, ApplyTables
<1>4. AlarmInv(w)'
  BY <1>1 DEF AlarmInv
<1>5. CASE wrote[w] # Statements
  <2>1. alarm[w] = 0 /\ told' = told /\ aggregates' = aggregates
    BY <1>2, <1>3, <1>5 DEF AlarmInv, Commits, ApplyTables
  <2>2. CrossingsAreTold'
    BY <2>1 DEF CrossingInv, CrossingsAreTold, LastTold
  <2>3. \A v \in Workers \ {w} : AlarmInv(v)'
    BY <1>1, <2>1, AlarmApart DEF CrossingInv
  <2> QED
    BY <1>4, <2>2, <2>3 DEF CrossingInv
<1>6. CASE wrote[w] = Statements
  <2>a. PICK k : k = Command(w).aggregate
    OBVIOUS
  <2>0. "aggregate" \in wrote[w]
    BY <1>6 DEF Statements
  <2>1. /\ k \in Aggregates /\ Ledger!Delta(Command(w)) \in Int
    BY <1>2, <2>a, CommandKnown DEF LocksInv, WorkerInv
  <2>2. /\ aggregates' = [aggregates EXCEPT ![k] = updated[w]]
        /\ updated[w] = aggregates[k] + Ledger!Delta(Command(w))
    BY <2>0, <2>a DEF Commits, ApplyTables, LocksInv, WorkerInv, FitsTables
  <2>3. /\ aggregates[k] \in Int /\ updated[w] \in Int
        /\ CrossingOf(w, updated[w]) = Crossing(aggregates[k], updated[w])
    <3>1. aggregates[k] \in Int /\ updated[w] \in Int
      BY <2>1 DEF LocksInv, Typed
    <3>2. updated[w] - Ledger!Delta(Command(w)) = aggregates[k]
      BY <2>1, <2>2, <2>a, <3>1
    <3> QED
      BY <3>1, <3>2 DEF CrossingOf
  <2>4. IF CrossingOf(w, updated[w]) = "none" THEN alarm[w] = 0 ELSE Tells(w)
    BY <1>2, <2>0 DEF AlarmInv
  <2>5. \A n \in told' \ told : alarms'[n].aggregate = k
    BY <1>3, <2>4, <2>a DEF Tells
  <2>6. /\ aggregates'[k] = updated[w]
        /\ \A a \in Aggregates \ {k} : aggregates'[a] = aggregates[a]
    BY <2>1, <2>2 DEF LocksInv, Typed
  <2>7. ASSUME NEW v \in Workers \ {w} PROVE AlarmInv(v)'
    <3>1. "aggregate" \in wrote[v] => Command(v).aggregate # k
      BY <2>0, <2>a DEF LocksInv, Exclusive, HoldsRow
    <3> QED
      BY <1>1, <2>5, <2>a, <3>1, AlarmApart DEF CrossingInv
  <2>8. ASSUME NEW a \in Aggregates \ {k}
        PROVE  (aggregates[a] >= AlarmValue <=> LastTold(a) # 0 /\ alarms[LastTold(a)].kind = "raise")'
    <3>1. LastTold(a)' = LastTold(a)
      BY <1>1, <1>3, <2>5, LastToldKept
    <3> QED
      BY <2>6, <3>1 DEF CrossingInv, CrossingsAreTold
  <2>9. (aggregates[k] >= AlarmValue <=> LastTold(k) # 0 /\ alarms[LastTold(k)].kind = "raise")
    BY <2>1 DEF CrossingInv, CrossingsAreTold
  <2>10. LET last == Max({0} \cup {n \in told' : alarms[n].aggregate = k})
         IN  aggregates'[k] >= AlarmValue <=> last # 0 /\ alarms[last].kind = "raise"
    <3>1. CASE CrossingOf(w, updated[w]) = "none"
      <4>1. told' = told
        BY <1>3, <2>4, <3>1
      <4>2. aggregates[k] >= AlarmValue <=> aggregates'[k] >= AlarmValue
        BY <2>3, <2>6, <3>1, CrossingSides
      <4> QED
        BY <2>9, <4>1, <4>2 DEF LastTold
    <3>2. CASE CrossingOf(w, updated[w]) # "none"
      <4>1. Tells(w)
        BY <2>4, <3>2
      <4>2. told' = told \cup {alarm[w]} /\ alarm[w] \in 1 .. Len(alarms)
        BY <1>1, <1>3, <4>1 DEF Tells, AlarmDue, TablesTyped
      <4>3. /\ alarms[alarm[w]].aggregate = k /\ alarms[alarm[w]].kind = CrossingOf(w, updated[w])
            /\ \A n \in told : alarms[n].aggregate = k => n < alarm[w]
        BY <2>a, <4>1 DEF Tells
      <4> DEFINE S == {0} \cup {n \in told' : alarms[n].aggregate = k}
      <4>4. alarm[w] \in S /\ \A n \in S : n =< alarm[w]
        <5>1. told \subseteq 1 .. Len(alarms) /\ alarm[w] \in Nat /\ Len(alarms) \in Nat
          BY <1>1 DEF TablesTyped
        <5>2. ASSUME NEW n \in S PROVE n =< alarm[w]
          <6>1. CASE n = 0 \/ n = alarm[w]
            BY <5>1, <6>1
          <6>2. CASE n # 0 /\ n # alarm[w]
            <7>1. n \in told /\ alarms[n].aggregate = k
              BY <4>2, <5>2, <6>2
            <7> QED
              BY <4>3, <5>1, <7>1
          <6> QED
            BY <6>1, <6>2
        <5> QED
          BY <4>2, <4>3, <5>2
      <4>5. S \in SUBSET (0 .. Len(alarms)) /\ Len(alarms) \in Nat
        <5>1. told \subseteq 1 .. Len(alarms) /\ Len(alarms) \in Nat
          BY <1>1 DEF TablesTyped
        <5>2. ASSUME NEW n \in S PROVE n \in 0 .. Len(alarms)
          BY <4>2, <5>1
        <5> HIDE DEF S
        <5> QED
          BY <5>1, <5>2
      <4>6. Max(S) \in S /\ \A n \in S : n =< Max(S)
        <5> HIDE DEF S
        <5> QED
          BY <4>4, <4>5, GreatestElement
      <4>7. Max(S) = alarm[w]
        <5>1. Max(S) =< alarm[w] /\ alarm[w] =< Max(S)
          BY <4>4, <4>6
        <5>2. Max(S) \in Int /\ alarm[w] \in Int
          BY <4>2, <4>5, <4>6
        <5> HIDE DEF S
        <5> QED
          BY <5>1, <5>2
      <4>8. aggregates'[k] >= AlarmValue <=> CrossingOf(w, updated[w]) = "raise"
        <5>1. CASE CrossingOf(w, updated[w]) = "raise"
          BY <2>3, <2>6, <5>1, CrossingSides
        <5>2. CASE CrossingOf(w, updated[w]) # "raise"
          <6>1. CrossingOf(w, updated[w]) = "clear"
            BY <2>3, <3>2, <5>2, CrossingSides
          <6>2. updated[w] < AlarmValue
            BY <2>3, <6>1, CrossingSides
          <6> QED
            BY <2>3, <2>6, <5>2, <6>2, TxConsumerAssumption
        <5> QED
          BY <5>1, <5>2
      <4> QED
        BY <4>2, <4>3, <4>7, <4>8
    <3> QED
      BY <3>1, <3>2
  <2>11. LastTold(k)' = Max({0} \cup {n \in told' : alarms[n].aggregate = k})
    BY DEF LastTold
  <2>12. CrossingsAreTold'
    BY <2>8, <2>10, <2>11 DEF CrossingsAreTold
  <2> QED
    BY <1>4, <2>7, <2>12 DEF CrossingInv
<1> QED
  BY <1>5, <1>6

\* In the order of the alarms topic the last committed alarm of an aggregate tells on which
\* side of the limit it is, as the limit is above the zero that an aggregate starts from
\* (domain/tx/aggregate.go:69-110).
THEOREM CrossingsStayTold ==
    ASSUME AlarmValue > 0
    PROVE  Spec => []CrossingsAreTold
<1>1. Init => CrossingInv
  <2> SUFFICES ASSUME Init PROVE CrossingInv
    OBVIOUS
  <2>1. \A w \in Workers : AlarmInv(w)
    BY DEF Init, HandlingInit, AlarmInv
  <2>2. ASSUME NEW a \in Aggregates PROVE LastTold(a) = 0 /\ ~(aggregates[a] >= AlarmValue)
    <3>1. {0} \cup {n \in told : alarms[n].aggregate = a} = {0}
      BY DEF Init
    <3>2. {0} \in SUBSET (0 .. 0) /\ {0} # {}
      OBVIOUS
    <3>3. Max({0}) \in {0}
      BY <3>2, GreatestElement
    <3>4. ~(0 >= AlarmValue)
      BY TxConsumerAssumption
    <3> QED
      BY <3>1, <3>3, <3>4 DEF LastTold, Init
  <2> QED
    BY <2>1, <2>2 DEF CrossingInv, CrossingsAreTold
<1>2. /\ LocksInv /\ CountInv /\ (\A w \in Workers : AlarmDue(w)) /\ CrossingInv /\ [Next]_vars
      => CrossingInv'
  <2> SUFFICES ASSUME LocksInv, CountInv, \A w \in Workers : AlarmDue(w), CrossingInv, [Next]_vars
               PROVE  CrossingInv'
    OBVIOUS
  <2>1. CASE UNCHANGED vars
    <3>1. UNCHANGED <<topic, at, pc, wrote, updated, alarm, aggregates, told, alarms>>
      BY <2>1 DEF vars, handlingVars, deliveryVars, attemptVars, tableVars
    <3>2. \A w : Command(w)' = Command(w) /\ CrossingOf(w, updated[w])' = CrossingOf(w, updated[w])
      BY <3>1 DEF Command, CrossingOf, Ledger!Delta
    <3>3. ASSUME NEW w \in Workers PROVE AlarmInv(w)'
      BY <3>1, <3>2 DEF CrossingInv, AlarmInv, Tells
    <3>4. CrossingsAreTold'
      BY <3>1 DEF CrossingInv, CrossingsAreTold, LastTold
    <3> QED
      BY <3>3, <3>4 DEF CrossingInv
  <2>2. TablesTyped
    BY DEF CountInv
  <2> QED
    BY <2>1, <2>2, StepShapes, MoveKeepsAlarms, EndKeepsAlarms, CommitKeepsAlarms
<1>3. CrossingInv => CrossingsAreTold
  BY DEF CrossingInv
<1> QED
  BY <1>1, <1>2, <1>3, TablesInvariant, PTL DEF Spec

-----------------------------------------------------------------------------
(* Types: what is done and written is of records of the topic.             *)

DeliveryTyped ==
    /\ done \subseteq Records /\ dlq \subseteq done
    /\ redeliveries \in 0 .. MaxRedeliveries
    /\ faults \in 0 .. MaxFaults
    /\ \A w \in Workers : pc[w] = "idle" => at[w] = NoRecord

RowsTyped ==
    /\ processed \subseteq {RowOf(c) : c \in Commands}
    /\ \A row \in logs : row.aggregate \in Aggregates /\ row.value \in Nat
    /\ \A row \in compensatingLogs : \E c \in Commands : c.id = row.id /\ c.of = row.of

\* What a step does to the delivery of its record.
LEMMA DeliveryStep ==
    ASSUME LocksInv, DeliveryTyped, Next, ~Idle
    PROVE  /\ done' \subseteq done \cup {at[w] : w \in {v \in Workers : pc[v] # "idle"}}
           /\ done \subseteq done' /\ dlq' \subseteq dlq \cup done'
           /\ redeliveries' \in 0 .. MaxRedeliveries /\ faults' \in 0 .. MaxFaults
<1> USE TransactionalAssumption DEF DeliveryTyped
<1> DEFINE Held == {at[w] : w \in {v \in Workers : pc[v] # "idle"}}
           Delivers == /\ done' \subseteq done \cup Held
                       /\ done \subseteq done' /\ dlq' \subseteq dlq \cup done'
                       /\ redeliveries' \in 0 .. MaxRedeliveries /\ faults' \in 0 .. MaxFaults
<1>1. ASSUME NEW w \in Workers, pc[w] # "idle" PROVE at[w] \in Held
  BY <1>1
<1> HIDE DEF Held
<1>2. ASSUME NEW w \in Workers, RejectPoison(w) PROVE Delivers
  BY <1>1, <1>2 DEF RejectPoison, RejectRecord, DeadLetter
<1>3. ASSUME NEW w \in Workers, CheckHandled(w) \/ CheckCompensated(w) PROVE Delivers
  BY <1>3 DEF CheckHandled, CheckHandledThen, CheckCompensated, CheckCompensatedThen, deliveryVars
<1>4. ASSUME NEW w \in Workers, ShiftAggregate(w) \/ ProduceAlarm(w) PROVE Delivers
  BY <1>4 DEF ShiftAggregate, ProduceAlarm, Execute, deliveryVars
<1>5. ASSUME NEW w \in Workers, InsertLog(w) \/ Mark(w) PROVE Delivers
  <2>1. pc[w] # "idle" /\ (DeadLetter(w) \/ UNCHANGED <<done, dlq>>) /\ UNCHANGED <<redeliveries, faults>>
    BY <1>5 DEF InsertLog, Mark, MarkHandled, Insert, Execute, deliveryVars
  <2> QED
    BY <1>1, <2>1 DEF DeadLetter
<1>6. ASSUME NEW w \in Workers, UpdateCounts(w) \/ LockCounts(w) PROVE Delivers
  BY <1>6 DEF UpdateCounts, LockCounts, Execute, deliveryVars
<1>7. ASSUME NEW w \in Workers, Commit(w) PROVE Delivers
  BY <1>1, <1>7 DEF Commit, CommitTx, Settle
<1>8. ASSUME NEW w \in Workers, CommitUnanswered(w) \/ FailStatement(w) PROVE Delivers
  <2>1. /\ pc[w] # "idle" /\ (DeadLetter(w) \/ UNCHANGED <<done, dlq>>) /\ UNCHANGED redeliveries
        /\ faults < MaxFaults /\ faults' = faults + 1
    BY <1>8 DEF CommitUnanswered, CommitTxUnanswered, FailStatement, RollBack, Fault
  <2> QED
    BY <1>1, <2>1 DEF DeadLetter
<1>9. ASSUME NEW w \in Workers, NEW r \in Records, Begin(w, r) PROVE Delivers
  BY <1>9 DEF Begin, BeginRecord
<1>10. Delivers
  BY <1>2, <1>3, <1>4, <1>5, <1>6, <1>7, <1>8, <1>9 DEF Next
<1> QED
  BY <1>10 DEF Held

LEMMA DeliveryStaysTyped ==
    ASSUME LocksInv, TablesTyped, DeliveryTyped, [Next]_vars
    PROVE  DeliveryTyped'
<1>1. Records' = Records /\ \A w \in Workers : pc'[w] = "idle" => at'[w] = NoRecord
  <2>1. CASE UNCHANGED vars
    BY <2>1 DEF vars, handlingVars, deliveryVars, Records, DeliveryTyped
  <2>2. ASSUME NEW w \in Workers, Moves(w)
        PROVE  Records' = Records /\ \A v \in Workers : pc'[v] = "idle" => at'[v] = NoRecord
    BY <2>2 DEF Moves, Apart, Bystanders, Records, DeliveryTyped
  <2>3. ASSUME NEW w \in Workers, Ends(w) \/ Commits(w)
        PROVE  Records' = Records /\ \A v \in Workers : pc'[v] = "idle" => at'[v] = NoRecord
    <3>1. Apart(w) /\ at' = [at EXCEPT ![w] = NoRecord] /\ UNCHANGED topic
      BY <2>3, AttemptEnds DEF Ends, Commits, EndAttempt
    <3>2. at'[w] = NoRecord
      BY <3>1 DEF LocksInv, Typed
    <3> QED
      BY <3>1, <3>2 DEF Apart, Bystanders, Records, DeliveryTyped
  <2> QED
    BY <2>1, <2>2, <2>3, StepShapes
<1>2. CASE UNCHANGED vars \/ Idle
  BY <1>1, <1>2 DEF Idle, vars, handlingVars, deliveryVars, DeliveryTyped
<1>3. CASE Next /\ ~Idle
  <2>1. /\ done' \subseteq done \cup {at[w] : w \in {v \in Workers : pc[v] # "idle"}}
        /\ done \subseteq done' /\ dlq' \subseteq dlq \cup done'
        /\ redeliveries' \in 0 .. MaxRedeliveries /\ faults' \in 0 .. MaxFaults
    BY <1>3, DeliveryStep
  <2>2. done' \subseteq Records /\ dlq' \subseteq done'
    BY <2>1 DEF DeliveryTyped, LocksInv, WorkerInv
  <2> QED
    BY <1>1, <2>1, <2>2 DEF DeliveryTyped
<1> QED
  BY <1>2, <1>3

LEMMA RowsStayTyped ==
    ASSUME LocksInv, TablesTyped, RowsTyped, [Next]_vars
    PROVE  RowsTyped'
<1>1. CASE UNCHANGED vars
  BY <1>1 DEF vars, handlingVars, tableVars, RowsTyped
<1>2. ASSUME NEW w \in Workers, Moves(w) \/ Ends(w) PROVE RowsTyped'
  BY <1>2 DEF Moves, Ends, tableVars, RowsTyped
<1>3. ASSUME NEW w \in Workers, Commits(w) PROVE RowsTyped'
  <2>1. Command(w) \in Commands /\ Command(w).aggregate \in Aggregates /\ Command(w).value \in Nat
    BY <1>3, CommandKnown, TxConsumerAssumption DEF Commits, LocksInv, WorkerInv
  <2>2. processed' \subseteq processed \cup {RowOf(Command(w))}
    BY <1>3 DEF Commits, ApplyMark
  <2>3. logs' \subseteq logs \cup {[id |-> Command(w).id, aggregate |-> Command(w).aggregate,
                                    value |-> Command(w).value]}
    BY <1>3 DEF Commits, ApplyTables
  <2>4. compensatingLogs' \subseteq compensatingLogs \cup {[id |-> Command(w).id, of |-> Command(w).of]}
    BY <1>3 DEF Commits, ApplyTables
  <2> QED
    BY <2>1, <2>2, <2>3, <2>4 DEF RowsTyped
<1> QED
  BY <1>1, <1>2, <1>3, StepShapes

\* Whatever happens, what is done, marked and logged is of records of the topic, and what
\* an attempt remembers of the tables is there.
THEOREM TypesOK ==
    Spec => []TypeOK
<1> DEFINE Known == LocksInv /\ CountInv /\ \A w \in Workers : AlarmDue(w)
<1>1. Init => DeliveryTyped /\ RowsTyped
  <2> SUFFICES ASSUME Init PROVE DeliveryTyped /\ RowsTyped
    OBVIOUS
  <2> QED
    BY TransactionalAssumption DEF Init, HandlingInit, DeliveryTyped, RowsTyped
<1>2. Known /\ DeliveryTyped /\ RowsTyped /\ [Next]_vars => DeliveryTyped' /\ RowsTyped'
  <2>1. CountInv => TablesTyped
    BY DEF CountInv
  <2> QED
    BY <2>1, DeliveryStaysTyped, RowsStayTyped
<1>3. Known /\ DeliveryTyped /\ RowsTyped => TypeOK
  <2> SUFFICES ASSUME Known, DeliveryTyped, RowsTyped PROVE TypeOK
    OBVIOUS
  <2>1. /\ pc \in [Workers -> {"idle", "begun", "compensated", "mark", "commit"}
                              \cup {"aggregate", "alarm", "log", "count", "counting"}]
        /\ wrote \in [Workers -> SUBSET ({"mark"} \cup {"aggregate", "alarm", "log", "count", "counting"})]
    BY DEF LocksInv, Typed, Places, Statements
  <2>2. \A w \in Workers : at[w] \in (IF pc[w] = "idle" THEN {NoRecord} ELSE Records)
    BY DEF LocksInv, WorkerInv, DeliveryTyped
  <2>3. HandlingTypeOK({"aggregate", "alarm", "log", "count", "counting"})
    BY <2>1, <2>2 DEF HandlingTypeOK, DeliveryTyped, RowsTyped
  <2> QED
    BY <2>3 DEF TypeOK, LocksInv, Typed, CountInv, TablesTyped, RowsTyped, AlarmDue, Alarms
<1> QED
  BY <1>1, <1>2, <1>3, TablesInvariant, PTL DEF Spec

-----------------------------------------------------------------------------
(* Totals.                                                                 *)

LEMMA TotalIs ==
    ASSUME NEW S, IsFiniteSet(S)
    PROVE  Total(S) = SumOf([x \in S |-> x.value], S)
<1> DEFINE val == [x \in S |-> x.value]
           Adds(sum) == sum = [s \in SUBSET S |->
               IF s = {} THEN 0
               ELSE LET x == CHOOSE x \in s : TRUE IN x.value + sum[s \ {x}]]
<1>1. Total(S) = (CHOOSE sum : Adds(sum))[S]
  BY DEF Total, MapThenSumSet, MapThenFoldSet
<1>2. ASSUME NEW sum PROVE Adds(sum) <=> AddsUp(sum, val, S)
  <2>1. ASSUME NEW s \in SUBSET S
        PROVE  (IF s = {} THEN 0
                ELSE LET x == CHOOSE x \in s : TRUE IN x.value + sum[s \ {x}])
               = (IF s = {} THEN 0 ELSE val[Taken(s)] + sum[s \ {Taken(s)}])
    <3>1. s # {} => Taken(s) \in S /\ val[Taken(s)] = Taken(s).value
      BY DEF Taken
    <3> HIDE DEF val
    <3> QED
      BY <3>1 DEF Taken
  <2> QED
    BY <2>1 DEF AddsUp
<1> HIDE DEF Adds, val
<1>3. (CHOOSE sum : Adds(sum)) = (CHOOSE sum : AddsUp(sum, val, S))
  BY <1>2
<1> QED
  BY <1>1, <1>3 DEF SumOf, val

\* The total of a finite set of rows whose values are integers is one.
LEMMA TotalType ==
    ASSUME NEW S, IsFiniteSet(S), \A x \in S : x.value \in Int
    PROVE  Total({}) = 0 /\ Total(S) \in Int
<1> DEFINE val == [x \in S |-> x.value]
<1>1. Total({}) = 0
  BY FS_EmptySet, TotalIs, SumTaken
<1>2. \A x \in S : val[x] \in Int
  OBVIOUS
<1>3. Total(S) = SumOf(val, S)
  BY TotalIs
<1> HIDE DEF val
<1>4. Total(S) \in Int
  BY <1>2, <1>3, SumType
<1> QED
  BY <1>1, <1>4

\* One more row adds its value to the total.
LEMMA TotalAdd ==
    ASSUME NEW S, IsFiniteSet(S), NEW e, e \notin S, \A x \in S \cup {e} : x.value \in Int
    PROVE  Total(S \cup {e}) = Total(S) + e.value
<1> DEFINE val == [x \in S |-> x.value]
           more == [x \in S \cup {e} |-> x.value]
<1>1. IsFiniteSet(S \cup {e})
  BY FS_AddElement
<1>2. Total(S) = SumOf(val, S) /\ Total(S \cup {e}) = SumOf(more, S \cup {e})
  BY <1>1, TotalIs
<1>3. /\ \A x \in S \cup {e} : more[x] \in Int
      /\ \A x \in S : val[x] = more[x]
      /\ \A x \in S : val[x] \in Int
      /\ more[e] = e.value /\ e.value \in Int
  OBVIOUS
<1> HIDE DEF val, more
<1>4. SumOf(more, S \cup {e}) = more[e] + SumOf(more, S)
  BY <1>3, SumAdd
<1>5. SumOf(val, S) = SumOf(more, S) /\ SumOf(val, S) \in Int
  BY <1>3, SumSame, SumType
<1> QED
  BY <1>2, <1>3, <1>4, <1>5

-----------------------------------------------------------------------------
(* The aggregates and the two logs.                                        *)

\* The log rows of a, and the commands that undid some.
Logged(a) == {row \in logs : row.aggregate = a}

Undone(a) == {c \in Commands : /\ c.kind = "unregister" /\ c.aggregate = a
                               /\ [id |-> c.id, of |-> c.of] \in compensatingLogs}

\* A compensating command is known by its ids: its own is a fresh UUID
\* (validator_adapter_out.go:36), and all copies of a record are alike.
CompensationsAreDistinct ==
    \A c, d \in Commands :
        c.kind = "unregister" /\ d.kind = "unregister" /\ c.id = d.id /\ c.of = d.of => c = d

SumsInv ==
    /\ RowsTyped
    /\ \A a \in Aggregates : IsFiniteSet(Undone(a))
    /\ AggregatesMatchLogs

\* What a transaction that executed its command adds to the rows.
LEMMA CommittedRowsOf ==
    ASSUME LocksInv, CountInv, CompensationsAreDistinct,
           NEW w \in Workers, Commits(w), wrote[w] = Statements,
           NEW c, c = Command(w), NEW a \in Aggregates
    PROVE  /\ c.kind = "register" =>
                 /\ Undone(a)' = Undone(a)
                 /\ LET row == [id |-> c.id, aggregate |-> c.aggregate, value |-> c.value]
                    IN  /\ row \notin logs
                        /\ Logged(a)' = IF c.aggregate = a THEN Logged(a) \cup {row} ELSE Logged(a)
           /\ c.kind = "unregister" =>
                 /\ Logged(a)' = Logged(a)
                 /\ c \notin Undone(a)
                 /\ Undone(a)' = IF c.aggregate = a THEN Undone(a) \cup {c} ELSE Undone(a)
<1>1. c \in Commands /\ ~LogKeyTaken(w)
  <2>1. "log" \in wrote[w]
    BY DEF Statements
  <2> QED
    BY <2>1, CommandKnown DEF Commits, LocksInv, WorkerInv, CountInv
<1>2. CASE c.kind = "register"
  <2>1. ~Compensating(c)
    BY <1>2 DEF Compensating
  <2> DEFINE row == [id |-> c.id, aggregate |-> c.aggregate, value |-> c.value]
  <2>2. compensatingLogs' = compensatingLogs /\ logs' = logs \cup {row}
    BY <2>1, CommittedTables
  <2>3. row \notin logs
    BY <1>1, <2>1 DEF LogKeyTaken
  <2>4. Undone(a)' = Undone(a)
    BY <2>2 DEF Undone
  <2>5. Logged(a)' = IF c.aggregate = a THEN Logged(a) \cup {row} ELSE Logged(a)
    BY <2>2 DEF Logged
  <2> QED
    BY <1>2, <2>3, <2>4, <2>5
<1>3. CASE c.kind = "unregister"
  <2>1. Compensating(c)
    BY <1>3 DEF Compensating
  <2> DEFINE undone == [id |-> c.id, of |-> c.of]
  <2>2. logs' = logs /\ compensatingLogs' = compensatingLogs \cup {undone}
    BY <2>1, CommittedTables
  <2>3. undone \notin compensatingLogs
    BY <1>1, <2>1 DEF LogKeyTaken
  <2>4. Logged(a)' = Logged(a)
    BY <2>2 DEF Logged
  <2>5. c \notin Undone(a)
    BY <2>3 DEF Undone
  <2>6. ASSUME NEW d \in Commands, d.kind = "unregister"
        PROVE  [id |-> d.id, of |-> d.of] \in compensatingLogs'
               <=> [id |-> d.id, of |-> d.of] \in compensatingLogs \/ d = c
    <3>1. [id |-> d.id, of |-> d.of] = undone <=> d = c
      BY <1>1, <1>3, <2>6 DEF CompensationsAreDistinct
    <3> QED
      BY <2>2, <3>1
  <2>7. Undone(a)' = IF c.aggregate = a THEN Undone(a) \cup {c} ELSE Undone(a)
    BY <1>1, <1>3, <2>6 DEF Undone
  <2> QED
    BY <1>3, <2>4, <2>5, <2>7
<1>4. c.kind \in {"register", "unregister"}
  BY <1>1, TxConsumerAssumption
<1> QED
  BY <1>2, <1>3, <1>4

LEMMA CommitKeepsSums ==
    ASSUME LocksInv, CountInv, SumsInv, CompensationsAreDistinct, RowsTyped',
           NEW w \in Workers, Commits(w)
    PROVE  SumsInv'
<1> DEFINE matches(a) == aggregates[a] = Total(Logged(a)) - Total(Undone(a))
<1>1. \A a \in Aggregates : matches(a)
  BY DEF SumsInv, AggregatesMatchLogs, Logged, Undone
<1>2. wrote[w] = Statements \/ wrote[w] \in {{}, {"mark"}}
  BY DEF Commits, LocksInv, WorkerInv, WroteInOrder
<1>3. CASE wrote[w] \in {{}, {"mark"}}
  <2>1. UNCHANGED <<aggregates, logs, compensatingLogs>>
    BY <1>3 DEF Commits, ApplyTables
  <2> QED
    BY <2>1 DEF SumsInv, AggregatesMatchLogs, Undone
<1>4. CASE wrote[w] = Statements
  <2>1. PICK c : c = Command(w)
    OBVIOUS
  <2>2. c \in Commands /\ c.aggregate \in Aggregates /\ c.value \in Int
    BY <2>1, CommandKnown, TxConsumerAssumption DEF Commits, LocksInv, WorkerInv
  <2>3. ASSUME NEW a \in Aggregates
        PROVE  IsFiniteSet(Undone(a))' /\ matches(a)'
    <3>1. /\ IsFiniteSet(Logged(a)) /\ IsFiniteSet(Undone(a))
          /\ Total(Logged(a)) \in Int /\ Total(Undone(a)) \in Int
      <4>1. IsFiniteSet(Logged(a)) /\ \A row \in Logged(a) : row.value \in Int
        BY FS_Subset DEF CountInv, TablesTyped, SumsInv, RowsTyped, Logged
      <4>2. IsFiniteSet(Undone(a)) /\ \A d \in Undone(a) : d.value \in Int
        BY TxConsumerAssumption DEF SumsInv, Undone
      <4> QED
        BY <4>1, <4>2, TotalType
    <3>2. aggregates'[a] = IF c.aggregate = a THEN aggregates[a] + Ledger!Delta(c) ELSE aggregates[a]
      <4>1. "aggregate" \in wrote[w]
        BY <1>4 DEF Statements
      <4> QED
        BY <2>1, <2>2, <4>1, CommittedRows DEF LocksInv, Typed
    <3>3. CASE c.kind = "register"
      <4>1. Ledger!Delta(c) = c.value
        BY <3>3 DEF Ledger!Delta, Ledger!Compensating
      <4>2. PICK row : row = [id |-> c.id, aggregate |-> c.aggregate, value |-> c.value]
        OBVIOUS
      <4>3. /\ Undone(a)' = Undone(a) /\ row \notin Logged(a)
            /\ Logged(a)' = IF c.aggregate = a THEN Logged(a) \cup {row} ELSE Logged(a)
        BY <1>4, <2>1, <3>3, <4>2, CommittedRowsOf DEF Logged
      <4>4. Total(Logged(a) \cup {row}) = Total(Logged(a)) + row.value
        <5>1. row.value \in Int /\ \A x \in Logged(a) : x.value \in Int
          BY <2>2, <4>2 DEF SumsInv, RowsTyped, Logged
        <5> QED
          BY <3>1, <4>3, <5>1, TotalAdd
      <4>5. Total(Logged(a))' = Total(Logged(a)') /\ Total(Undone(a))' = Total(Undone(a)')
        OBVIOUS
      <4> QED
        BY <1>1, <2>2, <3>1, <3>2, <4>1, <4>2, <4>3, <4>4, <4>5
    <3>4. CASE c.kind = "unregister"
      <4>1. Ledger!Delta(c) = -c.value
        BY <3>4 DEF Ledger!Delta, Ledger!Compensating
      <4>2. /\ Logged(a)' = Logged(a) /\ c \notin Undone(a)
            /\ Undone(a)' = IF c.aggregate = a THEN Undone(a) \cup {c} ELSE Undone(a)
        BY <1>4, <2>1, <3>4, CommittedRowsOf
      <4>3. IsFiniteSet(Undone(a) \cup {c})
        BY <3>1, FS_AddElement
      <4>4. Total(Undone(a) \cup {c}) = Total(Undone(a)) + c.value
        <5>1. \A x \in Undone(a) : x.value \in Int
          BY TxConsumerAssumption DEF Undone
        <5> QED
          BY <2>2, <3>1, <4>2, <5>1, TotalAdd
      <4>5. Total(Logged(a))' = Total(Logged(a)') /\ Total(Undone(a))' = Total(Undone(a)')
        OBVIOUS
      <4> QED
        BY <1>1, <2>2, <3>1, <3>2, <4>1, <4>2, <4>3, <4>4, <4>5
    <3> QED
      BY <2>2, <3>3, <3>4, TxConsumerAssumption
  <2> QED
    BY <2>3 DEF SumsInv, AggregatesMatchLogs, Logged, Undone
<1> QED
  BY <1>2, <1>3, <1>4

\* The three repositories agree whenever no transaction is half applied: whatever fails or
\* is retried, the sums of the logs are the aggregates (sagaadapters/tx.go:45-63).
THEOREM AggregatesStayMatched ==
    ASSUME CompensationsAreDistinct
    PROVE  Spec => []AggregatesMatchLogs
<1> DEFINE Known == LocksInv /\ CountInv /\ \A w \in Workers : AlarmDue(w)
<1>1. Init => SumsInv
  <2> SUFFICES ASSUME Init PROVE SumsInv
    OBVIOUS
  <2>1. RowsTyped
    BY DEF Init, HandlingInit, RowsTyped
  <2>2. ASSUME NEW a \in Aggregates
        PROVE  Logged(a) = {} /\ Undone(a) = {} /\ aggregates[a] = 0
    BY DEF Init, Logged, Undone
  <2>3. Total({}) = 0 /\ IsFiniteSet({})
    BY FS_EmptySet, TotalType
  <2>4. ASSUME NEW a \in Aggregates
        PROVE  IsFiniteSet(Undone(a)) /\ aggregates[a] = Total(Logged(a)) - Total(Undone(a))
    <3>1. Total(Logged(a)) = 0 /\ Total(Undone(a)) = 0 /\ IsFiniteSet(Undone(a)) /\ aggregates[a] = 0
      BY <2>2, <2>3
    <3> QED
      BY <3>1
  <2> QED
    BY <2>1, <2>4 DEF SumsInv, AggregatesMatchLogs, Logged, Undone
<1>2. Known /\ SumsInv /\ [Next]_vars => SumsInv'
  <2> SUFFICES ASSUME Known, SumsInv, [Next]_vars PROVE SumsInv'
    OBVIOUS
  <2>1. TablesTyped /\ RowsTyped'
    BY RowsStayTyped DEF CountInv, SumsInv
  <2>2. CASE UNCHANGED <<aggregates, logs, compensatingLogs>>
    BY <2>1, <2>2 DEF SumsInv, AggregatesMatchLogs, Undone
  <2>3. ASSUME NEW w \in Workers, Commits(w) PROVE SumsInv'
    BY <2>1, <2>3, CommitKeepsSums
  <2>4. UNCHANGED vars => UNCHANGED <<aggregates, logs, compensatingLogs>>
    BY DEF vars, tableVars
  <2>5. ASSUME NEW w \in Workers, Moves(w) \/ Ends(w)
        PROVE  UNCHANGED <<aggregates, logs, compensatingLogs>>
    BY <2>5 DEF Moves, Ends, tableVars
  <2> QED
    BY <2>1, <2>2, <2>3, <2>4, <2>5, StepShapes
<1>3. SumsInv => AggregatesMatchLogs
  BY DEF SumsInv
<1> QED
  BY <1>1, <1>2, <1>3, TablesInvariant, PTL DEF Spec

-----------------------------------------------------------------------------
(* Sagas.                                                                  *)

Sent(r) == topic[r[1]][r[2]]

\* What a compensation c and a record d of the same topic have to do with each other.
Accords(c, d) ==
    /\ d.kind = "register" => d.id # c.id
    /\ d.kind = "unregister" /\ d.of = c.of => d.id = c.id

\* No record of the same transaction lies before the registration r.
IsFirst(r) == Ledger!IsFirstOf(topic[r[1]], r[2], Sent(r).id)

InLog(t) == \E row \in logs : row.id = t

Remaining(a) == {row \in logs : row.aggregate = a /\ ~Compensated(processed, row.id)}

\* Rows are of records of the topic, and a record is in hand when its turn has come.
OriginInv ==
    /\ RowsTyped
    /\ \A w \in Workers : pc[w] # "idle" => EarlierDone(at[w])
    /\ \A w \in Workers : pc[w] = "commit" /\ wrote[w] = {} => Handled(processed, Command(w).id)
    /\ \A row \in processed : \E r \in Records : ~IsPoison(Sent(r)) /\ row = RowOf(Sent(r))
    /\ \A row \in logs : \E r \in Records :
          /\ Sent(r).kind = "register"
          /\ row = [id |-> Sent(r).id, aggregate |-> Sent(r).aggregate, value |-> Sent(r).value]
    /\ \A x, y \in logs : x.id = y.id => x = y

\* A transaction that is done, handled or compensated was executed, with the content of its
\* first registration in a partition, and what remains in an aggregate is what was not
\* compensated.
Unwound ==
    /\ \A r \in Records :
          /\ Sent(r).kind = "register"
          /\ r \in done \/ Handled(processed, Sent(r).id) \/ Compensated(processed, Sent(r).id)
          => InLog(Sent(r).id)
    /\ \A row \in logs : \E r \in Records :
          /\ Sent(r).kind = "register" /\ IsFirst(r)
          /\ row = [id |-> Sent(r).id, aggregate |-> Sent(r).aggregate, value |-> Sent(r).value]
    /\ \A a \in Aggregates : aggregates[a] = Total(Remaining(a))

SagaInv == OriginInv /\ (dlq = {} => Unwound)

\* What the order says of a compensation and another record.
LEMMA SagaAt ==
    ASSUME NEW content, Ledger!SagasInOrder(content),
           NEW p \in DOMAIN content, NEW n \in DOMAIN content[p],
           content[p][n].kind = "unregister",
           NEW q \in DOMAIN content, NEW k \in DOMAIN content[q]
    PROVE  /\ ~Ledger!Registers(content[q][k], content[p][n].id)
           /\ Ledger!Registers(content[q][k], content[p][n].of) => q = p
           /\ content[q][k].kind = "unregister" /\ content[q][k].of = content[p][n].of
                => content[q][k].id = content[p][n].id
BY DEF Ledger!SagasInOrder

\* What the order says of the records of the topic.
LEMMA SagaOrder ==
    ASSUME \A content \in Topics : Ledger!SagasInOrder(content), LocksInv,
           NEW r \in Records, Sent(r).kind = "unregister"
    PROVE  /\ \E e \in Records : /\ e[1] = r[1] /\ e[2] \in 1 .. r[2] - 1 /\ e = <<e[1], e[2]>>
                                 /\ Sent(e).kind = "register" /\ Sent(e).id = Sent(r).of /\ IsFirst(e)
                                 /\ Sent(e).aggregate = Sent(r).aggregate
                                 /\ Sent(e).value = Sent(r).value
           /\ \A e \in Records : /\ Accords(Sent(r), Sent(e))
                                 /\ Sent(e).kind = "register" /\ Sent(e).id = Sent(r).of => e[1] = r[1]
<1>1. Ledger!SagasInOrder(topic) /\ topic \in [Partitions -> Seq(Entries)]
  BY TransactionalAssumption DEF LocksInv, Typed
<1>2. \A p \in Partitions : DOMAIN topic[p] = 1 .. Len(topic[p]) /\ Len(topic[p]) \in Nat
  BY <1>1
<1>3. \A e \in Records : e[1] \in Partitions /\ e[2] \in 1 .. Len(topic[e[1]]) /\ e = <<e[1], e[2]>>
  BY DEF Records
<1>4. \A p \in Partitions : \A m \in 1 .. Len(topic[p]) : <<p, m>> \in Records
  BY DEF Records
<1>5. PICK p, n, c : p = r[1] /\ n = r[2] /\ c = Sent(r) /\ c = topic[p][n]
  BY DEF Sent
<1>6. p \in DOMAIN topic /\ n \in DOMAIN topic[p] /\ n \in 1 .. Len(topic[p])
  BY <1>1, <1>2, <1>3, <1>5
<1>7. PICK m \in 1 .. n - 1 : /\ Ledger!IsFirstOf(topic[p], m, c.of)
                              /\ topic[p][m].aggregate = c.aggregate /\ topic[p][m].value = c.value
  BY <1>1, <1>5, <1>6 DEF Ledger!SagasInOrder
<1>8. ASSUME NEW q \in DOMAIN topic, NEW k \in DOMAIN topic[q], NEW d, d = topic[q][k]
      PROVE  /\ ~Ledger!Registers(d, c.id)
             /\ Ledger!Registers(d, c.of) => q = p
             /\ d.kind = "unregister" /\ d.of = c.of => d.id = c.id
  BY <1>1, <1>5, <1>6, <1>8, SagaAt
<1>9. \E e \in Records : /\ e[1] = r[1] /\ e[2] \in 1 .. r[2] - 1 /\ e = <<e[1], e[2]>>
                         /\ Sent(e).kind = "register" /\ Sent(e).id = Sent(r).of /\ IsFirst(e)
                         /\ Sent(e).aggregate = Sent(r).aggregate
                         /\ Sent(e).value = Sent(r).value
  <2>1. m \in 1 .. Len(topic[p]) /\ p \in Partitions
    BY <1>1, <1>2, <1>6
  <2>2. PICK e : e = <<p, m>>
    OBVIOUS
  <2>3. e \in Records /\ e[1] = p /\ e[2] = m /\ Sent(e) = topic[p][m]
    BY <1>4, <2>1, <2>2 DEF Sent
  <2>4. Sent(e).kind = "register" /\ Sent(e).id = c.of
    BY <1>7, <2>3 DEF Ledger!IsFirstOf, Ledger!Registers
  <2>5. IsFirst(e)
    BY <1>7, <2>3, <2>4 DEF IsFirst
  <2> QED
    BY <1>5, <1>7, <2>2, <2>3, <2>4, <2>5
<1>10. ASSUME NEW e \in Records
       PROVE  /\ Accords(Sent(r), Sent(e))
              /\ Sent(e).kind = "register" /\ Sent(e).id = Sent(r).of => e[1] = r[1]
  <2>1. e[1] \in DOMAIN topic /\ e[2] \in DOMAIN topic[e[1]] /\ Sent(e) = topic[e[1]][e[2]]
    BY <1>1, <1>2, <1>3 DEF Sent
  <2> QED
    BY <1>5, <1>8, <2>1 DEF Accords, Ledger!Registers
<1> QED
  BY <1>9, <1>10

\* What a step of w does to its record.
Passes(w) ==
    /\ Bystanders(w) /\ UNCHANGED topic
    /\ done \subseteq done' /\ dlq \subseteq dlq'
    /\ \/ pc'[w] = "idle"
       \/ pc[w] # "idle" /\ at'[w] = at[w]
       \/ EarlierDone(at'[w])
    /\ pc'[w] = "commit" /\ wrote'[w] = {} => at'[w] = at[w] /\ Handled(processed, Command(w).id)
    /\ \/ Commits(w) /\ (dlq' = {} => done' \subseteq done \cup {at[w]})
       \/ UNCHANGED <<processed, aggregates, logs>> /\ (dlq' = {} => done' = done)

LEMMA PassingSteps ==
    ASSUME LocksInv, TablesTyped, [Next]_vars
    PROVE  UNCHANGED vars \/ \E w \in Workers : Passes(w)
<1> USE DEF Passes
<1>1. ASSUME NEW w \in Workers, RejectPoison(w) \/ FailStatement(w) PROVE Passes(w)
  <2>1. /\ EndAttempt(w) /\ KeepAttempt(w) /\ UNCHANGED <<topic, processed, aggregates, logs>>
        /\ DeadLetter(w) \/ UNCHANGED <<done, dlq>>
    BY <1>1 DEF RejectPoison, RejectRecord, FailStatement, RollBack, NothingElse, tableVars
  <2>2. Bystanders(w) /\ pc'[w] = "idle"
    BY <2>1, AttemptEnds DEF Apart
  <2> QED
    BY <2>1, <2>2 DEF DeadLetter
<1>2. ASSUME NEW w \in Workers, Commit(w) \/ CommitUnanswered(w) PROVE Passes(w)
  <2>1. /\ Commits(w)
        /\ \/ done' = done \cup {at[w]} /\ UNCHANGED dlq
           \/ DeadLetter(w) \/ UNCHANGED <<done, dlq>>
    BY <1>2 DEF Commit, CommitUnanswered, CommitTx, CommitTxUnanswered, Commits, Settle
  <2>2. Bystanders(w) /\ pc'[w] = "idle" /\ UNCHANGED topic
    BY <2>1, AttemptEnds DEF Apart, Commits
  <2> QED
    BY <2>1, <2>2 DEF DeadLetter
<1>3. ASSUME NEW w \in Workers, NEW r \in Records, Begin(w, r) PROVE Passes(w)
  <2>1. Moves(w)
    BY <1>3, MoveShapes
  <2>2. /\ UNCHANGED <<done, dlq>> /\ at'[w] = r /\ EarlierDone(r) /\ pc'[w] = "begun"
    BY <1>3 DEF Begin, BeginRecord, Goto, LocksInv, Typed
  <2> QED
    BY <2>1, <2>2 DEF Moves, Apart, tableVars
<1>4. ASSUME NEW w \in Workers, CheckHandled(w) PROVE Passes(w)
  <2>1. Moves(w)
    BY <1>4, MoveShapes
  <2>2. /\ UNCHANGED <<done, dlq, at>> /\ pc[w] = "begun"
        /\ pc'[w] = "commit" => Handled(processed, Command(w).id)
    BY <1>4, StatementOrder DEF CheckHandled, CheckHandledThen, deliveryVars, Goto, LocksInv, Typed
  <2> QED
    BY <2>1, <2>2 DEF Moves, Apart, tableVars
<1>5. ASSUME NEW w \in Workers,
             CheckCompensated(w) \/ ShiftAggregate(w) \/ ProduceAlarm(w) \/ UpdateCounts(w) \/ LockCounts(w)
      PROVE  Passes(w)
  <2>1. Moves(w)
    BY <1>5, MoveShapes
  <2>2. /\ UNCHANGED <<done, dlq, at>> /\ pc[w] # "idle" /\ pc'[w] # "commit"
    BY <1>5, StatementOrder
       DEF CheckCompensated, CheckCompensatedThen, ShiftAggregate, ProduceAlarm, UpdateCounts, LockCounts,
           Execute, deliveryVars, Goto, LocksInv, Typed
  <2> QED
    BY <2>1, <2>2 DEF Moves, Apart, tableVars
<1>6. ASSUME NEW w \in Workers, InsertLog(w) \/ Mark(w) PROVE Passes(w)
  <2>1. Moves(w) \/ Ends(w)
    BY <1>6, InsertShapes
  <2>2. Bystanders(w) /\ UNCHANGED <<topic, processed, aggregates, logs>>
    BY <2>1, AttemptEnds DEF Moves, Ends, Apart, tableVars
  <2>3. \/ DeadLetter(w) /\ pc'[w] = "idle"
        \/ /\ UNCHANGED <<done, dlq, at>> /\ pc[w] # "idle"
           /\ wrote'[w] # {}
    BY <1>6 DEF InsertLog, Mark, MarkHandled, Insert, Execute, EndAttempt, deliveryVars, Goto, LocksInv, Typed,
                Statements
  <2> QED
    BY <2>2, <2>3 DEF DeadLetter
<1>7. Idle => UNCHANGED vars
  BY DEF Idle
<1> QED
  BY <1>1, <1>2, <1>3, <1>4, <1>5, <1>6, <1>7 DEF Next

LEMMA SentKnown ==
    ASSUME LocksInv, NEW r \in Records, ~IsPoison(Sent(r))
    PROVE  /\ Sent(r) \in Commands /\ Sent(r).kind \in {"register", "unregister"}
           /\ Sent(r).kind = "register" => Sent(r).of = Sent(r).id
           /\ Compensating(Sent(r)) <=> Sent(r).kind = "unregister"
           /\ Sent(r).aggregate \in Aggregates /\ Sent(r).value \in Nat
<1>1. PICK p \in Partitions : r[1] = p /\ r[2] \in 1 .. Len(topic[p])
  BY DEF Records
<1>2. Sent(r) \in {topic[p][n] : n \in 1 .. Len(topic[p])}
  BY <1>1 DEF Sent
<1>3. Sent(r) \in Commands
  BY <1>2 DEF Commands, Entries, LocksInv, Typed
<1> QED
  BY <1>3, TxConsumerAssumption DEF Compensating

LEMMA RemainingTyped ==
    ASSUME LocksInv, CountInv, RowsTyped, NEW S \in SUBSET logs
    PROVE  IsFiniteSet(S) /\ (\A x \in S : x.value \in Int) /\ Total(S) \in Int
<1>1. IsFiniteSet(S) /\ \A x \in S : x.value \in Int
  BY FS_Subset DEF CountInv, TablesTyped, RowsTyped
<1> QED
  BY <1>1, TotalType

\* The commit of a transaction that was not compensated, and that was not executed before.
LEMMA RegisterUnwinds ==
    ASSUME LocksInv, CountInv, OriginInv, Unwound, TablesTyped',
           NEW w \in Workers, Commits(w), wrote[w] = Statements,
           NEW c, c = Command(w), c.kind = "register", done' \subseteq done \cup {at[w]}
    PROVE  Unwound'
<1> DEFINE row == [id |-> c.id, aggregate |-> c.aggregate, value |-> c.value]
<1>1. at[w] \in Records /\ ~IsPoison(c) /\ c = Sent(at[w])
  BY DEF Commits, LocksInv, WorkerInv, Command, Sent
<1>2. c.of = c.id /\ ~Compensating(c) /\ c.aggregate \in Aggregates /\ c.value \in Int
  BY <1>1, SentKnown
<1>3. /\ logs' = logs \cup {row} /\ ~InLog(c.id) /\ UNCHANGED topic
  BY <1>2, CommittedTables DEF Statements, CountInv, LogKeyTaken, InLog, Commits
<1>4. ~Compensated(processed, c.id)
  BY <1>1, <1>3 DEF Unwound
<1>5. processed' = processed \cup {RowOf(c)} /\ RowOf(c).id = c.id /\ RowOf(c).compensates = {}
  BY <1>2, CommittedRows DEF Statements, RowOf
<1>6. \A t : Compensated(processed', t) <=> Compensated(processed, t)
  BY <1>5 DEF Compensated
<1>7. \A t : Handled(processed', t) <=> Handled(processed, t) \/ t = c.id
  BY <1>5 DEF Handled
<1>8. \A t : InLog(t)' <=> InLog(t) \/ t = c.id
  <2>1. row.id = c.id
    OBVIOUS
  <2> HIDE DEF row
  <2> QED
    BY <1>3, <2>1 DEF InLog
<1>9. Records' = Records /\ \A r : Sent(r)' = Sent(r)
  BY <1>3 DEF Records, Sent
<1>10. ASSUME NEW a \in Aggregates PROVE aggregates'[a] = Total(Remaining(a)')
  <2>1. Remaining(a)' = IF a = c.aggregate THEN Remaining(a) \cup {row} ELSE Remaining(a)
    BY <1>3, <1>4, <1>6 DEF Remaining
  <2>2. row \notin Remaining(a)
    BY <1>3 DEF Remaining, InLog
  <2>3. Remaining(a) \in SUBSET logs
    BY DEF Remaining
  <2>4. Total(Remaining(a) \cup {row}) = Total(Remaining(a)) + c.value
    <3>1. IsFiniteSet(Remaining(a)) /\ \A x \in Remaining(a) : x.value \in Int
      BY <2>3, RemainingTyped DEF OriginInv
    <3>2. row.value = c.value
      OBVIOUS
    <3> HIDE DEF row
    <3> QED
      BY <1>2, <2>2, <3>1, <3>2, TotalAdd
  <2>5. aggregates'[a] = IF a = c.aggregate THEN aggregates[a] + c.value ELSE aggregates[a]
    <3>1. Ledger!Delta(c) = c.value
      BY DEF Ledger!Delta
    <3> QED
      BY <3>1, CommittedRows DEF Statements, LocksInv, Typed
  <2>6. aggregates[a] = Total(Remaining(a))
    BY DEF Unwound
  <2> HIDE DEF row
  <2> QED
    BY <2>1, <2>4, <2>5, <2>6
<1>11. \A a \in Aggregates : (aggregates[a] = Total(Remaining(a)))'
  BY <1>10
<1>12. ASSUME NEW r \in Records, Sent(r).kind = "register",
              r \in done' \/ Handled(processed', Sent(r).id) \/ Compensated(processed', Sent(r).id)
       PROVE  InLog(Sent(r).id)'
  <2>1. \/ r \in done \/ Handled(processed, Sent(r).id) \/ Compensated(processed, Sent(r).id)
        \/ Sent(r).id = c.id
    BY <1>1, <1>6, <1>7, <1>12
  <2>2. InLog(Sent(r).id) \/ Sent(r).id = c.id
    BY <1>12, <2>1 DEF Unwound
  <2> QED
    BY <1>8, <1>9, <2>2
<1>13. IsFirst(at[w])
  <2>1. PICK e : e = at[w]
    OBVIOUS
  <2>2. /\ e[1] \in Partitions /\ e[2] \in 1 .. Len(topic[e[1]]) /\ topic[e[1]] \in Seq(Entries)
        /\ EarlierDone(e)
    BY <1>1, <2>1, TransactionalAssumption DEF Records, LocksInv, Typed, Commits, OriginInv
  <2>3. ASSUME NEW k \in 1 .. e[2] - 1, Ledger!Registers(topic[e[1]][k], c.id) PROVE FALSE
    <3>1. PICK d : d = <<e[1], k>>
      OBVIOUS
    <3>2. k \in 1 .. Len(topic[e[1]])
      BY <2>2
    <3>3. d \in Records /\ Sent(d).kind = "register" /\ Sent(d).id = c.id
      BY <2>2, <2>3, <3>1, <3>2 DEF Records, Sent, Ledger!Registers
    <3>4. d \in done
      BY <2>2, <3>1 DEF EarlierDone
    <3> QED
      BY <1>3, <3>3, <3>4 DEF Unwound
  <2>4. Ledger!Registers(topic[e[1]][e[2]], c.id)
    BY <1>1, <2>1 DEF Sent, Ledger!Registers
  <2> QED
    BY <1>1, <2>1, <2>3, <2>4 DEF IsFirst, Ledger!IsFirstOf
<1>14. \A r : IsFirst(r)' <=> IsFirst(r)
  BY <1>3 DEF IsFirst, Sent
<1>15. ASSUME NEW x \in logs'
       PROVE  \E r \in Records :
                 /\ Sent(r).kind = "register" /\ IsFirst(r)
                 /\ x = [id |-> Sent(r).id, aggregate |-> Sent(r).aggregate, value |-> Sent(r).value]
  BY <1>1, <1>3, <1>13 DEF Unwound
<1> QED
  BY <1>9, <1>11, <1>12, <1>14, <1>15 DEF Unwound

\* The commit of a compensation takes back what its transaction added.
LEMMA UnregisterUnwinds ==
    ASSUME LocksInv, CountInv, OriginInv, Unwound, TablesTyped',
           \A content \in Topics : Ledger!SagasInOrder(content),
           NEW w \in Workers, Commits(w), wrote[w] = Statements,
           NEW c, c = Command(w), c.kind = "unregister", done' \subseteq done \cup {at[w]}
    PROVE  Unwound'
<1>1. at[w] \in Records /\ ~IsPoison(c) /\ c = Sent(at[w]) /\ EarlierDone(at[w])
  BY DEF Commits, LocksInv, WorkerInv, Command, Sent, OriginInv
<1>2. Compensating(c) /\ c.aggregate \in Aggregates /\ c.value \in Int
  BY <1>1, SentKnown
<1>3. UNCHANGED <<logs, topic>> /\ ~Handled(processed, c.id)
  BY <1>2, CommittedTables DEF Statements, Commits, LocksInv, WorkerInv, FitsTables
<1>4. processed' = processed \cup {RowOf(c)} /\ RowOf(c).id = c.id /\ RowOf(c).compensates = {c.of}
  BY <1>2, CommittedRows DEF Statements, RowOf
<1>5. /\ \A e \in Records : Accords(c, Sent(e))
      /\ \A e \in Records : Sent(e).kind = "register" /\ Sent(e).id = c.of => e[1] = at[w][1]
  BY <1>1, SagaOrder
<1>6. PICK first \in Records :
         /\ first[1] = at[w][1] /\ first[2] \in 1 .. at[w][2] - 1 /\ first = <<first[1], first[2]>>
         /\ Sent(first).kind = "register" /\ Sent(first).id = c.of /\ IsFirst(first)
         /\ Sent(first).aggregate = c.aggregate /\ Sent(first).value = c.value
  BY <1>1, SagaOrder
<1>7. PICK row \in logs : row.id = c.of
  <2>1. first \in done
    BY <1>1, <1>6 DEF EarlierDone
  <2> QED
    BY <1>6, <2>1 DEF Unwound, InLog
<1>8. row.aggregate = c.aggregate /\ row.value = c.value /\ \A x \in logs : x.id = c.of => x = row
  <2>1. PICK e \in Records : Sent(e).kind = "register" /\ IsFirst(e) /\
            row = [id |-> Sent(e).id, aggregate |-> Sent(e).aggregate, value |-> Sent(e).value]
    BY <1>7 DEF Unwound
  <2>2. Sent(e).id = c.of /\ e[1] = first[1]
    BY <1>5, <1>6, <1>7, <2>1
  <2>3. e = <<e[1], e[2]>> /\ e[2] \in Nat \ {0} /\ first[2] \in Nat \ {0}
    BY <1>6 DEF Records
  <2>4. e[2] = first[2]
    <3>1. ~(e[2] < first[2])
      <4>1. SUFFICES ASSUME e[2] \in 1 .. first[2] - 1 PROVE FALSE
        BY <2>3
      <4> QED
        BY <1>6, <2>1, <2>2, <4>1 DEF IsFirst, Ledger!IsFirstOf, Ledger!Registers, Sent
    <3>2. ~(first[2] < e[2])
      <4>1. SUFFICES ASSUME first[2] \in 1 .. e[2] - 1 PROVE FALSE
        BY <2>3
      <4> QED
        BY <1>6, <2>1, <2>2, <4>1 DEF IsFirst, Ledger!IsFirstOf, Ledger!Registers, Sent
    <3> QED
      BY <2>3, <3>1, <3>2
  <2>5. e = first
    BY <1>6, <2>2, <2>3, <2>4
  <2> QED
    BY <1>6, <1>7, <2>1, <2>5 DEF OriginInv
<1>9. ~Compensated(processed, c.of)
  <2>1. SUFFICES ASSUME NEW mark \in processed, c.of \in mark.compensates PROVE FALSE
    BY DEF Compensated
  <2>2. PICK e \in Records : ~IsPoison(Sent(e)) /\ mark = RowOf(Sent(e))
    BY DEF OriginInv
  <2>3. Sent(e).kind = "unregister" /\ Sent(e).of = c.of
    BY <2>1, <2>2, SentKnown DEF RowOf
  <2>4. mark.id = c.id
    BY <1>5, <2>2, <2>3 DEF Accords, RowOf
  <2> QED
    BY <1>3, <2>4 DEF Handled
<1>10. \A t : Compensated(processed', t) <=> Compensated(processed, t) \/ t = c.of
  BY <1>4 DEF Compensated
<1>11. \A t : Handled(processed', t) <=> Handled(processed, t) \/ t = c.id
  BY <1>4 DEF Handled
<1>12. Records' = Records /\ \A r : Sent(r)' = Sent(r) /\ \A t : InLog(t)' <=> InLog(t)
  BY <1>3 DEF Records, Sent, InLog
<1>13. ASSUME NEW a \in Aggregates PROVE aggregates'[a] = Total(Remaining(a)')
  <2>1. /\ row \notin Remaining(a)'
        /\ Remaining(a) = IF a = c.aggregate THEN Remaining(a)' \cup {row} ELSE Remaining(a)'
    BY <1>3, <1>7, <1>8, <1>9, <1>10 DEF Remaining
  <2>2. PICK S : S = Remaining(a)'
    OBVIOUS
  <2>3. S \in SUBSET logs
    BY <1>3, <2>2 DEF Remaining
  <2>4. IsFiniteSet(S) /\ (\A x \in S : x.value \in Int) /\ Total(S) \in Int
    BY <2>3, RemainingTyped DEF OriginInv
  <2>5. Total(S \cup {row}) = Total(S) + c.value
    BY <1>2, <1>8, <2>1, <2>2, <2>4, TotalAdd
  <2>6. aggregates'[a] = IF a = c.aggregate THEN aggregates[a] - c.value ELSE aggregates[a]
    <3>1. Ledger!Delta(c) = -c.value
      BY DEF Ledger!Delta
    <3>2. aggregates'[a] = IF a = c.aggregate THEN aggregates[a] + Ledger!Delta(c) ELSE aggregates[a]
      BY CommittedRows DEF Statements, LocksInv, Typed
    <3> QED
      BY <1>2, <3>1, <3>2 DEF LocksInv, Typed
  <2>7. aggregates[a] = Total(Remaining(a))
    BY DEF Unwound
  <2> QED
    BY <1>2, <2>1, <2>2, <2>4, <2>5, <2>6, <2>7
<1>14. \A a \in Aggregates : (aggregates[a] = Total(Remaining(a)))'
  BY <1>13
<1>15. ASSUME NEW r \in Records, Sent(r).kind = "register",
              r \in done' \/ Handled(processed', Sent(r).id) \/ Compensated(processed', Sent(r).id)
       PROVE  InLog(Sent(r).id)
  <2>1. r # at[w] /\ Sent(r).id # c.id
    BY <1>1, <1>5, <1>15 DEF Accords
  <2>2. InLog(c.of)
    BY <1>7 DEF InLog
  <2> QED
    BY <1>10, <1>11, <1>15, <2>1, <2>2 DEF Unwound
<1>16. \A r : IsFirst(r)' <=> IsFirst(r)
  BY <1>3 DEF IsFirst, Sent
<1> QED
  BY <1>3, <1>12, <1>14, <1>15, <1>16 DEF Unwound

\* The commit of an attempt that finds its command handled, or its transaction compensated.
LEMMA IgnoredUnwinds ==
    ASSUME LocksInv, CountInv, OriginInv, Unwound,
           NEW w \in Workers, Commits(w), wrote[w] # Statements,
           NEW c, c = Command(w), done' \subseteq done \cup {at[w]}
    PROVE  Unwound'
<1>1. at[w] \in Records /\ ~IsPoison(c) /\ c = Sent(at[w])
  BY DEF Commits, LocksInv, WorkerInv, Command, Sent
<1>2. \/ wrote[w] = {} /\ Handled(processed, c.id)
      \/ wrote[w] = {"mark"} /\ c.kind = "register" /\ Compensated(processed, c.id)
  BY <1>1, SentKnown
     DEF Commits, LocksInv, WorkerInv, WroteInOrder, Ignorable, OriginInv
<1>3. c.kind = "register" => InLog(c.id)
  BY <1>1, <1>2 DEF Unwound
<1>4. UNCHANGED <<aggregates, logs, topic>>
  BY <1>2 DEF Commits, ApplyTables
<1>5. processed' \in {processed, processed \cup {RowOf(c)}} /\ (wrote[w] = {} => processed' = processed)
  BY <1>2, CommittedRows
<1>6. wrote[w] = {"mark"} => RowOf(c).id = c.id /\ RowOf(c).compensates = {}
  BY <1>1, <1>2, SentKnown DEF RowOf
<1>7. \A t : Compensated(processed', t) <=> Compensated(processed, t)
  BY <1>2, <1>5, <1>6 DEF Compensated
<1>8. \A t : Handled(processed', t) => Handled(processed, t) \/ (t = c.id /\ c.kind = "register")
  BY <1>2, <1>5, <1>6 DEF Handled
<1>9. Records' = Records /\ \A r : Sent(r)' = Sent(r) /\ \A t : InLog(t)' <=> InLog(t)
  BY <1>4 DEF Records, Sent, InLog
<1>10. \A a \in Aggregates : aggregates'[a] = Total(Remaining(a)')
  <2>1. \A a : Remaining(a)' = Remaining(a)
    BY <1>4, <1>7 DEF Remaining
  <2> QED
    BY <1>4, <2>1 DEF Unwound
<1>11. \A a \in Aggregates : (aggregates[a] = Total(Remaining(a)))'
  BY <1>10
<1>12. ASSUME NEW r \in Records, Sent(r).kind = "register",
              r \in done' \/ Handled(processed', Sent(r).id) \/ Compensated(processed', Sent(r).id)
       PROVE  InLog(Sent(r).id)
  BY <1>1, <1>3, <1>7, <1>8, <1>12 DEF Unwound
<1>13. \A r : IsFirst(r)' <=> IsFirst(r)
  BY <1>4 DEF IsFirst, Sent
<1> QED
  BY <1>4, <1>9, <1>11, <1>12, <1>13 DEF Unwound

LEMMA OriginStep ==
    ASSUME LocksInv, CountInv, OriginInv, RowsTyped', NEW w \in Workers, Passes(w)
    PROVE  OriginInv'
<1>1. Bystanders(w) /\ UNCHANGED topic /\ done \subseteq done'
  BY DEF Passes
<1>2. Records' = Records /\ \A r : Sent(r)' = Sent(r)
  BY <1>1 DEF Records, Sent
<1>3. \A r : EarlierDone(r) => EarlierDone(r)'
  BY <1>1 DEF EarlierDone
<1>4. ASSUME NEW v \in Workers, pc'[v] # "idle" PROVE EarlierDone(at[v])'
  <2>1. PICK r : r = at'[v]
    OBVIOUS
  <2>2. EarlierDone(r)
    <3>1. CASE v = w
      BY <1>4, <2>1, <3>1 DEF Passes, OriginInv
    <3>2. CASE v # w
      BY <1>1, <1>4, <2>1, <3>2 DEF Bystanders, OriginInv
    <3> QED
      BY <3>1, <3>2
  <2>3. EarlierDone(r)'
    BY <1>3, <2>2
  <2> QED
    BY <2>1, <2>3 DEF EarlierDone
<1>5. processed \subseteq processed' /\ \A t : Handled(processed, t) => Handled(processed', t)
  <2>1. processed \subseteq processed'
    BY CommittedRows DEF Passes
  <2> QED
    BY <2>1 DEF Handled
<1>6. ASSUME NEW v \in Workers, pc'[v] = "commit", wrote'[v] = {}
      PROVE  Handled(processed', Command(v)'.id)
  <2>1. at'[v] = at[v] /\ Handled(processed, Command(v).id)
    <3>1. CASE v = w
      BY <1>6, <3>1 DEF Passes
    <3>2. CASE v # w
      BY <1>1, <1>6, <3>2 DEF Bystanders, OriginInv
    <3> QED
      BY <3>1, <3>2
  <2> QED
    BY <1>1, <1>5, <2>1 DEF Command
<1>7. CASE UNCHANGED <<processed, logs>>
  BY <1>2, <1>4, <1>6, <1>7 DEF OriginInv
<1>8. CASE Commits(w)
  <2>1. PICK c : c = Command(w)
    OBVIOUS
  <2>2. at[w] \in Records /\ ~IsPoison(c) /\ c = Sent(at[w])
    BY <1>8, <2>1 DEF Commits, LocksInv, WorkerInv, Command, Sent
  <2>3. \A row \in processed' : row \in processed \/ row = RowOf(c)
    BY <1>8, <2>1, CommittedRows
  <2>4. \A row \in processed' : \E r \in Records : ~IsPoison(Sent(r)) /\ row = RowOf(Sent(r))
    BY <2>2, <2>3 DEF OriginInv
  <2>5. logs' = logs \/ (c.kind = "register" /\ wrote[w] = Statements)
    BY <1>8, <2>1, <2>2, SentKnown
       DEF Commits, ApplyTables, LocksInv, WorkerInv, WroteInOrder
  <2>6. CASE logs' = logs
    BY <1>2, <1>4, <1>6, <2>4, <2>6 DEF OriginInv
  <2>7. CASE c.kind = "register" /\ wrote[w] = Statements
    <3> DEFINE new == [id |-> c.id, aggregate |-> c.aggregate, value |-> c.value]
    <3>0. ~Compensating(c) /\ ~LogKeyTaken(w)
      <4>1. ~Compensating(c)
        BY <2>2, <2>7, SentKnown
      <4> QED
        BY <2>7, <4>1 DEF CountInv, Statements
    <3>1. logs' = logs \cup {new} /\ \A row \in logs : row.id # c.id
      BY <1>8, <2>1, <2>7, <3>0, CommittedTables DEF LogKeyTaken
    <3>2. new.id = c.id
      OBVIOUS
    <3>3. \A row \in logs' : \E r \in Records :
             /\ Sent(r).kind = "register"
             /\ row = [id |-> Sent(r).id, aggregate |-> Sent(r).aggregate, value |-> Sent(r).value]
      BY <2>2, <2>7, <3>1 DEF OriginInv
    <3> HIDE DEF new
    <3>4. \A x, y \in logs' : x.id = y.id => x = y
      BY <3>1, <3>2 DEF OriginInv
    <3> QED
      BY <1>2, <1>4, <1>6, <2>4, <3>3, <3>4 DEF OriginInv
  <2> QED
    BY <2>5, <2>6, <2>7
<1> QED
  BY <1>7, <1>8 DEF Passes

LEMMA SagaStep ==
    ASSUME LocksInv, CountInv, TablesTyped', SagaInv, RowsTyped', [Next]_vars,
           \A content \in Topics : Ledger!SagasInOrder(content)
    PROVE  SagaInv'
<1>1. CASE UNCHANGED vars
  <2>1. UNCHANGED <<topic, done, dlq, pc, at, wrote, processed, logs, aggregates>>
    BY <1>1 DEF vars, handlingVars, deliveryVars, tableVars
  <2>2. /\ Records' = Records /\ \A r : Sent(r)' = Sent(r) /\ \A w : Command(w)' = Command(w)
        /\ \A t : InLog(t)' <=> InLog(t)
        /\ \A a : Remaining(a)' = Remaining(a)
        /\ \A r : EarlierDone(r)' <=> EarlierDone(r)
        /\ \A r : IsFirst(r)' <=> IsFirst(r)
    BY <2>1 DEF Records, Sent, Command, InLog, Remaining, EarlierDone, IsFirst
  <2>3. OriginInv'
    BY <2>1, <2>2 DEF SagaInv, OriginInv, EarlierDone
  <2>4. Unwound => Unwound'
    BY <2>1, <2>2 DEF Unwound
  <2> QED
    BY <2>1, <2>3, <2>4 DEF SagaInv
<1>2. ASSUME NEW w \in Workers, Passes(w), dlq' = {}, Unwound
      PROVE  Unwound'
  <2>1. CASE UNCHANGED <<processed, aggregates, logs>> /\ done' = done
    <3>1. /\ Records' = Records /\ \A r : Sent(r)' = Sent(r)
          /\ \A t : InLog(t)' <=> InLog(t)
          /\ \A a : Remaining(a)' = Remaining(a)
          /\ \A r : IsFirst(r)' <=> IsFirst(r)
      BY <1>2, <2>1 DEF Passes, Records, Sent, InLog, Remaining, IsFirst
    <3> QED
      BY <1>2, <2>1, <3>1 DEF Unwound
  <2>2. CASE Commits(w) /\ done' \subseteq done \cup {at[w]}
    <3>1. PICK c : c = Command(w)
      OBVIOUS
    <3>2. c.kind \in {"register", "unregister"}
      <4>1. at[w] \in Records /\ ~IsPoison(c) /\ c = Sent(at[w])
        BY <2>2, <3>1 DEF Commits, LocksInv, WorkerInv, Command, Sent
      <4> QED
        BY <4>1, SentKnown
    <3> QED
      BY <1>2, <2>2, <3>1, <3>2, RegisterUnwinds, UnregisterUnwinds, IgnoredUnwinds DEF SagaInv
  <2> QED
    BY <1>2, <2>1, <2>2 DEF Passes
<1>3. ASSUME NEW w \in Workers, Passes(w) PROVE SagaInv'
  <2>1. OriginInv'
    BY <1>3, OriginStep DEF SagaInv
  <2>2. dlq' = {} => dlq = {}
    BY <1>3 DEF Passes
  <2> QED
    BY <1>2, <1>3, <2>1, <2>2 DEF SagaInv
<1>4. TablesTyped
  BY DEF CountInv
<1> QED
  BY <1>1, <1>3, <1>4, PassingSteps

\* The saga unwinds: on a topic in which a compensation comes after the first registration
\* of its transaction, with the same content, and is the only one of it, what remains in the aggregates is what was not compensated, for any
\* faults, redeliveries and clients, as long as no record was dead-lettered
\* (saga/consumer.go:70-97 keeps no order itself).
THEOREM SagasUnwind ==
    ASSUME \A content \in Topics : Ledger!SagasInOrder(content)
    PROVE  Spec => []SagaUnwinds
<1> DEFINE Known == LocksInv /\ CountInv /\ \A w \in Workers : AlarmDue(w)
<1>1. Init => SagaInv
  <2> SUFFICES ASSUME Init PROVE SagaInv
    OBVIOUS
  <2>1. OriginInv
    BY DEF Init, HandlingInit, OriginInv, RowsTyped
  <2>2. ASSUME NEW a \in Aggregates PROVE aggregates[a] = Total(Remaining(a))
    <3>1. Remaining(a) = {} /\ aggregates[a] = 0
      BY DEF Init, Remaining
    <3>2. Total({}) = 0
      BY FS_EmptySet, TotalType
    <3> QED
      BY <3>1, <3>2
  <2>3. \A t : ~Handled(processed, t) /\ ~Compensated(processed, t)
    BY DEF Init, HandlingInit, Handled, Compensated
  <2> QED
    BY <2>1, <2>2, <2>3 DEF SagaInv, Unwound, Init, HandlingInit
<1>2. Known /\ Known' /\ SagaInv /\ [Next]_vars => SagaInv'
  <2> SUFFICES ASSUME Known, Known', SagaInv, [Next]_vars PROVE SagaInv'
    OBVIOUS
  <2>1. TablesTyped /\ TablesTyped' /\ RowsTyped'
    BY RowsStayTyped DEF CountInv, SagaInv, OriginInv
  <2> QED
    BY <2>1, SagaStep
<1>3. SagaInv => SagaUnwinds
  BY DEF SagaInv, Unwound, SagaUnwinds, NotCompensated, Remaining
<1> QED
  BY <1>1, <1>2, <1>3, TablesInvariant, PTL DEF Spec

=============================================================================
