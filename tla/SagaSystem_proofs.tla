--------------------------- MODULE SagaSystem_proofs ---------------------------
(***************************************************************************)
(* What tx-validator publishes and what it marks belong together, for every*)
(* transactions topic, any number of clients and any faults and            *)
(* redeliveries, beside a tx-consumer that reads the same topic.           *)
(***************************************************************************)
EXTENDS SagaSystem, CommitRun_proofs, FiniteSetTheorems, TLAPS

Statements == {"validate", "unregister", "mark"}

Places == {"idle", "begun", "validate", "unregister", "mark", "commit"}

\* The unregister commands that may be published.
Unregisters == UNION {{Unregister(n, c) : n \in Nat} : c \in Commands}

Typed ==
    /\ topic \in [Partitions -> Seq(Entries \cup Unregisters)]
    /\ pc \in [Workers -> Places]
    /\ at \in [Workers -> {NoRecord} \cup Records]
    /\ wrote \in [Workers -> SUBSET Statements]
    /\ verdicts \in [Workers -> Verdicts]
    /\ published \in Nat /\ wasted \in Nat
    /\ rejected \subseteq Commands

\* What an open transaction wrote, and its verdict, follow from where its worker is.
WroteInOrder(w) ==
    /\ pc[w] \in {"idle", "begun", "validate"} => wrote[w] = {} /\ verdicts[w] = "none"
    /\ pc[w] = "unregister" => wrote[w] = {"validate"} /\ verdicts[w] = "invalid"
    /\ pc[w] = "mark" =>
          \/ wrote[w] = {"validate"} /\ verdicts[w] = "valid"
          \/ wrote[w] = {"validate", "unregister"} /\ verdicts[w] = "invalid"
    /\ pc[w] = "commit" =>
          \/ wrote[w] = {} /\ verdicts[w] = "none"
          \/ wrote[w] = {"validate", "mark"} /\ verdicts[w] = "valid"
          \/ wrote[w] = Statements /\ verdicts[w] = "invalid"

\* The topic has an unregister command for c.
InTopic(c) == \E r \in Records : IsUnregister(r) /\ At(r).of = c.id /\ At(r).value = c.value

WorkerInv(w) ==
    /\ pc[w] # "idle" => at[w] \in Records
    /\ pc[w] \notin {"idle", "begun"} => Command(w) \in Commands
    /\ WroteInOrder(w)
    /\ "unregister" \in wrote[w] => InTopic(Command(w))
    /\ "mark" \in wrote[w] => ~Handled(processed, Command(w).id)

\* Two open transactions do not hold the same key.
Exclusive(v, w) == "mark" \in wrote[w] => ~HoldsKey(v, Command(w), "mark")

RejectedKnown ==
    \A c \in rejected : Handled(processed, c.id) /\ InTopic(c)

ValidatorInv ==
    /\ Typed
    /\ \A w \in Workers : WorkerInv(w)
    /\ \A v, w \in Workers : v # w => Exclusive(v, w)
    /\ RejectedKnown
    /\ CompensationFollows

-----------------------------------------------------------------------------
(* The topic.                                                              *)

LEMMA EntryKnown ==
    ASSUME Typed, NEW r \in Records
    PROVE  /\ r = <<r[1], r[2]>> /\ r[1] \in Partitions /\ r[2] \in 1 .. Len(topic[r[1]])
           /\ IsPoison(At(r)) \/ At(r) \in Commands \/ At(r) \in Unregisters
<1>1. PICK p \in Partitions : r \in {p} \X (1 .. Len(topic[p]))
  BY DEF Records
<1>2. r = <<p, r[2]>> /\ r[1] = p /\ r[2] \in 1 .. Len(topic[p])
  BY <1>1
<1>3. topic[p] \in Seq(Entries \cup Unregisters)
  BY DEF Typed
<1>4. topic[p][r[2]] \in Entries \cup Unregisters
  BY <1>2, <1>3
<1> QED
  BY <1>2, <1>4 DEF At, Commands

\* What a record may be.
LEMMA KindKnown ==
    ASSUME Typed, NEW r \in Records
    PROVE  /\ At(r) \in Commands <=> ~IsPoison(At(r)) /\ ~IsUnregister(r)
           /\ At(r) \in Commands => At(r).kind = "register" /\ At(r).value \in Values
           /\ IsUnregister(r) =>
                 \E n \in Nat, c \in Commands : At(r) = Unregister(n, c)
<1>1. \A c \in Commands : c.kind = "register" /\ c.value \in Values
  BY TxValidatorAssumption
<1>2. ASSUME At(r) \in Unregisters
      PROVE  (\E n \in Nat, c \in Commands : At(r) = Unregister(n, c)) /\ At(r).kind = "unregister"
  <2>1. PICK c \in Commands : At(r) \in {Unregister(n, c) : n \in Nat}
    BY <1>2 DEF Unregisters
  <2>2. PICK n \in Nat : At(r) = Unregister(n, c)
    BY <2>1
  <2>3. At(r).kind = "unregister"
    BY <2>2 DEF Unregister
  <2>4. \E m \in Nat, d \in Commands : At(r) = Unregister(m, d)
    BY <2>2
  <2> QED
    BY <2>3, <2>4
<1> QED
  BY <1>1, <1>2, EntryKnown DEF IsPoison, IsUnregister

\* Records are only added to the topic.
TopicGrows == Records \subseteq Records' /\ \A r \in Records : At(r)' = At(r)

LEMMA TopicStays ==
    ASSUME UNCHANGED topic
    PROVE  TopicGrows /\ Records' = Records
BY DEF TopicGrows, Records, At

LEMMA PublishGrows ==
    ASSUME Typed, NEW w \in Workers, at[w] \in Records, Command(w) \in Commands,
           Publish(w, at[w][1])
    PROVE  /\ TopicGrows /\ topic' \in [Partitions -> Seq(Entries \cup Unregisters)]
           /\ \E new :
                 /\ new = <<at[w][1], Len(topic[at[w][1]]) + 1>>
                 /\ new \notin Records /\ Records' = Records \cup {new}
                 /\ At(new)' = Unregister(published', Command(w))
<1> DEFINE p == at[w][1]
           e == Unregister(published', Command(w))
           last == Len(topic[p])
<1>0. PICK new : new = <<p, last + 1>>
  OBVIOUS
<1>1. published' = published + 1 /\ published' \in Nat /\ topic' = [topic EXCEPT ![p] = Append(@, e)]
  BY DEF Publish, Typed
<1>2. p \in Partitions /\ e \in Entries \cup Unregisters
  BY <1>1, EntryKnown DEF Unregisters
<1> HIDE DEF e
<1>3. topic[p] \in Seq(Entries \cup Unregisters) /\ last \in Nat
  BY <1>2 DEF Typed
<1>4. /\ topic'[p] = Append(topic[p], e)
      /\ \A q \in Partitions \ {p} : topic'[q] = topic[q]
  BY <1>1, <1>2 DEF Typed
<1>5. /\ Len(topic'[p]) = last + 1 /\ topic'[p][last + 1] = e
      /\ \A n \in 1 .. last : topic'[p][n] = topic[p][n]
      /\ topic'[p] \in Seq(Entries \cup Unregisters)
  BY <1>2, <1>3, <1>4
<1>6. topic' \in [Partitions -> Seq(Entries \cup Unregisters)]
  BY <1>1, <1>5 DEF Typed
<1>7. ASSUME NEW r \in Records PROVE r \in Records' /\ At(r)' = At(r) /\ r # new
  <2>1. r = <<r[1], r[2]>> /\ r[1] \in Partitions /\ r[2] \in 1 .. Len(topic[r[1]])
    BY EntryKnown
  <2>2. /\ r[2] \in 1 .. Len(topic'[r[1]]) /\ topic'[r[1]][r[2]] = topic[r[1]][r[2]]
        /\ r[1] = p => r[2] =< last
    <3>1. CASE r[1] = p
      BY <1>3, <1>5, <2>1, <3>1
    <3>2. CASE r[1] # p
      BY <1>4, <2>1, <3>2
    <3> QED
      BY <3>1, <3>2
  <2>3. r \in Records'
    BY <2>1, <2>2 DEF Records
  <2>4. r # new
    BY <1>0, <1>3, <2>1, <2>2
  <2> QED
    BY <2>2, <2>3, <2>4 DEF At
<1>8. ASSUME NEW r \in Records' PROVE r \in Records \cup {new}
  <2>1. PICK q \in Partitions : r \in {q} \X (1 .. Len(topic'[q]))
    BY <1>8 DEF Records
  <2>2. r = <<q, r[2]>> /\ r[2] \in 1 .. Len(topic'[q])
    BY <2>1
  <2>3. CASE q = p /\ r[2] = last + 1
    BY <1>0, <2>2, <2>3
  <2>4. CASE ~(q = p /\ r[2] = last + 1)
    <3>1. r[2] \in 1 .. Len(topic[q])
      BY <1>3, <1>4, <1>5, <2>2, <2>4
    <3> QED
      BY <2>1, <2>2, <3>1 DEF Records
  <2> QED
    BY <2>3, <2>4
<1>9. new \in Records'
  <2>1. last + 1 \in 1 .. Len(topic'[p])
    BY <1>3, <1>5
  <2> QED
    BY <1>0, <1>2, <2>1 DEF Records
<1>10. At(new)' = e
  BY <1>0, <1>5 DEF At
<1> QED
  BY <1>0, <1>6, <1>7, <1>8, <1>9, <1>10 DEF TopicGrows, e

-----------------------------------------------------------------------------
(* The steps of the validator.                                             *)

Bystanders(w) ==
    \A v \in Workers \ {w} :
        pc'[v] = pc[v] /\ at'[v] = at[v] /\ wrote'[v] = wrote[v] /\ verdicts'[v] = verdicts[v]

LEMMA CommandIsAt ==
    ASSUME NEW w
    PROVE  Command(w) = At(at[w]) /\ Command(w)' = At(at[w])'
BY DEF Command, At

\* A command that has its unregister command in the topic keeps it.
LEMMA InTopicStays ==
    ASSUME TopicGrows, NEW c, InTopic(c)
    PROVE  InTopic(c)'
<1>1. PICK r \in Records : IsUnregister(r) /\ At(r).of = c.id /\ At(r).value = c.value
  BY DEF InTopic
<1>2. r \in Records' /\ At(r)' = At(r)
  BY DEF TopicGrows
<1> QED
  BY <1>1, <1>2 DEF InTopic, IsUnregister

\* A worker that takes no part in a step keeps its invariant, if its key stays free.
LEMMA BystandersKeep ==
    ASSUME ValidatorInv, TopicGrows, NEW v \in Workers,
           pc'[v] = pc[v], at'[v] = at[v], wrote'[v] = wrote[v], verdicts'[v] = verdicts[v],
           "mark" \in wrote[v] => ~Handled(processed', Command(v).id)
    PROVE  WorkerInv(v)' /\ (pc[v] # "idle" => Command(v)' = Command(v))
<1>1. WorkerInv(v)
  BY DEF ValidatorInv
<1>2. pc[v] # "idle" => at[v] \in Records' /\ Command(v)' = Command(v)
  BY <1>1, CommandIsAt DEF WorkerInv, TopicGrows
<1>3. WroteInOrder(v)'
  BY <1>1 DEF WorkerInv, WroteInOrder
<1>4. wrote[v] # {} => pc[v] # "idle"
  BY <1>1 DEF WorkerInv, WroteInOrder
<1>5. "unregister" \in wrote'[v] => InTopic(Command(v))'
  <2>1. SUFFICES ASSUME "unregister" \in wrote[v]
                 PROVE  InTopic(Command(v))'
    OBVIOUS
  <2>2. PICK r \in Records : /\ IsUnregister(r) /\ At(r).of = Command(v).id
                             /\ At(r).value = Command(v).value
    BY <1>1, <2>1 DEF WorkerInv, InTopic
  <2>3. r \in Records' /\ At(r)' = At(r) /\ Command(v)' = Command(v)
    BY <1>2, <1>4, <2>1 DEF TopicGrows
  <2> QED
    BY <2>2, <2>3 DEF InTopic, IsUnregister
<1> QED
  BY <1>1, <1>2, <1>3, <1>4, <1>5 DEF WorkerInv

\* Keys are held by the same transactions.
LEMMA ExclusiveKept ==
    ASSUME ValidatorInv, TopicGrows, NEW w \in Workers, Bystanders(w),
           "mark" \in wrote'[w] => Command(w)' = Command(w),
           "mark" \in wrote'[w] \ wrote[w] =>
               \A v \in Workers \ {w} : ~HoldsKey(v, Command(w), "mark")
    PROVE  \A u, v \in Workers : u # v => Exclusive(u, v)'
<1>1. ASSUME NEW v \in Workers \ {w}, "mark" \in wrote'[v]
      PROVE  "mark" \in wrote[v] /\ Command(v)' = Command(v)
  <2>1. wrote'[v] = wrote[v] /\ at'[v] = at[v] /\ pc[v] # "idle" /\ at[v] \in Records
    BY <1>1 DEF Bystanders, ValidatorInv, WorkerInv, WroteInOrder
  <2> QED
    BY <1>1, <2>1, CommandIsAt DEF TopicGrows
<1>2. SUFFICES ASSUME NEW u \in Workers, NEW v \in Workers, u # v,
                      "mark" \in wrote'[u], "mark" \in wrote'[v]
               PROVE  Command(u)'.id # Command(v)'.id
  BY DEF Exclusive, HoldsKey
<1>3. Command(u)' = Command(u) /\ Command(v)' = Command(v)
  BY <1>1, <1>2
<1>4. CASE u # w /\ v # w
  BY <1>1, <1>2, <1>3, <1>4 DEF ValidatorInv, Exclusive, HoldsKey
<1>5. CASE u = w
  <2>1. "mark" \in wrote[v]
    BY <1>1, <1>2, <1>5
  <2>2. CASE "mark" \in wrote[w]
    BY <1>2, <1>3, <1>5, <2>1, <2>2 DEF ValidatorInv, Exclusive, HoldsKey
  <2>3. CASE "mark" \notin wrote[w]
    BY <1>2, <1>3, <1>5, <2>1, <2>3 DEF HoldsKey
  <2> QED
    BY <2>2, <2>3
<1>6. CASE v = w
  <2>1. "mark" \in wrote[u]
    BY <1>1, <1>2, <1>6
  <2>2. CASE "mark" \in wrote[w]
    BY <1>2, <1>3, <1>6, <2>1, <2>2 DEF ValidatorInv, Exclusive, HoldsKey
  <2>3. CASE "mark" \notin wrote[w]
    BY <1>2, <1>3, <1>6, <2>1, <2>3 DEF HoldsKey
  <2> QED
    BY <2>2, <2>3
<1> QED
  BY <1>4, <1>5, <1>6

\* What was rejected stays handled and compensated, and what follows a registration does.
LEMMA HistoryKept ==
    ASSUME ValidatorInv, TopicGrows, processed \subseteq processed', rejected' = rejected
    PROVE  RejectedKnown' /\ (Records' = Records => CompensationFollows')
<1>1. RejectedKnown'
  <2>1. SUFFICES ASSUME NEW c \in rejected
                 PROVE  Handled(processed', c.id) /\ InTopic(c)'
    BY DEF RejectedKnown
  <2>2. Handled(processed, c.id) /\ InTopic(c)
    BY DEF ValidatorInv, RejectedKnown
  <2> QED
    BY <2>2, InTopicStays DEF Handled
<1>2. ASSUME Records' = Records
      PROVE  CompensationFollows'
  <2>1. SUFFICES ASSUME NEW r \in Records, IsUnregister(r)'
                 PROVE  (\E n \in 1 .. r[2] - 1 :
                            /\ At(<<r[1], n>>).kind = "register"
                            /\ At(<<r[1], n>>).id = At(r).of
                            /\ At(<<r[1], n>>).value = At(r).value)'
    BY <1>2 DEF CompensationFollows
  <2>2. At(r)' = At(r) /\ IsUnregister(r)
    BY <2>1 DEF TopicGrows, IsUnregister
  <2>3. PICK n \in 1 .. r[2] - 1 : /\ At(<<r[1], n>>).kind = "register"
                                   /\ At(<<r[1], n>>).id = At(r).of
                                   /\ At(<<r[1], n>>).value = At(r).value
    BY <2>2 DEF ValidatorInv, CompensationFollows
  <2>4. <<r[1], n>> \in Records
    <3>1. r = <<r[1], r[2]>> /\ r[1] \in Partitions /\ r[2] \in 1 .. Len(topic[r[1]])
      BY EntryKnown DEF ValidatorInv
    <3>2. Len(topic[r[1]]) \in Nat
      BY <3>1 DEF ValidatorInv, Typed
    <3>3. n \in 1 .. Len(topic[r[1]])
      BY <3>1, <3>2
    <3> QED
      BY <3>1, <3>3 DEF Records
  <2>5. At(<<r[1], n>>)' = At(<<r[1], n>>)
    BY <2>4 DEF TopicGrows
  <2> QED
    BY <2>2, <2>3, <2>5
<1> QED
  BY <1>1, <1>2

\* An attempt ends without a commit, by a failure or because there is nothing to handle.
Ends(w) ==
    /\ pc[w] # "idle" /\ EndAttempt(w)
    /\ UNCHANGED <<topic, processed, published, rejected>>
    /\ verdicts' = [verdicts EXCEPT ![w] = "none"]
    /\ wasted' = IF "unregister" \in wrote[w] THEN wasted + 1 ELSE wasted

LEMMA EndsKeeps ==
    ASSUME ValidatorInv, NEW w \in Workers, Ends(w)
    PROVE  ValidatorInv' /\ Bystanders(w) /\ pc'[w] = "idle" /\ wrote'[w] = {}
<1>1. /\ pc'[w] = "idle" /\ wrote'[w] = {} /\ verdicts'[w] = "none" /\ Bystanders(w)
      /\ UNCHANGED <<topic, processed, rejected>>
  BY DEF Ends, EndAttempt, Goto, Bystanders, ValidatorInv, Typed
<1>2. TopicGrows /\ Records' = Records
  BY <1>1, TopicStays
<1>3. Typed'
  BY <1>2 DEF Ends, EndAttempt, Goto, ValidatorInv, Typed, Places, Verdicts
<1>4. ASSUME NEW v \in Workers PROVE WorkerInv(v)'
  <2>1. CASE v = w
    BY <1>1, <2>1 DEF WorkerInv, WroteInOrder
  <2>2. CASE v # w
    BY <1>1, <1>2, <2>2, BystandersKeep DEF Bystanders, ValidatorInv, WorkerInv
  <2> QED
    BY <2>1, <2>2
<1>5. \A u, v \in Workers : u # v => Exclusive(u, v)'
  BY <1>1, <1>2, ExclusiveKept
<1>6. RejectedKnown' /\ CompensationFollows'
  BY <1>1, <1>2, HistoryKept
<1> QED
  BY <1>1, <1>3, <1>4, <1>5, <1>6 DEF ValidatorInv

\* An attempt begins, or goes on without a publication.
Moves(w) ==
    /\ pc'[w] \in Places \ {"idle"} /\ wrote'[w] \in SUBSET Statements
    /\ at'[w] \in Records
    /\ pc' = [pc EXCEPT ![w] = pc'[w]] /\ at' = [at EXCEPT ![w] = at'[w]]
    /\ wrote' = [wrote EXCEPT ![w] = wrote'[w]]
    /\ verdicts' = [verdicts EXCEPT ![w] = verdicts'[w]] /\ verdicts'[w] \in Verdicts
    /\ "unregister" \in wrote[w] <=> "unregister" \in wrote'[w]
    /\ "unregister" \in wrote[w] \/ "mark" \in wrote'[w] => at'[w] = at[w]
    /\ UNCHANGED <<topic, processed, published, rejected, wasted>>

\* It goes on as its statements allow.
GoesOn(w) ==
    /\ Moves(w) /\ WroteInOrder(w)'
    /\ pc'[w] # "begun" => at'[w] = at[w] /\ Command(w) \in Commands
    /\ "mark" \in wrote'[w] => ~Handled(processed, Command(w).id)
    /\ "mark" \in wrote'[w] \ wrote[w] =>
          \A v \in Workers \ {w} : ~HoldsKey(v, Command(w), "mark")

LEMMA MovesKeeps ==
    ASSUME ValidatorInv, NEW w \in Workers, GoesOn(w)
    PROVE  /\ ValidatorInv' /\ Bystanders(w)
           /\ "unregister" \in wrote[w] => Command(w)' = Command(w)
<1>0. Moves(w) /\ WroteInOrder(w)'
  BY DEF GoesOn
<1>1. Bystanders(w) /\ UNCHANGED <<topic, processed, rejected>>
  BY DEF GoesOn, Moves, Bystanders, ValidatorInv, Typed
<1>2. TopicGrows /\ Records' = Records
  BY <1>1, TopicStays
<1>3. Typed'
  BY <1>2 DEF GoesOn, Moves, ValidatorInv, Typed
<1>4. at'[w] = at[w] => Command(w)' = Command(w)
  BY <1>1 DEF Command
<1>5. ASSUME NEW v \in Workers PROVE WorkerInv(v)'
  <2>1. CASE v = w
    <3>1. pc'[w] # "idle" => at'[w] \in Records'
      BY <1>2 DEF GoesOn, Moves
    <3>2. "mark" \in wrote'[w] => ~Handled(processed', Command(w).id) /\ Command(w)' = Command(w)
      BY <1>1, <1>4 DEF GoesOn, Moves
    <3>3. "unregister" \in wrote'[w] => InTopic(Command(w)) /\ Command(w)' = Command(w)
      BY <1>1, <1>4 DEF GoesOn, Moves, ValidatorInv, WorkerInv
    <3>4. "unregister" \in wrote'[w] => InTopic(Command(w))'
      <4>1. SUFFICES ASSUME "unregister" \in wrote'[w]
                     PROVE  InTopic(Command(w))'
        OBVIOUS
      <4>2. PICK r \in Records : /\ IsUnregister(r) /\ At(r).of = Command(w).id
                                 /\ At(r).value = Command(w).value
        BY <3>3, <4>1 DEF InTopic
      <4>3. At(r)' = At(r) /\ Command(w)' = Command(w)
        BY <1>2, <3>3, <4>1 DEF TopicGrows
      <4> QED
        BY <1>2, <4>2, <4>3 DEF InTopic, IsUnregister
    <3>5. pc'[w] \notin {"idle", "begun"} => Command(w)' \in Commands
      BY <1>4 DEF GoesOn
    <3> QED
      BY <1>0, <2>1, <3>1, <3>2, <3>4, <3>5 DEF WorkerInv
  <2>2. CASE v # w
    BY <1>1, <1>2, <2>2, BystandersKeep DEF Bystanders, ValidatorInv, WorkerInv
  <2> QED
    BY <2>1, <2>2
<1>6. \A u, v \in Workers : u # v => Exclusive(u, v)'
  <2>1. "mark" \in wrote'[w] => Command(w)' = Command(w)
    BY <1>4 DEF GoesOn, Moves
  <2> QED
    BY <1>1, <1>2, <2>1, ExclusiveKept DEF GoesOn
<1>7. RejectedKnown' /\ CompensationFollows'
  BY <1>1, <1>2, HistoryKept
<1>8. "unregister" \in wrote[w] => Command(w)' = Command(w)
  BY <1>4 DEF GoesOn, Moves
<1> QED
  BY <1>1, <1>3, <1>5, <1>6, <1>7, <1>8 DEF ValidatorInv

\* The unregister command is appended to the partition of its registration.
LEMMA ProduceKeeps ==
    ASSUME ValidatorInv, NEW w \in Workers, ProduceUnregister(w)
    PROVE  /\ ValidatorInv' /\ Bystanders(w) /\ TopicGrows
           /\ wrote'[w] = wrote[w] \cup {"unregister"} /\ "unregister" \notin wrote[w]
           /\ Command(w)' = Command(w)
           /\ published' = published + 1 /\ UNCHANGED <<processed, rejected, wasted>>
           /\ \E new : new \notin Records /\ Records' = Records \cup {new} /\ IsUnregister(new)'
<1>1. /\ pc[w] = "unregister" /\ Publish(w, at[w][1]) /\ Goto(w, "mark")
      /\ wrote' = [wrote EXCEPT ![w] = @ \cup {"unregister"}]
      /\ UNCHANGED <<at, processed, verdicts, rejected, wasted>>
  BY DEF ProduceUnregister, Published
<1>2. /\ at[w] \in Records /\ Command(w) \in Commands
      /\ wrote[w] = {"validate"} /\ verdicts[w] = "invalid"
  BY <1>1 DEF ValidatorInv, WorkerInv, WroteInOrder
<1>3. PICK new : /\ new = <<at[w][1], Len(topic[at[w][1]]) + 1>>
                 /\ new \notin Records /\ Records' = Records \cup {new}
                 /\ At(new)' = Unregister(published', Command(w))
  BY <1>1, <1>2, PublishGrows DEF ValidatorInv
<1>4. TopicGrows /\ topic' \in [Partitions -> Seq(Entries \cup Unregisters)]
  BY <1>1, <1>2, PublishGrows DEF ValidatorInv
<1>5. published' = published + 1
  BY <1>1 DEF Publish
<1>6. /\ pc'[w] = "mark" /\ wrote'[w] = {"validate", "unregister"} /\ at'[w] = at[w]
      /\ verdicts'[w] = "invalid" /\ Bystanders(w)
  BY <1>1, <1>2 DEF Goto, Bystanders, ValidatorInv, Typed
<1>7. Command(w)' = Command(w)
  BY <1>1, <1>2, <1>4, CommandIsAt DEF TopicGrows
<1>8. /\ At(new)'.kind = "unregister" /\ At(new)'.of = Command(w).id
      /\ At(new)'.value = Command(w).value
  BY <1>3 DEF Unregister
<1>9. Typed'
  BY <1>1, <1>3, <1>4, <1>5 DEF Goto, ValidatorInv, Typed, Places, Statements
<1>10. ASSUME NEW v \in Workers PROVE WorkerInv(v)'
  <2>1. CASE v = w
    <3>1. WroteInOrder(w)' /\ "mark" \notin wrote'[w]
      BY <1>6 DEF WroteInOrder
    <3>2. InTopic(Command(w))'
      BY <1>3, <1>7, <1>8 DEF InTopic, IsUnregister
    <3>3. at'[w] \in Records' /\ Command(w)' \in Commands
      BY <1>2, <1>3, <1>6, <1>7
    <3> QED
      BY <2>1, <3>1, <3>2, <3>3 DEF WorkerInv
  <2>2. CASE v # w
    BY <1>1, <1>4, <1>6, <2>2, BystandersKeep DEF Bystanders, ValidatorInv, WorkerInv
  <2> QED
    BY <2>1, <2>2
<1>11. \A u, v \in Workers : u # v => Exclusive(u, v)'
  BY <1>4, <1>6, <1>7, ExclusiveKept
<1>12. RejectedKnown'
  BY <1>1, <1>4, HistoryKept
<1>13. CompensationFollows'
  <2>1. SUFFICES ASSUME NEW r \in Records', IsUnregister(r)'
                 PROVE  \E n \in 1 .. r[2] - 1 :
                            /\ At(<<r[1], n>>)'.kind = "register"
                            /\ At(<<r[1], n>>)'.id = At(r)'.of
                            /\ At(<<r[1], n>>)'.value = At(r)'.value
    BY DEF CompensationFollows
  <2>2. CASE r \in Records
    <3>1. At(r)' = At(r) /\ IsUnregister(r)
      BY <1>4, <2>1, <2>2 DEF TopicGrows, IsUnregister
    <3>2. PICK n \in 1 .. r[2] - 1 : /\ At(<<r[1], n>>).kind = "register"
                                     /\ At(<<r[1], n>>).id = At(r).of
                                     /\ At(<<r[1], n>>).value = At(r).value
      BY <2>2, <3>1 DEF ValidatorInv, CompensationFollows
    <3>3. r = <<r[1], r[2]>> /\ r[1] \in Partitions /\ r[2] \in 1 .. Len(topic[r[1]])
      BY <2>2, EntryKnown DEF ValidatorInv
    <3>4. Len(topic[r[1]]) \in Nat
      BY <3>3 DEF ValidatorInv, Typed
    <3>5. n \in 1 .. Len(topic[r[1]])
      BY <3>3, <3>4
    <3>6. <<r[1], n>> \in Records
      BY <3>3, <3>5 DEF Records
    <3>7. At(<<r[1], n>>)' = At(<<r[1], n>>)
      BY <1>4, <3>6 DEF TopicGrows
    <3> QED
      BY <3>1, <3>2, <3>7
  <2>3. CASE r = new
    <3>1. /\ at[w] = <<at[w][1], at[w][2]>> /\ at[w][1] \in Partitions
          /\ at[w][2] \in 1 .. Len(topic[at[w][1]])
      BY <1>2, EntryKnown DEF ValidatorInv
    <3>2. Len(topic[at[w][1]]) \in Nat
      BY <3>1 DEF ValidatorInv, Typed
    <3>3. r[1] = at[w][1] /\ at[w][2] \in 1 .. r[2] - 1
      BY <1>3, <2>3, <3>1, <3>2
    <3>4. PICK s : s = at[w]
      OBVIOUS
    <3>5. At(s)' = Command(w) /\ Command(w).kind = "register" /\ s = <<r[1], s[2]>>
      BY <1>2, <1>4, <3>1, <3>3, <3>4, CommandIsAt, TxValidatorAssumption DEF TopicGrows
    <3> QED
      BY <1>8, <2>3, <3>3, <3>4, <3>5
  <2> QED
    BY <1>3, <2>1, <2>2, <2>3
<1>14. IsUnregister(new)'
  BY <1>8 DEF IsUnregister
<1> QED
  BY <1>1, <1>2, <1>3, <1>4, <1>5, <1>6, <1>7, <1>9, <1>10, <1>11, <1>12, <1>13, <1>14 DEF ValidatorInv

\* WithTx commits, whether its client is told or not.
Commits(w) ==
    /\ pc[w] = "commit" /\ ApplyMark(w) /\ EndAttempt(w) /\ EndSuccessful(w)
    /\ UNCHANGED topic

LEMMA CommittedMark ==
    ASSUME NEW w, ApplyMark(w), NEW id
    PROVE  /\ processed \subseteq processed'
           /\ Handled(processed', id) =>
                 Handled(processed, id) \/ ("mark" \in wrote[w] /\ id = Command(w).id)
           /\ "mark" \in wrote[w] => Handled(processed', Command(w).id)
<1>1. RowOf(Command(w)).id = Command(w).id
  BY DEF RowOf
<1>2. processed' = IF "mark" \in wrote[w] THEN processed \cup {RowOf(Command(w))} ELSE processed
  BY DEF ApplyMark
<1>3. CASE "mark" \in wrote[w]
  BY <1>1, <1>2, <1>3 DEF Handled
<1>4. CASE "mark" \notin wrote[w]
  BY <1>2, <1>4
<1> QED
  BY <1>3, <1>4

LEMMA CommitKeeps ==
    ASSUME ValidatorInv, NEW w \in Workers, Commits(w)
    PROVE  /\ ValidatorInv' /\ Bystanders(w) /\ pc'[w] = "idle" /\ wrote'[w] = {}
           /\ verdicts[w] = "invalid" <=> "unregister" \in wrote[w]
           /\ verdicts[w] = "invalid" => "mark" \in wrote[w]
<1>1. /\ pc'[w] = "idle" /\ wrote'[w] = {} /\ verdicts'[w] = "none" /\ Bystanders(w)
      /\ UNCHANGED topic /\ pc[w] = "commit"
  BY DEF Commits, EndSuccessful, EndAttempt, Goto, Bystanders, ValidatorInv, Typed
<1>2. TopicGrows /\ Records' = Records
  BY <1>1, TopicStays
<1>3. /\ verdicts[w] = "invalid" <=> "unregister" \in wrote[w]
      /\ verdicts[w] = "invalid" => "mark" \in wrote[w]
      /\ Command(w) \in Commands
  BY <1>1 DEF ValidatorInv, WorkerInv, WroteInOrder, Statements
<1>4. Typed'
  BY <1>2, <1>3 DEF Commits, EndSuccessful, EndAttempt, Goto, ValidatorInv, Typed, Places, Verdicts
<1>5. ASSUME NEW v \in Workers PROVE WorkerInv(v)'
  <2>1. CASE v = w
    BY <1>1, <2>1 DEF WorkerInv, WroteInOrder
  <2>2. CASE v # w
    <3>1. "mark" \in wrote[v] => ~Handled(processed', Command(v).id)
      BY <2>2, CommittedMark DEF Commits, ValidatorInv, WorkerInv, Exclusive, HoldsKey
    <3> QED
      BY <1>1, <1>2, <2>2, <3>1, BystandersKeep DEF Bystanders
  <2> QED
    BY <2>1, <2>2
<1>6. \A u, v \in Workers : u # v => Exclusive(u, v)'
  BY <1>1, <1>2, ExclusiveKept
<1>7. RejectedKnown'
  <2>1. SUFFICES ASSUME NEW c \in rejected'
                 PROVE  Handled(processed', c.id) /\ InTopic(c)'
    BY DEF RejectedKnown
  <2>2. CASE c \in rejected
    <3>1. Handled(processed, c.id) /\ InTopic(c)
      BY <2>2 DEF ValidatorInv, RejectedKnown
    <3> QED
      BY <1>2, <3>1, InTopicStays, CommittedMark DEF Commits, Handled
  <2>3. CASE c \notin rejected
    <3>1. c = Command(w) /\ verdicts[w] = "invalid"
      BY <2>1, <2>3 DEF Commits, EndSuccessful
    <3>2. InTopic(c)
      BY <1>3, <3>1 DEF ValidatorInv, WorkerInv
    <3> QED
      BY <1>2, <1>3, <3>1, <3>2, InTopicStays, CommittedMark DEF Commits
  <2> QED
    BY <2>2, <2>3
<1>8. CompensationFollows'
  <2>1. \A r \in Records : At(r)' = At(r)
    BY <1>2 DEF TopicGrows
  <2> QED
    BY <1>1, <1>2 DEF ValidatorInv, CompensationFollows, IsUnregister, At
<1> QED
  BY <1>1, <1>3, <1>4, <1>5, <1>6, <1>7, <1>8 DEF ValidatorInv

-----------------------------------------------------------------------------
(* Every step of the system is one of these.                               *)

\* A step of tx-consumer, or the end of a behaviour.
Elsewhere ==
    UNCHANGED <<topic, pc, at, wrote, processed, published, verdicts, rejected, wasted>>

LEMMA ValidatorStep ==
    ASSUME ValidatorInv, NEW w \in Workers,
           \/ RejectPoison(w) \/ SkipUnregister(w) \/ CheckHandled(w) \/ Validate(w)
           \/ ProduceUnregister(w) \/ Mark(w)
           \/ Commit(w) \/ CommitUnanswered(w) \/ Fail(w)
           \/ \E r \in Records : Begin(w, r)
    PROVE  Ends(w) \/ GoesOn(w) \/ ProduceUnregister(w) \/ Commits(w)
<1> USE DEF ValidatorInv, WorkerInv, WroteInOrder, Typed, Places, Verdicts, Statements
<1>1. ASSUME RejectPoison(w) PROVE Ends(w)
  BY <1>1 DEF RejectPoison, RejectRecord, Ends
<1>2. ASSUME SkipUnregister(w) PROVE Ends(w)
  BY <1>2 DEF SkipUnregister, Ends
<1>3. ASSUME CheckHandled(w) PROVE GoesOn(w)
  <2>1. at[w] \in Records /\ pc[w] = "begun" /\ ~IsPoison(Command(w)) /\ Command(w).kind # "unregister"
    BY <1>3 DEF CheckHandled, CheckHandledThen
  <2>2. Command(w) \in Commands
    BY <2>1, KindKnown, CommandIsAt DEF IsUnregister
  <2> QED
    BY <1>3, <2>1, <2>2 DEF CheckHandled, CheckHandledThen, Goto, deliveryVars, GoesOn, Moves
<1>4. ASSUME Validate(w) PROVE GoesOn(w)
  BY <1>4 DEF Validate, Execute, Goto, deliveryVars, GoesOn, Moves
<1>5. ASSUME Mark(w) PROVE Ends(w) \/ GoesOn(w)
  <2>1. CASE Handled(processed, Command(w).id)
    BY <1>5, <2>1 DEF Mark, MarkHandled, Insert, EndFailed, EndAttempt, Goto, Ends
  <2>2. CASE ~Handled(processed, Command(w).id)
    BY <1>5, <2>2
       DEF Mark, MarkHandled, Insert, Execute, EndFailed, Goto, deliveryVars, GoesOn, Moves
  <2> QED
    BY <2>1, <2>2
<1>6. ASSUME Commit(w) \/ CommitUnanswered(w) PROVE Commits(w)
  BY <1>6 DEF Commit, CommitTx, CommitUnanswered, CommitTxUnanswered, Commits
<1>7. ASSUME Fail(w) PROVE Ends(w)
  BY <1>7 DEF Fail, RollBack, EndFailed, EndAttempt, Goto, Ends
<1>8. ASSUME NEW r \in Records, Begin(w, r) PROVE GoesOn(w)
  BY <1>8 DEF Begin, BeginRecord, Goto, GoesOn, Moves
<1> QED
  BY <1>1, <1>2, <1>3, <1>4, <1>5, <1>6, <1>7, <1>8

LEMMA SystemStep ==
    ASSUME ValidatorInv, [SystemNext]_systemVars
    PROVE  \/ Elsewhere
           \/ \E w \in Workers : Ends(w) \/ GoesOn(w) \/ ProduceUnregister(w) \/ Commits(w)
<1>1. CASE UNCHANGED systemVars
  BY <1>1 DEF systemVars, vars, handlingVars, deliveryVars, Elsewhere
<1>2. CASE Validator
  <2>1. CASE Idle
    BY <2>1 DEF Idle, vars, handlingVars, deliveryVars, Elsewhere
  <2>2. CASE ~Idle
    BY <1>2, <2>2, ValidatorStep DEF Validator, Next
  <2> QED
    BY <2>1, <2>2
<1>3. ASSUME NEW r \in Records, Consume(r) \/ SetAside(r) PROVE Elsewhere
  BY <1>3 DEF Consume, SetAside, Deliver, Elsewhere
<1>4. CASE AtRest
  BY <1>4 DEF AtRest, systemVars, vars, handlingVars, deliveryVars, Elsewhere
<1> QED
  BY <1>1, <1>2, <1>3, <1>4 DEF SystemNext

LEMMA ElsewhereKeeps ==
    ASSUME ValidatorInv, Elsewhere
    PROVE  ValidatorInv'
<1>1. TopicGrows /\ Records' = Records
  BY TopicStays DEF Elsewhere
<1>2. ASSUME NEW w \in Workers PROVE WorkerInv(w)'
  BY <1>1, BystandersKeep DEF Elsewhere, ValidatorInv, WorkerInv
<1>3. \A v, w \in Workers : v # w => Exclusive(v, w)'
  BY DEF Elsewhere, ValidatorInv, Exclusive, HoldsKey, Command
<1>4. RejectedKnown' /\ CompensationFollows'
  BY <1>1, HistoryKept DEF Elsewhere
<1>5. Typed'
  BY <1>1 DEF Elsewhere, ValidatorInv, Typed
<1> QED
  BY <1>2, <1>3, <1>4, <1>5 DEF ValidatorInv

\* tx-producer writes registrations only.
LEMMA InitNoUnregister ==
    ASSUME SystemInit, NEW r \in Records
    PROVE  ~IsUnregister(r)
<1>1. topic \in [Partitions -> Seq(Entries)]
  BY TransactionalAssumption DEF SystemInit, Init, HandlingInit
<1>2. PICK p \in Partitions : r \in {p} \X (1 .. Len(topic[p]))
  BY DEF Records
<1>3. At(r) \in Entries
  BY <1>1, <1>2 DEF At
<1> QED
  BY <1>3, TxValidatorAssumption DEF Commands, IsPoison, IsUnregister

LEMMA InitValidator == SystemInit => ValidatorInv
<1> SUFFICES ASSUME SystemInit PROVE ValidatorInv
  OBVIOUS
<1> USE DEF SystemInit, Init, HandlingInit
<1>2. Typed
  <2>1. topic \in [Partitions -> Seq(Entries \cup Unregisters)]
    BY TransactionalAssumption
  <2> QED
    BY <2>1 DEF Typed, Places, Verdicts
<1>3. \A r \in Records : ~IsUnregister(r)
  BY InitNoUnregister
<1>4. \A w \in Workers : WorkerInv(w)
  BY DEF WorkerInv, WroteInOrder
<1>5. \A v, w \in Workers : v # w => Exclusive(v, w)
  BY DEF Exclusive
<1>6. CompensationFollows
  BY <1>3 DEF CompensationFollows
<1> QED
  BY <1>2, <1>4, <1>5, <1>6 DEF ValidatorInv, RejectedKnown

LEMMA ValidatorInvariant == SystemSpec => []ValidatorInv
<1>1. ValidatorInv /\ [SystemNext]_systemVars => ValidatorInv'
  BY SystemStep, ElsewhereKeeps, EndsKeeps, MovesKeeps, ProduceKeeps, CommitKeeps
<1> QED
  BY <1>1, InitValidator, PTL DEF SystemSpec

\* What undoes a transaction never lies before it
\* (kafka/validator_adapter_out.go:35-72).
THEOREM CompensationComesAfter ==
    SystemSpec => []CompensationFollows
<1>1. ValidatorInv => CompensationFollows
  BY DEF ValidatorInv
<1> QED
  BY <1>1, ValidatorInvariant, PTL

\* No retry, lost answer or redelivery drops the compensation of a rejected transaction
\* (domain/tx/validator.go:25-41 inside idempotent/consumer.go:31-56).
THEOREM RejectionIsCompensated ==
    SystemSpec => []RejectedAreCompensated
<1>1. ValidatorInv => RejectedAreCompensated
  BY DEF ValidatorInv, RejectedKnown, InTopic, RejectedAreCompensated
<1> QED
  BY <1>1, ValidatorInvariant, PTL

-----------------------------------------------------------------------------
(* The number of compensations.                                            *)

\* The ids of the registrations that were rejected.
Rejections == {c.id : c \in rejected}

\* The workers whose open transaction published.
Open == {w \in Workers : "unregister" \in wrote[w]}

CountInv == IsFiniteSet(Rejections) /\ CompensatedOncePerCommit

LEMMA OpenFinite == IsFiniteSet(Open) /\ Cardinality(Open) \in Nat
BY TransactionalAssumption, FS_Subset, FS_CardinalityType DEF Open

\* When the attempt of w is over, it does not count as open.
LEMMA OpenWithout ==
    ASSUME NEW w \in Workers, Bystanders(w), wrote'[w] = {}
    PROVE  Cardinality(Open') = Cardinality(Open) - (IF "unregister" \in wrote[w] THEN 1 ELSE 0)
<1>1. Open' = Open \ {w}
  BY DEF Open, Bystanders
<1>2. Cardinality(Open \ {w}) = IF w \in Open THEN Cardinality(Open) - 1 ELSE Cardinality(Open)
  BY OpenFinite, FS_RemoveElement
<1>3. w \in Open <=> "unregister" \in wrote[w]
  BY DEF Open
<1> QED
  BY <1>1, <1>2, <1>3, OpenFinite

LEMMA CountStep ==
    ASSUME ValidatorInv, CountInv, [SystemNext]_systemVars
    PROVE  CountInv'
<1> DEFINE open == Cardinality(Open)
           told == Cardinality(Rejections)
<1>0. /\ published =< told + wasted + open
      /\ published \in Nat /\ told \in Nat /\ wasted \in Nat /\ open \in Nat
  BY OpenFinite, FS_CardinalityType
     DEF CountInv, CompensatedOncePerCommit, Rejections, Open, ValidatorInv, Typed
<1>1. SUFFICES IsFiniteSet(Rejections') /\ published' =< Cardinality(Rejections') + wasted' + Cardinality(Open')
  BY DEF CountInv, CompensatedOncePerCommit, Rejections, Open
<1>2. CASE Elsewhere
  BY <1>0, <1>2 DEF Elsewhere, CountInv, Rejections, Open
<1>3. ASSUME NEW w \in Workers, Ends(w)
      PROVE  IsFiniteSet(Rejections') /\ published' =< Cardinality(Rejections') + wasted' + Cardinality(Open')
  <2>1. Cardinality(Open') = open - (IF "unregister" \in wrote[w] THEN 1 ELSE 0)
    BY <1>3, EndsKeeps, OpenWithout
  <2>2. /\ published' = published /\ Rejections' = Rejections
        /\ wasted' = IF "unregister" \in wrote[w] THEN wasted + 1 ELSE wasted
    BY <1>3 DEF Ends, Rejections
  <2> HIDE DEF open, told
  <2> QED
    BY <1>0, <2>1, <2>2 DEF CountInv, told
<1>4. ASSUME NEW w \in Workers, GoesOn(w)
      PROVE  IsFiniteSet(Rejections') /\ published' =< Cardinality(Rejections') + wasted' + Cardinality(Open')
  <2>1. Open' = Open
    BY <1>4, MovesKeeps DEF GoesOn, Moves, Bystanders, Open
  <2>2. UNCHANGED <<published, Rejections, wasted>>
    BY <1>4 DEF GoesOn, Moves, Rejections
  <2> QED
    BY <1>0, <2>1, <2>2 DEF CountInv
<1>5. ASSUME NEW w \in Workers, ProduceUnregister(w)
      PROVE  IsFiniteSet(Rejections') /\ published' =< Cardinality(Rejections') + wasted' + Cardinality(Open')
  <2>1. /\ Bystanders(w) /\ wrote'[w] = wrote[w] \cup {"unregister"} /\ "unregister" \notin wrote[w]
        /\ published' = published + 1 /\ UNCHANGED <<rejected, wasted>>
    BY <1>5, ProduceKeeps
  <2>2. Open' = Open \cup {w} /\ w \notin Open
    BY <2>1 DEF Bystanders, Open
  <2>3. Cardinality(Open') = open + 1
    BY <2>2, OpenFinite, FS_AddElement
  <2>4. Rejections' = Rejections
    BY <2>1 DEF Rejections
  <2> HIDE DEF open, told
  <2> QED
    BY <1>0, <2>1, <2>3, <2>4 DEF CountInv, told
<1>6. ASSUME NEW w \in Workers, Commits(w)
      PROVE  IsFiniteSet(Rejections') /\ published' =< Cardinality(Rejections') + wasted' + Cardinality(Open')
  <2>1. /\ Cardinality(Open') = open - (IF "unregister" \in wrote[w] THEN 1 ELSE 0)
        /\ verdicts[w] = "invalid" <=> "unregister" \in wrote[w]
        /\ verdicts[w] = "invalid" => "mark" \in wrote[w]
    BY <1>6, CommitKeeps, OpenWithout
  <2>2. /\ rejected' = IF verdicts[w] = "invalid" THEN rejected \cup {Command(w)} ELSE rejected
        /\ UNCHANGED <<published, wasted>>
    BY <1>6 DEF Commits, EndSuccessful
  <2>3. CASE verdicts[w] = "invalid"
    <3>1. Rejections' = Rejections \cup {Command(w).id}
      BY <2>2, <2>3 DEF Rejections
    <3>2. Command(w).id \notin Rejections
      BY <2>1, <2>3 DEF ValidatorInv, WorkerInv, RejectedKnown, Rejections
    <3>3. IsFiniteSet(Rejections') /\ Cardinality(Rejections') = told + 1
      BY <3>1, <3>2, FS_AddElement DEF CountInv
    <3> HIDE DEF open, told
    <3> QED
      BY <1>0, <2>1, <2>2, <2>3, <3>3
  <2>4. CASE verdicts[w] # "invalid"
    <3>1. Rejections' = Rejections
      BY <2>2, <2>4 DEF Rejections
    <3> HIDE DEF open, told
    <3> QED
      BY <1>0, <2>1, <2>2, <2>4, <3>1 DEF CountInv, told
  <2> QED
    BY <2>3, <2>4
<1> QED
  BY <1>1, <1>2, <1>3, <1>4, <1>5, <1>6, SystemStep

LEMMA CountInvariant == SystemSpec => []CountInv
<1>1. SystemInit => CountInv
  <2> SUFFICES ASSUME SystemInit PROVE CountInv
    OBVIOUS
  <2>1. Rejections = {} /\ Open = {} /\ published = 0 /\ wasted = 0
    BY DEF SystemInit, Init, HandlingInit, Rejections, Open
  <2> QED
    BY <2>1, FS_EmptySet DEF CountInv, CompensatedOncePerCommit, Rejections, Open
<1>2. ValidatorInv /\ CountInv /\ [SystemNext]_systemVars => CountInv'
  BY CountStep
<1> QED
  BY <1>1, <1>2, ValidatorInvariant, PTL DEF SystemSpec

\* No attempt but the one that commits leaves an unregister command that is not counted as
\* wasted, and a registration is rejected once (idempotent/consumer.go:31-56).
THEOREM CompensatedOnce ==
    SystemSpec => []CompensatedOncePerCommit
<1>1. CountInv => CompensatedOncePerCommit
  BY DEF CountInv
<1> QED
  BY <1>1, CountInvariant, PTL

-----------------------------------------------------------------------------
(* Types: what is consumed, handled and published are records of the topic.*)

UnregisterRecords == {r \in Records : IsUnregister(r)}

TypeInv ==
    /\ done \subseteq Records /\ dlq \subseteq done
    /\ redeliveries \in 0 .. MaxRedeliveries
    /\ faults \in 0 .. MaxFaults
    /\ \A w \in Workers : pc[w] = "idle" => at[w] = NoRecord
    /\ processed \subseteq {RowOf(c) : c \in Commands}
    /\ IsFiniteSet(UnregisterRecords) /\ published = Cardinality(UnregisterRecords)
    /\ setAside \subseteq consumed /\ consumed \subseteq Records
    /\ \A row \in ledger : \E r \in consumed : ~IsPoison(At(r)) /\ row = RowOf(At(r))
    /\ aggregates \in [Aggregates -> Int]

LEMMA TypesOK == ValidatorInv /\ TypeInv => SystemTypeOK
<1> SUFFICES ASSUME ValidatorInv, TypeInv PROVE SystemTypeOK
  OBVIOUS
<1>1. /\ \A w \in Workers : at[w] \in (IF pc[w] = "idle" THEN {NoRecord} ELSE Records)
      /\ \A w \in Workers : pc[w] = "unregister" => verdicts[w] = "invalid"
  BY DEF ValidatorInv, WorkerInv, WroteInOrder, TypeInv
<1>2. /\ pc \in [Workers -> {"idle", "begun", "compensated", "mark", "commit"} \cup {"validate", "unregister"}]
      /\ wrote \in [Workers -> SUBSET ({"mark"} \cup {"validate", "unregister"})]
  BY DEF ValidatorInv, Typed, Places, Statements
<1>3. HandlingTypeOK({"validate", "unregister"})
  BY <1>1, <1>2 DEF TypeInv, HandlingTypeOK
<1>4. TypeOK
  BY <1>1, <1>3 DEF TypeOK, TypeInv, ValidatorInv, Typed, UnregisterRecords
<1> QED
  BY <1>4 DEF TypeInv, SystemTypeOK

\* What a step of the validator does to the delivery of its records.
Delivers ==
    /\ done' \subseteq done \cup {at[w] : w \in {v \in Workers : pc[v] # "idle"}}
    /\ done \subseteq done'
    /\ dlq' \subseteq dlq \cup done'
    /\ redeliveries' \in 0 .. MaxRedeliveries
    /\ faults' \in 0 .. MaxFaults

LEMMA DeliveryStep ==
    ASSUME ValidatorInv, TypeInv, NEW w \in Workers,
           \/ RejectPoison(w) \/ SkipUnregister(w) \/ CheckHandled(w) \/ Validate(w)
           \/ ProduceUnregister(w) \/ Mark(w)
           \/ Commit(w) \/ CommitUnanswered(w) \/ Fail(w)
           \/ \E r \in Records : Begin(w, r)
    PROVE  Delivers
<1> USE TransactionalAssumption DEF TypeInv, Delivers
<1>1. CASE RejectPoison(w)
  BY <1>1 DEF RejectPoison, RejectRecord, DeadLetter
<1>2. CASE SkipUnregister(w)
  BY <1>2 DEF SkipUnregister, Settle
<1>3. CASE CheckHandled(w)
  BY <1>3 DEF CheckHandled, CheckHandledThen, deliveryVars
<1>4. CASE Validate(w)
  BY <1>4 DEF Validate, Execute, deliveryVars
<1>5. CASE ProduceUnregister(w)
  BY <1>5 DEF ProduceUnregister, Published
<1>6. CASE Mark(w)
  BY <1>6 DEF Mark, MarkHandled, Insert, Execute, DeadLetter, deliveryVars
<1>7. CASE Commit(w)
  BY <1>7 DEF Commit, CommitTx, Settle
<1>8. CASE CommitUnanswered(w)
  BY <1>8 DEF CommitUnanswered, CommitTxUnanswered, Fault, DeadLetter
<1>9. CASE Fail(w)
  BY <1>9 DEF Fail, RollBack, Fault, DeadLetter
<1>10. CASE \E r \in Records : Begin(w, r)
  BY <1>10 DEF Begin, BeginRecord
<1> QED
  BY <1>1, <1>2, <1>3, <1>4, <1>5, <1>6, <1>7, <1>8, <1>9, <1>10

\* The rows that are marked are those of registrations.
LEMMA MarksKept ==
    ASSUME ValidatorInv, TypeInv, NEW w \in Workers,
           Ends(w) \/ GoesOn(w) \/ ProduceUnregister(w) \/ Commits(w)
    PROVE  processed' \subseteq {RowOf(c) : c \in Commands}
<1>1. CASE Commits(w)
  <2>1. pc[w] = "commit" => Command(w) \in Commands
    BY DEF ValidatorInv, WorkerInv
  <2> QED
    BY <1>1, <2>1 DEF Commits, ApplyMark, TypeInv
<1>2. CASE Ends(w) \/ GoesOn(w) \/ ProduceUnregister(w)
  BY <1>2 DEF Ends, GoesOn, Moves, ProduceUnregister, Published, TypeInv
<1> QED
  BY <1>1, <1>2

\* Every publication is one more unregister record.
LEMMA RecordsCounted ==
    ASSUME ValidatorInv, TypeInv, NEW w \in Workers,
           Ends(w) \/ GoesOn(w) \/ ProduceUnregister(w) \/ Commits(w)
    PROVE  /\ IsFiniteSet(UnregisterRecords') /\ published' = Cardinality(UnregisterRecords')
           /\ TopicGrows
<1>1. CASE ProduceUnregister(w)
  <2>1. TopicGrows /\ published' = published + 1
    BY <1>1, ProduceKeeps
  <2>2. PICK new : new \notin Records /\ Records' = Records \cup {new} /\ IsUnregister(new)'
    BY <1>1, ProduceKeeps
  <2>3. \A r \in Records : IsUnregister(r)' = IsUnregister(r)
    BY <2>1 DEF TopicGrows, IsUnregister
  <2>4. UnregisterRecords' = UnregisterRecords \cup {new} /\ new \notin UnregisterRecords
    BY <2>2, <2>3 DEF UnregisterRecords
  <2> QED
    BY <2>1, <2>4, FS_AddElement DEF TypeInv
<1>2. CASE Ends(w) \/ GoesOn(w) \/ Commits(w)
  <2>1. UNCHANGED topic /\ published' = published
    BY <1>2 DEF Ends, GoesOn, Moves, Commits, EndSuccessful
  <2>2. UnregisterRecords' = UnregisterRecords
    BY <2>1 DEF UnregisterRecords, Records, IsUnregister, At
  <2> QED
    BY <2>1, <2>2, TopicStays DEF TypeInv
<1> QED
  BY <1>1, <1>2

\* A worker that ends its attempt has no record.
LEMMA IdleKept ==
    ASSUME ValidatorInv, TypeInv, NEW w \in Workers,
           Ends(w) \/ GoesOn(w) \/ ProduceUnregister(w) \/ Commits(w)
    PROVE  \A v \in Workers : pc'[v] = "idle" => at'[v] = NoRecord
<1>1. Bystanders(w)
  BY EndsKeeps, MovesKeeps, ProduceKeeps, CommitKeeps
<1>2. pc'[w] = "idle" => at'[w] = NoRecord
  BY DEF Ends, GoesOn, Moves, ProduceUnregister, Published, Commits, EndAttempt, Goto,
         ValidatorInv, Typed
<1> QED
  BY <1>1, <1>2 DEF Bystanders, TypeInv

LEMMA TypeStepValidator ==
    ASSUME ValidatorInv, TypeInv, NEW w \in Workers, UNCHANGED consumerVars,
           \/ RejectPoison(w) \/ SkipUnregister(w) \/ CheckHandled(w) \/ Validate(w)
           \/ ProduceUnregister(w) \/ Mark(w)
           \/ Commit(w) \/ CommitUnanswered(w) \/ Fail(w)
           \/ \E r \in Records : Begin(w, r)
    PROVE  TypeInv'
<1>1. Ends(w) \/ GoesOn(w) \/ ProduceUnregister(w) \/ Commits(w)
  BY ValidatorStep
<1>2. Delivers
  BY DeliveryStep
<1>3. TopicGrows
  BY <1>1, RecordsCounted
<1>4. done' \subseteq Records' /\ dlq' \subseteq done'
  BY <1>2, <1>3 DEF Delivers, TopicGrows, TypeInv, ValidatorInv, WorkerInv
<1>5. /\ setAside' \subseteq consumed' /\ consumed' \subseteq Records'
      /\ aggregates' \in [Aggregates -> Int]
      /\ \A row \in ledger' : \E r \in consumed' : ~IsPoison(At(r)') /\ row = RowOf(At(r)')
  BY <1>3 DEF consumerVars, TopicGrows, TypeInv
<1>6. /\ processed' \subseteq {RowOf(c) : c \in Commands}
      /\ IsFiniteSet(UnregisterRecords') /\ published' = Cardinality(UnregisterRecords')
      /\ \A v \in Workers : pc'[v] = "idle" => at'[v] = NoRecord
  BY <1>1, MarksKept, RecordsCounted, IdleKept
<1>7. redeliveries' \in 0 .. MaxRedeliveries /\ faults' \in 0 .. MaxFaults
  BY <1>2 DEF Delivers
<1> QED
  BY <1>4, <1>5, <1>6, <1>7 DEF TypeInv

\* What tx-consumer makes of a record of the topic is one of its commands.
LEMMA ToTxCommandTyped ==
    ASSUME ValidatorInv, NEW r \in Records, ~IsPoison(At(r))
    PROVE  /\ Ledger!RowOf(ToTxCommand(At(r))) = RowOf(At(r))
           /\ ToTxCommand(At(r)).aggregate \in Aggregates
           /\ Ledger!Delta(ToTxCommand(At(r))) \in Int
<1>1. At(r).value \in Values
  <2>1. CASE IsUnregister(r)
    <3>1. PICK n \in Nat, c \in Commands : At(r) = Unregister(n, c)
      BY <2>1, KindKnown DEF ValidatorInv
    <3> QED
      BY <3>1, TxValidatorAssumption DEF Unregister
  <2>2. CASE ~IsUnregister(r)
    BY <2>2, KindKnown DEF ValidatorInv
  <2> QED
    BY <2>1, <2>2
<1>2. At(r).value.aggregate \in Aggregates /\ At(r).value.amount \in Nat
  BY <1>1, SagaSystemAssumption
<1> QED
  BY <1>2 DEF ToTxCommand, RowOf, Compensating, Ledger!RowOf, Ledger!Compensating, Ledger!Delta

LEMMA TypeStepConsumer ==
    ASSUME ValidatorInv, TypeInv, NEW r \in Records, Consume(r) \/ SetAside(r)
    PROVE  TypeInv'
<1>1. /\ UNCHANGED <<topic, done, dlq, pc, at, wrote, processed, published>>
      /\ consumed' = consumed \cup {r}
  BY DEF Consume, SetAside, Deliver
<1>2. redeliveries' \in 0 .. MaxRedeliveries
  BY TransactionalAssumption DEF Consume, SetAside, Deliver, TypeInv
<1>3. faults' \in 0 .. MaxFaults
  BY TransactionalAssumption DEF Consume, SetAside, Fault, TypeInv
<1>4. setAside' \subseteq consumed' /\ consumed' \subseteq Records
  BY <1>1 DEF Consume, SetAside, TypeInv
<1>5. Records' = Records /\ UnregisterRecords' = UnregisterRecords
  BY <1>1 DEF Records, UnregisterRecords, IsUnregister, At
<1>6. /\ aggregates' \in [Aggregates -> Int]
      /\ ledger' \subseteq ledger \cup {RowOf(At(r))}
      /\ ledger' # ledger => ~IsPoison(At(r))
  <2>1. CASE SetAside(r)
    BY <2>1 DEF SetAside, TypeInv
  <2>2. CASE Consume(r)
    <3> DEFINE c == ToTxCommand(At(r))
    <3>1. ~IsPoison(At(r))
      BY <2>2 DEF Consume
    <3>2. Ledger!RowOf(c) = RowOf(At(r)) /\ c.aggregate \in Aggregates /\ Ledger!Delta(c) \in Int
      BY <3>1, ToTxCommandTyped
    <3>3. Ledger!Handle(c) \/ Ledger!Ignore(c) \/ UNCHANGED <<ledger, aggregates>>
      BY <2>2 DEF Consume
    <3> HIDE DEF c
    <3>4. ledger' \subseteq ledger \cup {RowOf(At(r))}
      BY <3>2, <3>3 DEF Ledger!Handle, Ledger!Ignore
    <3>5. aggregates' \in [Aggregates -> Int]
      BY <3>2, <3>3 DEF Ledger!Handle, Ledger!Ignore, TypeInv
    <3> QED
      BY <3>1, <3>4, <3>5
  <2> QED
    BY <2>1, <2>2
<1>7. \A row \in ledger' : \E s \in consumed' : ~IsPoison(At(s)) /\ row = RowOf(At(s))
  BY <1>1, <1>6 DEF TypeInv
<1>8. \A s : At(s)' = At(s)
  BY <1>1 DEF At
<1> QED
  BY <1>1, <1>2, <1>3, <1>4, <1>5, <1>6, <1>7, <1>8 DEF TypeInv

LEMMA TypeStep ==
    ASSUME ValidatorInv, TypeInv, [SystemNext]_systemVars
    PROVE  TypeInv'
<1>1. CASE UNCHANGED systemVars
  BY <1>1 DEF systemVars, vars, handlingVars, deliveryVars, consumerVars,
              TypeInv, UnregisterRecords, Records, IsUnregister, At
<1>2. CASE Validator /\ ~Idle
  BY <1>2, TypeStepValidator DEF Validator, Next
<1>3. CASE Validator /\ Idle
  <2>1. UNCHANGED systemVars
    BY <1>3 DEF Validator, Idle, systemVars
  <2> QED
    BY <1>1, <2>1
<1>4. CASE \E r \in Records : Consume(r) \/ SetAside(r)
  BY <1>4, TypeStepConsumer
<1>5. CASE AtRest
  BY <1>1, <1>5 DEF AtRest
<1> QED
  BY <1>1, <1>2, <1>3, <1>4, <1>5 DEF SystemNext

LEMMA InitTypes ==
    SystemInit => TypeInv
<1> SUFFICES ASSUME SystemInit PROVE TypeInv
  OBVIOUS
<1>1. UnregisterRecords = {}
  BY InitValidator, InitNoUnregister DEF UnregisterRecords
<1>2. published = Cardinality(UnregisterRecords) /\ IsFiniteSet(UnregisterRecords)
  BY <1>1, FS_EmptySet DEF SystemInit, Init
<1> QED
  BY <1>2, TransactionalAssumption
     DEF SystemInit, Init, HandlingInit, Ledger!Init, TypeInv

\* Whatever happens, both services consume records of the topic only, mark what they
\* consumed only, and the topic has one unregister record per publication.
THEOREM SystemTypes ==
    SystemSpec => []SystemTypeOK
<1>1. ValidatorInv /\ TypeInv /\ [SystemNext]_systemVars => TypeInv'
  BY TypeStep
<1> QED
  BY <1>1, InitTypes, TypesOK, ValidatorInvariant, PTL DEF SystemSpec

-----------------------------------------------------------------------------
(* Which registration of a transaction is judged.                          *)

\* No command is in the dead-letter topic of tx-validator, or in that of tx-consumer.
Judging == \A r \in dlq : IsPoison(At(r))
Applying == \A r \in setAside : IsPoison(At(r))

\* Every publication has an id of its own, and every transaction a partition.
IdsInv ==
    /\ \A r \in Records : IsUnregister(r) => \E n \in 1 .. published : At(r).id = <<n>>
    /\ \A r, s \in Records :
          IsUnregister(r) /\ IsUnregister(s) /\ At(r).id = At(s).id => r = s
    /\ \A r, s \in Records :
          IsRegister(r) /\ IsRegister(s) /\ At(r).id = At(s).id => r[1] = s[1]

\* Where a worker is.
PlacesInv ==
    \A w \in Workers :
        /\ pc[w] # "idle" => EarlierDone(at[w])
        /\ pc[w] = "commit" /\ wrote[w] = {} => Handled(processed, Command(w).id)

\* Without a dead letter every registration that is done is marked, so that only the first
\* of a transaction is judged.
FirstsInv ==
    /\ \A r \in done : IsRegister(r) => Handled(processed, At(r).id)
    /\ \A c \in rejected : \E r \in Records : IsFirst(r) /\ At(r) = c

JudgeInv == IdsInv /\ PlacesInv /\ (Judging => FirstsInv)

LEMMA EarlierRecord ==
    ASSUME Typed, NEW r \in Records, NEW n \in 1 .. r[2] - 1
    PROVE  <<r[1], n>> \in Records
<1>1. r[1] \in Partitions /\ r[2] \in 1 .. Len(topic[r[1]])
  BY EntryKnown
<1>2. topic[r[1]] \in Seq(Entries \cup Unregisters)
  BY <1>1 DEF Typed
<1>3. n \in 1 .. Len(topic[r[1]])
  BY <1>1, <1>2
<1> QED
  BY <1>1, <1>3 DEF Records

\* A record stays the first of its transaction.
LEMMA FirstStays ==
    ASSUME Typed, TopicGrows, NEW r \in Records
    PROVE  /\ At(r)' = At(r) /\ IsRegister(r)' = IsRegister(r)
           /\ IsUnregister(r)' = IsUnregister(r) /\ IsFirst(r)' = IsFirst(r)
<1>1. ASSUME NEW s \in Records
      PROVE  At(s)' = At(s) /\ IsRegister(s)' = IsRegister(s) /\ IsUnregister(s)' = IsUnregister(s)
  BY <1>1 DEF TopicGrows, IsRegister, IsUnregister
<1>2. ASSUME NEW n \in 1 .. r[2] - 1
      PROVE  /\ At(<<r[1], n>>)' = At(<<r[1], n>>)
             /\ IsRegister(<<r[1], n>>)' = IsRegister(<<r[1], n>>)
  BY <1>1, <1>2, EarlierRecord
<1> QED
  BY <1>1, <1>2 DEF IsFirst

\* What a step of w does to what is done.
Settles(w) ==
    /\ done \subseteq done' /\ done' \subseteq done \cup {at[w]} /\ dlq \subseteq dlq'
    /\ at[w] \in done' \ done =>
          /\ pc[w] # "idle"
          /\ at[w] \in dlq' \/ ~IsRegister(at[w]) \/ (pc[w] = "commit" /\ ApplyMark(w))
    /\ pc'[w] # "idle" => EarlierDone(at'[w]) \/ (pc[w] # "idle" /\ at'[w] = at[w])
    /\ pc'[w] = "commit" /\ wrote'[w] = {} =>
          at'[w] = at[w] /\ pc[w] # "idle" /\ Handled(processed, Command(w).id)

LEMMA SettleStep ==
    ASSUME ValidatorInv, NEW w \in Workers,
           \/ RejectPoison(w) \/ SkipUnregister(w) \/ CheckHandled(w) \/ Validate(w)
           \/ ProduceUnregister(w) \/ Mark(w)
           \/ Commit(w) \/ CommitUnanswered(w) \/ Fail(w)
           \/ \E r \in Records : Begin(w, r)
    PROVE  Settles(w)
<1> USE DEF Settles, Goto, ValidatorInv, Typed, EndAttempt
<1>1. CASE RejectPoison(w)
  BY <1>1 DEF RejectPoison, RejectRecord, DeadLetter
<1>2. CASE SkipUnregister(w)
  <2>1. ~IsRegister(at[w])
    BY <1>2, CommandIsAt DEF SkipUnregister, IsRegister, IsUnregister
  <2> QED
    BY <1>2, <2>1 DEF SkipUnregister, Settle
<1>3. CASE CheckHandled(w)
  BY <1>3 DEF CheckHandled, CheckHandledThen, deliveryVars
<1>4. CASE Validate(w)
  BY <1>4 DEF Validate, Execute, deliveryVars
<1>5. CASE ProduceUnregister(w)
  BY <1>5 DEF ProduceUnregister, Published
<1>6. CASE Mark(w)
  BY <1>6 DEF Mark, MarkHandled, Insert, Execute, DeadLetter, deliveryVars
<1>7. CASE Commit(w)
  BY <1>7 DEF Commit, CommitTx, Settle
<1>8. CASE CommitUnanswered(w)
  BY <1>8 DEF CommitUnanswered, CommitTxUnanswered, DeadLetter
<1>9. CASE Fail(w)
  BY <1>9 DEF Fail, RollBack, DeadLetter
<1>10. CASE \E r \in Records : Begin(w, r)
  BY <1>10 DEF Begin, BeginRecord
<1> QED
  BY <1>1, <1>2, <1>3, <1>4, <1>5, <1>6, <1>7, <1>8, <1>9, <1>10

LEMMA IdsStep ==
    ASSUME ValidatorInv, IdsInv, NEW w \in Workers,
           Ends(w) \/ GoesOn(w) \/ ProduceUnregister(w) \/ Commits(w)
    PROVE  IdsInv'
<1>1. CASE ProduceUnregister(w)
  <2>1. /\ pc[w] = "unregister" /\ Publish(w, at[w][1])
        /\ at[w] \in Records /\ Command(w) \in Commands
    BY <1>1 DEF ProduceUnregister, ValidatorInv, WorkerInv
  <2>2. /\ TopicGrows
        /\ \E new : /\ new \notin Records /\ Records' = Records \cup {new}
                    /\ At(new)' = Unregister(published', Command(w))
    BY <2>1, PublishGrows DEF ValidatorInv
  <2>3. PICK new : /\ new \notin Records /\ Records' = Records \cup {new}
                   /\ At(new)' = Unregister(published', Command(w))
    BY <2>2
  <2>4. published' = published + 1 /\ published \in Nat
    BY <2>1 DEF Publish, ValidatorInv, Typed
  <2>5. IsUnregister(new)' /\ ~IsRegister(new)' /\ At(new)'.id = <<published + 1>>
    BY <2>3, <2>4 DEF IsUnregister, IsRegister, Unregister
  <2>6. \A r \in Records : /\ At(r)' = At(r) /\ IsRegister(r)' = IsRegister(r)
                           /\ IsUnregister(r)' = IsUnregister(r)
    BY <2>2, FirstStays DEF ValidatorInv
  <2>7. \A r \in Records : IsUnregister(r) => At(r).id # <<published + 1>>
    <3>1. \A n \in 1 .. published : <<n>> # <<published + 1>>
      BY <2>4
    <3> QED
      BY <3>1 DEF IdsInv
  <2>8. \A r \in Records' : IsUnregister(r)' => \E n \in 1 .. published' : At(r)'.id = <<n>>
    BY <2>3, <2>4, <2>5, <2>6 DEF IdsInv
  <2>9. \A r, s \in Records' :
           IsUnregister(r)' /\ IsUnregister(s)' /\ At(r)'.id = At(s)'.id => r = s
    BY <2>3, <2>5, <2>6, <2>7 DEF IdsInv
  <2>10. \A r, s \in Records' :
            IsRegister(r)' /\ IsRegister(s)' /\ At(r)'.id = At(s)'.id => r[1] = s[1]
    BY <2>3, <2>5, <2>6 DEF IdsInv
  <2> QED
    BY <2>8, <2>9, <2>10 DEF IdsInv
<1>2. CASE Ends(w) \/ GoesOn(w) \/ Commits(w)
  <2>1. UNCHANGED <<topic, published>>
    BY <1>2 DEF Ends, GoesOn, Moves, Commits, EndSuccessful
  <2> QED
    BY <2>1 DEF IdsInv, IsUnregister, IsRegister, Records, At
<1> QED
  BY <1>1, <1>2

\* What is marked stays marked.
LEMMA MarkedStays ==
    ASSUME NEW w \in Workers, Ends(w) \/ GoesOn(w) \/ ProduceUnregister(w) \/ Commits(w),
           NEW id, Handled(processed, id)
    PROVE  Handled(processed', id)
<1>1. processed \subseteq processed'
  BY CommittedMark DEF Ends, GoesOn, Moves, ProduceUnregister, Published, Commits
<1> QED
  BY <1>1 DEF Handled

LEMMA PlacesStep ==
    ASSUME ValidatorInv, PlacesInv, NEW w \in Workers, Settles(w), TopicGrows, Bystanders(w),
           Ends(w) \/ GoesOn(w) \/ ProduceUnregister(w) \/ Commits(w)
    PROVE  PlacesInv'
<1>1. SUFFICES ASSUME NEW v \in Workers
               PROVE  /\ pc'[v] # "idle" => EarlierDone(at[v])'
                      /\ pc'[v] = "commit" /\ wrote'[v] = {} => Handled(processed, Command(v).id)'
  BY DEF PlacesInv
<1>2. \A r : EarlierDone(r) => EarlierDone(r)'
  BY DEF Settles, EarlierDone
<1>3. pc[v] # "idle" /\ at'[v] = at[v] => Command(v)' = Command(v)
  BY CommandIsAt DEF TopicGrows, ValidatorInv, WorkerInv
<1>4. CASE v # w
  <2>1. at'[v] = at[v] /\ pc'[v] = pc[v] /\ wrote'[v] = wrote[v]
    BY <1>4 DEF Bystanders
  <2>2. pc[v] # "idle" => Command(v)' = Command(v)
    BY <1>3, <2>1
  <2> QED
    BY <1>2, <2>1, <2>2, MarkedStays DEF PlacesInv, EarlierDone
<1>5. CASE v = w
  <2>1. PICK r : r = at'[v]
    OBVIOUS
  <2>2. pc'[v] # "idle" => EarlierDone(r)
    BY <1>5, <2>1 DEF Settles, PlacesInv
  <2>3. EarlierDone(r) => EarlierDone(at[v])'
    BY <2>1 DEF Settles, EarlierDone
  <2>4. ASSUME pc'[v] = "commit", wrote'[v] = {}
        PROVE  Handled(processed, Command(v).id)'
    <3>1. at'[v] = at[v] /\ pc[v] # "idle" /\ Handled(processed, Command(v).id)
      BY <1>5, <2>4 DEF Settles
    <3>2. Command(v)' = Command(v)
      BY <1>3, <3>1
    <3>3. Handled(processed', Command(v).id)
      BY <3>1, MarkedStays
    <3> QED
      BY <3>2, <3>3
  <2> QED
    BY <2>2, <2>3, <2>4
<1> QED
  BY <1>4, <1>5

LEMMA FirstsStep ==
    ASSUME ValidatorInv, TypeInv, PlacesInv, NEW w \in Workers, Settles(w), TopicGrows,
           Ends(w) \/ GoesOn(w) \/ ProduceUnregister(w) \/ Commits(w),
           Judging => FirstsInv, Judging'
    PROVE  FirstsInv'
<1>1. \A r \in Records : /\ r \in Records' /\ At(r)' = At(r) /\ IsRegister(r)' = IsRegister(r)
                         /\ IsFirst(r)' = IsFirst(r)
  BY FirstStays DEF ValidatorInv, TopicGrows
<1>2. Judging /\ FirstsInv
  BY <1>1 DEF Settles, Judging, TypeInv
<1>3. ASSUME NEW r \in done', IsRegister(r)' PROVE Handled(processed, At(r).id)'
  <2>1. CASE r \in done
    <3>1. r \in Records /\ Handled(processed, At(r).id)
      BY <1>1, <1>2, <1>3, <2>1 DEF TypeInv, FirstsInv
    <3> QED
      BY <1>1, <3>1, MarkedStays
  <2>2. CASE r \notin done
    <3>1. r = at[w] /\ at[w] \in done' \ done
      BY <2>2 DEF Settles
    <3>2. PICK s : s = at[w]
      OBVIOUS
    <3>3. s \in Records
      BY <3>1, <3>2 DEF Settles, ValidatorInv, WorkerInv
    <3>4. s \notin dlq' /\ IsRegister(s)
      BY <1>1, <1>3, <3>1, <3>2, <3>3 DEF Judging, IsRegister
    <3>5. pc[w] = "commit" /\ ApplyMark(w)
      BY <3>1, <3>2, <3>4 DEF Settles
    <3>6. Handled(processed', Command(w).id)
      <4>1. wrote[w] = {} \/ "mark" \in wrote[w]
        BY <3>5 DEF ValidatorInv, WorkerInv, WroteInOrder, Statements
      <4> QED
        BY <3>5, <4>1, MarkedStays, CommittedMark DEF PlacesInv
    <3>7. At(s)' = Command(w)
      <4>1. At(s)' = At(s)
        BY <1>1, <3>3
      <4> QED
        BY <3>2, <4>1, CommandIsAt
    <3> QED
      BY <3>1, <3>2, <3>6, <3>7
  <2> QED
    BY <2>1, <2>2
<1>4. ASSUME NEW c \in rejected' PROVE \E r \in Records' : IsFirst(r)' /\ At(r)' = c
  <2>1. CASE c \in rejected
    BY <1>1, <1>2, <2>1 DEF FirstsInv
  <2>2. CASE c \notin rejected
    <3>1. c = Command(w) /\ verdicts[w] = "invalid" /\ Commits(w)
      BY <1>4, <2>2 DEF Ends, GoesOn, Moves, ProduceUnregister, Published, Commits, EndSuccessful
    <3>2. /\ "mark" \in wrote[w] /\ at[w] \in Records /\ Command(w) \in Commands
          /\ ~Handled(processed, c.id) /\ EarlierDone(at[w])
      BY <3>1, CommitKeeps DEF Commits, ValidatorInv, WorkerInv, PlacesInv
    <3>3. PICK s : s = at[w]
      OBVIOUS
    <3>4. At(s) = c /\ s \in Records
      BY <3>1, <3>2, <3>3, CommandIsAt
    <3>5. IsRegister(s)
      BY <3>1, <3>2, <3>4, KindKnown DEF IsRegister, ValidatorInv
    <3>6. ASSUME NEW n \in 1 .. s[2] - 1, IsRegister(<<s[1], n>>)
          PROVE  At(<<s[1], n>>).id # c.id
      BY <1>2, <3>2, <3>3, <3>6 DEF EarlierDone, FirstsInv
    <3>7. IsFirst(s)
      BY <3>4, <3>5, <3>6 DEF IsFirst
    <3> QED
      BY <1>1, <3>4, <3>7
  <2> QED
    BY <2>1, <2>2
<1> QED
  BY <1>3, <1>4 DEF FirstsInv

LEMMA JudgeStep ==
    ASSUME ValidatorInv, TypeInv, JudgeInv, [SystemNext]_systemVars
    PROVE  JudgeInv'
<1>1. ASSUME UNCHANGED <<topic, done, dlq, pc, at, wrote, processed, published, rejected>>
      PROVE  JudgeInv'
  BY <1>1 DEF JudgeInv, IdsInv, PlacesInv, FirstsInv, Judging, EarlierDone, IsFirst, IsRegister,
              IsUnregister, Records, At, Command
<1>2. CASE Validator /\ ~Idle
  <2>1. PICK w \in Workers :
           \/ RejectPoison(w) \/ SkipUnregister(w) \/ CheckHandled(w) \/ Validate(w)
           \/ ProduceUnregister(w) \/ Mark(w)
           \/ Commit(w) \/ CommitUnanswered(w) \/ Fail(w)
           \/ \E r \in Records : Begin(w, r)
    BY <1>2 DEF Validator, Next
  <2>2. Settles(w) /\ (Ends(w) \/ GoesOn(w) \/ ProduceUnregister(w) \/ Commits(w))
    BY <2>1, SettleStep, ValidatorStep
  <2>3. TopicGrows /\ Bystanders(w)
    BY <2>2, RecordsCounted, EndsKeeps, MovesKeeps, ProduceKeeps, CommitKeeps
  <2>4. IdsInv' /\ PlacesInv'
    BY <2>2, <2>3, IdsStep, PlacesStep DEF JudgeInv
  <2>5. Judging' => FirstsInv'
    BY <2>2, <2>3, FirstsStep DEF JudgeInv
  <2> QED
    BY <2>4, <2>5 DEF JudgeInv
<1>3. CASE UNCHANGED systemVars \/ AtRest \/ (Validator /\ Idle)
  BY <1>1, <1>3 DEF AtRest, Validator, Idle, systemVars, vars, handlingVars, deliveryVars
<1>4. CASE \E r \in Records : Consume(r) \/ SetAside(r)
  BY <1>1, <1>4 DEF Consume, SetAside, Deliver
<1> QED
  BY <1>2, <1>3, <1>4 DEF SystemNext

LEMMA InitJudge ==
    SystemInit => JudgeInv
<1> SUFFICES ASSUME SystemInit PROVE JudgeInv
  OBVIOUS
<1>1. Typed /\ \A r \in Records : ~IsUnregister(r)
  BY InitValidator, InitNoUnregister DEF ValidatorInv
<1>2. ASSUME NEW r \in Records, NEW s \in Records, IsRegister(r), IsRegister(s),
             At(r).id = At(s).id
      PROVE  r[1] = s[1]
  <2>1. KeyedById(topic) /\ topic \in [Partitions -> Seq(Entries)]
    BY SagaSystemAssumption, TransactionalAssumption DEF SystemInit, Init, HandlingInit
  <2>2. /\ r[1] \in Partitions /\ r[2] \in 1 .. Len(topic[r[1]])
        /\ s[1] \in Partitions /\ s[2] \in 1 .. Len(topic[s[1]])
    BY <1>1, EntryKnown
  <2>3. r[2] \in DOMAIN topic[r[1]] /\ s[2] \in DOMAIN topic[s[1]]
    BY <2>1, <2>2
  <2> QED
    BY <1>2, <2>1, <2>2, <2>3 DEF KeyedById, At, IsRegister
<1>3. IdsInv
  BY <1>1, <1>2 DEF IdsInv
<1>4. PlacesInv /\ FirstsInv
  BY DEF SystemInit, Init, HandlingInit, PlacesInv, FirstsInv
<1> QED
  BY <1>3, <1>4 DEF JudgeInv

-----------------------------------------------------------------------------
(* What tx-consumer applied.                                               *)

\* What the value of a record is.
Amounts == [r \in Records |-> At(r).value.amount]

\* The consumed registrations that are the first of their transaction, and the consumed
\* compensations, of aggregate a.
Applied(a) == {r \in consumed : IsFirst(r) /\ At(r).value.aggregate = a}
Removed(a) == {r \in consumed : IsUnregister(r) /\ At(r).value.aggregate = a}

ConsumedInv ==
    /\ IsFiniteSet(consumed)
    /\ \A r \in consumed : \A n \in 1 .. r[2] - 1 : <<r[1], n>> \in consumed

\* Without a dead letter the aggregates hold the first registrations, less what was undone.
AppliedInv ==
    /\ \A r \in consumed : ~IsPoison(At(r)) => Handled(ledger, At(r).id)
    /\ \A a \in Aggregates :
          aggregates[a] = SumOf(Amounts, Applied(a)) - SumOf(Amounts, Removed(a))

ApplyInv == ConsumedInv /\ (Applying => AppliedInv)

LEMMA ValueKnown ==
    ASSUME ValidatorInv, NEW r \in Records, ~IsPoison(At(r))
    PROVE  At(r).value.aggregate \in Aggregates /\ At(r).value.amount \in Int
<1>1. At(r).value \in Values
  <2>1. CASE IsUnregister(r)
    <3>1. PICK n \in Nat, c \in Commands : At(r) = Unregister(n, c)
      BY <2>1, KindKnown DEF ValidatorInv
    <3> QED
      BY <3>1, TxValidatorAssumption DEF Unregister
  <2>2. CASE ~IsUnregister(r)
    BY <2>2, KindKnown DEF ValidatorInv
  <2> QED
    BY <2>1, <2>2
<1> QED
  BY <1>1, SagaSystemAssumption

\* The sums are over finite sets of integers.
LEMMA AmountsTyped ==
    ASSUME ValidatorInv, TypeInv, ConsumedInv, NEW a
    PROVE  /\ IsFiniteSet(Applied(a)) /\ IsFiniteSet(Removed(a))
           /\ \A r \in Records : ~IsPoison(At(r)) => Amounts[r] = At(r).value.amount /\ Amounts[r] \in Int
           /\ \A r \in Applied(a) \cup Removed(a) : r \in Records /\ ~IsPoison(At(r))
           /\ SumOf(Amounts, Applied(a)) \in Int /\ SumOf(Amounts, Removed(a)) \in Int
<1>1. IsFiniteSet(Applied(a)) /\ IsFiniteSet(Removed(a))
  BY FS_Subset DEF ConsumedInv, Applied, Removed
<1>2. \A r \in Records : ~IsPoison(At(r)) => Amounts[r] = At(r).value.amount /\ Amounts[r] \in Int
  BY ValueKnown DEF Amounts
<1>3. \A r \in Applied(a) \cup Removed(a) : r \in Records /\ ~IsPoison(At(r))
  BY DEF Applied, Removed, TypeInv, IsFirst, IsRegister, IsUnregister, IsPoison
<1>4. \A r \in Applied(a) \cup Removed(a) : Amounts[r] \in Int
  BY <1>2, <1>3
<1>5. SumOf(Amounts, Applied(a)) \in Int /\ SumOf(Amounts, Removed(a)) \in Int
  BY <1>1, <1>4, SumType
<1> QED
  BY <1>1, <1>2, <1>3, <1>5

\* A step of the validator changes nothing of it.
LEMMA ApplyStepValidator ==
    ASSUME ValidatorInv, TypeInv, ApplyInv, TopicGrows, UNCHANGED consumerVars
    PROVE  ApplyInv'
<1>1. UNCHANGED <<consumed, setAside, ledger, aggregates>>
  BY DEF consumerVars
<1>2. \A r \in consumed : /\ r \in Records /\ r \in Records' /\ At(r)' = At(r)
                          /\ IsUnregister(r)' = IsUnregister(r) /\ IsFirst(r)' = IsFirst(r)
  BY FirstStays DEF ValidatorInv, TypeInv, TopicGrows
<1>3. ConsumedInv'
  BY <1>1 DEF ApplyInv, ConsumedInv
<1>4. Applying' => Applying
  BY <1>1, <1>2 DEF Applying, TypeInv
<1>5. ASSUME NEW a \in Aggregates
      PROVE  /\ SumOf(Amounts, Applied(a))' = SumOf(Amounts, Applied(a))
             /\ SumOf(Amounts, Removed(a))' = SumOf(Amounts, Removed(a))
  <2>1. Applied(a)' = Applied(a) /\ Removed(a)' = Removed(a)
    BY <1>1, <1>2 DEF Applied, Removed
  <2>2. PICK S, T : S = Applied(a) /\ T = Removed(a)
    OBVIOUS
  <2>3. PICK val, other : val = Amounts /\ other = Amounts'
    OBVIOUS
  <2>4. \A r \in consumed : val[r] = other[r]
    BY <1>2, <2>3 DEF Amounts
  <2>5. IsFiniteSet(S) /\ IsFiniteSet(T) /\ S \subseteq consumed /\ T \subseteq consumed
    BY <2>2, AmountsTyped DEF ApplyInv, Applied, Removed
  <2>6. SumOf(val, S) = SumOf(other, S) /\ SumOf(val, T) = SumOf(other, T)
    BY <2>4, <2>5, SumSame
  <2>7. SumOf(Amounts, Applied(a))' = SumOf(other, S) /\ SumOf(Amounts, Removed(a))' = SumOf(other, T)
    BY <2>1, <2>2, <2>3 DEF SumOf
  <2> QED
    BY <2>2, <2>3, <2>6, <2>7
<1>6. Applying' => AppliedInv'
  BY <1>1, <1>2, <1>4, <1>5 DEF ApplyInv, AppliedInv
<1> QED
  BY <1>3, <1>6 DEF ApplyInv

\* A row of the ledger is that of a consumed record.
LEMMA LedgerOf ==
    ASSUME TypeInv, NEW row \in ledger
    PROVE  \E s \in consumed : s \in Records /\ ~IsPoison(At(s)) /\ row = RowOf(At(s))
BY DEF TypeInv

\* What is consumed for the first time is not handled yet, unless it repeats a transaction,
\* and its transaction is not undone yet.
LEMMA FreshConsumed ==
    ASSUME ValidatorInv, TypeInv, IdsInv, ConsumedInv, NEW r \in Records, r \notin consumed,
           ~IsPoison(At(r)), IsUnregister(r) \/ IsFirst(r)
    PROVE  ~Handled(ledger, At(r).id)
<1>1. ASSUME NEW s \in consumed, s \in Records, ~IsPoison(At(s)), At(s).id = At(r).id
      PROVE  FALSE
  <2>1. \A t \in Records : IsUnregister(t) => At(t).id \in Seq(Nat)
    <3>1. ASSUME NEW t \in Records, IsUnregister(t) PROVE At(t).id \in Seq(Nat)
      <4>1. PICK n \in 1 .. published : At(t).id = <<n>>
        BY <3>1 DEF IdsInv
      <4>2. n \in Nat
        BY <4>1 DEF ValidatorInv, Typed
      <4> QED
        BY <4>1, <4>2
    <3> QED
      BY <3>1
  <2>2. \A t \in Records : ~IsPoison(At(t)) /\ ~IsUnregister(t) => At(t).id \notin Seq(Nat)
    BY KindKnown, TxValidatorAssumption DEF ValidatorInv
  <2>3. CASE IsUnregister(r)
    <3>1. IsUnregister(s)
      BY <1>1, <2>1, <2>2, <2>3
    <3> QED
      BY <1>1, <2>3, <3>1 DEF IdsInv
  <2>4. CASE IsFirst(r)
    <3>1. IsRegister(r)
      BY <2>4 DEF IsFirst
    <3>2. IsRegister(s)
      BY <1>1, <2>1, <2>2, <3>1 DEF IsRegister
    <3>3. s[1] = r[1]
      BY <1>1, <3>1, <3>2 DEF IdsInv
    <3>4. r = <<r[1], r[2]>> /\ s = <<s[1], s[2]>> /\ r[2] \in Nat \ {0} /\ s[2] \in Nat \ {0}
      BY <1>1, EntryKnown DEF ValidatorInv
    <3>5. CASE s[2] = r[2]
      BY <1>1, <3>3, <3>4, <3>5
    <3>6. CASE s[2] > r[2]
      <4>1. r[2] \in 1 .. s[2] - 1
        BY <3>4, <3>6
      <4> QED
        BY <1>1, <3>3, <3>4, <4>1 DEF ConsumedInv
    <3>7. CASE s[2] < r[2]
      <4>1. s[2] \in 1 .. r[2] - 1
        BY <3>4, <3>7
      <4> QED
        BY <1>1, <2>4, <3>2, <3>3, <3>4, <4>1 DEF IsFirst
    <3> QED
      BY <3>4, <3>5, <3>6, <3>7
  <2> QED
    BY <2>3, <2>4
<1> QED
  BY <1>1, LedgerOf DEF Handled, RowOf

\* A registration that is not handled is not undone: whoever consumes in order meets the
\* transaction before its compensation.
LEMMA NotUndoneYet ==
    ASSUME ValidatorInv, TypeInv, ConsumedInv, AppliedInv,
           NEW id, ~Handled(ledger, id)
    PROVE  ~Compensated(ledger, id)
<1>1. ASSUME NEW s \in consumed, s \in Records, ~IsPoison(At(s)), id \in RowOf(At(s)).compensates
      PROVE  FALSE
  <2>1. IsUnregister(s) /\ At(s).of = id
    <3>1. Compensating(At(s)) /\ At(s).of = id
      BY <1>1 DEF RowOf
    <3>2. ~(At(s) \in Commands)
      BY <3>1, TxValidatorAssumption DEF Compensating
    <3> QED
      BY <1>1, <3>1, <3>2, KindKnown DEF ValidatorInv
  <2>2. PICK n \in 1 .. s[2] - 1 :
           At(<<s[1], n>>).kind = "register" /\ At(<<s[1], n>>).id = id
    BY <1>1, <2>1 DEF ValidatorInv, CompensationFollows
  <2>3. <<s[1], n>> \in consumed
    BY <1>1 DEF ConsumedInv
  <2> QED
    BY <2>2, <2>3 DEF AppliedInv, IsPoison
<1> QED
  BY <1>1, LedgerOf DEF Compensated

\* What a consumed record does to the aggregates.
LEMMA ConsumeEffect ==
    ASSUME ValidatorInv, TypeInv, IdsInv, ConsumedInv, AppliedInv, NEW r \in Records, Consume(r)
    PROVE  /\ ledger \subseteq ledger' /\ Handled(ledger', At(r).id)
           /\ IF r \notin consumed /\ (IsFirst(r) \/ IsUnregister(r))
              THEN aggregates' = [aggregates EXCEPT ![At(r).value.aggregate] =
                       @ + (IF IsUnregister(r) THEN -At(r).value.amount ELSE At(r).value.amount)]
              ELSE UNCHANGED aggregates
<1> DEFINE c == ToTxCommand(At(r))
           a == At(r).value.aggregate
<1>1. ~IsPoison(At(r)) /\ (r \notin consumed => \A n \in 1 .. r[2] - 1 : <<r[1], n>> \in consumed)
  BY DEF Consume, Deliver
<1>2. /\ Ledger!RowOf(c) = RowOf(At(r)) /\ c.id = At(r).id /\ c.of = At(r).of
      /\ c.kind = At(r).kind /\ c.aggregate = a
      /\ Ledger!Delta(c) = IF c.kind = "register" THEN At(r).value.amount ELSE -At(r).value.amount
  BY <1>1, ToTxCommandTyped DEF ToTxCommand, Ledger!Delta
<1>3. \/ Ledger!Handle(c) \/ Ledger!Ignore(c)
      \/ Handled(ledger, c.id) /\ UNCHANGED <<ledger, aggregates>>
  BY DEF Consume
<1> HIDE DEF c
<1>4. IsUnregister(r) => c.kind # "register"
  BY <1>2 DEF IsUnregister
<1>5. ~IsUnregister(r) => At(r) \in Commands /\ c.kind = "register" /\ c.of = c.id
  BY <1>1, <1>2, KindKnown, TxValidatorAssumption DEF ValidatorInv
<1>6. ~Ledger!Ignore(c)
  <2>1. SUFFICES ASSUME Ledger!Ignore(c) PROVE FALSE
    OBVIOUS
  <2>2. c.kind = "register" /\ ~Handled(ledger, c.id) /\ Compensated(ledger, c.of)
    BY <2>1 DEF Ledger!Ignore, Ledger!Handled, Ledger!Compensated, Handled, Compensated
  <2>3. ~Compensated(ledger, c.id)
    BY <2>2, NotUndoneYet
  <2> QED
    BY <1>4, <1>5, <2>2, <2>3
<1>7. CASE r \notin consumed /\ (IsFirst(r) \/ IsUnregister(r))
  <2>1. ~Handled(ledger, c.id)
    BY <1>1, <1>2, <1>7, FreshConsumed
  <2>2. Ledger!Handle(c)
    BY <1>3, <1>6, <2>1
  <2>3. /\ ledger' = ledger \cup {RowOf(At(r))}
        /\ aggregates' = [aggregates EXCEPT ![a] = @ + Ledger!Delta(c)]
    BY <1>2, <2>2 DEF Ledger!Handle
  <2>4. Ledger!Delta(c) = IF IsUnregister(r) THEN -At(r).value.amount ELSE At(r).value.amount
    BY <1>2, <1>4, <1>5
  <2>5. RowOf(At(r)).id = At(r).id
    BY DEF RowOf
  <2>6. ledger \subseteq ledger' /\ Handled(ledger', At(r).id)
    BY <2>3, <2>5 DEF Handled
  <2>7. aggregates' = [aggregates EXCEPT ![At(r).value.aggregate] =
            @ + (IF IsUnregister(r) THEN -At(r).value.amount ELSE At(r).value.amount)]
    BY <2>3, <2>4
  <2> QED
    BY <1>7, <2>6, <2>7
<1>8. CASE ~(r \notin consumed /\ (IsFirst(r) \/ IsUnregister(r)))
  <2>1. Handled(ledger, c.id)
    <3>1. CASE r \in consumed
      BY <1>1, <1>2, <3>1 DEF AppliedInv
    <3>2. CASE r \notin consumed
      <4>1. IsRegister(r) /\ ~IsFirst(r)
        BY <1>1, <1>8, <3>2 DEF IsRegister
      <4>2. PICK n \in 1 .. r[2] - 1 :
               IsRegister(<<r[1], n>>) /\ At(<<r[1], n>>).id = At(r).id
        BY <4>1 DEF IsFirst
      <4>3. <<r[1], n>> \in consumed
        BY <1>1, <3>2
      <4> QED
        BY <1>2, <4>2, <4>3 DEF AppliedInv, IsRegister
    <3> QED
      BY <3>1, <3>2
  <2>2. ~Ledger!Handle(c)
    BY <2>1 DEF Ledger!Handle, Ledger!Handled, Handled
  <2>3. UNCHANGED <<ledger, aggregates>>
    BY <1>3, <1>6, <2>2
  <2> QED
    BY <1>2, <1>8, <2>1, <2>3
<1> QED
  BY <1>7, <1>8

\* One more record is consumed: which sums it is in.
LEMMA SumsGrow ==
    ASSUME ValidatorInv, TypeInv, ConsumedInv, NEW r \in Records, NEW a,
           UNCHANGED topic, consumed' = consumed \cup {r}
    PROVE  /\ SumOf(Amounts, Applied(a))' = SumOf(Amounts, Applied(a)) +
                 (IF r \notin consumed /\ IsFirst(r) /\ At(r).value.aggregate = a
                  THEN At(r).value.amount ELSE 0)
           /\ SumOf(Amounts, Removed(a))' = SumOf(Amounts, Removed(a)) +
                 (IF r \notin consumed /\ IsUnregister(r) /\ At(r).value.aggregate = a
                  THEN At(r).value.amount ELSE 0)
<1>1. /\ Amounts' = Amounts
      /\ Applied(a)' = {s \in consumed' : IsFirst(s) /\ At(s).value.aggregate = a}
      /\ Removed(a)' = {s \in consumed' : IsUnregister(s) /\ At(s).value.aggregate = a}
  BY DEF Amounts, Records, Applied, Removed, At, IsFirst, IsRegister, IsUnregister
<1>2. PICK S, T, more, less, val :
         /\ S = Applied(a) /\ T = Applied(a)' /\ more = Removed(a)' /\ less = Removed(a)
         /\ val = Amounts
  OBVIOUS
<1>3. /\ SumOf(Amounts, Applied(a))' = SumOf(val, T) /\ SumOf(Amounts, Removed(a))' = SumOf(val, more)
      /\ SumOf(Amounts, Applied(a)) = SumOf(val, S) /\ SumOf(Amounts, Removed(a)) = SumOf(val, less)
  BY <1>1, <1>2 DEF SumOf
<1>4. /\ IsFiniteSet(S) /\ IsFiniteSet(less)
      /\ SumOf(val, S) \in Int /\ SumOf(val, less) \in Int
      /\ \A s \in S \cup less : val[s] \in Int
      /\ ~IsPoison(At(r)) => val[r] \in Int /\ val[r] = At(r).value.amount
  BY <1>2, AmountsTyped
<1>5. SumOf(val, T) = SumOf(val, S) + (IF r \notin consumed /\ IsFirst(r) /\ At(r).value.aggregate = a
                                       THEN At(r).value.amount ELSE 0)
  <2>1. CASE r \notin consumed /\ IsFirst(r) /\ At(r).value.aggregate = a
    <3>1. T = S \cup {r} /\ r \notin S /\ ~IsPoison(At(r))
      BY <1>1, <1>2, <2>1 DEF Applied, IsFirst, IsRegister
    <3>2. SumOf(val, S \cup {r}) = val[r] + SumOf(val, S)
      BY <1>4, <3>1, SumAdd
    <3> QED
      BY <1>4, <2>1, <3>1, <3>2
  <2>2. CASE ~(r \notin consumed /\ IsFirst(r) /\ At(r).value.aggregate = a)
    <3>1. T = S
      BY <1>1, <1>2, <2>2 DEF Applied
    <3> QED
      BY <1>4, <2>2, <3>1
  <2> QED
    BY <2>1, <2>2
<1>6. SumOf(val, more) = SumOf(val, less) +
          (IF r \notin consumed /\ IsUnregister(r) /\ At(r).value.aggregate = a
           THEN At(r).value.amount ELSE 0)
  <2>1. CASE r \notin consumed /\ IsUnregister(r) /\ At(r).value.aggregate = a
    <3>1. more = less \cup {r} /\ r \notin less /\ ~IsPoison(At(r))
      BY <1>1, <1>2, <2>1 DEF Removed, IsUnregister, IsPoison
    <3>2. SumOf(val, less \cup {r}) = val[r] + SumOf(val, less)
      BY <1>4, <3>1, SumAdd
    <3> QED
      BY <1>4, <2>1, <3>1, <3>2
  <2>2. CASE ~(r \notin consumed /\ IsUnregister(r) /\ At(r).value.aggregate = a)
    <3>1. more = less
      BY <1>1, <1>2, <2>2 DEF Removed
    <3> QED
      BY <1>4, <2>2, <3>1
  <2> QED
    BY <2>1, <2>2
<1> QED
  BY <1>3, <1>5, <1>6

LEMMA ApplyStepConsumer ==
    ASSUME ValidatorInv, TypeInv, IdsInv, ApplyInv, NEW r \in Records, Consume(r) \/ SetAside(r)
    PROVE  ApplyInv'
<1>1. /\ UNCHANGED topic /\ consumed' = consumed \cup {r} /\ setAside \subseteq setAside'
      /\ r \in consumed \/ \A n \in 1 .. r[2] - 1 : <<r[1], n>> \in consumed
  BY DEF Consume, SetAside, Deliver
<1>2. ConsumedInv'
  <2>1. IsFiniteSet(consumed')
    BY <1>1, FS_AddElement DEF ApplyInv, ConsumedInv
  <2> QED
    BY <1>1, <2>1 DEF ApplyInv, ConsumedInv
<1>3. SUFFICES ASSUME Applying' PROVE AppliedInv'
  BY <1>2 DEF ApplyInv
<1>4. \A s : /\ At(s)' = At(s) /\ IsPoison(At(s))' = IsPoison(At(s))
             /\ IsFirst(s)' = IsFirst(s) /\ IsUnregister(s)' = IsUnregister(s)
  BY <1>1 DEF At, IsPoison, IsFirst, IsRegister, IsUnregister
<1>5. Applying /\ AppliedInv /\ ConsumedInv /\ (SetAside(r) => IsPoison(At(r)))
  BY <1>1, <1>3, <1>4 DEF Applying, ApplyInv, SetAside
<1>6. CASE SetAside(r)
  <2>1. UNCHANGED <<ledger, aggregates>> /\ IsPoison(At(r))
    BY <1>5, <1>6 DEF SetAside
  <2>2. ~IsFirst(r) /\ ~IsUnregister(r)
    BY <2>1 DEF IsFirst, IsRegister, IsUnregister, IsPoison
  <2>3. \A a \in Aggregates : /\ SumOf(Amounts, Applied(a))' = SumOf(Amounts, Applied(a)) + 0
                              /\ SumOf(Amounts, Removed(a))' = SumOf(Amounts, Removed(a)) + 0
    BY <1>1, <1>5, <2>2, SumsGrow
  <2>4. \A a \in Aggregates : aggregates'[a] = SumOf(Amounts, Applied(a))' - SumOf(Amounts, Removed(a))'
    BY <1>5, <2>1, <2>3, AmountsTyped DEF AppliedInv
  <2> QED
    BY <1>1, <1>4, <1>5, <2>1, <2>4 DEF AppliedInv
<1>7. CASE Consume(r)
  <2>1. /\ ledger \subseteq ledger' /\ Handled(ledger', At(r).id) /\ ~IsPoison(At(r))
        /\ IF r \notin consumed /\ (IsFirst(r) \/ IsUnregister(r))
           THEN aggregates' = [aggregates EXCEPT ![At(r).value.aggregate] =
                    @ + (IF IsUnregister(r) THEN -At(r).value.amount ELSE At(r).value.amount)]
           ELSE UNCHANGED aggregates
    BY <1>5, <1>7, ConsumeEffect DEF Consume
  <2>2. At(r).value.aggregate \in Aggregates /\ At(r).value.amount \in Int
    BY <2>1, ValueKnown
  <2>3. IsFirst(r) => ~IsUnregister(r)
    BY DEF IsFirst, IsRegister
  <2>4. ASSUME NEW a \in Aggregates
        PROVE  aggregates'[a] = SumOf(Amounts, Applied(a))' - SumOf(Amounts, Removed(a))'
    <3> DEFINE first == r \notin consumed /\ IsFirst(r) /\ At(r).value.aggregate = a
               undo == r \notin consumed /\ IsUnregister(r) /\ At(r).value.aggregate = a
               amount == At(r).value.amount
    <3>1. PICK plus, minus : plus = SumOf(Amounts, Applied(a)) /\ minus = SumOf(Amounts, Removed(a))
      OBVIOUS
    <3>2. plus \in Int /\ minus \in Int /\ aggregates[a] = plus - minus
      BY <1>5, <3>1, AmountsTyped DEF AppliedInv
    <3>3. /\ SumOf(Amounts, Applied(a))' = plus + (IF first THEN amount ELSE 0)
          /\ SumOf(Amounts, Removed(a))' = minus + (IF undo THEN amount ELSE 0)
      BY <1>1, <1>5, <3>1, SumsGrow
    <3>4. aggregates'[a] = IF first THEN aggregates[a] + amount
                           ELSE IF undo THEN aggregates[a] + (-amount) ELSE aggregates[a]
      BY <2>1, <2>2, <2>3 DEF TypeInv
    <3>5. ~(first /\ undo)
      BY <2>3
    <3> HIDE DEF first, undo
    <3> QED
      BY <2>2, <3>2, <3>3, <3>4, <3>5
  <2>5. \A s \in consumed' : ~IsPoison(At(s))' => Handled(ledger', At(s)'.id)
    BY <1>1, <1>4, <1>5, <2>1 DEF AppliedInv, Handled
  <2> QED
    BY <1>4, <2>4, <2>5 DEF AppliedInv
<1> QED
  BY <1>6, <1>7

LEMMA ApplyStep ==
    ASSUME ValidatorInv, TypeInv, IdsInv, ApplyInv, [SystemNext]_systemVars
    PROVE  ApplyInv'
<1>1. CASE \E r \in Records : Consume(r) \/ SetAside(r)
  BY <1>1, ApplyStepConsumer
<1>2. CASE Validator /\ ~Idle
  <2>1. TopicGrows
    BY <1>2, ValidatorStep, RecordsCounted DEF Validator, Next
  <2> QED
    BY <1>2, <2>1, ApplyStepValidator DEF Validator
<1>3. CASE UNCHANGED systemVars \/ AtRest \/ (Validator /\ Idle)
  <2>1. UNCHANGED topic /\ UNCHANGED consumerVars
    BY <1>3 DEF AtRest, Validator, Idle, systemVars, vars, handlingVars, deliveryVars
  <2> QED
    BY <2>1, TopicStays, ApplyStepValidator
<1> QED
  BY <1>1, <1>2, <1>3 DEF SystemNext

LEMMA InitApply ==
    SystemInit => ApplyInv
<1> SUFFICES ASSUME SystemInit PROVE ApplyInv
  OBVIOUS
<1>1. consumed = {} /\ aggregates = [a \in Aggregates |-> 0]
  BY DEF SystemInit, Ledger!Init
<1>2. ConsumedInv
  BY <1>1, FS_EmptySet DEF ConsumedInv
<1>3. \A a : Applied(a) = {} /\ Removed(a) = {}
  BY <1>1 DEF Applied, Removed
<1>4. SumOf(Amounts, {}) = 0
  BY FS_EmptySet, SumTaken
<1>5. AppliedInv
  BY <1>1, <1>3, <1>4 DEF AppliedInv
<1> QED
  BY <1>2, <1>5 DEF ApplyInv

-----------------------------------------------------------------------------
(* What remains when both services are done.                               *)

\* When the validator is through with the topic, no transaction is open.
LEMMA QuietClosed == ValidatorInv /\ Quiet => Open = {}
BY DEF Quiet, AllConsumed, ValidatorInv, WorkerInv, WroteInOrder, Open

\* Without waste every unregister command belongs to a rejected registration, has its
\* content and is the only one of its transaction.
LEMMA OneCompensation ==
    ASSUME ValidatorInv, TypeInv, CountInv, wasted = 0, Open = {}
    PROVE  /\ \A u \in UnregisterRecords : \E c \in rejected :
                 At(u).of = c.id /\ At(u).value = c.value
           /\ \A u, v \in UnregisterRecords : At(u).of = At(v).of => u = v
<1> DEFINE k == [i \in Rejections |-> CHOOSE u \in UnregisterRecords : At(u).of = i]
<1>1. ASSUME NEW c \in rejected
      PROVE  \E u \in UnregisterRecords : At(u).of = c.id /\ At(u).value = c.value
  BY DEF ValidatorInv, RejectedKnown, InTopic, UnregisterRecords
<1>2. ASSUME NEW i \in Rejections PROVE k[i] \in UnregisterRecords /\ At(k[i]).of = i
  <2>1. \E u \in UnregisterRecords : At(u).of = i
    BY <1>1 DEF Rejections
  <2> QED
    BY <2>1
<1>3. k \in [Rejections -> UnregisterRecords]
  BY <1>2
<1> HIDE DEF k
<1>4. \A i, j \in Rejections : k[i] = k[j] => i = j
  BY <1>2
<1>5. k \in Injection(Rejections, UnregisterRecords)
  BY <1>3, <1>4 DEF Injection, IsInjective
<1>6. Cardinality(UnregisterRecords) =< Cardinality(Rejections)
  <2>1. Cardinality(Open) = 0
    BY FS_EmptySet
  <2>2. Cardinality(Rejections) \in Nat /\ published = Cardinality(UnregisterRecords)
    BY FS_CardinalityType DEF CountInv, TypeInv
  <2> QED
    BY <2>1, <2>2 DEF CountInv, CompensatedOncePerCommit, Rejections, Open
<1>7. k \in Surjection(Rejections, UnregisterRecords)
  <2>1. IsFiniteSet(UnregisterRecords) /\ IsFiniteSet(Rejections)
    BY DEF TypeInv, CountInv
  <2>2. /\ Cardinality(Rejections) =< Cardinality(UnregisterRecords)
        /\ Cardinality(Rejections) = Cardinality(UnregisterRecords)
              <=> k \in Surjection(Rejections, UnregisterRecords)
    BY <1>5, <2>1, FS_Injection
  <2>3. Cardinality(Rejections) \in Nat /\ Cardinality(UnregisterRecords) \in Nat
    BY <2>1, FS_CardinalityType
  <2> QED
    BY <1>6, <2>2, <2>3
<1>8. ASSUME NEW u \in UnregisterRecords
      PROVE  At(u).of \in Rejections /\ u = k[At(u).of]
  <2>1. PICK i \in Rejections : k[i] = u
    BY <1>7 DEF Surjection
  <2> QED
    BY <1>2, <2>1
<1>9. \A u, v \in UnregisterRecords : At(u).of = At(v).of => u = v
  BY <1>8
<1>10. ASSUME NEW u \in UnregisterRecords
       PROVE  \E c \in rejected : At(u).of = c.id /\ At(u).value = c.value
  <2>1. PICK c \in rejected : At(u).of = c.id
    BY <1>8 DEF Rejections
  <2>2. PICK v \in UnregisterRecords : At(v).of = c.id /\ At(v).value = c.value
    BY <1>1
  <2> QED
    BY <1>9, <2>1, <2>2
<1> QED
  BY <1>9, <1>10

\* The transactions of a that are left are those of these records.
Left(a) == {r \in Records : /\ IsFirst(r) /\ At(r).value.aggregate = a
                            /\ \A c \in rejected : c.id # At(r).id}

LEMMA ValidIs ==
    ASSUME NEW a, IsFiniteSet(Left(a))
    PROVE  Valid(a) = SumOf([r \in Left(a) |-> At(r).value.amount], Left(a))
<1> DEFINE val == [r \in Left(a) |-> At(r).value.amount]
           Adds(sum) == sum = [s \in SUBSET Left(a) |->
               IF s = {} THEN 0
               ELSE LET r == CHOOSE q \in s : TRUE IN At(r).value.amount + sum[s \ {r}]]
<1>1. Valid(a) = (CHOOSE sum : Adds(sum))[Left(a)]
  BY DEF Valid, Left, MapThenSumSet, MapThenFoldSet
<1>2. ASSUME NEW sum PROVE Adds(sum) <=> AddsUp(sum, val, Left(a))
  <2>1. ASSUME NEW s \in SUBSET Left(a)
        PROVE  (IF s = {} THEN 0
                ELSE LET r == CHOOSE q \in s : TRUE IN At(r).value.amount + sum[s \ {r}])
               = (IF s = {} THEN 0 ELSE val[Taken(s)] + sum[s \ {Taken(s)}])
    <3>1. s # {} => Taken(s) \in Left(a) /\ val[Taken(s)] = At(Taken(s)).value.amount
      BY DEF Taken
    <3> HIDE DEF val
    <3> QED
      BY <3>1 DEF Taken
  <2> QED
    BY <2>1 DEF AddsUp
<1> HIDE DEF Adds, val
<1>3. (CHOOSE sum : Adds(sum)) = (CHOOSE sum : AddsUp(sum, val, Left(a)))
  BY <1>2
<1> QED
  BY <1>1, <1>3 DEF SumOf, val

LEMMA ValidRemains ==
    ASSUME ValidatorInv, TypeInv, JudgeInv, CountInv, ApplyInv, Quiet, Untroubled,
           NEW a \in Aggregates
    PROVE  aggregates[a] = Valid(a)
<1> DEFINE R == {r \in Applied(a) : At(r).id \in Rejections}
           m == [r \in R |-> CHOOSE u \in UnregisterRecords : At(u).of = At(r).id]
<1>1. /\ consumed = Records /\ IsFiniteSet(Records) /\ FirstsInv /\ AppliedInv /\ IdsInv
      /\ ConsumedInv /\ wasted = 0 /\ Open = {}
  BY QuietClosed DEF Quiet, Untroubled, Judging, Applying, JudgeInv, ApplyInv, ConsumedInv
<1>2. ASSUME NEW r \in Records, NEW s \in Records, IsFirst(r), IsFirst(s), At(r).id = At(s).id
      PROVE  r = s
  <2>1. IsRegister(r) /\ IsRegister(s)
    BY <1>2 DEF IsFirst
  <2>2. r[1] = s[1]
    BY <1>1, <1>2, <2>1 DEF IdsInv
  <2>3. r = <<r[1], r[2]>> /\ s = <<s[1], s[2]>> /\ r[2] \in Nat \ {0} /\ s[2] \in Nat \ {0}
    BY EntryKnown DEF ValidatorInv
  <2>4. r[2] < s[2] => r[2] \in 1 .. s[2] - 1
    BY <2>3
  <2>5. s[2] < r[2] => s[2] \in 1 .. r[2] - 1
    BY <2>3
  <2>6. ~(r[2] < s[2])
    BY <1>2, <2>1, <2>2, <2>3, <2>4 DEF IsFirst
  <2>7. ~(s[2] < r[2])
    BY <1>2, <2>1, <2>2, <2>3, <2>5 DEF IsFirst
  <2>8. r[2] = s[2]
    BY <2>3, <2>6, <2>7
  <2> QED
    BY <2>2, <2>3, <2>8
<1>3. ASSUME NEW c \in rejected, NEW r \in Records, IsFirst(r), At(r).id = c.id
      PROVE  At(r) = c
  BY <1>1, <1>2, <1>3 DEF FirstsInv
<1>4. ASSUME NEW r \in R
      PROVE  /\ m[r] \in UnregisterRecords /\ At(m[r]).of = At(r).id
             /\ At(m[r]).value = At(r).value
  <2>1. r \in Records /\ IsFirst(r)
    BY <1>1 DEF Applied
  <2>2. PICK c \in rejected : c.id = At(r).id
    BY DEF Rejections
  <2>3. At(r) = c
    BY <1>3, <2>1, <2>2
  <2>4. PICK u \in UnregisterRecords : At(u).of = c.id /\ At(u).value = c.value
    BY DEF ValidatorInv, RejectedKnown, InTopic, UnregisterRecords
  <2>5. m[r] \in UnregisterRecords /\ At(m[r]).of = At(r).id
    BY <2>2, <2>4
  <2>6. m[r] = u
    BY <2>2, <2>4, <2>5, <1>1, OneCompensation
  <2> QED
    BY <2>3, <2>4, <2>5, <2>6
<1> HIDE DEF m
<1>5. \A r, s \in R : m[r] = m[s] => r = s
  <2>1. ASSUME NEW r \in R, NEW s \in R, m[r] = m[s] PROVE r = s
    <3>1. At(r).id = At(s).id
      BY <1>4, <2>1
    <3>2. r \in Records /\ IsFirst(r) /\ s \in Records /\ IsFirst(s)
      BY <1>1 DEF Applied
    <3> QED
      BY <1>2, <3>1, <3>2
  <2> QED
    BY <2>1
<1>6. {m[r] : r \in R} = Removed(a)
  <2>1. ASSUME NEW r \in R PROVE m[r] \in Removed(a)
    <3>1. At(r).value.aggregate = a
      BY DEF Applied
    <3> QED
      BY <1>1, <1>4, <3>1 DEF Removed, UnregisterRecords
  <2>2. ASSUME NEW u \in Removed(a) PROVE \E r \in R : u = m[r]
    <3>1. u \in UnregisterRecords /\ At(u).value.aggregate = a
      BY <1>1 DEF Removed, UnregisterRecords
    <3>2. PICK c \in rejected : At(u).of = c.id /\ At(u).value = c.value
      BY <1>1, <3>1, OneCompensation
    <3>3. PICK r \in Records : IsFirst(r) /\ At(r) = c
      BY <1>1 DEF FirstsInv
    <3>4. r \in R
      BY <1>1, <3>1, <3>2, <3>3 DEF Applied, Rejections
    <3>5. m[r] = u
      BY <1>4, <3>1, <3>2, <3>3, <3>4, <1>1, OneCompensation
    <3> QED
      BY <3>4, <3>5
  <2> HIDE DEF R
  <2> QED
    BY <2>1, <2>2
<1>7. /\ IsFiniteSet(Applied(a)) /\ R \subseteq Applied(a)
      /\ \A r \in Applied(a) : Amounts[r] \in Int /\ r \in Records
      /\ \A r \in Applied(a) : Amounts[r] = At(r).value.amount
  BY AmountsTyped, <1>1
<1>8. ASSUME NEW r \in R PROVE Amounts[m[r]] = Amounts[r]
  <2>1. m[r] \in Records /\ At(m[r]).value = At(r).value /\ r \in Records
    BY <1>4, <1>7 DEF UnregisterRecords
  <2> QED
    BY <2>1 DEF Amounts
<1>9. Applied(a) \ R = Left(a)
  <2>1. ASSUME NEW r PROVE r \in Applied(a) \ R <=> r \in Left(a)
    BY <1>1 DEF Applied, Left, Rejections
  <2> QED
    BY <2>1
<1>10. Left(a) \subseteq Applied(a) /\ IsFiniteSet(Left(a)) /\ IsFiniteSet(R)
  <2>1. Left(a) \subseteq Applied(a)
    BY <1>9
  <2> QED
    BY <1>7, <2>1, FS_Subset
<1> HIDE DEF R
<1>11. SumOf(Amounts, {m[r] : r \in R}) = SumOf(Amounts, R)
  BY <1>5, <1>7, <1>8, <1>10, SumPaired
<1>12. SumOf(Amounts, Applied(a)) = SumOf(Amounts, R) + SumOf(Amounts, Left(a))
  BY <1>7, <1>9, SumSplit
<1>13. Valid(a) = SumOf(Amounts, Left(a))
  <2> DEFINE val == [r \in Left(a) |-> At(r).value.amount]
  <2>1. \A r \in Left(a) : val[r] = Amounts[r]
    BY <1>7, <1>10
  <2>2. Valid(a) = SumOf(val, Left(a))
    BY <1>10, ValidIs
  <2> HIDE DEF val
  <2> QED
    BY <1>10, <2>1, <2>2, SumSame
<1>14. SumOf(Amounts, R) \in Int /\ SumOf(Amounts, Left(a)) \in Int
  BY <1>7, <1>10, SumType
<1>15. aggregates[a] = SumOf(Amounts, Applied(a)) - SumOf(Amounts, Removed(a))
  BY <1>1 DEF AppliedInv
<1>16. SumOf(Amounts, Removed(a)) = SumOf(Amounts, R)
  BY <1>6, <1>11
<1>17. \A x, y \in Int : (x + y) - x = y
  OBVIOUS
<1> QED
  BY <1>12, <1>13, <1>14, <1>15, <1>16, <1>17

\* When both services are done with the topic and nothing was dead-lettered or wasted, the
\* aggregates are what the transactions leave that the validator did not reject, for every
\* topic, any number of clients, any interleaving of the two services and any redeliveries
\* (kafka/validator_adapter_out.go:35-72, saga/consumer.go:48-65).
THEOREM ValidTransactionsRemain ==
    SystemSpec => []OnlyValidRemains
<1>1. ValidatorInv /\ TypeInv /\ [SystemNext]_systemVars => TypeInv'
  BY TypeStep
<1>2. ValidatorInv /\ TypeInv /\ JudgeInv /\ [SystemNext]_systemVars => JudgeInv'
  BY JudgeStep
<1>3. ValidatorInv /\ TypeInv /\ JudgeInv /\ ApplyInv /\ [SystemNext]_systemVars => ApplyInv'
  BY ApplyStep DEF JudgeInv
<1>4. ValidatorInv /\ TypeInv /\ JudgeInv /\ CountInv /\ ApplyInv => OnlyValidRemains
  BY ValidRemains DEF OnlyValidRemains
<1> QED
  BY <1>1, <1>2, <1>3, <1>4, InitTypes, InitJudge, InitApply, ValidatorInvariant,
     CountInvariant, PTL DEF SystemSpec

-----------------------------------------------------------------------------
(* What tx-consumer relies on in the topic.                                *)

\* The topic as tx-consumer reads it.
TxTopic ==
    [p \in Partitions |-> [n \in 1 .. Len(topic[p]) |->
        IF IsPoison(topic[p][n]) THEN topic[p][n] ELSE ToTxCommand(topic[p][n])]]

\* While nothing is dead-lettered, wasted or on the way, the compensations are in order.
SagasStayInOrder == Judging /\ wasted = 0 /\ Open = {} => Ledger!SagasInOrder(TxTopic)

\* A compensation comes behind the first registration, which was judged.
LEMMA BehindTheFirst ==
    ASSUME ValidatorInv, TypeInv, JudgeInv, CountInv, Judging, wasted = 0, Open = {},
           NEW u \in Records, IsUnregister(u)
    PROVE  \E n \in 1 .. u[2] - 1 :
              /\ <<u[1], n>> \in Records /\ IsFirst(<<u[1], n>>)
              /\ At(<<u[1], n>>).id = At(u).of /\ At(<<u[1], n>>).value = At(u).value
<1>1. PICK c \in rejected : At(u).of = c.id /\ At(u).value = c.value
  BY OneCompensation DEF UnregisterRecords
<1>2. PICK e \in Records : IsFirst(e) /\ At(e) = c
  BY DEF JudgeInv, FirstsInv
<1>3. PICK n \in 1 .. u[2] - 1 : At(<<u[1], n>>).kind = "register" /\ At(<<u[1], n>>).id = c.id
  BY <1>1 DEF ValidatorInv, CompensationFollows
<1>4. <<u[1], n>> \in Records /\ IsRegister(<<u[1], n>>) /\ IsRegister(e)
  BY <1>2, <1>3, EarlierRecord DEF ValidatorInv, IsRegister, IsFirst, IsPoison, IsUnregister
<1>5. e[1] = u[1]
  <2>1. PICK s \in Records : s = <<u[1], n>>
    BY <1>4
  <2>2. s[1] = e[1]
    BY <1>2, <1>3, <1>4, <2>1 DEF JudgeInv, IdsInv
  <2> QED
    BY <2>1, <2>2
<1>6. e = <<u[1], e[2]>> /\ e[2] \in Nat \ {0} /\ u[2] \in Nat
  BY <1>5, EntryKnown DEF ValidatorInv
<1>7. ~(n < e[2])
  <2>1. n < e[2] => n \in 1 .. e[2] - 1
    BY <1>6
  <2> QED
    BY <1>2, <1>3, <1>4, <1>5, <2>1 DEF IsFirst
<1>8. e[2] \in 1 .. u[2] - 1
  BY <1>6, <1>7
<1> QED
  BY <1>1, <1>2, <1>6, <1>8

\* A compensation has an id of its own, is in the partition of its transaction, and is the
\* only one of it.
LEMMA SagaApart ==
    ASSUME ValidatorInv, TypeInv, JudgeInv, CountInv, Judging, wasted = 0, Open = {},
           NEW u \in Records, IsUnregister(u), NEW r \in Records
    PROVE  /\ IsRegister(r) => At(r).id # At(u).id
           /\ IsRegister(r) /\ At(r).id = At(u).of => r[1] = u[1]
           /\ IsUnregister(r) /\ At(r).of = At(u).of => r = u
<1>1. IsRegister(r) => At(r).id # At(u).id
  <2>1. PICK n \in 1 .. published : At(u).id = <<n>>
    BY DEF JudgeInv, IdsInv
  <2>2. <<n>> \in Seq(Nat)
    BY DEF ValidatorInv, Typed
  <2>3. IsRegister(r) => At(r) \in Commands
    BY KindKnown DEF ValidatorInv, IsRegister
  <2> QED
    BY <2>1, <2>2, <2>3, TxValidatorAssumption
<1>2. IsRegister(r) /\ At(r).id = At(u).of => r[1] = u[1]
  <2>1. PICK n \in 1 .. u[2] - 1 :
           /\ <<u[1], n>> \in Records /\ IsFirst(<<u[1], n>>)
           /\ At(<<u[1], n>>).id = At(u).of
    BY BehindTheFirst
  <2>2. PICK s \in Records : s = <<u[1], n>> /\ s[1] = u[1]
    BY <2>1
  <2>3. IsRegister(s) /\ At(s).id = At(u).of
    BY <2>1, <2>2 DEF IsFirst
  <2> QED
    BY <2>2, <2>3 DEF JudgeInv, IdsInv
<1>3. IsUnregister(r) /\ At(r).of = At(u).of => r = u
  BY OneCompensation DEF UnregisterRecords
<1> QED
  BY <1>1, <1>2, <1>3

LEMMA TopicInOrder ==
    ASSUME ValidatorInv, TypeInv, JudgeInv, CountInv, Judging, wasted = 0, Open = {}
    PROVE  Ledger!SagasInOrder(TxTopic)
<1> DEFINE Read(r) == IF IsPoison(At(r)) THEN At(r) ELSE ToTxCommand(At(r))
<1>1. /\ DOMAIN TxTopic = Partitions
      /\ \A p \in Partitions : DOMAIN TxTopic[p] = 1 .. Len(topic[p]) /\ Len(topic[p]) \in Nat
  BY DEF TxTopic, ValidatorInv, Typed
<1>2. ASSUME NEW p \in Partitions, NEW n \in 1 .. Len(topic[p])
      PROVE  <<p, n>> \in Records /\ TxTopic[p][n] = Read(<<p, n>>)
  BY DEF TxTopic, Records, At
<1>3. ASSUME NEW r \in Records
      PROVE  /\ Read(r).kind = "unregister" <=> IsUnregister(r)
             /\ \A t : Ledger!Registers(Read(r), t) <=> IsRegister(r) /\ At(r).id = t
             /\ IsUnregister(r) \/ IsRegister(r) =>
                    /\ Read(r).id = At(r).id /\ Read(r).of = At(r).of
                    /\ Read(r).aggregate = At(r).value.aggregate
                    /\ Read(r).value = At(r).value.amount
  <2>1. At(r).kind \in {"poison", "unregister", "register"}
    BY KindKnown, TxValidatorAssumption DEF ValidatorInv, IsPoison, IsUnregister
  <2> QED
    BY <2>1 DEF ToTxCommand, IsPoison, IsUnregister, IsRegister, Ledger!Registers
<1> HIDE DEF Read
<1>4. ASSUME NEW p \in Partitions, NEW n \in 1 .. Len(topic[p]), TxTopic[p][n].kind = "unregister"
      PROVE  \E m \in 1 .. n - 1 :
                /\ Ledger!IsFirstOf(TxTopic[p], m, TxTopic[p][n].of)
                /\ TxTopic[p][m].aggregate = TxTopic[p][n].aggregate
                /\ TxTopic[p][m].value = TxTopic[p][n].value
  <2>1. PICK u \in Records : u = <<p, n>> /\ u[1] = p /\ u[2] = n
    BY <1>2
  <2>2. TxTopic[p][n] = Read(u) /\ IsUnregister(u)
    BY <1>2, <1>3, <1>4, <2>1
  <2>3. PICK m \in 1 .. n - 1 :
           /\ <<p, m>> \in Records /\ IsFirst(<<p, m>>)
           /\ At(<<p, m>>).id = At(u).of /\ At(<<p, m>>).value = At(u).value
    BY <2>1, <2>2, BehindTheFirst
  <2>4. PICK e \in Records : e = <<p, m>> /\ e[1] = p /\ e[2] = m
    BY <2>3
  <2>5. \A k \in 1 .. n : TxTopic[p][k] = Read(<<p, k>>) /\ <<p, k>> \in Records
    BY <1>1, <1>2
  <2>6. TxTopic[p][m] = Read(e) /\ IsRegister(e) /\ At(e).id = At(u).of /\ At(e).value = At(u).value
    BY <2>3, <2>4, <2>5 DEF IsFirst
  <2>7. ASSUME NEW k \in 1 .. m - 1 PROVE ~Ledger!Registers(TxTopic[p][k], At(u).of)
    <3>1. PICK d \in Records : d = <<p, k>> /\ TxTopic[p][k] = Read(d)
      <4>1. k \in 1 .. n
        BY <1>1
      <4> QED
        BY <2>5, <4>1
    <3>2. IsRegister(d) => At(d).id # At(u).of
      BY <2>3, <2>4, <3>1 DEF IsFirst
    <3> QED
      BY <1>3, <3>1, <3>2
  <2>8. Ledger!Registers(TxTopic[p][m], At(u).of)
    BY <1>3, <2>6
  <2>9. TxTopic[p][n].of = At(u).of
    BY <1>3, <2>2
  <2> QED
    BY <1>3, <2>2, <2>6, <2>7, <2>8, <2>9 DEF Ledger!IsFirstOf
<1>5. ASSUME NEW p \in Partitions, NEW n \in 1 .. Len(topic[p]), TxTopic[p][n].kind = "unregister",
             NEW q \in Partitions, NEW m \in 1 .. Len(topic[q])
      PROVE  /\ ~Ledger!Registers(TxTopic[q][m], TxTopic[p][n].id)
             /\ Ledger!Registers(TxTopic[q][m], TxTopic[p][n].of) => q = p
             /\ TxTopic[q][m].kind = "unregister" /\ TxTopic[q][m].of = TxTopic[p][n].of
                    => TxTopic[q][m].id = TxTopic[p][n].id
  <2>1. PICK u \in Records : u = <<p, n>> /\ u[1] = p /\ TxTopic[p][n] = Read(u)
    BY <1>2
  <2>2. PICK r \in Records : r = <<q, m>> /\ r[1] = q /\ TxTopic[q][m] = Read(r)
    BY <1>2
  <2>3. IsUnregister(u)
    BY <1>3, <1>5, <2>1
  <2> QED
    BY <1>3, <2>1, <2>2, <2>3, SagaApart
<1> HIDE DEF TxTopic
<1>6. ASSUME NEW content, content = TxTopic PROVE Ledger!SagasInOrder(content)
  <2>1. ASSUME NEW p \in DOMAIN content, NEW n \in DOMAIN content[p], NEW c,
               c = content[p][n], c.kind = "unregister"
        PROVE  /\ \E m \in 1 .. n - 1 :
                      /\ Ledger!IsFirstOf(content[p], m, c.of)
                      /\ content[p][m].aggregate = c.aggregate /\ content[p][m].value = c.value
               /\ \A q \in DOMAIN content : \A m \in DOMAIN content[q] :
                      LET d == content[q][m]
                      IN  /\ ~Ledger!Registers(d, c.id)
                          /\ Ledger!Registers(d, c.of) => q = p
                          /\ d.kind = "unregister" /\ d.of = c.of => d.id = c.id
    <3>1. p \in Partitions /\ n \in 1 .. Len(topic[p]) /\ TxTopic[p][n].kind = "unregister"
      BY <1>1, <1>6, <2>1
    <3>2. \A q \in DOMAIN content : \A m \in DOMAIN content[q] :
              q \in Partitions /\ m \in 1 .. Len(topic[q])
      BY <1>1, <1>6
    <3> QED
      BY <1>4, <1>5, <1>6, <2>1, <3>1, <3>2
  <2> QED
    BY <2>1 DEF Ledger!SagasInOrder
<1> QED
  BY <1>6

\* What the theorem SagasUnwind of TxConsumer asks of a topic holds of the one tx-validator
\* writes to, as long as it dead-lettered no command, no attempt of it failed after it
\* published, and none is open: compensations have ids of their own, and each comes behind
\* the registration that was judged, which is the first, and with its content
\* (kafka/validator_adapter_out.go:35-72).
THEOREM TopicsStayInOrder ==
    SystemSpec => []SagasStayInOrder
<1>1. ValidatorInv /\ TypeInv /\ [SystemNext]_systemVars => TypeInv'
  BY TypeStep
<1>2. ValidatorInv /\ TypeInv /\ JudgeInv /\ [SystemNext]_systemVars => JudgeInv'
  BY JudgeStep
<1>3. ValidatorInv /\ TypeInv /\ JudgeInv /\ CountInv => SagasStayInOrder
  BY TopicInOrder DEF SagasStayInOrder
<1> QED
  BY <1>1, <1>2, <1>3, InitTypes, InitJudge, ValidatorInvariant, CountInvariant,
     PTL DEF SystemSpec

=============================================================================
