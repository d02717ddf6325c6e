--------------------------- MODULE MailSender_proofs ---------------------------
(***************************************************************************)
(* No alarm is swallowed, no mail is sent twice for one commit, and the    *)
(* last mail of a player is the right one, for every alarms topic, any     *)
(* number of clients and any faults and redeliveries.                      *)
(***************************************************************************)
EXTENDS MailSender, CommitRun_proofs, FiniteSetTheorems, TLAPS

Statements == {"mail", "mark"}

Places == {"idle", "begun", "compensated", "mail", "mark", "commit"}

Typed ==
    /\ topic \in Topics
    /\ pc \in [Workers -> Places]
    /\ at \in [Workers -> {NoRecord} \cup Records]
    /\ wrote \in [Workers -> SUBSET Statements]
    /\ mails \in Seq(Commands) /\ wasted \in Seq(Commands)

CommandAt(r) == topic[r[1]][r[2]]

\* The transaction of w marks its command without a mail.
Ignorable(w) == ~Compensating(Command(w)) /\ Compensated(processed, Command(w).of)

\* What an open transaction wrote follows from where its worker is.
WroteInOrder(w) ==
    /\ pc[w] \in {"idle", "begun", "compensated", "mail"} => wrote[w] = {}
    /\ pc[w] = "mark" => wrote[w] = {"mail"} \/ (wrote[w] = {} /\ Ignorable(w))
    /\ pc[w] = "commit" => \/ wrote[w] = {} /\ Handled(processed, Command(w).id)
                           \/ wrote[w] = {"mail", "mark"}
                           \/ wrote[w] = {"mark"} /\ Ignorable(w)

WorkerInv(w) ==
    /\ pc[w] # "idle" => at[w] \in Records
    /\ pc[w] \notin {"idle", "begun"} => ~IsPoison(Command(w))
    /\ pc[w] = "compensated" => ~Compensating(Command(w))
    /\ WroteInOrder(w)
    /\ "mail" \in wrote[w] => MailsOf(mails, Command(w)) # {}
    /\ "mark" \in wrote[w] => ~Handled(processed, Command(w).id)

\* Two open transactions do not hold the same key.
Exclusive(v, w) == "mark" \in wrote[w] => ~HoldsKey(v, Command(w), "mark")

MailInv ==
    /\ Typed
    /\ \A w \in Workers : WorkerInv(w)
    /\ \A v, w \in Workers : v # w => Exclusive(v, w)

-----------------------------------------------------------------------------
(* Mails and the marks of the open transactions.                           *)

LEMMA CommandKnown ==
    ASSUME Typed, NEW r \in Records, ~IsPoison(CommandAt(r))
    PROVE  /\ CommandAt(r) \in Commands
           /\ CommandAt(r).kind \in {"raise", "clear"} /\ CommandAt(r).of \in Players
<1>1. PICK p \in Partitions : r \in {p} \X (1 .. Len(topic[p]))
  BY DEF Records
<1>2. r[1] = p /\ r[2] \in 1 .. Len(topic[p])
  BY <1>1
<1>3. CommandAt(r) \in {topic[p][n] : n \in 1 .. Len(topic[p])}
  BY <1>2 DEF CommandAt
<1>4. CommandAt(r) \in Commands
  BY <1>3 DEF Commands, Entries, Typed
<1> QED
  BY <1>4, MailSenderAssumption

\* A mail that is appended belongs to its command only.
LEMMA MailsOfAppend ==
    ASSUME NEW C, NEW sequence \in Seq(C), NEW d \in C, NEW c
    PROVE  MailsOf(Append(sequence, d), c) =
               IF c = d THEN MailsOf(sequence, c) \cup {Len(sequence) + 1}
               ELSE MailsOf(sequence, c)
<1> DEFINE longer == Append(sequence, d)
<1>1. /\ Len(longer) = Len(sequence) + 1 /\ Len(sequence) \in Nat
      /\ longer[Len(sequence) + 1] = d
      /\ \A n \in 1 .. Len(sequence) : longer[n] = sequence[n]
  OBVIOUS
<1>2. 1 .. Len(longer) = (1 .. Len(sequence)) \cup {Len(sequence) + 1}
  BY <1>1
<1> HIDE DEF longer
<1> QED
  BY <1>1, <1>2 DEF MailsOf, longer

\* A worker that takes no part in a step keeps its invariant, if its key stays free.
LEMMA BystandersKeep ==
    ASSUME MailInv, UNCHANGED topic, NEW v \in Workers,
           pc'[v] = pc[v], at'[v] = at[v], wrote'[v] = wrote[v],
           processed \subseteq processed',
           MailsOf(mails, Command(v)) \subseteq MailsOf(mails', Command(v)),
           "mark" \in wrote[v] => ~Handled(processed', Command(v).id)
    PROVE  WorkerInv(v)'
<1>1. Command(v)' = Command(v) /\ Records' = Records
  BY DEF Command, Records
<1>2. \A id : /\ Handled(processed, id) => Handled(processed', id)
              /\ Compensated(processed, id) => Compensated(processed', id)
  BY DEF Handled, Compensated
<1>3. WroteInOrder(v)'
  BY <1>1, <1>2 DEF MailInv, WorkerInv, WroteInOrder, Ignorable
<1> QED
  BY <1>1, <1>3 DEF MailInv, WorkerInv

Bystanders(w) ==
    \A v \in Workers \ {w} : pc'[v] = pc[v] /\ at'[v] = at[v] /\ wrote'[v] = wrote[v]

\* The end of an attempt that commits nothing.
LEMMA EndKeepsMails ==
    ASSUME MailInv, NEW w \in Workers, pc[w] # "idle", EndAttempt(w), NoteWaste(w),
           UNCHANGED <<topic, processed, mails>>
    PROVE  MailInv'
<1>1. pc'[w] = "idle" /\ wrote'[w] = {} /\ Bystanders(w)
  BY DEF EndAttempt, Goto, Bystanders, MailInv, Typed
<1>2. wasted' \in Seq(Commands)
  <2>1. CASE "mail" \in wrote[w]
    <3>1. at[w] \in Records /\ ~IsPoison(Command(w))
      BY <2>1 DEF MailInv, WorkerInv, WroteInOrder
    <3>2. Command(w) \in Commands
      BY <3>1, CommandKnown DEF MailInv, Command, CommandAt
    <3> QED
      BY <3>2 DEF NoteWaste, MailInv, Typed
  <2>2. CASE "mail" \notin wrote[w]
    BY <2>2 DEF NoteWaste, MailInv, Typed
  <2> QED
    BY <2>1, <2>2
<1>3. Typed'
  BY <1>2 DEF EndAttempt, Goto, MailInv, Typed, Places, Records
<1>4. ASSUME NEW v \in Workers PROVE WorkerInv(v)'
  <2>1. CASE v = w
    <3>1. pc'[v] = "idle" /\ wrote'[v] = {}
      BY <1>1, <2>1
    <3> QED
      BY <3>1 DEF WorkerInv, WroteInOrder
  <2>2. CASE v # w
    BY <1>1, <2>2, BystandersKeep DEF Bystanders, MailInv, WorkerInv
  <2> QED
    BY <2>1, <2>2
<1>5. \A v \in Workers \ {w} : Command(v)' = Command(v)
  BY <1>1 DEF Bystanders, Command
<1>6. ASSUME NEW u \in Workers, NEW v \in Workers, u # v PROVE Exclusive(u, v)'
  <2>1. CASE u = w \/ v = w
    BY <1>1, <2>1 DEF Exclusive, HoldsKey
  <2>2. CASE u # w /\ v # w
    BY <1>1, <1>5, <1>6, <2>2 DEF Bystanders, MailInv, Exclusive, HoldsKey
  <2> QED
    BY <2>1, <2>2
<1> QED
  BY <1>3, <1>4, <1>6 DEF MailInv

\* A step within an attempt: a mark it newly wrote must be free.
LEMMA MoveKeepsMails ==
    ASSUME MailInv, NEW w \in Workers, NEW place \in Places, NEW wrote1 \in SUBSET Statements,
           pc[w] # "idle", Goto(w, place), wrote' = [wrote EXCEPT ![w] = wrote1],
           UNCHANGED <<topic, at, processed, wasted>>,
           mails' \in Seq(Commands), \A c : MailsOf(mails, c) \subseteq MailsOf(mails', c),
           WorkerInv(w)',
           \A v \in Workers \ {w} :
               "mark" \in wrote1 \ wrote[w] => ~HoldsKey(v, Command(w), "mark")
    PROVE  MailInv'
<1>1. wrote'[w] = wrote1 /\ Bystanders(w) /\ at'[w] = at[w]
  BY DEF Goto, Bystanders, MailInv, Typed
<1>2. Typed'
  BY DEF Goto, MailInv, Typed, Records
<1>3. ASSUME NEW v \in Workers PROVE WorkerInv(v)'
  BY <1>1, BystandersKeep DEF Bystanders, MailInv, WorkerInv
<1>4. \A v \in Workers : Command(v)' = Command(v)
  BY DEF Command
<1>5. ASSUME NEW u \in Workers, NEW v \in Workers, u # v PROVE Exclusive(u, v)'
  <2>1. CASE u # w /\ v # w
    BY <1>1, <1>4, <1>5, <2>1 DEF Bystanders, MailInv, Exclusive, HoldsKey
  <2>2. CASE v = w
    BY <1>1, <1>4, <1>5, <2>2 DEF Bystanders, MailInv, Exclusive, HoldsKey
  <2>3. CASE u = w
    BY <1>1, <1>4, <1>5, <2>3 DEF Bystanders, MailInv, Exclusive, HoldsKey
  <2> QED
    BY <2>1, <2>2, <2>3
<1> QED
  BY <1>2, <1>3, <1>5 DEF MailInv

LEMMA BeginKeepsMails ==
    ASSUME MailInv, NEW w \in Workers, NEW r \in Records, Begin(w, r)
    PROVE  MailInv'
<1>1. /\ pc[w] = "idle" /\ pc' = [pc EXCEPT ![w] = "begun"] /\ at' = [at EXCEPT ![w] = r]
      /\ UNCHANGED <<topic, processed, wrote, mails, wasted>>
  BY DEF Begin, BeginRecord, Goto
<1>2. pc'[w] = "begun" /\ at'[w] = r /\ wrote[w] = {} /\ Records' = Records
  BY <1>1 DEF MailInv, Typed, WorkerInv, WroteInOrder, Records
<1>3. Typed'
  BY <1>1, <1>2 DEF MailInv, Typed, Places
<1>4. Bystanders(w)
  BY <1>1 DEF Bystanders, MailInv, Typed
<1>5. ASSUME NEW v \in Workers PROVE WorkerInv(v)'
  <2>1. CASE v = w
    BY <1>1, <1>2, <2>1 DEF WorkerInv, WroteInOrder
  <2>2. CASE v # w
    BY <1>1, <1>4, <2>2, BystandersKeep DEF Bystanders, MailInv, WorkerInv
  <2> QED
    BY <2>1, <2>2
<1>6. \A v \in Workers \ {w} : Command(v)' = Command(v)
  BY <1>1, <1>4 DEF Bystanders, Command
<1>7. ASSUME NEW u \in Workers, NEW v \in Workers, u # v PROVE Exclusive(u, v)'
  <2>1. CASE u = w \/ v = w
    BY <1>1, <1>2, <2>1 DEF Exclusive, HoldsKey
  <2>2. CASE u # w /\ v # w
    BY <1>1, <1>6, <1>7, <2>2 DEF MailInv, Exclusive, HoldsKey
  <2> QED
    BY <2>1, <2>2
<1> QED
  BY <1>3, <1>5, <1>7 DEF MailInv

\* The checks before the statements.
LEMMA CheckKeepsMails ==
    ASSUME MailInv, NEW w \in Workers, CheckHandled(w) \/ CheckCompensated(w)
    PROVE  MailInv'
<1>1. PICK place \in Places :
          /\ Goto(w, place) /\ UNCHANGED <<topic, at, wrote, processed, mails, wasted>>
          /\ pc[w] \in {"begun", "compensated"} /\ ~IsPoison(Command(w))
          /\ place \in {"commit", "mail", "compensated", "mark"}
          /\ place = "commit" => Handled(processed, Command(w).id)
          /\ place = "compensated" => ~Compensating(Command(w))
          /\ place = "mark" => Ignorable(w)
  BY DEF CheckHandled, CheckHandledThen, CheckCompensated, CheckCompensatedThen, deliveryVars,
         Places, MailInv, WorkerInv, Ignorable
<1>2. pc'[w] = place /\ wrote[w] = {} /\ at[w] \in Records
  BY <1>1 DEF Goto, MailInv, Typed, WorkerInv, WroteInOrder
<1>3. Command(w)' = Command(w)
  BY <1>1 DEF Command
<1>4. WorkerInv(w)'
  BY <1>1, <1>2, <1>3 DEF WorkerInv, WroteInOrder, Ignorable, Records
<1>5. wrote' = [wrote EXCEPT ![w] = wrote[w]] /\ wrote[w] \in SUBSET Statements
  BY <1>1 DEF MailInv, Typed
<1> QED
  BY <1>1, <1>4, <1>5, MoveKeepsMails DEF MailInv, Typed, WorkerInv

LEMMA SendMailKeepsMails ==
    ASSUME MailInv, NEW w \in Workers, SendMail(w)
    PROVE  MailInv'
<1>1. /\ pc[w] = "mail" /\ mails' = Append(mails, Command(w)) /\ Goto(w, "mark")
      /\ wrote' = [wrote EXCEPT ![w] = @ \cup {"mail"}]
      /\ UNCHANGED <<topic, at, processed, wasted>>
  BY DEF SendMail, Execute, deliveryVars
<1>2. wrote[w] = {} /\ at[w] \in Records /\ ~IsPoison(Command(w))
  BY <1>1 DEF MailInv, WorkerInv, WroteInOrder
<1>3. Command(w) \in Commands
  BY <1>2, CommandKnown DEF MailInv, Command, CommandAt
<1>4. mails' \in Seq(Commands)
  BY <1>1, <1>3 DEF MailInv, Typed
<1>5. \A c : MailsOf(mails', c) = IF c = Command(w) THEN MailsOf(mails, c) \cup {Len(mails) + 1}
                                  ELSE MailsOf(mails, c)
  BY <1>1, <1>3, MailsOfAppend DEF MailInv, Typed
<1>6. /\ pc'[w] = "mark" /\ wrote'[w] = {"mail"} /\ wrote' = [wrote EXCEPT ![w] = {"mail"}]
      /\ Command(w)' = Command(w)
  BY <1>1, <1>2 DEF Goto, MailInv, Typed, Command
<1>7. MailsOf(mails', Command(w)) # {}
  BY <1>5
<1>8. WorkerInv(w)'
  BY <1>1, <1>2, <1>6, <1>7 DEF WorkerInv, WroteInOrder, Records
<1>9. \A c : MailsOf(mails, c) \subseteq MailsOf(mails', c)
  BY <1>5
<1> QED
  BY <1>1, <1>4, <1>6, <1>8, <1>9, MoveKeepsMails DEF Places, Statements

LEMMA MarkKeepsMails ==
    ASSUME MailInv, NEW w \in Workers, Mark(w)
    PROVE  MailInv'
<1>1. /\ pc[w] = "mark" /\ UNCHANGED mails /\ NoteWaste(w)
      /\ \A v \in Workers \ {w} : ~HoldsKey(v, Command(w), "mark")
      /\ \/ EndAttempt(w) /\ UNCHANGED <<topic, processed>>
         \/ Execute(w, "mark", "commit") /\ ~Handled(processed, Command(w).id)
  BY DEF Mark, MarkHandled, Insert
<1>2. CASE EndAttempt(w) /\ UNCHANGED <<topic, processed>>
  BY <1>1, <1>2, EndKeepsMails
<1>3. CASE Execute(w, "mark", "commit") /\ ~Handled(processed, Command(w).id)
  <2>1. /\ Goto(w, "commit") /\ wrote' = [wrote EXCEPT ![w] = wrote[w] \cup {"mark"}]
        /\ UNCHANGED <<topic, at, processed>>
    BY <1>3 DEF Execute, deliveryVars
  <2>2. pc'[w] = "commit" /\ wrote'[w] = wrote[w] \cup {"mark"} /\ Command(w)' = Command(w)
    BY <2>1 DEF Goto, MailInv, Typed, Command
  <2>3. UNCHANGED wasted /\ ~IsPoison(Command(w)) /\ at[w] \in Records
    BY <1>1, <2>2 DEF NoteWaste, MailInv, WorkerInv
  <2>4. wrote[w] = {"mail"} \/ (wrote[w] = {} /\ Ignorable(w))
    BY <1>1 DEF MailInv, WorkerInv, WroteInOrder
  <2>5. Ignorable(w)' = Ignorable(w)
    BY <2>1, <2>2 DEF Ignorable
  <2>6. WroteInOrder(w)'
    BY <2>2, <2>4, <2>5 DEF WroteInOrder
  <2>7. WorkerInv(w)'
    BY <1>1, <1>3, <2>1, <2>2, <2>3, <2>6 DEF MailInv, WorkerInv, Records
  <2>8. wrote[w] \cup {"mark"} \in SUBSET Statements
    BY DEF Statements, MailInv, Typed
  <2>9. mails' \in Seq(Commands) /\ \A c : MailsOf(mails, c) \subseteq MailsOf(mails', c)
    BY <1>1 DEF MailInv, Typed
  <2> QED
    BY <1>1, <2>1, <2>3, <2>7, <2>8, <2>9, MoveKeepsMails DEF Places
<1> QED
  BY <1>1, <1>2, <1>3

\* WithTx commits, whether its client is told or not.
Commits(w) ==
    /\ pc[w] = "commit" /\ ApplyMark(w) /\ EndAttempt(w)
    /\ UNCHANGED <<topic, mails, wasted>>

\* What a commit adds to the handled commands is the command of its worker.
LEMMA CommittedMark ==
    ASSUME NEW w, ApplyMark(w), NEW id
    PROVE  /\ processed \subseteq processed'
           /\ Handled(processed', id) =>
                 Handled(processed, id) \/ ("mark" \in wrote[w] /\ id = Command(w).id)
           /\ "mark" \in wrote[w] => Handled(processed', Command(w).id)
<1>1. RowOf(Command(w)).id = Command(w).id
  BY DEF RowOf
<1>2. processed' = IF "mark" \in wrote[w] THEN processed \cup {RowOf(Command(w))} ELSE processed
  BY DEF ApplyMark
<1>3. CASE "mark" \in wrote[w]
  BY <1>1, <1>2, <1>3 DEF Handled
<1>4. CASE "mark" \notin wrote[w]
  BY <1>2, <1>4
<1> QED
  BY <1>3, <1>4

LEMMA CommitKeepsMails ==
    ASSUME MailInv, NEW w \in Workers, Commits(w)
    PROVE  MailInv'
<1>1. pc'[w] = "idle" /\ wrote'[w] = {} /\ Bystanders(w)
  BY DEF Commits, EndAttempt, Goto, Bystanders, MailInv, Typed
<1>2. Typed'
  BY DEF Commits, EndAttempt, Goto, MailInv, Typed, Places, Records
<1>3. \A v \in Workers \ {w} : Command(v)' = Command(v)
  BY <1>1 DEF Commits, Bystanders, Command
<1>4. ASSUME NEW v \in Workers PROVE WorkerInv(v)'
  <2>1. CASE v = w
    <3>1. pc'[v] = "idle" /\ wrote'[v] = {}
      BY <1>1, <2>1
    <3> QED
      BY <3>1 DEF WorkerInv, WroteInOrder
  <2>2. CASE v # w
    <3>1. "mark" \in wrote[v] => ~Handled(processed', Command(v).id)
      BY <2>2, CommittedMark DEF Commits, MailInv, WorkerInv, Exclusive, HoldsKey
    <3> QED
      BY <1>1, <2>2, <3>1, CommittedMark, BystandersKeep DEF Commits, Bystanders
  <2> QED
    BY <2>1, <2>2
<1>5. ASSUME NEW u \in Workers, NEW v \in Workers, u # v PROVE Exclusive(u, v)'
  <2>1. CASE u = w \/ v = w
    BY <1>1, <2>1 DEF Exclusive, HoldsKey
  <2>2. CASE u # w /\ v # w
    BY <1>1, <1>3, <1>5, <2>2 DEF Bystanders, MailInv, Exclusive, HoldsKey
  <2> QED
    BY <2>1, <2>2
<1> QED
  BY <1>2, <1>4, <1>5 DEF MailInv

-----------------------------------------------------------------------------
(* The steps by what they do to the mails.                                 *)

\* An attempt begins or goes on, without a mail.
Moves(w) ==
    /\ UNCHANGED <<topic, processed, mails, wasted>> /\ Bystanders(w)
    /\ "mail" \in wrote[w] => "mail" \in wrote'[w] /\ UNCHANGED at
    /\ "mail" \in wrote'[w] => "mail" \in wrote[w]

Ends(w) ==
    /\ EndAttempt(w) /\ NoteWaste(w)
    /\ UNCHANGED <<topic, processed, mails>>

LEMMA MailStep ==
    ASSUME MailInv, [Next]_vars
    PROVE  /\ MailInv'
           /\ \/ UNCHANGED vars
              \/ \E w \in Workers : Moves(w) \/ SendMail(w) \/ Commits(w)
                                    \/ (pc[w] # "idle" /\ Ends(w))
<1>1. CASE UNCHANGED vars
  <2>1. UNCHANGED <<topic, pc, at, wrote, processed, mails, wasted>>
    BY <1>1 DEF vars, handlingVars, deliveryVars
  <2>2. Records' = Records /\ \A w \in Workers : Command(w)' = Command(w)
    BY <2>1 DEF Records, Command
  <2> QED
    BY <1>1, <2>1, <2>2 DEF MailInv, Typed, WorkerInv, WroteInOrder, Exclusive, Ignorable, HoldsKey
<1>2. ASSUME NEW w \in Workers, NEW r \in Records, Begin(w, r)
      PROVE  MailInv' /\ Moves(w)
  <2>1. pc[w] = "idle" /\ UNCHANGED <<topic, processed, wrote, mails, wasted>> /\ wrote[w] = {}
    BY <1>2 DEF Begin, BeginRecord, MailInv, WorkerInv, WroteInOrder
  <2>2. Bystanders(w)
    BY <1>2 DEF Begin, BeginRecord, Goto, Bystanders, MailInv, Typed
  <2> QED
    BY <1>2, <2>1, <2>2, BeginKeepsMails DEF Moves
<1>3. ASSUME NEW w \in Workers, RejectPoison(w) \/ Fail(w)
      PROVE  MailInv' /\ pc[w] # "idle" /\ Ends(w)
  <2>1. pc[w] # "idle" /\ EndAttempt(w) /\ UNCHANGED <<topic, processed, mails>>
    BY <1>3 DEF RejectPoison, RejectRecord, Fail, RollBack
  <2>2. NoteWaste(w)
    <3>1. CASE Fail(w)
      BY <3>1 DEF Fail
    <3>2. CASE RejectPoison(w)
      BY <3>2 DEF RejectPoison, RejectRecord, NoteWaste, MailInv, WorkerInv, WroteInOrder
    <3> QED
      BY <1>3, <3>1, <3>2
  <2> QED
    BY <2>1, <2>2, EndKeepsMails DEF Ends
<1>4. ASSUME NEW w \in Workers, CheckHandled(w) \/ CheckCompensated(w)
      PROVE  MailInv' /\ Moves(w)
  BY <1>4, CheckKeepsMails DEF CheckHandled, CheckHandledThen, CheckCompensated,
      CheckCompensatedThen, deliveryVars, Goto, Moves, Bystanders, MailInv, Typed
<1>5. ASSUME NEW w \in Workers, Mark(w)
      PROVE  MailInv' /\ (Moves(w) \/ (pc[w] # "idle" /\ Ends(w)))
  <2>1. /\ pc[w] = "mark" /\ UNCHANGED mails /\ NoteWaste(w)
        /\ \/ EndAttempt(w) /\ UNCHANGED <<topic, processed>>
           \/ Execute(w, "mark", "commit")
    BY <1>5 DEF Mark, MarkHandled, Insert
  <2>2. CASE EndAttempt(w) /\ UNCHANGED <<topic, processed>>
    BY <1>5, <2>1, <2>2, MarkKeepsMails DEF Ends
  <2>3. CASE Execute(w, "mark", "commit")
    <3>1. pc'[w] = "commit" /\ wrote'[w] = wrote[w] \cup {"mark"} /\ Bystanders(w)
      BY <2>3 DEF Execute, Goto, Bystanders, MailInv, Typed
    <3>2. UNCHANGED <<topic, processed, at, wasted>>
      BY <2>1, <2>3, <3>1 DEF Execute, NoteWaste, deliveryVars
    <3> QED
      BY <1>5, <2>1, <3>1, <3>2, MarkKeepsMails DEF Moves
  <2> QED
    BY <2>1, <2>2, <2>3
<1>6. ASSUME NEW w \in Workers, Commit(w) \/ CommitUnanswered(w)
      PROVE  MailInv' /\ Commits(w)
  <2>1. Commits(w)
    BY <1>6 DEF Commit, CommitUnanswered, CommitTx, CommitTxUnanswered, Commits
  <2> QED
    BY <2>1, CommitKeepsMails
<1>7. CASE Idle
  BY <1>1, <1>7 DEF Idle
<1> QED
  BY <1>1, <1>2, <1>3, <1>4, <1>5, <1>6, <1>7, SendMailKeepsMails DEF Next

LEMMA InitMails ==
    Init => MailInv
<1> SUFFICES ASSUME Init
             PROVE  MailInv
  OBVIOUS
<1>1. Typed
  BY DEF Init, HandlingInit, Typed, Places
<1>2. \A w \in Workers : pc[w] = "idle" /\ wrote[w] = {}
  BY DEF Init, HandlingInit
<1>3. \A w \in Workers : WorkerInv(w)
  BY <1>2 DEF WorkerInv, WroteInOrder
<1>4. \A v, w \in Workers : Exclusive(v, w)
  BY <1>2 DEF Exclusive
<1> QED
  BY <1>1, <1>3, <1>4 DEF MailInv

-----------------------------------------------------------------------------
(* No alarm is swallowed.                                                  *)

LEMMA CommitSwallowsNone ==
    ASSUME MailInv, NoAlarmSwallowed, NEW w \in Workers, Commits(w)
    PROVE  NoAlarmSwallowed'
<1> SUFFICES ASSUME NEW c \in Commands, Handled(processed', c.id)
             PROVE  MailsOf(mails', c) # {} \/ (c.kind = "raise" /\ Compensated(processed', c.of))
  BY DEF NoAlarmSwallowed
<1>1. UNCHANGED mails /\ processed \subseteq processed'
  BY CommittedMark DEF Commits
<1>2. \A id : Compensated(processed, id) => Compensated(processed', id)
  BY <1>1 DEF Compensated
<1>3. CASE Handled(processed, c.id)
  BY <1>1, <1>2, <1>3 DEF NoAlarmSwallowed
<1>4. CASE "mark" \in wrote[w] /\ c.id = Command(w).id
  <2>1. /\ at[w] \in Records /\ ~IsPoison(Command(w))
        /\ wrote[w] = {"mail", "mark"} \/ Ignorable(w)
    BY <1>4 DEF Commits, MailInv, WorkerInv, WroteInOrder
  <2>2. Command(w) \in Commands /\ Command(w).kind \in {"raise", "clear"}
    BY <2>1, CommandKnown DEF MailInv, Command, CommandAt
  <2>3. c = Command(w)
    BY <1>4, <2>2, MailSenderAssumption
  <2>4. CASE wrote[w] = {"mail", "mark"}
    BY <1>1, <2>3, <2>4 DEF MailInv, WorkerInv
  <2>5. CASE Ignorable(w)
    BY <1>2, <2>2, <2>3, <2>5 DEF Ignorable, Compensating
  <2> QED
    BY <2>1, <2>4, <2>5
<1> QED
  BY <1>3, <1>4, CommittedMark DEF Commits

\* A command marked as handled has been mailed, or is a raise command of a player whose
\* alarm was cleared: no retry and no unanswered commit loses a mail (saga/consumer.go:37-68).
THEOREM NothingSwallowed ==
    Spec => []NoAlarmSwallowed
<1>1. Init => MailInv /\ NoAlarmSwallowed
  BY InitMails DEF Init, HandlingInit, NoAlarmSwallowed, Handled
<1>2. MailInv /\ NoAlarmSwallowed /\ [Next]_vars => (MailInv /\ NoAlarmSwallowed)'
  <2> SUFFICES ASSUME MailInv, NoAlarmSwallowed, [Next]_vars
               PROVE  NoAlarmSwallowed'
    BY MailStep
  <2>1. CASE UNCHANGED vars
    BY <2>1 DEF vars, handlingVars, NoAlarmSwallowed
  <2>2. ASSUME NEW w \in Workers, Moves(w) \/ Ends(w)
        PROVE  NoAlarmSwallowed'
    BY <2>2 DEF Moves, Ends, NoAlarmSwallowed
  <2>3. ASSUME NEW w \in Workers, SendMail(w)
        PROVE  NoAlarmSwallowed'
    <3>1. UNCHANGED processed /\ mails' = Append(mails, Command(w)) /\ pc[w] = "mail"
      BY <2>3 DEF SendMail, Execute
    <3>2. Command(w) \in Commands
      BY <3>1, CommandKnown DEF MailInv, WorkerInv, Command, CommandAt
    <3>3. \A c : MailsOf(mails, c) \subseteq MailsOf(mails', c)
      BY <3>1, <3>2, MailsOfAppend DEF MailInv, Typed
    <3> QED
      BY <3>1, <3>3 DEF NoAlarmSwallowed
  <2> QED
    BY <2>1, <2>2, <2>3, MailStep, CommitSwallowsNone
<1> QED
  BY <1>1, <1>2, PTL DEF Spec

-----------------------------------------------------------------------------
(* No mail is sent twice for one commit.                                   *)

\* The open transactions that sent the mail of c.
Open(c) == {w \in Workers : "mail" \in wrote[w] /\ Command(w) = c}

LEMMA OpenFinite ==
    ASSUME NEW c
    PROVE  /\ IsFiniteSet(Open(c)) /\ Cardinality(Open(c)) \in Nat
           /\ IsFiniteSet(Open(c)') /\ Cardinality(Open(c)') \in Nat
<1>1. Open(c) \in SUBSET Workers /\ Open(c)' \in SUBSET Workers
  BY DEF Open
<1> QED
  BY <1>1, TransactionalAssumption, FS_Subset, FS_CardinalityType

LEMMA MailsFinite ==
    ASSUME NEW C, NEW sequence \in Seq(C), NEW c
    PROVE  /\ IsFiniteSet(MailsOf(sequence, c)) /\ Cardinality(MailsOf(sequence, c)) \in Nat
           /\ Len(sequence) + 1 \notin MailsOf(sequence, c)
<1>1. MailsOf(sequence, c) \in SUBSET (1 .. Len(sequence)) /\ Len(sequence) \in Nat
  BY DEF MailsOf
<1>2. IsFiniteSet(1 .. Len(sequence))
  BY <1>1, FS_Interval
<1>3. IsFiniteSet(MailsOf(sequence, c)) /\ Cardinality(MailsOf(sequence, c)) \in Nat
  BY <1>1, <1>2, FS_Subset, FS_CardinalityType
<1> QED
  BY <1>1, <1>3

LEMMA AppendCounts ==
    ASSUME NEW C, NEW sequence \in Seq(C), NEW d \in C, NEW c
    PROVE  Cardinality(MailsOf(Append(sequence, d), c)) =
               Cardinality(MailsOf(sequence, c)) + (IF c = d THEN 1 ELSE 0)
<1>1. CASE c = d
  <2>1. MailsOf(Append(sequence, d), c) = MailsOf(sequence, c) \cup {Len(sequence) + 1}
    BY <1>1, MailsOfAppend
  <2>2. IsFiniteSet(MailsOf(sequence, c)) /\ Len(sequence) + 1 \notin MailsOf(sequence, c)
    BY MailsFinite
  <2>3. Cardinality(MailsOf(sequence, c) \cup {Len(sequence) + 1}) =
            Cardinality(MailsOf(sequence, c)) + 1
    BY <2>2, FS_AddElement
  <2> QED
    BY <1>1, <2>1, <2>3
<1>2. CASE c # d
  <2>1. MailsOf(Append(sequence, d), c) = MailsOf(sequence, c)
    BY <1>2, MailsOfAppend
  <2>2. Cardinality(MailsOf(sequence, c)) \in Nat
    BY MailsFinite
  <2> QED
    BY <1>2, <2>1, <2>2
<1> QED
  BY <1>1, <1>2

\* An attempt that ends is no longer open.
LEMMA OpenWithout ==
    ASSUME NEW w \in Workers, Bystanders(w), UNCHANGED topic, "mail" \notin wrote'[w], NEW c
    PROVE  /\ Open(c)' = Open(c) \ {w}
           /\ Cardinality(Open(c)') =
                 Cardinality(Open(c)) - (IF "mail" \in wrote[w] /\ Command(w) = c THEN 1 ELSE 0)
<1>1. \A v \in Workers \ {w} : Command(v)' = Command(v) /\ wrote'[v] = wrote[v]
  BY DEF Bystanders, Command
<1>2. Open(c)' = Open(c) \ {w}
  BY <1>1 DEF Open
<1>3. w \in Open(c) <=> "mail" \in wrote[w] /\ Command(w) = c
  BY DEF Open
<1>4. Cardinality(Open(c) \ {w}) =
          IF w \in Open(c) THEN Cardinality(Open(c)) - 1 ELSE Cardinality(Open(c))
  BY OpenFinite, FS_RemoveElement
<1>5. Cardinality(Open(c)) \in Nat
  BY OpenFinite
<1> QED
  BY <1>2, <1>3, <1>4, <1>5

Allowed(c) ==
    Cardinality(MailsOf(mails, c)) =<
        Cardinality(MailsOf(wasted, c)) + Cardinality(Open(c))
        + (IF Handled(processed, c.id) THEN 1 ELSE 0)

LEMMA OncePerCommitStep ==
    ASSUME MailInv, [Next]_vars, NEW c \in Commands, Allowed(c)
    PROVE  Allowed(c)'
<1> DEFINE sent == Cardinality(MailsOf(mails, c))
           lost == Cardinality(MailsOf(wasted, c))
           open == Cardinality(Open(c))
<1>0. /\ sent \in Nat /\ lost \in Nat /\ open \in Nat
      /\ sent =< lost + open + (IF Handled(processed, c.id) THEN 1 ELSE 0)
  BY MailsFinite, OpenFinite DEF MailInv, Typed, Allowed
<1>1. CASE UNCHANGED vars
  <2>1. UNCHANGED <<topic, at, wrote, mails, wasted, processed>>
    BY <1>1 DEF vars, handlingVars, deliveryVars
  <2>2. Open(c)' = Open(c)
    BY <2>1 DEF Open, Command
  <2> QED
    BY <2>1, <2>2 DEF Allowed
<1>2. ASSUME NEW w \in Workers, Moves(w)
      PROVE  Allowed(c)'
  <2>1. \A v \in Workers \ {w} : Command(v)' = Command(v) /\ wrote'[v] = wrote[v]
    BY <1>2 DEF Moves, Bystanders, Command
  <2>2. /\ "mail" \in wrote'[w] <=> "mail" \in wrote[w]
        /\ "mail" \in wrote[w] => Command(w)' = Command(w)
    BY <1>2 DEF Moves, Command
  <2>3. Open(c)' = Open(c)
    BY <2>1, <2>2 DEF Open
  <2> QED
    BY <1>2, <2>3 DEF Moves, Allowed
<1>3. ASSUME NEW w \in Workers, SendMail(w)
      PROVE  Allowed(c)'
  <2>1. /\ pc[w] = "mail" /\ UNCHANGED <<topic, at, processed, wasted>>
        /\ mails' = Append(mails, Command(w)) /\ wrote' = [wrote EXCEPT ![w] = @ \cup {"mail"}]
    BY <1>3 DEF SendMail, Execute, deliveryVars
  <2>2. wrote[w] = {} /\ Command(w) \in Commands
    BY <2>1, CommandKnown DEF MailInv, WorkerInv, WroteInOrder, Command, CommandAt
  <2>3. /\ \A v \in Workers : Command(v)' = Command(v)
        /\ \A v \in Workers \ {w} : wrote'[v] = wrote[v]
        /\ wrote'[w] = {"mail"}
    BY <2>1, <2>2 DEF MailInv, Typed, Command
  <2>4. Open(c)' = IF Command(w) = c THEN Open(c) \cup {w} ELSE Open(c)
    BY <2>2, <2>3 DEF Open
  <2>5. w \notin Open(c)
    BY <2>2 DEF Open
  <2>6. Cardinality(Open(c) \cup {w}) = open + 1
    BY <2>5, OpenFinite, FS_AddElement
  <2>7. Cardinality(Open(c)') = open + (IF Command(w) = c THEN 1 ELSE 0)
    BY <1>0, <2>4, <2>6
  <2>8. Cardinality(MailsOf(mails', c)) = sent + (IF c = Command(w) THEN 1 ELSE 0)
    BY <2>1, <2>2, AppendCounts DEF MailInv, Typed
  <2>9. MailsOf(mails, c)' = MailsOf(mails', c) /\ MailsOf(wasted, c)' = MailsOf(wasted, c)
    BY <2>1 DEF MailsOf
  <2> HIDE DEF sent, lost, open
  <2> QED
    BY <1>0, <2>1, <2>7, <2>8, <2>9 DEF Allowed, sent, lost, open
<1>4. ASSUME NEW w \in Workers, pc[w] # "idle", Ends(w)
      PROVE  Allowed(c)'
  <2>1. pc'[w] = "idle" /\ wrote'[w] = {} /\ Bystanders(w) /\ UNCHANGED <<topic, mails, processed>>
    BY <1>4 DEF Ends, EndAttempt, Goto, Bystanders, MailInv, Typed
  <2>2. "mail" \in wrote[w] => Command(w) \in Commands
    BY CommandKnown DEF MailInv, WorkerInv, WroteInOrder, Command, CommandAt
  <2>3. wasted' = IF "mail" \in wrote[w] THEN Append(wasted, Command(w)) ELSE wasted
    BY <1>4, <2>1 DEF Ends, NoteWaste
  <2>4. Cardinality(MailsOf(wasted', c)) =
            lost + (IF "mail" \in wrote[w] /\ Command(w) = c THEN 1 ELSE 0)
    BY <1>0, <2>2, <2>3, AppendCounts DEF MailInv, Typed
  <2>5. Cardinality(Open(c)') =
            open - (IF "mail" \in wrote[w] /\ Command(w) = c THEN 1 ELSE 0)
    BY <2>1, OpenWithout
  <2>6. MailsOf(wasted, c)' = MailsOf(wasted', c) /\ MailsOf(mails, c)' = MailsOf(mails, c)
    BY <2>1 DEF MailsOf
  <2> HIDE DEF sent, lost, open
  <2> QED
    BY <1>0, <2>1, <2>4, <2>5, <2>6 DEF Allowed, sent, lost, open
<1>5. ASSUME NEW w \in Workers, Commits(w)
      PROVE  Allowed(c)'
  <2>1. pc'[w] = "idle" /\ wrote'[w] = {} /\ Bystanders(w) /\ UNCHANGED <<topic, mails, wasted>>
    BY <1>5 DEF Commits, EndAttempt, Goto, Bystanders, MailInv, Typed
  <2>2. Cardinality(Open(c)') =
            open - (IF "mail" \in wrote[w] /\ Command(w) = c THEN 1 ELSE 0)
    BY <2>1, OpenWithout
  <2>3. Handled(processed, c.id) => Handled(processed', c.id)
    BY <1>5, CommittedMark DEF Commits, Handled
  <2>4. "mail" \in wrote[w] /\ Command(w) = c =>
            ~Handled(processed, c.id) /\ Handled(processed', c.id)
    BY <1>5, CommittedMark DEF Commits, MailInv, WorkerInv, WroteInOrder
  <2>5. UNCHANGED <<MailsOf(mails, c), MailsOf(wasted, c)>>
    BY <2>1 DEF MailsOf
  <2> HIDE DEF sent, lost, open
  <2> QED
    BY <1>0, <2>2, <2>3, <2>4, <2>5 DEF Allowed, sent, lost, open
<1> QED
  BY <1>1, <1>2, <1>3, <1>4, <1>5, MailStep

\* Of the mails of a command at most one is that of a successful attempt
\* (mail/alarm_raiser_adapter_out.go:58-60 inside postgres/transactions.go:12-35).
THEOREM OneMailPerCommit ==
    Spec => []MailedOncePerCommit
<1>1. Init => MailInv /\ MailedOncePerCommit
  <2> SUFFICES ASSUME Init, NEW c \in Commands
               PROVE  Allowed(c)
    BY InitMails DEF MailedOncePerCommit, Allowed, Open
  <2>1. MailsOf(mails, c) = {} /\ MailsOf(wasted, c) = {}
    BY DEF Init, MailsOf
  <2>2. Open(c) = {}
    BY DEF Init, HandlingInit, Open
  <2> QED
    BY <2>1, <2>2, FS_EmptySet DEF Allowed
<1>2. MailInv /\ MailedOncePerCommit /\ [Next]_vars => (MailInv /\ MailedOncePerCommit)'
  <2> SUFFICES ASSUME MailInv, MailedOncePerCommit, [Next]_vars
               PROVE  MailedOncePerCommit'
    BY MailStep
  <2>1. \A c \in Commands : Allowed(c)
    BY DEF MailedOncePerCommit, Allowed, Open
  <2>2. \A c \in Commands : Allowed(c)'
    BY <2>1, OncePerCommitStep
  <2> QED
    BY <2>2 DEF MailedOncePerCommit, Allowed, Open
<1> QED
  BY <1>1, <1>2, PTL DEF Spec

-----------------------------------------------------------------------------
(* One partition, one client.                                              *)

\* As long as nothing is delivered again, a partition has one client, which has the first
\* record that is not done in hand, and whose command nobody else handles.
InTurn(w) ==
    pc[w] # "idle" =>
        /\ at[w] \notin done /\ EarlierDone(at[w])
        /\ \A v \in Workers \ {w} : pc[v] # "idle" => at[v][1] # at[w][1]
        /\ pc[w] \in {"compensated", "mail", "mark"} => ~Handled(processed, Command(w).id)

\* The records that LastMailIsRight speaks of: the last of a player, unless it raises an
\* alarm again.
Decides(player, r) ==
    /\ r \in AlarmsOf(player)
    /\ ~ \E s \in AlarmsOf(player) : s[2] > r[2]
    /\ KindAt(r) = "raise" => ~ \E s \in AlarmsOf(player) : KindAt(s) = "clear"

Sent(player) == {n \in 1 .. Len(mails) : mails[n].of = player}

\* The last mail of the player is that of record r.
LastMailIs(player, r) == Sent(player) # {} /\ mails[Max(Sent(player))] = CommandAt(r)

\* A row of processed_transactions comes from a record, whose predecessors are done.
RowsOfRecords ==
    /\ \A row \in processed : \E r \in Records : ~IsPoison(CommandAt(r)) /\ row = RowOf(CommandAt(r))
    /\ \A r \in done \ dlq : ~IsPoison(CommandAt(r)) /\ Handled(processed, CommandAt(r).id)

HandledInTurn ==
    \A r \in Records :
        ~IsPoison(CommandAt(r)) /\ Handled(processed, CommandAt(r).id) => EarlierDone(r)

LastMailInv ==
    \A player \in Players : \A r \in AlarmsOf(player) :
        /\ Decides(player, r)
        /\ \/ Handled(processed, CommandAt(r).id)
           \/ \E w \in Workers : at[w] = r /\ "mail" \in wrote[w]
        => LastMailIs(player, r)

TurnInv ==
    /\ redeliveries \in Nat
    /\ RowsOfRecords
    /\ redeliveries = 0 => (\A w \in Workers : InTurn(w)) /\ HandledInTurn /\ LastMailInv

\* What a record is, and what tells two records apart.
LEMMA RecordsDiffer ==
    ASSUME Typed, NEW r \in Records, NEW s \in Records
    PROVE  /\ r = <<r[1], r[2]>> /\ r[2] \in Nat /\ r[2] >= 1
           /\ ~IsPoison(CommandAt(r)) /\ ~IsPoison(CommandAt(s)) =>
                 /\ CommandAt(r).id = CommandAt(s).id => r = s
                 /\ CommandAt(r).of = CommandAt(s).of => r[1] = s[1]
<1>1. PICK p \in Partitions : r \in {p} \X (1 .. Len(topic[p]))
  BY DEF Records
<1>2. PICK q \in Partitions : s \in {q} \X (1 .. Len(topic[q]))
  BY DEF Records
<1>3. /\ r = <<p, r[2]>> /\ r[1] = p /\ r[2] \in 1 .. Len(topic[p])
      /\ s = <<q, s[2]>> /\ s[1] = q /\ s[2] \in 1 .. Len(topic[q])
  BY <1>1, <1>2
<1>4. PublishedOnce(topic)
  BY MailSenderAssumption DEF Typed
<1>5. \/ IsPoison(topic[p][r[2]]) \/ IsPoison(topic[q][s[2]])
      \/ p = q /\ r[2] = s[2]
      \/ /\ topic[p][r[2]].id # topic[q][s[2]].id
         /\ p = q \/ topic[p][r[2]].of # topic[q][s[2]].of
  BY <1>3, <1>4 DEF PublishedOnce
<1> QED
  BY <1>3, <1>5 DEF CommandAt

\* Records and what is said of them only depend on the topic.
LEMMA SameTopic ==
    ASSUME UNCHANGED topic
    PROVE  /\ Records' = Records
           /\ \A r : /\ CommandAt(r)' = CommandAt(r) /\ KindAt(r)' = KindAt(r)
           /\ \A player : AlarmsOf(player)' = AlarmsOf(player)
           /\ \A player, r : Decides(player, r)' = Decides(player, r)
<1>1. Records' = Records /\ \A r : CommandAt(r)' = CommandAt(r) /\ KindAt(r)' = KindAt(r)
  BY DEF Records, CommandAt, KindAt
<1>2. \A player : AlarmsOf(player)' = AlarmsOf(player)
  BY <1>1 DEF AlarmsOf
<1> QED
  BY <1>1, <1>2 DEF Decides

\* An attempt ends; its record is done, dead-lettered, or begun again.
Leaves(w) ==
    /\ pc[w] # "idle" /\ EndAttempt(w)
    /\ UNCHANGED <<topic, redeliveries>>
    /\ \/ UNCHANGED <<done, dlq>> \/ DeadLetter(w)
       \/ Settle(w) /\ pc[w] = "commit" /\ ApplyMark(w)

\* A worker goes on with its record.
GoesOn(w) ==
    /\ pc[w] # "idle" /\ pc'[w] # "idle" /\ Bystanders(w)
    /\ UNCHANGED <<deliveryVars, at, processed>>
    /\ pc'[w] \in {"compensated", "mail", "mark"} =>
          ~Handled(processed, Command(w).id) \/ pc[w] \in {"compensated", "mail", "mark"}

LEMMA TurnStepShapes ==
    ASSUME MailInv, [Next]_vars
    PROVE  \/ UNCHANGED vars
           \/ \E w \in Workers :
                 \/ \E r \in Records : Begin(w, r)
                 \/ GoesOn(w) /\ (Moves(w) \/ SendMail(w))
                 \/ Leaves(w) /\ (Ends(w) \/ Commits(w))
<1>1. ASSUME NEW w \in Workers, RejectPoison(w) \/ Fail(w)
      PROVE  Leaves(w) /\ Ends(w)
  <2>1. CASE RejectPoison(w)
    <3>1. NoteWaste(w)
      BY <2>1 DEF RejectPoison, RejectRecord, NoteWaste, MailInv, WorkerInv, WroteInOrder
    <3> QED
      BY <2>1, <3>1 DEF RejectPoison, RejectRecord, Leaves, Ends
  <2>2. CASE Fail(w)
    BY <2>2 DEF Fail, RollBack, Leaves, Ends
  <2> QED
    BY <1>1, <2>1, <2>2
<1>2. ASSUME NEW w \in Workers, CheckHandled(w)
      PROVE  GoesOn(w) /\ Moves(w)
  BY <1>2 DEF CheckHandled, CheckHandledThen, deliveryVars, Goto, Moves, GoesOn, Bystanders,
              MailInv, Typed
<1>3. ASSUME NEW w \in Workers, CheckCompensated(w)
      PROVE  GoesOn(w) /\ Moves(w)
  BY <1>3 DEF CheckCompensated, CheckCompensatedThen, deliveryVars, Goto, Moves, GoesOn,
              Bystanders, MailInv, Typed
<1>4. ASSUME NEW w \in Workers, SendMail(w)
      PROVE  GoesOn(w)
  BY <1>4 DEF SendMail, Execute, deliveryVars, Goto, GoesOn, Bystanders, MailInv, Typed
<1>5. ASSUME NEW w \in Workers, Mark(w)
      PROVE  (GoesOn(w) /\ Moves(w)) \/ (Leaves(w) /\ Ends(w))
  <2>1. /\ pc[w] = "mark" /\ UNCHANGED mails /\ NoteWaste(w)
        /\ \/ DeadLetter(w) /\ EndAttempt(w) /\ UNCHANGED <<topic, redeliveries, processed>>
           \/ Execute(w, "mark", "commit")
    BY <1>5 DEF Mark, MarkHandled, Insert
  <2>2. CASE DeadLetter(w) /\ EndAttempt(w) /\ UNCHANGED <<topic, redeliveries, processed>>
    BY <2>1, <2>2 DEF Leaves, Ends
  <2>3. CASE Execute(w, "mark", "commit")
    <3>1. pc'[w] = "commit" /\ wrote'[w] = wrote[w] \cup {"mark"} /\ Bystanders(w)
      BY <2>3 DEF Execute, Goto, Bystanders, MailInv, Typed
    <3>2. UNCHANGED <<topic, done, dlq, redeliveries, processed, at, wasted>>
      BY <2>1, <2>3, <3>1 DEF Execute, NoteWaste, deliveryVars
    <3> QED
      BY <2>1, <3>1, <3>2 DEF Moves, GoesOn, deliveryVars
  <2> QED
    BY <2>1, <2>2, <2>3
<1>6. ASSUME NEW w \in Workers, Commit(w) \/ CommitUnanswered(w)
      PROVE  Leaves(w) /\ Commits(w)
  BY <1>6 DEF Commit, CommitUnanswered, CommitTx, CommitTxUnanswered, Commits, Leaves
<1>7. Idle => UNCHANGED vars
  BY DEF Idle
<1> QED
  BY <1>1, <1>2, <1>3, <1>4, <1>5, <1>6, <1>7 DEF Next

\* What is done stays done.
LEMMA EarlierStays ==
    ASSUME done \subseteq done', NEW r, EarlierDone(r)
    PROVE  EarlierDone(r)'
BY DEF EarlierDone

LEMMA BeginTurn ==
    ASSUME MailInv, TurnInv, NEW w \in Workers, NEW r \in Records, Begin(w, r)
    PROVE  TurnInv'
<1>1. /\ pc[w] = "idle" /\ pc' = [pc EXCEPT ![w] = "begun"] /\ at' = [at EXCEPT ![w] = r]
      /\ UNCHANGED <<topic, done, dlq, processed, wrote, mails>> /\ EarlierDone(r)
      /\ IF r \notin done /\ NoClientOf(r[1]) THEN UNCHANGED redeliveries
         ELSE redeliveries' = redeliveries + 1
  BY DEF Begin, BeginRecord, Goto
<1>2. pc'[w] = "begun" /\ at'[w] = r /\ wrote[w] = {} /\ Bystanders(w)
  BY <1>1 DEF MailInv, Typed, WorkerInv, WroteInOrder, Bystanders
<1>3. redeliveries' \in Nat /\ (redeliveries' = 0 => redeliveries = 0 /\ r \notin done /\ NoClientOf(r[1]))
  BY <1>1 DEF TurnInv
<1>4. RowsOfRecords'
  BY <1>1, SameTopic DEF TurnInv, RowsOfRecords
<1>5. ASSUME redeliveries' = 0
      PROVE  (\A v \in Workers : InTurn(v))' /\ HandledInTurn' /\ LastMailInv'
  <2>1. redeliveries = 0 /\ r \notin done
        /\ \A v \in Workers : pc[v] # "idle" => at[v][1] # r[1]
    BY <1>3, <1>5 DEF NoClientOf
  <2>2. ASSUME NEW v \in Workers PROVE InTurn(v)'
    <3>1. CASE v = w
      <4>1. EarlierDone(at[v])'
        BY <1>1, <1>2, <3>1 DEF EarlierDone
      <4>2. \A u \in Workers \ {v} : pc'[u] # "idle" => at'[u][1] # at'[v][1]
        BY <1>2, <2>1, <3>1 DEF Bystanders
      <4> QED
        BY <1>1, <1>2, <2>1, <3>1, <4>1, <4>2 DEF InTurn
    <3>2. CASE v # w
      <4>1. InTurn(v) /\ pc'[v] = pc[v] /\ at'[v] = at[v] /\ Command(v)' = Command(v)
        BY <1>1, <1>2, <2>1, <3>2 DEF TurnInv, Bystanders, Command
      <4>2. pc[v] # "idle" => \A u \in Workers \ {v} : pc'[u] # "idle" => at'[u][1] # at'[v][1]
        <5>1. SUFFICES ASSUME pc[v] # "idle", NEW u \in Workers \ {v}, pc'[u] # "idle"
                       PROVE  at'[u][1] # at'[v][1]
          OBVIOUS
        <5>2. CASE u = w
          BY <1>2, <2>1, <4>1, <5>1, <5>2
        <5>3. CASE u # w
          BY <1>2, <4>1, <5>1, <5>3 DEF InTurn, Bystanders
        <5> QED
          BY <5>2, <5>3
      <4>3. EarlierDone(at[v]) => EarlierDone(at[v])'
        BY <1>1, <4>1 DEF EarlierDone
      <4> QED
        BY <1>1, <4>1, <4>2, <4>3 DEF InTurn
    <3> QED
      BY <3>1, <3>2
  <2>3. HandledInTurn'
    BY <1>1, <2>1, SameTopic, EarlierStays DEF TurnInv, HandledInTurn
  <2>4. LastMailInv'
    <3>1. SUFFICES ASSUME NEW player \in Players, NEW s \in AlarmsOf(player), Decides(player, s),
                          \/ Handled(processed, CommandAt(s).id)
                          \/ \E v \in Workers : at'[v] = s /\ "mail" \in wrote'[v]
                   PROVE  LastMailIs(player, s)'
      BY <1>1, SameTopic DEF LastMailInv
    <3>2. ASSUME NEW v \in Workers, at'[v] = s, "mail" \in wrote'[v]
          PROVE  at[v] = s /\ "mail" \in wrote[v]
      BY <1>1, <1>2, <3>2 DEF Bystanders
    <3>3. LastMailIs(player, s)
      BY <2>1, <3>1, <3>2 DEF TurnInv, LastMailInv
    <3> QED
      BY <1>1, <3>3 DEF LastMailIs, Sent, CommandAt
  <2> QED
    BY <2>2, <2>3, <2>4
<1> QED
  BY <1>3, <1>4, <1>5 DEF TurnInv

\* The last mail of a player, when another is sent.
LEMMA SendMailTurn ==
    ASSUME MailInv, TurnInv, redeliveries = 0, NEW w \in Workers, SendMail(w)
    PROVE  LastMailInv'
<1>1. /\ pc[w] = "mail" /\ UNCHANGED <<topic, at, done, processed>>
      /\ mails' = Append(mails, Command(w)) /\ wrote' = [wrote EXCEPT ![w] = @ \cup {"mail"}]
  BY DEF SendMail, Execute, deliveryVars
<1>2. /\ at[w] \in Records /\ ~IsPoison(CommandAt(at[w])) /\ Command(w) = CommandAt(at[w])
      /\ Command(w) \in Commands /\ InTurn(w)
  BY <1>1, CommandKnown DEF MailInv, TurnInv, WorkerInv, Command, CommandAt
<1>3. /\ Len(mails') = Len(mails) + 1 /\ Len(mails) \in Nat
      /\ mails'[Len(mails) + 1] = Command(w)
      /\ \A n \in 1 .. Len(mails) : mails'[n] = mails[n]
  BY <1>1, <1>2 DEF MailInv, Typed
<1>4. SUFFICES ASSUME NEW player \in Players, NEW r \in AlarmsOf(player), Decides(player, r),
                      \/ Handled(processed, CommandAt(r).id)
                      \/ \E v \in Workers : at[v] = r /\ "mail" \in wrote'[v]
               PROVE  LastMailIs(player, r)'
  BY <1>1, SameTopic DEF LastMailInv
<1>5. r \in Records /\ ~IsPoison(CommandAt(r)) /\ CommandAt(r).of = player
  BY DEF AlarmsOf, CommandAt
<1>6. CASE Command(w).of # player
  <2>1. Sent(player)' = Sent(player)
    BY <1>3, <1>6 DEF Sent
  <2>2. \A v \in Workers : at[v] = r /\ "mail" \in wrote'[v] => "mail" \in wrote[v]
    BY <1>1, <1>2, <1>5, <1>6 DEF MailInv, Typed
  <2>3. LastMailIs(player, r)
    BY <1>4, <2>2 DEF TurnInv, LastMailInv
  <2>4. Sent(player) \subseteq 1 .. Len(mails)
    BY DEF Sent
  <2>5. mails[Max(Sent(player))] = mails'[Max(Sent(player))]
    <3>1. Sent(player) # {} /\ Sent(player) \in SUBSET (0 .. Len(mails))
      BY <1>3, <2>3, <2>4 DEF LastMailIs
    <3>2. Max(Sent(player)) \in 1 .. Len(mails)
      BY <1>3, <2>4, <3>1, GreatestElement
    <3> QED
      BY <1>3, <3>2
  <2> QED
    BY <1>1, <2>1, <2>3, <2>5 DEF LastMailIs, CommandAt
<1>7. CASE Command(w).of = player
  <2>1. at[w] \in AlarmsOf(player) /\ at[w][1] = r[1]
    BY <1>2, <1>5, <1>7, RecordsDiffer DEF AlarmsOf, CommandAt, MailInv
  <2>2. at[w] = r
    <3>1. SUFFICES ASSUME at[w] # r
                   PROVE  FALSE
      OBVIOUS
    <3>2. at[w] = <<r[1], at[w][2]>> /\ r = <<r[1], r[2]>> /\ at[w][2] \in Nat /\ r[2] \in Nat
          /\ at[w][2] >= 1
      BY <1>2, <1>5, <2>1, RecordsDiffer DEF MailInv
    <3>3. at[w][2] \in 1 .. r[2] - 1
      BY <1>4, <2>1, <3>1, <3>2 DEF Decides
    <3>4. at[w] \notin done
      BY <1>1, <1>2 DEF InTurn
    <3>5. ~EarlierDone(r)
      BY <3>2, <3>3, <3>4 DEF EarlierDone
    <3>6. ~Handled(processed, CommandAt(r).id)
      BY <1>5, <3>5 DEF TurnInv, HandledInTurn
    <3>7. PICK v \in Workers : at[v] = r /\ "mail" \in wrote'[v]
      BY <1>4, <3>6
    <3>8. v # w /\ pc[v] # "idle"
      BY <1>1, <3>1, <3>7 DEF MailInv, Typed, WorkerInv, WroteInOrder
    <3> QED
      BY <1>1, <1>2, <2>1, <3>7, <3>8 DEF InTurn
  <2>3. Len(mails) + 1 \in Sent(player)' /\ \A n \in Sent(player)' : n \in Nat /\ n =< Len(mails) + 1
    BY <1>3, <1>7 DEF Sent
  <2>4. Max(Sent(player)') = Len(mails) + 1
    <3>1. \A m \in Sent(player)' : (\A n \in Sent(player)' : m >= n) => m = Len(mails) + 1
      BY <1>3, <2>3
    <3> QED
      BY <1>3, <2>3, <3>1 DEF Max
  <2>5. LastMailIs(player, r)' = (Sent(player)' # {} /\ mails'[Max(Sent(player)')] = CommandAt(r)')
    BY DEF LastMailIs
  <2> QED
    BY <1>1, <1>2, <1>3, <2>2, <2>3, <2>4, <2>5 DEF CommandAt
<1> QED
  BY <1>6, <1>7

LEMMA GoesOnTurn ==
    ASSUME MailInv, TurnInv, NEW w \in Workers, GoesOn(w), Moves(w) \/ SendMail(w)
    PROVE  TurnInv'
<1>1. /\ UNCHANGED <<topic, done, dlq, redeliveries, at, processed>> /\ Bystanders(w)
      /\ pc[w] # "idle" /\ pc'[w] # "idle"
  BY DEF GoesOn, deliveryVars
<1>2. redeliveries' \in Nat /\ RowsOfRecords'
  BY <1>1, SameTopic DEF TurnInv, RowsOfRecords
<1>3. ASSUME redeliveries' = 0
      PROVE  (\A v \in Workers : InTurn(v))' /\ HandledInTurn' /\ LastMailInv'
  <2>1. redeliveries = 0 /\ \A v \in Workers : Command(v)' = Command(v)
    BY <1>1, <1>3 DEF Command
  <2>2. ASSUME NEW v \in Workers PROVE InTurn(v)'
    <3>1. InTurn(v) /\ (pc'[v] = "idle" <=> pc[v] = "idle")
      BY <1>1, <2>1 DEF TurnInv, Bystanders
    <3>2. \A u \in Workers : pc'[u] = "idle" <=> pc[u] = "idle"
      BY <1>1 DEF Bystanders
    <3>3. EarlierDone(at[v]) => EarlierDone(at[v])'
      BY <1>1 DEF EarlierDone
    <3>4. pc'[v] \in {"compensated", "mail", "mark"} => ~Handled(processed, Command(v).id)
      <4>1. CASE v = w
        BY <1>1, <3>1, <4>1 DEF GoesOn, InTurn
      <4>2. CASE v # w
        BY <1>1, <3>1, <4>2 DEF Bystanders, InTurn
      <4> QED
        BY <4>1, <4>2
    <3> QED
      BY <1>1, <2>1, <3>1, <3>2, <3>3, <3>4 DEF InTurn
  <2>3. HandledInTurn'
    BY <1>1, <2>1, SameTopic, EarlierStays DEF TurnInv, HandledInTurn
  <2>4. LastMailInv'
    <3>1. CASE Moves(w)
      <4>1. SUFFICES ASSUME NEW player \in Players, NEW s \in AlarmsOf(player), Decides(player, s),
                            \/ Handled(processed, CommandAt(s).id)
                            \/ \E v \in Workers : at[v] = s /\ "mail" \in wrote'[v]
                     PROVE  LastMailIs(player, s)'
        BY <1>1, SameTopic DEF LastMailInv
      <4>2. \A v \in Workers : "mail" \in wrote'[v] => "mail" \in wrote[v]
        BY <1>1, <3>1 DEF Moves, Bystanders
      <4>3. LastMailIs(player, s)
        BY <2>1, <4>1, <4>2 DEF TurnInv, LastMailInv
      <4> QED
        BY <1>1, <3>1, <4>3 DEF Moves, LastMailIs, Sent, CommandAt
    <3>2. CASE SendMail(w)
      BY <2>1, <3>2, SendMailTurn
    <3> QED
      BY <3>1, <3>2
  <2> QED
    BY <2>2, <2>3, <2>4
<1> QED
  BY <1>2, <1>3 DEF TurnInv

\* What a step that ends an attempt does to the rows of processed_transactions: none is
\* removed, and one that is added is that of the record in hand.
LEMMA LeavingRows ==
    ASSUME MailInv, NEW w \in Workers, Leaves(w), Ends(w) \/ Commits(w)
    PROVE  /\ processed \subseteq processed'
           /\ \/ processed' = processed
              \/ /\ "mark" \in wrote[w] /\ Commits(w)
                 /\ at[w] \in Records /\ ~IsPoison(CommandAt(at[w]))
                 /\ processed' = processed \cup {RowOf(CommandAt(at[w]))}
<1>1. CASE Ends(w)
  BY <1>1 DEF Ends
<1>2. CASE Commits(w)
  <2>1. processed' = IF "mark" \in wrote[w] THEN processed \cup {RowOf(Command(w))} ELSE processed
    BY <1>2 DEF Commits, ApplyMark
  <2>2. at[w] \in Records /\ ~IsPoison(Command(w)) /\ Command(w) = CommandAt(at[w])
    BY <1>2 DEF Commits, MailInv, WorkerInv, Command, CommandAt
  <2> QED
    BY <1>2, <2>1, <2>2
<1> QED
  BY <1>1, <1>2

LEMMA LeavingRecords ==
    ASSUME MailInv, TurnInv, NEW w \in Workers, Leaves(w), Ends(w) \/ Commits(w)
    PROVE  RowsOfRecords'
<1>1. UNCHANGED topic
  BY DEF Leaves
<1>2. ASSUME NEW row \in processed'
      PROVE  \E r \in Records : ~IsPoison(CommandAt(r)) /\ row = RowOf(CommandAt(r))
  BY <1>2, LeavingRows DEF TurnInv, RowsOfRecords
<1>3. ASSUME NEW r \in done' \ dlq'
      PROVE  ~IsPoison(CommandAt(r)) /\ Handled(processed', CommandAt(r).id)
  <2>1. CASE r \in done \ dlq
    <3>1. ~IsPoison(CommandAt(r)) /\ Handled(processed, CommandAt(r).id)
      BY <2>1 DEF TurnInv, RowsOfRecords
    <3> QED
      BY <3>1, LeavingRows DEF Handled
  <2>2. CASE r \notin done \ dlq
    <3>1. r = at[w] /\ pc[w] = "commit" /\ ApplyMark(w)
      BY <1>3, <2>2 DEF Leaves, DeadLetter, Settle
    <3>2. ~IsPoison(Command(w)) /\ Command(w) = CommandAt(r)
      BY <3>1 DEF MailInv, WorkerInv, Command, CommandAt
    <3>3. "mark" \in wrote[w] \/ Handled(processed, Command(w).id)
      BY <3>1 DEF MailInv, WorkerInv, WroteInOrder
    <3>4. Handled(processed', Command(w).id)
      BY <3>1, <3>3, CommittedMark DEF Handled
    <3> QED
      BY <3>2, <3>4
  <2> QED
    BY <2>1, <2>2
<1> QED
  BY <1>1, <1>2, <1>3, SameTopic DEF RowsOfRecords

LEMMA LeavesTurn ==
    ASSUME MailInv, TurnInv, NEW w \in Workers, Leaves(w), Ends(w) \/ Commits(w)
    PROVE  TurnInv'
<1>1. /\ pc[w] # "idle" /\ UNCHANGED <<topic, redeliveries, mails>>
      /\ done \subseteq done' /\ done' \subseteq done \cup {at[w]}
  BY DEF Leaves, DeadLetter, Settle, Ends, Commits
<1>2. pc'[w] = "idle" /\ wrote'[w] = {} /\ Bystanders(w)
  BY DEF Leaves, EndAttempt, Goto, Bystanders, MailInv, Typed
<1>3. ASSUME redeliveries' = 0
      PROVE  (\A v \in Workers : InTurn(v))' /\ HandledInTurn' /\ LastMailInv'
  <2>1. redeliveries = 0 /\ InTurn(w) /\ at[w] \in Records
    BY <1>1, <1>3 DEF TurnInv, MailInv, WorkerInv
  <2>2. ASSUME NEW r \in Records, ~IsPoison(CommandAt(r)), Handled(processed', CommandAt(r).id)
        PROVE  \/ Handled(processed, CommandAt(r).id)
               \/ r = at[w] /\ Commits(w) /\ "mark" \in wrote[w]
    <3>1. CASE processed' = processed
      BY <2>2, <3>1
    <3>2. CASE /\ "mark" \in wrote[w] /\ Commits(w)
               /\ at[w] \in Records /\ ~IsPoison(CommandAt(at[w]))
               /\ processed' = processed \cup {RowOf(CommandAt(at[w]))}
      <4>1. Handled(processed, CommandAt(r).id) \/ CommandAt(r).id = CommandAt(at[w]).id
        BY <2>2, <3>2 DEF Handled, RowOf
      <4> QED
        BY <2>2, <3>2, <4>1, RecordsDiffer DEF MailInv
    <3> QED
      BY <3>1, <3>2, LeavingRows
  <2>3. ASSUME NEW v \in Workers PROVE InTurn(v)'
    <3>1. CASE v = w
      BY <1>2, <3>1 DEF InTurn
    <3>2. CASE v # w /\ pc[v] # "idle"
      <4>1. InTurn(v) /\ pc'[v] = pc[v] /\ at'[v] = at[v] /\ Command(v)' = Command(v)
        BY <1>1, <1>2, <2>1, <3>2 DEF TurnInv, Bystanders, Command
      <4>2. at[v][1] # at[w][1]
        BY <1>1, <3>2, <4>1 DEF InTurn
      <4>3. at'[v] \notin done' /\ EarlierDone(at[v])'
        BY <1>1, <3>2, <4>1, <4>2, EarlierStays DEF InTurn
      <4>4. \A u \in Workers \ {v} : pc'[u] # "idle" => at'[u][1] # at'[v][1]
        BY <1>2, <3>2, <4>1 DEF InTurn, Bystanders
      <4>5. ASSUME pc[v] \in {"compensated", "mail", "mark"}
            PROVE  ~Handled(processed', Command(v).id)
        <5>1. at[v] \in Records /\ ~IsPoison(CommandAt(at[v])) /\ Command(v) = CommandAt(at[v])
          BY <4>5 DEF MailInv, WorkerInv, Command, CommandAt
        <5> QED
          BY <2>2, <3>2, <4>1, <4>2, <4>5, <5>1 DEF InTurn
      <4> QED
        BY <4>1, <4>3, <4>4, <4>5 DEF InTurn
    <3>3. CASE v # w /\ pc[v] = "idle"
      BY <1>2, <3>3 DEF Bystanders, InTurn
    <3> QED
      BY <3>1, <3>2, <3>3
  <2>4. HandledInTurn'
    <3>1. SUFFICES ASSUME NEW r \in Records, ~IsPoison(CommandAt(r)),
                          Handled(processed', CommandAt(r).id)
                   PROVE  EarlierDone(r)'
      BY <1>1, SameTopic DEF HandledInTurn
    <3>2. EarlierDone(r)
      BY <1>1, <2>1, <2>2, <3>1 DEF TurnInv, HandledInTurn, InTurn
    <3> QED
      BY <1>1, <3>2, EarlierStays
  <2>5. LastMailInv'
    <3>1. SUFFICES ASSUME NEW player \in Players, NEW s \in AlarmsOf(player), Decides(player, s),
                          \/ Handled(processed', CommandAt(s).id)
                          \/ \E v \in Workers : at'[v] = s /\ "mail" \in wrote'[v]
                   PROVE  LastMailIs(player, s)'
      BY <1>1, SameTopic DEF LastMailInv
    <3>2. s \in Records /\ ~IsPoison(CommandAt(s)) /\ CommandAt(s).of = player
      BY DEF AlarmsOf, CommandAt
    <3>3. ASSUME NEW v \in Workers, at'[v] = s, "mail" \in wrote'[v]
          PROVE  at[v] = s /\ "mail" \in wrote[v]
      BY <1>2, <3>3 DEF Bystanders
    <3>4. ASSUME s = at[w], Commits(w), "mark" \in wrote[w]
          PROVE  "mail" \in wrote[w]
      <4>1. SUFFICES ASSUME Ignorable(w)
                     PROVE  FALSE
        BY <3>4 DEF Commits, MailInv, WorkerInv, WroteInOrder
      <4>2. Command(w) = CommandAt(s) /\ CommandAt(s).kind \in {"raise", "clear"}
        BY <3>2, <3>4, CommandKnown DEF MailInv, Command, CommandAt
      <4>3. KindAt(s) = "raise" /\ Compensated(processed, player)
        BY <3>2, <4>1, <4>2 DEF Ignorable, Compensating, KindAt, CommandAt
      <4>4. PICK row \in processed : player \in row.compensates
        BY <4>3 DEF Compensated
      <4>5. PICK r \in Records : ~IsPoison(CommandAt(r)) /\ row = RowOf(CommandAt(r))
        BY DEF TurnInv, RowsOfRecords
      <4>6. Compensating(CommandAt(r)) /\ CommandAt(r).of = player
        BY <4>4, <4>5 DEF RowOf
      <4>7. r \in AlarmsOf(player) /\ KindAt(r) = "clear"
        BY <4>5, <4>6, CommandKnown DEF MailInv, AlarmsOf, KindAt, CommandAt, Compensating
      <4> QED
        BY <3>1, <4>3, <4>7 DEF Decides
    <3>5. LastMailIs(player, s)
      BY <2>1, <2>2, <3>1, <3>2, <3>3, <3>4 DEF TurnInv, LastMailInv
    <3> QED
      BY <1>1, <3>5 DEF LastMailIs, Sent, CommandAt
  <2> QED
    BY <2>3, <2>4, <2>5
<1> QED
  BY <1>1, <1>3, LeavingRecords DEF TurnInv

LEMMA TurnStep ==
    ASSUME MailInv, TurnInv, [Next]_vars
    PROVE  TurnInv'
<1>1. CASE UNCHANGED vars
  <2>1. UNCHANGED <<topic, done, dlq, redeliveries, pc, at, wrote, processed, mails>>
    BY <1>1 DEF vars, handlingVars, deliveryVars
  <2>2. RowsOfRecords' /\ HandledInTurn' = HandledInTurn /\ redeliveries' \in Nat
    BY <2>1, SameTopic DEF TurnInv, RowsOfRecords, HandledInTurn, EarlierDone
  <2>3. \A w \in Workers : InTurn(w) => InTurn(w)'
    BY <2>1 DEF InTurn, EarlierDone, Command
  <2>4. LastMailInv => LastMailInv'
    BY <2>1, SameTopic DEF LastMailInv, LastMailIs, Sent, CommandAt
  <2> QED
    BY <2>1, <2>2, <2>3, <2>4 DEF TurnInv
<1> QED
  BY <1>1, TurnStepShapes, BeginTurn, GoesOnTurn, LeavesTurn

LEMMA InitTurn ==
    Init => TurnInv
<1> SUFFICES ASSUME Init
             PROVE  TurnInv
  OBVIOUS
<1>1. /\ redeliveries = 0 /\ processed = {} /\ done = {}
      /\ \A w \in Workers : pc[w] = "idle" /\ wrote[w] = {}
  BY DEF Init, HandlingInit
<1>2. \A id : ~Handled(processed, id)
  BY <1>1 DEF Handled
<1> QED
  BY <1>1, <1>2 DEF TurnInv, RowsOfRecords, InTurn, HandledInTurn, LastMailInv

\* When nothing was delivered again, the last mail of a player says what the last command
\* of the player says.
LEMMA LastMailFollows ==
    MailInv /\ TurnInv => LastMailIsRight
<1> SUFFICES ASSUME MailInv, TurnInv, AllConsumed, dlq = {}, redeliveries = 0,
                    NEW player \in Players, NEW last \in AlarmsOf(player),
                    ~ \E r \in AlarmsOf(player) : r[2] > last[2],
                    ~(KindAt(last) = "raise" /\ \E r \in AlarmsOf(player) : KindAt(r) = "clear")
             PROVE  Sent(player) # {} /\ mails[Max(Sent(player))] = CommandAt(last)
  BY DEF LastMailIsRight, Sent, CommandAt
<1>1. Decides(player, last)
  BY DEF Decides
<1>2. last \in done \ dlq
  BY DEF AllConsumed, AlarmsOf
<1>3. Handled(processed, CommandAt(last).id)
  BY <1>2 DEF TurnInv, RowsOfRecords
<1>4. LastMailIs(player, last)
  BY <1>1, <1>3 DEF TurnInv, LastMailInv
<1> QED
  BY <1>4 DEF LastMailIs

\* What the mails say in the end: unless a record was dead-lettered or delivered again
\* later, or an alarm raised again after it was cleared, the last mail of a player is that
\* of the last command in the topic, whatever failed and was retried.
THEOREM LastMailTells ==
    Spec => []LastMailIsRight
<1>1. MailInv /\ TurnInv /\ [Next]_vars => (MailInv /\ TurnInv)'
  BY MailStep, TurnStep
<1>2. Spec => [](MailInv /\ TurnInv)
  BY <1>1, InitMails, InitTurn, PTL DEF Spec
<1> QED
  BY <1>2, LastMailFollows, PTL

=============================================================================
