------------------------------ MODULE MailSender ------------------------------
(***************************************************************************)
(* mail-sender: the saga consumer executes a raise command, and compensates*)
(* with a clear command, by sending a mail, which no rollback takes back.  *)
(* A clear command is marked as compensating its player, whom the check of *)
(* later raise commands asks for (postgres/alarm_consumer_adapter_out.go). *)
(***************************************************************************)
EXTENDS TransactionalConsumer

CONSTANT Players

Raise(id, player) == [kind |-> "raise", id |-> id, of |-> player]

Clear(id, player) == [kind |-> "clear", id |-> id, of |-> player]

\* A command is published once, under a new UUID, to the partition of its player.
PublishedOnce(content) ==
    \A p, q \in Partitions : \A m \in 1 .. Len(content[p]), n \in 1 .. Len(content[q]) :
        \/ IsPoison(content[p][m]) \/ IsPoison(content[q][n])
        \/ p = q /\ m = n
        \/ /\ content[p][m].id # content[q][n].id
           /\ p = q \/ content[p][m].of # content[q][n].of

ASSUME MailSenderAssumption ==
    /\ \A c \in Commands : c.kind \in {"raise", "clear"} /\ c.of \in Players
    /\ \A c, d \in Commands : c.id = d.id => c = d
    /\ \A content \in Topics : PublishedOnce(content)

VARIABLES
    mails,      \* the mails the server accepted: the commands they are sent for
    wasted      \* history: those of mails whose attempt failed, as often as it did

vars == <<handlingVars, mails, wasted>>

MailsOf(sequence, c) == {n \in 1 .. Len(sequence) : sequence[n] = c}

Init == HandlingInit /\ mails = <<>> /\ wasted = <<>>

\* A mail of an attempt that ends without a commit is wasted.
NoteWaste(w) ==
    wasted' = IF "mail" \in wrote[w] /\ pc'[w] = "idle" THEN Append(wasted, Command(w))
              ELSE wasted

Begin(w, r) == BeginRecord(w, r) /\ UNCHANGED <<mails, wasted>>

RejectPoison(w) == RejectRecord(w) /\ UNCHANGED <<mails, wasted>>

\* Slip: also a clear command is taken for compensated when its player was.
CheckHandledAlike(w) ==
    CheckHandledThen(w, "compensated") /\ UNCHANGED <<mails, wasted>>

CheckHandled(w) ==
    /\ CheckHandledThen(w, IF Compensating(Command(w)) THEN "mail" ELSE "compensated")
    /\ UNCHANGED <<mails, wasted>>

CheckCompensated(w) == CheckCompensatedThen(w, "mail") /\ UNCHANGED <<mails, wasted>>

\* Slip: the error of the server is not returned.
SendMailUnchecked(w) ==
    /\ pc[w] = "mail"
    /\ mails' = Append(mails, Command(w)) \/ UNCHANGED mails
    /\ Execute(w, "mail", "mark")
    /\ UNCHANGED wasted

\* The server accepts the mail; if the client is told an error all the same, this step is
\* followed by a rollback.
SendMail(w) ==
    /\ pc[w] = "mail"
    /\ mails' = Append(mails, Command(w))
    /\ Execute(w, "mail", "mark")
    /\ UNCHANGED wasted

Mark(w) == MarkHandled(w) /\ NoteWaste(w) /\ UNCHANGED mails

Commit(w) == CommitTx(w) /\ UNCHANGED <<mails, wasted>>

CommitUnanswered(w) == CommitTxUnanswered(w) /\ UNCHANGED <<mails, wasted>>

Fail(w) == RollBack(w) /\ NoteWaste(w) /\ UNCHANGED mails

Idle == AllConsumed /\ UNCHANGED vars

Next ==
    \/ \E w \in Workers :
          \/ RejectPoison(w) \/ CheckHandled(w) \/ CheckCompensated(w) \/ SendMail(w)
          \/ Mark(w) \/ Commit(w) \/ CommitUnanswered(w) \/ Fail(w)
    \/ \E w \in Workers, r \in Records : Begin(w, r)
    \/ Idle

Spec == Init /\ [][Next]_vars

-----------------------------------------------------------------------------
\* A command marked as handled has been mailed, unless it is a raise command of a player
\* whose alarm was cleared before: neither a retry nor a commit that counts although it
\* was not answered loses a mail (saga/consumer.go:37-68).
NoAlarmSwallowed ==
    \A c \in Commands :
        Handled(processed, c.id) =>
            MailsOf(mails, c) # {} \/ (c.kind = "raise" /\ Compensated(processed, c.of))

\* Of the mails of a command at most one is that of a successful attempt: every other one
\* belongs to an attempt that failed after it, or is still open.  Retries after an
\* unanswered commit, and deliveries to two clients, do not send a mail and keep it
\* (mail/alarm_raiser_adapter_out.go:58-60 inside postgres/transactions.go:12-35).
MailedOncePerCommit ==
    \A c \in Commands :
        Cardinality(MailsOf(mails, c)) =<
            Cardinality(MailsOf(wasted, c))
            + Cardinality({w \in Workers : "mail" \in wrote[w] /\ Command(w) = c})
            + (IF Handled(processed, c.id) THEN 1 ELSE 0)

AlarmsOf(player) ==
    {r \in Records : LET c == topic[r[1]][r[2]] IN ~IsPoison(c) /\ c.of = player}

KindAt(r) == topic[r[1]][r[2]].kind

\* What the mails say in the end: the last mail of a player is that of the last command in
\* the topic, whatever failed and was retried, unless a record was dead-lettered or
\* delivered again later, or the player's alarm was raised again after it was cleared.
LastMailIsRight ==
    AllConsumed /\ dlq = {} /\ redeliveries = 0 =>
        \A player \in Players : \A last \in AlarmsOf(player) :
            \/ \E r \in AlarmsOf(player) : r[2] > last[2]
            \/ KindAt(last) = "raise" /\ \E r \in AlarmsOf(player) : KindAt(r) = "clear"
            \/ LET sent == {n \in 1 .. Len(mails) : mails[n].of = player}
               IN  sent # {} /\ mails[Max(sent)] = topic[last[1]][last[2]]

\* README.md:84-85: "If some transaction caused the aggregated value limit to be exceeded,
\* an e-mail describing the limit exceeding will be sent": every raise command that was
\* consumed without failure has a mail.
EveryRaiseIsMailed ==
    AllConsumed /\ dlq = {} =>
        \A r \in Records : KindAt(r) = "raise" => MailsOf(mails, topic[r[1]][r[2]]) # {}

=============================================================================
