----------------------------- MODULE KgoConsumer -----------------------------
(***************************************************************************)
(* The consumer of package kgoconsumer: a group of clients that poll       *)
(* batches, run the record consumer on every record with retries, publish  *)
(* failed records to a dead-letter topic, and commit.  A client's polling  *)
(* loop (consumer.go, dlq.go) runs against its own rebalance callback      *)
(* (rebalance.go), deadlines and shutdown, and against the group           *)
(* coordinator, the broker and the franz-go client, which are external.    *)
(*                                                                         *)
(* A record is a pair <<p, o>>; a partition holds offsets 0 .. LogEnd - 1, *)
(* but for the gaps that compaction left.                                  *)
(***************************************************************************)
EXTENDS Integers, CommitRun

CONSTANTS
    Consumers,
    Partitions,
    NoOne,          \* owner of a partition assigned to no member
    NoPartition,    \* value of cur when no partition is being iterated
    LogEnd,
    Gaps,           \* <<p, o>> without a record any more: the topic is compacted
    FaultKinds,     \* which of the faults below may happen
    DlqOutcomes,    \* how publications to the dead-letter topic may end
    MaxFaults,      \* bound: faults in a behaviour
    MaxMoves,       \* bound: partitions the coordinator decides to move
    MaxCallbacks    \* bound: blocked-callback goroutines of a client not yet run

AllFaults == {"crash", "expire", "fetch", "commit", "timeout", "shutdown"}

\* "ok": acknowledged; "broker": refused by the broker or given up by the client;
\* "context": dropped because the batch's context was cancelled while it was buffered.
AllDlqOutcomes == {"ok", "broker", "context"}

ASSUME ConsumerAssumption ==
    /\ NoOne \notin Consumers
    /\ NoPartition \notin Partitions
    /\ LogEnd \in Nat
    /\ Gaps \subseteq Partitions \X (0 .. LogEnd - 2)
    /\ FaultKinds \subseteq AllFaults
    /\ DlqOutcomes \subseteq AllDlqOutcomes
    /\ MaxFaults \in Nat /\ MaxMoves \in Nat /\ MaxCallbacks \in Nat

VARIABLES
    \* the coordinator and the faults of the environment
    committed,      \* committed[p]: committed offset
    owner,          \* owner[p]: the member p is assigned to
    moving,         \* partitions to be taken from their owner
    moves, faults,  \* how much of the bounds is used up
    \* the polling loop of each client
    pc,
    held,           \* partitions the client believes it is assigned
    position,       \* offset the next poll starts at: the end of the polled batch
    from,           \* first offset of the batch
    next,           \* the record iterator: next offset to hand out
    cur,            \* partition being iterated
    failed,         \* pollFetches is returning an error
    registered,     \* next-offsets registered in the batch's tracker
    \* the batch's dead-letter publications
    pending, acked, publishErr,
    \* cancellation
    cancelled,      \* the batch's context is done
    ctxDone,        \* the context given to StartPolling is done
    shouldCancel,   \* cancelProcessingStore.shouldCancel
    callbacks,      \* goroutines about to call cancelProcessingStore.cancel
    notified,       \* the current poll was told that it blocks a rebalance
    \* history
    settled,        \* records consumed without error, or taken by the dead-letter topic,
                    \* and the gaps, where nothing is left to consume
    gaveUp          \* records with a failed dead-letter publication

groupVars  == <<committed, owner, moving, moves>>
batchVars  == <<held, position, from, next, cur, failed, registered>>
loopVars   == <<pc, batchVars>>
dlqVars    == <<pending, acked, publishErr>>
cancelVars == <<cancelled, ctxDone, shouldCancel, callbacks, notified>>
historyVars == <<settled, gaveUp>>
outerVars == <<groupVars, faults, dlqVars, cancelVars, historyVars>>
vars == <<groupVars, faults, loopVars, dlqVars, cancelVars, historyVars>>

Records == Partitions \X (0 .. LogEnd - 1)

States == {"poll", "fetched", "next", "running", "backoff", "drain", "commit",
           "release", "allow", "stopped", "down"}

TypeOK ==
    /\ committed \in [Partitions -> 0 .. LogEnd]
    /\ owner \in [Partitions -> Consumers \cup {NoOne}]
    /\ moving \subseteq Partitions
    /\ moves \in 0 .. MaxMoves
    /\ faults \in 0 .. MaxFaults
    /\ pc \in [Consumers -> States]
    /\ held \in [Consumers -> SUBSET Partitions]
    /\ position \in [Consumers -> [Partitions -> 0 .. LogEnd]]
    /\ from \in [Consumers -> [Partitions -> 0 .. LogEnd]]
    /\ next \in [Consumers -> [Partitions -> 0 .. LogEnd]]
    /\ cur \in [Consumers -> Partitions \cup {NoPartition}]
    /\ failed \in [Consumers -> BOOLEAN]
    /\ registered \in [Consumers -> [Partitions -> SUBSET (1 .. LogEnd)]]
    /\ pending \in [Consumers -> SUBSET Records]
    /\ acked \in [Consumers -> SUBSET Records]
    /\ publishErr \in [Consumers -> SUBSET {"broker", "context"}]
    /\ cancelled \in [Consumers -> BOOLEAN]
    /\ ctxDone \in [Consumers -> BOOLEAN]
    /\ shouldCancel \in [Consumers -> BOOLEAN]
    /\ callbacks \in [Consumers -> 0 .. MaxCallbacks]
    /\ notified \in [Consumers -> BOOLEAN]
    /\ settled \subseteq Records /\ gaveUp \subseteq Records

Origin == [p \in Partitions |-> 0]
NothingRegistered == [p \in Partitions |-> {}]

Init ==
    /\ committed = Origin
    /\ owner = [p \in Partitions |-> NoOne]
    /\ moving = {} /\ moves = 0 /\ faults = 0
    /\ pc = [c \in Consumers |-> "poll"]
    /\ held = [c \in Consumers |-> {}]
    /\ position = [c \in Consumers |-> Origin]
    /\ from = [c \in Consumers |-> Origin]
    /\ next = [c \in Consumers |-> Origin]
    /\ cur = [c \in Consumers |-> NoPartition]
    /\ failed = [c \in Consumers |-> FALSE]
    /\ registered = [c \in Consumers |-> NothingRegistered]
    /\ pending = [c \in Consumers |-> {}]
    /\ acked = [c \in Consumers |-> {}]
    /\ publishErr = [c \in Consumers |-> {}]
    /\ cancelled = [c \in Consumers |-> FALSE]
    /\ ctxDone = [c \in Consumers |-> FALSE]
    /\ shouldCancel = [c \in Consumers |-> FALSE]
    /\ callbacks = [c \in Consumers |-> 0]
    /\ notified = [c \in Consumers |-> FALSE]
    /\ settled = Gaps /\ gaveUp = {}

Goto(c, state) == pc' = [pc EXCEPT ![c] = state]

Fault(kind) ==
    /\ kind \in FaultKinds
    /\ faults < MaxFaults
    /\ faults' = faults + 1

\* cancelProcessingStore.cancelFunc is set: between store and release.
HasCancelFunc(c) == pc[c] \in {"next", "running", "backoff", "drain", "commit", "release"}

\* A poll returned and AllowRebalance was not called yet: rebalances wait.
InPoll(c) == pc[c] \in {"fetched", "next", "running", "backoff", "drain", "commit",
                        "release", "allow"}

\* The context of the batch: its own deadline or cancellation, or its parent's.
\* Slip: records are consumed with the context of the polling loop.
ParentIsDone(c) == ctxDone[c]

CtxIsDone(c) == cancelled[c] \/ ctxDone[c]

HasMore(c) == \E p \in Partitions : next[c][p] < position[c][p]

\* A partition is iterated to its end before another one is begun.
NextPartition(c) ==
    {p \in Partitions : /\ next[c][p] < position[c][p]
                        /\ \/ p = cur[c]
                           \/ cur[c] = NoPartition
                           \/ next[c][cur[c]] = position[c][cur[c]]}

Current(c) == <<cur[c], next[c][cur[c]]>>

\* The record at o is the first one that is left of p from the iterator on.
NextRecord(c, p, o) ==
    /\ o \in next[c][p] .. position[c][p] - 1 /\ <<p, o>> \notin Gaps
    /\ \A i \in next[c][p] .. o - 1 : <<p, i>> \in Gaps

HandOut(c, p, o) ==
    /\ cur' = [cur EXCEPT ![c] = p]
    /\ next' = [next EXCEPT ![c][p] = o]

-----------------------------------------------------------------------------
(* The polling loop: StartPolling and pollFetches.                         *)

\* Every held partition contributes some, or none, of the records it has left; the next
\* poll starts behind the last one.
PollFetches(c) ==
    /\ pc[c] = "poll" /\ ~ctxDone[c]
    /\ \E end \in [Partitions -> 0 .. LogEnd] :
          /\ \A p \in held[c] : position[c][p] =< end[p]
          /\ \A p \in Partitions \ held[c] : end[p] = position[c][p]
          /\ \A p \in held[c] : end[p] # position[c][p] => <<p, end[p] - 1>> \notin Gaps
          /\ end # position[c]
          /\ position' = [position EXCEPT ![c] = end]
    /\ Goto(c, "fetched")
    /\ UNCHANGED <<outerVars, held, from, next, cur, failed, registered>>

\* A fetch error other than data loss, or the end of the context given to the loop.
PollFails(c) ==
    /\ pc[c] = "poll"
    /\ \/ ctxDone[c] /\ UNCHANGED faults
       \/ Fault("fetch")
    /\ Goto(c, "stopped")
    /\ failed' = [failed EXCEPT ![c] = TRUE]
    /\ UNCHANGED <<groupVars, held, position, from, next, cur, registered, dlqVars,
                   cancelVars, historyVars>>

\* Slip: the cancellation remembered before the store is not honoured.
StoreCancelOnly(c) ==
    /\ pc[c] = "fetched"
    /\ Goto(c, "next")
    /\ UNCHANGED <<outerVars, batchVars>>

StoreCancel(c) ==
    /\ pc[c] = "fetched"
    /\ Goto(c, "next")
    /\ cancelled' = [cancelled EXCEPT ![c] = shouldCancel[c]]
    /\ UNCHANGED <<groupVars, faults, batchVars, dlqVars, ctxDone, shouldCancel,
                   callbacks, notified, historyVars>>

\* Slip: no check of the context before an attempt.
StartUnchecked(c) ==
    /\ pc[c] = "next"
    /\ \E p \in NextPartition(c), o \in 0 .. LogEnd : NextRecord(c, p, o) /\ HandOut(c, p, o)
    /\ Goto(c, "running")
    /\ UNCHANGED <<outerVars, held, position, from, failed, registered>>

\* consumeWithRetry: the context is checked before every attempt at a record.
StartRecord(c) ==
    /\ pc[c] = "next" /\ ~CtxIsDone(c)
    /\ \E p \in NextPartition(c), o \in 0 .. LogEnd : NextRecord(c, p, o) /\ HandOut(c, p, o)
    /\ Goto(c, "running")
    /\ UNCHANGED <<outerVars, held, position, from, failed, registered>>

AbortBatch(c) ==
    /\ \/ pc[c] = "next" /\ HasMore(c)
       \/ pc[c] = "backoff"
    /\ CtxIsDone(c)
    /\ Goto(c, "drain")
    /\ UNCHANGED <<outerVars, batchVars>>

Succeed(c) ==
    /\ pc[c] = "running"
    /\ settled' = settled \cup {Current(c)}
    /\ registered' = [registered EXCEPT ![c][cur[c]] = @ \cup {next[c][cur[c]] + 1}]
    /\ next' = [next EXCEPT ![c][cur[c]] = @ + 1]
    /\ Goto(c, "next")
    /\ UNCHANGED <<groupVars, faults, held, position, from, cur, failed, dlqVars,
                   cancelVars, gaveUp>>

FailTransiently(c) ==
    /\ pc[c] = "running"
    /\ Goto(c, "backoff")
    /\ UNCHANGED <<outerVars, batchVars>>

BackoffElapses(c) ==
    /\ pc[c] = "backoff"
    /\ Goto(c, "next")
    /\ UNCHANGED <<outerVars, batchVars>>

\* The record goes to the dead-letter topic asynchronously; the client may refuse it
\* at once when the context it is produced with is done.
FailPermanently(c) ==
    /\ pc[c] = "running"
    /\ next' = [next EXCEPT ![c][cur[c]] = @ + 1]
    /\ Goto(c, "next")
    /\ \/ /\ CtxIsDone(c)
          /\ publishErr' = [publishErr EXCEPT ![c] = @ \cup {"context"}]
          /\ gaveUp' = gaveUp \cup {Current(c)}
          /\ UNCHANGED pending
       \/ /\ pending' = [pending EXCEPT ![c] = @ \cup {Current(c)}]
          /\ UNCHANGED <<publishErr, gaveUp>>
    /\ UNCHANGED <<groupVars, faults, held, position, from, cur, failed, registered,
                   acked, cancelVars, settled>>

\* The client calls the produce callback of a buffered publication.
Published(c, r) ==
    /\ r \in pending[c]
    /\ "ok" \in DlqOutcomes
    /\ pending' = [pending EXCEPT ![c] = @ \ {r}]
    /\ acked' = [acked EXCEPT ![c] = @ \cup {r}]
    /\ settled' = settled \cup {r}
    /\ UNCHANGED <<groupVars, faults, loopVars, publishErr, cancelVars, gaveUp>>

NotPublished(c, r) ==
    /\ r \in pending[c]
    /\ pending' = [pending EXCEPT ![c] = @ \ {r}]
    /\ \E outcome \in DlqOutcomes \ {"ok"} :
          /\ outcome = "context" => CtxIsDone(c)
          /\ publishErr' = [publishErr EXCEPT ![c] = @ \cup {outcome}]
    /\ gaveUp' = gaveUp \cup {r}
    /\ UNCHANGED <<groupVars, faults, loopVars, acked, cancelVars, settled>>

EndOfRecords(c) ==
    /\ pc[c] = "next" /\ ~HasMore(c)
    /\ Goto(c, "drain")
    /\ UNCHANGED <<outerVars, batchVars>>

\* contextCanceled(consumeErr): the loop was left before its end, or a publication
\* error carries the context's error (errors.Join keeps both).
ConsumerCanceled(c) == HasMore(c) \/ "context" \in publishErr[c]

\* Slip: publication errors are logged only.
DrainIgnoringErrors(c) ==
    /\ pc[c] = "drain" /\ pending[c] = {}
    /\ Goto(c, "commit")
    /\ UNCHANGED <<outerVars, batchVars>>

\* The deferred drain of consumeFetches, then the test of consumeErr in pollFetches.
\* With any publication error none of the published records is registered.
Drain(c) ==
    /\ pc[c] = "drain" /\ pending[c] = {}
    /\ registered' =
          IF publishErr[c] # {} THEN registered
          ELSE [registered EXCEPT ![c] =
                   [p \in Partitions |-> @[p] \cup {r[2] + 1 : r \in {a \in acked[c] : a[1] = p}}]]
    /\ IF publishErr[c] # {} /\ ~ConsumerCanceled(c)
       THEN Goto(c, "release") /\ failed' = [failed EXCEPT ![c] = TRUE]
       ELSE Goto(c, "commit") /\ UNCHANGED failed
    /\ UNCHANGED <<outerVars, held, position, from, next, cur>>

\* Partitions committableEpochOffsets has an entry for.
HasCommittable(c) == {p \in Partitions : registered[c][p] # {}}

\* Slip: the greatest registered offset instead of the end of the run.
GreatestRegistered(c, p) == Max(registered[c][p])

\* Slip: the offset after the next one.
BehindNext(c, p) == RunEnd(registered[c][p]) + 1

Committable(c, p) == RunEnd(registered[c][p])

\* The coordinator takes a commit for the partitions it sees assigned to the member;
\* the code does not read the per-partition errors of the response.
CommitOffsets(c, accepted) ==
    committed' = [p \in Partitions |->
                     IF p \in accepted THEN Committable(c, p) ELSE committed[p]]

\* What the coordinator sees assigned to c of what c commits.
Fenced(c) == {p \in HasCommittable(c) : owner[p] = c}

\* Slip: no rewind, the records of a cancelled batch are not fetched again.
KeepPosition(c) ==
    /\ from' = [from EXCEPT ![c] = position[c]]
    /\ next' = [next EXCEPT ![c] = position[c]]
    /\ UNCHANGED position

\* Slip: the rewind does not ask what is committable.
RewindToFirst(c) ==
    LET resume == IF ConsumerCanceled(c) THEN from[c] ELSE position[c]
    IN  /\ position' = [position EXCEPT ![c] = resume]
        /\ from' = [from EXCEPT ![c] = resume]
        /\ next' = [next EXCEPT ![c] = resume]

\* Slip: once something is committable, a partition without is not set back.
RewindCommittableOnly(c) ==
    LET resume == [p \in Partitions |->
                      IF ~ConsumerCanceled(c) \/ from[c][p] = position[c][p]
                      THEN position[c][p]
                      ELSE IF p \in HasCommittable(c) THEN Committable(c, p)
                      ELSE IF HasCommittable(c) = {} THEN from[c][p]
                      ELSE position[c][p]]
    IN  /\ position' = [position EXCEPT ![c] = resume]
        /\ from' = [from EXCEPT ![c] = resume]
        /\ next' = [next EXCEPT ![c] = resume]

\* After a cancelled batch the client is set back to what was committable, or to the
\* batch's first record; otherwise it goes on behind the batch.
RewindToCommitted(c) ==
    LET resume == [p \in Partitions |->
                      IF ~ConsumerCanceled(c) \/ from[c][p] = position[c][p]
                      THEN position[c][p]
                      ELSE IF p \in HasCommittable(c) THEN Committable(c, p)
                      ELSE from[c][p]]
    IN  /\ position' = [position EXCEPT ![c] = resume]
        /\ from' = [from EXCEPT ![c] = resume]
        /\ next' = [next EXCEPT ![c] = resume]

\* commitOffsets without an error, then rewindToCommitted.
Commit(c) ==
    /\ pc[c] = "commit"
    /\ HasCommittable(c) # {} => ~ctxDone[c]
    /\ \E accepted \in SUBSET Fenced(c) :
          /\ IF accepted = Fenced(c) THEN UNCHANGED faults ELSE Fault("commit")
          /\ CommitOffsets(c, accepted)
    /\ RewindToCommitted(c)
    /\ Goto(c, "release")
    /\ UNCHANGED <<owner, moving, moves, held, cur, failed, registered, dlqVars,
                   cancelVars, historyVars>>

\* The commit request fails, or its context is done; it may have taken effect.
CommitFails(c) ==
    /\ pc[c] = "commit" /\ HasCommittable(c) # {}
    /\ IF ctxDone[c] THEN UNCHANGED faults ELSE Fault("commit")
    /\ \/ UNCHANGED committed
       \/ CommitOffsets(c, Fenced(c))
    /\ failed' = [failed EXCEPT ![c] = TRUE]
    /\ Goto(c, "release")
    /\ UNCHANGED <<owner, moving, moves, held, position, from, next, cur, registered,
                   dlqVars, cancelVars, historyVars>>

\* cancelProcessingStore.release; the batch's tracker and publications are dropped.
Release(c) ==
    /\ pc[c] = "release"
    /\ Goto(c, "allow")
    /\ cancelled' = [cancelled EXCEPT ![c] = FALSE]
    /\ shouldCancel' = [shouldCancel EXCEPT ![c] = FALSE]
    /\ cur' = [cur EXCEPT ![c] = NoPartition]
    /\ registered' = [registered EXCEPT ![c] = NothingRegistered]
    /\ acked' = [acked EXCEPT ![c] = {}]
    /\ publishErr' = [publishErr EXCEPT ![c] = {}]
    /\ UNCHANGED <<groupVars, faults, held, position, from, next, failed, pending,
                   ctxDone, callbacks, notified, historyVars>>

AllowRebalance(c) ==
    /\ pc[c] = "allow"
    /\ Goto(c, IF failed[c] THEN "stopped" ELSE "poll")
    /\ notified' = [notified EXCEPT ![c] = FALSE]
    /\ UNCHANGED <<groupVars, faults, batchVars, dlqVars, cancelled, ctxDone,
                   shouldCancel, callbacks, historyVars>>

-----------------------------------------------------------------------------
(* Cancellation.                                                           *)

\* OnPartitionsCallbackBlocked, in a goroutine of its own: cancelProcessingStore.cancel.
CancelProcessing(c) ==
    /\ callbacks[c] > 0
    /\ callbacks' = [callbacks EXCEPT ![c] = @ - 1]
    /\ IF HasCancelFunc(c)
       THEN cancelled' = [cancelled EXCEPT ![c] = TRUE] /\ UNCHANGED shouldCancel
       ELSE shouldCancel' = [shouldCancel EXCEPT ![c] = TRUE] /\ UNCHANGED cancelled
    /\ UNCHANGED <<groupVars, faults, loopVars, dlqVars, ctxDone, notified,
                   historyVars>>

\* The processing timeout of the batch.
Timeout(c) ==
    /\ pc[c] \in {"next", "running", "backoff", "drain"} /\ ~cancelled[c]
    /\ Fault("timeout")
    /\ cancelled' = [cancelled EXCEPT ![c] = TRUE]
    /\ UNCHANGED <<groupVars, loopVars, dlqVars, ctxDone, shouldCancel, callbacks,
                   notified, historyVars>>

\* Run's context is cancelled: a signal, or another consumer of the process failed.
Shutdown(c) ==
    /\ pc[c] \notin {"stopped", "down"} /\ ~ctxDone[c]
    /\ Fault("shutdown")
    /\ ctxDone' = [ctxDone EXCEPT ![c] = TRUE]
    /\ UNCHANGED <<groupVars, loopVars, dlqVars, cancelled, shouldCancel, callbacks,
                   notified, historyVars>>

-----------------------------------------------------------------------------
(* Stop, crash and restart.                                                *)

ForgetClient(c) ==
    /\ Goto(c, "down")
    /\ held' = [held EXCEPT ![c] = {}]
    /\ position' = [position EXCEPT ![c] = Origin]
    /\ from' = [from EXCEPT ![c] = Origin]
    /\ next' = [next EXCEPT ![c] = Origin]
    /\ cur' = [cur EXCEPT ![c] = NoPartition]
    /\ failed' = [failed EXCEPT ![c] = FALSE]
    /\ registered' = [registered EXCEPT ![c] = NothingRegistered]
    /\ pending' = [pending EXCEPT ![c] = {}]
    /\ acked' = [acked EXCEPT ![c] = {}]
    /\ publishErr' = [publishErr EXCEPT ![c] = {}]
    /\ cancelled' = [cancelled EXCEPT ![c] = FALSE]
    /\ ctxDone' = [ctxDone EXCEPT ![c] = FALSE]
    /\ shouldCancel' = [shouldCancel EXCEPT ![c] = FALSE]
    /\ callbacks' = [callbacks EXCEPT ![c] = 0]
    /\ notified' = [notified EXCEPT ![c] = FALSE]

\* The coordinator removes c from the group.
RemoveMember(c) ==
    /\ owner' = [p \in Partitions |-> IF owner[p] = c THEN NoOne ELSE owner[p]]
    /\ moving' = {p \in moving : owner[p] # c}

\* Consumer.Close leaves the group.
Close(c) ==
    /\ pc[c] = "stopped"
    /\ ForgetClient(c)
    /\ RemoveMember(c)
    /\ UNCHANGED <<committed, moves, faults, historyVars>>

Crash(c) ==
    /\ pc[c] # "down"
    /\ Fault("crash")
    /\ ForgetClient(c)
    /\ UNCHANGED <<groupVars, historyVars>>

\* A new process joins; its predecessor's membership has ended by then.
Restart(c) ==
    /\ pc[c] = "down"
    /\ \A p \in Partitions : owner[p] # c
    /\ Goto(c, "poll")
    /\ UNCHANGED <<outerVars, batchVars>>

-----------------------------------------------------------------------------
(* The group coordinator and the client's group session (external).        *)

\* The session of a crashed member ends; so may that of a member whose heartbeats
\* or rebalance are late, which does not know it yet.
Expire(c) ==
    /\ \E p \in Partitions : owner[p] = c
    /\ IF pc[c] = "down" THEN UNCHANGED faults ELSE Fault("expire")
    /\ RemoveMember(c)
    /\ UNCHANGED <<committed, moves, loopVars, dlqVars, cancelVars, historyVars>>

\* Partitions the client still works on although the coordinator took them away.
Lost(c) == {p \in held[c] : owner[p] # c}

DropPartitions(c, P) ==
    /\ held' = [held EXCEPT ![c] = @ \ P]
    /\ position' = [position EXCEPT ![c] = [p \in Partitions |-> IF p \in P THEN 0 ELSE @[p]]]
    /\ from' = [from EXCEPT ![c] = [p \in Partitions |-> IF p \in P THEN 0 ELSE @[p]]]
    /\ next' = [next EXCEPT ![c] = [p \in Partitions |-> IF p \in P THEN 0 ELSE @[p]]]

\* Revocation, loss and assignment wait for AllowRebalance.
MayRebalance(c) == ~InPoll(c) /\ pc[c] # "down"

DropLost(c) ==
    /\ MayRebalance(c) /\ Lost(c) # {}
    /\ DropPartitions(c, Lost(c))
    /\ UNCHANGED <<outerVars, pc, cur, failed, registered>>

StartRebalance(p) ==
    /\ owner[p] # NoOne /\ p \notin moving
    /\ moves < MaxMoves
    /\ moving' = moving \cup {p}
    /\ moves' = moves + 1
    /\ UNCHANGED <<committed, owner, faults, loopVars, dlqVars, cancelVars,
                   historyVars>>

\* Slip: without BlockRebalanceOnPoll, under a batch that keeps its records.
RevokeInPoll(c, p) ==
    /\ pc[c] # "down"
    /\ p \in moving /\ owner[p] = c /\ p \in held[c]
    /\ owner' = [owner EXCEPT ![p] = NoOne]
    /\ moving' = moving \ {p}
    /\ held' = [held EXCEPT ![c] = @ \ {p}]
    /\ UNCHANGED <<committed, moves, faults, pc, position, from, next, cur, failed,
                   registered, dlqVars, cancelVars, historyVars>>

Revoke(c, p) ==
    /\ MayRebalance(c)
    /\ p \in moving /\ owner[p] = c /\ p \in held[c]
    /\ owner' = [owner EXCEPT ![p] = NoOne]
    /\ moving' = moving \ {p}
    /\ DropPartitions(c, {p})
    /\ UNCHANGED <<committed, moves, faults, pc, cur, failed, registered, dlqVars,
                   cancelVars, historyVars>>

Assign(c, p) ==
    /\ MayRebalance(c)
    /\ owner[p] = NoOne /\ p \notin held[c]
    /\ owner' = [owner EXCEPT ![p] = c]
    /\ held' = [held EXCEPT ![c] = @ \cup {p}]
    /\ position' = [position EXCEPT ![c][p] = committed[p]]
    /\ from' = [from EXCEPT ![c][p] = committed[p]]
    /\ next' = [next EXCEPT ![c][p] = committed[p]]
    /\ UNCHANGED <<committed, moving, moves, faults, pc, cur, failed, registered,
                   dlqVars, cancelVars, historyVars>>

\* A rebalance that c takes part in is outstanding.
RebalanceWaits(c) == moving # {} \/ Lost(c) # {} \/ \E p \in Partitions : owner[p] = NoOne

\* The client finds its rebalance callback blocked by the poll and launches
\* the OnPartitionsCallbackBlocked goroutine.
NotifyBlocked(c) ==
    /\ InPoll(c) /\ RebalanceWaits(c) /\ ~notified[c]
    /\ callbacks[c] < MaxCallbacks
    /\ callbacks' = [callbacks EXCEPT ![c] = @ + 1]
    /\ notified' = [notified EXCEPT ![c] = TRUE]
    /\ UNCHANGED <<groupVars, faults, loopVars, dlqVars, cancelled, ctxDone,
                   shouldCancel, historyVars>>

\* Every log is consumed to its end and no poll returns.
Idle ==
    /\ \A c \in Consumers : pc[c] = "poll" /\ \A p \in held[c] : position[c][p] = LogEnd
    /\ UNCHANGED vars

-----------------------------------------------------------------------------
Loop(c) ==
    \/ PollFetches(c) \/ PollFails(c) \/ StoreCancel(c)
    \/ StartRecord(c) \/ AbortBatch(c) \/ Succeed(c) \/ FailTransiently(c)
    \/ BackoffElapses(c) \/ FailPermanently(c) \/ EndOfRecords(c) \/ Drain(c)
    \/ Commit(c) \/ CommitFails(c) \/ Release(c) \/ AllowRebalance(c)
    \/ Close(c) \/ Restart(c)

Publications(c) == \E r \in pending[c] : Published(c, r) \/ NotPublished(c, r)

Environment(c) ==
    \/ CancelProcessing(c) \/ Timeout(c) \/ Shutdown(c) \/ Crash(c)
    \/ Expire(c) \/ DropLost(c) \/ NotifyBlocked(c)
    \/ \E p \in Partitions : Revoke(c, p) \/ Assign(c, p)

Next ==
    \/ \E c \in Consumers : Loop(c) \/ Publications(c) \/ Environment(c)
    \/ \E p \in Partitions : StartRebalance(p)
    \/ Idle

Spec == Init /\ [][Next]_vars

\* Goroutines are scheduled, the record consumer returns, the produce callbacks are
\* called, and the blocked-callback goroutine runs.  The record consumer may go on
\* failing transiently.
LoopFairness ==
    \A c \in Consumers :
        WF_vars(Loop(c)) /\ WF_vars(Publications(c)) /\ WF_vars(CancelProcessing(c))

ResponsiveSpec == Spec /\ LoopFairness

\* A record does not fail transiently for ever, and the group gets to rebalance
\* between polls (the coordinator and franz-go's turn-taking, external).
GroupFairness ==
    /\ \A c \in Consumers :
          /\ SF_vars(Succeed(c) \/ FailPermanently(c))
          /\ WF_vars(pc[c] = "down" /\ Expire(c))
          /\ SF_vars(DropLost(c))
    /\ \A p \in Partitions :
          /\ SF_vars(\E c \in Consumers : Revoke(c, p))
          /\ SF_vars(\E c \in Consumers : Assign(c, p))

-----------------------------------------------------------------------------
\* Every record below a committed offset was consumed, or acknowledged by the
\* dead-letter topic, or had a dead-letter publication fail: no interleaving of
\* retries, cancellations, expiries, crashes and commits skips a record that was
\* never tried (consumer.go:113-131, offsets.go:17-45).
CommittedAccounted ==
    \A p \in Partitions : \A o \in 0 .. committed[p] - 1 :
        <<p, o>> \in settled \cup gaveUp

\* No record is lost: below the committed offset each was consumed or is in the
\* dead-letter topic.  Holds when the topic takes every publication; README.md:109-111
\* promises it of cancelled batches in general.
NoRecordLost ==
    \A p \in Partitions : \A o \in 0 .. committed[p] - 1 : <<p, o>> \in settled

\* Records of a partition are begun in order: when one runs, each earlier one was
\* consumed or is dead-lettered, by this client or an earlier owner, or has its
\* publication in flight or refused (rewind and reassignment leave no gap).
ConsumedInOrder ==
    \A c \in Consumers : pc[c] = "running" =>
        \A o \in 0 .. next[c][cur[c]] - 1 :
            <<cur[c], o>> \in settled \cup gaveUp \cup pending[c]

\* Unless a session expires, no two clients have polled records of one partition in
\* hand: revocation waits for the batch to be over (consumer.go:36 and 96).
SingleProcessor ==
    "expire" \notin FaultKinds =>
        \A c, d \in Consumers : \A p \in Partitions :
            from[c][p] < position[c][p] /\ from[d][p] < position[d][p] => c = d

\* A poll that was told it blocks a rebalance has its cancellation delivered or on
\* its way, whether the callback ran before the batch's cancel function was stored,
\* during the batch, or after its release (rebalance.go:18-46).
BlockedBatchIsCancelled ==
    \A c \in Consumers :
        notified[c] /\ callbacks[c] = 0 =>
            \/ HasCancelFunc(c) /\ cancelled[c]
            \/ pc[c] = "fetched" /\ shouldCancel[c]
            \/ pc[c] = "allow"

SkipsAtHead(p) ==
    committed'[p] # committed[p] =>
        \E c \in Consumers :
           /\ pc[c] = "commit"
           /\ \A o \in committed[p] .. committed'[p] - 1 :
                 \/ <<p, o>> \in settled \/ o < from[c][p]
                 \/ ConsumerCanceled(c) /\ registered[c][p] \cap (0 .. o + 1) = {}

\* A commit passes a record of its batch that is neither consumed nor dead-lettered only
\* if the batch was cut short, and then only at its head, before any record of the
\* partition was registered: there the tracker sees no gap (consumer.go:113-128,
\* offsets.go:23-33).  What lies before the batch was passed by an earlier one.
SkipsOnlyAtHead ==
    [][\A p \in Partitions : SkipsAtHead(p)]_vars

\* No commit moves a partition's offset back, whoever sends it: neither a late commit
\* of an expired member, nor the one after a rewind, nor that of a reassigned
\* partition (consumer.go:121-128).
CommittedNeverDecreases ==
    [][\A p \in Partitions : committed[p] =< committed'[p]]_vars

\* A poll told that it blocks a rebalance ends, even if the record in hand fails
\* transiently for ever (README.md:110: "in-flight processing is cancelled when a
\* rebalance blocks").
BlockedPollEnds == \A c \in Consumers : notified[c] ~> ~InPoll(c)

\* kgoconsumer implements the safety part of AtLeastOnce when the dead-letter topic
\* takes what it is given (README.md:107-111).
Contract ==
    INSTANCE AtLeastOnce
    WITH Absent <- Gaps, settled <- settled, committed <- committed
AtLeastOnceSafety == Contract!Spec

\* And if no record fails transiently for ever and the group gets to rebalance, every
\* record is settled, and committed past up to the first gap at least, through rebalances,
\* crashes and cancelled batches (consumer.go:80-131, offsets.go:28).
AtLeastOnceProgress == GroupFairness => Contract!Progress

=============================================================================
