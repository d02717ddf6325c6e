------------------------------- MODULE Service -------------------------------
(***************************************************************************)
(* The body of tx-consumer, tx-validator and mail-sender: a connection     *)
(* pool, the migrations, and kgoconsumer.Run (runner.go), which starts a   *)
(* goroutine per consumer and waits for a report of each over a channel.   *)
(* A goroutine is here what KgoConsumer calls a client: it polls until its *)
(* context is done or an error ends StartPolling.                          *)
(***************************************************************************)
EXTENDS Process, FiniteSets

CONSTANT Consumers

ASSUME ServiceAssumption == IsFiniteSet(Consumers)

VARIABLES
    team,         \* the consumers that the configured count asks for
    loop,         \* loop[c]: where the goroutine of c is
    queued,       \* reports in errCh
    collected,    \* reports Run has received
    runCancelled  \* Run cancelled the context of the consumers

serviceVars == <<team, loop, queued, collected, runCancelled>>

ServiceTypeOK ==
    /\ team \subseteq Consumers
    /\ loop \in [Consumers -> {"off", "creating", "polling", "closing", "closed"}]
    /\ queued \in 0 .. Cardinality(team)
    /\ collected \in 0 .. Cardinality(team)
    /\ runCancelled \in BOOLEAN

ServiceInit ==
    /\ team \in SUBSET Consumers
    /\ loop = [c \in Consumers |-> "off"]
    /\ queued = 0 /\ collected = 0
    /\ runCancelled = FALSE

NewPool ==
    /\ main = "pool"
    /\ \/ /\ open' = Append(open, "pool")
          /\ main' = "migrate"
          /\ UNCHANGED code
       \/ ReturnFromRun(1) /\ UNCHANGED open
    /\ UNCHANGED <<program, signalled, released, serviceVars>>

\* The wrapper around the pool is opened and closed again on every path.
Migrate ==
    /\ main = "migrate"
    /\ \/ /\ main' = "run"
          /\ loop' = [c \in Consumers |-> IF c \in team THEN "creating" ELSE "off"]
          /\ UNCHANGED code
       \/ ReturnFromRun(1) /\ UNCHANGED loop
    /\ UNCHANGED <<program, signalled, open, released, team, queued, collected, runCancelled>>

\* errCh has room for a report of each consumer.
Room == Cardinality(team)

\* A goroutine sends its report; it blocks while the channel is full.
Report ==
    /\ queued < Room
    /\ queued' = queued + 1

At(c, state) == loop' = [loop EXCEPT ![c] = state]

\* The goroutine of c: newConsumer, StartPolling and its report, the deferred Close.
NewConsumer(c) ==
    /\ loop[c] = "creating"
    /\ At(c, "polling")
    /\ UNCHANGED <<team, queued, collected, runCancelled>>

\* Slip: the report of a failed newConsumer does not return.
ReportAndGoOn(c) ==
    /\ loop[c] = "creating"
    /\ Report
    /\ At(c, "polling")
    /\ UNCHANGED <<team, collected, runCancelled>>

NewConsumerFails(c) ==
    /\ loop[c] = "creating"
    /\ Report
    /\ At(c, "closed")
    /\ UNCHANGED <<team, collected, runCancelled>>

ContextDone == signalled \/ runCancelled

\* StartPolling returns: its context is done, or polling, consuming or committing failed.
StopPolling(c) ==
    /\ loop[c] = "polling"
    /\ Report
    /\ At(c, "closing")
    /\ UNCHANGED <<team, collected, runCancelled>>

Close(c) ==
    /\ loop[c] = "closing"
    /\ At(c, "closed")
    /\ UNCHANGED <<team, queued, collected, runCancelled>>

\* Slip: an error does not cancel the others.
CollectOnly ==
    /\ main = "run" /\ queued > 0
    /\ queued' = queued - 1
    /\ collected' = collected + 1
    /\ UNCHANGED <<team, loop, runCancelled>>

\* Run receives a report and cancels the consumers.
Collect ==
    /\ main = "run" /\ queued > 0
    /\ queued' = queued - 1
    /\ collected' = collected + 1
    /\ runCancelled' = TRUE
    /\ UNCHANGED <<team, loop>>

\* Slip: Run returns the first error.
FirstCollected == collected = Cardinality(team) \/ collected = 1

AllCollected == collected = Cardinality(team)

\* Run returns the joined reports; without a consumer there is none, and no error.
Return ==
    /\ main = "run" /\ AllCollected
    /\ ReturnFromRun(IF collected = 0 THEN 0 ELSE 1)
    /\ UNCHANGED <<program, signalled, open, released, serviceVars>>

\* The goroutines run until the process exits.
Goroutine(c) ==
    /\ main # "exited"
    /\ NewConsumer(c) \/ NewConsumerFails(c) \/ StopPolling(c) \/ Close(c)
    /\ UNCHANGED processVars

ServiceMain ==
    \/ NewPool \/ Migrate \/ Return
    \/ Collect /\ UNCHANGED processVars

=============================================================================
