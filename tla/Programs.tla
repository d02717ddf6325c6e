------------------------------ MODULE Programs ------------------------------
(***************************************************************************)
(* The four commands from start to exit.                                   *)
(***************************************************************************)
EXTENDS Service, TxProducer

vars == <<processVars, serviceVars, producerVars>>

TypeOK == ProcessTypeOK /\ ServiceTypeOK /\ ProducerTypeOK

Init == ProcessInit /\ ServiceInit /\ ProducerInit

Main ==
    \/ (Bootstrap \/ Unwind) /\ UNCHANGED <<serviceVars, producerVars>>
    \/ ServiceMain /\ UNCHANGED producerVars
    \/ ProducerMain /\ UNCHANGED serviceVars

Answers == (\E i \in inFlight : Answer(i)) /\ UNCHANGED serviceVars

Exited == main = "exited" /\ UNCHANGED vars

Next ==
    \/ Main \/ Answers
    \/ \E c \in Consumers : Goroutine(c) /\ UNCHANGED producerVars
    \/ Signal /\ UNCHANGED <<serviceVars, producerVars>>
    \/ Exited

Spec == Init /\ [][Next]_vars

\* Calls of main return, callbacks are called, and a consumer whose context is done stops
\* polling; one that polls in peace may do so for ever.
Fairness ==
    /\ WF_vars(Main) /\ WF_vars(Answers)
    /\ \A c \in Consumers :
          WF_vars((loop[c] = "polling" => ContextDone) /\ Goroutine(c) /\ UNCHANGED producerVars)

FairSpec == Spec /\ Fairness

-----------------------------------------------------------------------------
\* While a consumer is created or polls, or a record waits for its callback, nothing they
\* use is released and the process goes on: Run returns behind the last report, produce
\* behind the last callback (runner.go:31-37, tx-producer/main.go:123-131).
InUse == (\E c \in Consumers : loop[c] \in {"creating", "polling"}) \/ inFlight # {}
ResourcesOutliveUse == InUse => released = {} /\ main # "exited"

\* Whatever start-up step fails, the providers that export over the connection to the
\* collector are shut down before it is closed, and the pool before them
\* (otelinit.go:26-84 and 212-220, tx-consumer/main.go:42-61).
ReleasedInReverse ==
    /\ "connection" \in released => Range(open) = {}
    /\ released \cap Range(SdkParts) # {} => {"pool", "client"} \cap Range(open) = {}

\* Exit code 0 means that every record was acknowledged, or that no consumer was asked for;
\* tx-producer reports no failure when they all were (tx-producer/main.go:104-152).
ExitCodeTells ==
    main = "exited" =>
        /\ code = 0 => IF program = "producer" THEN delivered = Produced ELSE team = {}
        /\ code = 1 /\ program = "producer" /\ Amount > 0 => delivered # Produced

\* A signal, or the end of any one consumer, ends the process: the others are cancelled and
\* their reports received (runner.go:11-35).
OneStopsAll ==
    (signalled \/ \E c \in Consumers : loop[c] = "closing") ~> main = "exited"

=============================================================================
