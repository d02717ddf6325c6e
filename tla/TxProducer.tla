------------------------------ MODULE TxProducer ------------------------------
(***************************************************************************)
(* The body of tx-producer: a client, generated records, and their         *)
(* publication at a limited rate, each answered by a callback.             *)
(***************************************************************************)
EXTENDS Process

CONSTANT Amount     \* records to produce, poison pills included

ASSUME AmountAssumption == Amount \in Nat

VARIABLES
    rate,           \* whether the configured rate lets anything pass
    given,          \* records handed to the client so far
    inFlight,       \* those whose callback was not called yet
    delivered,      \* those acknowledged
    errs            \* those whose callback got an error

producerVars == <<rate, given, inFlight, delivered, errs>>

Produced == 1 .. Amount

ProducerTypeOK ==
    /\ rate \in BOOLEAN
    /\ given \in 0 .. Amount
    /\ inFlight \subseteq Produced /\ delivered \subseteq Produced /\ errs \subseteq Produced

ProducerInit ==
    /\ rate \in BOOLEAN
    /\ given = 0
    /\ inFlight = {} /\ delivered = {} /\ errs = {}

NewClient ==
    /\ main = "client"
    /\ \/ /\ open' = Append(open, "client")
          /\ main' = "generate"
          /\ UNCHANGED code
       \/ ReturnFromRun(1) /\ UNCHANGED open
    /\ UNCHANGED <<program, signalled, released, producerVars>>

Generate ==
    /\ main = "generate"
    /\ \/ main' = "produce" /\ UNCHANGED code
       \/ ReturnFromRun(1)
    /\ UNCHANGED <<program, signalled, open, released, producerVars>>

\* The limiter lets the next record pass, and the client takes it.
Produce ==
    /\ main = "produce" /\ given < Amount
    /\ rate /\ ~signalled
    /\ given' = given + 1
    /\ inFlight' = inFlight \cup {given + 1}
    /\ UNCHANGED <<processVars, rate, delivered, errs>>

\* The loop ends: nothing is left, or the wait on the limiter fails.
EndOfLoop ==
    /\ main = "produce"
    /\ given = Amount \/ signalled \/ ~rate
    /\ main' = "drain"
    /\ UNCHANGED <<program, signalled, open, released, code, producerVars>>

\* The callback of a record, in a goroutine of the client.
Answer(i) ==
    /\ main # "exited" /\ i \in inFlight
    /\ inFlight' = inFlight \ {i}
    /\ \/ delivered' = delivered \cup {i} /\ UNCHANGED errs
       \/ errs' = errs \cup {i} /\ UNCHANGED delivered
    /\ UNCHANGED <<processVars, rate, given>>

\* Slip: the errors are joined without waiting for the callbacks.
JoinAtOnce ==
    /\ main = "drain"
    /\ ReturnFromRun(IF errs = {} /\ given = Amount THEN 0 ELSE 1)
    /\ UNCHANGED <<program, signalled, open, released, producerVars>>

\* The deferred wait for the callbacks, and their errors joined with that of the loop.
JoinErrors ==
    /\ main = "drain" /\ inFlight = {}
    /\ ReturnFromRun(IF errs = {} /\ given = Amount THEN 0 ELSE 1)
    /\ UNCHANGED <<program, signalled, open, released, producerVars>>

ProducerMain == NewClient \/ Generate \/ Produce \/ EndOfLoop \/ JoinErrors

=============================================================================
