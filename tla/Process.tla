------------------------------- MODULE Process -------------------------------
(***************************************************************************)
(* What the main functions of the four commands have in common: the signal *)
(* context, the configuration, the OpenTelemetry SDK of otelinit, and the  *)
(* deferred calls that release on the way out what was acquired on the way *)
(* in.  Service and TxProducer add what each command does in between.      *)
(***************************************************************************)
EXTENDS Naturals, SequencesExt

VARIABLES
    program,      \* which command runs: a service or tx-producer
    main,         \* where its main function is
    signalled,    \* SIGTERM or SIGINT came: the context of main is done
    open,         \* what deferred calls will release, in the order of acquisition
    released,     \* history: what they have released
    code          \* the exit code run() returns

processVars == <<program, main, signalled, open, released, code>>

\* The SDK is made of a connection to the collector and the providers that export over it.
SdkParts == <<"connection", "tracer", "meter", "logger">>
Resources == Range(SdkParts) \cup {"pool", "client"}

Stages == {"config", "otel", "pool", "migrate", "run", "client", "generate", "produce",
           "drain", "unwind", "exited"}

ProcessTypeOK ==
    /\ program \in {"service", "producer"}
    /\ main \in Stages
    /\ signalled \in BOOLEAN
    /\ Range(open) \subseteq Resources /\ released \subseteq Resources
    /\ code \in {0, 1}

ProcessInit ==
    /\ program \in {"service", "producer"}
    /\ main = "config"
    /\ signalled = FALSE
    /\ open = <<>> /\ released = {}
    /\ code = 0

\* run() returns c; its deferred calls are next.
ReturnFromRun(c) == main' = "unwind" /\ code' = c

Signal ==
    /\ main # "exited" /\ ~signalled
    /\ signalled' = TRUE
    /\ UNCHANGED <<program, main, open, released, code>>

ReadConfig ==
    /\ main = "config"
    /\ \/ main' = "otel" /\ UNCHANGED code
       \/ ReturnFromRun(1)
    /\ UNCHANGED <<program, signalled, open, released>>

AfterSdk == IF program = "service" THEN "pool" ELSE "client"

\* No collector is configured.
SkipSdk ==
    /\ main = "otel" /\ open = <<>>
    /\ main' = AfterSdk
    /\ UNCHANGED <<program, signalled, open, released, code>>

\* Slip: the shutdowns are collected in the wrong order.
AcquireBelow ==
    /\ main = "otel"
    /\ open' = <<SdkParts[Len(open) + 1]>> \o open
    /\ main' = IF Len(open') = Len(SdkParts) THEN AfterSdk ELSE main
    /\ UNCHANGED <<program, signalled, released, code>>

AcquireSdkPart ==
    /\ main = "otel"
    /\ open' = Append(open, SdkParts[Len(open) + 1])
    /\ main' = IF Len(open') = Len(SdkParts) THEN AfterSdk ELSE main
    /\ UNCHANGED <<program, signalled, released, code>>

\* What was acquired is shut down in reverse, like in the deferred shutdown.
SdkFails ==
    /\ main = "otel"
    /\ ReturnFromRun(1)
    /\ UNCHANGED <<program, signalled, open, released>>

\* A deferred release may fail; that is logged only.
ReleaseLast ==
    /\ main = "unwind" /\ open # <<>>
    /\ released' = released \cup {Last(open)}
    /\ open' = Front(open)
    /\ UNCHANGED <<program, main, signalled, code>>

Exit ==
    /\ main = "unwind" /\ open = <<>>
    /\ main' = "exited"
    /\ UNCHANGED <<program, signalled, open, released, code>>

Bootstrap == ReadConfig \/ SkipSdk \/ AcquireSdkPart \/ SdkFails
Unwind == ReleaseLast \/ Exit

=============================================================================
