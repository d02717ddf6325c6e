--------------------------- MODULE Programs_proofs ---------------------------
(***************************************************************************)
(* What the end of a command waits for and tells, for any number of        *)
(* consumers and records.                                                  *)
(***************************************************************************)
EXTENDS Programs, FiniteSetTheorems, TLAPS

Ending == {"unwind", "exited"}

Reported == {c \in Consumers : loop[c] \in {"closing", "closed"}}

\* The variables the invariants speak of have their types.
Typed ==
    /\ team \subseteq Consumers
    /\ loop \in [Consumers -> {"off", "creating", "polling", "closing", "closed"}]
    /\ queued \in Nat /\ collected \in Nat
    /\ given \in 0 .. Amount

\* Goroutines exist from Run on, for the consumers asked for; each that ended has one
\* report, in errCh or received, and one that did not keeps main in Run.
GoroutinesInv ==
    /\ \A c \in Consumers : loop[c] # "off" => c \in team /\ main \in {"run"} \cup Ending
    /\ \A c \in Consumers : loop[c] \in {"creating", "polling"} => main = "run"
    /\ queued + collected = Cardinality(Reported)

\* Callbacks are outstanding only while produce runs, and releases come after it and Run.
CallbacksInv ==
    /\ inFlight # {} => main \in {"produce", "drain"}
    /\ released # {} => main \in Ending

UseInv == Typed /\ GoroutinesInv /\ CallbacksInv

\* With every report received no consumer is left that is created or polls.
LEMMA AllReported ==
    ASSUME Typed, GoroutinesInv, AllCollected
    PROVE  \A c \in team : c \in Reported
<1>1. IsFiniteSet(team)
  BY ServiceAssumption, FS_Subset DEF Typed
<1>2. Reported \subseteq team
  BY DEF Reported, GoroutinesInv
<1>3. Cardinality(Reported) =< Cardinality(team) /\ Cardinality(Reported) \in Nat
  BY <1>1, <1>2, FS_Subset, FS_CardinalityType
<1>4. Cardinality(Reported) = Cardinality(team)
  BY <1>1, <1>3, FS_CardinalityType DEF GoroutinesInv, Typed, AllCollected
<1> QED
  BY <1>1, <1>2, <1>4, FS_Subset

\* A report adds its consumer to those that ended.
LEMMA OneMoreReport ==
    ASSUME Typed, NEW c \in Consumers, loop[c] \in {"creating", "polling"},
           NEW state \in {"closing", "closed"}, loop' = [loop EXCEPT ![c] = state]
    PROVE  Cardinality(Reported') = Cardinality(Reported) + 1
<1>1. Reported' = Reported \cup {c} /\ c \notin Reported
  BY DEF Reported, Typed
<1>2. IsFiniteSet(Reported)
  BY ServiceAssumption, FS_Subset DEF Reported
<1> QED
  BY <1>1, <1>2, FS_AddElement

LEMMA UseInit == Init => UseInv
<1>1. SUFFICES ASSUME Init PROVE UseInv
  OBVIOUS
<1>2. Reported = {}
  BY <1>1 DEF Init, ServiceInit, Reported
<1>3. Typed
  BY <1>1, AmountAssumption DEF Init, ServiceInit, ProducerInit, Typed
<1>4. GoroutinesInv
  BY <1>1, <1>2, FS_EmptySet DEF Init, ServiceInit, GoroutinesInv
<1>5. CallbacksInv
  BY <1>1 DEF Init, ProcessInit, ProducerInit, CallbacksInv
<1> QED
  BY <1>3, <1>4, <1>5 DEF UseInv

\* Steps that touch neither goroutines nor callbacks, and move main in a way that suits them.
LEMMA MainMoves ==
    ASSUME UseInv, UNCHANGED <<serviceVars, producerVars>>,
           main \in {"run"} \cup Ending => main' \in Ending,
           main = "run" => AllCollected,
           main \in {"produce", "drain"} => main' = "drain" \/ inFlight = {},
           released' # released => main \in Ending,
           main' \notin Ending => main \notin Ending
    PROVE  UseInv'
<1>1. Reported' = Reported
  BY DEF Reported, serviceVars
<1>2. Typed'
  BY DEF UseInv, Typed, serviceVars, producerVars
<1>3. GoroutinesInv'
  <2>1. ASSUME NEW c \in Consumers, loop'[c] # "off"
        PROVE  c \in team' /\ main' \in {"run"} \cup Ending
    BY <2>1 DEF UseInv, GoroutinesInv, serviceVars
  <2>2. ASSUME NEW c \in Consumers, loop'[c] \in {"creating", "polling"}
        PROVE  main' = "run"
    <3>1. main = "run" /\ c \in team
      BY <2>2 DEF UseInv, GoroutinesInv, serviceVars
    <3>2. c \in Reported
      BY <3>1, AllReported DEF UseInv
    <3> QED
      BY <2>2, <3>2 DEF Reported, serviceVars
  <2> QED
    BY <1>1, <2>1, <2>2 DEF UseInv, GoroutinesInv, serviceVars
<1>4. CallbacksInv'
  BY DEF UseInv, CallbacksInv, producerVars
<1> QED
  BY <1>2, <1>3, <1>4 DEF UseInv

LEMMA UseStep == UseInv /\ [Next]_vars => UseInv'
<1>1. SUFFICES ASSUME UseInv, [Next]_vars PROVE UseInv'
  OBVIOUS
<1> USE <1>1
<1>2. CASE ReadConfig /\ UNCHANGED <<serviceVars, producerVars>>
  BY <1>2, MainMoves DEF ReadConfig, ReturnFromRun, Ending
<1>3. CASE SkipSdk /\ UNCHANGED <<serviceVars, producerVars>>
  BY <1>3, MainMoves DEF SkipSdk, AfterSdk, Ending
<1>4. CASE AcquireSdkPart /\ UNCHANGED <<serviceVars, producerVars>>
  BY <1>4, MainMoves DEF AcquireSdkPart, AfterSdk, Ending
<1>5. CASE SdkFails /\ UNCHANGED <<serviceVars, producerVars>>
  BY <1>5, MainMoves DEF SdkFails, ReturnFromRun, Ending
<1>6. CASE ReleaseLast /\ UNCHANGED <<serviceVars, producerVars>>
  BY <1>6, MainMoves DEF ReleaseLast, Ending
<1>7. CASE Exit /\ UNCHANGED <<serviceVars, producerVars>>
  BY <1>7, MainMoves DEF Exit, Ending
<1>8. CASE NewPool /\ UNCHANGED producerVars
  BY <1>8, MainMoves DEF NewPool, ReturnFromRun, Ending
<1>9. CASE Migrate /\ UNCHANGED producerVars
  <2>1. CASE ReturnFromRun(1) /\ UNCHANGED loop
    BY <1>9, <2>1, MainMoves DEF Migrate, ReturnFromRun, Ending, serviceVars
  <2>2. CASE main' = "run" /\ loop' = [c \in Consumers |-> IF c \in team THEN "creating" ELSE "off"]
    <3>1. main = "migrate" /\ released' = released /\ UNCHANGED <<team, queued, collected>>
      BY <1>9 DEF Migrate
    <3>2. Reported = {} /\ Reported' = {}
      BY <2>2, <3>1 DEF Reported, UseInv, GoroutinesInv, Ending
    <3>3. Typed'
      BY <1>9, <2>2, <3>1 DEF UseInv, Typed, producerVars
    <3>4. GoroutinesInv'
      BY <2>2, <3>1, <3>2 DEF UseInv, GoroutinesInv
    <3>5. CallbacksInv'
      BY <1>9, <2>2, <3>1 DEF UseInv, CallbacksInv, producerVars, Ending
    <3> QED
      BY <3>3, <3>4, <3>5 DEF UseInv
  <2> QED
    BY <1>9, <2>1, <2>2 DEF Migrate
<1>10. CASE Return /\ UNCHANGED producerVars
  BY <1>10, MainMoves DEF Return, ReturnFromRun, Ending
<1>11. CASE Collect /\ UNCHANGED processVars /\ UNCHANGED producerVars
  <2>1. Reported' = Reported
    BY <1>11 DEF Collect, Reported
  <2>2. Typed'
    BY <1>11 DEF Collect, UseInv, Typed, producerVars
  <2>3. GoroutinesInv'
    BY <1>11, <2>1 DEF Collect, UseInv, GoroutinesInv, Typed, processVars
  <2>4. CallbacksInv'
    BY <1>11 DEF UseInv, CallbacksInv, processVars, producerVars
  <2> QED
    BY <2>2, <2>3, <2>4 DEF UseInv
<1>12. CASE NewClient /\ UNCHANGED serviceVars
  BY <1>12, MainMoves DEF NewClient, ReturnFromRun, Ending
<1>13. CASE Generate /\ UNCHANGED serviceVars
  BY <1>13, MainMoves DEF Generate, ReturnFromRun, Ending, UseInv, CallbacksInv
<1>14. CASE Produce /\ UNCHANGED serviceVars
  <2>1. Reported' = Reported
    BY <1>14 DEF Reported, serviceVars
  <2>2. Typed'
    BY <1>14, AmountAssumption DEF Produce, UseInv, Typed, serviceVars
  <2>3. GoroutinesInv'
    BY <1>14, <2>1 DEF Produce, UseInv, GoroutinesInv, serviceVars, processVars
  <2>4. CallbacksInv'
    BY <1>14 DEF Produce, UseInv, CallbacksInv, processVars
  <2> QED
    BY <2>2, <2>3, <2>4 DEF UseInv
<1>15. CASE EndOfLoop /\ UNCHANGED serviceVars
  BY <1>15, MainMoves DEF EndOfLoop, Ending
<1>16. CASE JoinErrors /\ UNCHANGED serviceVars
  BY <1>16, MainMoves DEF JoinErrors, ReturnFromRun, Ending
<1>17. CASE Answers
  <2>1. PICK i \in inFlight : Answer(i)
    BY <1>17 DEF Answers
  <2>2. Reported' = Reported
    BY <1>17 DEF Answers, Reported, serviceVars
  <2>3. Typed'
    BY <1>17, <2>1 DEF Answers, Answer, UseInv, Typed, serviceVars
  <2>4. GoroutinesInv'
    BY <1>17, <2>1, <2>2 DEF Answers, Answer, UseInv, GoroutinesInv, serviceVars, processVars
  <2>5. CallbacksInv'
    BY <2>1 DEF Answer, UseInv, CallbacksInv, processVars
  <2> QED
    BY <2>3, <2>4, <2>5 DEF UseInv
<1>18. ASSUME NEW c \in Consumers, Goroutine(c), UNCHANGED producerVars
       PROVE  UseInv'
  <2>1. UNCHANGED <<main, released, team, collected>>
    BY <1>18 DEF Goroutine, NewConsumer, NewConsumerFails, StopPolling, Report, Close, processVars
  <2>2. CallbacksInv'
    BY <1>18, <2>1 DEF UseInv, CallbacksInv, producerVars
  <2>3. CASE NewConsumer(c)
    <3>1. Typed' /\ Reported' = Reported
      BY <1>18, <2>1, <2>3 DEF NewConsumer, At, UseInv, Typed, Reported, producerVars
    <3>2. GoroutinesInv'
      BY <2>1, <2>3, <3>1 DEF NewConsumer, At, UseInv, Typed, GoroutinesInv
    <3> QED
      BY <2>2, <3>1, <3>2 DEF UseInv
  <2>4. ASSUME loop[c] \in {"creating", "polling"}, queued' = queued + 1,
               NEW state \in {"closing", "closed"}, At(c, state)
        PROVE  UseInv'
    <3>1. Cardinality(Reported') = Cardinality(Reported) + 1
      BY <2>4, OneMoreReport DEF At, UseInv
    <3>2. Typed'
      BY <1>18, <2>1, <2>4 DEF At, UseInv, Typed, producerVars
    <3>3. GoroutinesInv'
      <4>1. queued' + collected' = Cardinality(Reported')
        BY <2>1, <2>4, <3>1 DEF UseInv, GoroutinesInv, Typed
      <4> QED
        BY <2>1, <2>4, <4>1 DEF At, UseInv, GoroutinesInv, Typed
    <3> QED
      BY <2>2, <3>2, <3>3 DEF UseInv
  <2>5. CASE NewConsumerFails(c)
    BY <2>4, <2>5 DEF NewConsumerFails, Report
  <2>6. CASE StopPolling(c)
    BY <2>4, <2>6 DEF StopPolling, Report
  <2>7. CASE Close(c)
    <3>1. Typed' /\ Reported' = Reported
      BY <1>18, <2>1, <2>7 DEF Close, At, UseInv, Typed, Reported, producerVars
    <3>2. GoroutinesInv'
      BY <2>1, <2>7, <3>1 DEF Close, At, UseInv, Typed, GoroutinesInv
    <3> QED
      BY <2>2, <3>1, <3>2 DEF UseInv
  <2> QED
    BY <1>18, <2>3, <2>5, <2>6, <2>7 DEF Goroutine
<1>19. CASE Signal /\ UNCHANGED <<serviceVars, producerVars>>
  <2>1. Reported' = Reported
    BY <1>19 DEF Reported, serviceVars
  <2> QED
    BY <1>19, <2>1 DEF Signal, UseInv, Typed, GoroutinesInv, CallbacksInv, serviceVars, producerVars
<1>20. CASE UNCHANGED vars
  <2>1. Reported' = Reported
    BY <1>20 DEF Reported, vars, serviceVars
  <2> QED
    BY <1>20, <2>1 DEF vars, UseInv, Typed, GoroutinesInv, CallbacksInv, processVars, serviceVars, producerVars
<1> QED
  BY <1>2, <1>3, <1>4, <1>5, <1>6, <1>7, <1>8, <1>9, <1>10, <1>11, <1>12, <1>13, <1>14, <1>15,
     <1>16, <1>17, <1>18, <1>19, <1>20
     DEF Next, Main, Bootstrap, Unwind, ServiceMain, ProducerMain, Exited

LEMMA UseSuffices == UseInv => ResourcesOutliveUse
BY DEF UseInv, GoroutinesInv, CallbacksInv, ResourcesOutliveUse, InUse, Ending

\* Whatever step of whatever command fails, and whenever a signal comes, nothing is released
\* and the process does not exit while a consumer is created or polls, or a callback is
\* outstanding (runner.go:31-37, tx-producer/main.go:123-131).
THEOREM NothingReleasedInUse == Spec => []ResourcesOutliveUse
BY UseInit, UseStep, UseSuffices, PTL DEF Spec

-----------------------------------------------------------------------------
\* Each command has its own stages of main.
StagesInv ==
    /\ program \in {"service", "producer"} /\ code \in {0, 1}
    /\ main \in {"pool", "migrate", "run"} => program = "service"
    /\ main \in {"client", "generate", "produce", "drain"} => program = "producer"

\* Each record given to the client waits for its callback, or is acknowledged, or failed;
\* none is given before produce.
AnswersInv ==
    /\ inFlight \cup delivered \cup errs = 1 .. given
    /\ delivered \cap errs = {} /\ inFlight \cap (delivered \cup errs) = {}
    /\ given # 0 => main \in {"produce", "drain"} \cup Ending

\* What the exit code says once run() has returned.
CodeInv ==
    main \in Ending =>
        /\ code = 0 => IF program = "producer" THEN delivered = Produced ELSE team = {}
        /\ code = 1 /\ program = "producer" /\ Amount > 0 => delivered # Produced

ExitInv == UseInv /\ StagesInv /\ AnswersInv /\ CodeInv

LEMMA ExitInit == Init => ExitInv
<1>1. SUFFICES ASSUME Init PROVE ExitInv
  OBVIOUS
<1>2. StagesInv /\ CodeInv
  BY <1>1 DEF Init, ProcessInit, StagesInv, CodeInv, Ending
<1>3. AnswersInv
  BY <1>1 DEF Init, ProducerInit, AnswersInv
<1> QED
  BY <1>1, <1>2, <1>3, UseInit DEF ExitInv

\* A step that fails before produce has acknowledged nothing.
LEMMA FailsEarly ==
    ASSUME ExitInv, main \notin {"produce", "drain"} \cup Ending, UNCHANGED producerVars,
           main' \in Ending, code' = 1
    PROVE  AnswersInv' /\ CodeInv'
<1>1. given = 0 /\ delivered = {}
  BY DEF ExitInv, AnswersInv, UseInv, Typed
<1>2. Amount > 0 => delivered # Produced
  BY <1>1, AmountAssumption DEF Produced
<1>3. CodeInv'
  BY <1>2, AmountAssumption DEF CodeInv, Produced, producerVars
<1>4. AnswersInv'
  BY <1>1 DEF ExitInv, AnswersInv, producerVars
<1> QED
  BY <1>3, <1>4

LEMMA ExitStep == ExitInv /\ [Next]_vars => ExitInv'
<1>1. SUFFICES ASSUME ExitInv, [Next]_vars PROVE StagesInv' /\ AnswersInv' /\ CodeInv'
  BY UseStep DEF ExitInv
<1> USE <1>1
<1>2. CASE UNCHANGED <<processVars, serviceVars, producerVars>>
  BY <1>2 DEF ExitInv, StagesInv, AnswersInv, CodeInv, processVars, serviceVars, producerVars
<1>3. ASSUME UNCHANGED producerVars, program' = program,
             main \notin {"produce", "drain"} \cup Ending, main' \in Ending, code' = 1
      PROVE  StagesInv' /\ AnswersInv' /\ CodeInv'
  BY <1>3, FailsEarly DEF ExitInv, StagesInv, Ending
<1>4. ASSUME UNCHANGED <<program, code>>, UNCHANGED producerVars, main' \notin Ending,
             main \notin {"produce", "drain"} \cup Ending, StagesInv'
      PROVE  StagesInv' /\ AnswersInv' /\ CodeInv'
  BY <1>4 DEF ExitInv, AnswersInv, CodeInv, producerVars
<1>5. CASE ReadConfig /\ UNCHANGED <<serviceVars, producerVars>>
  BY <1>3, <1>4, <1>5 DEF ReadConfig, ReturnFromRun, Ending, ExitInv, StagesInv
<1>6. CASE SkipSdk /\ UNCHANGED <<serviceVars, producerVars>>
  BY <1>4, <1>6 DEF SkipSdk, AfterSdk, Ending, ExitInv, StagesInv
<1>7. CASE AcquireSdkPart /\ UNCHANGED <<serviceVars, producerVars>>
  BY <1>4, <1>7 DEF AcquireSdkPart, AfterSdk, Ending, ExitInv, StagesInv
<1>8. CASE SdkFails /\ UNCHANGED <<serviceVars, producerVars>>
  BY <1>3, <1>8 DEF SdkFails, ReturnFromRun, Ending
<1>9. CASE ReleaseLast /\ UNCHANGED <<serviceVars, producerVars>>
  BY <1>9 DEF ReleaseLast, ExitInv, StagesInv, AnswersInv, CodeInv, serviceVars, producerVars
<1>10. CASE Exit /\ UNCHANGED <<serviceVars, producerVars>>
  BY <1>10 DEF Exit, Ending, ExitInv, StagesInv, AnswersInv, CodeInv, serviceVars, producerVars
<1>11. CASE NewPool /\ UNCHANGED producerVars
  BY <1>3, <1>4, <1>11 DEF NewPool, ReturnFromRun, Ending, ExitInv, StagesInv
<1>12. CASE Migrate /\ UNCHANGED producerVars
  BY <1>3, <1>4, <1>12 DEF Migrate, ReturnFromRun, Ending, ExitInv, StagesInv
<1>13. CASE Return /\ UNCHANGED producerVars
  <2>1. main = "run" /\ main' \in Ending /\ program = "service" /\ UNCHANGED <<program, team>>
    BY <1>13 DEF Return, ReturnFromRun, Ending, ExitInv, StagesInv, serviceVars
  <2>2. code' = 0 => team = {}
    <3>1. IsFiniteSet(team)
      BY ServiceAssumption, FS_Subset DEF ExitInv, UseInv, Typed
    <3>2. code' = 0 => Cardinality(team) = 0
      BY <1>13 DEF Return, ReturnFromRun, AllCollected
    <3> QED
      BY <3>1, <3>2, FS_EmptySet
  <2>3. code' \in {0, 1}
    BY <1>13 DEF Return, ReturnFromRun
  <2> QED
    BY <1>13, <2>1, <2>2, <2>3 DEF ExitInv, StagesInv, AnswersInv, CodeInv, producerVars, Ending
<1>14. CASE Collect /\ UNCHANGED processVars /\ UNCHANGED producerVars
  BY <1>14 DEF Collect, ExitInv, StagesInv, AnswersInv, CodeInv, processVars, producerVars
<1>15. CASE NewClient /\ UNCHANGED serviceVars
  BY <1>3, <1>4, <1>15 DEF NewClient, ReturnFromRun, Ending, ExitInv, StagesInv
<1>16. CASE Generate /\ UNCHANGED serviceVars
  <2>1. CASE ReturnFromRun(1)
    BY <1>3, <1>16, <2>1 DEF Generate, ReturnFromRun, Ending
  <2>2. CASE main' = "produce" /\ UNCHANGED code
    BY <1>16, <2>2 DEF Generate, Ending, ExitInv, StagesInv, AnswersInv, CodeInv, producerVars
  <2> QED
    BY <1>16, <2>1, <2>2 DEF Generate
<1>17. CASE Produce /\ UNCHANGED serviceVars
  <2>1. given \in Nat /\ given' = given + 1
    BY <1>17, AmountAssumption DEF Produce, ExitInv, UseInv, Typed
  <2>2. 1 .. given' = (1 .. given) \cup {given + 1} /\ given + 1 \notin 1 .. given
    BY <2>1
  <2>3. AnswersInv'
    BY <1>17, <2>1, <2>2 DEF Produce, ExitInv, AnswersInv, processVars, Ending
  <2> QED
    BY <1>17, <2>3 DEF Produce, ExitInv, StagesInv, CodeInv, processVars, Ending
<1>18. CASE EndOfLoop /\ UNCHANGED serviceVars
  BY <1>18 DEF EndOfLoop, ExitInv, StagesInv, AnswersInv, CodeInv, producerVars, Ending
<1>19. CASE JoinErrors /\ UNCHANGED serviceVars
  <2>1. program = "producer" /\ UNCHANGED <<program, producerVars>> /\ main' = "unwind"
    BY <1>19 DEF JoinErrors, ReturnFromRun, ExitInv, StagesInv
  <2>2. delivered \cup errs = 1 .. given /\ delivered \cap errs = {} /\ given \in 0 .. Amount
    BY <1>19 DEF JoinErrors, ExitInv, AnswersInv, UseInv, Typed
  <2>3. delivered = Produced <=> errs = {} /\ given = Amount
    <3>1. given # Amount => Amount \in Produced /\ Amount \notin 1 .. given
      BY <2>2, AmountAssumption DEF Produced
    <3>2. given # Amount => delivered # Produced
      BY <2>2, <3>1
    <3> QED
      BY <2>2, <3>2 DEF Produced
  <2>4. code' = IF delivered = Produced THEN 0 ELSE 1
    BY <1>19, <2>3 DEF JoinErrors, ReturnFromRun
  <2> QED
    BY <1>19, <2>1, <2>4 DEF ExitInv, StagesInv, AnswersInv, CodeInv, producerVars, Produced, Ending
<1>20. CASE Answers
  <2>1. PICK i \in inFlight : Answer(i)
    BY <1>20 DEF Answers
  <2>2. main \in {"produce", "drain"} /\ UNCHANGED <<main, program, code, given>>
    BY <2>1 DEF Answer, ExitInv, UseInv, CallbacksInv, processVars
  <2>3. AnswersInv'
    <3>1. i \in inFlight /\ inFlight' = inFlight \ {i}
      BY <2>1 DEF Answer
    <3>2. inFlight' \cup delivered' \cup errs' = 1 .. given'
      BY <2>1, <2>2, <3>1 DEF Answer, ExitInv, AnswersInv
    <3>3. CASE delivered' = delivered \cup {i} /\ errs' = errs
      BY <2>2, <3>1, <3>2, <3>3 DEF ExitInv, AnswersInv
    <3>4. CASE errs' = errs \cup {i} /\ delivered' = delivered
      BY <2>2, <3>1, <3>2, <3>4 DEF ExitInv, AnswersInv
    <3> QED
      BY <2>1, <3>3, <3>4 DEF Answer
  <2> QED
    BY <2>2, <2>3 DEF ExitInv, StagesInv, CodeInv, Ending
<1>21. ASSUME NEW c \in Consumers, Goroutine(c), UNCHANGED producerVars
       PROVE  StagesInv' /\ AnswersInv' /\ CodeInv'
  <2>1. UNCHANGED <<processVars, team>>
    BY <1>21 DEF Goroutine, NewConsumer, NewConsumerFails, StopPolling, Report, Close
  <2> QED
    BY <1>21, <2>1 DEF ExitInv, StagesInv, AnswersInv, CodeInv, processVars, producerVars
<1>22. CASE Signal /\ UNCHANGED <<serviceVars, producerVars>>
  BY <1>22 DEF Signal, ExitInv, StagesInv, AnswersInv, CodeInv, serviceVars, producerVars
<1> QED
  BY <1>2, <1>5, <1>6, <1>7, <1>8, <1>9, <1>10, <1>11, <1>12, <1>13, <1>14, <1>15,
     <1>16, <1>17, <1>18, <1>19, <1>20, <1>21, <1>22
     DEF Next, Main, Bootstrap, Unwind, ServiceMain, ProducerMain, Exited, vars

LEMMA ExitSuffices == ExitInv => ExitCodeTells
BY DEF ExitInv, CodeInv, ExitCodeTells, Ending

\* The exit code of every command tells whether it did its work, for any number of records
\* and consumers and any failures (tx-producer/main.go:104-152, runner.go:30-37).
THEOREM ExitCodeAlwaysTells == Spec => []ExitCodeTells
BY ExitInit, ExitStep, ExitSuffices, PTL DEF Spec

-----------------------------------------------------------------------------
(* What is open, and in which order it is released.                        *)

\* Only parts of the SDK are open, in the order in which they are acquired.
OnlySdk == \A n \in 1 .. Len(open) : n =< 4 /\ open[n] = SdkParts[n]

\* A pool or a client is open, on top of the whole SDK or of nothing.
OnTop ==
    /\ Len(open) \in {1, 5} /\ open[Len(open)] \in {"pool", "client"}
    /\ \A n \in 1 .. Len(open) - 1 : open[n] = SdkParts[n]

OpenInv ==
    /\ open \in Seq(Resources) /\ released \subseteq Resources
    /\ OnlySdk \/ OnTop
    /\ main = "config" => open = <<>>
    /\ main = "otel" => OnlySdk /\ Len(open) < 4
    /\ main \in {"pool", "client"} => OnlySdk /\ Len(open) \in {0, 4}
    /\ released # {} => main \in Ending
    /\ released \cap Range(SdkParts) # {} => OnlySdk
    /\ "connection" \in released => open = <<>>

LEMMA Parts ==
    /\ Len(SdkParts) = 4 /\ DOMAIN SdkParts = 1 .. 4
    /\ SdkParts[1] = "connection" /\ SdkParts[2] = "tracer"
    /\ SdkParts[3] = "meter" /\ SdkParts[4] = "logger"
    /\ Range(SdkParts) = {"connection", "tracer", "meter", "logger"}
    /\ Resources = {"connection", "tracer", "meter", "logger", "pool", "client"}
<1>1. /\ Len(SdkParts) = 4 /\ DOMAIN SdkParts = 1 .. 4
      /\ SdkParts[1] = "connection" /\ SdkParts[2] = "tracer"
      /\ SdkParts[3] = "meter" /\ SdkParts[4] = "logger"
  BY DEF SdkParts
<1>2. Range(SdkParts) = {"connection", "tracer", "meter", "logger"}
  BY <1>1 DEF Range
<1> QED
  BY <1>1, <1>2 DEF Resources

\* Something more is acquired.
LEMMA Acquires ==
    ASSUME OpenInv, NEW r \in Resources, open' = Append(open, r), released' = released,
           main \notin Ending, OnlySdk, main' \notin {"config"},
           \/ /\ Len(open) < 4 /\ r = SdkParts[Len(open) + 1]
              /\ main' \in {"otel", "pool", "client"}
              /\ IF Len(open) < 3 THEN main' = "otel" ELSE main' # "otel"
           \/ /\ Len(open) \in {0, 4} /\ r \in {"pool", "client"}
              /\ main' \notin {"otel", "pool", "client"}
    PROVE  OpenInv'
<1>1. /\ open' \in Seq(Resources) /\ Len(open') = Len(open) + 1 /\ open'[Len(open) + 1] = r
      /\ \A n \in 1 .. Len(open) : open'[n] = open[n]
      /\ Len(open) \in Nat
  BY DEF OpenInv
<1>2. released = {} /\ released' = {}
  BY DEF OpenInv
<1>3. CASE Len(open) < 4 /\ r = SdkParts[Len(open) + 1]
  <2>1. OnlySdk'
    BY <1>1, <1>3 DEF OnlySdk
  <2>2. main' \in {"otel", "pool", "client"} => IF Len(open') < 4 THEN main' = "otel" ELSE main' # "otel"
    BY <1>1, <1>3, Parts
  <2> QED
    BY <1>1, <1>2, <1>3, <2>1, <2>2, Parts DEF OpenInv
<1>4. CASE Len(open) \in {0, 4} /\ r \in {"pool", "client"}
  <2>1. OnTop'
    BY <1>1, <1>4 DEF OnlySdk, OnTop
  <2> QED
    BY <1>1, <1>2, <1>4, <2>1, Parts DEF OpenInv
<1> QED
  BY <1>3, <1>4

LEMMA EmptySequence == \A S : \A s \in Seq(S) : Len(s) = 0 => s = <<>>
OBVIOUS

LEMMA Releases ==
    ASSUME OpenInv, ReleaseLast
    PROVE  OpenInv'
<1>1. /\ open \in Seq(Resources) /\ open # <<>> /\ main' = main /\ main \in Ending
      /\ released' = released \cup {Last(open)} /\ open' = Front(open)
  BY DEF OpenInv, ReleaseLast, Ending
<1>2. Len(open) \in Nat \ {0} /\ Last(open) = open[Len(open)] /\ open[Len(open)] \in Resources
  BY <1>1 DEF Last
<1>3. /\ open' \in Seq(Resources) /\ Len(open') = Len(open) - 1
      /\ \A n \in 1 .. Len(open) - 1 : open'[n] = open[n]
  <2>1. open' = SubSeq(open, 1, Len(open) - 1)
    BY <1>1 DEF Front
  <2> DEFINE k == Len(open) - 1
  <2>2. k \in Nat /\ k + 1 = Len(open)
    BY <1>2
  <2>3. Len(open') = k
    BY <1>1, <2>1, <2>2
  <2>4. \A n \in 1 .. k : open'[n] = open[n]
    BY <1>1, <2>1, <2>2
  <2>5. open' \in Seq(Resources)
    <3>1. \A n \in 1 .. k : open[n] \in Resources
      BY <1>1, <2>2
    <3>2. open' = [n \in 1 .. k |-> open[n]]
      BY <1>1, <2>1, <2>2
    <3> QED
      BY <2>2, <3>1, <3>2
  <2> QED
    BY <2>2, <2>3, <2>4, <2>5
<1>4. OnlySdk'
  <2>1. CASE OnlySdk
    BY <1>2, <1>3, <2>1 DEF OnlySdk
  <2>2. CASE OnTop
    BY <1>2, <1>3, <2>2 DEF OnlySdk, OnTop
  <2> QED
    BY <2>1, <2>2 DEF OpenInv
<1>5. Last(open) = "connection" => open' = <<>>
  <2>1. ASSUME Last(open) = "connection" PROVE Len(open) = 1
    <3>1. CASE OnlySdk
      <4>1. Len(open) =< 4 /\ open[Len(open)] = SdkParts[Len(open)]
        BY <1>2, <3>1 DEF OnlySdk
      <4> DEFINE n == Len(open)
      <4>2. n \in Nat \ {0} /\ n =< 4
        BY <1>2, <4>1
      <4> HIDE DEF n
      <4>3. n \in {1, 2, 3, 4}
        BY <4>2
      <4> QED
        BY <1>2, <2>1, <4>1, <4>3, Parts DEF n
    <3>2. CASE OnTop
      BY <1>2, <2>1, <3>2 DEF OnTop
    <3> QED
      BY <3>1, <3>2 DEF OpenInv
  <2>2. Len(open') = 0 => open' = <<>>
    BY <1>3, EmptySequence
  <2> QED
    BY <1>2, <1>3, <2>1, <2>2
<1>6. "connection" \in released => FALSE
  BY <1>1 DEF OpenInv
<1> QED
  BY <1>1, <1>2, <1>3, <1>4, <1>5, <1>6 DEF OpenInv, Ending

LEMMA OpenStep == OpenInv /\ [Next]_vars => OpenInv'
<1>1. SUFFICES ASSUME OpenInv, [Next]_vars PROVE OpenInv'
  OBVIOUS
<1> USE <1>1
<1>2. ASSUME UNCHANGED <<open, released>>, main \in Ending => main' \in Ending,
             main' \in {"config", "otel", "pool", "client"} =>
                 main' = main \/ (main = "config" /\ main' = "otel")
      PROVE  OpenInv'
  BY <1>2 DEF OpenInv, OnlySdk, OnTop, Ending
<1>3. CASE ReadConfig
  BY <1>2, <1>3 DEF ReadConfig, ReturnFromRun, Ending
<1>4. CASE SkipSdk
  BY <1>4 DEF SkipSdk, AfterSdk, OpenInv, OnlySdk, OnTop, Ending
<1>5. CASE AcquireSdkPart
  <2>1. /\ main = "otel" /\ OnlySdk /\ Len(open) < 4 /\ Len(open) \in Nat /\ released' = released
        /\ open' = Append(open, SdkParts[Len(open) + 1])
        /\ main' = IF Len(open') = Len(SdkParts) THEN AfterSdk ELSE main
    BY <1>5 DEF AcquireSdkPart, OpenInv
  <2>2. SdkParts[Len(open) + 1] \in Resources
    BY <2>1, Parts
  <2>3. Len(open') = Len(open) + 1
    BY <2>1, <2>2 DEF OpenInv
  <2>4. /\ main' \in {"otel", "pool", "client"}
        /\ IF Len(open) < 3 THEN main' = "otel" ELSE main' # "otel"
    BY <2>1, <2>3, Parts DEF AfterSdk
  <2> QED
    BY <2>1, <2>2, <2>4, Acquires DEF Ending
<1>6. CASE NewPool \/ NewClient
  <2>1. CASE UNCHANGED open
    BY <1>2, <1>6, <2>1 DEF NewPool, NewClient, ReturnFromRun, Ending
  <2>2. PICK r \in {"pool", "client"} :
           (open' = Append(open, r) /\ main' \in {"migrate", "generate"}) \/ UNCHANGED open
    BY <1>6 DEF NewPool, NewClient
  <2>3. main \in {"pool", "client"} /\ released' = released
    BY <1>6 DEF NewPool, NewClient
  <2>4. r \in Resources
    BY Parts
  <2> QED
    BY <2>1, <2>2, <2>3, <2>4, Acquires DEF OpenInv, Ending
<1>7. CASE ReleaseLast
  BY <1>7, Releases
<1>8. CASE Exit \/ SdkFails \/ Migrate \/ Return \/ Generate \/ Produce \/ EndOfLoop \/ JoinErrors \/ Signal
  BY <1>2, <1>8 DEF Exit, SdkFails, Migrate, Return, Generate, Produce, EndOfLoop, JoinErrors, Signal,
                    ReturnFromRun, Ending, processVars
<1>9. ASSUME UNCHANGED processVars PROVE OpenInv'
  BY <1>2, <1>9 DEF processVars
<1>10. (\E i \in inFlight : Answer(i)) \/ (\E c \in Consumers : Goroutine(c)) => UNCHANGED processVars
  BY DEF Answer, Goroutine
<1> QED
  BY <1>3, <1>4, <1>5, <1>6, <1>7, <1>8, <1>9, <1>10
     DEF Next, Main, Answers, Bootstrap, Unwind, ServiceMain, ProducerMain, Exited, vars

\* Whatever start-up step fails, the exporters are shut down before the connection they
\* export over, and the pool and the client before them (otelinit.go:26-84 and 212-220).
THEOREM AlwaysReleasedInReverse ==
    Spec => []ReleasedInReverse
<1>1. Init => OpenInv
  BY DEF Init, ProcessInit, OpenInv, OnlySdk, Ending
<1>2. OpenInv => ReleasedInReverse
  <2> SUFFICES ASSUME OpenInv PROVE ReleasedInReverse
    OBVIOUS
  <2>1. "connection" \in released => Range(open) = {}
    BY DEF OpenInv, Range
  <2>2. ASSUME OnlySdk PROVE {"pool", "client"} \cap Range(open) = {}
    <3>1. \A n \in 1 .. Len(open) : open[n] \notin {"pool", "client"}
      BY <2>2, Parts DEF OnlySdk, OpenInv
    <3>2. DOMAIN open = 1 .. Len(open)
      BY DEF OpenInv
    <3> QED
      BY <3>1, <3>2 DEF Range
  <2> QED
    BY <2>1, <2>2 DEF ReleasedInReverse, OpenInv
<1> QED
  BY <1>1, <1>2, OpenStep, PTL DEF Spec

-----------------------------------------------------------------------------
(* Types.                                                                  *)

FlagsTyped ==
    /\ main \in Stages /\ signalled \in BOOLEAN /\ runCancelled \in BOOLEAN /\ rate \in BOOLEAN

LEMMA FlagsStep == FlagsTyped /\ [Next]_vars => FlagsTyped'
<1>1. SUFFICES ASSUME FlagsTyped, [Next]_vars PROVE FlagsTyped'
  OBVIOUS
<1> USE <1>1
<1>2. main' \in Stages
  BY DEF FlagsTyped, Stages, Next, Main, Answers, Answer, Goroutine, Exited, vars, processVars, Signal,
         Bootstrap, ReadConfig, SkipSdk, AcquireSdkPart, SdkFails, AfterSdk, ReturnFromRun,
         Unwind, ReleaseLast, Exit, ServiceMain, NewPool, Migrate, Return,
         ProducerMain, NewClient, Generate, Produce, EndOfLoop, JoinErrors
<1>3. signalled' \in BOOLEAN
  BY DEF FlagsTyped, Next, Main, Answers, Answer, Goroutine, Exited, vars, processVars, Signal,
         Bootstrap, ReadConfig, SkipSdk, AcquireSdkPart, SdkFails,
         Unwind, ReleaseLast, Exit, ServiceMain, NewPool, Migrate, Return,
         ProducerMain, NewClient, Generate, Produce, EndOfLoop, JoinErrors
<1>4. runCancelled' \in BOOLEAN
  BY DEF FlagsTyped, Next, Main, Answers, Goroutine, Exited, vars, serviceVars, Signal,
         NewConsumer, NewConsumerFails, StopPolling, Report, Close,
         ServiceMain, NewPool, Migrate, Return, Collect
<1>5. rate' \in BOOLEAN
  BY DEF FlagsTyped, Next, Main, Answers, Answer, Exited, vars, producerVars,
         ProducerMain, NewClient, Generate, Produce, EndOfLoop, JoinErrors
<1> QED
  BY <1>2, <1>3, <1>4, <1>5 DEF FlagsTyped

LEMMA TypesSuffice == ExitInv /\ OpenInv /\ FlagsTyped => TypeOK
<1>1. SUFFICES ASSUME ExitInv, OpenInv, FlagsTyped PROVE TypeOK
  OBVIOUS
<1> USE <1>1
<1>2. ProcessTypeOK
  <2>1. Range(open) \subseteq Resources
    BY DEF OpenInv, Range
  <2> QED
    BY <2>1 DEF ProcessTypeOK, FlagsTyped, ExitInv, StagesInv, OpenInv
<1>3. ServiceTypeOK
  <2>1. IsFiniteSet(team) /\ Reported \subseteq team
    BY ServiceAssumption, FS_Subset DEF ExitInv, UseInv, Typed, GoroutinesInv, Reported
  <2>2. Cardinality(Reported) =< Cardinality(team) /\ Cardinality(team) \in Nat
    BY <2>1, FS_Subset, FS_CardinalityType
  <2>3. queued \in Nat /\ collected \in Nat /\ queued + collected =< Cardinality(team)
    BY <2>2 DEF ExitInv, UseInv, Typed, GoroutinesInv
  <2>4. queued \in 0 .. Cardinality(team) /\ collected \in 0 .. Cardinality(team)
    BY <2>2, <2>3
  <2> QED
    BY <2>4 DEF ServiceTypeOK, ExitInv, UseInv, Typed, FlagsTyped
<1>4. ProducerTypeOK
  <2>1. given \in 0 .. Amount /\ 1 .. given \subseteq Produced
    BY AmountAssumption DEF ExitInv, UseInv, Typed, Produced
  <2> QED
    BY <2>1 DEF ProducerTypeOK, FlagsTyped, ExitInv, AnswersInv
<1> QED
  BY <1>2, <1>3, <1>4 DEF TypeOK

\* The state of every command stays what the code declares: errCh never holds more reports
\* than it has room for, and no callback is called for a record that was not given
\* (runner.go:12-37, tx-producer/main.go:104-131).
THEOREM ProgramTypes == Spec => []TypeOK
<1>1. Init => OpenInv
  BY DEF Init, ProcessInit, OpenInv, OnlySdk, Ending
<1>2. Init => FlagsTyped
  BY DEF Init, ProcessInit, ServiceInit, ProducerInit, FlagsTyped, Stages
<1> QED
  BY <1>1, <1>2, ExitInit, ExitStep, OpenStep, FlagsStep, TypesSuffice, PTL DEF Spec

=============================================================================
