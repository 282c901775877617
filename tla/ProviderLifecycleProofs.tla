---------------------- MODULE ProviderLifecycleProofs ----------------------
(***************************************************************************)
(* Provider.Shutdown, for any number of goroutines and calls: every caller *)
(* gets the one answer, and it is true. That later callers know what the   *)
(* first one found follows from where the one inside the once stands: the  *)
(* invariant says what it has stopped by then, and that it is alone.       *)
(***************************************************************************)
EXTENDS ProviderLifecycle, TLAPS

Inside(c) == pc[c] \in {"stop_tracer", "stop_meter", "stop_done"}

\* Every owned pipeline was asked, once, and no other.
AllAsked == \A p \in Pipelines : attempts[p] = IF p \in owned THEN 1 ELSE 0

\* sync.Once: who is inside is alone, and nobody is answered before it is done.
Once ==
  /\ \A c \in Callers : Inside(c) => once = "running"
  /\ \A c, d \in Callers : Inside(c) /\ Inside(d) => c = d
  /\ \A c \in Callers : pc[c] = "return" => once = "done"
  /\ log # {} \/ panicked => once = "done"

\* What was stopped when the function of the once stands somewhere, and what the
\* goroutine running it knows of it.
Progress ==
  /\ once = "idle" => attempts = [p \in Pipelines |-> 0] /\ failed = {}
  /\ once # "done" => shutdownErr = {}
  /\ \A c \in Callers :
       /\ pc[c] = "once" => errs[c] = {}
       /\ Inside(c) => errs[c] = failed
       /\ pc[c] = "stop_tracer" => attempts = [p \in Pipelines |-> 0]
       /\ pc[c] = "stop_meter" =>
            attempts["tracer"] = (IF "tracer" \in owned THEN 1 ELSE 0) /\ attempts["meter"] = 0
       /\ pc[c] = "stop_done" => AllAsked

\* After the once: its error is the failures there were, unless it panicked.
Answer == once = "done" /\ ~panicked => AllAsked /\ shutdownErr = failed

IInv ==
  /\ TypeOK /\ FailuresAreTold /\ StoppedAtMostOnce /\ BorrowedUntouched
  /\ Once /\ Progress /\ Answer

\* The invariant is enough: whoever is answered is answered after the once, so
\* what the once promises at its end holds of every answer.
LEMMA InvariantSuffices == IInv => AnswersAreComplete
<1> SUFFICES ASSUME IInv PROVE AnsweredMeansStopped
  BY DEF IInv, AnswersAreComplete
<1> QED
  BY DEF IInv, Once, Answer, AllAsked, AnsweredMeansStopped

LEMMA InvariantInit == Init => IInv
<1> SUFFICES ASSUME Init PROVE IInv
  OBVIOUS
<1>1. TypeOK
  <2>1. panicked \in BOOLEAN
    BY Zenon DEF Init
  <2> QED
    BY <2>1, MaxCallsAssumption DEF Init, TypeOK, Pipelines, Operations
<1>2. Once /\ Progress /\ Answer
  BY DEF Init, Once, Progress, Answer, Inside, AllAsked
<1>3. FailuresAreTold /\ StoppedAtMostOnce /\ BorrowedUntouched
  BY DEF Init, FailuresAreTold, StoppedAtMostOnce, BorrowedUntouched
<1> QED
  BY <1>1, <1>2, <1>3 DEF IInv

\* The definitions a step of a caller is made of.
USE DEF Go, history, Pipelines, Operations

\* Invoking, waiting and flushing touch nothing the once is about.
LEMMA OutsideSteps ==
  ASSUME IInv, NEW c \in Callers,
         \/ Invoke(c) \/ Enter(c) \/ Pass(c) \/ \E p \in Pipelines : Flush(c, p)
  PROVE  IInv'
<1>1. TypeOK
  BY DEF IInv
<1>2. CASE Invoke(c)
  <2>1. TypeOK'
    BY <1>1, <1>2, MaxCallsAssumption DEF TypeOK, Invoke
  <2>2. (FailuresAreTold /\ StoppedAtMostOnce /\ BorrowedUntouched)'
    BY <1>2 DEF IInv, Invoke, FailuresAreTold, StoppedAtMostOnce, BorrowedUntouched
  <2>3. Once' /\ Progress' /\ Answer'
    BY <1>1, <1>2 DEF IInv, Invoke, TypeOK, Once, Progress, Answer, Inside, AllAsked
  <2> QED
    BY <2>1, <2>2, <2>3 DEF IInv
<1>3. CASE Enter(c)
  <2>1. TypeOK'
    BY <1>1, <1>3 DEF TypeOK, Enter
  <2>2. (FailuresAreTold /\ StoppedAtMostOnce /\ BorrowedUntouched)'
    BY <1>3 DEF IInv, Enter, FailuresAreTold, StoppedAtMostOnce, BorrowedUntouched
  <2>3. \A d \in Callers : d # c => ~Inside(d) /\ pc'[d] = pc[d]
    BY <1>1, <1>3 DEF IInv, Enter, TypeOK, Once
  <2>4. pc'[c] = "stop_tracer" /\ log = {} /\ ~panicked /\ once = "idle"
    BY <1>1, <1>3 DEF IInv, Enter, TypeOK, Once
  <2>5. Once' /\ Answer'
    BY <1>3, <2>3, <2>4 DEF IInv, Enter, Once, Answer, Inside
  <2>6. Progress'
    BY <1>3, <2>3, <2>4 DEF IInv, Enter, Progress, Inside
  <2> QED
    BY <2>1, <2>2, <2>5, <2>6 DEF IInv
<1>4. CASE Pass(c)
  <2>1. TypeOK'
    BY <1>1, <1>4 DEF TypeOK, Pass
  <2>2. (FailuresAreTold /\ StoppedAtMostOnce /\ BorrowedUntouched)'
    BY <1>4 DEF IInv, Pass, FailuresAreTold, StoppedAtMostOnce, BorrowedUntouched
  <2>3. Once' /\ Progress' /\ Answer'
    BY <1>1, <1>4 DEF IInv, Pass, TypeOK, Once, Progress, Answer, Inside, AllAsked
  <2> QED
    BY <2>1, <2>2, <2>3 DEF IInv
<1>5. ASSUME NEW p \in Pipelines, Flush(c, p)
      PROVE  IInv'
  <2>1. PICK reached \in Reaches(op[c], p) :
          flushed' = flushed \cup IF reached THEN {<<op[c], p>>} ELSE {}
    BY <1>5 DEF Flush
  <2>2. op[c] \in Operations /\ (reached => p \in owned \/ op[c] = "FlushDependencies")
    BY <1>1, <2>1 DEF TypeOK, Reaches
  <2>3. TypeOK'
    BY <1>1, <1>5, <2>1, <2>2 DEF TypeOK, Flush
  <2>4. (FailuresAreTold /\ StoppedAtMostOnce)' /\ BorrowedUntouched'
    BY <1>5, <2>1, <2>2 DEF IInv, Flush, FailuresAreTold, StoppedAtMostOnce, BorrowedUntouched
  <2>5. Once' /\ Progress' /\ Answer'
    BY <1>1, <1>5 DEF IInv, Flush, TypeOK, Once, Progress, Answer, Inside, AllAsked
  <2> QED
    BY <2>3, <2>4, <2>5 DEF IInv
<1> QED
  BY <1>2, <1>3, <1>4, <1>5

\* A pipeline is passed over, stopped, or panics: whoever does it is inside the
\* once, alone, and nobody asked this pipeline before.
LEMMA StoppingSteps ==
  ASSUME IInv, NEW c \in Callers, NEW p \in Pipelines,
         Skip(c, p) \/ Stop(c, p) \/ StopPanics(c, p)
  PROVE  IInv'
<1>1. TypeOK
  BY DEF IInv
<1>2. pc[c] = IF p = "tracer" THEN "stop_tracer" ELSE "stop_meter"
  BY DEF Skip, Stop, StopPanics, Stopping
<1>0. Stopped[p] = IF p = "tracer" THEN "stop_meter" ELSE "stop_done"
  BY DEF Stopped
<1>3. /\ Inside(c) /\ once = "running" /\ errs[c] = failed /\ attempts[p] = 0
      /\ log = {} /\ ~panicked /\ shutdownErr = {}
      /\ \A d \in Callers : d # c => ~Inside(d)
      /\ \A d \in Callers : pc[d] # "return"
  BY <1>1, <1>2 DEF IInv, Once, Progress, Inside, TypeOK
<1>4. CASE Skip(c, p)
  <2>1. pc' = [pc EXCEPT ![c] = IF p = "tracer" THEN "stop_meter" ELSE "stop_done"]
    BY <1>0, <1>4 DEF Skip
  <2>2. TypeOK'
    BY <1>1, <1>4, <2>1 DEF TypeOK, Skip
  <2>3. (FailuresAreTold /\ StoppedAtMostOnce /\ BorrowedUntouched)'
    BY <1>4 DEF IInv, Skip, FailuresAreTold, StoppedAtMostOnce, BorrowedUntouched
  <2>4. Once' /\ Progress' /\ Answer'
    BY <1>1, <1>2, <1>3, <1>4, <2>1 DEF IInv, Skip, TypeOK, Once, Progress, Answer, Inside, AllAsked
  <2> QED
    BY <2>2, <2>3, <2>4 DEF IInv
<1>5. CASE Stop(c, p)
  <2>1. /\ pc' = [pc EXCEPT ![c] = IF p = "tracer" THEN "stop_meter" ELSE "stop_done"]
        /\ attempts' = [attempts EXCEPT ![p] = 1]
    BY <1>0, <1>3, <1>5 DEF Stop
  <2>2. errs'[c] = failed' /\ \A d \in Callers : d # c => errs'[d] = errs[d]
    BY <1>1, <1>3, <1>5 DEF Stop, TypeOK
  <2>3. TypeOK'
    <3>1. failed' \subseteq owned /\ errs' \in [Callers -> SUBSET Pipelines]
      <4>1. CASE UNCHANGED <<errs, failed>>
        BY <1>1, <4>1 DEF TypeOK
      <4>2. CASE errs' = [errs EXCEPT ![c] = @ \cup {p}] /\ failed' = failed \cup {p}
        <5>1. p \in owned
          BY <1>5 DEF Stop
        <5>2. errs[c] \cup {p} \in SUBSET Pipelines
          BY <1>1 DEF TypeOK
        <5> QED
          BY <1>1, <4>2, <5>1, <5>2 DEF TypeOK
      <4> QED
        BY <1>5, <4>1, <4>2 DEF Stop
    <3>2. UNCHANGED <<owned, once, shutdownErr, op, calls, flushed, panicked, log>>
      BY <1>5 DEF Stop
    <3>3. attempts' \in [Pipelines -> Nat]
      BY <1>1, <2>1 DEF TypeOK
    <3>4. pc' \in [Callers -> {"idle", "once", "stop_tracer", "stop_meter", "stop_done",
                              "return", "flush_tracer", "flush_meter"}]
      BY <1>1, <2>1 DEF TypeOK
    <3> QED
      BY <1>1, <3>1, <3>2, <3>3, <3>4 DEF TypeOK
  <2>4. (FailuresAreTold /\ StoppedAtMostOnce /\ BorrowedUntouched)'
    BY <1>1, <1>3, <1>5, <2>1 DEF IInv, TypeOK, Stop, FailuresAreTold, StoppedAtMostOnce, BorrowedUntouched
  <2>5. Once' /\ Answer'
    BY <1>1, <1>3, <1>5, <2>1 DEF IInv, Stop, TypeOK, Once, Answer, Inside
  <2>6. Progress'
    BY <1>1, <1>2, <1>3, <1>5, <2>1, <2>2 DEF IInv, Stop, TypeOK, Progress, Inside, AllAsked
  <2> QED
    BY <2>3, <2>4, <2>5, <2>6 DEF IInv
<1>6. CASE StopPanics(c, p)
  <2>1. /\ pc' = [pc EXCEPT ![c] = "idle"]
        /\ attempts' = [attempts EXCEPT ![p] = 1]
    BY <1>1, <1>3, <1>6 DEF StopPanics, TypeOK
  <2>2. TypeOK'
    BY <1>1, <1>6, <2>1 DEF TypeOK, StopPanics
  <2>3. (FailuresAreTold /\ StoppedAtMostOnce /\ BorrowedUntouched)'
    BY <1>1, <1>6, <2>1 DEF IInv, TypeOK, StopPanics, FailuresAreTold, StoppedAtMostOnce, BorrowedUntouched
  <2>4. Once' /\ Progress' /\ Answer'
    BY <1>1, <1>3, <1>6, <2>1 DEF IInv, StopPanics, TypeOK, Once, Progress, Answer, Inside
  <2> QED
    BY <2>2, <2>3, <2>4 DEF IInv
<1> QED
  BY <1>4, <1>5, <1>6

\* The answer is assigned by the one inside, and read by those after it.
LEMMA AnsweringSteps ==
  ASSUME IInv, NEW c \in Callers, Finish(c) \/ Return(c)
  PROVE  IInv'
<1>1. TypeOK
  BY DEF IInv
<1>2. CASE Finish(c)
  <2>1. /\ Inside(c) /\ errs[c] = failed /\ AllAsked /\ shutdownErr = {} /\ ~panicked
        /\ \A d \in Callers : d # c => ~Inside(d)
    BY <1>2 DEF IInv, Finish, Once, Progress, Inside
  <2>2. shutdownErr' = failed /\ once' = "done"
    BY <1>2, <2>1 DEF Finish
  <2>3. TypeOK'
    BY <1>1, <1>2, <2>2 DEF TypeOK, Finish
  <2>4. (FailuresAreTold /\ StoppedAtMostOnce /\ BorrowedUntouched)'
    BY <1>2 DEF IInv, Finish, FailuresAreTold, StoppedAtMostOnce, BorrowedUntouched
  <2>5. Once' /\ Progress' /\ Answer'
    BY <1>1, <1>2, <2>1, <2>2 DEF IInv, Finish, TypeOK, Once, Progress, Answer, Inside, AllAsked
  <2> QED
    BY <2>3, <2>4, <2>5 DEF IInv
<1>3. CASE Return(c)
  <2>1. once = "done" /\ (~panicked => shutdownErr = failed)
    BY <1>3 DEF IInv, Return, Once, Answer
  <2>2. TypeOK'
    BY <1>1, <1>3 DEF TypeOK, Return
  <2>3. (FailuresAreTold /\ StoppedAtMostOnce /\ BorrowedUntouched)'
    BY <1>3, <2>1 DEF IInv, Return, FailuresAreTold, StoppedAtMostOnce, BorrowedUntouched
  <2>4. Once' /\ Progress' /\ Answer'
    BY <1>1, <1>3, <2>1 DEF IInv, Return, TypeOK, Once, Progress, Answer, Inside, AllAsked
  <2> QED
    BY <2>2, <2>3, <2>4 DEF IInv
<1> QED
  BY <1>2, <1>3

LEMMA InvariantStep == IInv /\ [Next]_vars => IInv'
<1> SUFFICES ASSUME IInv, [Next]_vars PROVE IInv'
  OBVIOUS
<1>1. ASSUME NEW c \in Callers, Invoke(c) \/ Step(c)
      PROVE  IInv'
  BY <1>1, OutsideSteps, StoppingSteps, AnsweringSteps DEF Step
<1>2. CASE UNCHANGED vars
  BY <1>2 DEF IInv, vars, TypeOK, FailuresAreTold, StoppedAtMostOnce, BorrowedUntouched,
              Once, Progress, Answer, Inside, AllAsked
<1> QED
  BY <1>1, <1>2 DEF Next

\* Whoever is answered by Shutdown knows that all owned pipelines were asked, once
\* each, and of every failure; borrowed ones are left alone.
THEOREM ShutdownIsComplete == Spec => []AnswersAreComplete
BY InvariantInit, InvariantStep, InvariantSuffices, PTL DEF Spec

-----------------------------------------------------------------------------
\* The answer of a once that has ended stands: no call, whatever its kind, changes
\* it or stops a pipeline again (metry.go).
THEOREM AnswerIsFinal ==
  Spec => [][once = "done" => UNCHANGED <<once, shutdownErr, attempts, failed>>]_vars
<1>1. IInv /\ [Next]_vars => [once = "done" => UNCHANGED <<once, shutdownErr, attempts, failed>>]_vars
  <2> SUFFICES ASSUME IInv, Next, once = "done"
               PROVE  UNCHANGED <<once, shutdownErr, attempts, failed>>
    OBVIOUS
  <2>1. PICK c \in Callers : Invoke(c) \/ Step(c)
    BY DEF Next
  <2>2. ~Inside(c)
    BY DEF IInv, Once
  <2> QED
    BY <2>1, <2>2 DEF Inside, Step, Invoke, Enter, Pass, Finish, Return, Skip, Stop, StopPanics, Flush,
                      Stopping
<1> QED
  BY <1>1, InvariantInit, InvariantStep, PTL DEF Spec
-----------------------------------------------------------------------------
\* What the callers of Shutdown see: one answer is decided when the once is done,
\* and each of them gets it.
FirstAnswer == INSTANCE Decisions WITH
  Keys <- {"shutdown"},
  Values <- SUBSET Pipelines,
  decided <- [k \in {"shutdown"} |-> IF once = "done" THEN {shutdownErr} ELSE {}],
  told <- {"shutdown"} \X log

\* The once is released, by its end or by a panic, and the answer is decided; or
\* somebody is answered; or nothing is seen from outside.
LEMMA StepOfFirstAnswer ==
  ASSUME IInv, [Next]_vars
  PROVE  [FirstAnswer!DecisionsNext]_FirstAnswer!decisionVars
<1> USE DEF FirstAnswer!DecisionsNext, FirstAnswer!Decide, FirstAnswer!Tell, FirstAnswer!decisionVars
<1>1. ASSUME NEW c \in Callers, Finish(c) \/ \E p \in Pipelines : StopPanics(c, p)
      PROVE  FirstAnswer!DecisionsNext
  <2>1. once = "running" /\ once' = "done" /\ shutdownErr' \in SUBSET Pipelines /\ log' = log
    BY <1>1, InvariantStep DEF IInv, Once, Inside, TypeOK, Finish, StopPanics, Stopping
  <2>2. FirstAnswer!Decide("shutdown", shutdownErr')
    BY <2>1
  <2> QED
    BY <2>1, <2>2
<1>2. ASSUME NEW c \in Callers, Return(c)
      PROVE  FirstAnswer!DecisionsNext
  <2>1. /\ once = "done" /\ UNCHANGED <<once, shutdownErr>> /\ shutdownErr \in SUBSET Pipelines
        /\ log' = log \cup {shutdownErr}
    BY <1>2 DEF IInv, Once, TypeOK, Return
  <2>2. FirstAnswer!Tell("shutdown", shutdownErr)
    BY <2>1
  <2> QED
    BY <2>1, <2>2
<1>3. ASSUME NEW c \in Callers,
             \/ Invoke(c) \/ Enter(c) \/ Pass(c)
             \/ \E p \in Pipelines : Skip(c, p) \/ Stop(c, p) \/ Flush(c, p)
      PROVE  UNCHANGED FirstAnswer!decisionVars
  <2>1. log' = log /\ (once = "done" <=> once' = "done") /\ shutdownErr' = shutdownErr
    BY <1>3 DEF Invoke, Enter, Pass, Skip, Stop, Flush
  <2> QED
    BY <2>1
<1>4. CASE UNCHANGED vars
  BY <1>4 DEF vars
<1> QED
  BY <1>1, <1>2, <1>3, <1>4 DEF Next, Step

\* However many goroutines race for it, Shutdown is one decision: made once, not
\* revised, and the answer of every caller (metry.go).
THEOREM ShutdownIsOneDecision == Spec => FirstAnswer!DecisionsSpec
<1>1. Init => FirstAnswer!DecisionsInit
  BY DEF Init, FirstAnswer!DecisionsInit
<1>2. IInv /\ [Next]_vars => [FirstAnswer!DecisionsNext]_FirstAnswer!decisionVars
  BY StepOfFirstAnswer
<1> QED
  BY <1>1, <1>2, InvariantInit, InvariantStep, PTL DEF Spec, FirstAnswer!DecisionsSpec
-----------------------------------------------------------------------------
\* As long as the once is running somebody runs it, who can always go on.
SomebodyInside == once = "running" => \E c \in Callers : Inside(c)

LEMMA SomebodyInsideStep == IInv /\ SomebodyInside /\ [Next]_vars => SomebodyInside'
<1> SUFFICES ASSUME IInv, SomebodyInside, [Next]_vars PROVE SomebodyInside'
  OBVIOUS
<1>1. ASSUME NEW c \in Callers, Enter(c) PROVE SomebodyInside'
  <2>1. pc'[c] = "stop_tracer"
    BY <1>1 DEF IInv, TypeOK, Enter
  <2> QED
    BY <2>1 DEF SomebodyInside, Inside
<1>2. ASSUME NEW c \in Callers, NEW p \in Pipelines, Skip(c, p) \/ Stop(c, p) PROVE SomebodyInside'
  <2>1. pc'[c] \in {"stop_meter", "stop_done"}
    BY <1>2 DEF IInv, TypeOK, Skip, Stop, Stopped
  <2> QED
    BY <2>1 DEF SomebodyInside, Inside
<1>3. ASSUME NEW c \in Callers, Finish(c) \/ \E p \in Pipelines : StopPanics(c, p) PROVE SomebodyInside'
  BY <1>3 DEF Finish, StopPanics, SomebodyInside
<1>4. ASSUME NEW c \in Callers,
             Invoke(c) \/ Pass(c) \/ Return(c) \/ \E p \in Pipelines : Flush(c, p)
      PROVE  SomebodyInside'
  <2>1. once' = once /\ ~Inside(c) /\ \A d \in Callers : d # c => pc'[d] = pc[d]
    BY <1>4 DEF Invoke, Pass, Return, Flush, Inside, IInv, TypeOK
  <2> QED
    BY <2>1 DEF SomebodyInside, Inside
<1>5. CASE UNCHANGED vars
  BY <1>5 DEF vars, SomebodyInside, Inside
<1> QED
  BY <1>1, <1>2, <1>3, <1>4, <1>5 DEF Next, Step

\* Nobody waits in Shutdown for nobody: while the once runs, somebody is inside and
\* asks a pipeline or ends it, even if pipelines panicked; and when it is done nobody
\* has to wait. ShutdownReturns rests on this.
THEOREM WaitersAreServed ==
  Spec => [](\A c \in Callers :
               pc[c] = "once" => once \in {"idle", "done"} \/ \E d \in Callers : d # c /\ Inside(d))
<1> DEFINE Served == \A c \in Callers :
              pc[c] = "once" => once \in {"idle", "done"} \/ \E d \in Callers : d # c /\ Inside(d)
<1>1. Init => SomebodyInside
  BY DEF Init, SomebodyInside
<1>2. IInv /\ SomebodyInside => Served
  BY DEF IInv, TypeOK, SomebodyInside, Inside
<1> QED
  BY <1>1, <1>2, SomebodyInsideStep, InvariantInit, InvariantStep, PTL DEF Spec
=============================================================================
