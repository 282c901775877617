------------------------- MODULE ProviderLifecycle -------------------------
(***************************************************************************)
(* How a metry.Provider ends and is flushed, by several goroutines at      *)
(* once. A provider made by New owns a tracer provider, and a meter        *)
(* provider if it has a metric exporter; one made by FromSDK borrows both. *)
(* Shutdown runs once, under sync.Once, and its callers wait for it;       *)
(* ForceFlush and FlushDependencies run concurrently with it.              *)
(***************************************************************************)
EXTENDS Naturals, FiniteSets

CONSTANTS Callers,
          Panicking, \* the pipelines whose Shutdown may panic (exporters are host code)
          MaxCalls   \* bound: calls made by each goroutine

Pipelines == {"tracer", "meter"}

ASSUME PanickingAssumption == Panicking \subseteq Pipelines
ASSUME MaxCallsAssumption == MaxCalls \in Nat

VARIABLES owned,       \* p.tp and p.mp, as the set of those that are not nil
          once,        \* shutdownOnce: idle, running or done
          shutdownErr, \* p.shutdownErr: the failures it joins
          pc, op, calls,
          errs,        \* the failures each call has met so far
          attempts,    \* history: Shutdown calls received by each pipeline
          failed,      \* history: pipelines whose Shutdown failed
          flushed,     \* history: what each operation flushed
          panicked,    \* history: a Shutdown has panicked
          log          \* history: the answers of Shutdown

vars == <<owned, once, shutdownErr, pc, op, calls, errs,
          attempts, failed, flushed, panicked, log>>
history == <<attempts, failed, flushed, panicked, log>>

Operations == {"Shutdown", "ForceFlush", "FlushDependencies"}

Init ==
  /\ owned \in {{}, {"tracer"}, {"tracer", "meter"}}
  /\ once = "idle"
  /\ shutdownErr = {}
  /\ pc = [c \in Callers |-> "idle"]
  /\ op = [c \in Callers |-> "Shutdown"]
  /\ calls = [c \in Callers |-> 0]
  /\ errs = [c \in Callers |-> {}]
  /\ attempts = [p \in Pipelines |-> 0]
  /\ failed = {} /\ flushed = {} /\ panicked = FALSE /\ log = {}

Go(c, from, to) == pc[c] = from /\ pc' = [pc EXCEPT ![c] = to]

Invoke(c) ==
  /\ calls[c] < MaxCalls
  /\ \E o \in Operations :
       /\ op' = [op EXCEPT ![c] = o]
       /\ Go(c, "idle", IF o = "Shutdown" THEN "once" ELSE "flush_tracer")
  /\ calls' = [calls EXCEPT ![c] = @ + 1]
  /\ errs' = [errs EXCEPT ![c] = {}]
  /\ UNCHANGED <<owned, once, shutdownErr, history>>

\* shutdownOnce.Do of the first caller.
Enter(c) ==
  /\ once = "idle"
  /\ once' = "running"
  /\ Go(c, "once", "stop_tracer")
  /\ UNCHANGED <<owned, shutdownErr, op, calls, errs, history>>

\* Mutant: an atomic flag in place of sync.Once, later callers do not wait.
PassWithoutWaiting(c) ==
  /\ once # "idle"
  /\ Go(c, "once", "return")
  /\ UNCHANGED <<owned, once, shutdownErr, op, calls, errs, history>>

\* Every later caller waits for the first one, whatever became of it.
Pass(c) ==
  /\ once = "done"
  /\ Go(c, "once", "return")
  /\ UNCHANGED <<owned, once, shutdownErr, op, calls, errs, history>>

\* Where the function of the once stands before a pipeline, and after it.
Stopping == [tracer |-> "stop_tracer", meter |-> "stop_meter"]
Stopped == [tracer |-> "stop_meter", meter |-> "stop_done"]

\* A pipeline that is not owned is nil, and passed over.
Skip(c, p) ==
  /\ p \notin owned
  /\ Go(c, Stopping[p], Stopped[p])
  /\ UNCHANGED <<owned, once, shutdownErr, op, calls, errs, history>>

\* A pipeline shuts down or fails, the expiry of the context included: the
\* deadline of the first caller, at most ten seconds, bounds it.
Stop(c, p) ==
  /\ p \in owned
  /\ Go(c, Stopping[p], Stopped[p])
  /\ attempts' = [attempts EXCEPT ![p] = @ + 1]
  /\ \/ UNCHANGED <<errs, failed>>
     \/ errs' = [errs EXCEPT ![c] = @ \cup {p}] /\ failed' = failed \cup {p}
  /\ UNCHANGED <<owned, once, shutdownErr, op, calls, flushed, panicked, log>>

\* Mutant: the once is not released by a panic.
StopPanicsInside(c, p) ==
  /\ p \in owned \cap Panicking
  /\ attempts' = [attempts EXCEPT ![p] = @ + 1]
  /\ panicked' = TRUE
  /\ Go(c, Stopping[p], "idle")
  /\ UNCHANGED <<owned, once, shutdownErr, op, calls, errs, failed, flushed, log>>

\* A panic unwinds through sync.Once, which counts as done; errs is lost.
StopPanics(c, p) ==
  /\ p \in owned \cap Panicking
  /\ attempts' = [attempts EXCEPT ![p] = @ + 1]
  /\ panicked' = TRUE
  /\ once' = "done"
  /\ Go(c, Stopping[p], "idle")
  /\ UNCHANGED <<owned, shutdownErr, op, calls, errs, failed, flushed, log>>

\* The end of the function passed to Do.
Finish(c) ==
  /\ Go(c, "stop_done", "return")
  /\ once' = "done"
  /\ shutdownErr' = IF errs[c] # {} THEN errs[c] ELSE shutdownErr
  /\ UNCHANGED <<owned, op, calls, errs, history>>

Return(c) ==
  /\ Go(c, "return", "idle")
  /\ log' = log \cup {shutdownErr}
  /\ UNCHANGED <<owned, once, shutdownErr, op, calls, errs, attempts, failed, flushed, panicked>>

\* Whether an operation flushes a pipeline: ForceFlush only the owned ones, while
\* FlushDependencies also reaches those of the others that support it.
Reaches(o, p) ==
  CASE p \in owned -> {TRUE}
    [] p \notin owned /\ o = "FlushDependencies" -> BOOLEAN
    [] OTHER -> {FALSE}

\* One flush; the next pipeline is flushed even if this one fails.
Flush(c, p) ==
  /\ IF p = "tracer" THEN Go(c, "flush_tracer", "flush_meter") ELSE Go(c, "flush_meter", "idle")
  /\ \E reached \in Reaches(op[c], p) :
       flushed' = flushed \cup IF reached THEN {<<op[c], p>>} ELSE {}
  /\ UNCHANGED <<owned, once, shutdownErr, op, calls, errs, attempts, failed, panicked, log>>

Step(c) ==
  \/ Enter(c) \/ Pass(c) \/ Finish(c) \/ Return(c)
  \/ \E p \in Pipelines : Skip(c, p) \/ Stop(c, p) \/ StopPanics(c, p) \/ Flush(c, p)

Next == \E c \in Callers : Invoke(c) \/ Step(c)

Spec == Init /\ [][Next]_vars

\* Goroutines are scheduled, and a pipeline returns from Shutdown and ForceFlush.
FairSpec == Spec /\ \A c \in Callers : WF_vars(Step(c))
-----------------------------------------------------------------------------
\* Types of the variables; only owned pipelines can have failed.
TypeOK ==
  /\ owned \subseteq Pipelines
  /\ once \in {"idle", "running", "done"}
  /\ shutdownErr \subseteq owned
  /\ pc \in [Callers -> {"idle", "once", "stop_tracer", "stop_meter", "stop_done",
                         "return", "flush_tracer", "flush_meter"}]
  /\ op \in [Callers -> Operations]
  /\ calls \in [Callers -> 0..MaxCalls]
  /\ errs \in [Callers -> SUBSET Pipelines]
  /\ attempts \in [Pipelines -> Nat]
  /\ failed \subseteq owned
  /\ flushed \subseteq Operations \X Pipelines
  /\ panicked \in BOOLEAN
  /\ log \subseteq SUBSET owned

\* "Concurrent callers wait and receive the same first result, including
\* failure" (Provider.Shutdown): every answer is the failures of the pipelines.
\* A panic of one leaves shutdownErr nil, whatever the other had answered.
FailuresAreTold == ~panicked => \A answer \in log : answer = failed

\* Whoever was answered knows that every owned pipeline was asked, once, to shut
\* down: a failure of the tracer does not keep the meter running.
AnsweredMeansStopped ==
  log # {} /\ ~panicked => \A p \in Pipelines : attempts[p] = IF p \in owned THEN 1 ELSE 0

\* However many calls race, no pipeline is shut down twice.
StoppedAtMostOnce == \A p \in Pipelines : attempts[p] <= 1

\* "Shutdown and ForceFlush never close or flush these borrowed dependencies"
\* (FromSDK).
BorrowedUntouched ==
  \A p \in Pipelines \ owned : attempts[p] = 0 /\ <<"ForceFlush", p>> \notin flushed

\* A Provider ends what it owns, once, and nothing else, and every caller of
\* Shutdown gets the one answer, which is true.
AnswersAreComplete ==
  TypeOK /\ FailuresAreTold /\ AnsweredMeansStopped /\ StoppedAtMostOnce /\ BorrowedUntouched

\* Every Shutdown returns, those that wait for one that panics included.
ShutdownReturns == \A c \in Callers : pc[c] = "once" ~> pc[c] = "idle"
=============================================================================
