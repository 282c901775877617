----------------------------- MODULE Executor -----------------------------
(***************************************************************************)
(* executor_middleware.go: ExecutorWrap gives a function of the host a     *)
(* span, two metrics and optional logs. The instruments are created once   *)
(* per Provider, by whichever goroutine wraps first. Whatever the function *)
(* and the host's diagnostic callbacks do, the outcome is recorded and the *)
(* caller gets what the function gave.                                     *)
(***************************************************************************)
EXTENDS Naturals, Sequences

CONSTANTS Callers,    \* goroutines, each wrapping a function and calling it
          MeterFails, \* what creating the instruments may do besides succeeding
          Policies    \* content policies of package diagnostic

ASSUME MeterAssumption == MeterFails \subseteq {"error", "panic"}
ASSUME PoliciesAssumption == Policies \subseteq {"safe", "raw", "sanitizer"}

VARIABLES once,          \* executorOnce: "new", "running", "done"
          creations,     \* history: how often instruments were created
          metrics,       \* executorMetrics and executorErr: "nil", "ready", "error"
          policy,        \* the Provider's diagnostic policy
          at,            \* control point of each goroutine
          held,          \* the instruments a wrapped function holds
          outcome,       \* how the host's function ended
          result,        \* the diagnostic, once processed
          spanOf,        \* its status, the texts it carries, and whether it ended
          counted,       \* the statuses recorded for the call
          got            \* what the caller of the wrapped function received

executorVars == <<once, creations, metrics, policy, at, held, outcome, result, spanOf, counted, got>>

Outcomes == {"value", "error", "panic", "exit"}  \* exit: runtime.Goexit
NoSpan == [status |-> "none", texts |-> {}, ended |-> FALSE]
NoResult == "nothing"

ExecutorInit ==
  /\ once = "new" /\ creations = 0 /\ metrics = "nil"
  /\ policy \in Policies
  /\ at = [c \in Callers |-> "unwrapped"]
  /\ held = [c \in Callers |-> "nil"]
  /\ outcome = [c \in Callers |-> NoResult]
  /\ result = [c \in Callers |-> NoResult]
  /\ spanOf = [c \in Callers |-> NoSpan]
  /\ counted = [c \in Callers |-> <<>>]
  /\ got = [c \in Callers |-> NoResult]

Go(c, from, to) == at[c] = from /\ at' = [at EXCEPT ![c] = to]
call == <<outcome, result, spanOf, counted, got>>

-----------------------------------------------------------------------------
\* executorOnce.Do: the first goroutine runs the function, others wait for it.
EnterOnce(c) ==
  /\ once = "new" /\ once' = "running" /\ creations' = creations + 1
  /\ Go(c, "unwrapped", "creating")
  /\ UNCHANGED <<metrics, policy, held, call>>

\* Both instruments were created, or one was refused; the pair is assigned.
Created(c) ==
  /\ Go(c, "creating", "unwrapped") /\ once' = "done"
  /\ metrics' \in {"ready"} \cup (MeterFails \cap {"error"})
  /\ UNCHANGED <<creations, policy, held, call>>

\* Mutant: a once made of a flag, which the panic leaves as it is.
CreationPanicsInside(c) ==
  /\ "panic" \in MeterFails
  /\ Go(c, "creating", "unwrapped") /\ UNCHANGED once
  /\ UNCHANGED <<creations, metrics, policy, held, call>>

\* The host's meter panics: the once is done, nothing was assigned, and the
\* panic leaves ExecutorWrap. The host may wrap again.
CreationPanics(c) ==
  /\ "panic" \in MeterFails
  /\ Go(c, "creating", "unwrapped") /\ once' = "done"
  /\ UNCHANGED <<creations, metrics, policy, held, call>>

\* ExecutorWrap returns the wrapped function.
Wrap(c) ==
  /\ once = "done" /\ metrics # "error"
  /\ Go(c, "unwrapped", "wrapped")
  /\ held' = [held EXCEPT ![c] = metrics]
  /\ UNCHANGED <<once, creations, metrics, policy, call>>

\* The error of the first creation is kept: ExecutorWrap panics with it.
WrapPanics(c) ==
  /\ once = "done" /\ metrics = "error"
  /\ Go(c, "unwrapped", "refused")
  /\ UNCHANGED <<once, creations, metrics, policy, held, call>>

-----------------------------------------------------------------------------
wrapping == <<once, creations, metrics, policy, held>>

\* The span starts and the host's function runs.
CallWrapped(c) ==
  /\ Go(c, "wrapped", "running")
  /\ UNCHANGED <<wrapping, call>>

Run(c) ==
  /\ Go(c, "running", "deferred")
  /\ \E o \in Outcomes : outcome' = [outcome EXCEPT ![c] = o]
  /\ UNCHANGED <<wrapping, result, spanOf, counted, got>>

\* Mutant: when the sanitizer fails the text is taken as it is.
DiagnosticsFallBack(o) ==
  CASE policy = "safe" -> {o}
    [] policy = "raw" -> {"raw", "suppressed"}
    [] OTHER -> {"sanitized", "suppressed", "raw"}

\* policy.Error and policy.Panic: the neutral class; or the text, formatted and
\* sanitized by the host, suppressed if that fails, panics or is too long.
Diagnostics(o) ==
  CASE policy = "safe" -> {o}
    [] policy = "raw" -> {"raw", "suppressed"}
    [] OTHER -> {"sanitized", "suppressed"}

\* recover() is nil after a return, and after Goexit, which leaves runErr nil.
Failed(c) == outcome[c] \in {"error", "panic"}

\* The deferred function: the diagnostic is processed before any sink sees it.
Diagnose(c) ==
  /\ Go(c, "deferred", "recording") /\ Failed(c)
  /\ \E text \in Diagnostics(outcome[c]) :
       /\ result' = [result EXCEPT ![c] = text]
       /\ spanOf' = [spanOf EXCEPT ![c].status = "Error", ![c].texts = {text}]
  /\ UNCHANGED <<wrapping, outcome, counted, got>>

SpanOK(c) ==
  /\ Go(c, "deferred", "recording") /\ ~Failed(c)
  /\ spanOf' = [spanOf EXCEPT ![c].status = "Ok"]
  /\ UNCHANGED <<wrapping, outcome, result, counted, got>>

\* The status of the two metrics.
Status(c) == IF Failed(c) THEN outcome[c] ELSE "success"

\* Duration and calls are spanOf, then the log is written.
Record(c) ==
  /\ held[c] = "ready"
  /\ Go(c, "recording", "ending")
  /\ counted' = [counted EXCEPT ![c] = Append(@, Status(c))]
  /\ UNCHANGED <<wrapping, outcome, result, spanOf, got>>

\* The instruments are nil: recording panics.
RecordPanics(c) ==
  /\ held[c] = "nil"
  /\ Go(c, "recording", "returned")
  /\ spanOf' = [spanOf EXCEPT ![c].ended = TRUE]
  /\ got' = [got EXCEPT ![c] = "nil_dereference"]
  /\ UNCHANGED <<wrapping, outcome, result, counted>>

\* span.End, then the caller has the result, or the panic raised again.
Return(c) ==
  /\ Go(c, "ending", "returned")
  /\ spanOf' = [spanOf EXCEPT ![c].ended = TRUE]
  /\ got' = [got EXCEPT ![c] = outcome[c]]
  /\ UNCHANGED <<wrapping, outcome, result, counted>>

Step(c) ==
  \/ EnterOnce(c) \/ Created(c) \/ CreationPanics(c) \/ Wrap(c) \/ WrapPanics(c)
  \/ Run(c) \/ Diagnose(c) \/ SpanOK(c) \/ Record(c) \/ RecordPanics(c) \/ Return(c)

ExecutorNext == \E c \in Callers : Step(c) \/ CallWrapped(c)

ExecutorSpec == ExecutorInit /\ [][ExecutorNext]_executorVars

\* The goroutines run, the host's function ends, and a host whose ExecutorWrap
\* panicked wraps again.
ExecutorFairSpec == ExecutorSpec /\ \A c \in Callers : WF_executorVars(Step(c))

-----------------------------------------------------------------------------
DiagnosticTexts == {"error", "panic", "raw", "sanitized", "suppressed"}

\* Every variable keeps its type; a function is wrapped only after the
\* once is over.
ExecutorTypeOK ==
  /\ once \in {"new", "running", "done"} /\ creations \in Nat
  /\ metrics \in {"nil", "ready", "error"} /\ policy \in Policies
  /\ at \in [Callers -> {"unwrapped", "creating", "refused", "wrapped", "running",
                         "deferred", "recording", "ending", "returned"}]
  /\ held \in [Callers -> {"nil", "ready"}]
  /\ outcome \in [Callers -> Outcomes \cup {NoResult}]
  /\ result \in [Callers -> DiagnosticTexts \cup {NoResult}]
  /\ spanOf \in [Callers -> [status : {"none", "Ok", "Error"}, texts : SUBSET DiagnosticTexts, ended : BOOLEAN]]
  /\ counted \in [Callers -> Seq({"success", "error", "panic"})]
  /\ got \in [Callers -> Outcomes \cup {NoResult, "nil_dereference"}]
  /\ \A c \in Callers : at[c] \notin {"unwrapped", "creating"} => once = "done"

\* "Executor instruments belong to each Provider and are created once under
\* concurrent registration".
CreatedOnce == creations <= 1

\* A call that used its instruments is counted once, and its span ended, with the
\* status of what the host's function did; its error or panic is never a success.
RecordedAsItEnded ==
  \A c \in Callers :
    at[c] = "returned" /\ held[c] = "ready" =>
      /\ counted[c] = CASE outcome[c] = "error" -> <<"error">>
                        [] outcome[c] = "panic" -> <<"panic">>
                        [] OTHER -> <<"success">>
      /\ spanOf[c].ended /\ (spanOf[c].status = "Error") = (outcome[c] \in {"error", "panic"})

\* The text of an error or a panic reaches no sink unless the host chose raw mode:
\* not in safe mode, and not when the sanitizer fails.
NoUnprocessedText ==
  policy # "raw" => \A c \in Callers : "raw" \notin spanOf[c].texts \cup {result[c]}

\* The metrics and spans of a Provider: made once, true of every call, and with no
\* more of its texts than the policy lets through.
TrueRecords == ExecutorTypeOK /\ CreatedOnce /\ RecordedAsItEnded /\ NoUnprocessedText

\* The caller gets what the host's function gave: "business results, error
\* identity and re-raised panic values remain unchanged".
ResultsUnchanged ==
  \A c \in Callers : at[c] = "returned" => got[c] = outcome[c]

\* Wrapping never hangs, whatever happened to the goroutine inside the once, and
\* a span that was started ends, whatever the host's function does.
CallsEnd ==
  /\ \A c \in Callers : <>(at[c] \in {"wrapped", "refused"})
  /\ \A c \in Callers : at[c] = "running" ~> spanOf[c].ended
=============================================================================
