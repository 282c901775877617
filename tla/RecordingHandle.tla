-------------------------- MODULE RecordingHandle --------------------------
(***************************************************************************)
(* One recording handle of package genai (OperationHandle, ToolHandle,     *)
(* RetrievalHandle or InvocationHandle) shared by several goroutines.      *)
(* Finish, Close and ValidateStreamingUpdate serialise on the handle's     *)
(* mutex; host callbacks (payload policy, tool-error classifier) run with  *)
(* that mutex held and may return, have their result rejected, or panic.   *)
(*                                                                         *)
(* A value is reduced to what the control flow distinguishes: a result is  *)
(* its declared status, its error evidence, whether every other field      *)
(* validates, and whether it brings a payload for the host to sanitise.    *)
(***************************************************************************)
EXTENDS Naturals, FiniteSets

CONSTANTS Callers,   \* goroutines holding the handle
          NoCaller,  \* the owner of a free mutex
          Inputs,    \* the results the goroutines may pass to Finish
          MaxCalls   \* bound: calls made by each goroutine

VARIABLES handle,    \* what the start call returned
          mutex,     \* holder of handle.mu, or NoCaller
          finished,  \* handle.finished
          span,      \* the span the handle owns, as its exporter will see it
          series,    \* number of data points recorded per instrument
          pc,        \* control point of each goroutine
          call,      \* the call each goroutine is making
          log        \* history: every answered call

vars == <<handle, mutex, finished, span, series, pc, call, log>>

-----------------------------------------------------------------------------
Kinds == {"model", "tool", "retrieval", "invocation"}

\* The tracker is nil for a noop recorder; payloads stands for
\* cfg.RecordPayloads(); logical for Identity.Kind = IdentityLogical, which
\* makes a model observation non-accounting.
Handles == {h \in [state : {"unstarted", "nil", "live"}, kind : Kinds,
                   traced : BOOLEAN, payloads : BOOLEAN, logical : BOOLEAN] :
              h.logical => h.kind = "model"}

Instruments == {"usage", "operation", "streaming", "tool", "invocation"}

Statuses == {"", "ok", "unset", "error", "bogus"}
Evidence == {"none", "err", "class"}   \* nothing, a business error, a class

\* usage and streaming only exist in a model result.
Results == [status : Statuses, evidence : Evidence, sound : BOOLEAN,
            payload : BOOLEAN, usage : BOOLEAN, streaming : BOOLEAN]

CloseResult == [status |-> "unset", evidence |-> "none", sound |-> TRUE,
                payload |-> FALSE, usage |-> FALSE, streaming |-> FALSE]

ASSUME CallersAssumption == NoCaller \notin Callers
ASSUME InputsAssumption == Inputs \subseteq Results
ASSUME MaxCallsAssumption == MaxCalls \in Nat

Answers == {"missing", "recorded", "valid", "invalid", "finalized", "panicked"}

\* The answers of a call that sealed the observation.
Terminal == {"recorded", "panicked"}

Calls == [op : {"Finish", "Close", "Update"}, nth : 0..MaxCalls,
          result : Results, answer : Answers \cup {"pending"}]

NoCall == [op |-> "Close", nth |-> 0, result |-> CloseResult, answer |-> "pending"]

Critical == {"validate", "callback", "commit", "sanitize", "record", "end",
             "panicking", "unlock"}

-----------------------------------------------------------------------------
\* resolveOutcome; "conflict" and "unknown" are its two diagnostics.
resolveOutcome(status, hasError) ==
  CASE status = "" -> IF hasError THEN "error" ELSE "unset"
    [] status \in {"ok", "unset"} -> IF hasError THEN "conflict" ELSE status
    [] status = "error" -> "error"
    [] OTHER -> "unknown"

Resolved(r) == resolveOutcome(r.status, r.evidence # "none")

\* Everything a call checks before it consults the host; an update has no
\* outcome to resolve.
Accepts(op, r) ==
  r.sound /\ (op = "Finish" => Resolved(r) \in {"ok", "unset", "error"})

\* Whether a host callback runs before the commit: the payload policy for a
\* model result, even an empty one; the classifier for the error of any other
\* kind.
ConsultsHost(r) ==
  IF handle.kind = "model"
  THEN handle.traced /\ handle.payloads
  ELSE Resolved(r) = "error" /\ r.evidence = "err"

\* The encoding of what the payload policy returned for a model, or of the
\* retrieval documents, may still be rejected.
CanRejectEncoding(r) ==
  /\ handle.traced
  /\ \/ handle.kind = "retrieval" /\ r.payload
     \/ handle.kind = "model" /\ handle.payloads

\* The tool result is sanitised by the host after the commit.
SanitizesAfterCommit(r) ==
  handle.kind = "tool" /\ handle.traced /\ handle.payloads /\ r.payload

\* Mutant: a logical operation is accounted like a physical one.
ChargesLogical(c, elapsed) ==
  LET r == call[c].result
      one(condition) == IF condition THEN 1 ELSE 0
  IN  [i \in Instruments |->
        CASE i = "usage" -> one(handle.kind = "model" /\ r.usage)
          [] i = "operation" -> one(handle.kind = "model" /\ elapsed)
          [] i = "streaming" -> one(handle.kind = "model" /\ r.streaming)
          [] i = "tool" -> one(handle.kind = "tool" /\ elapsed)
          [] i = "invocation" -> one(handle.kind = "invocation")]

\* The data points one accepted result contributes. elapsed is whether the
\* measured duration is positive: a coarse clock may report none.
Charges(c, elapsed) ==
  LET r == call[c].result
      accounting == handle.kind = "model" /\ ~handle.logical
      one(condition) == IF condition THEN 1 ELSE 0
  IN  [i \in Instruments |->
        CASE i = "usage" -> one(accounting /\ r.usage)
          [] i = "operation" -> one(accounting /\ elapsed)
          [] i = "streaming" -> one(accounting /\ r.streaming)
          [] i = "tool" -> one(handle.kind = "tool" /\ elapsed)
          [] i = "invocation" -> one(handle.kind = "invocation")]

-----------------------------------------------------------------------------
NoSpan == [state |-> "none", status |-> "none", authors |-> {}, rejected |-> FALSE]

Init ==
  /\ handle \in {h \in Handles : h.state = "unstarted"}
  /\ mutex = NoCaller
  /\ finished = FALSE
  /\ span = NoSpan
  /\ series = [i \in Instruments |-> 0]
  /\ pc = [c \in Callers |-> "idle"]
  /\ call = [c \in Callers |-> NoCall]
  /\ log = {}

\* startOperation, startTool, startRetrieval, startInvocation: a valid start
\* opens the span, unless the tracker is nil.
Start ==
  /\ handle.state = "unstarted"
  /\ handle' = [handle EXCEPT !.state = "live"]
  /\ span' = IF handle.traced THEN [NoSpan EXCEPT !.state = "open"] ELSE NoSpan
  /\ UNCHANGED <<mutex, finished, series, pc, call, log>>

\* An invalid start, or a panic of the tool-call sanitiser: no span, no handle.
StartFails ==
  /\ handle.state = "unstarted"
  /\ handle' = [handle EXCEPT !.state = "nil"]
  /\ UNCHANGED <<mutex, finished, span, series, pc, call, log>>

At(c, from, to) == pc[c] = from /\ pc' = [pc EXCEPT ![c] = to]

Answer(c, a) == call' = [call EXCEPT ![c].answer = a]

\* Close of a tool or invocation handle is Finish with CloseResult.
Invoke(c) ==
  /\ handle.state # "unstarted"
  /\ call[c].nth < MaxCalls
  /\ \E op \in {"Finish", "Close", "Update"}, r \in Inputs \cup {CloseResult} :
       /\ op = "Update" => handle.kind = "model"
       /\ op = "Close" => r = CloseResult
       /\ r.usage \/ r.streaming => handle.kind = "model"
       /\ call' = [call EXCEPT ![c] =
            [op |-> IF op = "Close" /\ handle.kind \in {"tool", "invocation"}
                    THEN "Finish" ELSE op,
             nth |-> @.nth + 1,
             result |-> r,
             answer |-> IF handle.state = "nil" THEN "missing" ELSE "pending"]]
  /\ At(c, "idle", IF handle.state = "nil" THEN "return" ELSE "lock")
  /\ UNCHANGED <<handle, mutex, finished, span, series, log>>

\* Mutants of Acquire: h.finished is not checked; the mutex is not taken.
AcquireWithoutCheck(c) ==
  /\ mutex = NoCaller
  /\ mutex' = c
  /\ At(c, "lock", IF call[c].op = "Close" THEN "commit" ELSE "validate")
  /\ UNCHANGED <<handle, finished, span, series, call, log>>

AcquireWithoutLock(c) ==
  /\ IF finished
     THEN At(c, "lock", "unlock") /\ Answer(c, "finalized")
     ELSE /\ At(c, "lock", IF call[c].op = "Close" THEN "commit" ELSE "validate")
          /\ UNCHANGED call
  /\ UNCHANGED <<handle, mutex, finished, span, series, log>>

\* h.mu.Lock and the check of h.finished.
Acquire(c) ==
  /\ mutex = NoCaller
  /\ mutex' = c
  /\ IF finished
     THEN At(c, "lock", "unlock") /\ Answer(c, "finalized")
     ELSE /\ At(c, "lock", IF call[c].op = "Close" THEN "commit" ELSE "validate")
          /\ UNCHANGED call
  /\ UNCHANGED <<handle, finished, span, series, log>>

\* Mutant: h.finished is set before the validation.
RejectAndClose(c) ==
  /\ At(c, "validate", "unlock")
  /\ ~Accepts(call[c].op, call[c].result)
  /\ finished' = TRUE
  /\ Answer(c, "invalid")
  /\ UNCHANGED <<handle, mutex, span, series, log>>

Reject(c) ==
  /\ At(c, "validate", "unlock")
  /\ ~Accepts(call[c].op, call[c].result)
  /\ Answer(c, "invalid")
  /\ UNCHANGED <<handle, mutex, finished, span, series, log>>

AcceptUpdate(c) ==
  /\ At(c, "validate", "unlock")
  /\ call[c].op = "Update" /\ Accepts("Update", call[c].result)
  /\ Answer(c, "valid")
  /\ UNCHANGED <<handle, mutex, finished, span, series, log>>

AcceptResult(c) ==
  /\ At(c, "validate", IF ConsultsHost(call[c].result) THEN "callback" ELSE "commit")
  /\ call[c].op = "Finish" /\ Accepts("Finish", call[c].result)
  /\ UNCHANGED <<handle, mutex, finished, span, series, call, log>>

CallbackReturns(c) ==
  /\ At(c, "callback", "commit")
  /\ UNCHANGED <<handle, mutex, finished, span, series, call, log>>

\* Mutant: Unlock is not deferred, a panic leaves the mutex locked.
PanicKeepsLock(c) ==
  /\ At(c, "callback", "idle")
  /\ UNCHANGED <<handle, mutex, finished, span, series, call, log>>

CallbackPanics(c) ==
  /\ At(c, "callback", "panicking")
  /\ UNCHANGED <<handle, mutex, finished, span, series, call, log>>

\* The last validation before the commit, still correctable.
RejectEncoding(c) ==
  /\ At(c, "commit", "unlock")
  /\ call[c].op = "Finish"
  /\ CanRejectEncoding(call[c].result)
  /\ Answer(c, "invalid")
  /\ UNCHANGED <<handle, mutex, finished, span, series, log>>

\* Mutant: the mutex guards h.finished only, not the writes that follow.
CommitAndUnlock(c) ==
  /\ finished' = TRUE
  /\ mutex' = NoCaller
  /\ IF handle.traced
     THEN /\ At(c, "commit", IF SanitizesAfterCommit(call[c].result)
                             THEN "sanitize" ELSE "record")
          /\ UNCHANGED call
     ELSE At(c, "commit", "unlock") /\ Answer(c, "recorded")
  /\ UNCHANGED <<handle, span, series, log>>

\* h.finished = true; a nil tracker has nothing to write.
Commit(c) ==
  /\ finished' = TRUE
  /\ IF handle.traced
     THEN /\ At(c, "commit", IF SanitizesAfterCommit(call[c].result)
                             THEN "sanitize" ELSE "record")
          /\ UNCHANGED call
     ELSE At(c, "commit", "unlock") /\ Answer(c, "recorded")
  /\ UNCHANGED <<handle, mutex, span, series, log>>

\* PayloadPolicy.SanitizeToolResult; malformed JSON skips it and adds a
\* diagnostic, which changes nothing modelled here.
SanitizeReturns(c) ==
  /\ At(c, "sanitize", "record")
  /\ span' = [span EXCEPT !.authors = @ \cup {<<c, call[c].nth>>}]
  /\ UNCHANGED <<handle, mutex, finished, series, call, log>>

SanitizePanics(c) ==
  /\ At(c, "sanitize", "panicking")
  /\ UNCHANGED <<handle, mutex, finished, span, series, call, log>>

\* Attributes and outcome on the span, then the metrics.
Record(c) ==
  /\ At(c, "record", "end")
  /\ span' = [span EXCEPT !.status = Resolved(call[c].result),
                          !.authors = @ \cup {<<c, call[c].nth>>}]
  /\ \E elapsed \in BOOLEAN :
       series' = [i \in Instruments |-> series[i] + Charges(c, elapsed)[i]]
  /\ UNCHANGED <<handle, mutex, finished, call, log>>

EndSpan(c) ==
  /\ At(c, "end", "unlock")
  /\ span' = [span EXCEPT !.state = "ended"]
  /\ Answer(c, "recorded")
  /\ UNCHANGED <<handle, mutex, finished, series, log>>

\* Mutant: no outcome is applied.
PanicWithoutOutcome(c) ==
  /\ At(c, "panicking", "unlock")
  /\ finished' = TRUE
  /\ span' = IF handle.traced
             THEN [span EXCEPT !.state = "ended",
                               !.authors = @ \cup {<<c, call[c].nth>>}]
             ELSE span
  /\ Answer(c, "panicked")
  /\ UNCHANGED <<handle, mutex, series, log>>

\* endRecordingOnPanic, deferred by Finish and run before the deferred Unlock.
EndRecordingOnPanic(c) ==
  /\ At(c, "panicking", "unlock")
  /\ finished' = TRUE
  /\ span' = IF handle.traced
             THEN [state |-> "ended", status |-> "error", rejected |-> TRUE,
                   authors |-> span.authors \cup {<<c, call[c].nth>>}]
             ELSE span
  /\ Answer(c, "panicked")
  /\ UNCHANGED <<handle, mutex, series, log>>

\* The deferred h.mu.Unlock, and the answer reaching the caller.
Reply(c) ==
  /\ log' = log \cup {[by |-> c, nth |-> call[c].nth, answer |-> call[c].answer]}
  /\ call' = [call EXCEPT ![c] = [NoCall EXCEPT !.nth = call[c].nth]]

Unlock(c) ==
  /\ At(c, "unlock", "idle")
  /\ mutex' = NoCaller
  /\ Reply(c)
  /\ UNCHANGED <<handle, finished, span, series>>

\* A method of a nil or zero handle.
ReturnMissing(c) ==
  /\ At(c, "return", "idle")
  /\ Reply(c)
  /\ UNCHANGED <<handle, mutex, finished, span, series>>

Step(c) ==
  \/ Acquire(c) \/ Reject(c) \/ AcceptUpdate(c) \/ AcceptResult(c)
  \/ CallbackReturns(c) \/ CallbackPanics(c) \/ RejectEncoding(c)
  \/ Commit(c) \/ SanitizeReturns(c) \/ SanitizePanics(c)
  \/ Record(c) \/ EndSpan(c) \/ EndRecordingOnPanic(c)
  \/ Unlock(c) \/ ReturnMissing(c)

Next == Start \/ StartFails \/ \E c \in Callers : Invoke(c) \/ Step(c)

Spec == Init /\ [][Next]_vars

\* A goroutine inside a call is scheduled, host callbacks terminate, and a
\* contended sync.Mutex is starvation-free.
Fairness == \A c \in Callers : WF_vars(Step(c)) /\ SF_vars(Acquire(c))

FairSpec == Spec /\ Fairness
-----------------------------------------------------------------------------
\* The span and the series no call has touched yet.
Untouched ==
  /\ span \in {NoSpan, [NoSpan EXCEPT !.state = "open"]}
  /\ series = [i \in Instruments |-> 0]

Sealing(entries) == {e \in entries : e.answer \in Terminal}

\* Types of the variables; the statuses exclude the two diagnostics of
\* resolveOutcome, which must never reach a span.
TypeOK ==
  /\ handle \in Handles
  /\ mutex \in Callers \cup {NoCaller}
  /\ finished \in BOOLEAN
  /\ span \in [state : {"none", "open", "ended"},
               status : {"none", "ok", "unset", "error"},
               authors : SUBSET (Callers \X (0..MaxCalls)), rejected : BOOLEAN]
  /\ series \in [Instruments -> Nat]
  /\ pc \in [Callers -> {"idle", "lock", "return"} \cup Critical]
  /\ call \in [Callers -> Calls]
  /\ log \subseteq [by : Callers, nth : 0..MaxCalls, answer : Answers]

\* "Concurrent finalization is serialized; only one valid call commits"
\* (genai/OUTCOMES.md): at most one call is ever answered nil or panics.
OneVerdict == \A d, e \in Sealing(log) : d = e

\* The exported record is the work of the one call that sealed it, never a mix
\* of two results.
RecordIsOneCall ==
  /\ Cardinality(span.authors) <= 1
  /\ \A e \in Sealing(log) : handle.traced => span.authors = {<<e.by, e.nth>>}

\* "Returned validation errors write nothing and remain correctable": while no
\* call holds the mutex and none has sealed the record, whatever was rejected
\* or merely validated left the handle as it was started.
RejectionLeavesNoTrace ==
  mutex = NoCaller /\ Sealing(log) = {} => ~finished /\ Untouched

\* A caller told ErrFinalized may rely on a complete record: the call that
\* sealed it is over, and its span has ended.
FinalizedMeansComplete ==
  (\E e \in log : e.answer = "finalized")
    => Sealing(log) # {} /\ (handle.traced => span.state = "ended")

\* A panic of the host is the verdict of the record: an error span carrying the
\* rejection event and no metric; an accepted result never carries the event.
PanicIsTheVerdict ==
  \A e \in Sealing(log) : handle.traced =>
    IF e.answer = "panicked"
    THEN /\ span.status = "error" /\ span.rejected
         /\ series = [i \in Instruments |-> 0]
    ELSE ~span.rejected

\* However many calls race, every instrument counts the observation at most
\* once, a logical operation never counts, and an accounting one whose result
\* was accepted always does (a zero duration is the clock's doing).
AccountedOnce ==
  /\ \A i \in Instruments : series[i] <= 1
  /\ handle.logical \/ ~handle.traced => \A i \in Instruments : series[i] = 0
  /\ \A e \in Sealing(log) :
       handle.kind = "invocation" /\ handle.traced /\ e.answer = "recorded"
         => series["invocation"] = 1

\* The accounting of one verdict: types, "only one valid call commits", and
\* nothing is counted that must not be.
OneAccount == TypeOK /\ OneVerdict /\ AccountedOnce

\* Every call on the handle is answered, and a terminal handle does not leak its
\* span, whatever the callbacks do.
CallsReturn ==
  /\ \A c \in Callers : pc[c] = "lock" ~> pc[c] = "idle"
  /\ finished ~> (handle.traced => span.state = "ended")

\* The promise made to the callers, with the sealing at the end of the span.
Sealers == {c \in Callers : call[c].answer \in Terminal} \cup {e.by : e \in Sealing(log)}

News(e) == CASE e.answer \in Terminal -> "sealed"
             [] e.answer = "finalized" -> "finalized"
             [] OTHER -> "open"

SealerOf == IF Sealers = {} THEN NoCaller ELSE CHOOSE c \in Sealers : TRUE
VerdictOf == IF Sealers = {} THEN "open" ELSE IF handle.traced THEN span.status ELSE "dropped"
ToldTo == [c \in Callers |-> {News(e) : e \in {e \in log : e.by = c}}]

Once == INSTANCE OnceRecording WITH
  Verdicts <- {"ok", "unset", "error", "dropped"},
  sealer   <- SealerOf,
  verdict  <- VerdictOf,
  settled  <- Sealing(log) # {},
  asking   <- {c \in Callers : pc[c] # "idle"},
  told     <- ToldTo

\* The handle implements the promise of OnceRecording.
ImplementsOnceRecording == Once!Spec
=============================================================================
