---------------------------- MODULE ServerSpans ----------------------------
(***************************************************************************)
(* One request and the spans around it: http_middleware.go guards the      *)
(* handler of the host inside otelhttp; middleware/grpc gives otelgrpc a   *)
(* copy of the event that ends an RPC; and goroutines of the handler, some *)
(* of which outlive it, call security.Record on the context of the         *)
(* request. What they leave on spans went through the diagnostic policy,   *)
(* and what the server and the host get is what the handler gave.          *)
(***************************************************************************)
EXTENDS Naturals, FiniteSets

CONSTANTS Recorders  \* goroutines that record a security decision

VARIABLES
  request,      \* transport, whether its span is sampled, diagnostic policy
  serving,      \* where the request stands
  gave,         \* how the host's handler ended
  passed,       \* what goes on: the panic, or the error in the event of the RPC
  seen,         \* what the server, or the host's own stats handler, was given
  requestSpan,  \* open, error, code, texts; events: the decisions on it
  recording,    \* where each goroutine stands in security.Record
  observed,     \* what it records: "valid", "invalid" metadata, "long" reason
  reason,       \* the text the policy left of the reason
  child,        \* the span it started: "none", "open", "ended"
  childEvents   \* the decisions on spans of their own

requestVars == <<request, serving, gave, passed, seen, requestSpan>>
recordVars == <<recording, observed, reason, child, childEvents>>
serverVars == <<requestVars, recordVars>>

Nothing == "nothing"
NoText == "no_text"

Ended == IF request.transport = "http" THEN {"value", "panic", "exit"}
         ELSE {"value", "status_error", "plain_error", "hostile_error"}

ServerInit ==
  /\ request \in [transport : {"http", "grpc"}, sampled : BOOLEAN, policy : {"safe", "raw", "sanitizer"}]
  /\ serving = "handler"
  /\ gave = Nothing /\ passed = Nothing /\ seen = Nothing
  /\ requestSpan = [open |-> TRUE, error |-> FALSE, code |-> Nothing, texts |-> {}, events |-> {}]
  /\ recording = [r \in Recorders |-> "idle"]
  /\ observed = [r \in Recorders |-> Nothing]
  /\ reason = [r \in Recorders |-> NoText]
  /\ child = [r \in Recorders |-> "none"]
  /\ childEvents = {}

Serve(from, to) == serving = from /\ serving' = to

-----------------------------------------------------------------------------
\* policy.Error and policy.Panic: the class; or the text, formatted and sanitized
\* by host code, replaced when that fails, panics, or is too long.
Processed ==
  CASE request.policy = "safe" -> {"class"}
    [] request.policy = "raw" -> {"raw", "suppressed"}
    [] OTHER -> {"sanitized", "suppressed"}

\* The span accepts what it is given while it is recording.
Recording == requestSpan.open /\ request.sampled

HandlerEnds ==
  /\ Serve("handler", "ended")
  /\ gave' \in Ended /\ passed' = gave'
  /\ UNCHANGED <<request, seen, requestSpan, recordVars>>

\* The guard of HTTPHandler recovers a panic; Goexit is none. RecordDiagnostic
\* gets the processed result, never the value.
Recover ==
  /\ request.transport = "http" /\ gave = "panic"
  /\ Serve("ended", "recorded")
  /\ \E text \in Processed :
       requestSpan' = IF Recording THEN [requestSpan EXCEPT !.error = TRUE, !.texts = {text}] ELSE requestSpan
  /\ UNCHANGED <<request, gave, passed, seen, recordVars>>

\* Mutant: the span is left to the deferred End of otelhttp.
RethrowOnly ==
  /\ Serve("recorded", "rethrown")
  /\ UNCHANGED <<request, gave, passed, seen, requestSpan, recordVars>>

\* The guard ends the span before it panics again with the same value.
EndAndRethrow ==
  /\ Serve("recorded", "rethrown")
  /\ requestSpan' = [requestSpan EXCEPT !.open = FALSE]
  /\ UNCHANGED <<request, gave, passed, seen, recordVars>>

\* otelhttp's deferred End, in which the SDK formats a panic it finds on a span
\* that is still recording; then the server has the outcome.
LeaveHTTP ==
  /\ request.transport = "http"
  /\ Serve(IF gave = "panic" THEN "rethrown" ELSE "ended", "done")
  /\ requestSpan' = [requestSpan EXCEPT !.open = FALSE,
                       !.texts = IF Recording /\ passed = "panic" THEN @ \cup {"raw"} ELSE @]
  /\ seen' = passed
  /\ UNCHANGED <<request, gave, passed, recordVars>>

\* rpcErrorCode: the code of an error that has a status; Unknown when it has none,
\* or when the methods of the error panic.
Code(error) == IF error = "status_error" THEN "its_own" ELSE "Unknown"

\* diagnosticStats.HandleRPC of an End: otelgrpc gets a copy with the processed
\* text. Its span shows the text unless the code is not an error for a server.
HandleEnd ==
  /\ request.transport = "grpc"
  /\ Serve("ended", "observed")
  /\ \/ /\ gave = "value"
        /\ requestSpan' = [requestSpan EXCEPT !.open = FALSE]
     \/ \E text \in Processed, error \in BOOLEAN :
          /\ gave # "value" /\ (Code(gave) = "Unknown" => error)
          /\ requestSpan' = IF Recording
                            THEN [requestSpan EXCEPT !.open = FALSE, !.error = error, !.code = Code(gave),
                                                     !.texts = IF error THEN {text} ELSE {}]
                            ELSE [requestSpan EXCEPT !.open = FALSE]
  /\ UNCHANGED <<request, gave, passed, seen, recordVars>>

\* The stats handler of the host gets the event itself.
HostHandlesEnd ==
  /\ Serve("observed", "done")
  /\ seen' = passed
  /\ UNCHANGED <<request, gave, passed, requestSpan, recordVars>>

Request == HandlerEnds \/ Recover \/ EndAndRethrow \/ LeaveHTTP \/ HandleEnd \/ HostHandlesEnd

-----------------------------------------------------------------------------
(* security.Record *)

Move(r, from, to) == recording[r] = from /\ recording' = [recording EXCEPT ![r] = to]
Decision(r) == [by |-> r, reason |-> reason[r]]

Observe(r) ==
  /\ Move(r, "idle", "called")
  /\ \E o \in {"valid", "invalid", "long"} : observed' = [observed EXCEPT ![r] = o]
  /\ UNCHANGED <<requestVars, reason, child, childEvents>>

\* ErrMetadata, or diagnostic.ErrInput: nothing was recorded.
RefuseObservation(r) ==
  /\ observed[r] # "valid"
  /\ Move(r, "called", "refused")
  /\ UNCHANGED <<requestVars, observed, reason, child, childEvents>>

\* DiagnosticPolicy().Text: no reason in safe mode; none, and a mark, when the
\* sanitizer failed.
ProcessReason(r) ==
  /\ observed[r] = "valid"
  /\ Move(r, "called", "processed")
  /\ \E text \in Processed :
       reason' = [reason EXCEPT ![r] = IF request.policy = "safe" THEN NoText ELSE text]
  /\ UNCHANGED <<requestVars, observed, child, childEvents>>

\* span.IsRecording of the span in the context.
ChooseSpan(r) ==
  /\ Move(r, "processed", IF Recording THEN "adding" ELSE "starting")
  /\ UNCHANGED <<requestVars, observed, reason, child, childEvents>>

\* MutateRecordingSpan asks again: the span may have ended in between.
AddToRequest(r) ==
  /\ Move(r, "adding", "recorded")
  /\ requestSpan' = IF Recording THEN [requestSpan EXCEPT !.events = @ \cup {Decision(r)}] ELSE requestSpan
  /\ UNCHANGED <<request, serving, gave, passed, seen, observed, reason, child, childEvents>>

\* Provider.StartSpan, whose sampler decides, and the event on it.
StartChild(r) ==
  /\ Move(r, "starting", "inside")
  /\ child' = [child EXCEPT ![r] = "open"]
  /\ childEvents' \in {childEvents, childEvents \cup {Decision(r)}}
  /\ UNCHANGED <<requestVars, observed, reason>>

\* Mutant: only the path of an error ends the span.
LeaveChild(r) ==
  /\ Move(r, "inside", "recorded")
  /\ UNCHANGED <<requestVars, observed, reason, child, childEvents>>

\* The deferred end.
EndChild(r) ==
  /\ Move(r, "inside", "recorded")
  /\ child' = [child EXCEPT ![r] = "ended"]
  /\ UNCHANGED <<requestVars, observed, reason, childEvents>>

Recorder(r) ==
  RefuseObservation(r) \/ ProcessReason(r) \/ ChooseSpan(r) \/ AddToRequest(r) \/ StartChild(r) \/ EndChild(r)

ServerNext == Request \/ \E r \in Recorders : Observe(r) \/ Recorder(r)

ServerSpec == ServerInit /\ [][ServerNext]_serverVars

-----------------------------------------------------------------------------
ServerTypeOK ==
  /\ serving \in {"handler", "ended", "recorded", "rethrown", "observed", "done"}
  /\ gave \in Ended \cup {Nothing} /\ passed \in Ended \cup {Nothing} /\ seen \in Ended \cup {Nothing}
  /\ requestSpan.open \in BOOLEAN /\ requestSpan.error \in BOOLEAN
  /\ requestSpan.texts \subseteq {"class", "raw", "sanitized", "suppressed"}
  /\ recording \in [Recorders -> {"idle", "called", "refused", "processed", "adding", "starting",
                                  "inside", "recorded"}]
  /\ child \in [Recorders -> {"none", "open", "ended"}]

\* The text of a panic, an error or a reason reaches no span of a request unless
\* the host chose raw mode: the SDK finds the span ended when the panic passes it,
\* and otelgrpc never holds the original error.
OnlyProcessedText ==
  request.policy # "raw" =>
    /\ "raw" \notin requestSpan.texts
    /\ \A d \in requestSpan.events \cup childEvents : d.reason # "raw"

\* "The RPC and the host's original stats event retain their original error", a
\* panic is raised again as it was, and the span tells of it.
OutcomeIsPassedOn ==
  serving = "done" =>
    /\ seen = gave /\ ~requestSpan.open
    /\ request.sampled =>
         /\ gave \in {"panic", "plain_error", "hostile_error"} => requestSpan.error /\ requestSpan.texts # {}
         /\ gave \in {"value", "exit"} => ~requestSpan.error

\* A decision is on one span or, when the sampler says so or the request ends
\* while it is added, on none; a call that is answered during a recorded request
\* has left it there; and a refused one has left nothing.
DecisionsAreOnOneSpan ==
  \A r \in Recorders :
    LET on == {d \in requestSpan.events : d.by = r}
        alone == {d \in childEvents : d.by = r}
    IN /\ Cardinality(on) + Cardinality(alone) <= 1
       /\ recording[r] = "recorded" /\ Recording => on # {}
       /\ recording[r] \in {"idle", "called", "refused"} => on = {} /\ alone = {} /\ child[r] = "none"
       /\ recording[r] = "recorded" => child[r] # "open"

\* What the spans of a request tell is true, and safe to export.
ServerSpansAreTrue == ServerTypeOK /\ OnlyProcessedText /\ OutcomeIsPassedOn /\ DecisionsAreOnOneSpan

\* The span of a request ends, and so do the spans of the decisions, whatever the
\* handler does.
ServerSpansEnd ==
  /\ serving = "ended" ~> ~requestSpan.open
  /\ \A r \in Recorders : child[r] = "open" ~> child[r] = "ended"
=============================================================================
