------------------------- MODULE CompletedRecording -------------------------
(***************************************************************************)
(* Observations that are complete when they are recorded: RecordOperation, *)
(* RecordStreamingCompletion and RecordInteraction. One observation is     *)
(* given to the two recorders a host chooses between, a tracker's and the  *)
(* noop one, which validate it in orders of their own. An observation is   *)
(* what may be wrong with it, and the host's payload policy is a callback. *)
(***************************************************************************)
EXTENDS Naturals, Sequences, FiniteSets

CONSTANTS MaxFlaws  \* bound: flaws of one observation

ASSUME MaxFlawsAssumption == MaxFlaws \in Nat

\* "name": no operation name, of its own or of the scope, or a malformed one;
\* "model" and "scope model": a malformed name given, or taken from the scope;
\* "currency": one the tracker's profile does not map; "output": what the
\* payload policy returned is out of bounds.
Flaws == {"model", "scope_model", "name", "response", "status", "usage", "currency",
          "duration", "stream", "payload", "output"}

VARIABLES entry,     \* the function called
          flaws,     \* what is wrong with the observation
          payloads,  \* the tracker records payloads
          host,      \* what the payload policy does: it returns, or panics
          at,        \* of each recorder: the check it is at
          verdict,   \* of each recorder: "pending", "ok", the flaw found, or "panic"
          asked,     \* calls of the payload policy
          span,      \* the tracker's span
          recorded   \* metrics recorded by the tracker

recordingVars == <<entry, flaws, payloads, host, at, verdict, asked, span, recorded>>
observation == <<entry, flaws, payloads, host>>

Recorders == {"tracker", "noop"}
Entries == {"operation", "streaming", "interaction"}

\* RecordInteraction is a method of the tracker alone.
Offered(r) == r = "noop" => entry # "interaction"

Possible(e) == Flaws \ (CASE e = "operation" -> {}
                          [] e = "streaming" -> {"payload"}
                          [] e = "interaction" -> {"stream"})

RecordingInit ==
  /\ entry \in Entries
  /\ flaws \in {f \in SUBSET Possible(entry) : Cardinality(f) <= MaxFlaws}
  /\ payloads \in BOOLEAN /\ host \in {"returns", "panics"}
  /\ at = [r \in Recorders |-> 1] /\ verdict = [r \in Recorders |-> "pending"]
  /\ asked = 0 /\ span = "none" /\ recorded = {}

-----------------------------------------------------------------------------
\* buildPayloadAttributes; a streaming completion has an empty payload, which
\* the policy is asked about all the same.
PayloadChecks == IF payloads THEN <<"payload", "ask", "output">> ELSE <<>>

TrackerChecks ==
  CASE entry = "operation" -> <<"model", "response", "status", "usage", "duration", "stream",
                                "currency", "name", "scope_model">> \o PayloadChecks
    [] entry = "interaction" -> <<"status", "usage", "currency", "duration", "model",
                                  "scope_model", "response", "name">> \o PayloadChecks
    [] entry = "streaming" -> <<"duration", "stream", "status", "usage", "currency", "model",
                                "scope_model", "response", "name">> \o PayloadChecks

NoopChecks ==
  IF entry = "operation"
  THEN <<"model", "name", "scope_model", "response", "status", "usage", "duration", "stream">>
  ELSE <<"status", "name", "model", "scope_model", "response", "usage", "duration", "stream">>

Checks(r) == IF r = "noop" THEN NoopChecks ELSE TrackerChecks
Checking(r) == Offered(r) /\ verdict[r] = "pending" /\ at[r] <= Len(Checks(r))
Decide(r, v) == verdict' = [verdict EXCEPT ![r] = v]
Passed(r) == at' = [at EXCEPT ![r] = @ + 1]

\* A check passes, or is the answer; the checks after it are not made.
Check(r) ==
  /\ Checking(r) /\ Checks(r)[at[r]] # "ask"
  /\ IF Checks(r)[at[r]] \in flaws
     THEN Decide(r, Checks(r)[at[r]]) /\ UNCHANGED at
     ELSE Passed(r) /\ UNCHANGED verdict
  /\ UNCHANGED <<observation, asked, span, recorded>>

\* The payload policy of the host; its panic goes through.
Ask(r) ==
  /\ Checking(r) /\ Checks(r)[at[r]] = "ask"
  /\ asked' = asked + 1
  /\ IF host = "panics" THEN Decide(r, "panic") /\ UNCHANGED at ELSE Passed(r) /\ UNCHANGED verdict
  /\ UNCHANGED <<observation, span, recorded>>

Accepted(r) == Offered(r) /\ verdict[r] = "pending" /\ at[r] > Len(Checks(r))

\* Mutant: the span is started first, so that it covers the work.
BeginEarly ==
  /\ Checking("tracker") /\ Checks("tracker")[at["tracker"]] = "ask" /\ span = "none"
  /\ span' = "open"
  /\ UNCHANGED <<observation, at, verdict, asked, recorded>>

\* tracer.Start, once everything is validated and sanitised.
Begin ==
  /\ Accepted("tracker") /\ span = "none"
  /\ span' = "open"
  /\ UNCHANGED <<observation, at, verdict, asked, recorded>>

\* Of an observation with usage, a duration and stream timings.
Due == {"usage", "duration"} \cup (IF entry = "interaction" THEN {} ELSE {"quality"})

\* recordUsageMetrics, recordOperationDuration, recordStreamingQuality: each once.
Record(m) ==
  /\ Accepted("tracker") /\ m \in Due \ recorded
  /\ span = IF m = "quality" /\ entry = "streaming" THEN "ended" ELSE "open"
  /\ m = "duration" => "usage" \in recorded
  /\ m = "quality" => "duration" \in recorded
  /\ recorded' = recorded \cup {m}
  /\ UNCHANGED <<observation, at, verdict, asked, span>>

\* The deferred span.End; a streaming completion's span ends with its
\* interaction, before its quality is recorded.
End ==
  /\ span = "open" /\ {"usage", "duration"} \subseteq recorded
  /\ entry = "operation" => recorded = Due
  /\ span' = "ended"
  /\ UNCHANGED <<observation, at, verdict, asked, recorded>>

Conclude(r) ==
  /\ Accepted(r)
  /\ r = "tracker" => span = "ended" /\ recorded = Due
  /\ Decide(r, "ok")
  /\ UNCHANGED <<observation, at, asked, span, recorded>>

RecordingNext ==
  \/ \E r \in Recorders : Check(r) \/ Ask(r) \/ Conclude(r)
  \/ Begin \/ End \/ \E m \in Due : Record(m)

RecordingSpec == RecordingInit /\ [][RecordingNext]_recordingVars

Done == \A r \in Recorders : Offered(r) => verdict[r] # "pending"

-----------------------------------------------------------------------------
\* Types, and: the payload policy is asked once at most.
RecordingTypeOK ==
  /\ entry \in Entries /\ flaws \subseteq Possible(entry)
  /\ at \in [Recorders -> 1..Len(TrackerChecks) + 1]
  /\ verdict \in [Recorders -> Flaws \cup {"pending", "ok", "panic"}]
  /\ asked \in 0..1 /\ span \in {"none", "open", "ended"} /\ recorded \subseteq Due

\* An observation that is refused, or whose policy panics, leaves no span and no
\* metric: "returns a diagnostic before writing spans or metrics".
RefusedLeavesNothing ==
  verdict["tracker"] \notin {"pending", "ok"} => span = "none" /\ recorded = {}

\* Nothing a recorder accepts has a flaw it can know of.
AcceptsFlawlessOnly ==
  /\ verdict["tracker"] = "ok" => flaws \subseteq IF payloads THEN {} ELSE {"payload", "output"}
  /\ verdict["noop"] = "ok" => flaws \subseteq {"currency", "payload", "output"}

\* Switching telemetry off adds no error, and hides only those about what the
\* tracker is configured with: its currencies and its payload policy.
NoopAgrees ==
  Done /\ Offered("noop") =>
    /\ verdict["tracker"] = "ok" => verdict["noop"] = "ok"
    /\ verdict["noop"] = "ok" => verdict["tracker"] \in {"ok", "currency", "payload", "output", "panic"}

\* The host's policy works on validated input only: limits come before it.
PolicySeesValidated == asked > 0 => payloads /\ flaws \subseteq {"output"}

\* Validation is complete before anything is written, or shown to the host, and it
\* is the same with telemetry off.
ValidatedFirst ==
  RecordingTypeOK /\ RefusedLeavesNothing /\ AcceptsFlawlessOnly /\ PolicySeesValidated /\ NoopAgrees
=============================================================================
