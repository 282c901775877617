---------------------------- MODULE MCDeferred ----------------------------
(***************************************************************************)
(* What is recorded of an operation later, and on unreliable ways; a       *)
(* behaviour has one of: two operations and two workers, a token delivered *)
(* up to twice; two senders of evaluations of two identities; a stream of  *)
(* up to three updates, of which up to four arrive.                        *)
(***************************************************************************)
EXTENDS AsyncContinuation, EvaluationDelivery, ObservationMapping, TLC

CONSTANTS j1, j2, w1, w2, s1, s2
TwoJobs == {j1, j2}
TwoWorkers == {w1, w2}
TwoSenders == {s1, s2}
Alike == Permutations(TwoJobs) \cup Permutations(TwoWorkers) \cup Permutations(TwoSenders)

-----------------------------------------------------------------------------
Assessment(state, assertion, association, traced) ==
  [id |-> "e1", state |-> state, assertion |-> assertion, association |-> association, traced |-> traced]

SomeAssessments ==
  {Assessment("scored", "", "none", FALSE), Assessment("scored", "", "whole", TRUE),
   Assessment("scored", "", "partial", FALSE), [Assessment("scored", "", "none", FALSE) EXCEPT !.id = "e2"],
   Assessment("assertion", "false", "none", FALSE),
   Assessment("grader_error", "", "none", FALSE), Assessment("later", "", "none", FALSE)}

Made(status, scored, outcome) ==
  [id |-> "e1", status |-> status, scored |-> scored, outcome |-> outcome, association |-> "none", traced |-> FALSE]

\* A result twice, none at all, one of a failure, no identity.
SomeHandmade ==
  {Made("succeeded", TRUE, "true"), Made("succeeded", FALSE, ""), Made("failed", TRUE, ""),
   [Made("succeeded", TRUE, "") EXCEPT !.id = ""]}

-----------------------------------------------------------------------------
UpdatesOf(mode, amounts) == [i \in DOMAIN amounts |-> [mode |-> mode, tokens |-> amounts[i]]]

\* Streams in one mode, of amounts among which two overflow an int of 3 bits; one
\* of a mode unknown, one that changes it.
SomeStreams ==
  {UpdatesOf(mode, amounts) :
     mode \in {"delta", "cumulative"}, amounts \in UNION {[1..n -> {-1, 0, 1, 3}] : n \in 1..3}}
  \cup {UpdatesOf("other", <<1>>), UpdatesOf("delta", <<1>>) \o UpdatesOf("cumulative", <<1>>)}

Reading(value, known, source, unit) == [value |-> value, known |-> known, source |-> source, unit |-> unit]
NoReading == Reading(0, FALSE, "", "")

\* Known and unknown ones, a known zero, contradictions, and each malformed.
SomeReadings ==
  {NoReading, Reading(0, FALSE, "unknown", ""), Reading(1, FALSE, "", ""), Reading(0, FALSE, "observed", ""),
   Reading(0, TRUE, "observed", "tokens"), Reading(2, TRUE, "estimated", "tokens"),
   Reading(1, TRUE, "guessed", "tokens"), Reading(1, TRUE, "reported", "money")}
SomeInputs ==
  {("input" :> r) @@ ("reasoning" :> NoReading) : r \in SomeReadings}
  \cup {("input" :> NoReading) @@ ("reasoning" :> r) : r \in SomeReadings}

-----------------------------------------------------------------------------
VARIABLE part

OneStream == MappingInit /\ stream = <<[mode |-> "other", tokens |-> 1]>>
NoEvaluation == EvaluationInit /\ recorder = "noop"
NoContinuation ==
  Init /\ producer = "noop" /\ consumer = "noop" /\ tracing = "noop" /\ \A j \in Jobs : caller[j] = "none"

MCInit ==
  \/ part = "continuation" /\ Init /\ NoEvaluation /\ OneStream
  \/ part = "evaluation" /\ NoContinuation /\ EvaluationInit /\ OneStream
  \/ part = "mapping" /\ NoContinuation /\ NoEvaluation /\ MappingInit

MCNext ==
  /\ UNCHANGED part
  /\ \/ part = "continuation" /\ Next /\ UNCHANGED <<evaluationVars, mappingVars>>
     \/ part = "evaluation" /\ EvaluationNext /\ UNCHANGED <<vars, mappingVars>>
     \/ part = "mapping" /\ MappingNext /\ UNCHANGED <<vars, evaluationVars>>

mcVars == <<part, vars, evaluationVars, mappingVars>>

MCSpec == MCInit /\ [][MCNext]_mcVars
=============================================================================
