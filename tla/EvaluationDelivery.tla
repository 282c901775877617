------------------------ MODULE EvaluationDelivery ------------------------
(***************************************************************************)
(* Ready evaluations on their way out of a host: mapAssessment makes them, *)
(* measurementSink (examples/observation_mapping) stores each identity     *)
(* once although acknowledgements get lost and deliveries are repeated,    *)
(* and EvaluationRecorder.Record (genai/evals.go) exports one span for     *)
(* each call. An evaluation points to its score and to the handle of its   *)
(* origin, which are memory of the sender.                                 *)
(***************************************************************************)
EXTENDS Naturals

CONSTANTS
  Senders,      \* goroutines that deliver evaluations
  Ids,          \* identities of observations
  Assessments,  \* what graders give: id, state, assertion, association, traced
  Handmade,     \* evaluations a host made without mapAssessment
  MaxDelivered, \* bound: calls of one sender, of the sink and of the recorder
  NoSender      \* holder of a free mutex; owner of the memory of the sink

ASSUME NoSenderAssumption == NoSender \notin Senders
ASSUME MaxDeliveredAssumption == MaxDelivered \in Nat

VARIABLES
  recorder,     \* of a tracker, or noop
  evaluation,   \* what each sender holds, and what it points to
  memory,
  sending,      \* where each sender stands
  delivered,    \* its calls so far
  mutex,        \* s.mu
  measurements, \* s.measurements: of each id the evaluation, and the owner of what it points to
  copies,       \* the memory of the sink for each id
  committed,    \* history: of each id what its first commit stored
  told,         \* history: what was committed when accept returned, acknowledged or not
  spans,        \* the spans that ended
  records       \* history: the calls of Record that returned nil

evaluationVars == <<recorder, evaluation, memory, sending, delivered, mutex, measurements, copies,
                    committed, told, spans, records>>
sink == <<mutex, measurements, copies, committed, told>>

None == <<>>
Memory == {[score |-> score, origin |-> "valid"] : score \in {"zero", "one", "NaN"}}
          \cup {[score |-> "zero", origin |-> "disabled"]}
OneMemory == [score |-> "zero", origin |-> "valid"]

EvaluationInit ==
  /\ recorder \in {"tracker", "noop"}
  /\ evaluation = [s \in Senders |-> None] /\ memory = [s \in Senders |-> OneMemory]
  /\ sending = [s \in Senders |-> "idle"] /\ delivered = [s \in Senders |-> 0]
  /\ mutex = NoSender
  /\ measurements = [i \in Ids |-> None] /\ copies = [i \in Ids |-> OneMemory]
  /\ committed = [i \in Ids |-> None]
  /\ told = {} /\ spans = {} /\ records = {}

\* What an evaluation says, pointers followed: what reflect.DeepEqual compares.
ValueOf(e, m) ==
  [id |-> e.id, status |-> e.status, outcome |-> e.outcome, association |-> e.association,
   score |-> IF e.scored THEN m.score ELSE "nil", origin |-> IF e.traced THEN m.origin ELSE "nil"]

\* Evaluation.Validate.
Valid(e, m) ==
  LET v == ValueOf(e, m)
  IN /\ e.id \in Ids
     /\ \/ v.status = "succeeded" /\ (v.score = "nil") # (v.outcome = "") /\ v.score # "NaN"
        \/ v.status \in {"failed", "skipped"} /\ v.score = "nil" /\ v.outcome = ""
     /\ v.association # "partial"
     /\ v.origin # "disabled"

-----------------------------------------------------------------------------
Move(s, from, to) == sending[s] = from /\ sending' = [sending EXCEPT ![s] = to]

EvaluationStatus(state) ==
  CASE state \in {"scored", "assertion"} -> "succeeded"
    [] state \in {"unavailable", "grader_error"} -> "failed"
    [] state = "skipped" -> "skipped"
    [] OTHER -> "unsupported"

Mapped(a) ==
  [id |-> a.id, status |-> EvaluationStatus(a.state), scored |-> a.state = "scored",
   outcome |-> IF a.state = "assertion" THEN a.assertion ELSE "",
   association |-> a.association, traced |-> a.traced]

\* mapAssessment, or host code of its own: only the former refuses what is invalid.
Ready(s) ==
  /\ Move(s, "idle", "held")
  /\ \/ \E a \in Assessments :
          Valid(Mapped(a), memory[s]) /\ evaluation' = [evaluation EXCEPT ![s] = Mapped(a)]
     \/ \E e \in Handmade : evaluation' = [evaluation EXCEPT ![s] = e]
  /\ UNCHANGED <<recorder, memory, delivered, sink, spans, records>>

\* Between its calls the sender goes on using its memory.
Rewrite(s) ==
  /\ sending[s] = "held"
  /\ \E m \in Memory : memory' = [memory EXCEPT ![s] = m]
  /\ UNCHANGED <<recorder, evaluation, sending, delivered, sink, spans, records>>

Deliver(s) ==
  /\ delivered[s] < MaxDelivered /\ delivered' = [delivered EXCEPT ![s] = @ + 1]
  /\ Valid(evaluation[s], memory[s])

-----------------------------------------------------------------------------
(* measurementSink.accept *)

\* The evaluation is valid; an invalid one is refused and changes nothing.
Accept(s) ==
  /\ Move(s, "held", "accepting") /\ Deliver(s)
  /\ UNCHANGED <<recorder, evaluation, memory, sink, spans, records>>

Stored(i) == ValueOf(measurements[i].of, IF measurements[i].owner = NoSender THEN copies[i]
                                         ELSE memory[measurements[i].owner])
Conflicts(s) ==
  LET i == evaluation[s].id
  IN measurements[i] # None /\ Stored(i) # ValueOf(evaluation[s], memory[s])

Lock(s) ==
  /\ mutex = NoSender /\ mutex' = s
  /\ Move(s, "accepting", IF Conflicts(s) THEN "conflict" ELSE "storing")
  /\ UNCHANGED <<recorder, evaluation, memory, delivered, measurements, copies, committed, told, spans, records>>

\* An identity with other contents is refused.
Conflict(s) ==
  /\ Move(s, "conflict", "held") /\ mutex' = NoSender
  /\ UNCHANGED <<recorder, evaluation, memory, delivered, measurements, copies, committed, told, spans, records>>

\* Mutant: the sender's pointers are stored.
KeepPointers(s) ==
  measurements' = [measurements EXCEPT ![evaluation[s].id] = [of |-> evaluation[s], owner |-> s]]
  /\ UNCHANGED copies

\* The score and the origin are copied, then the evaluation is stored.
CopyPointers(s) ==
  /\ measurements' = [measurements EXCEPT ![evaluation[s].id] = [of |-> evaluation[s], owner |-> NoSender]]
  /\ copies' = [copies EXCEPT ![evaluation[s].id] = memory[s]]

\* Committed; whether the acknowledgement is lost, the sender may deliver again.
Store(s) ==
  /\ Move(s, "storing", "held") /\ mutex' = NoSender
  /\ CopyPointers(s)
  /\ committed' = [committed EXCEPT ![evaluation[s].id] =
                     IF @ = None THEN <<ValueOf(evaluation[s], memory[s])>> ELSE @]
  /\ told' = told \cup {ValueOf(evaluation[s], memory[s])}
  /\ UNCHANGED <<recorder, evaluation, memory, delivered, spans, records>>

-----------------------------------------------------------------------------
(* EvaluationRecorder.Record *)

\* The noop recorder validates, and does no more.
RecordNothing(s) ==
  /\ recorder = "noop" /\ sending[s] = "held" /\ Deliver(s)
  /\ UNCHANGED <<recorder, evaluation, memory, sending, sink, spans, records>>

\* The attributes are made before the span is started.
BeginRecord(s) ==
  /\ recorder = "tracker" /\ Move(s, "held", "recording") /\ Deliver(s)
  /\ UNCHANGED <<recorder, evaluation, memory, sink, spans, records>>

\* The host's policy panics on the reasoning: there is no span yet.
PolicyPanics(s) ==
  /\ Move(s, "recording", "held")
  /\ UNCHANGED <<recorder, evaluation, memory, delivered, sink, spans, records>>

\* A root span, linked to the origin if there is one.
EndRecord(s) ==
  /\ Move(s, "recording", "held")
  /\ spans' = spans \cup {[call |-> <<s, delivered[s]>>, of |-> ValueOf(evaluation[s], memory[s])]}
  /\ records' = records \cup {<<s, delivered[s]>>}
  /\ UNCHANGED <<recorder, evaluation, memory, delivered, sink>>

EvaluationNext ==
  \E s \in Senders :
    \/ Ready(s) \/ Rewrite(s)
    \/ Accept(s) \/ Lock(s) \/ Conflict(s) \/ Store(s)
    \/ RecordNothing(s) \/ BeginRecord(s) \/ PolicyPanics(s) \/ EndRecord(s)

EvaluationSpec == EvaluationInit /\ [][EvaluationNext]_evaluationVars

-----------------------------------------------------------------------------
EvaluationTypeOK ==
  /\ memory \in [Senders -> Memory] /\ copies \in [Ids -> Memory]
  /\ sending \in [Senders -> {"idle", "held", "accepting", "conflict", "storing", "recording"}]
  /\ delivered \in [Senders -> 0..MaxDelivered]
  /\ \A s \in Senders : sending[s] \in {"conflict", "storing"} <=> mutex = s
  /\ \A i \in Ids : measurements[i] = None <=> committed[i] = None

\* What is stored under an identity is what was first committed under it: not
\* changed by a conflicting delivery, by one in another goroutine, nor by a sender
\* that goes on writing to its memory ("mutation cannot rewrite the committed
\* record").
MeasurementsAreFinal == \A i \in Ids : committed[i] # None => <<Stored(i)>> = committed[i]

\* Whoever is told that his evaluation was committed, or repeats it because he was
\* not told, finds his own evaluation stored: replays agree, conflicts never win.
AnswersAreTrue == \A v \in told : committed[v.id] = <<v>>

\* "Repeated delivery retains identity but creates another observation": one span
\* for each call that returned nil, none for a refusal or a panic; and each is one
\* result, succeeded with a finite score or an outcome, or else without either, and
\* linked to nothing but a valid origin.
SpansAreResults ==
  /\ {x.call : x \in spans} = records /\ (recorder = "noop" => spans = {})
  /\ \A x \in spans :
       /\ x.of.id \in Ids /\ x.of.origin \in {"nil", "valid"} /\ x.of.score # "NaN"
       /\ (x.of.score # "nil" \/ x.of.outcome # "") = (x.of.status = "succeeded")
       /\ x.of.score = "nil" \/ x.of.outcome = ""

\* Evaluations are stored once and exported as they were.
DeliveredAsTheyWere == EvaluationTypeOK /\ MeasurementsAreFinal /\ AnswersAreTrue /\ SpansAreResults
=============================================================================
