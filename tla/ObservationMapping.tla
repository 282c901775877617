------------------------- MODULE ObservationMapping -------------------------
(***************************************************************************)
(* examples/observation_mapping/mapping.go: how a host maps what its model *)
(* client reports to a result for Finish. Output tokens arrive as a stream *)
(* of updates, each of which may be lost, duplicated or reordered on its   *)
(* way; normalizeUpdates reads what arrived; mapModel adds the other       *)
(* readings and the outcome. Nothing is recorded of a mapping refused.     *)
(***************************************************************************)
EXTENDS Integers, Sequences

CONSTANTS
  Streams,     \* what producers send: sequences of [mode, tokens]
  MaxArrivals, \* bound: updates that arrive
  MaxTotal,    \* the largest int
  Inputs       \* readings of the input tokens and of the reasoning tokens

\* Amounts are ints.
ASSUME StreamsAssumption ==
  /\ MaxTotal \in Nat
  /\ \A s \in Streams : s \in Seq([mode : STRING, tokens : {n \in Int : n <= MaxTotal}])

ASSUME InputsAssumption ==
  \A input \in Inputs :
    input \in [{"input", "reasoning"} -> [value : Int, known : BOOLEAN, source : STRING, unit : STRING]]

VARIABLES
  stream,   \* the producer's updates; the last one is marked terminal
  arrived,  \* positions in it of the updates that arrived, in order
  read,     \* updates normalizeUpdates has read
  total,    \* its total
  mapping,  \* "receiving", "normalizing", "normalized", "mapped", "refused"
  readings, \* the other readings of the result
  ended,    \* how the call of the model ended: state, and error if any
  result    \* what mapModel returned

mappingVars == <<stream, arrived, read, total, mapping, readings, ended, result>>

NoReadings == <<>>
NoResult == [status |-> "none", class |-> "none", usage |-> <<>>]
States == {"completed", "refusal", "incomplete", "failed", "cancelled", "deadline", "unknown", "unsupported"}
Errors == {"nil", "canceled", "deadline", "other"}

MappingInit ==
  /\ stream \in Streams /\ arrived = <<>>
  /\ read = 0 /\ total = 0 /\ mapping = "receiving"
  /\ readings = NoReadings
  /\ ended = [state |-> "unknown", error |-> "nil"] /\ result = NoResult

\* An update arrives: the next one, one again, or one out of turn.
Arrive ==
  /\ mapping = "receiving" /\ Len(arrived) < MaxArrivals
  /\ \E i \in DOMAIN stream : arrived' = Append(arrived, i)
  /\ UNCHANGED <<stream, read, total, mapping, readings, ended, result>>

Refusal == mapping' = "refused" /\ UNCHANGED <<stream, arrived, readings, ended, result>>

Terminal(k) == arrived[k] = Len(stream)
Update(k) == stream[arrived[k]]
Finished == arrived # <<>> /\ Terminal(Len(arrived))

\* The host stops reading: the last update it has must be terminal.
StartNormalizing ==
  /\ mapping = "receiving" /\ Finished
  /\ mapping' = "normalizing"
  /\ UNCHANGED <<stream, arrived, read, total, readings, ended, result>>

RefuseUnfinished ==
  /\ mapping = "receiving" /\ ~Finished
  /\ Refusal /\ UNCHANGED <<read, total>>

\* Mutant: updates are read as they come.
AnyOrder(k) ==
  /\ Update(k).mode = Update(1).mode /\ Update(k).tokens >= 0
  /\ Update(k).mode = "delta" => Update(k).tokens <= MaxTotal - total
  /\ Update(k).mode = "cumulative" => Update(k).tokens >= total
  /\ Update(k).mode \in {"delta", "cumulative"}

\* The k-th update that arrived is the k-th of the stream, in the same mode as the
\* first; a sum does not overflow, a running total does not fall.
Continues(k) ==
  /\ arrived[k] = k /\ (Terminal(k) => k = Len(arrived))
  /\ Update(k).mode = Update(1).mode /\ Update(k).tokens >= 0
  /\ Update(k).mode = "delta" => Update(k).tokens <= MaxTotal - total
  /\ Update(k).mode = "cumulative" => Update(k).tokens >= total
  /\ Update(k).mode \in {"delta", "cumulative"}

ReadUpdate ==
  /\ mapping = "normalizing" /\ read < Len(arrived) /\ Continues(read + 1)
  /\ read' = read + 1
  /\ total' = Update(read').tokens + IF Update(read').mode = "delta" THEN total ELSE 0
  /\ UNCHANGED <<stream, arrived, mapping, readings, ended, result>>

RefuseUpdate ==
  /\ mapping = "normalizing" /\ read < Len(arrived) /\ ~Continues(read + 1)
  /\ Refusal /\ UNCHANGED <<read, total>>

Normalized ==
  /\ mapping = "normalizing" /\ read = Len(arrived)
  /\ mapping' = "normalized"
  /\ UNCHANGED <<stream, arrived, read, total, readings, ended, result>>

-----------------------------------------------------------------------------
\* mapReading: an unknown reading says nothing; a known one has a source and the
\* unit of tokens.
MapsReading(r) ==
  IF r.known THEN r.source \in {"observed", "reported", "estimated"} /\ r.unit = "tokens"
  ELSE r.value = 0 /\ r.unit = "" /\ r.source \in {"", "unknown"}

\* Usage.Validate: no negative value, no component beyond its total.
ValidReadings(input) ==
  /\ \A name \in DOMAIN input : MapsReading(input[name]) /\ input[name].value >= 0
  /\ input["reasoning"].known => input["reasoning"].value <= total

\* mapUsage: the values that are known; an unknown one stays absent.
MappedUsage(input) ==
  {[name |-> name, value |-> input[name].value] : name \in {m \in DOMAIN input : input[m].known}}
  \cup {[name |-> "output", value |-> total]}

\* The switch on the state of the result.
StatusOf(state) == CASE state \in {"completed", "refusal", "incomplete"} -> "ok"
                     [] state \in {"failed", "cancelled", "deadline"} -> "error"
                     [] OTHER -> "unset"
ClassOf(state) == CASE state = "failed" -> "unknown"
                    [] state = "cancelled" -> "cancelled"
                    [] state = "deadline" -> "deadline_exceeded"
                    [] OTHER -> ""
ClassOfError(error) == CASE error = "canceled" -> "cancelled"
                         [] error = "deadline" -> "deadline_exceeded"
                         [] OTHER -> "unknown"

\* An error makes the result an error; a state that is evidence of its own kind
\* keeps its class.
Outcome(state, error) ==
  [status |-> IF error # "nil" THEN "error" ELSE StatusOf(state),
   class |-> IF error # "nil" /\ ClassOf(state) \in {"", "unknown"} THEN ClassOfError(error) ELSE ClassOf(state)]

MapModel ==
  /\ mapping = "normalized"
  /\ \E input \in Inputs, state \in States, error \in Errors :
       LET maps == state # "unsupported" /\ ValidReadings(input)
           outcome == Outcome(state, error)
       IN /\ readings' = input /\ ended' = [state |-> state, error |-> error]
          /\ mapping' = IF maps THEN "mapped" ELSE "refused"
          /\ result' = IF maps THEN [status |-> outcome.status, class |-> outcome.class, usage |-> MappedUsage(input)]
                       ELSE result
  /\ UNCHANGED <<stream, arrived, read, total>>

MappingNext ==
  \/ Arrive \/ StartNormalizing \/ RefuseUnfinished \/ ReadUpdate \/ RefuseUpdate \/ Normalized
  \/ MapModel

MappingSpec == MappingInit /\ [][MappingNext]_mappingVars

-----------------------------------------------------------------------------
MappingTypeOK ==
  /\ stream \in Streams /\ arrived \in Seq(DOMAIN stream) /\ read \in 0..Len(arrived)
  /\ total \in 0..MaxTotal
  /\ mapping \in {"receiving", "normalizing", "normalized", "mapped", "refused"}

Rising == \A i, j \in DOMAIN stream : i < j => stream[i].tokens <= stream[j].tokens

\* What the producer said in the end, if it said it without contradiction.
ModeOf(mode) == \A i \in DOMAIN stream : stream[i].mode = mode /\ stream[i].tokens >= 0
Sums == {sum \in [0..Len(stream) -> 0..MaxTotal] :
           sum[0] = 0 /\ \A i \in DOMAIN stream : sum[i] = sum[i - 1] + stream[i].tokens}
Produced == CASE ModeOf("delta") -> {sum[Len(stream)] : sum \in Sums}
              [] ModeOf("cumulative") /\ ~ModeOf("delta") ->
                   IF Rising THEN {stream[Len(stream)].tokens} ELSE {}
              [] OTHER -> {}

\* A total is mapped only when it is the producer's own, of the whole stream,
\* whatever the channel lost, repeated or reordered.
TotalIsTheProducers ==
  mapping \in {"normalized", "mapped"} => total \in Produced /\ arrived = [i \in DOMAIN stream |-> i]

\* Nothing is made up: what was known is there, zeros included, what was unknown is
\* not, and no component exceeds the total that was produced.
UsageIsReported ==
  mapping = "mapped" =>
    /\ \A name \in DOMAIN readings :
         {u.value : u \in {v \in result.usage : v.name = name}} =
           IF readings[name].known THEN {readings[name].value} ELSE {}
    /\ \A u, v \in result.usage : u.name = "reasoning" /\ v.name = "output" => u.value <= v.value

\* An error is never a success, a result without an outcome is neither, and what
\* is known of a cancellation or a deadline is not lost to a vaguer class.
OutcomeIsReported ==
  mapping = "mapped" =>
    /\ (result.status = "error") = (ended.error # "nil" \/ ended.state \in {"failed", "cancelled", "deadline"})
    /\ (result.class # "") = (result.status = "error")
    /\ result.status = "ok" => ended.state \in {"completed", "refusal", "incomplete"}
    /\ ended.state \in {"cancelled", "deadline"} => result.class = ClassOf(ended.state)
    /\ ended.state \notin {"cancelled", "deadline"} /\ ended.error \in {"canceled", "deadline"} =>
         result.class = ClassOfError(ended.error)

\* What a host maps is what its client reported.
MappedIsReported == MappingTypeOK /\ TotalIsTheProducers /\ UsageIsReported /\ OutcomeIsReported
=============================================================================
