-------------------------- MODULE MetricDimensions --------------------------
(***************************************************************************)
(* metricDimensions of package genai: it decides, for every data point a   *)
(* tracker records, the attribute combination under which the metric SDK   *)
(* will see it, so that no instrument grows beyond Profile.SeriesBudget    *)
(* combinations. The cache of combinations is shared by every goroutine    *)
(* that records and guarded by one mutex.                                  *)
(*                                                                         *)
(* A data point has semantic attributes, which are never rewritten (they   *)
(* carry the meaning of the value: currency, provenance, outcome...), and  *)
(* labels, which are.                                                      *)
(***************************************************************************)
EXTENDS Integers, FiniteSets

CONSTANTS Goroutines,
          Nobody,      \* holder of a free mutex
          Instruments, \* the instruments in use
          Currencies,  \* values of the CostCurrency dimension of the profile
          Labels,      \* label keys
          Values,      \* what callers pass for them
          Allowed,     \* Allowed[key]: the values the profile declares
          Unlisted,    \* what replaces any other value ("unknown", or 0)
          NoPoint,     \* of a goroutine that records nothing
          Budget       \* Profile.SeriesBudget

-----------------------------------------------------------------------------
Sources == {"measured", "provider_reported", "estimated"}
Outcomes == {"ok", "error", "unset"}
Components == {"cache_write", "cache_read", "reasoning"}
Boundaries == {"local_agent", "remote_agent", "local_workflow"}

SourceInstruments == {"input_tokens", "output_tokens", "video_seconds", "video_frames",
                      "derived_rate", "derived_interval"}
OutcomeInstruments == {"tool_duration", "operation_duration", "observed_duration"}

AllInstruments == SourceInstruments \cup OutcomeInstruments
                    \cup {"components", "cost", "invocation_duration", "ttft"}

\* The semantic attributes with which each recording site calls normalize: a
\* discriminator, if the instrument has one, and a source or an outcome.
SemanticOf(i) ==
  CASE i \in SourceInstruments -> {"none"} \X Sources
    [] i \in OutcomeInstruments -> {"none"} \X Outcomes
    [] i = "components" -> Components \X Sources
    [] i = "cost" -> Currencies \X Sources
    [] i = "invocation_duration" -> Boundaries \X Outcomes
    [] OTHER -> {"none"} \X {"none"}

\* overflowReserve, and the override of normalize for the cost instrument.
Reserve(i) ==
  CASE i \in SourceInstruments \cup OutcomeInstruments -> 3
    [] i \in {"components", "invocation_duration"} -> 9
    [] i = "cost" -> 3 * (IF Currencies = {} THEN 1 ELSE Cardinality(Currencies))
    [] OTHER -> 1

ASSUME NobodyAssumption == Nobody \notin Goroutines
ASSUME InstrumentsAssumption == Instruments \subseteq AllInstruments
ASSUME CurrenciesAssumption == IsFiniteSet(Currencies)
ASSUME BudgetAssumption == Budget \in Nat /\ \A i \in Instruments : Reserve(i) <= Budget

-----------------------------------------------------------------------------
Listed(k) == Allowed[k] \cup {Unlisted}

\* The loop of normalize over the attributes that are not semantic.
Normalized(labels) ==
  [k \in Labels |-> IF labels[k] \in Allowed[k] THEN labels[k] ELSE Unlisted]

VARIABLES mutex,        \* holder of d.mu
          pc,           \* where each goroutine is in normalize
          point,        \* the data point it is recording, its labels normalized
          combinations, \* d.combinations
          overflowed    \* history: the combinations answered with overflow

vars == <<mutex, pc, point, combinations, overflowed>>

Init ==
  /\ mutex = Nobody
  /\ pc = [g \in Goroutines |-> "idle"]
  /\ point = [g \in Goroutines |-> NoPoint]
  /\ combinations = [i \in Instruments |-> {}]
  /\ overflowed = [i \in Instruments |-> {}]

Combination(g) == [semantic |-> point[g].semantic, labels |-> point[g].labels]

\* A recording site calls normalize: the loop over the attributes, no lock yet.
Normalize(g) ==
  /\ pc[g] = "idle"
  /\ pc' = [pc EXCEPT ![g] = "lock"]
  /\ \E i \in Instruments : \E s \in SemanticOf(i), labels \in [Labels -> Values] :
       point' = [point EXCEPT ![g] =
                   [instrument |-> i, semantic |-> s, labels |-> Normalized(labels)]]
  /\ UNCHANGED <<mutex, combinations, overflowed>>

\* The decision of normalize on a set of combinations seen before.
Decision(g, seen) ==
  CASE Combination(g) \in seen -> "known"
    [] Combination(g) \notin seen /\ Cardinality(seen) < Budget - Reserve(point[g].instrument) -> "admit"
    [] OTHER -> "overflow"

\* d.mu.Lock, and the decision under it.
LookupIn(g, seen) ==
  /\ pc[g] = "lock"
  /\ pc' = [pc EXCEPT ![g] = Decision(g, seen)]
  /\ UNCHANGED <<point, combinations, overflowed>>

\* Mutant: room is looked for before the mutex is taken.
LookupUnlocked(g) == LookupIn(g, combinations[point[g].instrument]) /\ UNCHANGED mutex

Lookup(g) ==
  mutex = Nobody /\ mutex' = g /\ LookupIn(g, combinations[point[g].instrument])

\* The deferred d.mu.Unlock, with the answer.
Return(g, from) ==
  /\ pc[g] = from
  /\ pc' = [pc EXCEPT ![g] = "idle"]
  /\ point' = [point EXCEPT ![g] = NoPoint]
  /\ mutex' = IF mutex = g THEN Nobody ELSE mutex

Known(g) ==
  Return(g, "known") /\ UNCHANGED <<combinations, overflowed>>

Admit(g) ==
  /\ Return(g, "admit")
  /\ combinations' = [combinations EXCEPT ![point[g].instrument] = @ \cup {Combination(g)}]
  /\ UNCHANGED overflowed

\* Mutant: a full cache is emptied to make room.
EvictAndAdmit(g) ==
  /\ Return(g, "overflow")
  /\ combinations' = [combinations EXCEPT ![point[g].instrument] = {Combination(g)}]
  /\ overflowed' = [overflowed EXCEPT ![point[g].instrument] =
                      @ \cup combinations[point[g].instrument]]

\* The semantic attributes alone, with the overflow mark.
Overflow(g) ==
  /\ Return(g, "overflow")
  /\ overflowed' = [overflowed EXCEPT ![point[g].instrument] = @ \cup {Combination(g)}]
  /\ UNCHANGED combinations

Next == \E g \in Goroutines :
          Normalize(g) \/ Lookup(g) \/ Known(g) \/ Admit(g) \/ Overflow(g)

Spec == Init /\ [][Next]_vars
-----------------------------------------------------------------------------
LabelSets == {l \in [Labels -> UNION {Listed(k) : k \in Labels}] :
                \A k \in Labels : l[k] \in Listed(k)}

Combinations(i) == [semantic : SemanticOf(i), labels : LabelSets]

Points == UNION {[instrument : {i}, semantic : SemanticOf(i), labels : LabelSets] : i \in Instruments}

\* Types of the variables; in particular only declared label values, or what
\* replaces them, leave through a metric.
TypeOK ==
  /\ mutex \in Goroutines \cup {Nobody}
  /\ pc \in [Goroutines -> {"idle", "lock", "known", "admit", "overflow"}]
  /\ point \in [Goroutines -> Points \cup {NoPoint}]
  /\ \A g \in Goroutines : pc[g] # "idle" => point[g] \in Points
  /\ \A history \in {combinations, overflowed} :
       /\ history \in [Instruments -> SUBSET UNION {Combinations(i) : i \in Instruments}]
       /\ \A i \in Instruments : history[i] \subseteq Combinations(i)

\* All overflow data points of an instrument with the same semantic attributes
\* make one series.
OverflowSeries(i) == {c.semantic : c \in overflowed[i]}

\* "SeriesBudget includes semantic-preserving overflow series per instrument"
\* (genai/profile.go): the reserve leaves room for every overflow series, even
\* when goroutines race for the last free combination.
SeriesWithinBudget ==
  \A i \in Instruments :
    Cardinality(combinations[i]) + Cardinality(OverflowSeries(i)) <= Budget

\* A combination is never exported under its own labels and in overflow: its
\* data points stay in one series for the life of the tracker.
OneRoute == \A i \in Instruments : combinations[i] \cap overflowed[i] = {}

\* Detail is given up only by an instrument that used its whole allowance, never
\* on account of another one.
OverflowOnlyWhenFull ==
  \A i \in Instruments :
    overflowed[i] # {} => Cardinality(combinations[i]) = Budget - Reserve(i)

\* Where a data point goes is justified and final.
StableRoutes == TypeOK /\ OneRoute /\ OverflowOnlyWhenFull
=============================================================================
