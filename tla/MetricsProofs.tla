----------------------------- MODULE MetricsProofs ---------------------------
(***************************************************************************)
(* Proofs about the parts of the metrics that goroutines share: the budget *)
(* of series, for any number of goroutines, any profile and any budget;    *)
(* the registry of names, for any names, kinds and callers; the exporter   *)
(* of tests, for any readers and number of cycles.                         *)
(***************************************************************************)
EXTENDS MetricDimensions, MetricsRegistry, Exporter, FiniteSetTheorems, TLAPS

-----------------------------------------------------------------------------
(* MetricDimensions. The inductive invariant relates the decision a        *)
(* goroutine took under the mutex to the cache it is about to change.      *)

\* Between the decision and the return, the mutex is held.
Holder == \A g \in Goroutines : pc[g] \in {"known", "admit", "overflow"} => mutex = g

\* The decision is still right when it is carried out.
Decided ==
  \A g \in Goroutines :
    LET i == point[g].instrument
    IN  /\ pc[g] = "admit" => /\ Combination(g) \notin combinations[i]
                              /\ Cardinality(combinations[i]) < Budget - Reserve(i)
        /\ pc[g] = "overflow" => /\ Combination(g) \notin combinations[i]
                                 /\ Cardinality(combinations[i]) >= Budget - Reserve(i)

Bounded ==
  \A i \in Instruments :
    IsFiniteSet(combinations[i]) /\ Cardinality(combinations[i]) <= Budget - Reserve(i)

Inv == TypeOK /\ Holder /\ Decided /\ Bounded /\ OverflowOnlyWhenFull /\ OneRoute

-----------------------------------------------------------------------------
\* The sources, the outcomes, the components and the boundaries are three each
\* (provenanceCount, outcomeCount, ... of cardinality.go).
LEMMA Triple ==
  ASSUME NEW a, NEW b, NEW c, a # b, a # c, b # c
  PROVE  IsFiniteSet({a, b, c}) /\ Cardinality({a, b, c}) = 3
<1>1. IsFiniteSet({a}) /\ Cardinality({a}) = 1
  BY FS_Singleton
<1>2. IsFiniteSet({a} \cup {b}) /\ Cardinality({a} \cup {b}) = 2
  BY <1>1, FS_AddElement
<1>3. IsFiniteSet(({a} \cup {b}) \cup {c}) /\ Cardinality(({a} \cup {b}) \cup {c}) = 3
  BY <1>2, FS_AddElement
<1>4. ({a} \cup {b}) \cup {c} = {a, b, c}
  OBVIOUS
<1> QED
  BY <1>3, <1>4

\* overflowReserve leaves room for every semantic combination of the instrument.
LEMMA ReserveCoversSemantics ==
  ASSUME NEW i \in AllInstruments
  PROVE  /\ IsFiniteSet(SemanticOf(i))
         /\ Cardinality(SemanticOf(i)) <= Reserve(i)
         /\ Reserve(i) \in Nat
<1> DEFINE Small(S, n) == IsFiniteSet(S) /\ Cardinality(S) = n
<1>1. /\ Small(Sources, 3)
      /\ Small(Outcomes, 3)
      /\ Small(Components, 3)
      /\ Small(Boundaries, 3)
      /\ Small({"none"}, 1)
  <2>1. /\ "measured" # "provider_reported"
        /\ "measured" # "estimated"
        /\ "provider_reported" # "estimated"
        /\ "ok" # "error" /\ "ok" # "unset" /\ "error" # "unset"
        /\ "cache_write" # "cache_read"
        /\ "cache_write" # "reasoning"
        /\ "cache_read" # "reasoning"
        /\ "local_agent" # "remote_agent"
        /\ "local_agent" # "local_workflow"
        /\ "remote_agent" # "local_workflow"
    BY SMT
  <2>2. Small(Sources, 3)
    BY <2>1, Triple DEF Sources
  <2>3. Small(Outcomes, 3)
    BY <2>1, Triple DEF Outcomes
  <2>4. Small(Components, 3)
    BY <2>1, Triple DEF Components
  <2>5. Small(Boundaries, 3)
    BY <2>1, Triple DEF Boundaries
  <2>6. Small({"none"}, 1)
    BY FS_Singleton
  <2> QED BY <2>2, <2>3, <2>4, <2>5, <2>6
<1>2. ASSUME NEW S, NEW T, NEW m \in Nat, NEW n \in Nat, Small(S, m), Small(T, n)
      PROVE  Small(S \X T, m * n)
  BY <1>2, FS_Product
<1>3. Small(Currencies, Cardinality(Currencies)) /\ Cardinality(Currencies) \in Nat
  BY CurrenciesAssumption, FS_CardinalityType
<1> HIDE DEF Small
<1>4. CASE i \in SourceInstruments
  <2>1. SemanticOf(i) = {"none"} \X Sources /\ Reserve(i) = 3
    BY <1>4 DEF SemanticOf, Reserve, SourceInstruments, OutcomeInstruments
  <2>2. Small({"none"} \X Sources, 1 * 3)
    BY <1>1, <1>2
  <2> QED BY <2>1, <2>2 DEF Small
<1>5. CASE i \in OutcomeInstruments
  <2>1. SemanticOf(i) = {"none"} \X Outcomes /\ Reserve(i) = 3
    BY <1>5 DEF SemanticOf, Reserve, SourceInstruments, OutcomeInstruments
  <2>2. Small({"none"} \X Outcomes, 1 * 3)
    BY <1>1, <1>2
  <2> QED BY <2>1, <2>2 DEF Small
<1>6. CASE i = "components"
  <2>1. SemanticOf(i) = Components \X Sources /\ Reserve(i) = 9
    BY <1>6 DEF SemanticOf, Reserve, SourceInstruments, OutcomeInstruments
  <2>2. Small(Components \X Sources, 3 * 3)
    BY <1>1, <1>2
  <2> QED BY <2>1, <2>2 DEF Small
<1>7. CASE i = "invocation_duration"
  <2>1. SemanticOf(i) = Boundaries \X Outcomes /\ Reserve(i) = 9
    BY <1>7 DEF SemanticOf, Reserve, SourceInstruments, OutcomeInstruments
  <2>2. Small(Boundaries \X Outcomes, 3 * 3)
    BY <1>1, <1>2
  <2> QED BY <2>1, <2>2 DEF Small
<1>8. CASE i = "ttft"
  <2>1. SemanticOf(i) = {"none"} \X {"none"} /\ Reserve(i) = 1
    BY <1>8 DEF SemanticOf, Reserve, SourceInstruments, OutcomeInstruments
  <2>2. Small({"none"} \X {"none"}, 1 * 1)
    BY <1>1, <1>2
  <2> QED BY <2>1, <2>2 DEF Small
<1>9. CASE i = "cost"
  <2>1. /\ SemanticOf(i) = Currencies \X Sources
        /\ Reserve(i) = 3 * (IF Currencies = {} THEN 1 ELSE Cardinality(Currencies))
    BY <1>9 DEF SemanticOf, Reserve, SourceInstruments, OutcomeInstruments
  <2>2. Small(Currencies \X Sources, Cardinality(Currencies) * 3)
    BY <1>1, <1>2, <1>3
  <2>3. Currencies = {} => Cardinality(Currencies) = 0
    BY FS_EmptySet
  <2> QED BY <1>3, <2>1, <2>2, <2>3 DEF Small
<1> QED
  BY <1>4, <1>5, <1>6, <1>7, <1>8, <1>9 DEF AllInstruments

\* The overflow series of an instrument are no more than its reserve, whatever
\* was answered with overflow.
LEMMA OverflowFitsReserve ==
  ASSUME NEW i \in Instruments, NEW S, S \subseteq Combinations(i)
  PROVE  /\ IsFiniteSet({c.semantic : c \in S})
         /\ Cardinality({c.semantic : c \in S}) \in Nat
         /\ Cardinality({c.semantic : c \in S}) <= Reserve(i)
<1>1. {c.semantic : c \in S} \subseteq SemanticOf(i)
  BY DEF Combinations
<1>2. /\ IsFiniteSet(SemanticOf(i))
      /\ Cardinality(SemanticOf(i)) <= Reserve(i)
      /\ Reserve(i) \in Nat
  BY ReserveCoversSemantics, InstrumentsAssumption
<1>3. /\ IsFiniteSet({c.semantic : c \in S})
      /\ Cardinality({c.semantic : c \in S}) <= Cardinality(SemanticOf(i))
  BY <1>1, <1>2, FS_Subset
<1>4. Cardinality({c.semantic : c \in S}) \in Nat /\ Cardinality(SemanticOf(i)) \in Nat
  BY <1>2, <1>3, FS_CardinalityType
<1> QED
  BY <1>2, <1>3, <1>4

-----------------------------------------------------------------------------
\* Labels leave the loop of normalize declared or replaced.
LEMMA NormalizedLabels ==
  ASSUME NEW labels \in [Labels -> Values]
  PROVE  Normalized(labels) \in LabelSets
<1>1. \A k \in Labels : Normalized(labels)[k] \in Listed(k)
  BY DEF Normalized, Listed
<1>2. Normalized(labels) \in [Labels -> UNION {Listed(k) : k \in Labels}]
  BY <1>1 DEF Normalized
<1> QED
  BY <1>1, <1>2 DEF LabelSets

\* A data point is a combination of its instrument.
LEMMA PointParts ==
  ASSUME NEW g, point[g] \in Points
  PROVE  /\ point[g].instrument \in Instruments
         /\ Combination(g) \in Combinations(point[g].instrument)
<1>1. PICK i \in Instruments :
        point[g] \in [instrument : {i}, semantic : SemanticOf(i), labels : LabelSets]
  BY DEF Points
<1> QED
  BY <1>1 DEF Combination, Combinations

\* The decision, as its three cases.
LEMMA DecisionCases ==
  ASSUME NEW g, NEW seen, NEW d, d = Decision(g, seen)
  PROVE  /\ d \in {"known", "admit", "overflow"}
         /\ d = "admit" => /\ Combination(g) \notin seen
                           /\ Cardinality(seen) < Budget - Reserve(point[g].instrument)
         /\ d = "overflow" => /\ Combination(g) \notin seen
                              /\ ~(Cardinality(seen) < Budget - Reserve(point[g].instrument))
BY DEF Decision

\* The empty cache satisfies the invariant.
LEMMA InitInv == Init => Inv
<1> SUFFICES ASSUME Init PROVE Inv
  OBVIOUS
<1>1. TypeOK
  BY DEF Init, TypeOK
<1>2. Holder /\ Decided
  BY DEF Init, Holder, Decided
<1>3. Bounded
  <2> SUFFICES ASSUME NEW i \in Instruments
               PROVE  IsFiniteSet({}) /\ Cardinality({}) <= Budget - Reserve(i)
    BY DEF Bounded, Init
  <2>1. Reserve(i) \in Nat /\ Budget \in Nat /\ Reserve(i) <= Budget
    BY ReserveCoversSemantics, InstrumentsAssumption, BudgetAssumption
  <2> QED
    BY <2>1, FS_EmptySet
<1>4. OverflowOnlyWhenFull /\ OneRoute
  BY DEF Init, OverflowOnlyWhenFull, OneRoute
<1> QED
  BY <1>1, <1>2, <1>3, <1>4 DEF Inv

\* Every step preserves the invariant.
LEMMA StepInv == Inv /\ [Next]_vars => Inv'
<1> SUFFICES ASSUME Inv, [Next]_vars
             PROVE  Inv'
  OBVIOUS
<1> USE DEF Inv
<1>n. \A i \in Instruments : Reserve(i) \in Nat /\ Reserve(i) <= Budget /\ Budget \in Nat
  BY ReserveCoversSemantics, InstrumentsAssumption, BudgetAssumption
<1>1. ASSUME NEW g \in Goroutines, Normalize(g)
      PROVE  Inv'
  <2>0. PICK i \in Instruments : \E s \in SemanticOf(i), labels \in [Labels -> Values] :
          point' = [point EXCEPT ![g] =
                      [instrument |-> i, semantic |-> s, labels |-> Normalized(labels)]]
    BY <1>1 DEF Normalize
  <2>1. PICK s \in SemanticOf(i), labels \in [Labels -> Values] :
          point' = [point EXCEPT ![g] =
                      [instrument |-> i, semantic |-> s, labels |-> Normalized(labels)]]
    BY <2>0
  <2>2. [instrument |-> i, semantic |-> s, labels |-> Normalized(labels)] \in Points
    BY NormalizedLabels DEF Points
  <2>3. TypeOK'
    BY <1>1, <2>1, <2>2 DEF Normalize, TypeOK
  <2>4. Holder' /\ Decided'
    BY <1>1, <2>1 DEF Normalize, TypeOK, Holder, Decided, Combination
  <2>5. Bounded' /\ OverflowOnlyWhenFull' /\ OneRoute'
    BY <1>1 DEF Normalize, Bounded, OverflowOnlyWhenFull, OneRoute
  <2> QED
    BY <2>3, <2>4, <2>5
<1>2. ASSUME NEW g \in Goroutines, Lookup(g)
      PROVE  Inv'
  <2> DEFINE i == point[g].instrument
  <2>1. /\ pc[g] = "lock"
        /\ mutex = Nobody
        /\ mutex' = g
        /\ pc' = [pc EXCEPT ![g] = Decision(g, combinations[i])]
        /\ UNCHANGED <<point, combinations, overflowed>>
    BY <1>2 DEF Lookup, LookupIn
  <2>2. i \in Instruments
    BY <2>1, PointParts DEF TypeOK
  <2>3. /\ pc'[g] \in {"known", "admit", "overflow"}
        /\ pc'[g] = "admit" => /\ Combination(g) \notin combinations[i]
                               /\ Cardinality(combinations[i]) < Budget - Reserve(i)
        /\ pc'[g] = "overflow" => /\ Combination(g) \notin combinations[i]
                                  /\ ~(Cardinality(combinations[i]) < Budget - Reserve(i))
    <3>1. pc'[g] = Decision(g, combinations[i])
      BY <2>1 DEF TypeOK
    <3> QED
      BY <3>1, DecisionCases
  <2>4. \A h \in Goroutines : h # g => pc'[h] = pc[h] /\ pc[h] \notin {"known", "admit", "overflow"}
    BY <2>1, NobodyAssumption DEF TypeOK, Holder
  <2>5. TypeOK'
    BY <2>1, <2>3 DEF TypeOK
  <2>6. Holder'
    BY <2>1, <2>4 DEF Holder
  <2>7. Cardinality(combinations[i]) \in Nat
    BY <2>2, FS_CardinalityType DEF Bounded
  <2>8. Decided'
    <3> SUFFICES ASSUME NEW h \in Goroutines
                 PROVE  LET j == point'[h].instrument
                        IN  /\ pc'[h] = "admit" =>
                                 /\ Combination(h)' \notin combinations'[j]
                                 /\ Cardinality(combinations'[j]) < Budget - Reserve(j)
                            /\ pc'[h] = "overflow" =>
                                 /\ Combination(h)' \notin combinations'[j]
                                 /\ Cardinality(combinations'[j]) >= Budget - Reserve(j)
      BY DEF Decided
    <3>1. point'[h] = point[h] /\ Combination(h)' = Combination(h) /\ combinations' = combinations
      BY <2>1 DEF Combination
    <3>2. CASE h = g
      BY <3>1, <3>2, <2>2, <2>3, <2>7, <1>n
    <3>3. CASE h # g
      BY <3>3, <2>4
    <3> QED
      BY <3>2, <3>3
  <2>9. Bounded' /\ OverflowOnlyWhenFull' /\ OneRoute'
    BY <2>1 DEF Bounded, OverflowOnlyWhenFull, OneRoute
  <2> QED
    BY <2>5, <2>6, <2>8, <2>9
<1>3. ASSUME NEW g \in Goroutines, NEW from \in {"known", "admit", "overflow"}, Return(g, from)
      PROVE  /\ mutex' = Nobody
             /\ \A h \in Goroutines : pc'[h] \notin {"known", "admit", "overflow"}
             /\ \A h \in Goroutines : pc'[h] # "idle" => point'[h] \in Points
             /\ point' \in [Goroutines -> Points \cup {NoPoint}]
             /\ pc' \in [Goroutines -> {"idle", "lock", "known", "admit", "overflow"}]
             /\ point[g].instrument \in Instruments
             /\ Combination(g) \in Combinations(point[g].instrument)
  <2>1. mutex = g
    BY <1>3 DEF Return, Holder
  <2>2. \A h \in Goroutines : h # g => pc[h] \notin {"known", "admit", "overflow"}
    BY <2>1 DEF Holder
  <2>3. point[g] \in Points
    BY <1>3 DEF Return, TypeOK
  <2>4. point[g].instrument \in Instruments /\ Combination(g) \in Combinations(point[g].instrument)
    BY <2>3, PointParts
  <2>5. pc' = [pc EXCEPT ![g] = "idle"] /\ point' = [point EXCEPT ![g] = NoPoint] /\ mutex' = Nobody
    BY <1>3, <2>1 DEF Return
  <2> QED
    BY <2>2, <2>4, <2>5 DEF TypeOK
<1>4. ASSUME NEW g \in Goroutines, Known(g)
      PROVE  Inv'
  <2>1. Return(g, "known") /\ UNCHANGED <<combinations, overflowed>>
    BY <1>4 DEF Known
  <2>2. TypeOK'
    BY <1>3, <2>1 DEF TypeOK
  <2>3. Holder' /\ Decided'
    BY <1>3, <2>1 DEF Holder, Decided
  <2>4. Bounded' /\ OverflowOnlyWhenFull' /\ OneRoute'
    BY <2>1 DEF Bounded, OverflowOnlyWhenFull, OneRoute
  <2> QED
    BY <2>2, <2>3, <2>4
<1>5. ASSUME NEW g \in Goroutines, Admit(g)
      PROVE  Inv'
  <2> DEFINE i == point[g].instrument
             c == Combination(g)
  <2>1. /\ Return(g, "admit")
        /\ pc[g] = "admit"
        /\ combinations' = [combinations EXCEPT ![i] = @ \cup {c}]
        /\ overflowed' = overflowed
    BY <1>5 DEF Admit, Return
  <2>2. i \in Instruments /\ c \in Combinations(i)
    BY <1>3, <2>1
  <2>3. c \notin combinations[i] /\ Cardinality(combinations[i]) < Budget - Reserve(i)
    BY <2>1 DEF Decided
  <2> HIDE DEF i, c
  <2>4. /\ combinations'[i] = combinations[i] \cup {c}
        /\ \A j \in Instruments : j # i => combinations'[j] = combinations[j]
        /\ combinations' \in [Instruments -> SUBSET UNION {Combinations(j) : j \in Instruments}]
    BY <2>1, <2>2 DEF TypeOK
  <2>5. TypeOK'
    BY <1>3, <2>1, <2>2, <2>4 DEF TypeOK
  <2>6. Holder' /\ Decided'
    BY <1>3, <2>1 DEF Holder, Decided
  <2>7. /\ IsFiniteSet(combinations[i])
        /\ Cardinality(combinations[i]) \in Nat
        /\ IsFiniteSet(combinations'[i])
        /\ Cardinality(combinations'[i]) = Cardinality(combinations[i]) + 1
    BY <2>2, <2>3, <2>4, FS_AddElement, FS_CardinalityType DEF Bounded
  <2>8. Bounded'
    BY <2>2, <2>3, <2>4, <2>7, <1>n DEF Bounded
  <2>9. overflowed[i] = {}
    BY <2>2, <2>3, <2>7, <1>n DEF OverflowOnlyWhenFull
  <2>10. OverflowOnlyWhenFull'
    BY <2>1, <2>4, <2>9 DEF OverflowOnlyWhenFull
  <2>11. OneRoute'
    BY <2>1, <2>4, <2>9 DEF OneRoute
  <2> QED
    BY <2>5, <2>6, <2>8, <2>10, <2>11
<1>6. ASSUME NEW g \in Goroutines, Overflow(g)
      PROVE  Inv'
  <2> DEFINE i == point[g].instrument
             c == Combination(g)
  <2>1. /\ Return(g, "overflow")
        /\ pc[g] = "overflow"
        /\ overflowed' = [overflowed EXCEPT ![i] = @ \cup {c}]
        /\ combinations' = combinations
    BY <1>6 DEF Overflow, Return
  <2>2. i \in Instruments /\ c \in Combinations(i)
    BY <1>3, <2>1
  <2>3. c \notin combinations[i] /\ Cardinality(combinations[i]) >= Budget - Reserve(i)
    BY <2>1 DEF Decided
  <2> HIDE DEF i, c
  <2>4. /\ overflowed'[i] = overflowed[i] \cup {c}
        /\ \A j \in Instruments : j # i => overflowed'[j] = overflowed[j]
        /\ overflowed' \in [Instruments -> SUBSET UNION {Combinations(j) : j \in Instruments}]
    BY <2>1, <2>2 DEF TypeOK
  <2>5. TypeOK'
    BY <1>3, <2>1, <2>2, <2>4 DEF TypeOK
  <2>6. Holder' /\ Decided'
    BY <1>3, <2>1 DEF Holder, Decided
  <2>7. Bounded'
    BY <2>1 DEF Bounded
  <2>8. Cardinality(combinations[i]) = Budget - Reserve(i)
    BY <2>2, <2>3, <1>n, FS_CardinalityType DEF Bounded
  <2>9. OverflowOnlyWhenFull'
    BY <2>1, <2>4, <2>8 DEF OverflowOnlyWhenFull
  <2>10. OneRoute'
    BY <2>1, <2>3, <2>4 DEF OneRoute
  <2> QED
    BY <2>5, <2>6, <2>7, <2>9, <2>10
<1>7. CASE UNCHANGED vars
  BY <1>7 DEF vars, TypeOK, Holder, Decided, Combination, Bounded, OverflowOnlyWhenFull, OneRoute
<1> QED
  BY <1>1, <1>2, <1>4, <1>5, <1>6, <1>7 DEF Next

\* The invariant holds in every behaviour of the cache.
LEMMA CacheCorrect == Spec => []Inv
BY InitInv, StepInv, PTL DEF Spec

\* Types, and with them: only declared label values leave through a metric,
\* whatever callers pass.
THEOREM DimensionsTypeCorrect == Spec => []TypeOK
<1>1. Inv => TypeOK
  BY DEF Inv
<1> QED
  BY <1>1, CacheCorrect, PTL

\* No instrument of a tracker grows beyond Profile.SeriesBudget attribute
\* combinations, overflow series included, for any number of goroutines.
THEOREM BudgetIsRespected == Spec => []SeriesWithinBudget
<1>1. Inv => SeriesWithinBudget
  <2> SUFFICES ASSUME Inv, NEW i \in Instruments
               PROVE  Cardinality(combinations[i]) + Cardinality(OverflowSeries(i)) <= Budget
    BY DEF SeriesWithinBudget
  <2>1. overflowed[i] \subseteq Combinations(i)
    BY DEF Inv, TypeOK
  <2>2. Cardinality(OverflowSeries(i)) \in Nat /\ Cardinality(OverflowSeries(i)) <= Reserve(i)
    BY <2>1, OverflowFitsReserve DEF OverflowSeries
  <2>3. /\ Cardinality(combinations[i]) \in Nat
        /\ Cardinality(combinations[i]) <= Budget - Reserve(i)
    BY FS_CardinalityType DEF Inv, Bounded
  <2>4. Reserve(i) \in Nat /\ Budget \in Nat
    BY ReserveCoversSemantics, InstrumentsAssumption, BudgetAssumption
  <2> QED
    BY <2>2, <2>3, <2>4
<1> QED
  BY <1>1, CacheCorrect, PTL

\* A combination never leaves both under its labels and in overflow.
THEOREM RoutesAreStable == Spec => []OneRoute
<1>1. Inv => OneRoute
  BY DEF Inv
<1> QED
  BY <1>1, CacheCorrect, PTL

\* Only an instrument that used its own allowance overflows.
THEOREM OverflowIsJustified == Spec => []OverflowOnlyWhenFull
<1>1. Inv => OverflowOnlyWhenFull
  BY DEF Inv
<1> QED
  BY <1>1, CacheCorrect, PTL

\* metricDimensions.normalize: where a data point goes is justified by the allowance of
\* its instrument, and is final.
THEOREM RoutesAreJustified == Spec => []StableRoutes
<1>1. TypeOK /\ OneRoute /\ OverflowOnlyWhenFull => StableRoutes
  BY DEF StableRoutes
<1> QED
  BY <1>1, DimensionsTypeCorrect, RoutesAreStable, OverflowIsJustified, PTL

\* The routes that the data points of one instrument and combination have taken.
Routes(p) ==
  LET c == [semantic |-> p.semantic, labels |-> p.labels]
  IN  {r \in {"own", "overflow"} :
         c \in IF r = "own" THEN combinations[p.instrument] ELSE overflowed[p.instrument]}

\* What callers of normalize see: the route of each data point is decided the first
\* time, and later data points are answered with it.
FirstRoute == INSTANCE Decisions WITH
  Keys <- Points,
  Values <- {"own", "overflow"},
  decided <- [p \in Points |-> Routes(p)],
  told <- {answer \in Points \X {"own", "overflow"} : answer[2] \in Routes(answer[1])}

\* A data point is known by its instrument and its combination.
LEMMA PointIsItsParts ==
  ASSUME NEW p \in Points, NEW q \in Points,
         p.instrument = q.instrument, p.semantic = q.semantic, p.labels = q.labels
  PROVE  p = q
<1>1. PICK i \in Instruments : p \in [instrument : {i}, semantic : SemanticOf(i), labels : LabelSets]
  BY DEF Points
<1>2. PICK j \in Instruments : q \in [instrument : {j}, semantic : SemanticOf(j), labels : LabelSets]
  BY DEF Points
<1> QED
  BY <1>1, <1>2

\* Adding a combination to one of the two routes of its instrument is a decision.
LEMMA RouteDecided ==
  ASSUME Inv, NEW g \in Goroutines, point[g] \in Points, NEW r \in {"own", "overflow"},
         Routes(point[g]) = {},
         \A p \in Points :
           Routes(p)' = IF p = point[g] THEN {r} ELSE Routes(p)
  PROVE  FirstRoute!DecisionsNext
<1>1. [p \in Points |-> Routes(p)]' = [[p \in Points |-> Routes(p)] EXCEPT ![point[g]] = {r}]
  OBVIOUS
<1>2. {answer \in Points \X {"own", "overflow"} : answer[2] \in Routes(answer[1])}'
        = {answer \in Points \X {"own", "overflow"} : answer[2] \in Routes(answer[1])}
            \cup {<<point[g], r>>}
  OBVIOUS
<1>3. FirstRoute!Decide(point[g], r)
  BY <1>1, <1>2 DEF FirstRoute!Decide
<1> QED
  BY <1>3 DEF FirstRoute!DecisionsNext

\* A step of a goroutine decides the route of its data point, or shows nothing new.
LEMMA StepOfFirstRoute ==
  ASSUME Inv, [Next]_vars
  PROVE  [FirstRoute!DecisionsNext]_FirstRoute!decisionVars
<1>1. ASSUME UNCHANGED <<combinations, overflowed>>
      PROVE  UNCHANGED FirstRoute!decisionVars
  BY <1>1 DEF FirstRoute!decisionVars, Routes
<1>2. ASSUME NEW g \in Goroutines, pc[g] # "idle"
      PROVE  /\ point[g] \in Points /\ point[g].instrument \in Instruments
             /\ Combination(g) \in Combinations(point[g].instrument)
  BY <1>2, PointParts DEF Inv, TypeOK
<1>3. ASSUME NEW g \in Goroutines, Admit(g)
      PROVE  FirstRoute!DecisionsNext
  <2> DEFINE i == point[g].instrument
             c == Combination(g)
  <2>1. /\ pc[g] = "admit" /\ overflowed' = overflowed
        /\ combinations' = [combinations EXCEPT ![i] = @ \cup {c}]
    BY <1>3 DEF Admit, Return
  <2>2. c \notin combinations[i] /\ overflowed[i] = {}
    <3>1. c \notin combinations[i] /\ Cardinality(combinations[i]) < Budget - Reserve(i)
      BY <2>1 DEF Inv, Decided
    <3>2. Cardinality(combinations[i]) \in Nat /\ Reserve(i) \in Nat /\ Budget \in Nat
      BY <1>2, <2>1, FS_CardinalityType, ReserveCoversSemantics, InstrumentsAssumption, BudgetAssumption
         DEF Inv, Bounded
    <3> QED
      BY <1>2, <2>1, <3>1, <3>2 DEF Inv, OverflowOnlyWhenFull
  <2>3. ASSUME NEW p \in Points
        PROVE  Routes(p)' = IF p = point[g] THEN {"own"} ELSE Routes(p)
    <3>1. [semantic |-> p.semantic, labels |-> p.labels] = c /\ p.instrument = i => p = point[g]
      BY <1>2, <2>1, PointIsItsParts DEF Combination
    <3>2. p.instrument \in Instruments
      BY DEF Points
    <3>3. combinations'[p.instrument] = IF p.instrument = i THEN combinations[i] \cup {c}
                                                            ELSE combinations[p.instrument]
      BY <2>1, <3>2 DEF Inv, TypeOK
    <3> QED
      BY <2>1, <2>2, <3>1, <3>3 DEF Routes, Combination
  <2>4. Routes(point[g]) = {}
    BY <2>2 DEF Routes, Combination
  <2> QED
    BY <1>2, <2>1, <2>3, <2>4, RouteDecided
<1>4. ASSUME NEW g \in Goroutines, Overflow(g)
      PROVE  [FirstRoute!DecisionsNext]_FirstRoute!decisionVars
  <2> DEFINE i == point[g].instrument
             c == Combination(g)
  <2>1. /\ pc[g] = "overflow" /\ combinations' = combinations
        /\ overflowed' = [overflowed EXCEPT ![i] = @ \cup {c}]
    BY <1>4 DEF Overflow, Return
  <2>2. c \notin combinations[i]
    BY <2>1 DEF Inv, Decided
  <2>3. CASE c \in overflowed[i]
    <3>1. overflowed' = overflowed
      BY <1>2, <2>1, <2>3 DEF Inv, TypeOK
    <3> QED
      BY <1>1, <2>1, <3>1
  <2>4. CASE c \notin overflowed[i]
    <3>1. ASSUME NEW p \in Points
          PROVE  Routes(p)' = IF p = point[g] THEN {"overflow"} ELSE Routes(p)
      <4>1. [semantic |-> p.semantic, labels |-> p.labels] = c /\ p.instrument = i => p = point[g]
        BY <1>2, <2>1, PointIsItsParts DEF Combination
      <4>2. p.instrument \in Instruments
        BY DEF Points
      <4>3. overflowed'[p.instrument] = IF p.instrument = i THEN overflowed[i] \cup {c}
                                                            ELSE overflowed[p.instrument]
        BY <2>1, <4>2 DEF Inv, TypeOK
      <4> QED
        BY <2>1, <2>2, <2>4, <4>1, <4>3 DEF Routes, Combination
    <3>2. Routes(point[g]) = {}
      BY <2>2, <2>4 DEF Routes, Combination
    <3> QED
      BY <1>2, <2>1, <3>1, <3>2, RouteDecided
  <2> QED
    BY <2>3, <2>4
<1>5. ASSUME NEW g \in Goroutines, Normalize(g) \/ Lookup(g) \/ Known(g)
      PROVE  UNCHANGED <<combinations, overflowed>>
  BY <1>5 DEF Normalize, Lookup, LookupIn, Known
<1>6. CASE UNCHANGED vars
  BY <1>1, <1>6 DEF vars
<1> QED
  BY <1>1, <1>3, <1>4, <1>5, <1>6 DEF Next

\* The cache decides once for each combination of an instrument, however goroutines
\* race and however the room for it changes: its data points are one series, under
\* its labels or in overflow (genai/cardinality.go).
THEOREM RoutesAreOneDecision == Spec => FirstRoute!DecisionsSpec
<1>1. Init => FirstRoute!DecisionsInit
  <2> SUFFICES ASSUME Init PROVE FirstRoute!DecisionsInit
    OBVIOUS
  <2>1. ASSUME NEW p \in Points PROVE Routes(p) = {}
    <3>1. p.instrument \in Instruments
      BY DEF Points
    <3> QED
      BY <3>1 DEF Init, Routes
  <2> QED
    BY <2>1 DEF FirstRoute!DecisionsInit
<1>2. Inv /\ [Next]_vars => [FirstRoute!DecisionsNext]_FirstRoute!decisionVars
  BY StepOfFirstRoute
<1> QED
  BY <1>1, <1>2, InitInv, StepInv, PTL DEF Spec, FirstRoute!DecisionsSpec

-----------------------------------------------------------------------------
(* MetricsRegistry. The invariant accounts for the name that the goroutine *)
(* inside the lock has reserved and not yet registered.                    *)

Refusals == [name : Names \cup {"none"},
             why : {"none", "not_configured", "duplicate", "creation"}]

\* The names reserved are those registered, those lost, and the one that the
\* goroutine inside the lock is creating.
Reserved ==
  /\ (\A c \in Callers : at[c] # "creating") => names = Registered \cup lost
  /\ \A c \in Callers : at[c] = "creating" =>
       /\ names = Registered \cup lost \cup {want[c][1]}
       /\ want[c][1] \notin Registered \cup lost

RegistryInv == RegistryTypeOK /\ OneInstrumentPerName /\ DuplicateIsRegistered /\ Reserved

-----------------------------------------------------------------------------
\* Nobody else is inside the lock.
LEMMA InsideAlone ==
  ASSUME RegistryInv, NEW c \in Callers, at[c] \in {"locked", "creating"}
  PROVE  mu = c /\ \A d \in Callers \ {c} : at[d] \notin {"locked", "creating"}
BY DEF RegistryInv, RegistryTypeOK, Refusals

LEMMA RegistryInvImplies == RegistryInv => NamesAgree
<1> SUFFICES ASSUME RegistryInv PROVE NamesAgree
  OBVIOUS
<1>1. NamesAreThoseRegistered
  <2> SUFFICES ASSUME mu = NoCaller PROVE names = Registered \cup lost
    BY DEF NamesAreThoseRegistered
  <2>1. \A c \in Callers : at[c] # "creating"
    BY NoCallerAssumption DEF RegistryInv, RegistryTypeOK, Refusals
  <2> QED
    BY <2>1 DEF RegistryInv, Reserved
<1> QED
  BY <1>1 DEF RegistryInv, NamesAgree

LEMMA RegistryInitially == RegistryInit => RegistryInv
<1> SUFFICES ASSUME RegistryInit PROVE RegistryInv
  OBVIOUS
<1>1. instruments = <<>> /\ DOMAIN instruments = {} /\ instruments \in Seq(Names \X Kinds) /\ Registered = {}
  BY DEF RegistryInit, Registered
<1>2. RegistryTypeOK
  BY <1>1, MaxCallsAssumption, NoCallerAssumption DEF RegistryInit, RegistryTypeOK, NoRefusal
<1>3. OneInstrumentPerName /\ DuplicateIsRegistered /\ Reserved
  BY <1>1 DEF RegistryInit, OneInstrumentPerName, DuplicateIsRegistered, Reserved, NoRefusal
<1> QED
  BY <1>2, <1>3 DEF RegistryInv

LEMMA RegistryStep == RegistryInv /\ [RegistryNext]_registryVars => RegistryInv'
<1> SUFFICES ASSUME RegistryInv, [RegistryNext]_registryVars PROVE RegistryInv'
  OBVIOUS
<1> USE DEF RegistryInv
<1>0. /\ RegistryTypeOK /\ at \in [Callers -> {"idle", "asking", "locked", "creating"}]
      /\ want \in [Callers -> Names \X Kinds]
      /\ refused \in [Callers -> Refusals]
  BY DEF RegistryTypeOK, Refusals
<1>1. instruments' = instruments => Registered' = Registered /\ (OneInstrumentPerName => OneInstrumentPerName')
  BY DEF Registered, OneInstrumentPerName
\* A refusal that names no duplicate.
<1>2. ASSUME NEW c \in Callers, NEW why \in {"not_configured", "creation"}, Refuse(c, why),
             Registered \cup lost \subseteq Registered' \cup lost'
      PROVE  DuplicateIsRegistered' /\ refused' \in [Callers -> Refusals]
  BY <1>0, <1>2 DEF Refuse, DuplicateIsRegistered, Refusals
<1>3. ASSUME NEW c \in Callers, NEW name \in Names, NEW kind \in Kinds, Ask(c, name, kind) PROVE RegistryInv'
  <2>1. at[c] = "idle" /\ at' = [at EXCEPT ![c] = "asking"]
    BY <1>3 DEF Ask, Go
  <2>2. RegistryTypeOK'
    BY <1>3, <2>1, MaxCallsAssumption, NoCallerAssumption DEF Ask, RegistryTypeOK, NoRefusal
  <2>3. DuplicateIsRegistered'
    BY <1>0, <1>1, <1>3 DEF Ask, DuplicateIsRegistered, NoRefusal
  <2>4. Reserved'
    BY <1>0, <1>1, <1>3, <2>1 DEF Ask, Reserved
  <2> QED
    BY <1>1, <1>3, <2>2, <2>3, <2>4 DEF Ask
<1>4. ASSUME NEW c \in Callers, NotConfigured(c) PROVE RegistryInv'
  <2>1. at[c] = "asking" /\ at' = [at EXCEPT ![c] = "idle"]
    BY <1>4 DEF NotConfigured, Go
  <2>2. DuplicateIsRegistered' /\ refused' \in [Callers -> Refusals]
    BY <1>1, <1>2, <1>4 DEF NotConfigured
  <2>3. RegistryTypeOK'
    BY <1>4, <2>1, <2>2, NoCallerAssumption DEF NotConfigured, RegistryTypeOK, Refusals
  <2>4. Reserved'
    BY <1>0, <1>1, <1>4, <2>1 DEF NotConfigured, Reserved
  <2> QED
    BY <1>1, <1>4, <2>2, <2>3, <2>4 DEF NotConfigured
<1>5. ASSUME NEW c \in Callers, Lock(c) PROVE RegistryInv'
  <2>1. at[c] = "asking" /\ at' = [at EXCEPT ![c] = "locked"] /\ mu = NoCaller /\ mu' = c
    BY <1>5 DEF Lock, Go
  <2>2. \A d \in Callers : at[d] \notin {"locked", "creating"}
    BY <2>1, NoCallerAssumption DEF RegistryTypeOK, Refusals
  <2>3. RegistryTypeOK'
    BY <1>5, <2>1, <2>2, NoCallerAssumption DEF Lock, RegistryTypeOK, Refusals
  <2>4. Reserved'
    BY <1>0, <1>1, <1>5, <2>1 DEF Lock, Reserved
  <2>5. DuplicateIsRegistered'
    BY <1>1, <1>5 DEF Lock, DuplicateIsRegistered
  <2> QED
    BY <1>1, <1>5, <2>3, <2>4, <2>5 DEF Lock
<1>6. ASSUME NEW c \in Callers, Duplicate(c) PROVE RegistryInv'
  <2>1. at[c] = "locked" /\ at' = [at EXCEPT ![c] = "idle"] /\ mu' = NoCaller
    BY <1>6 DEF Duplicate, Unlock, Go
  <2>2. mu = c /\ \A d \in Callers : at[d] # "creating" /\ (d # c => at[d] # "locked")
    BY <2>1, InsideAlone
  <2>3. want[c][1] \in Registered \cup lost /\ want[c][1] \in Names
    BY <1>0, <1>6, <2>2 DEF Duplicate, Reserved
  <2>4. DuplicateIsRegistered' /\ refused' \in [Callers -> Refusals]
    <3>1. PICK r \in Refusals : refused' = [refused EXCEPT ![c] = r] /\ r = [name |-> want[c][1], why |-> "duplicate"]
      BY <1>6, <2>3 DEF Duplicate, Refuse, Refusals
    <3> QED
      BY <1>0, <1>1, <1>6, <2>3, <3>1 DEF Duplicate, DuplicateIsRegistered
  <2>5. RegistryTypeOK'
    BY <1>6, <2>1, <2>2, <2>4, NoCallerAssumption DEF Duplicate, RegistryTypeOK, Refusals
  <2>6. Reserved'
    BY <1>0, <1>1, <1>6, <2>1, <2>2 DEF Duplicate, Reserved
  <2> QED
    BY <1>1, <1>6, <2>4, <2>5, <2>6 DEF Duplicate
<1>7. ASSUME NEW c \in Callers, RegisterName(c) PROVE RegistryInv'
  <2>1. at[c] = "locked" /\ at' = [at EXCEPT ![c] = "creating"] /\ want[c][1] \in Names
    BY <1>0, <1>7 DEF RegisterName, Go
  <2>2. mu = c /\ \A d \in Callers : at[d] # "creating" /\ (d # c => at[d] # "locked")
    BY <2>1, InsideAlone
  <2>3. RegistryTypeOK'
    BY <1>7, <2>1, <2>2 DEF RegisterName, RegistryTypeOK, Refusals
  <2>4. Reserved'
    BY <1>0, <1>1, <1>7, <2>1, <2>2 DEF RegisterName, Reserved
  <2>5. DuplicateIsRegistered'
    BY <1>1, <1>7 DEF RegisterName, DuplicateIsRegistered
  <2> QED
    BY <1>1, <1>7, <2>3, <2>4, <2>5 DEF RegisterName
\* The creation is over, whatever it came to.
<1>8. ASSUME NEW c \in Callers, Unlock(c, "creating")
      PROVE  /\ at[c] = "creating" /\ at' = [at EXCEPT ![c] = "idle"] /\ mu' = NoCaller /\ mu = c
             /\ \A d \in Callers : at'[d] \notin {"locked", "creating"}
             /\ names = Registered \cup lost \cup {want[c][1]} /\ want[c][1] \notin Registered \cup lost
             /\ want[c][1] \in Names /\ want[c] \in Names \X Kinds
             /\ at' \in [Callers -> {"idle", "asking", "locked", "creating"}] /\ mu' \in Callers \cup {NoCaller}
             /\ \A d \in Callers : mu' = d <=> at'[d] \in {"locked", "creating"}
  <2>1. at[c] = "creating" /\ at' = [at EXCEPT ![c] = "idle"] /\ mu' = NoCaller
    BY <1>8 DEF Unlock, Go
  <2>2. mu = c /\ \A d \in Callers \ {c} : at[d] \notin {"locked", "creating"}
    BY <2>1, InsideAlone
  <2>3. /\ at' \in [Callers -> {"idle", "asking", "locked", "creating"}]
        /\ \A d \in Callers : at'[d] \notin {"locked", "creating"}
    BY <1>0, <2>1, <2>2
  <2>4. \A d \in Callers : mu' # d
    BY <2>1, NoCallerAssumption
  <2> QED
    BY <1>0, <2>1, <2>2, <2>3, <2>4 DEF Reserved
<1>9. ASSUME NEW c \in Callers, Create(c) PROVE RegistryInv'
  <2>1. Unlock(c, "creating") /\ instruments' = Append(instruments, want[c])
        /\ UNCHANGED <<configured, names, want, calls, refused, lost>>
    BY <1>9 DEF Create
  <2>2. /\ instruments \in Seq(Names \X Kinds) /\ instruments' \in Seq(Names \X Kinds)
        /\ DOMAIN instruments = 1..Len(instruments) /\ DOMAIN instruments' = 1..Len(instruments) + 1
        /\ \A i \in 1..Len(instruments) : instruments'[i] = instruments[i]
        /\ instruments'[Len(instruments) + 1] = want[c] /\ Len(instruments) \in Nat
    BY <1>8, <2>1 DEF RegistryTypeOK, Refusals
  <2>3. Registered' = Registered \cup {want[c][1]}
    <3>1. DOMAIN instruments' = DOMAIN instruments \cup {Len(instruments) + 1}
      BY <2>2
    <3>2. \A i \in DOMAIN instruments : instruments'[i] = instruments[i]
      BY <2>2
    <3>3. \A i \in DOMAIN instruments : instruments'[i][1] = instruments[i][1]
      BY <3>2
    <3>4. instruments'[Len(instruments) + 1][1] = want[c][1]
      BY <2>2
    <3>5. Registered' \subseteq Registered \cup {want[c][1]}
      BY <3>1, <3>3, <3>4 DEF Registered
    <3>6. Registered \subseteq Registered' /\ want[c][1] \in Registered'
      BY <3>1, <3>3, <3>4 DEF Registered
    <3> QED
      BY <3>5, <3>6
  <2>4. OneInstrumentPerName'
    BY <1>8, <2>1, <2>2 DEF OneInstrumentPerName, Registered
  <2>5. DuplicateIsRegistered'
    BY <2>1, <2>3 DEF DuplicateIsRegistered
  <2>6. Reserved'
    BY <1>8, <2>1, <2>3 DEF Reserved
  <2>7. RegistryTypeOK'
    BY <1>0, <1>8, <2>1, <2>2 DEF RegistryTypeOK, Refusals
  <2> QED
    BY <2>4, <2>5, <2>6, <2>7
<1>10. ASSUME NEW c \in Callers, CreateFails(c) PROVE RegistryInv'
  <2>1. /\ Unlock(c, "creating") /\ Refuse(c, "creation") /\ names' = names \ {want[c][1]}
        /\ UNCHANGED <<configured, want, calls, instruments, lost>>
    BY <1>10 DEF CreateFails
  <2>2. DuplicateIsRegistered' /\ refused' \in [Callers -> Refusals]
    BY <1>1, <1>2, <2>1
  <2>3. Reserved'
    BY <1>1, <1>8, <2>1 DEF Reserved
  <2>4. RegistryTypeOK'
    BY <1>0, <1>8, <2>1, <2>2 DEF RegistryTypeOK, Refusals
  <2> QED
    BY <1>1, <2>1, <2>2, <2>3, <2>4
<1>11. ASSUME NEW c \in Callers, CreatePanics(c) PROVE RegistryInv'
  <2>1. /\ Unlock(c, "creating") /\ lost' = lost \cup {want[c][1]}
        /\ UNCHANGED <<configured, names, want, calls, instruments, refused>>
    BY <1>11 DEF CreatePanics
  <2>2. DuplicateIsRegistered'
    BY <1>1, <2>1 DEF DuplicateIsRegistered
  <2>3. Reserved'
    BY <1>1, <1>8, <2>1 DEF Reserved
  <2>4. RegistryTypeOK'
    BY <1>0, <1>8, <2>1 DEF RegistryTypeOK, Refusals
  <2> QED
    BY <1>1, <2>1, <2>2, <2>3, <2>4
<1>12. CASE UNCHANGED registryVars
  BY <1>1, <1>12 DEF registryVars, RegistryTypeOK, DuplicateIsRegistered, Reserved
<1> QED
  BY <1>3, <1>4, <1>5, <1>6, <1>7, <1>9, <1>10, <1>11, <1>12 DEF RegistryNext, Step

\* Whatever the number of goroutines, names and kinds, and however the meter fails or panics: a name
\* is one instrument, a duplicate is refused only if it is one, an error frees the name (MetricsRegistry).
THEOREM NamesAlwaysAgree == RegistrySpec => []NamesAgree
<1> QED
  BY RegistryInitially, RegistryStep, RegistryInvImplies, PTL DEF RegistrySpec

-----------------------------------------------------------------------------
(* Exporter. The invariant says in whose cells each tree lies, and how     *)
(* much of a cycle is written.                                             *)

Types ==
  /\ memory \in [Owners -> [Levels -> 0..Scribbled]]
  /\ cycle \in 0..MaxCycles /\ supported \in BOOLEAN
  /\ sdk \in {"idle", "collecting"} /\ pending \subseteq Levels
  /\ changed \in [Readers -> BOOLEAN]

\* What the SDK has written of this cycle, and how far it is.
Collected ==
  /\ sdk = "collecting" => cycle > 0 /\ \A l \in Levels \ pending : memory[SDK][l] = cycle
  /\ count \in 0..cycle /\ exports = count /\ latest \in 0..cycle
  /\ sdk = "collecting" => count < cycle

\* Every tree lies in the cells of its owner, and nowhere else.
OwnTrees ==
  /\ lastRM = IF latest = 0 THEN None ELSE Tree(Store)
  /\ latest # 0 => \A l \in Levels : memory[Store][l] = latest
  /\ got \in [Readers -> Trees]
  /\ \A r \in Readers : got[r] \in {None, Tree(r)}
  /\ \A r \in Readers : ~changed[r] =>
       IF taken[r] = 0 THEN got[r] = None
       ELSE got[r] = Tree(r) /\ \A l \in Levels : memory[r][l] = taken[r]
  /\ taken \in [Readers -> Nat]

ExporterInv == Types /\ Collected /\ OwnTrees

-----------------------------------------------------------------------------
LEMMA TreesAre ==
  ASSUME NEW o \in Owners
  PROVE  /\ Tree(o) \in [Levels -> Owners] /\ Tree(o) # None
         /\ \A l \in Levels : Tree(o)[l] = o
         /\ DeepCopy(Tree(o), o) = Tree(o)
<1>1. Tree(o) \in [Levels -> Owners] /\ \A l \in Levels : Tree(o)[l] = o
  BY DEF Tree
<1>2. Tree(o) # None
  <2>1. "points" \in DOMAIN Tree(o)
    BY <1>1 DEF Levels
  <2>2. "points" \notin DOMAIN None
    BY DEF None
  <2> QED
    BY <2>1, <2>2
<1> QED
  BY <1>1, <1>2 DEF DeepCopy

LEMMA OwnersDiffer ==
  SDK \in Owners /\ Store \in Owners /\ SDK # Store /\ \A r \in Readers : r \in Owners /\ r \notin {SDK, Store}
BY OwnersAssumption DEF Owners, SDK, Store

LEMMA ExporterInvImplies == ExporterInv => SnapshotsAreTheirOwn
<1> SUFFICES ASSUME ExporterInv PROVE SnapshotsAreTheirOwn
  OBVIOUS
<1>1. lastRM \in Trees
  BY TreesAre, OwnersDiffer DEF ExporterInv, OwnTrees, Trees
<1>2. count \in 0..MaxCycles
  BY MaxCyclesAssumption DEF ExporterInv, Types, Collected
<1>3. ExporterTypeOK
  BY <1>1, <1>2 DEF ExporterInv, Types, OwnTrees, ExporterTypeOK
<1>4. StoreIsLastExport
  BY TreesAre, OwnersDiffer DEF ExporterInv, Collected, OwnTrees, StoreIsLastExport, Shows
<1>5. TakenStays
  BY TreesAre, OwnersDiffer DEF ExporterInv, OwnTrees, TakenStays, Shows
<1> QED
  BY <1>3, <1>4, <1>5 DEF SnapshotsAreTheirOwn

LEMMA ExporterInitially == ExporterInit => ExporterInv
<1> SUFFICES ASSUME ExporterInit PROVE ExporterInv
  OBVIOUS
<1>1. Types
  BY MaxCyclesAssumption DEF ExporterInit, Types, Scribbled
<1>2. Collected
  BY DEF ExporterInit, Collected
<1>3. OwnTrees
  BY DEF ExporterInit, OwnTrees, Trees
<1> QED
  BY <1>1, <1>2, <1>3 DEF ExporterInv

\* A copy leaves everything but the cells of its owner alone.
LEMMA CopiedIs ==
  ASSUME Types, NEW from \in Owners, NEW to \in Owners
  PROVE  /\ Copied(Tree(from), to) \in [Owners -> [Levels -> 0..Scribbled]]
         /\ \A o \in Owners, l \in Levels :
              Copied(Tree(from), to)[o][l] = IF o = to THEN memory[from][l] ELSE memory[o][l]
<1>1. \A l \in Levels : Tree(from)[l] = from /\ memory[from][l] \in 0..Scribbled
  BY TreesAre DEF Types
<1>2. [l \in Levels |-> memory[Tree(from)[l]][l]] \in [Levels -> 0..Scribbled]
  BY <1>1
<1> QED
  BY <1>1, <1>2 DEF Copied, Types

LEMMA ExporterStep == ExporterInv /\ [ExporterNext]_exporterVars => ExporterInv'
<1> SUFFICES ASSUME ExporterInv, [ExporterNext]_exporterVars PROVE ExporterInv'
  OBVIOUS
<1>0. /\ memory \in [Owners -> [Levels -> 0..Scribbled]] /\ cycle \in 0..MaxCycles /\ MaxCycles \in Nat
      /\ Scribbled = MaxCycles + 1
  BY MaxCyclesAssumption DEF ExporterInv, Types, Scribbled
<1>1. CASE Collect
  <2>1. Types'
    BY <1>0, <1>1 DEF Collect, ExporterInv, Types
  <2>2. Collected'
    BY <1>0, <1>1 DEF Collect, ExporterInv, Collected
  <2>3. OwnTrees'
    BY <1>1 DEF Collect, ExporterInv, OwnTrees
  <2> QED
    BY <2>1, <2>2, <2>3 DEF ExporterInv
<1>2. ASSUME NEW l \in Levels, Overwrite(l) PROVE ExporterInv'
  <2>1. /\ memory' = [memory EXCEPT ![SDK][l] = cycle] /\ pending' = pending \ {l}
        /\ UNCHANGED <<cycle, supported, sdk, count, lastRM, got, changed, exports, latest, taken>>
    BY <1>2 DEF Overwrite
  <2>2. /\ memory' \in [Owners -> [Levels -> 0..Scribbled]]
        /\ \A o \in Owners, k \in Levels : memory'[o][k] = IF o = SDK /\ k = l THEN cycle ELSE memory[o][k]
    BY <1>0, <2>1, OwnersDiffer
  <2>3. Types'
    BY <2>1, <2>2 DEF ExporterInv, Types
  <2>4. Collected'
    BY <2>1, <2>2, OwnersDiffer DEF ExporterInv, Collected
  <2>5. OwnTrees'
    BY <2>1, <2>2, OwnersDiffer DEF ExporterInv, OwnTrees
  <2> QED
    BY <2>3, <2>4, <2>5 DEF ExporterInv
<1>3. CASE ExportPanics
  BY <1>3 DEF ExportPanics, ExporterInv, Types, Collected, OwnTrees
<1>4. CASE Export
  <2>1. /\ sdk = "collecting" /\ pending = {} /\ sdk' = "idle" /\ count' = count + 1 /\ exports' = exports + 1
        /\ lastRM' = Tree(Store) /\ memory' = Copied(Tree(SDK), Store) /\ latest' = cycle
        /\ UNCHANGED <<cycle, supported, pending, got, changed, taken>>
    BY <1>4 DEF Export, DeepCopy
  <2>2. /\ memory' \in [Owners -> [Levels -> 0..Scribbled]]
        /\ \A o \in Owners, k \in Levels : memory'[o][k] = IF o = Store THEN memory[SDK][k] ELSE memory[o][k]
    BY <2>1, CopiedIs, OwnersDiffer DEF ExporterInv
  <2>3. Types'
    BY <2>1, <2>2 DEF ExporterInv, Types
  <2>4. Collected'
    BY <1>0, <2>1 DEF ExporterInv, Collected
  <2>5. OwnTrees'
    BY <1>0, <2>1, <2>2, OwnersDiffer DEF ExporterInv, OwnTrees, Collected
  <2> QED
    BY <2>3, <2>4, <2>5 DEF ExporterInv
<1>5. CASE Reset
  <2>1. Types' /\ Collected'
    BY <1>0, <1>5 DEF Reset, ExporterInv, Types, Collected
  <2>2. OwnTrees'
    BY <1>5 DEF Reset, ExporterInv, OwnTrees
  <2> QED
    BY <2>1, <2>2 DEF ExporterInv
<1>6. ASSUME NEW r \in Readers, LastResourceMetrics(r) PROVE ExporterInv'
  <2>1. /\ got' = [got EXCEPT ![r] = IF lastRM = None THEN None ELSE Tree(r)]
        /\ memory' = IF lastRM = None THEN memory ELSE Copied(lastRM, r)
        /\ changed' = [changed EXCEPT ![r] = FALSE] /\ taken' = [taken EXCEPT ![r] = latest]
        /\ UNCHANGED <<cycle, supported, sdk, pending, count, lastRM, exports, latest>>
    BY <1>6 DEF LastResourceMetrics, DeepCopy
  <2>2. lastRM = None <=> latest = 0
    BY TreesAre, OwnersDiffer DEF ExporterInv, OwnTrees
  <2>3. /\ memory' \in [Owners -> [Levels -> 0..Scribbled]]
        /\ \A o \in Owners, k \in Levels :
             memory'[o][k] = IF o = r /\ latest # 0 THEN memory[Store][k] ELSE memory[o][k]
    <3>1. CASE latest = 0
      BY <1>0, <2>1, <2>2, <3>1
    <3>2. CASE latest # 0
      BY <2>1, <2>2, <3>2, CopiedIs, OwnersDiffer DEF ExporterInv, OwnTrees
    <3> QED
      BY <3>1, <3>2
  <2>4. Types'
    BY <2>1, <2>3 DEF ExporterInv, Types
  <2>5. Collected'
    BY <2>1, <2>3, OwnersDiffer DEF ExporterInv, Collected
  <2>6. /\ got' \in [Readers -> Trees] /\ got'[r] = (IF latest = 0 THEN None ELSE Tree(r))
        /\ \A q \in Readers \ {r} : got'[q] = got[q] /\ changed'[q] = changed[q] /\ taken'[q] = taken[q]
        /\ taken'[r] = latest /\ taken' \in [Readers -> Nat]
    <3>1. Tree(r) \in Trees /\ None \in Trees /\ latest \in Nat
      BY <1>0, TreesAre, OwnersDiffer DEF Trees, ExporterInv, Collected
    <3> QED
      BY <2>1, <2>2, <3>1 DEF ExporterInv, OwnTrees, Types
  <2>7. OwnTrees'
    BY <2>1, <2>3, <2>6, OwnersDiffer DEF ExporterInv, OwnTrees
  <2> QED
    BY <2>4, <2>5, <2>7 DEF ExporterInv
<1>7. ASSUME NEW r \in Readers, NEW l \in Levels, Scribble(r, l) PROVE ExporterInv'
  <2>1. got[r] = Tree(r) /\ got[r][l] = r /\ r \in Owners
    BY <1>7, TreesAre, OwnersDiffer DEF Scribble, ExporterInv, OwnTrees
  <2>2. /\ memory' = [memory EXCEPT ![r][l] = Scribbled] /\ changed' = [changed EXCEPT ![r] = TRUE]
        /\ UNCHANGED <<cycle, supported, sdk, pending, count, lastRM, got, exports, latest, taken>>
    BY <1>7, <2>1 DEF Scribble
  <2>3. /\ memory' \in [Owners -> [Levels -> 0..Scribbled]]
        /\ \A o \in Owners \ {r}, k \in Levels : memory'[o][k] = memory[o][k]
    BY <1>0, <2>1, <2>2
  <2>4. changed'[r] = TRUE /\ \A q \in Readers \ {r} : changed'[q] = changed[q]
    BY <2>2 DEF ExporterInv, Types
  <2>5. Types'
    BY <2>2, <2>3 DEF ExporterInv, Types
  <2>6. Collected'
    BY <2>2, <2>3, OwnersDiffer DEF ExporterInv, Collected
  <2>7. OwnTrees'
    BY <2>2, <2>3, <2>4, OwnersDiffer DEF ExporterInv, OwnTrees
  <2> QED
    BY <2>5, <2>6, <2>7 DEF ExporterInv
<1>8. CASE UNCHANGED exporterVars
  BY <1>8 DEF exporterVars, ExporterInv, Types, Collected, OwnTrees
<1> QED
  BY <1>1, <1>2, <1>3, <1>4, <1>5, <1>6, <1>7, <1>8 DEF ExporterNext

\* Whoever writes to what, the exporter's store is the last export and a snapshot stays as it was
\* taken, at every nesting level (testutil's Exporter).
THEOREM SnapshotsAreIndependent == ExporterSpec => []SnapshotsAreTheirOwn
<1> QED
  BY ExporterInitially, ExporterStep, ExporterInvImplies, PTL DEF ExporterSpec
=============================================================================
