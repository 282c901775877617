# Verification of metry

`metry` is a Go library that records OpenTelemetry traces and metrics for services and for
generative-AI operations. Little of it is long-running: its difficulty is that short calls are made
by many goroutines, hand control to host code (exporters, sanitizers, classifiers, payload policies,
callbacks) that may fail, panic or outlive the call, and continue in other processes, over headers,
queue tokens and an interrupted release script. That is what this directory models: each module
follows one part of the code, TLC checks it on small instances, and TLAPS proves the most important
properties for every instance.

Every property and theorem is introduced in its module by a comment that names the behaviour of the
code it is about. Definitions that begin with "Mutant" in their comment are not part of a
specification: each is a plausible bug of the definition that follows it, and some property must
catch it.

## 1. Inventory

| part | code | state | operations | module |
|---|---|---|---|---|
| recording handles | `genai/operation_handle.go`, `invocation.go`, `tool.go`, `retrieval.go`, `callback_failure.go`, `outcome.go` | mutex, `finished`, span, metrics of one observation | start, `Finish`, `Close`, `ValidateStreamingUpdate` | `OnceRecording`, `RecordingHandle` |
| metric dimension budget | `genai/cardinality.go` | mutex, combinations exported per instrument | `normalize`, for every metric point | `MetricDimensions` |
| completed observations | `genai/recorder.go`, `helpers.go`, `metrics.go` | the span of one call | `RecordOperation`, `RecordStreamingCompletion`, `RecordInteraction`; tracker and noop | `CompletedRecording` |
| payload policies | `genai/payload_policy.go` | none | `SanitizePayload`, redacting and hashing | `Redaction` |
| bounded JSON | `genai/bounded_json.go` | search interval of one call | `boundedJSON`, `boundedJSONArray` | `BoundedJSON` |
| causal links | `genai/operation_handle.go` (`recordingLinks`) | links of one call | validation and deduplication | `CausalLinks` |
| deferred outcomes | `genai/recorder.go`, `internal/async/*.go`, `async_handle.go` | origin span, token, result span | `StartAsync`, `Marshal`, `ParseHandle`, `RecordAsyncResult` | `AsyncContinuation` |
| linked spans | `async_handle.go` | mutex, `active`, `statusErr`, span | `RecordLinkedSpan`, `SetAttributes`, `SetError`, close | `LinkedSpan` |
| provider life cycle | `metry.go`, `sdk.go` | `shutdownOnce`, `shutdownErr`, owned pipelines | `Shutdown`, `ForceFlush`, `FlushDependencies` | `ProviderLifecycle` |
| executor middleware, diagnostic policy | `executor_middleware.go`, `diagnostic/policy.go` | `executorOnce`, instruments, one span per call | `ExecutorWrap`, the wrapped function | `Executor` |
| metrics registry | `metrics_registry.go` | mutex, registered names | `NewCounter`, `NewHistogram`, `NewGauge` | `MetricsRegistry` |
| enrichment and propagation | `enrich.go`, `propagation/*.go`, `internal/enrichment`, `internal/baggageutil`, `trace_snapshot.go` | ledger and baggage of a context, carriers, snapshots | `Enrich`, inject, extract, snapshot, restore | `Propagation` |
| release script | `scripts/release.sh`, `docs/release/runbook.md` | lock directory, record on disk, git remote | `publish`, `resume`, `inspect`, `finish` | `Publication`, `Release` |
| tracker and contract construction | `genai/config.go`, `profile.go`, `contract.go`, `tracker.go` | options, profile snapshots, settings of a tracker | `With...` options, `NewContract`, `NewTrackerFromProvider`, `Profile` | `TrackerSetup` |
| HTTP middleware, gRPC interceptors, security events | `http_middleware.go`, `middleware/grpc`, `security/events.go` | the span of a request, decisions on it | guard a handler, pass on the end of an RPC, `Record` | `ServerSpans` |
| evaluations | `genai/evals.go`, `examples/observation_mapping/mapping.go` | the sink's mutex and measurements | `mapAssessment`, `accept`, `Record` | `EvaluationDelivery` |
| mapping of results | `examples/observation_mapping/mapping.go` | the stream read so far | `normalizeUpdates`, `mapReading`, `mapModel` | `ObservationMapping` |
| conformance | `genai/conformance.go`, `conformance_evidence.go` | the report of one check | `CheckConformance` over the fixtures of a host | `Conformance` |
| scope and sampler | `genai/scope_context.go`, `internal/genai/hint_sampler.go` | immutable contexts | `WithScope`, `ScopeFromContext`, `ShouldSample` | `ScopedSampling` |
| test exporter | `testutil/exporter.go` | mutex, count, last snapshot | `Export`, `LastResourceMetrics`, `Reset` | `Exporter` |
| reference policy, adapters, identities | `genai/reference_policy.go`, `adapter.go`, `helpers.go`, `causal.go` | none | `referenceWithConfig`, `metadataWithConfig`, `RecordModelInteraction`, `CausalIdentity.Validate` | `References` |
| schema, attributes, log handler, other examples | the rest | none, or immutable | constructors, conversions | not modelled |

How they meet. A `Provider` owns the pipelines through which every other part exports, and its
`Shutdown` is the end of all of them. A recording handle validates its input, asks host callbacks,
bounds payloads with *bounded JSON* after a *payload policy*, takes *causal links* at its start, and
sends every metric point through the *metric dimension budget*, which all handles of a tracker
share. *Completed observations* do the same in one call. *Deferred outcomes* and *linked spans*
continue a trace in another call or process; *propagation* carries it there with business values.
*Scope* metadata and the *sampler* read the context that all of these start from. The middleware
and *security events* write to the span of a request, through the same *diagnostic policy* as the
executor. A host's *mapping* makes the results that handles are given, and the *evaluations* of what
was recorded; *conformance* judges what adapters built this way export.
The release script is a system of its own: its state outlives its processes.

What makes each correct:

- **handles**: one observation is sealed once, by one call, whatever races; a refused input can be
  corrected; a panic of the host is recorded, releases the lock and ends the span; `ErrFinalized`
  means that the record is complete.
- **dimension budget**: an instrument never has more series than its budget, overflow series
  included; a combination is never both admitted and overflowed.
- **provider**: everyone who is told "shut down" is told so after all owned pipelines were asked, once
  each, and of every failure; borrowed pipelines are left alone.
- **linked spans**: writes after the callback are inert, accepted ones are exported, the first error
  is the status.
- **executor**: instruments are made once; the outcome recorded is the outcome that happened; no text
  leaves around the diagnostic policy.
- **deferred outcomes**: a result is linked to its own, finished origin; acknowledged results are
  recorded; refused ones leave nothing.
- **propagation**: a value crosses only the hops whose policies name it; local values, and the
  rejection of remote traces, stand; a reused carrier holds nothing of an earlier request.
- **release**: one candidate, atomically, never rewinding; success is only said of what is published.
- **algorithms of one call**: the longest prefix that fits; every link once; no raw text under either
  policy; the noop recorder agrees with the tracker.
- **requests**: the outcome reaches the server as the handler gave it, the span tells of it in
  processed text only, and a security decision is on one span.
- **evaluations**: a stored one never changes, whoever still holds the memory it was made of; every
  recorded call is one span.
- **mapping**: a total is mapped only when it is the producer's own, whatever the stream lost,
  repeated or reordered; an error is never mapped to a success.
- **conformance**: a report that passes means that what it shows was counted once, at the boundary of
  one owner, and holds no value that was not vetted.
- **scope and sampler**: the innermost word decides a field; a trace is sampled as a whole, but for
  spans that must be kept.
- **test exporter**: a snapshot belongs to who took it, and is the last export.
- **references**: what belongs together looks the same, and nothing that was not declared safe is shown.
- **construction**: settings are those the options asked for when they were made, and stay so; raw
  payloads need the caller's last word; a contract and a tracker of the same options agree.

`PROJECT.json` lists the hazards, each at its line, with the properties that would catch it.

## 2. Modules and how they follow the code

A name of a definition is the source's where TLA+ allows it. Data is abstracted to what properties
tell apart; control (guards, early returns, error paths, the order of effects) is kept.

**OnceRecording / RecordingHandle.** `OnceRecording` is the promise of any handle: sealed at most
once, by one call, which alone is told so; others hear `ErrFinalized` only once the sealing call has
been answered. `RecordingHandle` is the detailed handle. Its variables are the fields of
`OperationHandle` (`mutex`, `finished`, `span`), the metric series, and of each goroutine a program
counter and its call. An action is the code between two points where another goroutine or host code
can be seen: taking the lock (`Acquire`), the validations before any effect (`Reject`,
`AcceptUpdate`, `AcceptResult`), each host callback returning or panicking (`CallbackReturns`,
`CallbackPanics`, `SanitizeReturns`, `SanitizePanics`), the bounds on the encoding (`RejectEncoding`),
setting `finished` (`Commit`), metrics (`Record`), `EndSpan`, the deferred `endRecordingOnPanic`
(`EndRecordingOnPanic`) and `Unlock`. Four kinds of handle (model operation, tool, retrieval,
invocation) differ in what they charge, validate and ask; `resolveOutcome` is a table. The refinement
mapping (`Once`) takes the sealing caller to be the one whose answer is "recorded" or "panicked".

**MetricDimensions.** One point per goroutine goes through `Normalize` (undeclared values replaced),
`Lookup` (the mutex and the decision), and `Admit`, `Known` or `Overflow`. `Reserve` is
`overflowReserve`: the product, per instrument, of the semantic dimensions that overflow keeps.

**ProviderLifecycle.** `sync.Once` is a variable; its callers wait for the one inside. A pipeline
returns, fails or panics. A panic marks the once done without an answer, as `sync.Once` does.

**LinkedSpan.** The stages of `RecordLinkedSpan` against workers that keep its writer. `Enter` is the
critical section up to the write; `Close` takes the same lock.

**Executor.** `executorOnce`, the instruments it leaves, then the wrapped function: it returns a value
or an error, panics, or exits its goroutine (`runtime.Goexit`). `Diagnostics` is `Policy.Error` and
`Policy.Panic` in three modes, with a sanitizer that may fail.

**MetricsRegistry.** A name is reserved and an instrument is created under one lock; the meter may
fail (name released) or panic (name kept reserved, lock released by `defer`).

**AsyncContinuation.** A producer (`StartSpan`, `Capture`, `EndOrigin`, `Send`), the host's queue
(`Duplicate`, `Damage`, `Lose`; external) and workers that may crash between `Begin` and the
acknowledgement. `tracing` says whether an SDK is installed: without one the span started is that of
the caller.

**Propagation.** A request's context is its trace (`span`), its trusted `ledger` and its visible
`bag`. `Inject` clears and writes a carrier, `Extract` reads one under the policy, `Enrich` and
`WriteBaggage` change the context, `TakeSnapshot` and `Restore` move the trace alone. Each value
carries, as history, who made it and which services extracted it.

**Publication / Release.** `Publication` is the promise of a release: one candidate is chosen, once;
its commit and all of its tags appear at one moment, on top of what main then is; success is said
after that. `Release` implements it (`Public`). Every shell command that changes the record or asks
the remote is a step, so that `Kill` falls between any two. `active` is the record directory. `Push`
only sends: the remote accepts (`Accept`) or loses (`Drop`) it at any later time, and its answer may
be lost. Other people move main and push tags.

**CompletedRecording.** An observation is the set of its flaws. The two recorders check them in the
order of their code (`TrackerChecks`, `NoopChecks`) and answer the first.

**BoundedJSON, CausalLinks, Redaction.** Algorithms of one call, one action per loop pass. A document
of `BoundedJSON` is the function from the length of a prefix to its bytes, nodes and depth, which is
all the search looks at. A JSON value of `Redaction` is a function from paths to nodes (`Tree`): what
the recursive functions of the code see of a value is said of the keys on its path. A policy
walks into it until an object under an unknown key hides the rest (`Opaque`), and the redacted object
is itself a tree, `{"redacted": true}`, which a second policy may meet.

**Decisions** is an abstract promise that several parts make by different means: of each key one value
is decided, the first, for good, and whoever is answered is answered with it. `ProviderLifecycle` and
`Executor` implement it with a `sync.Once`, `MetricDimensions` with a cache under a mutex,
`EvaluationDelivery` with a map that is written again and again. The refinement mappings are in their
proof modules (`FirstAnswer`, `FirstInstruments`, `FirstRoute`, `FirstContents`).

**TrackerSetup.** A caller makes options, two constructions of trackers or contracts read them, and the
caller writes to its profile, or to the copy it got back, at any time. Slices are cells of a heap, so
that a copy and an alias differ: `GiveProfile` is the snapshot of `WithProfile`, `ApplyOption`
applies the next option, `Configure` copies again, `Register` and `RegisterFails` are the instruments of
`newMetricsHolder` one after the other, `CopyProfile` is `Tracker.Profile`. Options are made before a
construction begins.

**ScopedSampling.** Contexts are derived from any earlier one by `WithScope`, a put into the trusted
ledger, baggage, or the start of a span; the n-th call writes the value n, so that a field says who
decided it. `MergeScope`, `ScopeFromContext` and `ShouldSample` are the functions of the code.

**References.** Words of hosts and adapters (declared, undeclared, of the schema, empty, too long) go
through `Metadata` or `Reference` onto spans and their names, and through `Metric` into metrics, under
every profile and policy. A fingerprint is the word it was made of, marked.

**ServerSpans.** One request: the handler of the host ends, then either the guard of `HTTPHandler`
(`Recover`, `EndAndRethrow`) inside otelhttp (`LeaveHTTP`), or `diagnosticStats.HandleRPC`
(`HandleEnd`) before the stats handler of the host. Goroutines of the handler call `security.Record`
meanwhile and after: `ChooseSpan` asks whether the span of the request is recording, and
`AddToRequest` asks again, since it may have ended in between.

**EvaluationDelivery.** A sender holds an evaluation that points to memory of its own, which it goes
on writing to. The sink's critical section is `Lock` with `Conflict` or `Store`; that an
acknowledgement is lost and a delivery repeated is the sender's choice. `BeginRecord` to `EndRecord` is
`EvaluationRecorder.Record`.

**ObservationMapping.** A producer's stream, of which any update may be lost, repeated or out of turn
(`Arrive`); the loop of `normalizeUpdates` (`ReadUpdate`, `RefuseUpdate`); `mapModel` as one step.

**Conformance.** `validateComposition` (`Compose`), then the loop of `CheckConformance` over fixtures
(`FixtureReturns`, `FixtureFails`, `FixtureMissing`, `Report`), with adapters of the host that record
at any boundary any number of times (`AdapterRecords`). A rule of `checkObservation` and
`checkEvidence` is a case of `Holds`. int64 sums wrap; a fixture may leave evidence out.

**Exporter.** The SDK overwrites one buffer level by level (`Collect`, `Overwrite`) and hands it to
`Export`. A snapshot is, for each nesting level, the owner of the arrays that hold it, so that a deep
copy and a shallow one differ; readers write to what they took (`Scribble`).

Several independent parts share an instance where none is large: in `MCFunctions` (completed
recordings, payload policies, bounded JSON, causal links, construction, scope and sampler, names and
identities), `MCMetrics`
(budget, registry, exporter), `MCSpans` (linked spans, requests) and `MCDeferred` (continuations,
evaluations, mapping) a behaviour has one of them, chosen at the start, and the others stand still.
The other `MC` modules give constants, small inputs and symmetry sets.

## 3. Runs

| run | question | bounds and why they are enough |
|---|---|---|
| `handle` | do racing calls seal one complete record, implement `OnceRecording`, and return? | 2 goroutines, 2 calls each, 4 kinds, 5 results that cover acceptance, refusal before and after others passed, and both ways to an error: two calls race, and a third and fourth come after the verdict |
| `metrics` | does the budget hold when the last series is contested? one instrument per name, retry after failure; are snapshots independent? | 2 goroutines, 2 instruments, a budget of 4 with a reserve of 3, so that one free series is contested; cost and time-to-first-token differ in their reserve. 2 goroutines, 2 calls, 2 names, 2 kinds. 2 readers while the SDK collects twice, so that the buffer is overwritten under a snapshot |
| `provider` | one shutdown, one answer, all failures, whatever fails or panics | 3 callers, so that one runs, one waits and one comes late; both pipelines may panic |
| `spans` | late writers, first error, end of the span; the outcome of a request, and decisions while it ends | 3 workers with 2 writes: one before, one during and one after the close. Both transports, every outcome, 3 policies, sampled or not, 2 recorders |
| `executor` | one creation, outcomes as they were, texts under the policy | 3 callers: one creating, one waiting, one late |
| `deferred` | right origin, no lost or doubled result; evaluations stored once; totals of a lossy stream | 2 operations, 2 workers, each token delivered twice at most. 2 senders with 2 calls each, 2 identities, results of every kind and four invalid ones. Streams of up to 3 updates of which up to 4 arrive, so that one is repeated or none is lost; ints of up to 3 overflow |
| `propagation` | what crosses which hop, and what fits | chains and loops of two services with one value; one service with three values of which two fit, one reserved |
| `release` | one candidate, atomic, no false success; does it implement `Publication`? | 2 shells, 2 modules (a partial record exists), 2 builds (an interrupted preparation is repeated) |
| `functions` | four algorithms on all small inputs, settings that are as asked for, what a context decides, and what is shown of a name | documents of up to 4 elements of three sizes, limits at every boundary; up to 3 handles of 3 spans in 2 variants for a bound of 2; JSON of depth 2, under keys that are allowed, unknown, or the "redacted" of the result, which may itself be allowed; up to 3 flaws; 2 constructions, 3 options (consent given, withdrawn by a later profile, raw asked for again), 3 profiles of which one is invalid; 3 contexts derived from the first one, 2 fields; 2 spans, so that they can be compared, of 2 runs, with words declared under one key, under both or none |
| `conformance` | what does a passing report show? | 2 adapters, up to 2 fixtures of 2 recordings: a second recording is the double count; an int64 of 3 bits, so that sums wrap below and above zero; compositions, policies and lists of fixtures are varied one at a time |
| `release_manifests` | (a disagreement, section 6) | 1 shell, one kill |
| `executor_panic` | (a disagreement, section 6) | 1 caller, 1 panic |

The named bounds are `MaxCalls`, `MaxWrites`, `MaxDeliveries`, `MaxDelivered`, `MaxArrivals`,
`MaxTotal`, `MaxCycles`, `MaxContexts`, `MaxSpans`, `MaxRecords`, `MaxInt`, `MaxBuilds`, `MaxFlaws`,
`MaxOptions` and `Registrations`, all in guards, in arithmetic that wraps or is refused, or in initial
states. Symmetry is used only in runs without liveness properties. Deadlock is not checked where
everybody may be done: a bounded number of calls, a handle that is over.

**Fairness.** The runs with liveness properties use the module's `FairSpec`, or state it for the part
of a shared instance that has one (`spans`, `metrics`). It says: a goroutine
inside a call is scheduled (WF of its steps); host callbacks and pipelines terminate, by returning,
failing or panicking; and a contended `sync.Mutex` is starvation-free (SF of the acquisition), which
its starvation mode guarantees. The handler of a request and the callbacks of the policy end as well.
No fairness is assumed of making calls, so a host may stop at any
time. `release`, `deferred`, `propagation`, `conformance` and `functions` state safety only: nothing
obliges an operator, a queue or a peer to act, and what is computed in one call has no other to wait
for.

What each shows, property by property, is in the comments of the modules. A run checks a few
properties, some of them the conjunction of parts that are named and commented one by one:

| run | property | parts |
|---|---|---|
| `handle` | `OneAccount` | `TypeOK`, `OneVerdict`, `AccountedOnce` |
| `metrics` | `StableRoutes` | `TypeOK`, `OneRoute`, `OverflowOnlyWhenFull` |
| | `NamesAgree` | `RegistryTypeOK`, `OneInstrumentPerName`, `NamesAreThoseRegistered`, `DuplicateIsRegistered` |
| | `SnapshotsAreTheirOwn` | `ExporterTypeOK`, `StoreIsLastExport`, `TakenStays` |
| `provider` | `AnswersAreComplete` | `TypeOK`, `FailuresAreTold`, `AnsweredMeansStopped`, `StoppedAtMostOnce`, `BorrowedUntouched` |
| `spans` | `SpanIsWhatWasSaid` | `TypeOK`, `FirstErrorWins`, `NoAcceptedWriteIsLost` |
| | `ServerSpansAreTrue` | `ServerTypeOK`, `OnlyProcessedText`, `OutcomeIsPassedOn`, `DecisionsAreOnOneSpan` |
| `executor` | `TrueRecords` | `ExecutorTypeOK`, `CreatedOnce`, `RecordedAsItEnded`, `NoUnprocessedText` |
| | `CallsEnd` | answers of `ExecutorWrap`, ends of spans |
| `deferred` | `ContinuesItsOrigin` | `TypeOK`, `ResultLinksItsOrigin`, `OriginIsOver` |
| | `AckedIsRecorded` | `NilMeansRecorded`, `RefusedLeavesNothing` |
| | `DeliveredAsTheyWere` | `EvaluationTypeOK`, `MeasurementsAreFinal`, `AnswersAreTrue`, `SpansAreResults` |
| | `MappedIsReported` | `MappingTypeOK`, `TotalIsTheProducers`, `UsageIsReported`, `OutcomeIsReported` |
| `propagation` | `CarriersAreClean` | `NothingStale`, `HostBaggageStays`, `RejectedTraceIsNotContinued` |
| | `BaggageIsSound` | `TypeOK`, `BaggageShowsLedger`, `WithinLimits` |
| `release` | `OneWholeCandidate` | `TypeOK`, `OneCandidatePublished`, `AtomicPublication`, `SuccessIsPublished`, `PushAfterObservation` |
| | `ImplementsPublication` | chosen once, appears whole on top of main, told only then |
| `functions` | `LongestFittingPrefix` | `JSONTypeOK`, `WithinLimits`, `LongestPrefix` |
| | `LinksAreExact` | `LinksTypeOK`, `EachOnce`, `NothingDropped`, `BoundedOrRefused` |
| | `NothingPrivateLeaves` | `NothingRawLeaves`, `UnknownKeysAreHidden`, `ShapeIsKept`, `FingerprintsTellApart` |
| | `SettingsAreAsAsked` | `SetupTypeOK`, `RawIsConsented`, `SettingsAreOwn`, `ConstructionsAgree` |
| | `ValidatedFirst` | `RecordingTypeOK`, `RefusedLeavesNothing`, `AcceptsFlawlessOnly`, `PolicySeesValidated`, `NoopAgrees` |
| | `ContextDecides` | `InnermostDecides`, `TracesAreWhole` |
| | `LabelsAreProtected` | `IdentitiesCorrelate`, `TreesAreSound`, `OnlyDeclaredIsLiteral`, `ViewsAgree` |
| `conformance` | `PassedMeansCountedOnce` | `ConformanceTypeOK`, `CountedOnce`, `OneOwner`, `EveryFixtureIsJudged` |

What a test would hardly reach: `RecordIsOneCall` (status, metrics and answer stem from one call),
`FinalizedMeansComplete`, `PanicIsTheVerdict`, `OneRoute`, `AnsweredMeansStopped`,
`NoAcceptedWriteIsLost`, `AckedIsRecorded`, `CrossedAllowedHopsOnly` (over any number of hops),
`OneCandidatePublished` and `PushAfterObservation` (pushes that arrive late), `NoopAgrees`,
`CountedOnce` (although sums may wrap and evidence may be missing), `DecisionsAreOnOneSpan` (the
request ends between two questions), `MeasurementsAreFinal` (the sender keeps its pointers),
`TotalIsTheProducers`, `TakenStays` (at every nesting level), and `IdentitiesCorrelate` (over spans that
different functions emit).

## 4. Proofs

TLAPS proves these for every value of the constants. Each of the eight proof modules EXTENDS the
specifications it is about. A property of a run that is a conjunction of parts is proved as a whole,
under the name the run checks. Hardly any of them is inductive: each proof rests on an invariant that
says where everybody is and what each has done by then, named in the module. A step is one action of the
specification, under a lemma or a numbered case of its own.

**RecordingHandleProofs** (any number of goroutines, calls and results). That only one call seals the
record follows from where all calls are. `Control` says that the mutex is held exactly inside the
critical section (`Holder`), that `finished` is set exactly when a call has sealed or is about to
(`FinishedFlag`), and that once a caller was told, nobody is past the check (`VerdictIsLast`).
`Exported` adds what the span and the series are at every point of the sealing call (`RecordState`) and
whose they are (`RecordOwner`). From them: `TypeCorrect`, `AtMostOneVerdict`,
`RejectionsAreCorrectable`, `PanicIsRecorded`, `NeverAccountedTwice`, `FinalizedIsComplete`,
`AccountIsOne`, `RecordHasOneAuthor` (`RecordIsOneCall`), and `HandleImplementsOnceRecording`, the
refinement: every step is a step of `OnceRecording` or none.

**MetricsProofs.** *Budget* (any goroutines, labels, instruments, currencies and budget, from
`BudgetAssumption`: what `Profile.Validate` enforces): `Inv` relates the decision taken under the
mutex to the cache it is about to change (`Decided`); `ReserveCoversSemantics` computes that the
reserve is at least the number of semantic combinations; hence `BudgetIsRespected` and
`RoutesAreJustified`, which joins `DimensionsTypeCorrect`, `RoutesAreStable` and `OverflowIsJustified`.
`RoutesAreOneDecision`, the refinement of `Decisions` with a key for every instrument and combination,
says the same of two moments: a route is not revised when the room for it changes.
*Registry* (any goroutines, names and kinds): `Reserved` accounts for the name that the goroutine
inside the lock has reserved and not yet registered; hence `NamesAlwaysAgree`. *Test exporter* (any
readers and levels): `Collected` says how much of a cycle the SDK has written, `OwnTrees` in whose
cells every tree lies; hence `SnapshotsAreIndependent`.

**FunctionsProofs** has what is computed in one call, or on immutable values.
- *BoundedJSON*, documents of any size, from `DocumentsAssumption`, the monotonicity of their measures:
  `Searched` says that everything above the interval is too large, what is retained fits, and the
  interval begins right after it. Hence `ExportIsWithinLimits`, `TruncationIsMinimal`, together
  `ExportIsLongestFitting`.
- *CausalLinks*, options of any length, any bound: `Progress` says what the scan has linked: the
  identities looked at and the origin. Hence `NoLinkTwice`, `NoLinkDropped`, `LinksAreBounded`, together
  `LinksAreAsGiven`.
- *CompletedRecording*, any number of flaws, with policies that return or panic: of each recorder, the
  checks it has passed have found nothing (`Cleared`), a verdict is the check it stands at (`Judged`),
  the policy was asked only by a tracker that reached it (`Asked`), and nothing is written before the
  last check (`NothingWrittenEarly`). `TrackerChecksAre` and `NoopChecksAre` say which flaws each
  recorder looks for, and where. Hence `ObservationsAreValidatedFirst`.
- *References*, any words and declarations (`WordsAssumption`: only the shape of their input; declared
  values are what `validateDimensions` accepts): the invariant remembers of each span what it was
  made of (`OfModel`, `OfIdentity`, `OfSource`); that equal spans mean equal words, which relates two
  spans of different calls, follows from the injectivity of `Reference`. Hence `ReferencesProtectLabels`.
- *ScopedSampling*, contexts of any calls in any order: `ScopeIs` and `LedgerIs` say which call a field
  comes from, by its position, so that "the innermost" is stated of the calls and not recomputed;
  `SpanIs` carries the decision of a trace. Hence `ScopesDecide`.
- *TrackerSetup*, any options in any order, any number of constructions (`ProfilesAssumption`: profiles
  have a policy): the result of applying options one by one is a fold, and what a fold computes is
  induction over data. In its place the invariant exhibits the configurations after 0, 1, ..., m
  options as a function `F` (`Folded`), which `ApplyOption` extends by one; `Built` says that every
  construction is, or was, at one of them, and `CellIs` and `RawIs` which option a configuration is
  of. Two constructions agree because they pass through the same `F`. Hence `SettingsAreWhatWasAsked`.
- *Redaction*, JSON of any depth and width (`PartsAssumption`: a part is a text or a JSON tree;
  `StepsAssumption`: "redacted" is a key): the shortest opaque prefix of a path exists since lengths are well
  founded, so that every value either was walked to or lies under the first opaque object of its path
  (`WalkEnds`), which is replaced. With what a hash keeps apart (`HashIsInjective`): `PoliciesHide`. What
  comes out of a redaction has allowed keys and replaced texts only, so that a second one leaves it as it
  is: `RedactionSettles`. That is not so of `{"redacted": true}`, which stands for JSON that did not
  decode and is itself looked into, which the theorem excepts (TLC finds the counterexample).

**ProviderLifecycleProofs** (any number of callers and calls). `Once` says that who is inside the
once is alone and that nobody is answered before it is done; `Progress` which pipelines were asked at each of
its steps and what the goroutine inside knows of their failures; `Answer` that its error is all of
them. Hence `ShutdownIsComplete` and the action property `AnswerIsFinal`. `ShutdownIsOneDecision` is
the refinement of `Decisions`: the end of the once decides, by its return or by a panic, and `Return`
tells. `WaitersAreServed` is the part of `ShutdownReturns` that needs no fairness: a goroutine waits
only for another one that is inside.

**SpansProofs.** *Linked spans* (any workers and writes): `Guarded` (the mutex and `active`), `Staged`
(what stage of `RecordLinkedSpan` has which span), `Retained` (the error kept is the first), `Pending`
(an accepted write is on the span or in the hands of who holds the mutex). Hence
`LinkedSpanIsWhatWasSaid` and the action property `LinkedWritesAreInert`. *Requests* (any recorders):
`Serving` and `Told` say what the span tells from the step that knows the outcome to the end; `Chosen`
that a recorder which found the span ended never finds it open, so that its decision is on one span.
Hence `RequestSpansAreTrue` and `DecisionsStand`. *Executor* (any callers; `MeterAssumption`,
`PoliciesAssumption`: the kinds of failures and policies there are): `OnceOver` says who is inside the
once, `CallIs` what a call has on record at each point. Hence `CallsAreRecordedAsTheyEnded`, and
`InstrumentsAreOneDecision`, the refinement of `Decisions`: all wrappers are given the same instruments
or the same error. `ResultsSurvive` delimits the disagreement of `executor_panic`: if the meter does not
panic, `ResultsUnchanged` holds whatever else fails, since held instruments are ready (`HeldIsReady`).

**ReleaseProofs.** *Release* (any shells, modules, builds and kills): whoever is inside the lock is
alone (`TypeOK`); `Where` says what a run has made sure of by the step it stands at; `Told` that a
remote which a run has seen at the candidate keeps it. Hence `ReleaseIsOneCandidate`,
`ReleaseIsAPublication` (every step of the script, the remote and other people is a step of
`Publication` or none) and the action property `PublishedStays`. `ManifestsFollowWholeLists` delimits
the disagreement of `release_manifests`: if no run ends in the loop that writes `module-paths` before
it is whole, whatever is interrupted elsewhere, `ManifestsAreComplete` holds; the invariant (`Listing`)
says that a record that loads has a whole list or the one who writes it inside. *Conformance* (any adapters,
declarations, policies, fixtures and usages, from `ConformanceAssumption` and `CompositionsAssumption`:
usages are unknown or a non-negative int64): `Ledgers` ties what the instruments hold of a boundary to
the spans exported from it, `Exhibits` keeps of every boundary shown what its rules established, and
`Judged` that fixtures were judged in turn. Hence `PassedIsTrue`, `PassedIsVetted`.

**PropagationProofs** (any services, keys, policies, carriers and any number of hops, from
`PropagationAssumption`): `Trusted` and `Sent` say of a value, wherever it is, that every service on
its way let it in and out. `BuildKeeps` and its neighbours say what the operators on baggage keep.
`BuildFits` shows that what `Build` keeps is within the limits without computing a sum: since it stops at
the first member that does not fit, it keeps a prefix that fits, and a finite set of keys is the prefix
of its last one (`LastKey`, from the well-foundedness of finite subsets). Hence
`ValuesCrossAllowedHops`, `CarriersStayClean`, `BaggageAlwaysSound` and the action property `LocalWins`.

**DeferredProofs.** *Continuations* (any operations, workers and deliveries): `Captured` says what a
handle refers to at each stage of its operation, `OnePlace` that a delivery is in the queue, with one
worker, or settled, `Traced` where all of them come from, and `ResultFirst` that a result span exists
once its worker is on its way to acknowledge. Hence `ResultsContinueTheirOrigin`, `AcknowledgementsAreTrue`,
`TokensKeepTheirMeaning`. *Evaluations* (any senders and identities): `Committed` says that what is stored
is the sink's own copy of what was committed, `Checked` that a sender inside the lock does not conflict
with it. Hence `EvaluationsAreDelivered`, `CommitmentsStand` and `ContentsAreOneDecision`, the refinement
of `Decisions`: the first store decides the contents of an identity, and a later one, which the code
carries out again, repeats them; what is stored is one of the evaluations the senders can hold, and valid
(`Holding`). *Mapping* (streams of any length,
`StreamsAssumption` and `InputsAssumption`: readings and amounts are ints): `InTurn` says that the
updates accepted are a prefix of the stream in its order, `Says` what that prefix amounts to, with the
partial sums as a function. Hence `MappingIsOfTheWholeStream`.

The assumptions on constants are the named `ASSUME`s in the modules; TLC evaluates them in the runs.

What proving changed in the models. `CountedOnce` used to say that what a passing report shows is
charged exactly as it happened; with a usage of (1, 0, 0) in place it is false, since what happened (3,
3, 3) wraps around an int64 to the same account as a recording of (1, 0, 0). It now says what holds: the
account is that of the one recording, exactly, is what an int64 holds of what happened, and is what
happened if the sums fit. `TrackerSetup` applies its options one by one. A record of a
`CompletedRecording` has a verdict "pending", no longer shared with the empty one. `Fit` stops at the
first member that does not fit, as the loop of `baggageutil.Build` does, in place of asking of each
member alone. `WithinLimits` speaks of the baggage this code makes: a peer's own carrier is as large as
the peer likes. The sum of a stream is defined by its partial sums, within an int. `AsyncContinuation`
and `Conformance` name assumptions that had only been true of their instances. The trees of `Redaction`
were built by RECURSIVE operators, about which nothing can be proved; they are functions on paths now,
and an object that is redacted is written out, since a second redaction looks into it.

Model-checked only: liveness (`CallsReturn`, `ShutdownReturns`, `LinkedSpanEnds`, `CallsEnd`,
`Answered`, `ServerSpansEnd`), which needs fairness and ENABLED. The other properties that the passing
runs check are proved. No run states the refinements of `Decisions`, `RedactionSettles`, `ResultsSurvive` and
`ManifestsFollowWholeLists`; TLC found no counterexample to them on the instances of the runs either.

## 5. Not modelled, and why

- What OpenTelemetry keeps: the state of an RPC in `otelgrpc`, of a request in `otelhttp`, the span
  exporter and the batching of the SDK. Modules stop where they hand over.
- Schema, attributes, labels, options of the provider, exporters: constructors of immutable values.
  `Profile.Validate` is one bit in `TrackerSetup`; the bound it puts on the budget is
  `BudgetAssumption`.
- Conformance: events; the wire shape of a payload, which is one value, well formed or not; costs and
  video, which follow the rule of tokens.
- References: the name of a tool, which follows the rule of metadata with another default; the
  references of resumes and async handles.
- Feedback takes the path of a deferred result (`AsyncContinuation`); its fields are not modelled.
- Log handler: stateless; its reserved keys are `LogKeys`.
- Examples other than `observation_mapping`, and integration tests: they call the library in sequence.
- Time: durations are a choice (zero or positive). Contents of payloads, names, attributes: only
  whether they are valid, private, allowed or fit.
- Host callbacks that call back into the handle that called them: the mutex is not reentrant, so such
  a call deadlocks by design.

## 6. Where the code and its documentation disagree

- `release_manifests`: `module-paths` is truncated, then filled in a loop. A run killed in the loop
  leaves a partial list that no later run completes or compares with the modules. `resume` prepares
  and publishes a candidate in which the manifests of the unlisted modules were not rewritten, against
  `docs/release/runbook.md:34`.
- `executor_panic`: a host's meter that panics inside `executorOnce` leaves nil instruments and no
  error. Later `ExecutorWrap` calls succeed, and the functions they wrap die of a nil dereference in
  the deferred record in place of returning their results, against `README.md:661`.

Observed while modelling, and left as they are: a panic inside `shutdownOnce` loses the failures met
before, so that later callers of `Shutdown` are answered nil (`FailuresAreTold` is stated for runs
without a panic); a record killed inside `seal` lists too few tags, and `inspect` may then write status
`complete`, though neither the success message nor the archive depends on it; a wrapped function that
leaves by `runtime.Goexit` is recorded as a success; an operation whose duration measures zero is
missing from the duration histogram; a token delivered twice is recorded twice, which the
documentation leaves to the host; a linked span whose outcome is unset is exported as OK.

## 7. Plan

Done: handles first, as everything else records through them; then the budget they share; then the
provider, linked spans and executor (host code under locks and onces); the registry; deferred
outcomes, release and propagation (several processes); the algorithms of one call; the construction
of trackers; then what surrounds the library: requests and security decisions, evaluations and the
mapping of results, conformance, contexts, names and identities, the test exporter; and the abstract
specification of publication.

Then the proofs: all properties that runs check, but for liveness; the refinement of `OnceRecording`,
`Publication` and, by four parts, of `Decisions`; and the conditions under which the two disagreements
of section 6 do not arise.

What is left:

1. A composition of `RecordingHandle` with `MetricDimensions`, and of `AsyncContinuation` with the
   handle its worker records into.
2. A delivery at least once as an abstract promise of `AsyncContinuation`.
3. Liveness for all values of the constants, for which `WaitersAreServed` is a first step.
