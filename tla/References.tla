----------------------------- MODULE References -----------------------------
(***************************************************************************)
(* genai/reference_policy.go and its callers: what telemetry shows of the  *)
(* names and identities a host gives. A name is shown as it is only where  *)
(* the profile or the schema declares it; an identity is a fingerprint; so *)
(* that who reads spans and metrics can still put together what belongs    *)
(* together. Only a raw policy shows everything, and only on spans.        *)
(***************************************************************************)
EXTENDS Naturals, FiniteSets

CONSTANTS Metas,        \* what hosts and adapters say of a model call: of each key a word
          RunIdentities, \* what they say of a run, among it what is invalid
          CacheSources, \* what they say of a cache
          SafeValues,   \* values a profile may declare
          MaxSpans      \* bound: spans emitted

ASSUME MaxSpansAssumption == MaxSpans \in Nat

\* A word is a tuple, so that a fingerprint is one too.
NoWord == <<>>
Long == <<"longer_than_256_bytes">>
Chat == <<"chat">>  \* an operation of the schema
UnknownWord == <<"unknown">>
Hidden == <<"redacted">>
Digest(word) == <<"sha256", word>>

MetaKeys == {"provider", "operation", "model", "response"}
IdentityKeys == {"run", "parent", "operation", "attempt"}

IsWord(w) == w = <<>> \/ w = <<w[1]>>

\* validateDimensions: a declared value is neither empty nor too long.
ASSUME WordsAssumption ==
  /\ \A meta \in Metas : DOMAIN meta = MetaKeys /\ \A key \in MetaKeys : IsWord(meta[key])
  /\ \A i \in RunIdentities : DOMAIN i.ids = IdentityKeys /\ \A key \in IdentityKeys : IsWord(i.ids[key])
  /\ \A source \in CacheSources : IsWord(source)
  /\ \A value \in SafeValues : IsWord(value) /\ value \notin {NoWord, Long}

VARIABLES configured, \* the tracker's payload policy: raw, or any other
          declared,   \* of each key: the values the profile declares
          emitted     \* spans: from which function, what was given, what is shown; labels of its metrics

referenceVars == <<configured, declared, emitted>>

ReferencesInit ==
  /\ configured \in {"raw", "redact"}
  /\ declared \in [MetaKeys -> SUBSET SafeValues]
  /\ emitted = {}

-----------------------------------------------------------------------------
\* referenceWithConfig.
Reference(word) ==
  CASE word = NoWord -> NoWord
    [] word = Long -> Hidden
    [] configured = "raw" /\ word \notin {NoWord, Long} -> word
    [] OTHER -> Digest(word)

\* Mutant: a value that is declared is safe under any key.
DeclaredAnywhere(key, word) ==
  CASE word \in {NoWord, UnknownWord} -> word
    [] word \in UNION {declared[k] : k \in MetaKeys} \cup {Chat} -> word
    [] OTHER -> Reference(word)

\* metadataWithConfig: a value declared for its own key, or an operation of the
\* schema, is shown; any other is a reference.
Metadata(key, word) ==
  CASE word \in {NoWord, UnknownWord} -> word
    [] word \in declared[key] \/ (key = "operation" /\ word = Chat) -> word
    [] OTHER -> Reference(word)

\* metricAttributesFromMeta, and normalize of the dimensions: what the profile does
\* not declare is unknown, under every policy.
Metric(key, word) ==
  LET shown == IF key = "provider" /\ word = NoWord THEN UnknownWord ELSE word
  IN IF shown = NoWord \/ shown \in declared[key] THEN shown ELSE UnknownWord

Emit(span) == emitted' = emitted \cup {span} /\ UNCHANGED <<configured, declared>>
MayEmit == Cardinality(emitted) < MaxSpans

\* validateModelMetadata and validateOperationName.
ValidMeta(meta) ==
  meta["operation"] \notin {NoWord, Long} /\ Long \notin {meta["model"], meta["response"]}

\* buildMetaAttributes, modelSpanName, metricMeta.
ModelSpan(meta, response) ==
  [from |-> "interaction", given |-> meta, said |-> response,
   shown |-> [key \in MetaKeys |-> Metadata(key, meta[key])],
   name |-> <<Metadata("operation", meta["operation"]), Metadata("model", meta["model"])>>,
   labels |-> [key \in MetaKeys |-> Metric(key, Metadata(key, meta[key]))]]

RecordInteraction ==
  /\ MayEmit
  /\ \E meta \in Metas : ValidMeta(meta) /\ Emit(ModelSpan(meta, meta["response"]))

\* RecordModelInteraction: the adapter parses a request and a response; the model
\* of the response is what the response says, or nothing.
RecordModelInteraction ==
  /\ MayEmit
  /\ \E meta \in Metas, response \in {m["response"] : m \in Metas} :
       LET merged == [meta EXCEPT !["response"] = response]
       IN ValidMeta(merged) /\ Emit(ModelSpan(merged, response))

\* CausalIdentity.Validate.
ValidIdentity(i) ==
  /\ i.ids["run"] # NoWord /\ i.ids["operation"] # NoWord
  /\ i.kind \in {"logical", "operation", "attempt"}
  /\ (i.kind = "attempt") = (i.ids["attempt"] # NoWord)
  /\ i.ids["parent"] # i.ids["run"]
  /\ \A key \in IdentityKeys : i.ids[key] # Long

\* The attributes of an identity at the start of a handle.
StartWithIdentity ==
  /\ MayEmit
  /\ \E i \in RunIdentities :
       /\ ValidIdentity(i)
       /\ Emit([from |-> "handle", kind |-> i.kind, given |-> i.ids,
                shown |-> [key \in IdentityKeys |-> Reference(i.ids[key])]])

\* The source of a cache hit is not validated.
RecordCacheHit ==
  /\ MayEmit
  /\ \E source \in CacheSources :
       Emit([from |-> "cache", given |-> [source |-> source], shown |-> [source |-> Reference(source)]])

ReferencesNext ==
  RecordInteraction \/ RecordModelInteraction \/ StartWithIdentity \/ RecordCacheHit

ReferencesSpec == ReferencesInit /\ [][ReferencesNext]_referenceVars

-----------------------------------------------------------------------------
Interactions == {s \in emitted : s.from = "interaction"}
Identified == {s \in emitted : s.from = "handle"}

\* "References preserve equality in non-raw modes, without exposing caller IDs": two
\* identities look the same exactly if they are, in whichever spans and under
\* whichever keys, so that a run finds its children and an operation its attempts;
\* one that is too long tells nothing; and no caller's identity is shown.
IdentitiesCorrelate ==
  /\ \A s, t \in emitted \ Interactions : \A k \in DOMAIN s.given, l \in DOMAIN t.given :
       Long \notin {s.given[k], t.given[l]} => (s.shown[k] = t.shown[l]) = (s.given[k] = t.given[l])
  /\ configured # "raw" =>
       \A s \in emitted \ Interactions : \A k \in DOMAIN s.given :
         s.given[k] # NoWord => s.shown[k] # s.given[k]

\* No run is its own parent, and attempts, and nothing else, have a number of
\* their own.
TreesAreSound ==
  \A s \in Identified :
    /\ s.shown["run"] # NoWord /\ s.shown["operation"] # NoWord
    /\ s.shown["parent"] # s.shown["run"]
    /\ (s.kind = "attempt") = (s.shown["attempt"] # NoWord)

\* "Machine labels remain literal only when explicitly declared safe": on spans and
\* in their names, unless the host chose raw; in metrics even then.
OnlyDeclaredIsLiteral ==
  \A s \in Interactions, key \in MetaKeys :
    LET safe == declared[key] \cup {NoWord, UnknownWord} \cup IF key = "operation" THEN {Chat} ELSE {}
    IN /\ configured # "raw" /\ s.given[key] \notin safe => s.shown[key] # s.given[key]
       /\ s.labels[key] \in declared[key] \cup {NoWord, UnknownWord}

\* A span, its name and its metrics tell of the same call: what a metric names is
\* what its span names, nothing that is declared is lost, and the model of the
\* response is never made up from the request.
ViewsAgree ==
  \A s \in Interactions :
    /\ s.name = <<s.shown["operation"], s.shown["model"]>>
    /\ \A key \in MetaKeys :
         /\ s.labels[key] \in {s.shown[key], UnknownWord}
         /\ s.given[key] \in declared[key] => s.labels[key] = s.given[key]
    /\ (s.shown["response"] = NoWord) = (s.said = NoWord)

\* What is emitted can be put together, and shows no more than was declared.
LabelsAreProtected ==
  IdentitiesCorrelate /\ TreesAreSound /\ OnlyDeclaredIsLiteral /\ ViewsAgree
=============================================================================
