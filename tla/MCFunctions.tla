---------------------------- MODULE MCFunctions ----------------------------
(***************************************************************************)
(* Parts of metry that share nothing with each other: four algorithms that *)
(* run inside one call, the construction of trackers, the contexts they    *)
(* record in, and the names and identities that their spans show. A        *)
(* behaviour is one of them, on one of its small inputs; the others stay   *)
(* where they begin.                                                       *)
(***************************************************************************)
EXTENDS BoundedJSON, CausalLinks, Redaction, CompletedRecording, TrackerSetup,
        ScopedSampling, References

VARIABLE call

-----------------------------------------------------------------------------
(* BoundedJSON: documents measured element by element. *)

\* A number, an object with one field, a nested array.
Elements == {[bytes |-> 1, nodes |-> 1, depth |-> 0],
             [bytes |-> 7, nodes |-> 2, depth |-> 1],
             [bytes |-> 4, nodes |-> 2, depth |-> 2]}

Total(es, m, field) == FoldLeft(LAMBDA sum, e : sum + e[field], 0, SubSeq(es, 1, m))
Deepest(es, m) == FoldLeft(LAMBDA max, e : IF e.depth > max THEN e.depth ELSE max, 0, SubSeq(es, 1, m))

\* Brackets and commas; the envelope adds {"data":..., "truncated":true}, scaled down.
Bytes(es, m) == 2 + Total(es, m, "bytes") + (IF m > 1 THEN m - 1 ELSE 0)
Envelope(shape) == IF shape = "envelope" THEN [bytes |-> 4, nodes |-> 2, depth |-> 1]
                   ELSE [bytes |-> 0, nodes |-> 0, depth |-> 0]

\* escaped: bytes the whole encoding has and its decoded elements have not.
Measured(shape, type, es, escaped) ==
  LET n == IF type \in {"array", "object"} THEN Len(es) ELSE 0
      e == Envelope(shape)
  IN [shape |-> shape, type |-> type, count |-> n,
      whole |-> Bytes(es, Len(es)) + escaped,
      wholeNodes |-> 1 + Total(es, Len(es), "nodes"),
      wholeDepth |-> 1 + Deepest(es, Len(es)),
      bytes |-> [m \in 0..n |-> Bytes(es, m) + e.bytes],
      nodes |-> [m \in 0..n |-> 1 + Total(es, m, "nodes") + e.nodes],
      depth |-> [m \in 0..n |-> 1 + Deepest(es, m) + e.depth]]

SmallDocuments ==
  {Measured(shape, type, es, escaped) :
     shape \in {"array", "envelope"}, type \in {"null", "scalar", "array", "object"},
     es \in UNION {[1..n -> Elements] : n \in 0..4}, escaped \in {0, 3}}

-----------------------------------------------------------------------------
(* CausalLinks: up to three handles of three spans, of which two variants *)
(* exist, for a bound of two links.                                        *)

SmallOptions == UNION {[1..n -> Handles] : n \in 0..3}

-----------------------------------------------------------------------------
(* Redaction: parts of short strings with JSON of one level, and every     *)
(* JSON of two levels: two leaves, arrays of at most two items, an allowed *)
(* and an unknown key. A container is put together from what is in it.     *)

Private == <<"private">>
Leaf(text) == [path \in {<<>>} |-> Value(text)]

Holding(kind, items) ==
  [path \in {<<>>} \cup UNION {{<<k>> \o p : p \in DOMAIN items[k]} : k \in DOMAIN items} |->
     IF path = <<>> THEN Container(kind) ELSE items[Head(path)][Tail(path)]]

Texts == {Leaf(Private), Leaf(<<"secret">>)}

Containers(inner) ==
  {Holding("array", items) : items \in UNION {[ks -> inner] : ks \in {{}, {"0"}, {"0", "1"}}}}
  \cup {Holding("object", items) : items \in UNION {[ks -> inner] : ks \in SUBSET {"allowed", "unknown"}}}

Shallow == Texts \cup Containers(Texts)
Deep == Texts \cup Containers({Leaf(Private)} \cup Containers({Leaf(Private)}))

PartOf(role, type, content, id, name, arguments, response) ==
  [role |-> role, type |-> type, content |-> content, id |-> id, name |-> name,
   arguments |-> arguments, response |-> response]

SomeParts ==
  {PartOf(role, type, content, Empty, name, arguments, Absent) :
     role \in {Known, Private}, type \in {Empty, Known, Private},
     content \in {Empty, Private}, name \in {Empty, Private},
     arguments \in {Absent, Malformed, Leaf(Private)}}
  \cup {PartOf(Known, Known, Empty, Private, Empty, Absent, response) :
          response \in Shallow \cup {Malformed}}
  \cup {PartOf(Known, Known, Empty, Empty, Empty, arguments, Absent) : arguments \in Deep}

-----------------------------------------------------------------------------
(* TrackerSetup: two constructions, of trackers or contracts, from up to   *)
(* three options, by a caller that rewrites its profile.                   *)

SomeProfiles ==
  {[declares |-> "redact", allowRaw |-> FALSE, values |-> "few"],
   [declares |-> "raw", allowRaw |-> TRUE, values |-> "few"],
   [declares |-> "redact", allowRaw |-> FALSE, values |-> "invalid"]}

-----------------------------------------------------------------------------
(* References: an operation of the schema, a word declared or not, one too *)
(* long; two runs, of which one may be the parent of the other.            *)

SomeMetas ==
  [provider : {NoWord, <<"a">>, Long}, operation : {NoWord, <<"a">>, Chat},
   model : {NoWord, <<"a">>, Chat}, response : {NoWord, <<"a">>}]

Runs == {<<"r1">>, <<"r2">>}
SomeIdentities ==
  [kind : {"logical", "operation", "attempt"},
   ids : [run : Runs, parent : Runs \cup {NoWord}, operation : {<<"r1">>}, attempt : {NoWord, <<"r2">>}]]
  \cup [kind : {"logical", "other"},
        ids : [run : {NoWord, Long, <<"r1">>}, parent : {NoWord}, operation : {<<"r1">>}, attempt : {NoWord}]]
SomeSources == {NoWord, <<"r1">>, <<"a">>, Long}

\* A profile declares operations and models.
SomeSafeValues == {<<"a">>, Chat}
FewDeclared == \A key \in {"provider", "response"} : declared[key] = {}

-----------------------------------------------------------------------------
\* A function that is not called has one of its inputs.
OneDocument == CHOOSE d \in Documents : TRUE
OneLimit == CHOOSE n \in Limits : TRUE
OnePart == CHOOSE p \in Parts : TRUE
NoScope == ScopeInit /\ base = "nil"

NoDocument == doc = OneDocument /\ limit = OneLimit /\ JSONInit
NoLinks == LinksInitWith({<<>>}) /\ origin = NoOrigin
NoPart == policy = "hash" /\ part = OnePart /\ PolicyInit
NoRecording == entry = "operation" /\ flaws = {} /\ payloads = FALSE /\ host = "returns" /\ RecordingInit
NoReferences == ReferencesInit /\ configured = "raw" /\ \A key \in MetaKeys : declared[key] = {}
NoSetup == SetupInit /\ mine = [declares |-> "redact", allowRaw |-> FALSE] /\ heap[Caller] = "few"

NoInput == NoDocument /\ NoLinks /\ NoPart /\ NoRecording
NoRecorder == NoSetup /\ NoScope /\ NoReferences

MCInit ==
  \/ call = "json" /\ JSONInit /\ NoLinks /\ NoPart /\ NoRecording /\ NoRecorder
  \/ call = "links" /\ NoDocument /\ LinksInitWith(SmallOptions) /\ NoPart /\ NoRecording /\ NoRecorder
  \/ call = "policy" /\ NoDocument /\ NoLinks /\ PolicyInit /\ NoRecording /\ NoRecorder
  \/ call = "recording" /\ NoDocument /\ NoLinks /\ NoPart /\ RecordingInit /\ NoRecorder
  \/ call = "setup" /\ NoInput /\ SetupInit /\ NoScope /\ NoReferences
  \/ call = "scope" /\ NoInput /\ NoSetup /\ ScopeInit /\ NoReferences
  \/ call = "references" /\ NoInput /\ NoSetup /\ NoScope /\ ReferencesInit /\ FewDeclared

inputs == <<jsonVars, linkVars, policyVars, recordingVars>>
recorders == <<setupVars, scopeVars, referenceVars>>

MCNext ==
  /\ UNCHANGED call
  /\ \/ call = "json" /\ JSONNext /\ UNCHANGED <<linkVars, policyVars, recordingVars, recorders>>
     \/ call = "links" /\ LinksNext /\ UNCHANGED <<jsonVars, policyVars, recordingVars, recorders>>
     \/ call = "policy" /\ PolicyNext /\ UNCHANGED <<jsonVars, linkVars, recordingVars, recorders>>
     \/ call = "recording" /\ RecordingNext /\ UNCHANGED <<jsonVars, linkVars, policyVars, recorders>>
     \/ call = "setup" /\ SetupNext /\ UNCHANGED <<inputs, scopeVars, referenceVars>>
     \/ call = "scope" /\ ScopeNext /\ UNCHANGED <<inputs, setupVars, referenceVars>>
     \/ call = "references" /\ ReferencesNext /\ UNCHANGED <<inputs, setupVars, scopeVars>>

mcVars == <<call, inputs, recorders>>

MCSpec == MCInit /\ [][MCNext]_mcVars
=============================================================================
