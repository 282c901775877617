----------------------------- MODULE Redaction -----------------------------
(***************************************************************************)
(* genai/payload_policy.go: the built-in policies that make a message part *)
(* fit to be exported. Redaction keeps the structure of objects whose keys *)
(* are all allowed and replaces every text; hashing replaces them by       *)
(* fingerprints. A string is known to the schema, or private, or empty.    *)
(*                                                                         *)
(* A JSON value is a tree, as the function from the paths of the values in *)
(* it to what each of them is: a text or a container. A path is the keys   *)
(* and positions that lead to a value (a position is written as a string   *)
(* as well); its own path is empty.                                        *)
(***************************************************************************)
EXTENDS Naturals, Sequences, SequencesExt

CONSTANTS Allowed,  \* schema keys of RedactPayloadPolicy
          Steps,    \* keys and positions that documents may have
          Parts     \* the parts checked: role, type, content, id, name, arguments, response

VARIABLES policy, part, sanitized, round

ASSUME StepsAssumption == "redacted" \in Steps

policyVars == <<policy, part, sanitized, round>>

\* A text is a tuple, so that a fingerprint is one too.
Empty == <<>>
Known == <<"known">>         \* a role or type of the schema's vocabulary
Redacted == <<"[redacted]">>

Value(text) == [kind |-> "leaf", text |-> text]
Container(kind) == [kind |-> kind]   \* "object" or "array"

Absent == [path \in {} |-> Container("absent")]
Malformed == [path \in {<<>>} |-> Container("malformed")]  \* does not decode, or is out of bounds
RedactedJSON ==
  [path \in {<<>>, <<"redacted">>} |-> IF path = <<>> THEN Container("object") ELSE Value(<<"true">>)]

Tree(v) ==
  /\ v = [path \in DOMAIN v |-> v[path]]
  /\ DOMAIN v \subseteq Seq(Steps) /\ <<>> \in DOMAIN v
  /\ \A path \in DOMAIN v : v[path] \in {Container("array"), Container("object")} \/ v[path] = Value(v[path].text)
  /\ \A path \in DOMAIN v \ {<<>>} : Front(path) \in DOMAIN v /\ v[Front(path)].kind # "leaf"

Trees(p) == {p.arguments, p.response}

IsPart(p) ==
  /\ p = [role |-> p.role, type |-> p.type, content |-> p.content, id |-> p.id, name |-> p.name,
          arguments |-> p.arguments, response |-> p.response]
  /\ \A v \in Trees(p) : v \in {Absent, Malformed} \/ Tree(v)

ASSUME PartsAssumption == \A p \in Parts : IsPart(p)

\* What a text becomes; fingerprints are taken to be collision free.
Fingerprint(v) == <<"sha256", v>>

Protect(v) == IF policy = "redact" THEN Redacted ELSE Fingerprint(v)

Keys == IF policy = "redact" THEN Allowed ELSE {}

-----------------------------------------------------------------------------
\* The keys of an object.
KeysOf(v, path) == {Last(p) : p \in {p \in DOMAIN v \ {<<>>} : Front(p) = path}}

\* Mutant: one allowed key is enough to look into an object.
WithoutAllowedKey(v, path) == v[path].kind = "object" /\ KeysOf(v, path) \cap Keys = {}

\* An object with a key that is not allowed is one text.
Opaque(v, path) == v[path].kind = "object" /\ ~ (KeysOf(v, path) \subseteq Keys)

\* The paths that sanitizeJSONValue comes to.
Walked(v) == {p \in DOMAIN v : \A q \in DOMAIN v : IsStrictPrefix(q, p) => ~ Opaque(v, q)}

\* The value at a path, by its own paths.
Reached(v, path) == {p \in DOMAIN v : IsPrefix(path, p)}
Remaining(p, path) == SubSeq(p, Len(path) + 1, Len(p))
ValueAt(v, path) == [p \in {Remaining(q, path) : q \in Reached(v, path)} |-> v[path \o p]]

\* sanitizeJSONValue: containers stay, but for opaque objects.
SanitizeTree(v) ==
  [p \in Walked(v) |->
     IF v[p].kind = "leaf" \/ Opaque(v, p) THEN Value(Protect(ValueAt(v, p))) ELSE v[p]]

\* sanitizeJSONStringWithKeys: what does not decode is replaced as a whole.
SanitizeJSON(v) ==
  CASE v = Absent -> v
    [] v = Malformed -> RedactedJSON
    [] OTHER -> SanitizeTree(v)

\* redactContentPart, hashContentPart: content, ID and name.
Text(s) == IF s = Empty THEN s ELSE Protect(s)

\* sanitizeMessageEnum, safeContentType: a label of the vocabulary stays.
Label(s) == IF s \in {Empty, Known} THEN s ELSE Protect(s)

\* SanitizePayload, for one part and the message around it.
SanitizePart(p) ==
  [role |-> Label(p.role), type |-> Label(p.type), content |-> Text(p.content), id |-> Text(p.id),
   name |-> Text(p.name), arguments |-> SanitizeJSON(p.arguments),
   response |-> SanitizeJSON(p.response)]

-----------------------------------------------------------------------------
PolicyInit ==
  /\ policy \in {"redact", "hash"} /\ part \in Parts
  /\ sanitized = part /\ round = "given"

\* A host may give a policy what it sanitised before.
Sanitize ==
  /\ \/ round = "given" /\ round' = "once"
     \/ round = "once" /\ round' = "twice"
  /\ sanitized' = SanitizePart(sanitized)
  /\ UNCHANGED <<policy, part>>

PolicyNext == Sanitize

PolicySpec == PolicyInit /\ [][PolicyNext]_policyVars

-----------------------------------------------------------------------------
Leaves(v) == {v[path].text : path \in {p \in DOMAIN v : v[p].kind = "leaf"}}

KeysIn(v) == UNION {KeysOf(v, path) : path \in {p \in DOMAIN v : v[p].kind = "object"}}

Skeleton(v) == [path \in DOMAIN v |-> v[path].kind]

IsProtected(s) == IF policy = "redact" THEN s = Redacted ELSE s # Empty /\ s[1] = "sha256"

\* Nothing of a part leaves as it was given: every text, every leaf of its JSON
\* and every JSON that does not decode is replaced, under either policy.
NothingRawLeaves ==
  round # "given" =>
    /\ \A f \in {"content", "id", "name"} : part[f] # Empty => IsProtected(sanitized[f])
    /\ \A f \in {"role", "type"} : part[f] \notin {Empty, Known} => IsProtected(sanitized[f])
    /\ \A v \in Trees(sanitized) :
         v # Malformed /\ (v = RedactedJSON \/ \A s \in Leaves(v) : IsProtected(s))

\* Keys may be as private as values: only allowed ones leave.
UnknownKeysAreHidden ==
  round # "given" => \A v \in Trees(sanitized) : v = RedactedJSON \/ KeysIn(v) \subseteq Keys

\* What may be kept is kept: JSON whose keys are all allowed keeps its structure,
\* labels of the vocabulary stay, and what is empty stays empty.
ShapeIsKept ==
  /\ \A f \in {"arguments", "response"} :
       part[f] \notin {Absent, Malformed} /\ KeysIn(part[f]) \subseteq Keys =>
         Skeleton(sanitized[f]) = Skeleton(part[f])
  /\ \A f \in {"role", "type"} : part[f] \in {Empty, Known} => sanitized[f] = part[f]
  /\ \A f \in {"content", "id", "name"} : part[f] = Empty => sanitized[f] = Empty

\* Hashing keeps apart what was different, so that fingerprints may be compared.
FingerprintsTellApart ==
  round = "once" /\ policy = "hash" =>
    \A p \in Parts : p # part /\ Malformed \notin Trees(p) \cup Trees(part) => SanitizePart(p) # sanitized

\* Neither values nor keys leave as they were; what leaves is still of use, for its
\* structure or to be compared.
NothingPrivateLeaves ==
  NothingRawLeaves /\ UnknownKeysAreHidden /\ ShapeIsKept /\ FingerprintsTellApart
=============================================================================
