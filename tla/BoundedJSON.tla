---------------------------- MODULE BoundedJSON ----------------------------
(***************************************************************************)
(* genai/bounded_json.go: a JSON value that does not fit the payload limit *)
(* is cut to its longest prefix of complete top-level elements that fits,  *)
(* found by binary search. boundedJSON wraps the prefix in an envelope     *)
(* ("object" shape), boundedJSONArray keeps the array and tells the        *)
(* truncation apart.                                                       *)
(***************************************************************************)
EXTENDS Integers

CONSTANTS Documents,   \* the values given to the two functions
          Limits,      \* payload byte limits of the configurations
          MaxInput,    \* maxPayloadInputBytes
          MaxEntries,  \* maxPayloadEntries: nodes of a value
          MaxDepth,    \* maxPayloadJSONDepth
          Marker       \* length of truncatedJSONMarker

\* A document is what the code measures of a value. Of the whole encoding: its
\* type, bytes, nodes and depth. Of the encoding of its first m elements, in the
\* output shape: bytes, nodes and depth, which grow with m. All the elements
\* together may be shorter than the whole: decoding drops repeated keys and
\* unescapes strings.
Measure(n) == {f \in [0..n -> Nat] : \A i, j \in 0..n : i <= j => f[i] <= f[j]}

Document(d) ==
  /\ d.shape \in {"array", "envelope"}
  /\ d.type \in {"null", "scalar", "array", "object"}
  /\ d.count \in Nat
  /\ {d.whole, d.wholeNodes, d.wholeDepth} \subseteq Nat
  /\ {d.bytes, d.nodes, d.depth} \subseteq Measure(d.count)
  /\ d.shape = "array" => d.nodes[d.count] <= d.wholeNodes /\ d.depth[d.count] <= d.wholeDepth

ASSUME BoundsAssumption == {MaxInput, MaxEntries, MaxDepth, Marker} \subseteq Nat /\ Limits \subseteq Nat
ASSUME DocumentsAssumption == \A d \in Documents : Document(d)

VARIABLES doc, limit,
          phase,         \* "checks", "search", then the answer
          low, high,  \* the search interval
          best        \* elements retained; None: the marker or "[]"

jsonVars == <<doc, limit, phase, low, high, best>>

None == -1
Answers == {"error", "empty", "whole", "cut"}

JSONInit ==
  /\ doc \in Documents /\ limit \in Limits
  /\ phase = "checks" /\ low = 0 /\ high = doc.count
  /\ best = None

-----------------------------------------------------------------------------
\* decodePayloadJSON's bounds on the whole value.
InputBounded == doc.whole <= MaxInput /\ doc.wholeDepth <= MaxDepth /\ doc.wholeNodes <= MaxEntries

\* Errors that leave before an output is chosen.
Acceptable ==
  /\ limit >= Marker
  /\ InputBounded
  /\ doc.shape = "array" => doc.type \in {"array", "null"}

\* "null" and "[]" are not exported; boundedJSON looks for them before it
\* looks at the bounds.
EmptyValue == doc.type = "null" \/ (doc.type = "array" /\ doc.count = 0)

Answer(kind) ==
  /\ phase = "checks" /\ phase' = kind
  /\ UNCHANGED <<doc, limit, low, high, best>>

Reject ==
  /\ ~Acceptable
  /\ ~(doc.shape = "envelope" /\ EmptyValue /\ limit >= Marker)
  /\ Answer("error")

ReturnEmpty ==
  /\ limit >= Marker /\ EmptyValue /\ (Acceptable \/ doc.shape = "envelope")
  /\ Answer("empty")

ReturnWhole ==
  /\ Acceptable /\ ~EmptyValue /\ doc.whole <= limit
  /\ Answer("whole")

Search ==
  /\ Acceptable /\ ~EmptyValue /\ doc.whole > limit
  /\ Answer("search")

-----------------------------------------------------------------------------
\* The first m elements, in the output shape, fit.
Admissible(m) ==
  /\ doc.bytes[m] <= limit
  /\ doc.shape = "envelope" => doc.nodes[m] <= MaxEntries /\ doc.depth[m] <= MaxDepth

Middle == low + (high - low) \div 2

\* Mutant of Keep.
KeepAndShrink ==
  /\ best' = Middle
  /\ low' = Middle + 1 /\ high' = high - 1

Keep ==
  /\ best' = Middle
  /\ low' = Middle + 1 /\ UNCHANGED high

Discard ==
  /\ high' = Middle - 1
  /\ UNCHANGED <<low, best>>

\* One pass of the loop.
Pass ==
  /\ phase = "search" /\ low <= high
  /\ \/ Admissible(Middle) /\ Keep
     \/ ~Admissible(Middle) /\ Discard
  /\ UNCHANGED <<doc, limit, phase>>

Cut ==
  /\ phase = "search" /\ low > high
  /\ phase' = "cut"
  /\ UNCHANGED <<doc, limit, low, high, best>>

JSONNext == Reject \/ ReturnEmpty \/ ReturnWhole \/ Search \/ Pass \/ Cut

JSONSpec == JSONInit /\ [][JSONNext]_jsonVars

-----------------------------------------------------------------------------
\* What the array variant reports: retained < len(items).
Truncated == phase = "cut" /\ best < doc.count

\* Every variable keeps its type, the interval stays inside the document and
\* starts right after what is retained.
JSONTypeOK ==
  /\ Document(doc) /\ limit \in Limits
  /\ phase \in {"checks", "search"} \cup Answers
  /\ low \in 0..doc.count + 1 /\ high \in -1..doc.count
  /\ best \in None..doc.count
  /\ low = best + 1

\* What is exported fits: the byte limit, and for the envelope the depth and the
\* nodes it adds itself. Without a prefix there is room for the marker.
WithinLimits ==
  /\ phase = "whole" => doc.whole <= limit /\ InputBounded
  /\ phase = "cut" => Marker <= limit
  /\ phase = "cut" /\ best # None =>
       /\ doc.bytes[best] <= limit
       /\ doc.nodes[best] <= MaxEntries /\ doc.depth[best] <= MaxDepth

\* No element is lost that could have been kept: every longer prefix is too large.
LongestPrefix ==
  phase = "cut" => \A m \in 0..doc.count : m > best => ~Admissible(m)

\* What is exported is as much of the value as fits.
LongestFittingPrefix == JSONTypeOK /\ WithinLimits /\ LongestPrefix
=============================================================================
