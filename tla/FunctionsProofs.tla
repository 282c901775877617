--------------------------- MODULE FunctionsProofs --------------------------
(***************************************************************************)
(* Proofs about the parts of metry that MCFunctions runs one at a time,    *)
(* for every input: the truncation of JSON, the links of a recording, the  *)
(* order in which a completed recording checks and writes, the names and   *)
(* identities spans show, the contexts recordings are made in, and the     *)
(* construction of trackers. The parts share nothing but this module.      *)
(***************************************************************************)
EXTENDS BoundedJSON, CausalLinks, CompletedRecording, Redaction, References, ScopedSampling,
        TrackerSetup, NaturalsInduction, SequenceTheorems, WellFoundedInduction, TLAPS

-----------------------------------------------------------------------------
(* BoundedJSON. The argument is that of binary search: what can be         *)
(* admitted is a prefix closed set of lengths, everything up to best is in *)
(* it and nothing above high is.                                           *)

\* Everything above the interval is too large, what is retained fits, and the
\* search runs only for a document that passed the checks.
Searched ==
  /\ best # None => Admissible(best)
  /\ \A m \in 0..doc.count : m > high => ~Admissible(m)
  /\ phase \in {"whole", "search", "cut"} => Acceptable
  /\ phase = "whole" => doc.whole <= limit
  /\ phase = "cut" => low > high

JSONInv == JSONTypeOK /\ Searched

\* The documents have the measures their type says.
LEMMA DocumentFacts ==
  ASSUME Document(doc)
  PROVE  /\ doc.count \in Nat
         /\ {doc.whole, doc.wholeNodes, doc.wholeDepth} \subseteq Nat
         /\ doc.bytes \in [0..doc.count -> Nat]
         /\ doc.nodes \in [0..doc.count -> Nat]
         /\ doc.depth \in [0..doc.count -> Nat]
         /\ \A i, j \in 0..doc.count :
              i <= j => /\ doc.bytes[i] <= doc.bytes[j]
                        /\ doc.nodes[i] <= doc.nodes[j]
                        /\ doc.depth[i] <= doc.depth[j]
         /\ doc.shape = "array" => /\ doc.nodes[doc.count] <= doc.wholeNodes
                                   /\ doc.depth[doc.count] <= doc.wholeDepth
  BY DEF Document, Measure

\* A prefix of what fits also fits.
LEMMA Monotone ==
  ASSUME Document(doc), limit \in Nat,
         NEW m \in 0..doc.count, NEW k \in 0..doc.count, m <= k, Admissible(k)
  PROVE  Admissible(m)
  <1>1. /\ doc.bytes[m] \in Nat /\ doc.bytes[k] \in Nat /\ doc.bytes[m] <= doc.bytes[k]
        /\ doc.nodes[m] \in Nat /\ doc.nodes[k] \in Nat /\ doc.nodes[m] <= doc.nodes[k]
        /\ doc.depth[m] \in Nat /\ doc.depth[k] \in Nat /\ doc.depth[m] <= doc.depth[k]
    BY DocumentFacts
  <1>2. {MaxEntries, MaxDepth} \subseteq Nat  BY BoundsAssumption
  <1> QED  BY <1>1, <1>2 DEF Admissible

\* The middle of a non-empty interval lies in it.
LEMMA MiddleInside ==
  ASSUME low \in Nat, high \in Int, low <= high
  PROVE  Middle \in low..high
  BY DEF Middle

LEMMA JSONInitially == JSONInit => JSONInv
  <1> SUFFICES ASSUME JSONInit PROVE JSONInv  OBVIOUS
  <1>1. Document(doc) /\ limit \in Nat  BY DocumentsAssumption, BoundsAssumption DEF JSONInit
  <1>2. doc.count \in Nat  BY <1>1, DocumentFacts
  <1>3. JSONTypeOK  BY <1>1, <1>2 DEF JSONInit, JSONTypeOK, None
  <1>4. Searched  BY <1>2 DEF JSONInit, Searched
  <1> QED  BY <1>3, <1>4 DEF JSONInv

\* A probe of the binary search of boundedJSONArray narrows the interval to one side of the
\* prefix it encoded.
LEMMA JSONStep == JSONInv /\ [JSONNext]_jsonVars => JSONInv'
  <1> SUFFICES ASSUME JSONInv, [JSONNext]_jsonVars PROVE JSONInv'  OBVIOUS
  <1> USE DEF JSONInv, None, Answers
  <1>1. Document(doc) /\ doc.count \in Nat /\ limit \in Nat
    BY DocumentFacts, BoundsAssumption DEF JSONTypeOK
  <1>2. CASE Reject
    <2>1. JSONTypeOK'  BY <1>2 DEF Reject, Answer, JSONTypeOK
    <2>2. Searched'  BY <1>2 DEF Reject, Answer, Searched, Admissible, Acceptable, InputBounded
    <2> QED  BY <2>1, <2>2
  <1>3. CASE ReturnEmpty
    <2>1. JSONTypeOK'  BY <1>3 DEF ReturnEmpty, Answer, JSONTypeOK
    <2>2. Searched'  BY <1>3 DEF ReturnEmpty, Answer, Searched, Admissible, Acceptable, InputBounded
    <2> QED  BY <2>1, <2>2
  <1>4. CASE ReturnWhole
    <2>1. JSONTypeOK'  BY <1>4 DEF ReturnWhole, Answer, JSONTypeOK
    <2>2. Searched'  BY <1>4 DEF ReturnWhole, Answer, Searched, Admissible, Acceptable, InputBounded
    <2> QED  BY <2>1, <2>2
  <1>5. CASE Search
    <2>1. JSONTypeOK'  BY <1>5 DEF Search, Answer, JSONTypeOK
    <2>2. Searched'  BY <1>5 DEF Search, Answer, Searched, Admissible, Acceptable, InputBounded
    <2> QED  BY <2>1, <2>2
  <1>6. CASE Pass
    <2>1. Middle \in low..high /\ Middle \in 0..doc.count
      BY <1>1, <1>6, MiddleInside DEF Pass, JSONTypeOK
    <2>2. /\ UNCHANGED <<doc, limit, phase>> /\ phase = "search"
          /\ Acceptable' = Acceptable /\ \A m : Admissible(m)' = Admissible(m)
      BY <1>6 DEF Pass, Acceptable, InputBounded, Admissible
    <2>3. CASE Admissible(Middle) /\ Keep
      <3>1. JSONTypeOK'  BY <1>1, <1>6, <2>1, <2>2, <2>3 DEF Pass, Keep, JSONTypeOK
      <3>2. best' # None => Admissible(best)'  BY <2>2, <2>3 DEF Keep, Admissible
      <3>3. \A m \in 0..doc.count : m > high => ~Admissible(m)  BY DEF Searched
      <3> QED  BY <2>2, <2>3, <3>1, <3>2, <3>3 DEF Keep, Searched
    <2>4. CASE ~Admissible(Middle) /\ Discard
      <3>1. JSONTypeOK'  BY <1>1, <1>6, <2>1, <2>2, <2>4 DEF Pass, Discard, JSONTypeOK
      <3>2. \A m \in 0..doc.count : m > high' => ~Admissible(m)
        <4> TAKE m \in 0..doc.count
        <4> HAVE m > high'
        <4>1. Middle <= m  BY <1>1, <2>1, <2>4 DEF Discard
        <4> QED  BY <1>1, <2>1, <2>4, <4>1, Monotone
      <3>3. best' # None => Admissible(best)'  BY <2>2, <2>4 DEF Discard, Searched, Admissible
      <3> QED  BY <2>2, <2>4, <3>1, <3>2, <3>3 DEF Discard, Searched
    <2> QED  BY <1>6, <2>3, <2>4 DEF Pass
  <1>7. CASE Cut
    <2>1. JSONTypeOK'  BY <1>7 DEF Cut, JSONTypeOK
    <2>2. Searched'
      BY <1>7 DEF Cut, Searched, Admissible, Acceptable, InputBounded
    <2> QED  BY <2>1, <2>2
  <1>8. CASE UNCHANGED jsonVars
    <2>1. JSONTypeOK'  BY <1>8 DEF jsonVars, JSONTypeOK
    <2>2. Searched'  BY <1>8 DEF jsonVars, Searched, Admissible, Acceptable, InputBounded
    <2> QED  BY <2>1, <2>2
  <1> QED  BY <1>2, <1>3, <1>4, <1>5, <1>6, <1>7, <1>8 DEF JSONNext

LEMMA JSONInvAlways == JSONSpec => []JSONInv
  BY JSONInitially, JSONStep, PTL DEF JSONSpec

\* boundedJSON: the search interval stays inside the document and begins right
\* after the elements retained, whatever the document.
THEOREM SearchTypeCorrect == JSONSpec => []JSONTypeOK
  <1>1. JSONInv => JSONTypeOK  BY DEF JSONInv
  <1> QED  BY <1>1, JSONInvAlways, PTL

\* boundedJSON and boundedJSONArray: what is exported respects the byte limit of
\* the configuration, and the bounds on depth and nodes with the envelope counted.
THEOREM ExportIsWithinLimits == JSONSpec => []WithinLimits
  <1>1. JSONInv => WithinLimits
    <2> SUFFICES ASSUME JSONInv PROVE WithinLimits  OBVIOUS
    <2>1. Document(doc) /\ limit \in Nat  BY BoundsAssumption DEF JSONInv, JSONTypeOK
    <2>2. phase = "whole" => doc.whole <= limit /\ InputBounded
      BY DEF JSONInv, Searched, Acceptable
    <2>3. phase = "cut" => Marker <= limit
      BY <2>1, BoundsAssumption DEF JSONInv, Searched, Acceptable
    <2>4. ASSUME phase = "cut", best # None
          PROVE  /\ doc.bytes[best] <= limit
                 /\ doc.nodes[best] <= MaxEntries /\ doc.depth[best] <= MaxDepth
      <3>1. Acceptable /\ Admissible(best) /\ best \in 0..doc.count
        BY <2>1, <2>4, DocumentFacts DEF JSONInv, JSONTypeOK, Searched, None
      <3>2. CASE doc.shape = "envelope"  BY <3>1, <3>2 DEF Admissible
      <3>3. CASE doc.shape = "array"
        <4>1. /\ doc.nodes[best] <= doc.nodes[doc.count]
              /\ doc.depth[best] <= doc.depth[doc.count]
              /\ doc.nodes[doc.count] <= doc.wholeNodes
              /\ doc.depth[doc.count] <= doc.wholeDepth
          BY <2>1, <3>1, <3>3, DocumentFacts
        <4>2. doc.wholeNodes <= MaxEntries /\ doc.wholeDepth <= MaxDepth
          BY <3>1 DEF Acceptable, InputBounded
        <4>3. /\ {doc.wholeNodes, doc.wholeDepth} \subseteq Nat
              /\ {doc.nodes[best], doc.depth[best]} \subseteq Nat
              /\ {doc.nodes[doc.count], doc.depth[doc.count]} \subseteq Nat
          <5>1. /\ doc.nodes \in [0..doc.count -> Nat] /\ doc.depth \in [0..doc.count -> Nat]
                /\ {doc.wholeNodes, doc.wholeDepth} \subseteq Nat /\ doc.count \in 0..doc.count
            <6>1. doc.count \in Nat  BY <2>1, DocumentFacts
            <6> QED  BY <2>1, <6>1, DocumentFacts
          <5> QED  BY <3>1, <5>1
        <4> QED  BY <3>1, <4>1, <4>2, <4>3, BoundsAssumption DEF Admissible
      <3> QED  BY <2>1, <3>2, <3>3 DEF Document
    <2> QED  BY <2>2, <2>3, <2>4 DEF WithinLimits
  <1> QED  BY <1>1, JSONInvAlways, PTL

\* boundedJSON and boundedJSONArray: truncation never drops an element that would
\* have fitted.
THEOREM TruncationIsMinimal == JSONSpec => []LongestPrefix
  <1>1. JSONInv => LongestPrefix
    <2> SUFFICES ASSUME JSONInv, phase = "cut", NEW m \in 0..doc.count, m > best
                 PROVE  ~Admissible(m)
      BY DEF LongestPrefix
    <2>1. doc.count \in Nat  BY DocumentFacts DEF JSONInv, JSONTypeOK
    <2>2. m > high  BY <2>1 DEF JSONInv, JSONTypeOK, Searched, None
    <2> QED  BY <2>2 DEF JSONInv, Searched
  <1> QED  BY <1>1, JSONInvAlways, PTL

\* boundedJSON and boundedJSONArray: for every document and limit the export is the
\* value, or its longest prefix that is admissible with the envelope.
THEOREM ExportIsLongestFitting == JSONSpec => []LongestFittingPrefix
  <1>1. JSONTypeOK /\ WithinLimits /\ LongestPrefix => LongestFittingPrefix
    BY DEF LongestFittingPrefix
  <1> QED  BY <1>1, SearchTypeCorrect, ExportIsWithinLimits, TruncationIsMinimal, PTL

-----------------------------------------------------------------------------
(* CausalLinks: every span is linked once, none is dropped, and the bound  *)
(* is kept. The invariant says what the scan has linked so far: the        *)
(* identities of the handles looked at, and the origin.                    *)

Width == IF origin = NoOrigin THEN 0 ELSE 1

\* The links so far are those of the handles looked at.
Progress ==
  /\ step = "validate" => links = <<>> /\ next = 1
  /\ step \in {"scan", "linked"} =>
       /\ Linked = Looked \cup Own
       /\ Len(wanted) <= MaxLinks /\ Len(links) <= next - 1 + Width
       /\ \A k \in 1..Len(wanted) : k < next => wanted[k] # Invalid
  /\ step = "linked" => next = Len(wanted) + 1

LinksInv == LinksTypeOK /\ EachOnce /\ Progress /\ BoundedOrRefused

\* The numbers the steps compare.
LEMMA LinkLengths ==
  LinksTypeOK => /\ Len(wanted) \in Nat /\ Len(links) \in Nat /\ MaxLinks \in Nat
            /\ next \in Nat \ {0} /\ next <= Len(wanted) + 1 /\ Width \in Nat
<1>1. LinksTypeOK => wanted \in Seq(Handles) /\ links \in Seq(Contexts) /\ next \in 1..Len(wanted) + 1
  BY DEF LinksTypeOK
<1>2. Width \in Nat /\ MaxLinks \in Nat
  BY LinksAssumption DEF Width
<1> QED
  BY <1>1, <1>2

\* One more link is one more identity.
LEMMA AppendAddsIdentity ==
  ASSUME NEW s \in Seq(Contexts), NEW c \in Contexts
  PROVE  /\ Append(s, c) \in Seq(Contexts) /\ Len(Append(s, c)) = Len(s) + 1
         /\ \A k \in 1..Len(s) : Append(s, c)[k] = s[k]
         /\ Append(s, c)[Len(s) + 1] = c
         /\ {Append(s, c)[k].id : k \in 1..Len(s) + 1} = {s[k].id : k \in 1..Len(s)} \cup {c.id}
<1>1. /\ Append(s, c) \in Seq(Contexts) /\ Len(Append(s, c)) = Len(s) + 1
      /\ \A k \in 1..Len(s) : Append(s, c)[k] = s[k]
      /\ Append(s, c)[Len(s) + 1] = c
  OBVIOUS
<1>2. 1..Len(s) + 1 = 1..Len(s) \cup {Len(s) + 1}
  OBVIOUS
<1> QED
  BY <1>1, <1>2

\* Looking at a handle adds its identity, if it is a span context.
LEMMA LookedGrows ==
  ASSUME LinksTypeOK, next <= Len(wanted), next' = next + 1, wanted' = wanted
  PROVE  /\ wanted[next] \in Contexts => Looked' = Looked \cup {wanted[next].id}
         /\ wanted[next] \notin Contexts => Looked' = Looked
<1>0. wanted \in Seq(Handles) /\ next \in 1..Len(wanted) + 1
  BY DEF LinksTypeOK
<1>1. next \in Nat \ {0} /\ Len(wanted) \in Nat
  BY <1>0
<1> DEFINE At(n) == {m \in 1..n - 1 : m <= Len(wanted) /\ wanted[m] \in Contexts}
<1>2. 1..(next + 1) - 1 = 1..next - 1 \cup {next}
  BY <1>1
<1>3. wanted[next] \in Contexts => At(next + 1) = At(next) \cup {next}
  BY <1>2
<1>4. wanted[next] \notin Contexts => At(next + 1) = At(next)
  BY <1>2
<1>5. Looked = {wanted[k].id : k \in At(next)} /\ Looked' = {wanted[k].id : k \in At(next + 1)}
  BY DEF Looked
<1> HIDE DEF At
<1> QED
  BY <1>3, <1>4, <1>5

\* A call of recordingLinks begins with nothing looked at and nothing linked.
THEOREM LinksInitially == LinksInit => LinksInv
<1> SUFFICES ASSUME LinksInit PROVE LinksInv
  OBVIOUS
<1>1. LinksTypeOK
  BY DEF LinksInit, LinksInitWith, LinksTypeOK
<1>2. EachOnce /\ Progress /\ BoundedOrRefused
  BY DEF LinksInit, LinksInitWith, EachOnce, Progress, BoundedOrRefused
<1> QED
  BY <1>1, <1>2 DEF LinksInv

LEMMA SeedKeeps == LinksInv /\ Seed => LinksInv'
<1> SUFFICES ASSUME LinksInv, Seed PROVE LinksInv'
  OBVIOUS
<1> USE DEF LinksInv, Seed, Go
<1>1. links' \in Seq(Contexts) /\ next = 1 /\ Len(links') = Width /\ Len(links') \in Nat
  BY DEF LinksTypeOK, Progress, Width
<1>2. LinksTypeOK'
  BY <1>1 DEF LinksTypeOK
<1>3. EachOnce'
  BY <1>1 DEF EachOnce, Width
<1>4. Looked' = {} /\ Linked' = Own'
  BY <1>1 DEF Looked, Linked, Own, Width
<1>5. Progress' /\ BoundedOrRefused'
  BY <1>1, <1>4 DEF Progress, BoundedOrRefused, Width, LinksTypeOK
<1> QED
  BY <1>2, <1>3, <1>5

\* What Skip and SkipRepeated leave as it is.
LEMMA SkippingKeeps ==
  ASSUME LinksInv, Scanning, Advance, UNCHANGED <<wanted, origin, links, step>>,
         wanted[next] # Invalid, Looked' \cup Own = Looked \cup Own \/ Looked' \cup Own = Linked
  PROVE  LinksInv'
<1> USE DEF LinksInv, Scanning, Advance
<1>1. LinksTypeOK' /\ EachOnce' /\ BoundedOrRefused'
  BY DEF LinksTypeOK, EachOnce, BoundedOrRefused
<1>2. Linked' = Linked /\ Own' = Own
  BY DEF Linked, Own
<1>3. Progress'
  BY <1>2 DEF Progress, Width, LinksTypeOK
<1> QED
  BY <1>1, <1>3

LEMMA SkipKeeps == LinksInv /\ Skip => LinksInv'
<1> SUFFICES ASSUME LinksInv, Skip PROVE LinksInv'
  OBVIOUS
<1>1. wanted[next] \notin Contexts
  BY LinksAssumption DEF Skip, Contexts
<1>2. wanted[next] # Invalid
  BY LinksAssumption DEF Skip
<1>3. Looked' = Looked
  BY <1>1, LookedGrows DEF LinksInv, Skip, Scanning, Advance
<1> QED
  BY <1>2, <1>3, SkippingKeeps DEF Skip

LEMMA SkipRepeatedKeeps == LinksInv /\ SkipRepeated => LinksInv'
<1> SUFFICES ASSUME LinksInv, SkipRepeated PROVE LinksInv'
  OBVIOUS
<1>1. wanted[next] \in Contexts /\ wanted[next] # Invalid
  BY LinksAssumption DEF SkipRepeated, Contexts
<1>2. Looked' = Looked \cup {wanted[next].id}
  BY <1>1, LookedGrows DEF LinksInv, SkipRepeated, Scanning, Advance
<1>3. wanted[next].id \in Linked
  BY DEF SkipRepeated, Repeated, Linked
<1>4. Linked = Looked \cup Own
  BY DEF LinksInv, Progress, SkipRepeated, Scanning
<1>5. Looked' \cup Own = Linked
  BY <1>2, <1>3, <1>4
<1> QED
  BY <1>1, <1>5, SkippingKeeps DEF SkipRepeated

LEMMA AppendKeeps == LinksInv /\ AppendLink => LinksInv'
<1> SUFFICES ASSUME LinksInv, AppendLink PROVE LinksInv'
  OBVIOUS
<1> DEFINE c == wanted[next]
<1>1. c \in Contexts /\ c # Invalid /\ links \in Seq(Contexts)
  BY LinksAssumption DEF AppendLink, Contexts, LinksInv, LinksTypeOK
<1>2. /\ links' \in Seq(Contexts) /\ Len(links') = Len(links) + 1
      /\ \A k \in 1..Len(links) : links'[k] = links[k]
      /\ links'[Len(links) + 1] = c
      /\ {links'[k].id : k \in 1..Len(links) + 1} = Linked \cup {c.id}
  BY <1>1, AppendAddsIdentity DEF AppendLink, Linked
<1>3. Linked' = Linked \cup {c.id}
  BY <1>2 DEF Linked
<1>4. Looked' = Looked \cup {c.id} /\ Own' = Own
  BY <1>1, LookedGrows DEF LinksInv, AppendLink, Scanning, Advance, Own
<1>5. LinksTypeOK'
  BY <1>2 DEF LinksTypeOK, LinksInv, AppendLink, Scanning, Advance
<1>6. EachOnce'
  <2>1. \A k \in 1..Len(links) : links[k].id # c.id
    BY DEF AppendLink, Repeated
  <2> QED
    BY <1>1, <1>2, <2>1 DEF EachOnce, LinksInv
<1>7. Progress' /\ BoundedOrRefused'
  <2>1. Len(links) \in Nat /\ Len(wanted) \in Nat /\ next \in Nat /\ Width \in Nat /\ Width' = Width
    BY LinkLengths DEF LinksInv, Width, AppendLink
  <2>2. step = "scan" /\ step' = "scan" /\ wanted' = wanted /\ next' = next + 1
    BY DEF AppendLink, Scanning, Advance
  <2>3. Linked' = Looked' \cup Own'
    BY <1>3, <1>4, <2>2 DEF LinksInv, Progress
  <2>4. Len(links') <= next' - 1 + Width'
    BY <1>2, <2>1, <2>2 DEF LinksInv, Progress
  <2>5. \A k \in 1..Len(wanted) : k < next' => wanted[k] # Invalid
    BY <1>1, <2>1, <2>2 DEF LinksInv, Progress
  <2>6. Len(wanted) <= MaxLinks
    BY <2>2 DEF LinksInv, Progress
  <2> QED
    BY <2>2, <2>3, <2>4, <2>5, <2>6 DEF Progress, BoundedOrRefused
<1> QED
  BY <1>5, <1>6, <1>7 DEF LinksInv

LEMMA EndingsKeep == LinksInv /\ (TooManyOptions \/ Refuse \/ Return) => LinksInv'
<1>1. LinksInv /\ TooManyOptions => LinksInv'
  <2> SUFFICES ASSUME LinksInv, TooManyOptions PROVE LinksInv'
    OBVIOUS
  <2>1. links = <<>> /\ Len(wanted) \in Nat /\ MaxLinks \in Nat
    BY LinkLengths DEF LinksInv, TooManyOptions, Go, Progress
  <2>2. /\ step' = "too_large" /\ UNCHANGED <<wanted, origin, next, links>>
        /\ Len(wanted) > MaxLinks
    BY DEF TooManyOptions, Go
  <2>3. LinksTypeOK' /\ EachOnce' /\ Progress'
    BY <2>2 DEF LinksInv, LinksTypeOK, EachOnce, Progress
  <2>4. BoundedOrRefused'
    <3>1. Width = 0 \/ Width = 1
      BY DEF Width
    <3>2. Len(wanted) \in Nat /\ MaxLinks \in Nat /\ Len(wanted) > MaxLinks
      BY <2>1, <2>2
    <3>3. Len(wanted) + Width > MaxLinks
      BY <3>1, <3>2
    <3> QED
      BY <2>1, <2>2, <3>3 DEF BoundedOrRefused, Width
  <2> QED
    BY <2>3, <2>4 DEF LinksInv
<1>2. LinksInv /\ Refuse => LinksInv'
  BY DEF LinksInv, Refuse, Scanning, LinksTypeOK, EachOnce, Progress, BoundedOrRefused
<1>3. LinksInv /\ Return => LinksInv'
  <2> SUFFICES ASSUME LinksInv, Return PROVE LinksInv'
    OBVIOUS
  <2>1. /\ Len(wanted) \in Nat /\ MaxLinks \in Nat /\ Len(links) \in Nat
        /\ next = Len(wanted) + 1 /\ Len(links) <= Len(wanted) + Width
    <3>1. step = "scan" /\ next > Len(wanted) /\ LinksTypeOK /\ Progress
      BY DEF LinksInv, Return
    <3>2. Len(links) <= next - 1 + Width
      BY <3>1 DEF Progress
    <3>3. /\ Len(wanted) \in Nat /\ Len(links) \in Nat /\ MaxLinks \in Nat
          /\ next \in Nat \ {0} /\ next <= Len(wanted) + 1 /\ Width \in Nat
      BY <3>1, LinkLengths
    <3> HIDE DEF Width
    <3> QED
      BY <3>1, <3>2, <3>3
  <2>2. CASE Len(links) > MaxLinks
    <3>1. Len(wanted) + Width > MaxLinks
      BY <2>1, <2>2 DEF Width
    <3>2. step' = "too_large" /\ links' = <<>> /\ UNCHANGED <<wanted, origin, next>>
      BY <2>2 DEF Return
    <3> QED
      <4>1. links' \in Seq(Contexts) /\ Len(links') = 0
        <5>1. links' = <<>>
          BY <3>2
        <5> QED
          BY <5>1
      <4>3. LinksTypeOK'
        BY <3>2, <4>1 DEF LinksInv, LinksTypeOK
      <4>4. EachOnce'
        BY <4>1 DEF EachOnce
      <4>5. Progress'
        BY <3>2 DEF Progress
      <4>2. BoundedOrRefused'
        BY <3>1, <3>2 DEF BoundedOrRefused, Width
      <4> QED
        BY <4>2, <4>3, <4>4, <4>5 DEF LinksInv
  <2>3. CASE ~(Len(links) > MaxLinks)
    <3>1. step = "scan" /\ step' = "linked" /\ UNCHANGED <<wanted, origin, next, links>>
      BY <2>3 DEF Return
    <3>2. Linked' = Linked /\ Looked' = Looked /\ Own' = Own
      BY <3>1 DEF Linked, Looked, Own
    <3> QED
      BY <2>1, <2>3, <3>1, <3>2 DEF LinksInv, LinksTypeOK, EachOnce, Progress, BoundedOrRefused, Width
  <2> QED
    BY <2>2, <2>3
<1> QED
  BY <1>1, <1>2, <1>3

\* Every step, a stuttering one included, keeps the invariant.
THEOREM LinksStep == LinksInv /\ [LinksNext]_linkVars => LinksInv'
<1>1. LinksInv /\ LinksNext => LinksInv'
  BY SeedKeeps, SkipKeeps, SkipRepeatedKeeps, AppendKeeps, EndingsKeep DEF LinksNext
<1>2. LinksInv /\ UNCHANGED linkVars => LinksInv'
  <2> SUFFICES ASSUME LinksInv, UNCHANGED linkVars PROVE LinksInv'
    OBVIOUS
  <2> USE DEF linkVars
  <2>1. LinksTypeOK' /\ EachOnce' /\ BoundedOrRefused'
    BY DEF LinksInv, LinksTypeOK, EachOnce, BoundedOrRefused
  <2>2. Linked' = Linked /\ Looked' = Looked /\ Own' = Own /\ Width' = Width
    BY DEF Linked, Looked, Own, Width
  <2>3. Progress'
    BY <2>2 DEF LinksInv, Progress
  <2> QED
    BY <2>1, <2>3 DEF LinksInv
<1> QED
  BY <1>1, <1>2

\* At every point of the scan of recordingLinks, what it has linked is what it has looked at.
THEOREM LinksInvAlways == LinksSpec => []LinksInv
  BY LinksInitially, LinksStep, PTL DEF LinksSpec

\* The variables keep their types.
THEOREM LinksTypeCorrect == LinksSpec => []LinksTypeOK
<1>1. LinksInv => LinksTypeOK
  BY DEF LinksInv
<1> QED
  BY <1>1, LinksInvAlways, PTL

\* No span is linked twice (recordingLinks' search for a duplicate).
THEOREM NoLinkTwice == LinksSpec => []EachOnce
<1>1. LinksInv => EachOnce
  BY DEF LinksInv
<1> QED
  BY <1>1, LinksInvAlways, PTL

\* Every span a handle names is linked, and the detached origin.
THEOREM NoLinkDropped == LinksSpec => []NothingDropped
<1>1. LinksInv => NothingDropped
  BY DEF LinksInv, Progress, NothingDropped
<1> QED
  BY <1>1, LinksInvAlways, PTL

\* maxCausalLinks is kept, and what is refused deserved it.
THEOREM LinksAreBounded == LinksSpec => []BoundedOrRefused
<1>1. LinksInv => BoundedOrRefused
  BY DEF LinksInv
<1> QED
  BY <1>1, LinksInvAlways, PTL

\* recordingLinks: for every list of handles and every bound, each span is linked
\* once, or the call is refused with a reason.
THEOREM LinksAreAsGiven == LinksSpec => []LinksAreExact
<1>1. LinksTypeOK /\ EachOnce /\ NothingDropped /\ BoundedOrRefused => LinksAreExact
  BY DEF LinksAreExact
<1> QED
  BY <1>1, LinksTypeCorrect, NoLinkTwice, NoLinkDropped, LinksAreBounded, PTL

-----------------------------------------------------------------------------
(* CompletedRecording: whatever recorder, whatever is wrong with the       *)
(* observation, nothing is written before all of it was checked. The       *)
(* invariant says what the checks behind a recorder found.                 *)

Asking == TrackerChecks[at["tracker"]] = "ask"

\* The checks a recorder has behind it found nothing.
Cleared(r) == \A k \in 1..Len(Checks(r)) : k < at[r] => Checks(r)[k] \notin flaws

Judged(r) ==
  /\ verdict[r] = "ok" => Offered(r) /\ at[r] > Len(Checks(r))
  /\ verdict[r] \in Flaws => verdict[r] \in flaws /\ at[r] <= Len(Checks(r)) /\ Checks(r)[at[r]] = verdict[r]
  /\ verdict[r] = "panic" => r = "tracker" /\ at[r] <= Len(Checks(r)) /\ Asking
  /\ at[r] > 1 \/ verdict[r] # "pending" => Offered(r)

\* The policy has been asked when the recorder is past it, or at it and it panicked.
Asked ==
  asked > 0 => /\ payloads /\ at["tracker"] >= Len(TrackerChecks) - 1
               /\ at["tracker"] = Len(TrackerChecks) - 1 => verdict["tracker"] = "panic"

\* Nothing is written before all the checks are made.
NothingWrittenEarly ==
  span # "none" \/ recorded # {} => at["tracker"] > Len(TrackerChecks) /\ verdict["tracker"] \in {"pending", "ok"}

RecordingInv ==
  /\ RecordingTypeOK /\ payloads \in BOOLEAN /\ host \in {"returns", "panics"}
  /\ \A r \in Recorders : Cleared(r) /\ Judged(r)
  /\ Asked /\ NothingWrittenEarly

\* Checks of the observation, and then those of the payload.
FollowedByPayload(checks) ==
  /\ checks \in Seq(Flaws) /\ Len(checks) \in 8..9
  /\ {checks[k] : k \in 1..Len(checks)} = Possible(entry) \ {"payload", "output"}

LEMMA TrackerChecksBegin ==
  ASSUME entry \in Entries
  PROVE  \E checks : TrackerChecks = checks \o PayloadChecks /\ FollowedByPayload(checks)
<1> DEFINE ofOperation == <<"model", "response", "status", "usage", "duration", "stream", "currency", "name",
                            "scope_model">>
           ofInteraction == <<"status", "usage", "currency", "duration", "model", "scope_model", "response",
                              "name">>
           ofStreaming == <<"duration", "stream", "status", "usage", "currency", "model", "scope_model",
                            "response", "name">>
<1>1. CASE entry = "operation"
  <2>1. TrackerChecks = ofOperation \o PayloadChecks
    BY <1>1 DEF TrackerChecks
  <2>2. FollowedByPayload(ofOperation)
    BY <1>1 DEF FollowedByPayload, Possible, Flaws
  <2> QED
    BY <2>1, <2>2
<1>2. CASE entry = "interaction"
  <2>1. TrackerChecks = ofInteraction \o PayloadChecks
    BY <1>2 DEF TrackerChecks
  <2>2. FollowedByPayload(ofInteraction)
    BY <1>2 DEF FollowedByPayload, Possible, Flaws
  <2> QED
    BY <2>1, <2>2
<1>3. CASE entry = "streaming"
  <2>1. TrackerChecks = ofStreaming \o PayloadChecks
    BY <1>3 DEF TrackerChecks
  <2>2. FollowedByPayload(ofStreaming)
    BY <1>3 DEF FollowedByPayload, Possible, Flaws
  <2> QED
    BY <2>1, <2>2
<1> QED
  BY <1>1, <1>2, <1>3 DEF Entries

\* The policy is asked next to last, and only its output comes after it.
LEMMA TrackerChecksAre ==
  ASSUME entry \in Entries, payloads \in BOOLEAN
  PROVE  /\ Len(TrackerChecks) \in Nat /\ Len(TrackerChecks) >= 8
         /\ \A k \in 1..Len(TrackerChecks) :
              /\ TrackerChecks[k] \in Flaws \cup {"ask"}
              /\ TrackerChecks[k] = "ask" <=> payloads /\ k = Len(TrackerChecks) - 1
         /\ \A f \in Possible(entry) \ {"payload", "output"} :
              \E k \in 1..Len(TrackerChecks) : TrackerChecks[k] = f /\ (payloads => k < Len(TrackerChecks) - 1)
         /\ payloads => TrackerChecks[Len(TrackerChecks)] = "output" /\ TrackerChecks[Len(TrackerChecks) - 2] = "payload"
<1> PICK checks : TrackerChecks = checks \o PayloadChecks /\ FollowedByPayload(checks)
  BY TrackerChecksBegin
<1> PICK n : n = Len(checks)
  OBVIOUS
<1>1. /\ checks \in Seq(Flaws) /\ n \in 8..9 /\ \A k \in 1..n : checks[k] \in Flaws
      /\ \A f \in Possible(entry) \ {"payload", "output"} : \E k \in 1..n : checks[k] = f
  BY DEF FollowedByPayload
<1>2. "ask" \notin Flaws /\ {"payload", "output"} \subseteq Flaws
  BY DEF Flaws
<1>3. CASE payloads
  <2> DEFINE ofPayload == <<"payload", "ask", "output">>
  <2>1. PayloadChecks = ofPayload /\ ofPayload \in Seq(Flaws \cup {"ask"}) /\ Len(ofPayload) = 3
        /\ ofPayload[1] = "payload" /\ ofPayload[2] = "ask" /\ ofPayload[3] = "output"
    BY <1>2, <1>3 DEF PayloadChecks
  <2> HIDE DEF ofPayload
  <2>2. checks \in Seq(Flaws \cup {"ask"})
    BY <1>1
  <2>3. /\ Len(TrackerChecks) = n + 3
        /\ \A k \in 1..n + 3 : TrackerChecks[k] = IF k <= n THEN checks[k] ELSE ofPayload[k - n]
    <3>1. TrackerChecks = checks \o ofPayload
      BY <2>1
    <3>2. /\ Len(checks \o ofPayload) = Len(checks) + Len(ofPayload)
          /\ \A k \in 1..Len(checks) + Len(ofPayload) :
               (checks \o ofPayload)[k] = IF k <= Len(checks) THEN checks[k] ELSE ofPayload[k - Len(checks)]
      BY <2>1, <2>2, ConcatProperties
    <3> QED
      BY <2>1, <3>1, <3>2
  <2>4. TrackerChecks[n + 1] = "payload" /\ TrackerChecks[n + 2] = "ask" /\ TrackerChecks[n + 3] = "output"
    BY <1>1, <2>1, <2>3
  <2>5. \A k \in 1..n : TrackerChecks[k] = checks[k]
    BY <1>1, <2>3
  <2>6. \A k \in 1..n + 3 : k \in 1..n \/ k = n + 1 \/ k = n + 2 \/ k = n + 3
    BY <1>1
  <2>7. ASSUME NEW k \in 1..n + 3
        PROVE  TrackerChecks[k] \in Flaws \cup {"ask"} /\ (TrackerChecks[k] = "ask" <=> k = n + 2)
    <3>1. CASE k \in 1..n
      BY <1>1, <1>2, <2>5, <3>1
    <3>2. CASE k = n + 1
      BY <1>1, <1>2, <2>4, <3>2
    <3>3. CASE k = n + 2
      BY <2>4, <3>3
    <3>4. CASE k = n + 3
      BY <1>1, <1>2, <2>4, <3>4
    <3> QED
      BY <2>6, <3>1, <3>2, <3>3, <3>4
  <2>8. Len(TrackerChecks) = n + 3 /\ n + 3 \in Nat /\ n + 3 >= 8 /\ (n + 3) - 1 = n + 2 /\ (n + 3) - 2 = n + 1
    <3>1. Len(TrackerChecks) = n + 3
      BY <2>3
    <3>2. n = 8 \/ n = 9
      BY <1>1
    <3>3. CASE n = 8
      BY <3>1, <3>3
    <3>4. CASE n = 9
      BY <3>1, <3>4
    <3> QED
      BY <3>2, <3>3, <3>4
  <2>9. ASSUME NEW f \in Possible(entry) \ {"payload", "output"}
        PROVE  \E k \in 1..n + 3 : TrackerChecks[k] = f /\ k < n + 2
    <3>1. PICK k \in 1..n : checks[k] = f
      BY <1>1
    <3>2. TrackerChecks[k] = f
      BY <2>5, <3>1
    <3>3. k \in 1..n + 3 /\ k < n + 2
      BY <1>1
    <3> QED
      BY <3>2, <3>3
  <2> QED
    BY <1>3, <2>4, <2>7, <2>8, <2>9
<1>4. CASE ~payloads
  <2>1. TrackerChecks = checks
    BY <1>1, <1>4 DEF PayloadChecks
  <2>2. Len(TrackerChecks) \in Nat /\ Len(TrackerChecks) >= 8
    BY <1>1, <2>1
  <2> QED
    BY <1>1, <1>2, <1>4, <2>1, <2>2
<1> QED
  BY <1>3, <1>4

\* The checks of the noop recorder: none about what a tracker is configured with.
LEMMA NoopChecksAre ==
  ASSUME entry \in Entries
  PROVE  /\ Len(NoopChecks) = 8
         /\ \A k \in 1..8 : NoopChecks[k] \in Flaws \ {"currency", "payload", "output"}
         /\ \A f \in Flaws \ {"currency", "payload", "output"} : \E k \in 1..8 : NoopChecks[k] = f
<1>1. CASE entry = "operation"
  <2>1. NoopChecks = <<"model", "name", "scope_model", "response", "status", "usage", "duration", "stream">>
    BY <1>1 DEF NoopChecks
  <2> QED
    BY <2>1 DEF Flaws
<1>2. CASE entry # "operation"
  <2>1. NoopChecks = <<"status", "name", "model", "scope_model", "response", "usage", "duration", "stream">>
    BY <1>2 DEF NoopChecks
  <2> QED
    BY <2>1 DEF Flaws
<1> QED
  BY <1>1, <1>2

-----------------------------------------------------------------------------
LEMMA ChecksAre ==
  ASSUME RecordingInv
  PROVE  /\ Len(Checks("tracker")) \in Nat /\ Len(Checks("tracker")) >= 8 /\ Len(Checks("noop")) = 8
         /\ \A r \in Recorders : \A k \in 1..Len(Checks(r)) : Checks(r)[k] \in Flaws \cup {"ask"}
         /\ \A r \in Recorders : \A k \in 1..Len(Checks(r)) :
              Checks(r)[k] = "ask" <=> r = "tracker" /\ payloads /\ k = Len(Checks(r)) - 1
         /\ "ask" \notin Flaws
<1>1. Checks("tracker") = TrackerChecks /\ Checks("noop") = NoopChecks
  BY DEF Checks
<1>2. entry \in Entries /\ payloads \in BOOLEAN
  BY DEF RecordingInv, RecordingTypeOK
<1>3. "ask" \notin Flaws
  BY DEF Flaws
<1>4. /\ \A k \in 1..Len(Checks("tracker")) :
           /\ Checks("tracker")[k] \in Flaws \cup {"ask"}
           /\ Checks("tracker")[k] = "ask" <=> payloads /\ k = Len(Checks("tracker")) - 1
      /\ Len(Checks("tracker")) \in Nat /\ Len(Checks("tracker")) >= 8
  BY <1>1, <1>2, TrackerChecksAre
<1>5. /\ \A k \in 1..Len(Checks("noop")) : Checks("noop")[k] \in Flaws /\ Checks("noop")[k] # "ask"
      /\ Len(Checks("noop")) = 8
  BY <1>1, <1>2, <1>3, NoopChecksAre
<1>6. \A r \in Recorders : r = "tracker" \/ (r = "noop" /\ r # "tracker")
  BY DEF Recorders
<1> QED
  BY <1>3, <1>4, <1>5, <1>6

\* What each recorder has asked, judged and cleared at its end is what ValidatedFirst says of it.
LEMMA RecordingInvImplies == RecordingInv => ValidatedFirst
<1> SUFFICES ASSUME RecordingInv PROVE ValidatedFirst
  OBVIOUS
<1>1. /\ Checks("tracker") = TrackerChecks /\ Checks("noop") = NoopChecks
      /\ entry \in Entries /\ payloads \in BOOLEAN /\ flaws \subseteq Possible(entry) /\ Possible(entry) \subseteq Flaws
  BY DEF Checks, RecordingInv, RecordingTypeOK, Possible
<1>0. /\ Len(TrackerChecks) \in Nat /\ Len(TrackerChecks) >= 8
      /\ at["tracker"] \in Nat \ {0} /\ at["noop"] \in Nat \ {0}
  <2>1. Len(TrackerChecks) \in Nat /\ Len(TrackerChecks) >= 8
    BY <1>1, TrackerChecksAre
  <2>2. at \in [Recorders -> 1..Len(TrackerChecks) + 1] /\ "tracker" \in Recorders /\ "noop" \in Recorders
    BY DEF RecordingInv, RecordingTypeOK, Recorders
  <2>3. at["tracker"] \in 1..Len(TrackerChecks) + 1 /\ at["noop"] \in 1..Len(TrackerChecks) + 1
    BY <2>2
  <2> QED
    BY <2>1, <2>3
<1>2. RefusedLeavesNothing
  BY DEF RecordingInv, NothingWrittenEarly, RefusedLeavesNothing
<1>3. verdict["tracker"] = "ok" => flaws \subseteq IF payloads THEN {} ELSE {"payload", "output"}
  <2> SUFFICES ASSUME verdict["tracker"] = "ok", NEW f \in flaws
               PROVE  ~payloads /\ f \in {"payload", "output"}
    BY <1>1
  <2>1. at["tracker"] > Len(TrackerChecks)
    BY <1>1 DEF RecordingInv, Judged, Recorders
  <2>2. \A k \in 1..Len(TrackerChecks) : TrackerChecks[k] # f
    BY <1>0, <1>1, <2>1 DEF RecordingInv, Cleared, Recorders
  <2>3. f \in {"payload", "output"}
    BY <1>1, <2>2, TrackerChecksAre
  <2>4. payloads => \E k \in 1..Len(TrackerChecks) : TrackerChecks[k] = f
    <3>1. /\ Len(TrackerChecks) \in 1..Len(TrackerChecks)
          /\ Len(TrackerChecks) - 2 \in 1..Len(TrackerChecks)
      BY <1>0
    <3> QED
      BY <1>1, <2>3, <3>1, TrackerChecksAre
  <2> QED
    BY <2>2, <2>3, <2>4
<1>4. verdict["noop"] = "ok" => flaws \subseteq {"currency", "payload", "output"}
  <2> SUFFICES ASSUME verdict["noop"] = "ok", NEW f \in flaws
               PROVE  f \in {"currency", "payload", "output"}
    OBVIOUS
  <2>1. at["noop"] > 8 /\ Len(NoopChecks) = 8
    BY <1>1, NoopChecksAre DEF RecordingInv, Judged, Recorders
  <2>2. \A k \in 1..8 : NoopChecks[k] # f
    <3>1. Cleared("noop")
      BY DEF RecordingInv, Recorders
    <3>2. \A k \in 1..8 : k < at["noop"]
      BY <1>0, <2>1
    <3>3. \A k \in 1..8 : Checks("noop")[k] \notin flaws
      BY <1>1, <2>1, <3>1, <3>2 DEF Cleared
    <3> QED
      BY <1>1, <3>3
  <2> QED
    BY <1>1, <2>2, NoopChecksAre
<1>5. NoopAgrees
  <2> SUFFICES ASSUME Done, Offered("noop")
               PROVE  /\ verdict["tracker"] = "ok" => verdict["noop"] = "ok"
                      /\ verdict["noop"] = "ok" =>
                           verdict["tracker"] \in {"ok", "currency", "payload", "output", "panic"}
    BY DEF NoopAgrees
  <2>1. /\ verdict["tracker"] \in Flaws \cup {"ok", "panic"} /\ verdict["noop"] \in Flaws \cup {"ok", "panic"}
    BY DEF Done, Recorders, Offered, RecordingInv, RecordingTypeOK
  <2>2. verdict["noop"] # "panic"
    BY DEF RecordingInv, Judged, Recorders
  <2>3. verdict["noop"] \in Flaws => verdict["noop"] \in flaws /\ verdict["noop"] \notin {"currency", "payload", "output"}
    <3> SUFFICES ASSUME verdict["noop"] \in Flaws
                 PROVE  verdict["noop"] \in flaws /\ verdict["noop"] \notin {"currency", "payload", "output"}
      OBVIOUS
    <3>1. verdict["noop"] \in flaws /\ at["noop"] <= 8 /\ NoopChecks[at["noop"]] = verdict["noop"]
      BY <1>1, NoopChecksAre DEF RecordingInv, Judged, Recorders
    <3>2. at["noop"] \in 1..8
      BY <1>0, <3>1
    <3> QED
      BY <1>1, <3>1, <3>2, NoopChecksAre
  <2>4. verdict["tracker"] \in Flaws => verdict["tracker"] \in flaws
    BY DEF RecordingInv, Judged, Recorders
  <2> QED
    BY <1>1, <1>3, <1>4, <2>1, <2>2, <2>3, <2>4
<1>6. PolicySeesValidated
  <2>0. asked > 0 => payloads
    BY DEF RecordingInv, Asked
  <2> SUFFICES ASSUME asked > 0, NEW f \in flaws, f # "output" PROVE FALSE
    BY <2>0 DEF PolicySeesValidated
  <2>1. payloads /\ at["tracker"] >= Len(TrackerChecks) - 1
    BY DEF RecordingInv, Asked
  <2>2. \E k \in 1..Len(TrackerChecks) : TrackerChecks[k] = f /\ k < Len(TrackerChecks) - 1
    <3>1. CASE f = "payload"
      <4>1. Len(TrackerChecks) - 2 \in 1..Len(TrackerChecks) /\ Len(TrackerChecks) - 2 < Len(TrackerChecks) - 1
        BY <1>0
      <4> QED
        BY <1>1, <2>1, <3>1, <4>1, TrackerChecksAre
    <3>2. CASE f # "payload"
      BY <1>1, <2>1, <3>2, TrackerChecksAre
    <3> QED
      BY <3>1, <3>2
  <2> QED
    BY <1>0, <1>1, <2>1, <2>2 DEF RecordingInv, Cleared, Recorders
<1> QED
  BY <1>2, <1>3, <1>4, <1>5, <1>6 DEF ValidatedFirst, AcceptsFlawlessOnly, RecordingInv

LEMMA RecordingInitially == RecordingInit => RecordingInv
<1> SUFFICES ASSUME RecordingInit PROVE RecordingInv
  OBVIOUS
<1>1. entry \in Entries /\ payloads \in BOOLEAN /\ flaws \subseteq Possible(entry)
  BY DEF RecordingInit
<1>2. 1 \in 1..Len(TrackerChecks) + 1
  <2>1. Len(TrackerChecks) \in Nat
    BY <1>1, TrackerChecksAre
  <2> QED
    BY <2>1
<1>3. /\ at = [r \in Recorders |-> 1] /\ verdict = [r \in Recorders |-> "pending"] /\ asked = 0
      /\ span = "none" /\ recorded = {} /\ host \in {"returns", "panics"}
  BY DEF RecordingInit
<1>4. RecordingTypeOK
  <2>1. at \in [Recorders -> 1..Len(TrackerChecks) + 1]
    BY <1>2, <1>3
  <2> QED
    BY <1>1, <1>3, <2>1 DEF RecordingTypeOK
<1>5. ASSUME NEW r \in Recorders PROVE Cleared(r) /\ Judged(r)
  <2>1. at[r] = 1 /\ verdict[r] = "pending"
    BY <1>3
  <2> QED
    BY <2>1 DEF Cleared, Judged, Flaws
<1> QED
  BY <1>1, <1>3, <1>4, <1>5 DEF RecordingInv, Asked, NothingWrittenEarly

\* NothingWrittenEarly things and the checks behind it are as they were, but for what the
\* recorder does now.
LEMMA CheckKeeps == ASSUME RecordingInv, NEW r \in Recorders, Check(r) \/ Ask(r) PROVE RecordingInv'
<1>1. /\ Offered(r) /\ verdict[r] = "pending" /\ at[r] <= Len(Checks(r))
      /\ UNCHANGED <<entry, flaws, payloads, host, span, recorded>>
  BY DEF Check, Ask, Checking, observation
<1>2. /\ UNCHANGED <<Checks(r), TrackerChecks>> /\ \A q \in Recorders : Checks(q)' = Checks(q) /\ Offered(q)' = Offered(q)
      /\ Due' = Due /\ \A e : Possible(e)' = Possible(e)
  BY <1>1 DEF Checks, TrackerChecks, NoopChecks, PayloadChecks, Offered, Due, Possible
<1>3. /\ at \in [Recorders -> 1..Len(TrackerChecks) + 1] /\ verdict \in [Recorders -> Flaws \cup {"pending", "ok", "panic"}]
      /\ Len(Checks(r)) \in Nat /\ Len(TrackerChecks) \in Nat /\ Len(Checks(r)) <= Len(TrackerChecks)
      /\ Checks("tracker") = TrackerChecks /\ "tracker" \in Recorders
      /\ at[r] \in Nat \ {0}
  <2>1. at \in [Recorders -> 1..Len(TrackerChecks) + 1] /\ verdict \in [Recorders -> Flaws \cup {"pending", "ok", "panic"}]
    BY DEF RecordingInv, RecordingTypeOK
  <2>2. Checks("tracker") = TrackerChecks /\ "tracker" \in Recorders
    BY DEF Checks, Recorders
  <2>3. Len(TrackerChecks) \in Nat /\ Len(TrackerChecks) >= 8 /\ Len(Checks("noop")) = 8
    BY <2>2, ChecksAre
  <2>4. r = "tracker" \/ r = "noop"
    BY DEF Recorders
  <2>5. Len(Checks(r)) \in Nat /\ Len(Checks(r)) <= Len(TrackerChecks)
    <3>1. CASE r = "tracker"
      BY <2>2, <2>3, <3>1
    <3>2. CASE r = "noop"
      <4>1. Len(Checks(r)) = 8
        BY <2>3, <3>2
      <4> QED
        BY <2>3, <4>1
    <3> QED
      BY <2>4, <3>1, <3>2
  <2>6. at[r] \in 1..Len(TrackerChecks) + 1
    BY <2>1
  <2> QED
    BY <2>1, <2>2, <2>3, <2>5, <2>6
<1> PICK c : c = Checks(r)[at[r]]
  OBVIOUS
<1>4. /\ c = "ask" <=> r = "tracker" /\ payloads /\ at[r] = Len(Checks(r)) - 1
      /\ c \in Flaws \cup {"ask"} /\ "ask" \notin Flaws
  <2>1. at[r] \in 1..Len(Checks(r))
    BY <1>1, <1>3
  <2> QED
    BY <2>1, ChecksAre
<1>5. \/ /\ c # "ask" /\ c \in flaws /\ asked' = asked /\ at' = at /\ verdict' = [verdict EXCEPT ![r] = c]
      \/ /\ c # "ask" => c \notin flaws /\ asked' = asked
         /\ c = "ask" => asked' = asked + 1
         /\ at' = [at EXCEPT ![r] = @ + 1] /\ verdict' = verdict
      \/ /\ c = "ask" /\ asked' = asked + 1 /\ at' = at /\ verdict' = [verdict EXCEPT ![r] = "panic"]
  BY DEF Check, Ask, Decide, Passed
<1>6. r = "tracker" => span = "none" /\ recorded = {}
  BY <1>1, <1>3 DEF RecordingInv, NothingWrittenEarly
<1>7. c = "ask" => asked = 0 /\ asked + 1 = 1 /\ asked + 1 \in 0..1
  <2>1. asked \in 0..1
    BY DEF RecordingInv, RecordingTypeOK
  <2>2. c = "ask" => ~(asked > 0)
    BY <1>1, <1>3, <1>4 DEF RecordingInv, Asked
  <2> QED
    BY <2>1, <2>2
<1>8. RecordingTypeOK'
  <2>1. at' \in [Recorders -> 1..Len(TrackerChecks) + 1]
    BY <1>1, <1>3, <1>5
  <2>2. verdict' \in [Recorders -> Flaws \cup {"pending", "ok", "panic"}]
    BY <1>3, <1>4, <1>5
  <2>3. asked' \in 0..1
    BY <1>5, <1>7 DEF RecordingInv, RecordingTypeOK
  <2> QED
    BY <1>1, <1>2, <2>1, <2>2, <2>3 DEF RecordingInv, RecordingTypeOK
<1>9. ASSUME NEW q \in Recorders PROVE Cleared(q)'
  <2>1. CASE q # r
    BY <1>1, <1>2, <1>3, <1>5, <2>1 DEF RecordingInv, Cleared
  <2>2. CASE q = r /\ at' = at
    BY <1>1, <1>2, <2>2 DEF RecordingInv, Cleared
  <2>3. CASE q = r /\ at' # at
    <3>1. at'[r] = at[r] + 1 /\ c \notin flaws
      <4>1. c = "ask" => c \notin flaws
        BY <1>4 DEF RecordingInv, RecordingTypeOK, Possible
      <4> QED
        BY <1>3, <1>5, <2>3, <4>1
    <3>2. \A k \in 1..Len(Checks(r)) : k < at[r] + 1 => k < at[r] \/ k = at[r]
      BY <1>3
    <3> QED
      BY <1>1, <1>2, <2>3, <3>1, <3>2 DEF RecordingInv, Cleared
  <2> QED
    BY <2>1, <2>2, <2>3
<1>10. ASSUME NEW q \in Recorders PROVE Judged(q)'
  <2>1. CASE q # r
    BY <1>1, <1>2, <1>3, <1>5, <2>1 DEF RecordingInv, Judged, Asking
  <2>2. CASE q = r
    <3>1. "ok" \notin Flaws /\ "panic" \notin Flaws /\ "pending" \notin Flaws
      BY DEF Flaws
    <3> QED
      BY <1>1, <1>2, <1>3, <1>4, <1>5, <2>2, <3>1 DEF Judged, Asking
  <2> QED
    BY <2>1, <2>2
<1>11. Asked'
  <2> SUFFICES ASSUME asked' > 0
               PROVE  /\ payloads /\ at'["tracker"] >= Len(TrackerChecks) - 1
                      /\ at'["tracker"] = Len(TrackerChecks) - 1 => verdict'["tracker"] = "panic"
    BY <1>1, <1>2 DEF Asked
  <2>1. CASE c # "ask"
    <3>1. /\ asked > 0 /\ payloads /\ at["tracker"] >= Len(TrackerChecks) - 1
          /\ at["tracker"] = Len(TrackerChecks) - 1 => verdict["tracker"] = "panic"
      BY <1>5, <2>1 DEF RecordingInv, Asked
    <3>2. at["tracker"] \in Nat
      BY <1>3
    <3>3. CASE r # "tracker"
      <4>1. at'["tracker"] = at["tracker"] /\ verdict'["tracker"] = verdict["tracker"]
        BY <1>3, <1>5, <3>3
      <4> QED
        BY <3>1, <4>1
    <3>4. CASE r = "tracker"
      <4>1. at["tracker"] >= Len(TrackerChecks)
        BY <1>1, <1>3, <3>1, <3>2, <3>4
      <4>2. at'["tracker"] = at["tracker"] \/ at'["tracker"] = at["tracker"] + 1
        BY <1>3, <1>5, <3>4
      <4> QED
        BY <1>3, <3>1, <3>2, <4>1, <4>2
    <3> QED
      BY <3>3, <3>4
  <2>2. CASE c = "ask"
    <3>1. r = "tracker" /\ payloads /\ at[r] = Len(TrackerChecks) - 1
      BY <1>3, <1>4, <2>2
    <3> QED
      BY <1>3, <1>4, <1>5, <2>2, <3>1
  <2> QED
    BY <2>1, <2>2
<1>12. NothingWrittenEarly'
  BY <1>1, <1>2, <1>3, <1>5, <1>6 DEF RecordingInv, NothingWrittenEarly
<1> QED
  BY <1>1, <1>8, <1>9, <1>10, <1>11, <1>12 DEF RecordingInv

\* A recorder writes only past its last check, so that no flaw is left to find.
LEMMA WriteKeeps ==
  ASSUME RecordingInv, Begin \/ End \/ (\E m \in Due : Record(m)) \/ (\E r \in Recorders : Conclude(r))
  PROVE  RecordingInv'
<1>1. UNCHANGED <<entry, flaws, payloads, host, at, asked>>
  BY DEF Begin, End, Record, Conclude, observation
<1>2. /\ \A q \in Recorders : Checks(q)' = Checks(q) /\ Offered(q)' = Offered(q)
      /\ TrackerChecks' = TrackerChecks /\ Due' = Due /\ \A e : Possible(e)' = Possible(e)
  BY <1>1 DEF Checks, TrackerChecks, NoopChecks, PayloadChecks, Offered, Due, Possible
<1>3. "tracker" \in Recorders /\ Checks("tracker") = TrackerChecks
  BY DEF Recorders, Checks
<1>4. verdict \in [Recorders -> Flaws \cup {"pending", "ok", "panic"}]
  BY DEF RecordingInv, RecordingTypeOK
<1>5. \/ verdict' = verdict
      \/ \E r \in Recorders : Accepted(r) /\ verdict' = [verdict EXCEPT ![r] = "ok"]
  BY DEF Begin, End, Record, Conclude, Decide
<1>6. span' \in {"none", "open", "ended"} /\ recorded' \subseteq Due
  BY DEF Begin, End, Record, Conclude, RecordingInv, RecordingTypeOK
<1>7. span' # "none" \/ recorded' # {} => at["tracker"] > Len(TrackerChecks) /\ verdict["tracker"] \in {"pending", "ok"}
  BY <1>3 DEF Begin, End, Record, Conclude, Accepted, RecordingInv, NothingWrittenEarly
<1>8. verdict' \in [Recorders -> Flaws \cup {"pending", "ok", "panic"}]
  BY <1>4, <1>5
<1>9. RecordingTypeOK'
  BY <1>1, <1>2, <1>6, <1>8 DEF RecordingInv, RecordingTypeOK
<1>10. (\A q \in Recorders : Cleared(q))'
  BY <1>1, <1>2 DEF RecordingInv, Cleared
<1>11. ASSUME NEW q \in Recorders PROVE Judged(q)'
  <2>1. CASE verdict'[q] = verdict[q]
    BY <1>1, <1>2, <2>1 DEF RecordingInv, Judged, Asking
  <2>2. CASE Accepted(q) /\ verdict'[q] = "ok"
    BY <1>1, <1>2, <2>2 DEF Judged, Accepted, Flaws
  <2> QED
    BY <1>4, <1>5, <2>1, <2>2
<1>12. Asked'
  <2>1. verdict["tracker"] = "panic" => verdict'["tracker"] = "panic"
    BY <1>3, <1>4, <1>5 DEF Accepted
  <2> QED
    BY <1>1, <1>2, <2>1 DEF RecordingInv, Asked
<1>13. NothingWrittenEarly'
  <2>1. verdict["tracker"] \in {"pending", "ok"} => verdict'["tracker"] \in {"pending", "ok"}
    BY <1>3, <1>4, <1>5
  <2> QED
    BY <1>1, <1>2, <1>7, <2>1 DEF NothingWrittenEarly
<1> QED
  BY <1>1, <1>9, <1>10, <1>11, <1>12, <1>13 DEF RecordingInv

LEMMA RecordingStep == RecordingInv /\ [RecordingNext]_recordingVars => RecordingInv'
<1> SUFFICES ASSUME RecordingInv, [RecordingNext]_recordingVars PROVE RecordingInv'
  OBVIOUS
<1>1. CASE RecordingNext
  BY <1>1, CheckKeeps, WriteKeeps DEF RecordingNext
<1>2. CASE UNCHANGED recordingVars
  <2>1. \A q \in Recorders : Checks(q)' = Checks(q) /\ Offered(q)' = Offered(q)
    BY <1>2 DEF recordingVars, Checks, TrackerChecks, NoopChecks, PayloadChecks, Offered
  <2>2. RecordingTypeOK'
    BY <1>2 DEF recordingVars, RecordingInv, RecordingTypeOK, Possible, Due, TrackerChecks, PayloadChecks
  <2>3. (\A r \in Recorders : Cleared(r) /\ Judged(r))'
    <3> SUFFICES ASSUME NEW r \in Recorders PROVE Cleared(r)' /\ Judged(r)'
      OBVIOUS
    <3>1. Cleared(r) /\ Judged(r)
      BY DEF RecordingInv
    <3>2. Cleared(r)'
      BY <1>2, <2>1, <3>1 DEF recordingVars, Cleared, Asking, TrackerChecks, PayloadChecks
    <3>3. Judged(r)'
      BY <1>2, <2>1, <3>1 DEF recordingVars, Judged, Asking, TrackerChecks, PayloadChecks
    <3> QED
      BY <3>2, <3>3
  <2>4. (Asked /\ NothingWrittenEarly)'
    BY <1>2 DEF recordingVars, RecordingInv, Asked, NothingWrittenEarly, TrackerChecks, PayloadChecks
  <2> QED
    BY <1>2, <2>2, <2>3, <2>4 DEF recordingVars, RecordingInv
<1> QED
  BY <1>1, <1>2

\* Whatever is wrong with an observation, however the policy behaves and whichever
\* function is called, it is all found out before a span, a metric or the host's
\* policy sees any of it, and the noop recorder agrees (genai/recorder.go).
THEOREM ObservationsAreValidatedFirst == RecordingSpec => []ValidatedFirst
<1> QED
  BY RecordingInitially, RecordingStep, RecordingInvImplies, PTL DEF RecordingSpec

-----------------------------------------------------------------------------
(* References: for any words a host may say and a profile declare. The     *)
(* invariant keeps what every span was made of.                            *)

\* What a span that was emitted is made of.
OfModel(s, meta) ==
  /\ DOMAIN meta = MetaKeys /\ (\A key \in MetaKeys : IsWord(meta[key])) /\ ValidMeta(meta)
  /\ s = ModelSpan(meta, meta["response"])

OfIdentity(s, i) ==
  /\ i \in RunIdentities /\ ValidIdentity(i)
  /\ s = [from |-> "handle", kind |-> i.kind, given |-> i.ids,
          shown |-> [key \in IdentityKeys |-> Reference(i.ids[key])]]

OfSource(s, source) ==
  /\ source \in CacheSources
  /\ s = [from |-> "cache", given |-> [source |-> source], shown |-> [source |-> Reference(source)]]

ReferencesInv ==
  /\ configured \in {"raw", "redact"} /\ declared \in [MetaKeys -> SUBSET SafeValues]
  /\ \A s \in emitted : \/ \E meta : OfModel(s, meta)
                        \/ \E i : OfIdentity(s, i)
                        \/ \E source : OfSource(s, source)

\* Of the kinds of a word only one holds.
LEMMA WordsAre ==
  /\ IsWord(NoWord) /\ IsWord(Long) /\ IsWord(Hidden) /\ IsWord(Chat) /\ IsWord(UnknownWord)
  /\ NoWord \notin {Long, Hidden, Chat, UnknownWord} /\ UnknownWord \notin {Long, Hidden, Chat}
  /\ Long \notin {Hidden, Chat}
  /\ \A w, v : w # v => Digest(w) # Digest(v)
  /\ \A w : ~IsWord(Digest(w))
<1>1. IsWord(NoWord) /\ IsWord(Long) /\ IsWord(Hidden) /\ IsWord(Chat) /\ IsWord(UnknownWord)
  BY DEF IsWord, NoWord, Long, Hidden, Chat, UnknownWord
<1>2. /\ NoWord \notin {Long, Hidden, Chat, UnknownWord} /\ UnknownWord \notin {Long, Hidden, Chat}
      /\ Long \notin {Hidden, Chat}
  BY DEF NoWord, Long, Hidden, Chat, UnknownWord
<1>3. \A w, v : w # v => Digest(w) # Digest(v)
  BY DEF Digest
<1>4. \A w : ~IsWord(Digest(w))
  BY DEF Digest, IsWord
<1> QED
  BY <1>1, <1>2, <1>3, <1>4

LEMMA WordsGiven ==
  /\ \A meta \in Metas : DOMAIN meta = MetaKeys /\ \A key \in MetaKeys : IsWord(meta[key])
  /\ \A i \in RunIdentities : DOMAIN i.ids = IdentityKeys /\ \A key \in IdentityKeys : IsWord(i.ids[key])
  /\ \A source \in CacheSources : IsWord(source)
  /\ \A value \in SafeValues : IsWord(value) /\ value \notin {NoWord, Long}
BY WordsAssumption

\* A reference tells two words apart, but for those that are too long, and nothing
\* else of them unless the host chose raw.
LEMMA ReferencesAre ==
  ASSUME NEW w, NEW v, IsWord(w), IsWord(v)
  PROVE  /\ Long \notin {w, v} => (Reference(w) = Reference(v)) = (w = v)
         /\ configured # "raw" /\ w # NoWord => Reference(w) # w
         /\ Reference(w) = NoWord <=> w = NoWord
<1>1. /\ Reference(NoWord) = NoWord /\ Reference(Long) = Hidden
      /\ w \notin {NoWord, Long} => Reference(w) = IF configured = "raw" THEN w ELSE Digest(w)
      /\ v \notin {NoWord, Long} => Reference(v) = IF configured = "raw" THEN v ELSE Digest(v)
  BY WordsAre DEF Reference
<1> QED
  BY <1>1, WordsAre

\* Spans but those of models show references of what they were given.
LEMMA IdentitiesShown ==
  ASSUME ReferencesInv, NEW s \in emitted \ Interactions, NEW k \in DOMAIN s.given
  PROVE  IsWord(s.given[k]) /\ s.shown[k] = Reference(s.given[k])
<1>1. CASE \E meta : OfModel(s, meta)
  BY <1>1 DEF OfModel, ModelSpan, Interactions
<1>2. CASE \E i : OfIdentity(s, i)
  BY <1>2, WordsGiven DEF OfIdentity
<1>3. CASE \E source : OfSource(s, source)
  BY <1>3, WordsGiven DEF OfSource
<1> QED
  BY <1>1, <1>2, <1>3 DEF ReferencesInv

LEMMA MetadataAre ==
  ASSUME ReferencesInv, NEW key \in MetaKeys, NEW w, IsWord(w)
  PROVE  LET safe == declared[key] \cup {NoWord, UnknownWord} \cup IF key = "operation" THEN {Chat} ELSE {}
             shown == Metadata(key, w)
             label == Metric(key, shown)
         IN /\ w \in safe => shown = w
            /\ w \notin safe => shown = Reference(w)
            /\ label \in declared[key] \cup {NoWord, UnknownWord}
            /\ label \in {shown, UnknownWord}
            /\ w \in declared[key] => label = w
            /\ shown = NoWord <=> w = NoWord
<1>1. \A value \in declared[key] : IsWord(value) /\ value \notin {NoWord, Long}
  BY WordsGiven DEF ReferencesInv
<1>2. Metadata(key, w) = IF w \in {NoWord, UnknownWord} \/ w \in declared[key] \/ (key = "operation" /\ w = Chat)
                         THEN w ELSE Reference(w)
  BY DEF Metadata
<1>3. Metadata(key, w) = NoWord <=> w = NoWord
  BY <1>2, ReferencesAre, WordsAre
<1> QED
  BY <1>1, <1>2, <1>3, WordsAre DEF Metric

\* Two spans made of the same words look the same, and of other words differ, since each remembers
\* what it was made of.
LEMMA ReferencesInvImplies == ReferencesInv => LabelsAreProtected
<1> SUFFICES ASSUME ReferencesInv PROVE LabelsAreProtected
  OBVIOUS
<1>1. IdentitiesCorrelate
  BY IdentitiesShown, ReferencesAre DEF IdentitiesCorrelate
<1>2. TreesAreSound
  <2> SUFFICES ASSUME NEW s \in Identified
               PROVE  /\ s.shown["run"] # NoWord /\ s.shown["operation"] # NoWord
                      /\ s.shown["parent"] # s.shown["run"]
                      /\ (s.kind = "attempt") = (s.shown["attempt"] # NoWord)
    BY DEF TreesAreSound
  <2> PICK i : OfIdentity(s, i)
    BY DEF ReferencesInv, Identified, OfModel, ModelSpan, OfSource
  <2>1. /\ s.kind = i.kind /\ \A key \in IdentityKeys : IsWord(i.ids[key]) /\ s.shown[key] = Reference(i.ids[key])
        /\ {"run", "parent", "operation", "attempt"} = IdentityKeys /\ ValidIdentity(i)
    BY WordsGiven DEF OfIdentity, IdentityKeys
  <2> QED
    BY <2>1, ReferencesAre DEF ValidIdentity
<1>3. ASSUME NEW s \in Interactions
      PROVE  \E meta : OfModel(s, meta)
  BY <1>3 DEF ReferencesInv, Interactions, OfIdentity, OfSource
<1>4. OnlyDeclaredIsLiteral
  <2> SUFFICES ASSUME NEW s \in Interactions, NEW key \in MetaKeys
               PROVE  LET safe == declared[key] \cup {NoWord, UnknownWord} \cup IF key = "operation" THEN {Chat} ELSE {}
                      IN /\ configured # "raw" /\ s.given[key] \notin safe => s.shown[key] # s.given[key]
                         /\ s.labels[key] \in declared[key] \cup {NoWord, UnknownWord}
    BY DEF OnlyDeclaredIsLiteral
  <2> PICK meta : OfModel(s, meta)
    BY <1>3
  <2>1. /\ IsWord(meta[key]) /\ s.given[key] = meta[key] /\ s.shown[key] = Metadata(key, meta[key])
        /\ s.labels[key] = Metric(key, Metadata(key, meta[key]))
    BY DEF OfModel, ModelSpan
  <2> QED
    BY <2>1, MetadataAre, ReferencesAre
<1>5. ViewsAgree
  <2> SUFFICES ASSUME NEW s \in Interactions
               PROVE  /\ s.name = <<s.shown["operation"], s.shown["model"]>>
                      /\ \A key \in MetaKeys :
                           /\ s.labels[key] \in {s.shown[key], UnknownWord}
                           /\ s.given[key] \in declared[key] => s.labels[key] = s.given[key]
                      /\ (s.shown["response"] = NoWord) = (s.said = NoWord)
    BY DEF ViewsAgree
  <2> PICK meta : OfModel(s, meta)
    BY <1>3
  <2>1. /\ \A key \in MetaKeys :
             /\ IsWord(meta[key]) /\ s.given[key] = meta[key] /\ s.shown[key] = Metadata(key, meta[key])
             /\ s.labels[key] = Metric(key, Metadata(key, meta[key]))
        /\ s.name = <<Metadata("operation", meta["operation"]), Metadata("model", meta["model"])>>
        /\ s.said = meta["response"]
    BY DEF OfModel, ModelSpan
  <2>2. {"operation", "model", "response"} \subseteq MetaKeys
    BY DEF MetaKeys
  <2> QED
    BY <2>1, <2>2, MetadataAre
<1> QED
  BY <1>1, <1>2, <1>4, <1>5 DEF LabelsAreProtected

LEMMA ReferencesInitially == ReferencesInit => ReferencesInv
BY DEF ReferencesInit, ReferencesInv

LEMMA ReferencesStep == ReferencesInv /\ [ReferencesNext]_referenceVars => ReferencesInv'
<1> SUFFICES ASSUME ReferencesInv, [ReferencesNext]_referenceVars PROVE ReferencesInv'
  OBVIOUS
<1>1. configured' = configured /\ declared' = declared
  BY DEF ReferencesNext, referenceVars, RecordInteraction, RecordModelInteraction, StartWithIdentity,
         RecordCacheHit, Emit
\* What was shown stays shown as it was: the policy and the profile do not change.
<1>2. /\ \A s, meta : OfModel(s, meta)' <=> OfModel(s, meta)
      /\ \A s, i : OfIdentity(s, i)' <=> OfIdentity(s, i)
      /\ \A s, source : OfSource(s, source)' <=> OfSource(s, source)
  BY <1>1 DEF OfModel, OfIdentity, OfSource, ModelSpan, Metadata, Metric, Reference
<1>3. ASSUME NEW s, Emit(s), \/ \E meta : OfModel(s, meta)
                             \/ \E i : OfIdentity(s, i)
                             \/ \E source : OfSource(s, source)
      PROVE  ReferencesInv'
  BY <1>1, <1>2, <1>3 DEF ReferencesInv, Emit
<1>4. CASE RecordInteraction
  <2> PICK meta \in Metas : ValidMeta(meta) /\ Emit(ModelSpan(meta, meta["response"]))
    BY <1>4 DEF RecordInteraction
  <2>1. OfModel(ModelSpan(meta, meta["response"]), meta)
    BY WordsGiven DEF OfModel
  <2> QED
    BY <2>1, <1>3
<1>5. CASE RecordModelInteraction
  <2> PICK meta \in Metas, response \in {m["response"] : m \in Metas} :
        LET merged == [meta EXCEPT !["response"] = response]
        IN ValidMeta(merged) /\ Emit(ModelSpan(merged, response))
    BY <1>5 DEF RecordModelInteraction
  <2> PICK merged : merged = [meta EXCEPT !["response"] = response]
    OBVIOUS
  <2>1. "response" \in MetaKeys /\ IsWord(response)
    BY WordsGiven DEF MetaKeys
  <2>2. DOMAIN merged = MetaKeys /\ merged["response"] = response /\ \A key \in MetaKeys : IsWord(merged[key])
    BY <2>1, WordsGiven
  <2>3. OfModel(ModelSpan(merged, response), merged)
    BY <2>2 DEF OfModel
  <2> QED
    BY <2>3, <1>3
<1>6. CASE StartWithIdentity
  <2> PICK i \in RunIdentities :
        /\ ValidIdentity(i)
        /\ Emit([from |-> "handle", kind |-> i.kind, given |-> i.ids,
                 shown |-> [key \in IdentityKeys |-> Reference(i.ids[key])]])
    BY <1>6 DEF StartWithIdentity
  <2> QED
    BY <1>3 DEF OfIdentity
<1>7. CASE RecordCacheHit
  <2> PICK source \in CacheSources :
        Emit([from |-> "cache", given |-> [source |-> source], shown |-> [source |-> Reference(source)]])
    BY <1>7 DEF RecordCacheHit
  <2> QED
    BY <1>3 DEF OfSource
<1>8. CASE UNCHANGED referenceVars
  BY <1>1, <1>2, <1>8 DEF ReferencesInv, referenceVars
<1> QED
  BY <1>4, <1>5, <1>6, <1>7, <1>8 DEF ReferencesNext

\* Whatever words hosts and adapters say, and whatever a profile declares: identities and names on
\* spans correlate, only declared words are shown as they are, and metrics see no more (References).
THEOREM ReferencesProtectLabels == ReferencesSpec => []LabelsAreProtected
<1> QED
  BY ReferencesInitially, ReferencesStep, ReferencesInvImplies, PTL DEF ReferencesSpec

-----------------------------------------------------------------------------
(* ScopedSampling: contexts made of any calls in any order. The invariant  *)
(* says which call each field that a context carries comes from.           *)

CallSet == [name : {"WithScope", "Enrich", "Extract", "SetBaggage", "StartSpan"},
            fields : SUBSET Fields, value : Nat \ {0}, type : {"string", "int"}]

\* The k-th call is the last one of its name that writes the field.
LastSaid(c, name, f, k) == k \in Calls(c, name, f) /\ \A l \in Calls(c, name, f) : l <= k

\* What a context carries was said by the last call of a kind that may say it.
ScopeIs(c, f) ==
  \/ Calls(c, "WithScope", f) = {} /\ c.scope[f] = Unset
  \/ \E k : LastSaid(c, "WithScope", f, k) /\ c.scope[f] = c.calls[k].value

Entered(c, f, k) == c.ledger[f].value = c.calls[k].value /\ c.ledger[f].type = c.calls[k].type

LedgerIs(c, f) ==
  \/ /\ Calls(c, "Enrich", f) = {} /\ Calls(c, "Extract", f) = {}
     /\ ~c.ledger[f].local /\ c.ledger[f].value = Unset
  \/ /\ Calls(c, "Enrich", f) = {} /\ ~c.ledger[f].local
     /\ \E k : LastSaid(c, "Extract", f, k) /\ Entered(c, f, k)
  \/ c.ledger[f].local /\ \E k : LastSaid(c, "Enrich", f, k) /\ Entered(c, f, k)

SpanIs(b, c) ==
  c.span # <<>> =>
    LET s == c.span[1]
    IN /\ s.sampled \in BOOLEAN
       /\ s.keep = "true" => s.sampled
       /\ s.keep # "true" => s.sampled = IF s.parent = <<>> THEN b = "always" ELSE s.parent[1].sampled

ContextIs(b, c) ==
  /\ c = [scope |-> c.scope, ledger |-> c.ledger, baggage |-> c.baggage, span |-> c.span, calls |-> c.calls]
  /\ c.scope \in [Fields -> Nat]
  /\ c.ledger \in [Fields -> [value : Nat, local : BOOLEAN, type : {"string", "int"}]]
  /\ c.calls \in Seq(CallSet)
  /\ \A k \in DOMAIN c.calls : c.calls[k].name = "WithScope" => c.calls[k].type = "string"
  /\ \A f \in Fields : ScopeIs(c, f) /\ LedgerIs(c, f)
  /\ SpanIs(b, c)

ScopeInv ==
  /\ \E S : contexts \in Seq(S)
  /\ Now \in 1..MaxContexts + 1
  /\ \A i \in DOMAIN contexts : ContextIs(base, contexts[i])

-----------------------------------------------------------------------------
LEMMA Appending ==
  ASSUME NEW S, NEW s \in Seq(S), NEW e
  PROVE  /\ Append(s, e) \in Seq(S \cup {e}) /\ Len(Append(s, e)) = Len(s) + 1 /\ Len(s) \in Nat
         /\ DOMAIN s = 1..Len(s) /\ DOMAIN Append(s, e) = 1..Len(s) + 1
         /\ \A i \in 1..Len(s) : Append(s, e)[i] = s[i]
         /\ Append(s, e)[Len(s) + 1] = e
<1>1. s \in Seq(S \cup {e})
  OBVIOUS
<1> QED
  BY <1>1

\* d is derived from c by a call.
Extends(c, d, call) == ContextIs(base, c) /\ call \in CallSet /\ d.calls = Append(c.calls, call)

\* A call that is appended is the last of its name and field, and changes the last of no other.
LEMMA CallsAppended ==
  ASSUME NEW c, NEW d, NEW call, Extends(c, d, call), NEW name, NEW f
  PROVE  /\ name = call.name /\ f \in call.fields => LastSaid(d, name, f, Len(d.calls))
         /\ ~(name = call.name /\ f \in call.fields) =>
              Calls(d, name, f) = Calls(c, name, f) /\ \A k : LastSaid(d, name, f, k) <=> LastSaid(c, name, f, k)
         /\ \A k \in Calls(c, name, f) : d.calls[k] = c.calls[k]
         /\ d.calls[Len(d.calls)] = call /\ d.calls \in Seq(CallSet)
<1>1. c.calls \in Seq(CallSet) /\ call \in CallSet /\ d.calls = Append(c.calls, call)
  BY DEF ContextIs, Extends
<1>2. /\ d.calls \in Seq(CallSet) /\ Len(d.calls) = Len(c.calls) + 1 /\ Len(c.calls) \in Nat
      /\ DOMAIN c.calls = 1..Len(c.calls) /\ DOMAIN d.calls = 1..Len(c.calls) + 1
      /\ \A i \in 1..Len(c.calls) : d.calls[i] = c.calls[i]
      /\ d.calls[Len(c.calls) + 1] = call
  BY <1>1
<1>3. Calls(d, name, f) = Calls(c, name, f) \cup IF name = call.name /\ f \in call.fields
                                                 THEN {Len(c.calls) + 1} ELSE {}
  BY <1>2 DEF Calls
<1>4. \A k \in Calls(c, name, f) : k \in 1..Len(c.calls)
  BY <1>2 DEF Calls
<1> QED
  BY <1>2, <1>3, <1>4 DEF LastSaid

LEMMA ScopeInitially == MaxContextsAssumption /\ ScopeInit => ScopeInv
<1> SUFFICES ASSUME ScopeInit PROVE ScopeInv
  OBVIOUS
<1> PICK c : c = [scope |-> NoFields, ledger |-> NoLedger, baggage |-> NoFields, span |-> <<>>, calls |-> <<>>]
  OBVIOUS
<1>1. contexts = <<c>> /\ contexts \in Seq({c}) /\ Now = 1 /\ DOMAIN contexts = {1} /\ contexts[1] = c
  BY DEF ScopeInit, Now
<1>2. /\ c.scope = NoFields /\ c.ledger = NoLedger /\ c.span = <<>> /\ c.calls = <<>> /\ c.baggage = NoFields
      /\ c.calls \in Seq(CallSet) /\ DOMAIN c.calls = {}
  OBVIOUS
<1>3. \A name, f : Calls(c, name, f) = {}
  BY <1>2 DEF Calls
<1>4. NoLedger \in [Fields -> [value : Nat, local : BOOLEAN, type : {"string", "int"}]]
      /\ NoFields \in [Fields -> Nat]
      /\ \A f \in Fields : NoFields[f] = Unset /\ ~NoLedger[f].local /\ NoLedger[f].value = Unset
  BY DEF NoLedger, NoFields, Unset
<1>5. ContextIs(base, c)
  BY <1>2, <1>3, <1>4 DEF ContextIs, ScopeIs, LedgerIs, SpanIs
<1>6. \E S : contexts \in Seq(S)
  BY <1>1
<1>7. Now \in 1..MaxContexts + 1
  BY <1>1, MaxContextsAssumption
<1> QED
  BY <1>1, <1>5, <1>6, <1>7 DEF ScopeInv

\* A context derived from one there is keeps the invariant, if it is one.
LEMMA Deriving ==
  ASSUME ScopeInv, MayDerive, NEW x, NEW call, NEW d, d = [x EXCEPT !.calls = Append(@, call)],
         Derive(x, call), ContextIs(base, d)
  PROVE  ScopeInv'
<1> PICK S : contexts \in Seq(S)
  BY DEF ScopeInv
<1>1. contexts' = Append(contexts, d) /\ base' = base
  BY DEF Derive
<1>2. /\ contexts' \in Seq(S \cup {d}) /\ Len(contexts') = Now + 1
      /\ DOMAIN contexts = 1..Now /\ DOMAIN contexts' = 1..Now + 1
      /\ \A i \in 1..Now : contexts'[i] = contexts[i]
      /\ contexts'[Now + 1] = d
  BY <1>1, Appending DEF Now
<1>3. Now' \in 1..MaxContexts + 1
  BY <1>2, MaxContextsAssumption DEF ScopeInv, MayDerive, Now
<1>5. ASSUME NEW i \in DOMAIN contexts'
      PROVE  ContextIs(base, contexts'[i])
  <2>1. CASE i = Now + 1
    BY <1>2, <2>1
  <2>2. CASE i \in 1..Now
    BY <1>2, <2>2 DEF ScopeInv
  <2> QED
    BY <1>2, <2>1, <2>2 DEF ScopeInv
<1>6. (\A i \in DOMAIN contexts : ContextIs(base, contexts[i]))'
  BY <1>1, <1>5
<1>7. (\E T : contexts \in Seq(T))'
  BY <1>2
<1> QED
  BY <1>3, <1>6, <1>7 DEF ScopeInv

-----------------------------------------------------------------------------
LEMMA LedgerKept ==
  ASSUME NEW c, NEW d, NEW call, Extends(c, d, call), NEW f \in Fields, d.ledger[f] = c.ledger[f],
         ~(call.name \in {"Enrich", "Extract"} /\ f \in call.fields)
  PROVE  LedgerIs(d, f)
<1>1. LedgerIs(c, f)
  BY DEF ContextIs, Extends
<1>2. ASSUME NEW name \in {"Enrich", "Extract"}
      PROVE  /\ Calls(d, name, f) = Calls(c, name, f)
             /\ \A k : LastSaid(d, name, f, k) <=> LastSaid(c, name, f, k)
             /\ \A k \in Calls(c, name, f) : d.calls[k] = c.calls[k]
  <2>1. ~(name = call.name /\ f \in call.fields)
    OBVIOUS
  <2> QED
    BY <2>1, CallsAppended
<1>3. \A name \in {"Enrich", "Extract"} : \A k : LastSaid(d, name, f, k) /\ Entered(c, f, k) => Entered(d, f, k)
  BY <1>2 DEF LastSaid, Entered
<1> QED
  BY <1>1, <1>2, <1>3 DEF LedgerIs

LEMMA ScopeKept ==
  ASSUME NEW c, NEW d, NEW call, Extends(c, d, call), NEW f \in Fields, d.scope[f] = c.scope[f],
         ~(call.name = "WithScope" /\ f \in call.fields)
  PROVE  ScopeIs(d, f)
<1>1. ScopeIs(c, f)
  BY DEF ContextIs, Extends
<1>2. /\ Calls(d, "WithScope", f) = Calls(c, "WithScope", f)
      /\ \A k : LastSaid(d, "WithScope", f, k) <=> LastSaid(c, "WithScope", f, k)
      /\ \A k \in Calls(c, "WithScope", f) : d.calls[k] = c.calls[k]
  BY CallsAppended
<1> QED
  BY <1>1, <1>2 DEF ScopeIs, LastSaid

LEMMA ScopeSaid ==
  ASSUME NEW c, NEW d, NEW call, Extends(c, d, call), NEW f \in Fields, d.scope[f] = call.value,
         call.name = "WithScope", f \in call.fields
  PROVE  ScopeIs(d, f)
<1>1. LastSaid(d, "WithScope", f, Len(d.calls)) /\ d.calls[Len(d.calls)] = call
  BY CallsAppended
<1> QED
  BY <1>1 DEF ScopeIs

LEMMA LedgerSaid ==
  ASSUME NEW c, NEW d, NEW call, Extends(c, d, call), NEW f \in Fields, f \in call.fields,
         call.name \in {"Enrich", "Extract"},
         IF call.name = "Enrich" \/ ~c.ledger[f].local
         THEN /\ d.ledger[f].value = call.value /\ d.ledger[f].type = call.type
              /\ d.ledger[f].local <=> call.name = "Enrich"
         ELSE d.ledger[f] = c.ledger[f]
  PROVE  LedgerIs(d, f)
<1>1. LastSaid(d, call.name, f, Len(d.calls)) /\ d.calls[Len(d.calls)] = call
  BY CallsAppended
<1>2. ASSUME NEW name, name # call.name
      PROVE  /\ Calls(d, name, f) = Calls(c, name, f)
             /\ \A k : LastSaid(d, name, f, k) <=> LastSaid(c, name, f, k)
             /\ \A k \in Calls(c, name, f) : d.calls[k] = c.calls[k]
  BY <1>2, CallsAppended
<1>3. LedgerIs(c, f) /\ c.ledger[f].local \in BOOLEAN
  BY DEF ContextIs, Extends
<1>4. CASE call.name = "Enrich"
  <2>1. d.ledger[f].local /\ d.ledger[f].value = call.value /\ d.ledger[f].type = call.type
    BY <1>4
  <2> QED
    BY <1>1, <1>4, <2>1 DEF LedgerIs, Entered
<1>5. CASE call.name = "Extract" /\ ~c.ledger[f].local
  <2>1. Calls(d, "Enrich", f) = {}
    BY <1>2, <1>3, <1>5 DEF LedgerIs
  <2>2. ~d.ledger[f].local /\ d.ledger[f].value = call.value /\ d.ledger[f].type = call.type
    BY <1>5
  <2> QED
    BY <1>1, <1>5, <2>1, <2>2 DEF LedgerIs, Entered
<1>6. CASE call.name = "Extract" /\ c.ledger[f].local
  <2>1. PICK k : LastSaid(c, "Enrich", f, k) /\ Entered(c, f, k)
    BY <1>3, <1>6 DEF LedgerIs
  <2>2. LastSaid(d, "Enrich", f, k) /\ d.calls[k] = c.calls[k]
    BY <1>2, <1>6, <2>1 DEF LastSaid
  <2> QED
    BY <1>6, <2>1, <2>2 DEF LedgerIs, Entered
<1> QED
  BY <1>4, <1>5, <1>6

LEMMA ContextDerived ==
  ASSUME NEW c, NEW d, NEW call, Extends(c, d, call),
         d = [scope |-> d.scope, ledger |-> d.ledger, baggage |-> d.baggage, span |-> d.span, calls |-> d.calls],
         d.scope \in [Fields -> Nat],
         d.ledger \in [Fields -> [value : Nat, local : BOOLEAN, type : {"string", "int"}]],
         call.name = "WithScope" => call.type = "string",
         \A f \in Fields : ScopeIs(d, f) /\ LedgerIs(d, f),
         SpanIs(base, d)
  PROVE  ContextIs(base, d)
<1>1. /\ c.calls \in Seq(CallSet) /\ call \in CallSet /\ d.calls = Append(c.calls, call)
      /\ \A k \in DOMAIN c.calls : c.calls[k].name = "WithScope" => c.calls[k].type = "string"
  BY DEF ContextIs, Extends
<1>2. /\ d.calls \in Seq(CallSet)
      /\ \A k \in DOMAIN d.calls : d.calls[k].name = "WithScope" => d.calls[k].type = "string"
  BY <1>1
<1> QED
  BY <1>2 DEF ContextIs

LEMMA ScopeWritten ==
  ASSUME ScopeInv, NEW c, ContextIs(base, c), WithScope(c)
  PROVE  ScopeInv'
<1>1. PICK fields \in SUBSET Fields \ {{}} :
        Derive([c EXCEPT !.scope = MergeScope(Written(fields), @)],
               [name |-> "WithScope", fields |-> fields, value |-> Now, type |-> "string"])
  BY DEF WithScope
<1>0. PICK call : call = [name |-> "WithScope", fields |-> fields, value |-> Now, type |-> "string"]
  OBVIOUS
<1>2. PICK x : x = [c EXCEPT !.scope = MergeScope(Written(fields), @)]
  OBVIOUS
<1>3. PICK d : d = [x EXCEPT !.calls = Append(@, call)]
  OBVIOUS
<1>4. /\ c = [scope |-> c.scope, ledger |-> c.ledger, baggage |-> c.baggage, span |-> c.span, calls |-> c.calls]
      /\ c.scope \in [Fields -> Nat]
      /\ c.ledger \in [Fields -> [value : Nat, local : BOOLEAN, type : {"string", "int"}]]
      /\ SpanIs(base, c)
  BY DEF ContextIs
<1>5. /\ d = [scope |-> d.scope, ledger |-> d.ledger, baggage |-> d.baggage, span |-> d.span, calls |-> d.calls]
      /\ d.scope = MergeScope(Written(fields), c.scope) /\ d.ledger = c.ledger
      /\ d.span = c.span /\ d.calls = Append(c.calls, call)
  BY <1>2, <1>3, <1>4
<1>6. Now \in Nat \ {0} /\ call \in CallSet /\ MayDerive
  BY <1>0, MaxContextsAssumption DEF ScopeInv, CallSet, WithScope
<1>7. /\ Extends(c, d, call) /\ call.name = "WithScope" /\ call.fields = fields /\ call.value = Now
      /\ call.type = "string"
  BY <1>0, <1>5, <1>6 DEF Extends
<1>8. /\ d.scope \in [Fields -> Nat]
      /\ \A f \in Fields : d.scope[f] = IF f \in fields THEN Now ELSE c.scope[f]
  BY <1>4, <1>5, <1>6 DEF MergeScope, Written, Unset
<1>9. ASSUME NEW f \in Fields
      PROVE  ScopeIs(d, f)
  <2>1. CASE f \in fields
    BY <1>7, <1>8, <2>1, ScopeSaid
  <2>2. CASE f \notin fields
    BY <1>7, <1>8, <2>2, ScopeKept
  <2> QED
    BY <2>1, <2>2
<1>12. ASSUME NEW f \in Fields
       PROVE  LedgerIs(d, f)
  BY <1>5, <1>7, LedgerKept
<1>10. SpanIs(base, d)
  BY <1>4, <1>5 DEF SpanIs
<1>11. ContextIs(base, d)
  BY <1>4, <1>5, <1>7, <1>8, <1>9, <1>10, <1>12, ContextDerived
<1> QED
  BY <1>0, <1>1, <1>2, <1>3, <1>6, <1>11, Deriving

LEMMA LedgerWritten ==
  ASSUME ScopeInv, NEW c, ContextIs(base, c), Put(c)
  PROVE  ScopeInv'
<1>1. PICK g \in Fields, local \in BOOLEAN, type \in {"string", "int"} :
        LET call == [name |-> IF local THEN "Enrich" ELSE "Extract", fields |-> {g}, value |-> Now, type |-> type]
        IN Derive([c EXCEPT !.ledger[g] =
                     IF local \/ ~@.local THEN [value |-> Now, local |-> local, type |-> type] ELSE @], call)
  BY DEF Put
<1>2. PICK call : call = [name |-> IF local THEN "Enrich" ELSE "Extract", fields |-> {g}, value |-> Now, type |-> type]
  OBVIOUS
<1>3. PICK x : x = [c EXCEPT !.ledger[g] =
                      IF local \/ ~@.local THEN [value |-> Now, local |-> local, type |-> type] ELSE @]
  OBVIOUS
<1>4. PICK d : d = [x EXCEPT !.calls = Append(@, call)]
  OBVIOUS
<1>5. /\ c = [scope |-> c.scope, ledger |-> c.ledger, baggage |-> c.baggage, span |-> c.span, calls |-> c.calls]
      /\ c.scope \in [Fields -> Nat]
      /\ c.ledger \in [Fields -> [value : Nat, local : BOOLEAN, type : {"string", "int"}]]
      /\ SpanIs(base, c)
  BY DEF ContextIs
<1>6. Now \in Nat \ {0} /\ call \in CallSet /\ MayDerive
  BY <1>2, MaxContextsAssumption DEF ScopeInv, CallSet, Put
<1>7. /\ d = [scope |-> d.scope, ledger |-> d.ledger, baggage |-> d.baggage, span |-> d.span, calls |-> d.calls]
      /\ d.scope = c.scope /\ d.span = c.span /\ d.calls = Append(c.calls, call)
      /\ d.ledger = [c.ledger EXCEPT ![g] = IF local \/ ~c.ledger[g].local
                                            THEN [value |-> Now, local |-> local, type |-> type] ELSE c.ledger[g]]
  BY <1>3, <1>4, <1>5
<1>8. /\ Extends(c, d, call) /\ call.name = (IF local THEN "Enrich" ELSE "Extract") /\ call.fields = {g}
      /\ call.value = Now /\ call.type = type
  BY <1>2, <1>6, <1>7 DEF Extends
<1>9. d.ledger \in [Fields -> [value : Nat, local : BOOLEAN, type : {"string", "int"}]]
  BY <1>5, <1>6, <1>7
<1>10. /\ \A f \in Fields \ {g} : d.ledger[f] = c.ledger[f]
       /\ d.ledger[g] = IF local \/ ~c.ledger[g].local
                        THEN [value |-> Now, local |-> local, type |-> type] ELSE c.ledger[g]
  BY <1>5, <1>7
<1>11. ASSUME NEW f \in Fields
       PROVE  LedgerIs(d, f)
  <2>1. CASE f = g
    <3>1. call.name = "Enrich" <=> local
      BY <1>8
    <3>2. IF call.name = "Enrich" \/ ~c.ledger[g].local
          THEN /\ d.ledger[g].value = call.value /\ d.ledger[g].type = call.type
               /\ d.ledger[g].local <=> call.name = "Enrich"
          ELSE d.ledger[g] = c.ledger[g]
      BY <1>8, <1>10, <3>1
    <3> QED
      BY <1>8, <2>1, <3>2, LedgerSaid
  <2>2. CASE f # g
    BY <1>8, <1>10, <2>2, LedgerKept
  <2> QED
    BY <2>1, <2>2
<1>12. ASSUME NEW f \in Fields
       PROVE  ScopeIs(d, f)
  BY <1>7, <1>8, ScopeKept
<1>13. SpanIs(base, d)
  BY <1>5, <1>7 DEF SpanIs
<1>14. ContextIs(base, d)
  BY <1>5, <1>7, <1>8, <1>9, <1>11, <1>12, <1>13, ContextDerived
<1> QED
  BY <1>1, <1>2, <1>3, <1>4, <1>6, <1>14, Deriving

\* Baggage and spans are of no consequence for a scope.
LEMMA NothingSaid ==
  ASSUME ScopeInv, MayDerive, NEW c, ContextIs(base, c), NEW x, NEW call \in CallSet, Derive(x, call),
         x = [scope |-> c.scope, ledger |-> c.ledger, baggage |-> x.baggage, span |-> x.span, calls |-> c.calls],
         call.name \in {"SetBaggage", "StartSpan"}, SpanIs(base, x)
  PROVE  ScopeInv'
<1>1. PICK d : d = [x EXCEPT !.calls = Append(@, call)]
  OBVIOUS
<1>2. /\ d = [scope |-> d.scope, ledger |-> d.ledger, baggage |-> d.baggage, span |-> d.span, calls |-> d.calls]
      /\ d.scope = c.scope /\ d.ledger = c.ledger /\ d.span = x.span /\ d.calls = Append(c.calls, call)
  BY <1>1
<1>3. Extends(c, d, call)
  BY <1>2 DEF Extends
<1>4. ASSUME NEW f \in Fields PROVE ScopeIs(d, f) /\ LedgerIs(d, f)
  BY <1>2, <1>3, ScopeKept, LedgerKept
<1>5. SpanIs(base, d)
  BY <1>2 DEF SpanIs
<1>6. ContextIs(base, d)
  BY <1>2, <1>3, <1>4, <1>5, ContextDerived DEF ContextIs
<1> QED
  BY <1>1, <1>6, Deriving

LEMMA ScopeStep == ScopeInv /\ [ScopeNext]_scopeVars => ScopeInv'
<1> SUFFICES ASSUME ScopeInv, [ScopeNext]_scopeVars PROVE ScopeInv'
  OBVIOUS
<1>1. ASSUME NEW i \in DOMAIN contexts, WithScope(contexts[i]) PROVE ScopeInv'
  BY <1>1, ScopeWritten DEF ScopeInv
<1>2. ASSUME NEW i \in DOMAIN contexts, Put(contexts[i]) PROVE ScopeInv'
  BY <1>2, LedgerWritten DEF ScopeInv
<1>3. ASSUME NEW i \in DOMAIN contexts, SetBaggage(contexts[i]) PROVE ScopeInv'
  <2>1. PICK c : c = contexts[i]
    OBVIOUS
  <2>2. PICK x : x = [c EXCEPT !.baggage = Written(Fields)]
    OBVIOUS
  <2>3. PICK call : call = [name |-> "SetBaggage", fields |-> Fields, value |-> Now, type |-> "string"]
    OBVIOUS
  <2>4. ContextIs(base, c) /\ Derive(x, call) /\ MayDerive
    BY <1>3, <2>1, <2>2, <2>3 DEF ScopeInv, SetBaggage
  <2>5. /\ x = [scope |-> c.scope, ledger |-> c.ledger, baggage |-> x.baggage, span |-> x.span, calls |-> c.calls]
        /\ x.span = c.span
    BY <2>2, <2>4 DEF ContextIs
  <2>6. SpanIs(base, x)
    BY <2>4, <2>5 DEF ContextIs, SpanIs
  <2>7. call \in CallSet /\ call.name = "SetBaggage"
    BY <2>3, MaxContextsAssumption DEF CallSet, ScopeInv
  <2> QED
    BY <2>4, <2>5, <2>6, <2>7, NothingSaid
<1>4. ASSUME NEW i \in DOMAIN contexts, StartSpan(contexts[i]) PROVE ScopeInv'
  <2>1. PICK c : c = contexts[i]
    OBVIOUS
  <2>2. PICK hints \in Hints, detached \in BOOLEAN :
          LET parent == IF detached THEN <<>> ELSE c.span
          IN Derive([c EXCEPT !.span = <<[sampled |-> ShouldSample(parent, hints), keep |-> LastHint(hints),
                                          parent |-> parent]>>],
                    [name |-> "StartSpan", fields |-> {}, value |-> Now, type |-> "string"])
    BY <1>4, <2>1 DEF StartSpan
  <2>3. PICK parent : parent = IF detached THEN <<>> ELSE c.span
    OBVIOUS
  <2>4. PICK s : s = [sampled |-> ShouldSample(parent, hints), keep |-> LastHint(hints), parent |-> parent]
    OBVIOUS
  <2>5. PICK x : x = [c EXCEPT !.span = <<s>>]
    OBVIOUS
  <2>6. PICK call : call = [name |-> "StartSpan", fields |-> {}, value |-> Now, type |-> "string"]
    OBVIOUS
  <2>7. ContextIs(base, c) /\ Derive(x, call) /\ MayDerive
    BY <1>4, <2>1, <2>2, <2>3, <2>4, <2>5, <2>6 DEF ScopeInv, StartSpan
  <2>8. /\ x = [scope |-> c.scope, ledger |-> c.ledger, baggage |-> x.baggage, span |-> x.span, calls |-> c.calls]
        /\ x.span = <<s>> /\ x.span[1] = s
    BY <2>5, <2>7 DEF ContextIs
  <2>9. SpanIs(base, x)
    <3>1. parent # <<>> => parent[1].sampled \in BOOLEAN
      BY <2>3, <2>7 DEF ContextIs, SpanIs
    <3>2. /\ s.keep = LastHint(hints) /\ s.parent = parent /\ s.sampled = ShouldSample(parent, hints)
      BY <2>4
    <3>3. /\ ShouldSample(parent, hints) \in BOOLEAN
          /\ LastHint(hints) = "true" => ShouldSample(parent, hints)
          /\ LastHint(hints) # "true" =>
               ShouldSample(parent, hints) = IF parent = <<>> THEN base = "always" ELSE parent[1].sampled
      BY <3>1 DEF ShouldSample, KeepHint
    <3> QED
      BY <2>8, <3>2, <3>3 DEF SpanIs
  <2>10. call \in CallSet /\ call.name = "StartSpan"
    BY <2>6, MaxContextsAssumption DEF CallSet, ScopeInv
  <2> QED
    BY <2>7, <2>8, <2>9, <2>10, NothingSaid
<1>5. CASE UNCHANGED scopeVars
  BY <1>5 DEF scopeVars, ScopeInv, Now
<1> QED
  BY <1>1, <1>2, <1>3, <1>4, <1>5 DEF ScopeNext

-----------------------------------------------------------------------------
\* The greatest and the smallest of a set, by their definitions.
LEMMA Extremes ==
  ASSUME NEW S \in SUBSET Nat, NEW k \in S
  PROVE  /\ (\A l \in S : l <= k) => Max(S) = k
         /\ (\A l \in S : k <= l) => Min(S) = k
<1>1. ASSUME \A l \in S : l <= k PROVE Max(S) = k
  <2>1. Max(S) \in S /\ \A l \in S : Max(S) >= l
    BY <1>1 DEF Max
  <2>2. Max(S) \in Nat /\ k \in Nat /\ Max(S) <= k /\ k <= Max(S)
    BY <1>1, <2>1
  <2> QED
    BY <2>2
<1>2. ASSUME \A l \in S : k <= l PROVE Min(S) = k
  <2>1. Min(S) \in S /\ \A l \in S : Min(S) <= l
    BY <1>2 DEF Min
  <2>2. Min(S) \in Nat /\ k \in Nat /\ Min(S) <= k /\ k <= Min(S)
    BY <1>2, <2>1
  <2> QED
    BY <2>2
<1> QED
  BY <1>1, <1>2

\* The decisive call is the last one of its name, where no stronger one is.
LEMMA Deciding ==
  ASSUME NEW c, c.calls \in Seq(CallSet), NEW f \in Fields
  PROVE  /\ \A k : LastSaid(c, "WithScope", f, k) => Decisive(c, f) = {c.calls[k]}
         /\ \A k : Calls(c, "WithScope", f) = {} /\ LastSaid(c, "Enrich", f, k) => Decisive(c, f) = {c.calls[k]}
         /\ \A k : /\ Calls(c, "WithScope", f) = {} /\ Calls(c, "Enrich", f) = {}
                   /\ LastSaid(c, "Extract", f, k)
                   => Decisive(c, f) = {c.calls[k]}
         /\ /\ Calls(c, "WithScope", f) = {} /\ Calls(c, "Enrich", f) = {} /\ Calls(c, "Extract", f) = {}
            => Decisive(c, f) = {}
<1>1. PICK kinds : kinds = {k \in DOMAIN Strength : Calls(c, Strength[k], f) # {}}
  OBVIOUS
<1>2. /\ DOMAIN Strength = {1, 2, 3}
      /\ Strength[1] = "WithScope" /\ Strength[2] = "Enrich" /\ Strength[3] = "Extract"
  BY DEF Strength
<1>3. kinds \in SUBSET Nat
  BY <1>1, <1>2
<1>4. ASSUME NEW name PROVE Calls(c, name, f) \in SUBSET Nat
  BY DEF Calls
<1>5. ASSUME NEW n \in kinds, \A m \in kinds : n <= m, NEW k, LastSaid(c, Strength[n], f, k)
      PROVE  Decisive(c, f) = {c.calls[k]}
  <2>1. Min(kinds) = n
    BY <1>3, <1>5, Extremes
  <2>2. Max(Calls(c, Strength[n], f)) = k
    BY <1>4, <1>5, Extremes DEF LastSaid
  <2> QED
    BY <1>1, <1>5, <2>1, <2>2 DEF Decisive
<1>6. ASSUME NEW k, LastSaid(c, "WithScope", f, k) PROVE Decisive(c, f) = {c.calls[k]}
  <2>1. 1 \in kinds /\ \A m \in kinds : 1 <= m
    BY <1>1, <1>2, <1>6 DEF LastSaid
  <2> QED
    BY <1>2, <1>5, <1>6, <2>1
<1>7. ASSUME NEW k, Calls(c, "WithScope", f) = {}, LastSaid(c, "Enrich", f, k) PROVE Decisive(c, f) = {c.calls[k]}
  <2>1. 2 \in kinds /\ \A m \in kinds : 2 <= m
    BY <1>1, <1>2, <1>7 DEF LastSaid
  <2> QED
    BY <1>2, <1>5, <1>7, <2>1
<1>8. ASSUME NEW k, Calls(c, "WithScope", f) = {}, Calls(c, "Enrich", f) = {}, LastSaid(c, "Extract", f, k)
      PROVE  Decisive(c, f) = {c.calls[k]}
  <2>1. 3 \in kinds /\ \A m \in kinds : 3 <= m
    BY <1>1, <1>2, <1>8 DEF LastSaid
  <2> QED
    BY <1>2, <1>5, <1>8, <2>1
<1>9. ASSUME Calls(c, "WithScope", f) = {}, Calls(c, "Enrich", f) = {}, Calls(c, "Extract", f) = {}
      PROVE  Decisive(c, f) = {}
  <2>1. kinds = {}
    BY <1>1, <1>2, <1>9
  <2> QED
    BY <1>1, <2>1 DEF Decisive
<1> QED
  BY <1>6, <1>7, <1>8, <1>9

\* The last call that said a field is the innermost one, which is what InnermostDecides asks for.
LEMMA FieldsDecided ==
  ASSUME NEW c, ContextIs(base, c), NEW f \in Fields
  PROVE  LET said == {call.value : call \in {d \in Decisive(c, f) : d.type = "string"}}
         IN /\ said # {} => said = {ScopeFromContext(c)[f]} /\ ScopeFromContext(c)[f] # Unset
            /\ said = {} => ScopeFromContext(c)[f] = Unset
<1>1. /\ c.calls \in Seq(CallSet) /\ ScopeIs(c, f) /\ LedgerIs(c, f) /\ c.scope[f] \in Nat
      /\ \A k \in DOMAIN c.calls : c.calls[k].name = "WithScope" => c.calls[k].type = "string"
  BY DEF ContextIs
<1>2. ScopeFromContext(c)[f] = IF c.scope[f] # Unset THEN c.scope[f]
                               ELSE IF c.ledger[f].type = "string" THEN c.ledger[f].value ELSE Unset
  BY DEF ScopeFromContext, MergeScope
<1>3. ASSUME NEW name, NEW k, LastSaid(c, name, f, k)
      PROVE  /\ c.calls[k].value # Unset /\ c.calls[k].type \in {"string", "int"}
             /\ name = "WithScope" => c.calls[k].type = "string"
  <2>1. k \in DOMAIN c.calls /\ c.calls[k].name = name
    BY <1>3 DEF LastSaid, Calls
  <2>2. c.calls[k] \in CallSet
    BY <1>1, <2>1
  <2> QED
    BY <1>1, <2>1, <2>2 DEF CallSet, Unset
<1>4. PICK said : said = {call.value : call \in {d \in Decisive(c, f) : d.type = "string"}}
  OBVIOUS
<1>5. ASSUME NEW e, Decisive(c, f) = {e} PROVE said = IF e.type = "string" THEN {e.value} ELSE {}
  BY <1>4, <1>5
<1>6. ASSUME Decisive(c, f) = {} PROVE said = {}
  BY <1>4, <1>6
<1>7. CASE \E k : LastSaid(c, "WithScope", f, k) /\ c.scope[f] = c.calls[k].value
  <2>1. PICK k : LastSaid(c, "WithScope", f, k) /\ c.scope[f] = c.calls[k].value
    BY <1>7
  <2>2. said = {c.calls[k].value}
    BY <1>1, <1>3, <1>5, <2>1, Deciding
  <2> QED
    BY <1>2, <1>3, <1>4, <2>1, <2>2
<1>8. CASE Calls(c, "WithScope", f) = {} /\ c.scope[f] = Unset
  <2>1. CASE c.ledger[f].local /\ \E k : LastSaid(c, "Enrich", f, k) /\ Entered(c, f, k)
    <3>1. PICK k : LastSaid(c, "Enrich", f, k) /\ Entered(c, f, k)
      BY <2>1
    <3>2. Decisive(c, f) = {c.calls[k]}
      BY <1>1, <1>8, <3>1, Deciding
    <3>3. said = IF c.calls[k].type = "string" THEN {c.calls[k].value} ELSE {}
      BY <1>5, <3>2
    <3> QED
      BY <1>2, <1>3, <1>4, <1>8, <3>1, <3>3 DEF Entered
  <2>2. CASE Calls(c, "Enrich", f) = {} /\ \E k : LastSaid(c, "Extract", f, k) /\ Entered(c, f, k)
    <3>1. PICK k : LastSaid(c, "Extract", f, k) /\ Entered(c, f, k)
      BY <2>2
    <3>2. Decisive(c, f) = {c.calls[k]}
      BY <1>1, <1>8, <2>2, <3>1, Deciding
    <3>3. said = IF c.calls[k].type = "string" THEN {c.calls[k].value} ELSE {}
      BY <1>5, <3>2
    <3> QED
      BY <1>2, <1>3, <1>4, <1>8, <3>1, <3>3 DEF Entered
  <2>3. CASE Calls(c, "Enrich", f) = {} /\ Calls(c, "Extract", f) = {} /\ c.ledger[f].value = Unset
    <3>1. said = {}
      BY <1>1, <1>6, <1>8, <2>3, Deciding
    <3> QED
      BY <1>2, <1>4, <1>8, <2>3, <3>1
  <2> QED
    BY <1>1, <2>1, <2>2, <2>3 DEF LedgerIs
<1> QED
  BY <1>1, <1>7, <1>8 DEF ScopeIs

LEMMA ScopeInvImplies == ScopeInv => ContextDecides
<1> SUFFICES ASSUME ScopeInv PROVE ContextDecides
  OBVIOUS
<1>1. InnermostDecides
  <2> SUFFICES ASSUME NEW i \in DOMAIN contexts, NEW explicit \in SUBSET Fields, NEW f \in Fields
               PROVE  LET c == contexts[i]
                          meta == [g \in Fields |-> IF g \in explicit THEN MaxContexts + 2 ELSE Unset]
                          said == {call.value : call \in {d \in Decisive(c, f) : d.type = "string"}}
                      IN {Emitted(c, meta)[f]} = CASE f \in explicit -> {meta[f]}
                                                   [] f \notin explicit /\ said # {} -> said
                                                   [] OTHER -> {Unset}
    BY DEF InnermostDecides
  <2>1. PICK c : c = contexts[i]
    OBVIOUS
  <2>2. PICK meta : meta = [g \in Fields |-> IF g \in explicit THEN MaxContexts + 2 ELSE Unset]
    OBVIOUS
  <2>3. ContextIs(base, c)
    BY <2>1 DEF ScopeInv
  <2>4. Emitted(c, meta)[f] = IF meta[f] # Unset THEN meta[f] ELSE ScopeFromContext(c)[f]
    BY DEF Emitted, MergeScope
  <2>5. IF f \in explicit THEN meta[f] # Unset ELSE meta[f] = Unset
    BY <2>2, MaxContextsAssumption DEF Unset
  <2>6. PICK said : said = {call.value : call \in {d \in Decisive(c, f) : d.type = "string"}}
    OBVIOUS
  <2>7. /\ said # {} => said = {ScopeFromContext(c)[f]}
        /\ said = {} => ScopeFromContext(c)[f] = Unset
    BY <2>3, <2>6, FieldsDecided
  <2>8. {Emitted(c, meta)[f]} = CASE f \in explicit -> {meta[f]}
                                  [] f \notin explicit /\ said # {} -> said
                                  [] OTHER -> {Unset}
    BY <2>4, <2>5, <2>7
  <2> QED
    BY <2>1, <2>2, <2>6, <2>8
<1>2. TracesAreWhole
  BY DEF ScopeInv, ContextIs, SpanIs, TracesAreWhole
<1> QED
  BY <1>1, <1>2 DEF ScopeInv, ContextDecides

\* For contexts derived by any calls in any order: a field of the scope is decided by the innermost
\* call that said it, and a trace is sampled as a whole but for hinted spans (ScopedSampling).
THEOREM ScopesDecide == ScopeSpec => []ContextDecides
<1> QED
  BY MaxContextsAssumption, ScopeInitially, ScopeStep, ScopeInvImplies, PTL DEF ScopeSpec

-----------------------------------------------------------------------------
(* TrackerSetup: any options in any order, any number of constructions.    *)
(* The invariant gives every setting the option it comes from, of those    *)
(* applied.                                                                *)

Settings == [policy : Policies, records : BOOLEAN, limits : BOOLEAN, declares : Policies,
             allowRaw : BOOLEAN, cell : Cells]

OptionSet == PlainOptions \cup [kind : {"profile"}, declares : Policies, allowRaw : BOOLEAN,
                                cell : Cells, asked : Values]

\* The k-th option is the last one of its kinds among the first n.
IsLast(kinds, n, k) ==
  /\ k \in 1..n /\ options[k].kind \in kinds
  /\ \A j \in 1..n : options[j].kind \in kinds => j <= k

CellIs(c, n) ==
  \/ c.cell = Default /\ \A i \in 1..n : options[i].kind # "profile"
  \/ \E k : IsLast({"profile"}, n, k) /\ c.cell = Captured(k)

RawIs(c, n) ==
  \/ ~c.allowRaw /\ \A i \in 1..n : options[i].kind \notin {"profile", "raw_payloads"}
  \/ \E k : /\ IsLast({"profile", "raw_payloads"}, n, k)
            /\ c.allowRaw <=> options[k].kind = "raw_payloads" \/ options[k].allowRaw

\* What the first options make of the default configuration: F[n] after n of them.
Folded(F, m) ==
  /\ m \in 0..Len(options) /\ F \in [0..m -> Settings] /\ F[0] = defaultRecorderConfig
  /\ \A n \in 0..m : n < m => F[n + 1] = Applied(F[n], options[n + 1])
  /\ \A n \in 0..m : CellIs(F[n], n) /\ RawIs(F[n], n)

Building(b) == stage[b] \in {"idle", "applying"}

\* Every construction is, or has been, at one of these configurations.
Built(F, m, b) ==
  /\ applied[b] \in 0..m
  /\ Building(b) => config[b] = F[applied[b]]
  /\ ~Building(b) => /\ applied[b] = Len(options)
                     /\ config[b] = [F[applied[b]] EXCEPT !.cell = Owned(b)]
                     /\ heap[Owned(b)] = heap[F[applied[b]].cell]
  /\ Ready(b) \/ stage[b] \in {"registering", "failed"} => ValidConfig(config[b])
  /\ stage[b] = "refused" => ~ValidConfig(config[b])

\* An option holds what it was made of.
Remembered ==
  /\ heap[Default] = "default"
  /\ \A i \in 1..Len(options) :
       options[i].kind = "profile" => options[i].cell = Captured(i) /\ heap[Captured(i)] = options[i].asked

SetupInv ==
  /\ SetupTypeOK /\ options \in Seq(OptionSet) /\ config = [b \in Builds |-> config[b]] /\ Remembered
  /\ \E m, F : Folded(F, m) /\ \A b \in Builds : Built(F, m, b)

-----------------------------------------------------------------------------
LEMMA CellsDiffer ==
  ASSUME NEW i, NEW b
  PROVE  /\ Default \notin {Caller, Captured(i), Owned(b), Returned(b)}
         /\ Caller \notin {Captured(i), Owned(b), Returned(b)}
         /\ \A j : (Captured(i) = Captured(j)) => i = j
         /\ \A c : Captured(i) \notin {Owned(c), Returned(c)}
         /\ \A c : Owned(b) # Returned(c)
         /\ \A c : (Owned(b) = Owned(c)) => b = c
BY DEF Default, Caller, Captured, Owned, Returned

LEMMA CellsAre ==
  /\ Default \in Cells /\ Caller \in Cells
  /\ \A i \in 1..MaxOptions : Captured(i) \in Cells
  /\ \A b \in Builds : Owned(b) \in Cells /\ Returned(b) \in Cells
BY DEF Cells

LEMMA OptionsAre ==
  ASSUME NEW o \in OptionSet
  PROVE  /\ o.kind \in {"profile", "policy", "raw_payloads", "limit"}
         /\ o.kind = "profile" => o.declares \in Policies /\ o.allowRaw \in BOOLEAN /\ o.cell \in Cells
         /\ o.kind = "policy" => o.policy \in Policies \cup {"none"}
         /\ o.kind = "limit" => o.valid \in BOOLEAN
BY DEF OptionSet, PlainOptions

LEMMA AppliedIs ==
  ASSUME NEW c \in Settings, NEW o \in OptionSet
  PROVE  /\ Applied(c, o) \in Settings
         /\ Applied(c, o).cell = IF o.kind = "profile" THEN o.cell ELSE c.cell
         /\ o.kind = "profile" => Applied(c, o).allowRaw = o.allowRaw
         /\ o.kind = "raw_payloads" => Applied(c, o).allowRaw
         /\ o.kind \notin {"profile", "raw_payloads"} => Applied(c, o).allowRaw = c.allowRaw
<1>1. CASE o.kind = "profile"
  <2>1. Applied(c, o) = [c EXCEPT !.declares = o.declares, !.allowRaw = o.allowRaw, !.cell = o.cell]
    BY <1>1 DEF Applied
  <2> QED
    BY <1>1, <2>1, OptionsAre DEF Settings
<1>2. CASE o.kind = "policy" /\ o.policy = "none"
  <2>1. Applied(c, o) = c
    BY <1>2 DEF Applied, BuiltIn
  <2> QED
    BY <1>2, <2>1
<1>3. CASE o.kind = "policy" /\ o.policy = "host"
  <2>1. Applied(c, o) = [c EXCEPT !.policy = "host", !.records = TRUE]
    BY <1>3 DEF Applied, BuiltIn
  <2> QED
    BY <1>3, <2>1 DEF Settings, Policies
<1>4. CASE o.kind = "policy" /\ o.policy \in BuiltIn
  <2>1. Applied(c, o) = [c EXCEPT !.policy = o.policy, !.records = TRUE, !.declares = o.policy]
    BY <1>4 DEF Applied, BuiltIn
  <2> QED
    BY <1>4, <2>1 DEF Settings, Policies
<1>5. CASE o.kind = "raw_payloads"
  <2>1. Applied(c, o) = [c EXCEPT !.policy = "raw", !.records = TRUE, !.declares = "raw", !.allowRaw = TRUE]
    BY <1>5 DEF Applied
  <2> QED
    BY <1>5, <2>1 DEF Settings, Policies, BuiltIn
<1>6. CASE o.kind = "limit"
  <2>1. Applied(c, o) = [c EXCEPT !.limits = o.valid]
    BY <1>6 DEF Applied
  <2> QED
    BY <1>6, <2>1, OptionsAre DEF Settings
<1> QED
  BY <1>1, <1>2, <1>3, <1>4, <1>5, <1>6, OptionsAre DEF Policies

LEMMA SetupInitially == SetupInit => SetupInv
<1> SUFFICES ASSUME SetupInit PROVE SetupInv
  OBVIOUS
<1>1. PICK p \in Profiles : /\ mine = [declares |-> p.declares, allowRaw |-> p.allowRaw]
                            /\ heap = [c \in Cells |-> IF c = Caller THEN p.values ELSE "default"]
  BY DEF SetupInit
<1>2. mine \in [declares : Policies, allowRaw : BOOLEAN]
  BY <1>1, ProfilesAssumption
<1>3. heap \in [Cells -> Values] /\ heap[Default] = "default"
  BY <1>1, CellsAre, CellsDiffer DEF Values
<1>4. options = <<>> /\ Len(options) = 0 /\ options \in Seq(OptionSet)
  BY DEF SetupInit
<1>5. SetupTypeOK
  BY <1>2, <1>3, <1>4, SetupAssumption DEF SetupInit, SetupTypeOK, Nothing
<1>6. defaultRecorderConfig \in Settings /\ defaultRecorderConfig.cell = Default /\ ~defaultRecorderConfig.allowRaw
  BY CellsAre DEF defaultRecorderConfig, Settings, Policies, BuiltIn
<1>7. PICK F : F = [n \in {0} |-> defaultRecorderConfig]
  OBVIOUS
<1>8. Folded(F, 0)
  BY <1>4, <1>6, <1>7 DEF Folded, CellIs, RawIs
<1>9. ASSUME NEW b \in Builds PROVE Built(F, 0, b)
  BY <1>7 DEF SetupInit, Built, Building, Ready
<1>10. config = [b \in Builds |-> config[b]]
  BY DEF SetupInit
<1>11. Remembered
  BY <1>3, <1>4 DEF Remembered
<1> QED
  BY <1>4, <1>5, <1>8, <1>9, <1>10, <1>11 DEF SetupInv

-----------------------------------------------------------------------------
\* A longer list of options says the same of those it had.
LEMMA OptionGiven ==
  ASSUME SetupInv, Fresh, NEW o, o \in OptionSet, options' = Append(options, o),
         UNCHANGED <<mine, config, applied, stage, registered, copy>>,
         heap' \in [Cells -> Values], \A b \in Builds : heap'[Owned(b)] = heap[Owned(b)],
         Remembered'
  PROVE  SetupInv'
<1>1. /\ options' \in Seq(OptionSet) /\ Len(options') = Len(options) + 1 /\ Len(options) \in Nat
      /\ \A i \in 1..Len(options) : options'[i] = options[i]
  BY DEF SetupInv
<1>2. SetupTypeOK'
  <2>1. applied' \in [Builds -> 0..Len(options')] /\ Len(options') <= MaxOptions
    BY <1>1, SetupAssumption DEF SetupInv, SetupTypeOK, Fresh
  <2> QED
    BY <2>1, SetupAssumption DEF SetupInv, SetupTypeOK
<1>3. PICK m, F : Folded(F, m) /\ \A b \in Builds : Built(F, m, b)
  BY DEF SetupInv
<1>4. ASSUME NEW n \in 0..m, NEW c
      PROVE  CellIs(c, n)' = CellIs(c, n) /\ RawIs(c, n)' = RawIs(c, n)
  <2>1. n <= Len(options) /\ \A i \in 1..n : options'[i] = options[i]
    BY <1>1, <1>3 DEF Folded
  <2>2. \A kinds, k : IsLast(kinds, n, k)' <=> IsLast(kinds, n, k)
    BY <2>1 DEF IsLast
  <2>3. \A k : IsLast({"profile", "raw_payloads"}, n, k) => k \in 1..n
    BY DEF IsLast
  <2> QED
    BY <2>1, <2>2, <2>3 DEF CellIs, RawIs
<1>5. Folded(F, m)'
  BY <1>1, <1>3, <1>4 DEF Folded
<1>6. ASSUME NEW b \in Builds PROVE Built(F, m, b)'
  <2>1. stage[b] = "idle" /\ stage'[b] = "idle"
    BY DEF Fresh
  <2> QED
    BY <1>3, <2>1 DEF Built, Building, Ready
<1> QED
  BY <1>1, <1>2, <1>5, <1>6 DEF SetupInv

\* What is written to other cells than those that options and constructions hold is
\* of no consequence.
LEMMA ElsewhereWritten ==
  ASSUME SetupInv, UNCHANGED <<options, config, applied, stage, registered>>,
         mine' \in [declares : Policies, allowRaw : BOOLEAN],
         NEW cell, NEW v \in Values, heap' = [heap EXCEPT ![cell] = v],
         cell = Caller \/ \E b \in Builds : cell = Returned(b),
         \A b \in Builds : copy'[b] \in {Nothing, [cell |-> Returned(b)]}
  PROVE  SetupInv'
<1>1. /\ heap' \in [Cells -> Values] /\ heap'[Default] = heap[Default]
      /\ \A i \in 1..MaxOptions : heap'[Captured(i)] = heap[Captured(i)]
      /\ \A b \in Builds : heap'[Owned(b)] = heap[Owned(b)]
  <2>1. heap \in [Cells -> Values]
    BY DEF SetupInv, SetupTypeOK
  <2>2. heap' \in [Cells -> Values] /\ \A c \in Cells : c # cell => heap'[c] = heap[c]
    BY <2>1
  <2>3. /\ cell # Default /\ \A i \in 1..MaxOptions : cell # Captured(i)
        /\ \A b \in Builds : cell # Owned(b)
    BY CellsDiffer
  <2> QED
    BY <2>2, <2>3, CellsAre
<1>2. SetupTypeOK'
  BY <1>1 DEF SetupInv, SetupTypeOK
<1>3. Len(options) \in Nat /\ Len(options) <= MaxOptions
  BY DEF SetupInv, SetupTypeOK
<1>4. Remembered'
  BY <1>1, <1>3, SetupAssumption DEF SetupInv, Remembered
<1>5. PICK m, F : Folded(F, m) /\ \A b \in Builds : Built(F, m, b)
  BY DEF SetupInv
<1>6. Folded(F, m)'
  BY <1>5 DEF Folded, CellIs, RawIs, IsLast
<1>7. \A n \in 0..m : heap'[F[n].cell] = heap[F[n].cell]
  <2> SUFFICES ASSUME NEW n \in 0..m PROVE heap'[F[n].cell] = heap[F[n].cell]
    OBVIOUS
  <2>1. CellIs(F[n], n) /\ m \in 0..Len(options)
    BY <1>5 DEF Folded
  <2>2. CASE F[n].cell = Default
    BY <1>1, <2>2
  <2>3. ASSUME NEW k \in 1..n, F[n].cell = Captured(k)
        PROVE  heap'[F[n].cell] = heap[F[n].cell]
    <3>1. k \in 1..MaxOptions
      BY <1>3, <2>1, SetupAssumption
    <3> QED
      BY <1>1, <2>3, <3>1
  <2> QED
    BY <2>1, <2>2, <2>3 DEF CellIs, IsLast
<1>8. ASSUME NEW b \in Builds PROVE Built(F, m, b)'
  <2>1. Built(F, m, b)
    BY <1>5
  <2>2. ~Building(b) => config[b].cell = Owned(b)
    BY DEF SetupInv, SetupTypeOK, Building
  <2>3. Ready(b) \/ stage[b] \in {"registering", "failed", "refused"} => ~Building(b)
    BY DEF Ready, Building
  <2>4. ~Building(b) => ValidConfig(config[b])' = ValidConfig(config[b])
    BY <1>1, <2>2 DEF ValidConfig, RawAllowed, Declared
  <2> QED
    BY <1>1, <1>7, <2>1, <2>3, <2>4 DEF Built, Building, Ready
<1> QED
  BY <1>2, <1>4, <1>6, <1>8 DEF SetupInv

\* A construction that has its configuration goes from stage to stage with it.
LEMMA StageReached ==
  ASSUME SetupInv, NEW b \in Builds, ~Building(b), NEW reached, UNCHANGED <<mine, heap, options, config, applied, copy>>,
         reached \in {"registering", "refused", "failed", "contract", "tracker"},
         stage' = [stage EXCEPT ![b] = reached],
         registered' \in [Builds -> 0..Registrations],
         ValidConfig(config[b]) <=> reached # "refused"
  PROVE  SetupInv'
<1>1. SetupTypeOK'
  BY DEF SetupInv, SetupTypeOK, Building
<1>2. Remembered'
  BY DEF SetupInv, Remembered
<1>3. PICK m, F : Folded(F, m) /\ \A a \in Builds : Built(F, m, a)
  BY DEF SetupInv
<1>4. Folded(F, m)'
  BY <1>3 DEF Folded, CellIs, RawIs, IsLast
<1>5. \A c : ValidConfig(c)' = ValidConfig(c)
  BY DEF ValidConfig, RawAllowed, Declared
<1>6. ASSUME NEW a \in Builds PROVE Built(F, m, a)'
  <2>1. stage'[a] = IF a = b THEN reached ELSE stage[a]
    BY DEF SetupInv, SetupTypeOK
  <2>2. Built(F, m, a)
    BY <1>3
  <2>3. CASE a # b
    BY <1>5, <2>1, <2>2, <2>3 DEF Built, Building, Ready
  <2>4. CASE a = b
    BY <1>5, <2>1, <2>2, <2>4 DEF Built, Building, Ready
  <2> QED
    BY <2>3, <2>4
<1> QED
  BY <1>1, <1>2, <1>4, <1>6 DEF SetupInv

\* The configurations known reach as far as the construction that is ahead.
LEMMA NextFolded ==
  ASSUME options \in Seq(OptionSet), Remembered, NEW m, NEW F, Folded(F, m), m < Len(options)
  PROVE  Folded([n \in 0..m + 1 |-> IF n <= m THEN F[n] ELSE Applied(F[m], options[m + 1])], m + 1)
<1>1. PICK G : G = [n \in 0..m + 1 |-> IF n <= m THEN F[n] ELSE Applied(F[m], options[m + 1])]
  OBVIOUS
<1>2. /\ m \in Nat /\ Len(options) \in Nat /\ m + 1 \in 0..Len(options) /\ m + 1 \in 1..Len(options)
      /\ F \in [0..m -> Settings] /\ F[0] = defaultRecorderConfig
  BY DEF Folded
<1>3. PICK o : o = options[m + 1]
  OBVIOUS
<1>4. o \in OptionSet /\ F[m] \in Settings
  BY <1>2, <1>3
<1>5. /\ \A n \in 0..m : G[n] = F[n]
      /\ G[m + 1] = Applied(F[m], o)
  BY <1>1, <1>2, <1>3
<1>6. G \in [0..m + 1 -> Settings]
  <2>1. Applied(F[m], o) \in Settings
    BY <1>4, AppliedIs
  <2>2. \A n \in 0..m + 1 : G[n] \in Settings
    BY <1>2, <1>5, <2>1
  <2> QED
    BY <1>1, <2>2
<1>7. ASSUME NEW n \in 0..m + 1, n < m + 1
      PROVE  G[n + 1] = Applied(G[n], options[n + 1])
  <2>1. n \in 0..m /\ G[n] = F[n]
    BY <1>2, <1>5, <1>7
  <2>2. CASE n = m
    BY <1>3, <1>5, <2>1, <2>2
  <2>3. CASE n < m
    <3>1. n + 1 \in 0..m
      BY <1>2, <2>1, <2>3
    <3>2. F[n + 1] = Applied(F[n], options[n + 1])
      BY <2>1, <2>3 DEF Folded
    <3> QED
      BY <1>5, <2>1, <3>1, <3>2
  <2> QED
    BY <1>2, <2>1, <2>2, <2>3
<1>8. CellIs(F[m], m) /\ RawIs(F[m], m)
  BY <1>2 DEF Folded
<1>9. ASSUME NEW kinds
      PROVE  /\ o.kind \in kinds => IsLast(kinds, m + 1, m + 1)
             /\ o.kind \notin kinds => \A k : IsLast(kinds, m, k) => IsLast(kinds, m + 1, k)
  BY <1>2, <1>3 DEF IsLast
<1>10. CellIs(G[m + 1], m + 1)
  <2>1. CASE o.kind = "profile"
    <3>1. G[m + 1].cell = o.cell
      BY <1>4, <1>5, <2>1, AppliedIs
    <3>2. o.cell = Captured(m + 1)
      BY <1>2, <1>3, <2>1 DEF Remembered
    <3> QED
      BY <1>9, <2>1, <3>1, <3>2 DEF CellIs
  <2>2. CASE o.kind # "profile"
    <3>1. G[m + 1].cell = F[m].cell
      BY <1>4, <1>5, <2>2, AppliedIs
    <3>2. \A k : IsLast({"profile"}, m, k) => IsLast({"profile"}, m + 1, k)
      BY <1>9, <2>2
    <3>3. \A i \in 1..m + 1 : i \in 1..m \/ i = m + 1
      BY <1>2
    <3> QED
      BY <1>3, <1>8, <2>2, <3>1, <3>2, <3>3 DEF CellIs
  <2> QED
    BY <2>1, <2>2
<1>11. RawIs(G[m + 1], m + 1)
  <2>1. CASE o.kind = "profile"
    <3>1. G[m + 1].allowRaw = o.allowRaw
      BY <1>4, <1>5, <2>1, AppliedIs
    <3> QED
      BY <1>3, <1>9, <2>1, <3>1 DEF RawIs
  <2>2. CASE o.kind = "raw_payloads"
    <3>1. G[m + 1].allowRaw
      BY <1>4, <1>5, <2>2, AppliedIs
    <3> QED
      BY <1>3, <1>9, <2>2, <3>1 DEF RawIs
  <2>3. CASE o.kind \notin {"profile", "raw_payloads"}
    <3>1. G[m + 1].allowRaw = F[m].allowRaw
      BY <1>4, <1>5, <2>3, AppliedIs
    <3>2. \A k : IsLast({"profile", "raw_payloads"}, m, k) => IsLast({"profile", "raw_payloads"}, m + 1, k)
      BY <1>9, <2>3
    <3>3. \A i \in 1..m + 1 : i \in 1..m \/ i = m + 1
      BY <1>2
    <3> QED
      BY <1>3, <1>8, <2>3, <3>1, <3>2, <3>3 DEF RawIs
  <2> QED
    BY <2>1, <2>2, <2>3
<1>12. ASSUME NEW n \in 0..m + 1
       PROVE  CellIs(G[n], n) /\ RawIs(G[n], n)
  <2>1. n \in 0..m \/ n = m + 1
    BY <1>2
  <2> QED
    BY <1>5, <1>10, <1>11, <2>1 DEF Folded
<1>13. G[0] = defaultRecorderConfig
  BY <1>2, <1>5
<1> QED
  BY <1>1, <1>2, <1>6, <1>7, <1>12, <1>13 DEF Folded

\* The n-th option changes the configuration the first n - 1 made, and no earlier one.
LEMMA OptionApplied ==
  ASSUME SetupInv, NEW b \in Builds, ApplyOption(b)
  PROVE  SetupInv'
<1>1. PICK m, F : Folded(F, m) /\ \A a \in Builds : Built(F, m, a)
  BY DEF SetupInv
<1>2. /\ applied \in [Builds -> 0..Len(options)] /\ Len(options) \in Nat /\ applied[b] < Len(options)
      /\ applied' = [applied EXCEPT ![b] = @ + 1]
      /\ config' = [config EXCEPT ![b] = Applied(@, options[applied[b] + 1])]
      /\ stage' = [stage EXCEPT ![b] = "applying"] /\ UNCHANGED <<mine, heap, options, registered, copy>>
      /\ Building(b)
  BY DEF SetupInv, SetupTypeOK, ApplyOption, Building
<1>3. SetupTypeOK'
  BY <1>2 DEF SetupInv, SetupTypeOK, Building
<1>4. Remembered'
  BY <1>2 DEF SetupInv, Remembered
\* The configurations known, and perhaps one more.
<1>5. PICK n, G : /\ Folded(G, n) /\ applied[b] < n /\ m <= n /\ \A k \in 0..m : G[k] = F[k]
  <2>1. m \in Nat /\ applied[b] \in 0..m
    <3>1. m \in Nat
      BY <1>1, <1>2 DEF Folded
    <3>2. Built(F, m, b)
      BY <1>1
    <3> QED
      BY <3>1, <3>2 DEF Built
  <2>2. CASE applied[b] < m
    BY <1>1, <2>1, <2>2
  <2>3. CASE applied[b] = m
    <3>1. PICK G : G = [n \in 0..m + 1 |-> IF n <= m THEN F[n] ELSE Applied(F[m], options[m + 1])]
      OBVIOUS
    <3>2. Folded(G, m + 1)
      BY <1>1, <1>2, <2>3, <3>1, NextFolded DEF SetupInv
    <3>3. \A k \in 0..m : G[k] = F[k]
      BY <2>1, <3>1
    <3>4. applied[b] < m + 1 /\ m <= m + 1
      BY <2>1, <2>3
    <3> QED
      BY <3>2, <3>3, <3>4
  <2> QED
    BY <2>1, <2>2, <2>3
<1>6. Folded(G, n)'
  BY <1>2, <1>5 DEF Folded, CellIs, RawIs, IsLast
<1>7. m \in Nat /\ n \in Nat
  BY <1>1, <1>5 DEF Folded
<1>8. \A c : ValidConfig(c)' = ValidConfig(c)
  BY <1>2 DEF ValidConfig, RawAllowed, Declared
<1>9. ASSUME NEW a \in Builds PROVE Built(G, n, a)'
  <2>1. Built(F, m, a) /\ Built(F, m, b)
    BY <1>1
  <2>2. applied[a] \in 0..m /\ applied[b] \in 0..m /\ G[applied[a]] = F[applied[a]] /\ G[applied[b]] = F[applied[b]]
    BY <1>5, <2>1 DEF Built
  <2>3. CASE a = b
    <3>1. /\ applied'[b] = applied[b] + 1 /\ stage'[b] = "applying"
          /\ config'[b] = Applied(config[b], options[applied[b] + 1])
      BY <1>2 DEF SetupInv, SetupTypeOK
    <3>2. G[applied[b] + 1] = Applied(G[applied[b]], options[applied[b] + 1])
      BY <1>5, <1>7, <2>2 DEF Folded
    <3>3. applied'[b] \in 0..n
      BY <1>5, <1>7, <2>2, <3>1
    <3> QED
      BY <1>2, <2>1, <2>2, <2>3, <3>1, <3>2, <3>3 DEF Built, Building, Ready
  <2>4. CASE a # b
    <3>1. applied'[a] = applied[a] /\ stage'[a] = stage[a] /\ config'[a] = config[a]
      BY <1>2, <2>4 DEF SetupInv, SetupTypeOK
    <3>2. applied'[a] \in 0..n
      BY <1>5, <1>7, <2>2, <3>1
    <3>3. heap'[Owned(a)] = heap[Owned(a)] /\ heap'[F[applied[a]].cell] = heap[F[applied[a]].cell]
          /\ options' = options
      BY <1>2
    <3>4. G[applied'[a]] = F[applied[a]]
      BY <2>2, <3>1
    <3> QED
      BY <1>8, <2>1, <3>1, <3>2, <3>3, <3>4 DEF Built, Building, Ready
  <2> QED
    BY <2>3, <2>4
<1> QED
  BY <1>2, <1>3, <1>4, <1>6, <1>9 DEF SetupInv

\* After the last option the configuration is what the options asked for, in a cell of its own.
LEMMA Configured ==
  ASSUME SetupInv, NEW b \in Builds, Configure(b)
  PROVE  SetupInv'
<1>1. PICK m, F : Folded(F, m) /\ \A a \in Builds : Built(F, m, a)
  BY DEF SetupInv
<1>2. /\ applied[b] = Len(options) /\ Len(options) \in Nat /\ Len(options) <= MaxOptions
      /\ config' = [config EXCEPT ![b].cell = Owned(b)]
      /\ heap' = [heap EXCEPT ![Owned(b)] = heap[config[b].cell]]
      /\ stage' = [stage EXCEPT ![b] = "configured"] /\ UNCHANGED <<mine, options, applied, registered, copy>>
      /\ Building(b)
  BY DEF SetupInv, SetupTypeOK, Configure, Building
<1>3. Built(F, m, b) /\ config[b] = F[applied[b]] /\ applied[b] \in 0..m /\ config[b] \in Settings
  <2>1. Built(F, m, b)
    BY <1>1
  <2>2. config[b] = F[applied[b]] /\ applied[b] \in 0..m
    BY <1>2, <2>1 DEF Built
  <2>3. F \in [0..m -> Settings]
    BY <1>1 DEF Folded
  <2> QED
    BY <2>1, <2>2, <2>3
<1>4. \A n \in 0..m : F[n].cell \in Cells /\ \A a \in Builds : F[n].cell # Owned(a)
  <2> SUFFICES ASSUME NEW n \in 0..m, NEW a \in Builds PROVE F[n].cell \in Cells /\ F[n].cell # Owned(a)
    <3>1. F[0].cell \in Cells
      BY <1>1 DEF Folded, Settings
    <3> QED
      BY <1>1 DEF Folded, Settings
  <2>1. F[n] \in Settings /\ CellIs(F[n], n)
    BY <1>1 DEF Folded
  <2> QED
    BY <2>1, CellsDiffer DEF CellIs, Settings
<1>5. /\ heap' \in [Cells -> Values] /\ heap'[Default] = heap[Default]
      /\ \A i \in 1..MaxOptions : heap'[Captured(i)] = heap[Captured(i)]
      /\ \A n \in 0..m : heap'[F[n].cell] = heap[F[n].cell]
      /\ heap'[Owned(b)] = heap[config[b].cell]
      /\ \A a \in Builds \ {b} : heap'[Owned(a)] = heap[Owned(a)]
  <2>1. heap \in [Cells -> Values] /\ heap[config[b].cell] \in Values
    BY <1>3, <1>4 DEF SetupInv, SetupTypeOK
  <2> QED
    BY <1>2, <1>4, <2>1, CellsAre, CellsDiffer
<1>6. /\ config'[b] = [config[b] EXCEPT !.cell = Owned(b)] /\ \A a \in Builds \ {b} : config'[a] = config[a]
      /\ stage'[b] = "configured" /\ \A a \in Builds \ {b} : stage'[a] = stage[a]
      /\ config' = [a \in Builds |-> config'[a]]
  BY <1>2 DEF SetupInv, SetupTypeOK
<1>7. config'[b] \in Configs /\ config'[b].cell = Owned(b)
  BY <1>3, <1>6 DEF Settings, Configs
<1>8. SetupTypeOK'
  BY <1>2, <1>5, <1>6, <1>7 DEF SetupInv, SetupTypeOK
<1>9. Remembered'
  BY <1>2, <1>5, SetupAssumption DEF SetupInv, Remembered
<1>10. Folded(F, m)'
  BY <1>1, <1>2 DEF Folded, CellIs, RawIs, IsLast
<1>11. ASSUME NEW a \in Builds PROVE Built(F, m, a)'
  <2>1. CASE a = b
    BY <1>2, <1>3, <1>5, <1>6, <2>1 DEF Built, Building, Ready
  <2>2. CASE a # b
    <3>1. Built(F, m, a) /\ config'[a] = config[a] /\ stage'[a] = stage[a] /\ applied'[a] = applied[a]
      BY <1>1, <1>2, <1>6, <2>2
    <3>2. ~Building(a) => config[a].cell = Owned(a)
      BY DEF SetupInv, SetupTypeOK, Building
    <3>3. Ready(a) \/ stage[a] \in {"registering", "failed", "refused"} => ~Building(a)
      BY DEF Ready, Building
    <3>4. ~Building(a) => ValidConfig(config[a])' = ValidConfig(config[a])
      BY <1>5, <2>2, <3>1, <3>2 DEF ValidConfig, RawAllowed, Declared
    <3> QED
      BY <1>2, <1>5, <2>2, <3>1, <3>3, <3>4 DEF Built, Building, Ready
  <2> QED
    BY <2>1, <2>2
<1> QED
  BY <1>2, <1>6, <1>8, <1>9, <1>10, <1>11 DEF SetupInv

LEMMA SetupStep == SetupInv /\ [SetupNext]_setupVars => SetupInv'
<1> SUFFICES ASSUME SetupInv, [SetupNext]_setupVars PROVE SetupInv'
  OBVIOUS
<1>0. /\ Len(options) \in Nat /\ options \in Seq(OptionSet) /\ heap \in [Cells -> Values]
      /\ mine \in [declares : Policies, allowRaw : BOOLEAN]
  BY DEF SetupInv, SetupTypeOK
<1>1. ASSUME NEW o \in PlainOptions, Give(o) PROVE SetupInv'
  <2>1. o \in OptionSet /\ o.kind # "profile"
    BY DEF OptionSet, PlainOptions
  <2>2. options' = Append(options, o) /\ heap' = heap
    BY <1>1 DEF Give
  <2>3. Remembered'
    BY <1>0, <2>1, <2>2 DEF SetupInv, Remembered
  <2> QED
    BY <1>0, <1>1, <2>1, <2>2, <2>3, OptionGiven DEF Give
<1>2. ASSUME GiveProfile PROVE SetupInv'
  <2>1. PICK i : i = Len(options) + 1
    OBVIOUS
  <2>2. PICK o : o = ProfileOption(Captured(i))
    OBVIOUS
  <2>3. /\ Fresh /\ options' = Append(options, o) /\ heap' = [heap EXCEPT ![Captured(i)] = heap[Caller]]
        /\ i \in 1..MaxOptions
    BY <1>0, <1>2, <2>1, <2>2, SetupAssumption DEF GiveProfile, Fresh
  <2>4. /\ o \in OptionSet /\ o.kind = "profile" /\ o.cell = Captured(i) /\ o.asked = heap[Caller]
    BY <1>0, <2>2, <2>3, CellsAre DEF ProfileOption, OptionSet
  <2>5. /\ heap' \in [Cells -> Values] /\ heap'[Default] = heap[Default]
        /\ heap'[Captured(i)] = o.asked
        /\ \A j \in 1..Len(options) : heap'[Captured(j)] = heap[Captured(j)]
        /\ \A b \in Builds : heap'[Owned(b)] = heap[Owned(b)]
    BY <1>0, <2>1, <2>3, <2>4, CellsAre, CellsDiffer
  <2>6. Remembered'
    BY <1>0, <2>1, <2>3, <2>4, <2>5 DEF SetupInv, Remembered
  <2> QED
    BY <1>2, <2>3, <2>4, <2>5, <2>6, OptionGiven DEF GiveProfile
<1>3. ASSUME NEW p \in Profiles, ChangeProfile(p) PROVE SetupInv'
  <2>1. p.values \in Values /\ mine' \in [declares : Policies, allowRaw : BOOLEAN]
    BY <1>3, ProfilesAssumption DEF ChangeProfile, Values
  <2> QED
    BY <1>3, <2>1, ElsewhereWritten DEF ChangeProfile, SetupInv, SetupTypeOK
<1>4. ASSUME NEW b \in Builds, ApplyOption(b) PROVE SetupInv'
  BY <1>4, OptionApplied
<1>5. ASSUME NEW b \in Builds, Configure(b) PROVE SetupInv'
  BY <1>5, Configured
<1>6. ASSUME NEW b \in Builds, RefuseConfig(b) PROVE SetupInv'
  BY <1>6, StageReached DEF RefuseConfig, Reach, Building, SetupInv, SetupTypeOK
<1>7. ASSUME NEW b \in Builds, Declare(b) PROVE SetupInv'
  BY <1>7, StageReached DEF Declare, Reach, Building, SetupInv, SetupTypeOK
<1>8. ASSUME NEW b \in Builds, Proceed(b) PROVE SetupInv'
  BY <1>8, StageReached DEF Proceed, Reach, Building, SetupInv, SetupTypeOK
\* Whatever is registering is valid.
<1>9. ASSUME NEW b \in Builds, stage[b] = "registering" PROVE ValidConfig(config[b])
  BY <1>9 DEF SetupInv, Built
<1>10. ASSUME NEW b \in Builds, Register(b) PROVE SetupInv'
  <2>1. /\ registered' = [registered EXCEPT ![b] = @ + 1] /\ registered[b] < Registrations
        /\ UNCHANGED <<mine, heap, options, config, applied, stage, copy>> /\ stage[b] = "registering"
    BY <1>10 DEF Register
  <2>2. registered' \in [Builds -> 0..Registrations]
    BY <2>1, SetupAssumption DEF SetupInv, SetupTypeOK
  <2>3. stage' = [stage EXCEPT ![b] = "registering"]
    BY <2>1 DEF SetupInv, SetupTypeOK
  <2> QED
    BY <1>9, <2>1, <2>2, <2>3, StageReached DEF Building
<1>11. ASSUME NEW b \in Builds, RegisterFails(b) PROVE SetupInv'
  BY <1>9, <1>11, StageReached DEF RegisterFails, Reach, Building, SetupInv, SetupTypeOK
<1>12. ASSUME NEW b \in Builds, Deliver(b) PROVE SetupInv'
  BY <1>9, <1>12, StageReached DEF Deliver, Reach, Building, SetupInv, SetupTypeOK
<1>13. ASSUME NEW b \in Builds, CopyProfile(b) PROVE SetupInv'
  <2>1. heap[config[b].cell] \in Values
    <3>1. config[b] \in Configs /\ config[b].cell = Owned(b)
      BY <1>13 DEF CopyProfile, Ready, SetupInv, SetupTypeOK
    <3> QED
      BY <1>0, <3>1, CellsAre
  <2>2. \A a \in Builds : copy'[a] \in {Nothing, [cell |-> Returned(a)]}
    BY <1>13 DEF CopyProfile, SetupInv, SetupTypeOK
  <2> QED
    BY <1>0, <1>13, <2>1, <2>2, ElsewhereWritten DEF CopyProfile
<1>14. ASSUME NEW b \in Builds, NEW v \in Values, ChangeCopy(b, v) PROVE SetupInv'
  <2>1. copy[b].cell = Returned(b)
    BY <1>14 DEF ChangeCopy, SetupInv, SetupTypeOK
  <2> QED
    BY <1>0, <1>14, <2>1, ElsewhereWritten DEF ChangeCopy, SetupInv, SetupTypeOK
<1>15. ASSUME UNCHANGED setupVars PROVE SetupInv'
  <2>1. UNCHANGED <<mine, heap, options, config, applied, stage, registered, copy>>
    BY <1>15 DEF setupVars
  <2>2. SetupTypeOK' /\ Remembered'
    BY <2>1 DEF SetupInv, SetupTypeOK, Remembered
  <2>3. PICK m, F : Folded(F, m) /\ \A b \in Builds : Built(F, m, b)
    BY DEF SetupInv
  <2>4. Folded(F, m)'
    <3>1. options' = options /\ Folded(F, m)
      BY <2>1, <2>3
    <3>2. \A c, n : CellIs(c, n)' = CellIs(c, n) /\ RawIs(c, n)' = RawIs(c, n)
      BY <3>1 DEF CellIs, RawIs, IsLast
    <3> QED
      BY <3>1, <3>2 DEF Folded
  <2>5. ASSUME NEW b \in Builds PROVE Built(F, m, b)'
    <3>1. ValidConfig(config[b])' = ValidConfig(config[b])
      BY <2>1 DEF ValidConfig, RawAllowed, Declared
    <3> QED
      BY <2>1, <2>3, <3>1 DEF Built, Building, Ready
  <2> QED
    BY <2>1, <2>2, <2>4, <2>5 DEF SetupInv
<1> QED
  BY <1>1, <1>2, <1>3, <1>4, <1>5, <1>6, <1>7, <1>8, <1>10, <1>11, <1>12, <1>13, <1>14, <1>15 DEF SetupNext

-----------------------------------------------------------------------------
LEMMA LastsAre ==
  ASSUME options \in Seq(OptionSet), NEW k
  PROVE  /\ IsLast({"profile"}, Len(options), k) => LastProfile = k
         /\ (\A i \in 1..Len(options) : options[i].kind # "profile") => LastProfile = 0
         /\ IsLast({"raw_payloads"}, Len(options), k) => LastRaw = k
         /\ (\A i \in 1..Len(options) : options[i].kind # "raw_payloads") => LastRaw = 0
<1>1. DOMAIN options = 1..Len(options) /\ Len(options) \in Nat
  OBVIOUS
<1>2. ASSUME NEW found \in SUBSET Nat, k \in found, \A j \in found : j <= k
      PROVE  (CHOOSE i \in found : \A j \in found : j <= i) = k
  <2>1. PICK l : l = CHOOSE i \in found : \A j \in found : j <= i
    OBVIOUS
  <2>2. l \in found /\ \A j \in found : j <= l
    BY <1>2, <2>1
  <2>3. l \in Nat /\ k \in Nat /\ l <= k /\ k <= l
    BY <1>2, <2>2
  <2> QED
    BY <2>1, <2>3
<1>3. PICK profiles : profiles = {i \in DOMAIN options : options[i].kind = "profile"}
  OBVIOUS
<1>4. LastProfile = IF profiles = {} THEN 0 ELSE CHOOSE i \in profiles : \A j \in profiles : j <= i
  BY <1>3 DEF LastProfile, LastOf
<1>5. PICK raws : raws = {i \in DOMAIN options : options[i].kind = "raw_payloads"}
  OBVIOUS
<1>6. LastRaw = IF raws = {} THEN 0 ELSE CHOOSE i \in raws : \A j \in raws : j <= i
  BY <1>5 DEF LastRaw, LastOf
<1>7. profiles \in SUBSET Nat /\ raws \in SUBSET Nat
  BY <1>1, <1>3, <1>5
<1>8. ASSUME IsLast({"profile"}, Len(options), k) PROVE LastProfile = k
  <2>1. k \in profiles /\ \A j \in profiles : j <= k
    BY <1>1, <1>3, <1>8 DEF IsLast
  <2> QED
    BY <1>2, <1>4, <1>7, <2>1
<1>9. ASSUME IsLast({"raw_payloads"}, Len(options), k) PROVE LastRaw = k
  <2>1. k \in raws /\ \A j \in raws : j <= k
    BY <1>1, <1>5, <1>9 DEF IsLast
  <2> QED
    BY <1>2, <1>6, <1>7, <2>1
<1>10. (\A i \in 1..Len(options) : options[i].kind # "profile") => LastProfile = 0
  BY <1>1, <1>3, <1>4
<1>11. (\A i \in 1..Len(options) : options[i].kind # "raw_payloads") => LastRaw = 0
  BY <1>1, <1>5, <1>6
<1> QED
  BY <1>8, <1>9, <1>10, <1>11

\* The configuration after all options holds what the last option of each kind asked for.
LEMMA SetupInvImplies == SetupInv => SettingsAreAsAsked
<1> SUFFICES ASSUME SetupInv PROVE SettingsAreAsAsked
  OBVIOUS
<1>1. PICK m, F : Folded(F, m) /\ \A b \in Builds : Built(F, m, b)
  BY DEF SetupInv
<1>2. PICK n : n = Len(options)
  OBVIOUS
<1>3. n \in Nat /\ options \in Seq(OptionSet)
  BY <1>2 DEF SetupInv
\* A construction that is ready has the configuration that all the options make.
<1>4. ASSUME NEW b \in Builds, Ready(b) \/ stage[b] = "refused"
      PROVE  /\ m = n /\ config[b] = [F[n] EXCEPT !.cell = Owned(b)] /\ heap[Owned(b)] = heap[F[n].cell]
             /\ Ready(b) <=> ValidConfig(config[b])
  <2>1. Built(F, m, b) /\ ~Building(b) /\ m \in 0..n
    BY <1>1, <1>2, <1>4 DEF Folded, Ready, Building
  <2> QED
    BY <1>2, <1>3, <1>4, <2>1 DEF Built, Ready
<1>5. ASSUME m = n PROVE F[n] \in Settings /\ CellIs(F[n], n) /\ RawIs(F[n], n)
  BY <1>1, <1>3, <1>5 DEF Folded
<1>6. RawIsConsented
  <2> SUFFICES ASSUME NEW b \in Builds, Ready(b), config[b].policy = "raw"
               PROVE  Consented /\ config[b].declares = "raw"
    BY DEF RawIsConsented
  <2>1. config[b].allowRaw /\ config[b].declares = "raw"
    BY <1>4 DEF ValidConfig, RawAllowed, Declared, BuiltIn
  <2>2. F[n].allowRaw /\ RawIs(F[n], n) /\ CellIs(F[n], n)
    BY <1>4, <1>5, <2>1 DEF Settings
  <2>3. PICK k : /\ IsLast({"profile", "raw_payloads"}, n, k)
                 /\ options[k].kind = "raw_payloads" \/ options[k].allowRaw
    BY <2>2 DEF RawIs
  <2>4. CASE options[k].kind = "raw_payloads"
    <3>1. k \in 1..n /\ IsLast({"raw_payloads"}, n, k)
      BY <2>3, <2>4 DEF IsLast
    <3>2. LastRaw = k
      BY <1>2, <1>3, <3>1, LastsAre
    <3>3. CASE \A i \in 1..n : options[i].kind # "profile"
      <4>1. LastProfile = 0
        BY <1>2, <1>3, <3>3, LastsAre
      <4> QED
        BY <1>3, <3>1, <3>2, <4>1, <2>1 DEF Consented
    <3>4. CASE \E l : IsLast({"profile"}, n, l)
      <4>1. PICK l : IsLast({"profile"}, n, l)
        BY <3>4
      <4>2. LastProfile = l
        BY <1>2, <1>3, <4>1, LastsAre
      <4>3. l \in 1..n /\ l < k
        BY <1>3, <2>3, <2>4, <3>1, <4>1 DEF IsLast
      <4> QED
        BY <1>3, <3>1, <3>2, <4>2, <4>3, <2>1 DEF Consented
    <3> QED
      BY <2>2, <3>3, <3>4 DEF CellIs
  <2>5. CASE options[k].kind # "raw_payloads"
    <3>1. IsLast({"profile"}, n, k) /\ k \in 1..n /\ options[k].allowRaw
      BY <2>3, <2>5 DEF IsLast
    <3>2. LastProfile = k
      BY <1>2, <1>3, <3>1, LastsAre
    <3> QED
      BY <1>3, <2>1, <3>1, <3>2 DEF Consented
  <2> QED
    BY <2>4, <2>5
<1>7. SettingsAreOwn
  <2> SUFFICES ASSUME NEW b \in Builds, Ready(b)
               PROVE  heap[config[b].cell] = IF LastProfile = 0 THEN "default" ELSE options[LastProfile].asked
    BY DEF SettingsAreOwn
  <2>1. config[b].cell = Owned(b) /\ heap[Owned(b)] = heap[F[n].cell] /\ CellIs(F[n], n)
    BY <1>4, <1>5 DEF Settings
  <2>2. CASE F[n].cell = Default /\ \A i \in 1..n : options[i].kind # "profile"
    BY <1>2, <1>3, <2>1, <2>2, LastsAre DEF SetupInv, Remembered
  <2>3. CASE \E k : IsLast({"profile"}, n, k) /\ F[n].cell = Captured(k)
    <3>1. PICK k : IsLast({"profile"}, n, k) /\ F[n].cell = Captured(k)
      BY <2>3
    <3>2. LastProfile = k /\ k \in 1..n /\ options[k].kind = "profile"
      BY <1>2, <1>3, <3>1, LastsAre DEF IsLast
    <3>3. heap[Captured(k)] = options[k].asked
      BY <1>2, <3>2 DEF SetupInv, Remembered
    <3> QED
      BY <1>3, <2>1, <3>1, <3>2, <3>3
  <2> QED
    BY <2>1, <2>2, <2>3 DEF CellIs
<1>8. ConstructionsAgree
  <2> SUFFICES ASSUME NEW a \in Builds, NEW b \in Builds, Ready(a)
               PROVE  /\ stage[b] # "refused"
                      /\ Ready(b) => [config[a] EXCEPT !.cell = Default] = [config[b] EXCEPT !.cell = Default]
    BY DEF ConstructionsAgree
  <2>1. PICK c : c = F[n]
    OBVIOUS
  <2>2. /\ config[a] = [c EXCEPT !.cell = Owned(a)] /\ heap[Owned(a)] = heap[c.cell] /\ ValidConfig(config[a])
        /\ c \in Settings
    BY <1>4, <1>5, <2>1
  <2>3. ASSUME Ready(b) \/ stage[b] = "refused"
        PROVE  config[b] = [c EXCEPT !.cell = Owned(b)] /\ heap[Owned(b)] = heap[c.cell]
    BY <1>4, <2>1, <2>3
  <2>4. ASSUME stage[b] = "refused" PROVE FALSE
    <3>1. ~ValidConfig(config[b])
      BY <1>4, <2>4 DEF Ready
    <3> QED
      BY <2>2, <2>3, <2>4, <3>1 DEF ValidConfig, RawAllowed, Declared, Settings
  <2>5. ASSUME Ready(b)
        PROVE  [config[a] EXCEPT !.cell = Default] = [config[b] EXCEPT !.cell = Default]
    BY <2>2, <2>3, <2>5 DEF Settings
  <2> QED
    BY <2>4, <2>5
<1> QED
  BY <1>6, <1>7, <1>8 DEF SettingsAreAsAsked, SetupInv

\* For any options in any order, made by a caller that goes on writing to the profiles it gave and got:
\* settings are those asked for when the options were made, and raw payloads need the last word (TrackerSetup).
THEOREM SettingsAreWhatWasAsked == SetupSpec => []SettingsAreAsAsked
<1> QED
  BY SetupInitially, SetupStep, SetupInvImplies, PTL DEF SetupSpec
-----------------------------------------------------------------------------
(* Redaction. The paths a walk comes to are those with no opaque object    *)
(* above them; every value is at one of them or under the first opaque     *)
(* object on its way.                                                      *)

\* A prefix, element by element.
LEMMA PrefixElements ==
  ASSUME NEW p \in Seq(Steps), NEW q \in Seq(Steps)
  PROVE  IsPrefix(p, q) <=> Len(p) <= Len(q) /\ \A i \in 1..Len(p) : p[i] = q[i]
  <1>1. Len(p) \in Nat /\ Len(q) \in Nat /\ SubSeq(p, 1, Len(p)) = p
    BY LenProperties, SubSeqFull
  <1>2. CASE Len(p) <= Len(q)
    <2>1. \A i \in 1..Len(p) : q[i] \in Steps  BY <1>1, <1>2, LenProperties
    <2>2. /\ SubSeq(q, 1, Len(p)) \in Seq(Steps) /\ Len(SubSeq(q, 1, Len(p))) = Len(p)
          /\ \A i \in 1..Len(p) : SubSeq(q, 1, Len(p))[i] = q[i]
      <3>1. 1 \in Int /\ Len(p) \in Int  BY <1>1
      <3> HIDE <1>1
      <3>2. /\ SubSeq(q, 1, Len(p)) \in Seq(Steps)
            /\ Len(SubSeq(q, 1, Len(p))) = IF 1 <= Len(p) THEN Len(p) - 1 + 1 ELSE 0
            /\ \A i \in 1..Len(p) - 1 + 1 : SubSeq(q, 1, Len(p))[i] = q[1 + i - 1]
        BY <2>1, <3>1, SubSeqProperties
      <3> QED  BY <1>1, <3>2
    <2>3. SubSeq(q, 1, Len(p)) = p <=> \A i \in 1..Len(p) : p[i] = q[i]
      BY <2>2, SeqEqual, <1>1
    <2> QED  BY <1>1, <1>2, <2>3 DEF IsPrefix
  <1>3. CASE ~ (Len(p) <= Len(q))  BY <1>3 DEF IsPrefix
  <1> QED  BY <1>2, <1>3

\* What follows a prefix completes it.
LEMMA PrefixCompleted ==
  ASSUME NEW p \in Seq(Steps), NEW q \in Seq(Steps), IsPrefix(p, q)
  PROVE  p \o Remaining(q, p) = q
  <1>1. Len(p) \in Nat /\ Len(q) \in Nat /\ Len(p) <= Len(q)  BY LenProperties DEF IsPrefix
  <1>2. SubSeq(q, 1, Len(p)) = p  BY SubSeqFull DEF IsPrefix
  <1>3. 1 \in 1..Len(q) + 1 /\ Len(p) \in 1-1..Len(q) /\ Len(q) \in Len(p)..Len(q)  BY <1>1
  <1>4. SubSeq(q, 1, Len(p)) \o SubSeq(q, Len(p) + 1, Len(q)) = SubSeq(q, 1, Len(q))
    BY <1>3, ConcatAdjacentSubSeq
  <1> QED  BY <1>2, <1>4, SubSeqFull DEF Remaining

\* A path that leads to a strict prefix leads further.
LEMMA PrefixOfPrefix ==
  ASSUME NEW p \in Seq(Steps), NEW q \in Seq(Steps), NEW r \in Seq(Steps),
         IsStrictPrefix(p, q), IsStrictPrefix(q, r)
  PROVE  IsStrictPrefix(p, r) /\ Len(p) < Len(q)
  <1>1. Len(p) \in Nat /\ Len(q) \in Nat /\ Len(r) \in Nat  BY LenProperties
  <1>2. /\ Len(p) <= Len(q) /\ \A i \in 1..Len(p) : p[i] = q[i]
        /\ Len(q) <= Len(r) /\ \A i \in 1..Len(q) : q[i] = r[i]
    BY PrefixElements DEF IsStrictPrefix
  <1>3. Len(p) # Len(q)
    <2>1. SUFFICES ASSUME Len(p) = Len(q) PROVE FALSE  OBVIOUS
    <2>2. p = q  BY <1>2, <2>1, SeqEqual
    <2> QED  BY <2>2 DEF IsStrictPrefix
  <1>4. IsPrefix(p, r)
    <2>1. Len(p) <= Len(r) /\ \A i \in 1..Len(p) : p[i] = r[i]  BY <1>1, <1>2
    <2> QED  BY <2>1, PrefixElements
  <1> QED  BY <1>1, <1>2, <1>3, <1>4 DEF IsStrictPrefix

\* The container of a value is on the way to it.
LEMMA FrontIsPrefix ==
  ASSUME NEW p \in Seq(Steps), p # <<>>
  PROVE  Front(p) \in Seq(Steps) /\ IsStrictPrefix(Front(p), p)
  <1>1. PICK n \in Nat : n = Len(p) /\ n # 0 /\ p \in [1..n -> Steps]  BY LenProperties, EmptySeq
  <1>2. 1 \in Int /\ n - 1 \in Int /\ \A i \in 1..n - 1 : p[i] \in Steps  BY <1>1
  <1>3. Front(p) = SubSeq(p, 1, n - 1)  BY <1>1 DEF Front
  <1>4. /\ Front(p) \in Seq(Steps)
        /\ Len(Front(p)) = IF 1 <= n - 1 THEN n - 1 - 1 + 1 ELSE 0
        /\ \A i \in 1..n - 1 - 1 + 1 : Front(p)[i] = p[1 + i - 1]
    BY <1>2, <1>3, SubSeqProperties
  <1>5. (IF 1 <= n - 1 THEN n - 1 - 1 + 1 ELSE 0) = n - 1 /\ n - 1 - 1 + 1 = n - 1  BY <1>1
  <1>6. Len(Front(p)) = n - 1 /\ \A i \in 1..n - 1 : Front(p)[i] = p[i]
    <2>1. Len(Front(p)) = n - 1 /\ \A i \in 1..n - 1 : Front(p)[i] = p[1 + i - 1]
      BY <1>4, <1>5
    <2>2. \A i \in 1..n - 1 : 1 + i - 1 = i  BY <1>1
    <2> QED  BY <2>1, <2>2
  <1>7. Len(Front(p)) <= Len(p) /\ Front(p) # p  BY <1>1, <1>6
  <1>8. IsPrefix(Front(p), p)  BY <1>4, <1>6, <1>7, PrefixElements
  <1> QED  BY <1>4, <1>7, <1>8 DEF IsStrictPrefix

-----------------------------------------------------------------------------
\* What a policy gave back last, and that its promises held so far.
RedactionInv ==
  /\ policy \in {"redact", "hash"} /\ part \in Parts /\ IsPart(sanitized)
  /\ round \in {"given", "once", "twice"}
  /\ round = "given" => sanitized = part
  /\ round = "once" => sanitized = SanitizePart(part)
  /\ NothingRawLeaves /\ UnknownKeysAreHidden /\ ShapeIsKept

\* A value is a text or a container.
LEMMA KindsInATree ==
  ASSUME NEW v, Tree(v), NEW path \in DOMAIN v
  PROVE  /\ v[path].kind \in {"leaf", "array", "object"}
         /\ v[path].kind = "leaf" => v[path] = Value(v[path].text)
  <1>1. v[path] \in {Container("array"), Container("object")} \/ v[path] = Value(v[path].text)
    BY DEF Tree
  <1>2. Container("array").kind = "array" /\ Container("object").kind = "object"  BY DEF Container
  <1>3. Value(v[path].text).kind = "leaf"  BY DEF Value
  <1>4. CASE v[path] = Value(v[path].text)  BY <1>3, <1>4
  <1>5. CASE v[path] \in {Container("array"), Container("object")}  BY <1>2, <1>5
  <1> QED  BY <1>1, <1>4, <1>5

\* Trees are not what stands for an absent or a malformed document.
LEMMA TreesAreDocuments ==
  ASSUME NEW v, Tree(v)
  PROVE  v # Absent /\ v # Malformed
  <1>1. <<>> \in DOMAIN v /\ v[<<>>].kind \in {"leaf", "array", "object"}
    BY KindsInATree DEF Tree
  <1>2. v # Absent  BY <1>1 DEF Absent
  <1>3. v # Malformed  BY <1>1 DEF Malformed, Container
  <1> QED  BY <1>2, <1>3

\* What replaces a document that does not decode is JSON.
LEMMA ConstantIsATree == Tree(RedactedJSON)
  <1> DEFINE one == <<"redacted">>
  <1>1. one \in Seq(Steps) /\ <<>> \in Seq(Steps) /\ one # <<>> /\ Front(one) = <<>>
    <2>1. one \in Seq(Steps) /\ Len(one) = 1 /\ <<>> \in Seq(Steps) /\ Len(<<>>) = 0
      BY StepsAssumption, EmptySeq
    <2>2. SubSeq(one, 1, 0) = <<>>  BY SubSeqEmpty
    <2> HIDE DEF one
    <2>3. Front(one) = SubSeq(one, 1, Len(one) - 1)  BY DEF Front
    <2>4. Len(one) - 1 = 0  BY <2>1
    <2>5. Front(one) = <<>>  BY <2>2, <2>3, <2>4
    <2>6. one # <<>>  BY <2>1
    <2> QED  BY <2>1, <2>5, <2>6
  <1> HIDE DEF one
  <1>2. RedactedJSON = [path \in {<<>>, one} |-> IF path = <<>> THEN Container("object") ELSE Value(<<"true">>)]
    BY DEF RedactedJSON, one
  <1>3. DOMAIN RedactedJSON = {<<>>, one}  BY <1>2
  <1>4. RedactedJSON[<<>>] = Container("object") /\ RedactedJSON[one] = Value(RedactedJSON[one].text)
    BY <1>1, <1>2 DEF Value
  <1>6. RedactedJSON[<<>>].kind # "leaf"  BY <1>4 DEF Container
  <1>5. RedactedJSON = [path \in DOMAIN RedactedJSON |-> RedactedJSON[path]]  BY <1>2
  <1> QED  BY <1>1, <1>3, <1>4, <1>5, <1>6, StepsAssumption DEF Tree

\* What becomes of the values of a tree.
LEMMA SanitizedNodes ==
  ASSUME NEW v, Tree(v)
  PROVE  /\ DOMAIN SanitizeTree(v) = Walked(v) /\ Walked(v) \subseteq DOMAIN v
         /\ \A p \in Walked(v) :
              \/ /\ v[p].kind = "leaf" \/ Opaque(v, p)
                 /\ SanitizeTree(v)[p] = Value(Protect(ValueAt(v, p)))
                 /\ SanitizeTree(v)[p].kind = "leaf"
              \/ /\ v[p].kind \in {"array", "object"} /\ ~ Opaque(v, p)
                 /\ SanitizeTree(v)[p] = v[p]
  <1>1. DOMAIN SanitizeTree(v) = Walked(v) /\ Walked(v) \subseteq DOMAIN v
    BY DEF SanitizeTree, Walked
  <1>2. ASSUME NEW p \in Walked(v), v[p].kind = "leaf" \/ Opaque(v, p)
        PROVE  SanitizeTree(v)[p] = Value(Protect(ValueAt(v, p))) /\ SanitizeTree(v)[p].kind = "leaf"
    BY <1>2 DEF SanitizeTree, Value
  <1>3. ASSUME NEW p \in Walked(v), ~ (v[p].kind = "leaf" \/ Opaque(v, p))
        PROVE  SanitizeTree(v)[p] = v[p]
    BY <1>3 DEF SanitizeTree
  <1>4. \A p \in Walked(v) : v[p].kind \in {"leaf", "array", "object"}  BY <1>1, KindsInATree
  <1> QED  BY <1>1, <1>2, <1>3, <1>4

\* The walk comes to the container of a value before it, and looks into it.
LEMMA WalkedFromTheTop ==
  ASSUME NEW v, Tree(v), NEW p \in Walked(v), p # <<>>
  PROVE  Front(p) \in Walked(v) /\ ~ Opaque(v, Front(p))
  <1>1. /\ p \in DOMAIN v /\ p \in Seq(Steps) /\ Front(p) \in DOMAIN v /\ DOMAIN v \subseteq Seq(Steps)
        /\ \A q \in DOMAIN v : IsStrictPrefix(q, p) => ~ Opaque(v, q)
    BY DEF Tree, Walked
  <1>2. IsStrictPrefix(Front(p), p) /\ Front(p) \in Seq(Steps)  BY <1>1, FrontIsPrefix
  <1>3. ASSUME NEW q \in DOMAIN v, IsStrictPrefix(q, Front(p)) PROVE ~ Opaque(v, q)
    <2>1. IsStrictPrefix(q, p)  BY <1>1, <1>2, <1>3, PrefixOfPrefix
    <2> QED  BY <1>1, <2>1
  <1> QED  BY <1>1, <1>2, <1>3 DEF Walked

\* A sanitised tree is a tree.
LEMMA SanitizedIsATree ==
  ASSUME NEW v, Tree(v)
  PROVE  Tree(SanitizeTree(v))
  <1> DEFINE s == SanitizeTree(v)
  <1>1. DOMAIN s = Walked(v) /\ Walked(v) \subseteq DOMAIN v /\ DOMAIN v \subseteq Seq(Steps) /\ <<>> \in DOMAIN v
    BY SanitizedNodes DEF Tree
  <1>2. s = [path \in DOMAIN s |-> s[path]]  BY DEF SanitizeTree
  <1>3. <<>> \in Walked(v)
    <2>1. ASSUME NEW q \in DOMAIN v, IsStrictPrefix(q, <<>>) PROVE FALSE
      <3>1. q \in Seq(Steps) /\ q # <<>> /\ Len(q) <= Len(<<>>)
        BY <1>1, <2>1 DEF IsStrictPrefix, IsPrefix
      <3>2. Len(q) \in Nat /\ Len(q) # 0 /\ Len(<<>>) = 0  BY <3>1, EmptySeq
      <3> QED  BY <3>1, <3>2
    <2> QED  BY <1>1, <2>1 DEF Walked
  <1>4. ASSUME NEW p \in Walked(v)
        PROVE  s[p] \in {Container("array"), Container("object")} \/ s[p] = Value(s[p].text)
    <2>1. CASE s[p] = v[p]  BY <1>1, <2>1 DEF Tree
    <2>2. CASE s[p] = Value(Protect(ValueAt(v, p)))  BY <2>2 DEF Value
    <2> QED  BY <2>1, <2>2, SanitizedNodes
  <1>5. ASSUME NEW p \in Walked(v), p # <<>>
        PROVE  Front(p) \in Walked(v) /\ s[Front(p)].kind # "leaf"
    <2>1. Front(p) \in Walked(v) /\ ~ Opaque(v, Front(p))  BY <1>5, WalkedFromTheTop
    <2>2. v[Front(p)].kind # "leaf"  BY <1>1, <1>5 DEF Tree
    <2>3. s[Front(p)] = v[Front(p)]  BY <2>1, <2>2, SanitizedNodes
    <2> QED  BY <2>1, <2>2, <2>3
  <1> HIDE DEF s
  <1>6. Tree(s)  BY <1>1, <1>2, <1>3, <1>4, <1>5 DEF Tree
  <1> QED  BY <1>6 DEF s

\* Every value is protected under a path that the walk ends at, or is a container that it keeps.
LEMMA WalkEnds ==
  ASSUME NEW v, Tree(v), NEW r \in DOMAIN v
  PROVE  \E p \in Walked(v) :
            /\ IsPrefix(p, r)
            /\ p = r \/ Opaque(v, p)
  <1>1. DOMAIN v \subseteq Seq(Steps) /\ r \in Seq(Steps)  BY DEF Tree
  <1>2. IsPrefix(r, r)  BY <1>1, LenProperties DEF IsPrefix
  <1>3. CASE r \in Walked(v)  BY <1>2, <1>3
  <1>4. CASE r \notin Walked(v)
    <2> DEFINE Closed == {q \in DOMAIN v : IsStrictPrefix(q, r) /\ Opaque(v, q)}
               Lengths == {Len(q) : q \in Closed}
    <2>1. Closed # {}  BY <1>4 DEF Walked
    <2>2. Lengths \in SUBSET Nat /\ Lengths # {}
      <3>1. \A q \in Closed : q \in Seq(Steps)  BY <1>1
      <3>2. \A q \in Closed : Len(q) \in Nat  BY <3>1, LenProperties
      <3> QED  BY <2>1, <3>2
    <2>3. PICK n \in Lengths : \A k \in Lengths : n <= k
      <3> HIDE DEF Lengths
      <3>1. IsWellFoundedOn(OpToRel(<, Nat), Nat)  BY NatLessThanWellFounded
      <3>2. PICK n \in Lengths : \A k \in Lengths : ~ (<<k, n>> \in OpToRel(<, Nat))
        BY <2>2, <3>1, WFMin
      <3>3. \A k \in Lengths : ~ (k < n)  BY <2>2, <3>2 DEF OpToRel
      <3>4. \A k \in Lengths : n <= k  BY <2>2, <3>3
      <3> QED  BY <3>4
    <2>4. PICK p \in Closed : Len(p) = n  BY <2>3
    <2>5. ASSUME NEW q \in DOMAIN v, IsStrictPrefix(q, p), Opaque(v, q) PROVE FALSE
      <3>1. IsStrictPrefix(q, r) /\ Len(q) < Len(p)  BY <1>1, <2>4, <2>5, PrefixOfPrefix
      <3>2. Len(q) \in Lengths  BY <2>5, <3>1
      <3>3. Len(p) <= Len(q)  BY <2>3, <2>4, <3>2
      <3>4. Len(p) \in Nat /\ Len(q) \in Nat  BY <1>1, <2>4, LenProperties
      <3> QED  BY <3>1, <3>3, <3>4
    <2>6. p \in Walked(v)  BY <2>4, <2>5 DEF Walked
    <2> QED  BY <2>4, <2>6 DEF IsStrictPrefix
  <1> QED  BY <1>3, <1>4

\* Where two values are the same, so is all that is in them.
LEMMA SameInside ==
  ASSUME NEW v, NEW w, Tree(v), Tree(w), NEW p \in DOMAIN v, p \in DOMAIN w,
         ValueAt(v, p) = ValueAt(w, p), NEW r \in Reached(v, p)
  PROVE  r \in DOMAIN w /\ w[r] = v[r]
  <1>1. /\ DOMAIN v \subseteq Seq(Steps) /\ DOMAIN w \subseteq Seq(Steps)
        /\ \A q \in Reached(v, p) : q \in DOMAIN v /\ p \o Remaining(q, p) = q
        /\ \A q \in Reached(w, p) : q \in DOMAIN w /\ p \o Remaining(q, p) = q
    BY PrefixCompleted DEF Tree, Reached
  <1>2. /\ DOMAIN ValueAt(v, p) = {Remaining(q, p) : q \in Reached(v, p)}
        /\ DOMAIN ValueAt(w, p) = {Remaining(q, p) : q \in Reached(w, p)}
    BY DEF ValueAt
  <1>3. PICK q \in Reached(w, p) : Remaining(q, p) = Remaining(r, p)  BY <1>2
  <1>4. q = r  BY <1>1, <1>3
  <1>5. /\ ValueAt(v, p)[Remaining(r, p)] = v[p \o Remaining(r, p)]
        /\ ValueAt(w, p)[Remaining(r, p)] = w[p \o Remaining(r, p)]
    BY <1>3 DEF ValueAt
  <1> QED  BY <1>1, <1>3, <1>4, <1>5

\* What another tree has where hashing makes the same of both.
LEMMA HashedAlike ==
  ASSUME NEW v, NEW w, Tree(v), Tree(w), policy = "hash", SanitizeTree(v) = SanitizeTree(w),
         NEW r \in DOMAIN v
  PROVE  r \in DOMAIN w /\ w[r] = v[r]
  <1>1. PICK p \in Walked(v) : IsPrefix(p, r) /\ (p = r \/ Opaque(v, p))  BY WalkEnds
  <1>2. Walked(v) = Walked(w) /\ p \in DOMAIN v /\ p \in DOMAIN w /\ p \in Walked(w)
    BY SanitizedNodes
  <1>3. CASE v[p].kind = "leaf" \/ Opaque(v, p)
    <2>1. SanitizeTree(w)[p] = Value(Protect(ValueAt(v, p))) /\ SanitizeTree(w)[p].kind = "leaf"
      BY <1>3, SanitizedNodes
    <2>2. w[p].kind = "leaf" \/ Opaque(w, p)
      <3>1. SUFFICES ASSUME ~ (w[p].kind = "leaf" \/ Opaque(w, p)) PROVE FALSE  OBVIOUS
      <3>2. w[p].kind \in {"array", "object"} /\ SanitizeTree(w)[p] = w[p]
        BY <1>2, <3>1, SanitizedNodes
      <3> QED  BY <2>1, <3>2
    <2>3. SanitizeTree(w)[p] = Value(Protect(ValueAt(w, p)))  BY <1>2, <2>2, SanitizedNodes
    <2>4. Protect(ValueAt(v, p)) = Protect(ValueAt(w, p))  BY <2>1, <2>3 DEF Value
    <2>5. ValueAt(v, p) = ValueAt(w, p)  BY <2>4 DEF Protect, Fingerprint
    <2>6. r \in Reached(v, p)  BY <1>1 DEF Reached
    <2> QED  BY <1>2, <2>5, <2>6, SameInside
  <1>4. CASE ~ (v[p].kind = "leaf" \/ Opaque(v, p))
    <2>1. p = r /\ SanitizeTree(v)[p] = v[p] /\ v[p].kind \in {"array", "object"}
      BY <1>1, <1>4, SanitizedNodes
    <2>2. SanitizeTree(w)[p].kind # "leaf"  BY <2>1
    <2>3. SanitizeTree(w)[p] = w[p]  BY <1>2, <2>2, SanitizedNodes
    <2> QED  BY <1>2, <2>1, <2>3
  <1> QED  BY <1>3, <1>4

\* Hashing tells trees apart.
LEMMA HashIsInjective ==
  ASSUME NEW v, NEW w, Tree(v), Tree(w), policy = "hash", SanitizeTree(v) = SanitizeTree(w)
  PROVE  v = w
  <1>1. \A r \in DOMAIN v : r \in DOMAIN w /\ w[r] = v[r]  BY HashedAlike
  <1>2. \A r \in DOMAIN w : r \in DOMAIN v  BY HashedAlike
  <1>3. DOMAIN v = DOMAIN w  BY <1>1, <1>2
  <1>4. v = [r \in DOMAIN v |-> v[r]] /\ w = [r \in DOMAIN w |-> w[r]]  BY DEF Tree
  <1> QED  BY <1>1, <1>3, <1>4

\* What has been protected stays so, and Protect protects.
LEMMA ProtectProtects ==
  ASSUME policy \in {"redact", "hash"}, NEW s
  PROVE  /\ IsProtected(Protect(s))
         /\ s # Empty => IsProtected(Text(s))
         /\ s \notin {Empty, Known} => IsProtected(Label(s))
         /\ IsProtected(s) => IsProtected(Text(s)) /\ IsProtected(Label(s))
  <1>1. IsProtected(Protect(s))
    <2>1. CASE policy = "redact"  BY <2>1 DEF IsProtected, Protect
    <2>2. CASE policy # "redact"
      <3>1. Protect(s) = <<"sha256", s>>  BY <2>2 DEF Protect, Fingerprint
      <3>2. Len(<<"sha256", s>>) = 2 /\ <<"sha256", s>>[1] = "sha256" /\ Len(<<>>) = 0  OBVIOUS
      <3>3. Protect(s) # Empty /\ Protect(s)[1] = "sha256"  BY <3>1, <3>2 DEF Empty
      <3> QED  BY <2>2, <3>3 DEF IsProtected
    <2> QED  BY <2>1, <2>2
  <1>2. Text(s) = s \/ Text(s) = Protect(s)  BY DEF Text
  <1>3. Label(s) = s \/ Label(s) = Protect(s)  BY DEF Label
  <1>4. s # Empty => Text(s) = Protect(s)  BY DEF Text
  <1>5. s \notin {Empty, Known} => Label(s) = Protect(s)  BY DEF Label
  <1> QED  BY <1>1, <1>2, <1>3, <1>4, <1>5

\* No leaf of a sanitised tree is one of the tree, and no key of an opaque object is left.
LEMMA SanitizedHides ==
  ASSUME NEW v, Tree(v), policy \in {"redact", "hash"}
  PROVE  /\ \A s \in Leaves(SanitizeTree(v)) : IsProtected(s)
         /\ KeysIn(SanitizeTree(v)) \subseteq Keys
  <1>1. ASSUME NEW s \in Leaves(SanitizeTree(v)) PROVE IsProtected(s)
    <2>1. PICK p \in Walked(v) : SanitizeTree(v)[p].kind = "leaf" /\ s = SanitizeTree(v)[p].text
      BY <1>1, SanitizedNodes DEF Leaves
    <2>2. SanitizeTree(v)[p] = Value(Protect(ValueAt(v, p)))  BY <2>1, SanitizedNodes
    <2>3. s = Protect(ValueAt(v, p))  BY <2>1, <2>2 DEF Value
    <2> QED  BY <2>3, ProtectProtects
  <1>2. ASSUME NEW k \in KeysIn(SanitizeTree(v)) PROVE k \in Keys
    <2>1. PICK p \in Walked(v) : /\ SanitizeTree(v)[p].kind = "object"
                                /\ k \in KeysOf(SanitizeTree(v), p)
      BY <1>2, SanitizedNodes DEF KeysIn
    <2>2. v[p].kind = "object" /\ ~ Opaque(v, p)  BY <2>1, SanitizedNodes
    <2>3. k \in KeysOf(v, p)  BY <2>1, SanitizedNodes DEF KeysOf
    <2> QED  BY <2>2, <2>3 DEF Opaque
  <1> QED  BY <1>1, <1>2

\* What leaves in place of a document.
LEMMA DocumentIsHidden ==
  ASSUME NEW v, v \in {Absent, Malformed} \/ Tree(v), policy \in {"redact", "hash"}
  PROVE  /\ SanitizeJSON(v) = Absent \/ Tree(SanitizeJSON(v))
         /\ SanitizeJSON(v) # Malformed
         /\ SanitizeJSON(v) = RedactedJSON \/ \A s \in Leaves(SanitizeJSON(v)) : IsProtected(s)
         /\ SanitizeJSON(v) = RedactedJSON \/ KeysIn(SanitizeJSON(v)) \subseteq Keys
  <1>1. CASE v = Absent
    <2>2. DOMAIN Absent = {} /\ <<>> \in DOMAIN Malformed  BY DEF Absent, Malformed
    <2>1. Absent # Malformed  BY <2>2
    <2>4. SanitizeJSON(v) = Absent  BY <1>1, <2>1 DEF SanitizeJSON
    <2>3. Leaves(Absent) = {} /\ KeysIn(Absent) = {}  BY <2>2 DEF Leaves, KeysIn
    <2> QED  BY <2>1, <2>3, <2>4
  <1>2. CASE v = Malformed
    <2>1. Malformed # Absent
      <3>1. DOMAIN Absent = {} /\ <<>> \in DOMAIN Malformed  BY DEF Absent, Malformed
      <3> QED  BY <3>1
    <2>2. SanitizeJSON(v) = RedactedJSON  BY <1>2, <2>1 DEF SanitizeJSON
    <2> QED  BY <2>2, ConstantIsATree, TreesAreDocuments
  <1>3. CASE Tree(v)
    <2>1. SanitizeJSON(v) = SanitizeTree(v)  BY <1>3, TreesAreDocuments DEF SanitizeJSON
    <2> QED  BY <1>3, <2>1, SanitizedIsATree, TreesAreDocuments, SanitizedHides
  <1> QED  BY <1>1, <1>2, <1>3

\* The keys in a tree are those of its skeleton.
LEMMA KeysOfTheSkeleton ==
  ASSUME NEW v, NEW w, Skeleton(v) = Skeleton(w)
  PROVE  /\ DOMAIN v = DOMAIN w
         /\ \A path \in DOMAIN v : v[path].kind = w[path].kind
         /\ KeysIn(v) = KeysIn(w)
  <1>1. DOMAIN Skeleton(v) = DOMAIN v /\ DOMAIN Skeleton(w) = DOMAIN w  BY DEF Skeleton
  <1>2. DOMAIN v = DOMAIN w  BY <1>1
  <1>3. \A path \in DOMAIN v : Skeleton(v)[path] = v[path].kind /\ Skeleton(w)[path] = w[path].kind
    BY <1>2 DEF Skeleton
  <1>4. \A path \in DOMAIN v : v[path].kind = w[path].kind  BY <1>3
  <1>5. {p \in DOMAIN v : v[p].kind = "object"} = {p \in DOMAIN w : w[p].kind = "object"}
    BY <1>2, <1>4
  <1>6. \A path : KeysOf(v, path) = KeysOf(w, path)  BY <1>2 DEF KeysOf
  <1>7. KeysIn(v) = KeysIn(w)  BY <1>5, <1>6 DEF KeysIn
  <1> QED  BY <1>2, <1>4, <1>7

\* A tree whose keys are all allowed keeps its structure.
LEMMA SkeletonIsKept ==
  ASSUME NEW v, Tree(v), KeysIn(v) \subseteq Keys
  PROVE  Skeleton(SanitizeTree(v)) = Skeleton(v)
  <1>1. ASSUME NEW p \in DOMAIN v PROVE ~ Opaque(v, p)  BY <1>1 DEF KeysIn, Opaque
  <1>2. Walked(v) = DOMAIN v  BY <1>1 DEF Walked
  <1>3. \A p \in DOMAIN v : SanitizeTree(v)[p].kind = v[p].kind  BY <1>1, <1>2, SanitizedNodes
  <1> QED  BY <1>2, <1>3, SanitizedNodes DEF Skeleton

\* A document that has a skeleton keeps it from round to round.
LEMMA SkeletonStays ==
  ASSUME NEW v, Tree(v), NEW w, w \in {Absent, Malformed} \/ Tree(w),
         KeysIn(v) \subseteq Keys, Skeleton(w) = Skeleton(v)
  PROVE  Skeleton(SanitizeJSON(w)) = Skeleton(v)
  <1>1. /\ DOMAIN w = DOMAIN v /\ KeysIn(w) = KeysIn(v)
        /\ \A path \in DOMAIN w : w[path].kind = v[path].kind
    BY KeysOfTheSkeleton
  <1>2. <<>> \in DOMAIN v /\ v[<<>>].kind \in {"leaf", "array", "object"}
    BY KindsInATree DEF Tree
  <1>3. w # Absent  BY <1>1, <1>2 DEF Absent
  <1>4. w # Malformed
    <2>1. Malformed[<<>>].kind = "malformed"  BY DEF Malformed, Container
    <2> QED  BY <1>1, <1>2, <2>1
  <1>5. SanitizeJSON(w) = SanitizeTree(w)  BY <1>3, <1>4 DEF SanitizeJSON
  <1> QED  BY <1>1, <1>3, <1>4, <1>5, SkeletonIsKept

\* Hashing tells texts, labels and documents apart.
LEMMA HashTellsApart ==
  ASSUME policy = "hash", NEW s, NEW t
  PROVE  /\ Text(s) = Text(t) => s = t
         /\ Label(s) = Label(t) => s = t
  <1>1. Protect(s) = Fingerprint(s) /\ Protect(t) = Fingerprint(t)  BY DEF Protect
  <1>2. Fingerprint(s) = Fingerprint(t) => s = t  BY DEF Fingerprint
  <1>3. /\ Len(Empty) = 0 /\ Len(Known) = 1
        /\ Len(Fingerprint(s)) = 2 /\ Len(Fingerprint(t)) = 2
    BY DEF Empty, Known, Fingerprint
  <1>4. {Fingerprint(s), Fingerprint(t)} \cap {Empty, Known} = {}  BY <1>3
  <1>5. Text(s) = Text(t) => s = t  BY <1>1, <1>2, <1>4 DEF Text
  <1>6. Label(s) = Label(t) => s = t  BY <1>1, <1>2, <1>4 DEF Label
  <1> QED  BY <1>5, <1>6

LEMMA HashedDocumentsApart ==
  ASSUME policy = "hash", NEW v, NEW w, v = Absent \/ Tree(v), w = Absent \/ Tree(w),
         SanitizeJSON(v) = SanitizeJSON(w)
  PROVE  v = w
  <1>1. \A u : Tree(u) => SanitizeJSON(u) = SanitizeTree(u) /\ Tree(SanitizeTree(u))
    BY TreesAreDocuments, SanitizedIsATree DEF SanitizeJSON
  <1>2. SanitizeJSON(Absent) = Absent
    <2>1. DOMAIN Absent = {} /\ <<>> \in DOMAIN Malformed  BY DEF Absent, Malformed
    <2>2. Absent # Malformed  BY <2>1
    <2> QED  BY <2>2 DEF SanitizeJSON
  <1>3. \A u : Tree(u) => SanitizeTree(u) # Absent  BY <1>1, TreesAreDocuments
  <1>4. CASE Tree(v) /\ Tree(w)  BY <1>1, <1>4, HashIsInjective
  <1> QED  BY <1>1, <1>2, <1>3, <1>4

-----------------------------------------------------------------------------
LEMMA RedactionInitially == PolicyInit => RedactionInv
  <1> SUFFICES ASSUME PolicyInit PROVE RedactionInv  OBVIOUS
  <1>1. /\ policy \in {"redact", "hash"} /\ part \in Parts /\ round = "given" /\ sanitized = part
    BY DEF PolicyInit
  <1>2. IsPart(sanitized)  BY <1>1, PartsAssumption
  <1>3. NothingRawLeaves /\ UnknownKeysAreHidden  BY <1>1 DEF NothingRawLeaves, UnknownKeysAreHidden
  <1>4. ShapeIsKept  BY <1>1 DEF ShapeIsKept
  <1> QED  BY <1>1, <1>2, <1>3, <1>4 DEF RedactionInv

\* What a policy makes of a part is one.
LEMMA SanitizedPart ==
  ASSUME policy \in {"redact", "hash"}, NEW p, IsPart(p)
  PROVE  /\ IsPart(SanitizePart(p))
         /\ \A f \in {"content", "id", "name"} : SanitizePart(p)[f] = Text(p[f])
         /\ \A f \in {"role", "type"} : SanitizePart(p)[f] = Label(p[f])
         /\ \A f \in {"arguments", "response"} : SanitizePart(p)[f] = SanitizeJSON(p[f])
         /\ Trees(SanitizePart(p)) = {SanitizeJSON(v) : v \in Trees(p)}
  <1>1. \A f \in {"content", "id", "name"} : SanitizePart(p)[f] = Text(p[f])  BY DEF SanitizePart
  <1>2. \A f \in {"role", "type"} : SanitizePart(p)[f] = Label(p[f])  BY DEF SanitizePart
  <1>3. \A f \in {"arguments", "response"} : SanitizePart(p)[f] = SanitizeJSON(p[f])
    BY DEF SanitizePart
  <1>4. Trees(SanitizePart(p)) = {SanitizeJSON(v) : v \in Trees(p)}  BY <1>3 DEF Trees
  <1>5. \A v \in Trees(SanitizePart(p)) : v \in {Absent, Malformed} \/ Tree(v)
    BY <1>4, DocumentIsHidden DEF IsPart
  <1>6. SanitizePart(p) =
          [role |-> SanitizePart(p).role, type |-> SanitizePart(p).type,
           content |-> SanitizePart(p).content, id |-> SanitizePart(p).id,
           name |-> SanitizePart(p).name, arguments |-> SanitizePart(p).arguments,
           response |-> SanitizePart(p).response]
    BY DEF SanitizePart
  <1>7. IsPart(SanitizePart(p))  BY <1>5, <1>6 DEF IsPart
  <1> QED  BY <1>1, <1>2, <1>3, <1>4, <1>7

\* A round of a policy hides what was there, and keeps what an earlier one kept.
LEMMA RedactionStep == RedactionInv /\ [PolicyNext]_policyVars => RedactionInv'
  <1> SUFFICES ASSUME RedactionInv, [PolicyNext]_policyVars PROVE RedactionInv'  OBVIOUS
  <1>1. CASE Sanitize
    <2>1. /\ policy \in {"redact", "hash"} /\ part \in Parts /\ IsPart(sanitized) /\ IsPart(part)
          /\ round \in {"given", "once"} /\ round' \in {"once", "twice"}
          /\ sanitized' = SanitizePart(sanitized) /\ policy' = policy /\ part' = part
          /\ round' = "once" => round = "given"
          /\ round = "given" => sanitized = part
          /\ ShapeIsKept
      BY <1>1, PartsAssumption DEF Sanitize, RedactionInv
    <2>2. /\ IsPart(sanitized')
          /\ \A f \in {"content", "id", "name"} : sanitized'[f] = Text(sanitized[f])
          /\ \A f \in {"role", "type"} : sanitized'[f] = Label(sanitized[f])
          /\ \A f \in {"arguments", "response"} : sanitized'[f] = SanitizeJSON(sanitized[f])
          /\ Trees(sanitized') = {SanitizeJSON(v) : v \in Trees(sanitized)}
      BY <2>1, SanitizedPart
    <2>3. NothingRawLeaves'
      <3>1. ASSUME NEW f \in {"content", "id", "name"}, part[f] # Empty PROVE IsProtected(sanitized'[f])
        <4>1. CASE round = "given"  BY <2>1, <2>2, <3>1, <4>1, ProtectProtects
        <4>2. CASE round = "once"
          <5>1. IsProtected(sanitized[f])  BY <3>1, <4>2 DEF RedactionInv, NothingRawLeaves
          <5> QED  BY <2>1, <2>2, <5>1, ProtectProtects
        <4> QED  BY <2>1, <4>1, <4>2
      <3>2. ASSUME NEW f \in {"role", "type"}, part[f] \notin {Empty, Known}
            PROVE  IsProtected(sanitized'[f])
        <4>1. CASE round = "given"  BY <2>1, <2>2, <3>2, <4>1, ProtectProtects
        <4>2. CASE round = "once"
          <5>1. IsProtected(sanitized[f])  BY <3>2, <4>2 DEF RedactionInv, NothingRawLeaves
          <5> QED  BY <2>1, <2>2, <5>1, ProtectProtects
        <4> QED  BY <2>1, <4>1, <4>2
      <3>3. \A v \in Trees(sanitized') :
              v # Malformed /\ (v = RedactedJSON \/ \A s \in Leaves(v) : IsProtected(s))
        BY <2>1, <2>2, DocumentIsHidden DEF IsPart
      <3> QED  BY <2>1, <3>1, <3>2, <3>3 DEF NothingRawLeaves, IsProtected
    <2>4. UnknownKeysAreHidden'
      <3>1. \A v \in Trees(sanitized') : v = RedactedJSON \/ KeysIn(v) \subseteq Keys
        BY <2>1, <2>2, DocumentIsHidden DEF IsPart
      <3> QED  BY <2>1, <3>1 DEF UnknownKeysAreHidden, Keys
    <2>5. ShapeIsKept'
      <3>1. ASSUME NEW f \in {"arguments", "response"}, part[f] \notin {Absent, Malformed},
                   KeysIn(part[f]) \subseteq Keys
            PROVE  Skeleton(sanitized'[f]) = Skeleton(part[f])
        <4>1. Skeleton(sanitized[f]) = Skeleton(part[f])  BY <2>1, <3>1 DEF ShapeIsKept
        <4>2. Tree(part[f])  BY <2>1, <3>1 DEF IsPart, Trees
        <4>3. sanitized[f] \in {Absent, Malformed} \/ Tree(sanitized[f])  BY <2>1 DEF IsPart, Trees
        <4> QED  BY <2>2, <3>1, <4>1, <4>2, <4>3, SkeletonStays
      <3>2. \A f \in {"role", "type"} : part[f] \in {Empty, Known} => sanitized'[f] = part[f]
        BY <2>1, <2>2 DEF ShapeIsKept, Label
      <3>3. \A f \in {"content", "id", "name"} : part[f] = Empty => sanitized'[f] = Empty
        BY <2>1, <2>2 DEF ShapeIsKept, Text
      <3> QED  BY <2>1, <3>1, <3>2, <3>3 DEF ShapeIsKept, Keys
    <2>6. round' = "once" => sanitized' = SanitizePart(part)'
      <3>1. SanitizePart(part)' = SanitizePart(part)
        BY <2>1 DEF SanitizePart, SanitizeJSON, SanitizeTree, Walked, Opaque, Keys, Text, Label, Protect
      <3> QED  BY <2>1, <3>1
    <2>7. IsPart(sanitized)'  BY <2>2
    <2> QED  BY <2>1, <2>3, <2>4, <2>5, <2>6, <2>7 DEF RedactionInv
  <1>2. CASE UNCHANGED policyVars
    <2>1. policy' = policy /\ part' = part /\ sanitized' = sanitized /\ round' = round
      BY <1>2 DEF policyVars
    <2> QED
      BY <2>1 DEF RedactionInv, NothingRawLeaves, UnknownKeysAreHidden, ShapeIsKept, IsProtected, Keys,
                  SanitizePart, SanitizeJSON, SanitizeTree, Walked, Opaque, Text, Label, Protect
  <1> QED  BY <1>1, <1>2 DEF PolicyNext

\* The invariant implies what the policies promise.
LEMMA RedactionSuffices == RedactionInv => NothingPrivateLeaves
  <1> SUFFICES ASSUME RedactionInv PROVE NothingPrivateLeaves  OBVIOUS
  <1>1. ASSUME round = "once", policy = "hash", NEW p \in Parts, p # part,
               Malformed \notin Trees(p) \cup Trees(part), SanitizePart(p) = sanitized
        PROVE  FALSE
    <2>1. sanitized = SanitizePart(part) /\ IsPart(p) /\ IsPart(part)
      BY <1>1, PartsAssumption DEF RedactionInv
    <2>2. SanitizePart(p) = SanitizePart(part)  BY <1>1, <2>1
    <2>3. \A f \in {"content", "id", "name"} : p[f] = part[f]
      BY <1>1, <2>1, <2>2, SanitizedPart, HashTellsApart
    <2>4. \A f \in {"role", "type"} : p[f] = part[f]
      BY <1>1, <2>1, <2>2, SanitizedPart, HashTellsApart
    <2>5. \A f \in {"arguments", "response"} : p[f] = part[f]
      <3> TAKE f \in {"arguments", "response"}
      <3>1. SanitizeJSON(p[f]) = SanitizeJSON(part[f])  BY <1>1, <2>1, <2>2, SanitizedPart
      <3>2. p[f] \in Trees(p) /\ part[f] \in Trees(part)  BY DEF Trees
      <3>3. (p[f] = Absent \/ Tree(p[f])) /\ (part[f] = Absent \/ Tree(part[f]))
        BY <1>1, <2>1, <3>2 DEF IsPart
      <3> QED  BY <1>1, <3>1, <3>3, HashedDocumentsApart
    <2>6. p = part  BY <2>1, <2>3, <2>4, <2>5 DEF IsPart
    <2> QED  BY <1>1, <2>6
  <1>2. FingerprintsTellApart  BY <1>1 DEF FingerprintsTellApart
  <1> QED  BY <1>2 DEF RedactionInv, NothingPrivateLeaves

\* Whatever a part holds, what sanitizePayload lets out under either policy is protected, shows no key
\* that was not allowed, and is of use: allowed structure stays, and hashing makes the same of no two
\* parts (redactContentPart, hashContentPart, sanitizeJSONValue).
THEOREM PoliciesHide == PolicySpec => []NothingPrivateLeaves
  <1>1. PolicySpec => []RedactionInv  BY RedactionInitially, RedactionStep, PTL DEF PolicySpec
  <1> QED  BY <1>1, RedactionSuffices, PTL

-----------------------------------------------------------------------------
\* A tree of allowed keys and protected leaves is what redaction makes of it.
LEMMA RedactedTreeStays ==
  ASSUME policy = "redact", NEW v, Tree(v), KeysIn(v) \subseteq Keys,
         \A s \in Leaves(v) : IsProtected(s)
  PROVE  SanitizeTree(v) = v
  <1>1. ASSUME NEW p \in DOMAIN v PROVE ~ Opaque(v, p)  BY <1>1 DEF KeysIn, Opaque
  <1>2. Walked(v) = DOMAIN v  BY <1>1 DEF Walked
  <1>3. ASSUME NEW p \in DOMAIN v PROVE SanitizeTree(v)[p] = v[p]
    <2>1. CASE v[p].kind = "leaf"
      <3>1. v[p] = Value(v[p].text)  BY <2>1, KindsInATree
      <3>2. v[p].text = Redacted  BY <2>1 DEF Leaves, IsProtected
      <3>3. SanitizeTree(v)[p] = Value(Redacted)  BY <1>2, <2>1 DEF SanitizeTree, Protect
      <3> QED  BY <3>1, <3>2, <3>3
    <2>2. CASE v[p].kind # "leaf"  BY <1>1, <1>2, <2>2, SanitizedNodes
    <2> QED  BY <2>1, <2>2
  <1>4. v = [p \in DOMAIN v |-> v[p]]  BY DEF Tree
  <1>5. SanitizeTree(v) = [p \in DOMAIN v |-> SanitizeTree(v)[p]]  BY <1>2 DEF SanitizeTree
  <1> QED  BY <1>3, <1>4, <1>5

\* Redaction settles after one round: a part that passes the policy again, as one that a host's
\* adapter had redacted does (redactPayloadPolicy), leaves as it is; only what stands for a
\* document that did not decode is looked into.
THEOREM RedactionSettles ==
  PolicySpec =>
    [](policy = "redact" /\ round # "given" /\ RedactedJSON \notin Trees(sanitized) =>
         SanitizePart(sanitized) = sanitized)
  <1>1. PolicySpec => []RedactionInv  BY RedactionInitially, RedactionStep, PTL DEF PolicySpec
  <1>2. RedactionInv =>
          (policy = "redact" /\ round # "given" /\ RedactedJSON \notin Trees(sanitized) =>
             SanitizePart(sanitized) = sanitized)
    <2> SUFFICES ASSUME RedactionInv, policy = "redact", round # "given",
                        RedactedJSON \notin Trees(sanitized)
                 PROVE  SanitizePart(sanitized) = sanitized
      OBVIOUS
    <2>1. IsPart(sanitized) /\ NothingRawLeaves /\ UnknownKeysAreHidden /\ ShapeIsKept
      BY DEF RedactionInv
    <2>2. \A s : Protect(s) = Redacted /\ (IsProtected(s) <=> s = Redacted)  BY DEF Protect, IsProtected
    <2>3. \A f \in {"content", "id", "name"} : sanitized[f] \in {Empty, Redacted}
      BY <2>1, <2>2 DEF NothingRawLeaves, ShapeIsKept
    <2>4. \A f \in {"role", "type"} : sanitized[f] \in {Empty, Known, Redacted}
      BY <2>1, <2>2 DEF NothingRawLeaves, ShapeIsKept
    <2>5. \A s \in {Empty, Redacted} : Text(s) = s  BY <2>2 DEF Text
    <2>6. \A s \in {Empty, Known, Redacted} : Label(s) = s  BY <2>2 DEF Label
    <2>7. ASSUME NEW v \in Trees(sanitized) PROVE SanitizeJSON(v) = v
      <3>1. /\ v # RedactedJSON /\ v # Malformed /\ (v = Absent \/ Tree(v))
            /\ KeysIn(v) \subseteq Keys /\ \A s \in Leaves(v) : IsProtected(s)
        BY <2>1, <2>7 DEF IsPart, NothingRawLeaves, UnknownKeysAreHidden
      <3>2. CASE v = Absent
        <4>1. v # Malformed  BY <3>1
        <4> QED  BY <3>2, <4>1 DEF SanitizeJSON
      <3>3. CASE Tree(v)
        <4>1. SanitizeJSON(v) = SanitizeTree(v)  BY <3>3, TreesAreDocuments DEF SanitizeJSON
        <4> QED  BY <3>1, <3>3, <4>1, RedactedTreeStays
      <3> QED  BY <3>1, <3>2, <3>3
    <2>8. \A f \in {"arguments", "response"} : SanitizeJSON(sanitized[f]) = sanitized[f]
      BY <2>7 DEF Trees
    <2> QED  BY <2>1, <2>3, <2>4, <2>5, <2>6, <2>8 DEF SanitizePart, IsPart
  <1> QED  BY <1>1, <1>2, PTL
=============================================================================
