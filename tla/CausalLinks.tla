---------------------------- MODULE CausalLinks ----------------------------
(***************************************************************************)
(* genai/operation_handle.go, recordingLinks: the links of a recording are *)
(* its detached origin and the handles of its options, each identity once, *)
(* disabled handles left out. One action is one step of the function.      *)
(***************************************************************************)
EXTENDS Naturals, Sequences

CONSTANTS Identities,  \* pairs of a trace and a span ID
          Variants,    \* what else a span context carries: flags, state, remote
          MaxLinks,    \* maxCausalLinks
          Disabled, Invalid, NoOrigin

ASSUME LinksAssumption ==
  /\ MaxLinks \in Nat /\ Disabled # Invalid
  /\ \A x \in {Disabled, Invalid, NoOrigin} : x \notin [id : Identities, rest : Variants]

\* A span context; two handles may name one span and differ in the rest.
Contexts == [id : Identities, rest : Variants]
Handles == Contexts \cup {Disabled, Invalid}

VARIABLES wanted,   \* options.Links
          origin,  \* Detached: the span context of ctx, or NoOrigin
          next,    \* the next handle to look at
          links, step

linkVars == <<wanted, origin, next, links, step>>

LinksInitWith(options) ==
  /\ wanted \in options
  /\ origin \in Contexts \cup {NoOrigin}
  /\ next = 1 /\ links = <<>> /\ step = "validate"

LinksInit == LinksInitWith(Seq(Handles))

Go(from, to) == step = from /\ step' = to

-----------------------------------------------------------------------------
\* validateCausalRecordingOptions counts every handle, disabled ones and
\* repeated ones too.
TooManyOptions ==
  /\ Len(wanted) > MaxLinks /\ Go("validate", "too_large")
  /\ UNCHANGED <<wanted, origin, next, links>>

\* The origin of a detached recording comes first.
Seed ==
  /\ Len(wanted) <= MaxLinks /\ Go("validate", "scan")
  /\ links' = IF origin = NoOrigin THEN <<>> ELSE <<origin>>
  /\ UNCHANGED <<wanted, origin, next>>

Scanning == step = "scan" /\ next <= Len(wanted)
Advance == next' = next + 1

Refuse ==
  /\ Scanning /\ wanted[next] = Invalid
  /\ step' = "invalid" /\ links' = <<>>
  /\ UNCHANGED <<wanted, origin, next>>

Skip ==
  /\ Scanning /\ wanted[next] = Disabled
  /\ Advance
  /\ UNCHANGED <<wanted, origin, links, step>>

\* The identity is linked already.
Repeated(c) == \E k \in 1..Len(links) : links[k].id = c.id

SkipRepeated ==
  /\ Scanning /\ wanted[next] \in Contexts /\ Repeated(wanted[next])
  /\ Advance
  /\ UNCHANGED <<wanted, origin, links, step>>

AppendLink ==
  /\ Scanning /\ wanted[next] \in Contexts /\ ~Repeated(wanted[next])
  /\ links' = Append(links, wanted[next])
  /\ Advance
  /\ UNCHANGED <<wanted, origin, step>>

\* Mutant: the bound on the options is thought to be enough.
ReturnUnchecked ==
  /\ step = "scan" /\ next > Len(wanted)
  /\ step' = "linked"
  /\ UNCHANGED <<wanted, origin, next, links>>

\* The origin may be one too many.
Return ==
  /\ step = "scan" /\ next > Len(wanted)
  /\ IF Len(links) > MaxLinks
     THEN step' = "too_large" /\ links' = <<>>
     ELSE step' = "linked" /\ UNCHANGED links
  /\ UNCHANGED <<wanted, origin, next>>

LinksNext == TooManyOptions \/ Seed \/ Refuse \/ Skip \/ SkipRepeated \/ AppendLink \/ Return

LinksSpec == LinksInit /\ [][LinksNext]_linkVars

-----------------------------------------------------------------------------
Linked == {links[k].id : k \in 1..Len(links)}
Looked == {wanted[k].id : k \in {m \in 1..next - 1 : m <= Len(wanted) /\ wanted[m] \in Contexts}}
Own == IF origin = NoOrigin THEN {} ELSE {origin.id}

\* Types; the scan stays inside the options.
LinksTypeOK ==
  /\ wanted \in Seq(Handles)
  /\ origin \in Contexts \cup {NoOrigin}
  /\ links \in Seq(Contexts)
  /\ next \in 1..Len(wanted) + 1
  /\ step \in {"validate", "scan", "linked", "invalid", "too_large"}

\* No span is linked twice, whatever flags or state its handles carry.
EachOnce == \A k, m \in 1..Len(links) : links[k].id = links[m].id => k = m

\* What is returned links every span a handle names, and the origin, and no other.
NothingDropped == step = "linked" => Linked = Looked \cup Own /\ next = Len(wanted) + 1

\* An accepted recording has at most MaxLinks links, and a refused one has none
\* and was given too many, its origin included, or an invalid handle.
BoundedOrRefused ==
  /\ step = "linked" => Len(links) <= MaxLinks /\ \A k \in 1..Len(wanted) : wanted[k] # Invalid
  /\ step \in {"invalid", "too_large"} => links = <<>>
  /\ step = "too_large" => Len(wanted) + (IF origin = NoOrigin THEN 0 ELSE 1) > MaxLinks
  /\ step = "invalid" => \E k \in 1..Len(wanted) : wanted[k] = Invalid

\* Every span once, or an error that is deserved.
LinksAreExact == LinksTypeOK /\ EachOnce /\ NothingDropped /\ BoundedOrRefused
=============================================================================
