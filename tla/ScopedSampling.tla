--------------------------- MODULE ScopedSampling ---------------------------
(***************************************************************************)
(* What a context decides for a recording in it: genai/scope_context.go    *)
(* gives it the defaults of its metadata, internal/genai/hint_sampler.go   *)
(* whether it is sampled. Contexts are immutable: each call derives one    *)
(* from any of those there are. A field written by the n-th call has the   *)
(* value n.                                                                *)
(***************************************************************************)
EXTENDS Naturals, Sequences, FiniteSetsExt

CONSTANTS MaxContexts  \* bound: contexts derived from the first one

ASSUME MaxContextsAssumption == MaxContexts \in Nat

Fields == {"Provider", "Model"}  \* the four fields of Scope are alike
Unset == 0
NoLedger == [f \in Fields |-> [value |-> Unset, local |-> FALSE, type |-> "string"]]
NoFields == [f \in Fields |-> Unset]

VARIABLES base,     \* the decision of the base sampler, for roots
          contexts  \* of each: private scope, ledger, baggage, span; history: the calls it is made of

scopeVars == <<base, contexts>>

\* A nil base sampler never samples.
ScopeInit ==
  /\ base \in {"always", "never", "nil"}
  /\ contexts = <<[scope |-> NoFields, ledger |-> NoLedger, baggage |-> NoFields, span |-> <<>>, calls |-> <<>>]>>

Derive(context, call) ==
  /\ contexts' = Append(contexts, [context EXCEPT !.calls = Append(@, call)])
  /\ UNCHANGED base

Now == Len(contexts)
MayDerive == Now <= MaxContexts
Written(fields) == [f \in Fields |-> IF f \in fields THEN Now ELSE Unset]

-----------------------------------------------------------------------------
\* Mutant: what is there already stays.
MergeUnder(scope, defaults) == [f \in Fields |-> IF defaults[f] # Unset THEN defaults[f] ELSE scope[f]]

\* mergeScope: an empty field keeps the previous default.
MergeScope(scope, defaults) == [f \in Fields |-> IF scope[f] # Unset THEN scope[f] ELSE defaults[f]]

\* WithScope; an empty scope gives the context back.
WithScope(c) ==
  /\ MayDerive
  /\ \E fields \in SUBSET Fields \ {{}} :
       Derive([c EXCEPT !.scope = MergeScope(Written(fields), @)],
              [name |-> "WithScope", fields |-> fields, value |-> Now, type |-> "string"])

\* enrichment.Put, of one of the keys of a scope: by Enrich, or admitted by Extract.
Put(c) ==
  /\ MayDerive
  /\ \E f \in Fields, local \in BOOLEAN, type \in {"string", "int"} :
       Derive([c EXCEPT !.ledger[f] =
                 IF local \/ ~@.local THEN [value |-> Now, local |-> local, type |-> type] ELSE @],
              [name |-> IF local THEN "Enrich" ELSE "Extract", fields |-> {f}, value |-> Now, type |-> type])

\* Host code writes OTel baggage under the same keys.
SetBaggage(c) ==
  /\ MayDerive
  /\ Derive([c EXCEPT !.baggage = Written(Fields)],
            [name |-> "SetBaggage", fields |-> Fields, value |-> Now, type |-> "string"])

\* The values of the keep attribute among the options of a start, in their order.
Hints == {<<>>, <<"true">>, <<"true", "false">>, <<"false", "true">>, <<"true", "text">>}
LastHint(hints) == IF hints = <<>> THEN "none" ELSE hints[Len(hints)]

\* hasSamplingKeepHint: the last one counts, and only as a bool.
KeepHint(hints) == LastHint(hints) = "true"

\* ShouldSample: the hint, the parent, the base sampler.
ShouldSample(parent, hints) ==
  \/ KeepHint(hints)
  \/ parent # <<>> /\ parent[1].sampled
  \/ parent = <<>> /\ base = "always"

\* A recording starts a span, detached or not; the SDK keeps the last value of an
\* attribute.
StartSpan(c) ==
  /\ MayDerive
  /\ \E hints \in Hints, detached \in BOOLEAN :
       LET parent == IF detached THEN <<>> ELSE c.span
       IN Derive([c EXCEPT !.span = <<[sampled |-> ShouldSample(parent, hints), keep |-> LastHint(hints),
                                       parent |-> parent]>>],
                 [name |-> "StartSpan", fields |-> {}, value |-> Now, type |-> "string"])

ScopeNext ==
  \E i \in DOMAIN contexts :
    LET c == contexts[i] IN WithScope(c) \/ Put(c) \/ SetBaggage(c) \/ StartSpan(c)

ScopeSpec == ScopeInit /\ [][ScopeNext]_scopeVars

-----------------------------------------------------------------------------
\* ScopeFromContext: the private scope, then trusted strings; no baggage.
ScopeFromContext(c) ==
  MergeScope(c.scope, [f \in Fields |-> IF c.ledger[f].type = "string" THEN c.ledger[f].value ELSE Unset])

\* mergeMetaFromScope: what a recording in the context is emitted with.
Emitted(c, meta) == MergeScope(meta, ScopeFromContext(c))

-----------------------------------------------------------------------------
Calls(c, name, f) == {k \in DOMAIN c.calls : c.calls[k].name = name /\ f \in c.calls[k].fields}

\* The call that decides a field: the last one of the strongest kind there is.
Strength == <<"WithScope", "Enrich", "Extract">>
Decisive(c, f) ==
  LET kinds == {k \in DOMAIN Strength : Calls(c, Strength[k], f) # {}}
  IN IF kinds = {} THEN {} ELSE {c.calls[Max(Calls(c, Strength[Min(kinds)], f))]}

\* "Non-empty fields merge over previous local defaults; ScopeFromContext fills
\* remaining fields from trusted enrichment, and explicit Meta wins": of the calls
\* a context is made of, in whatever order, the innermost scope decides, then the
\* last local value, then the last one admitted, if it is a string; never a call on
\* a sibling context, and never baggage.
InnermostDecides ==
  \A i \in DOMAIN contexts, explicit \in SUBSET Fields, f \in Fields :
    LET c == contexts[i]
        meta == [g \in Fields |-> IF g \in explicit THEN MaxContexts + 2 ELSE Unset]
        said == {call.value : call \in {d \in Decisive(c, f) : d.type = "string"}}
    IN {Emitted(c, meta)[f]} = CASE f \in explicit -> {meta[f]}
                                 [] f \notin explicit /\ said # {} -> said
                                 [] OTHER -> {Unset}

\* "Without keep hint, sampled parent context is inherited; the base sampler is
\* consulted for new root spans": a trace is sampled or dropped as a whole, but for
\* spans that carry keep = true, and those are never dropped.
TracesAreWhole ==
  \A i \in DOMAIN contexts : contexts[i].span # <<>> =>
    LET s == contexts[i].span[1]
    IN /\ s.keep = "true" => s.sampled
       /\ s.keep # "true" =>
            s.sampled = IF s.parent = <<>> THEN base = "always" ELSE s.parent[1].sampled

\* Every recording is emitted and sampled as its context says.
ContextDecides ==
  Now \in 1..MaxContexts + 1 /\ InnermostDecides /\ TracesAreWhole
=============================================================================
