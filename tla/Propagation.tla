---------------------------- MODULE Propagation ----------------------------
(***************************************************************************)
(* Context that travels between services: a trace reference and business   *)
(* values. A request's context keeps a private ledger of trusted values    *)
(* (internal/enrichment) beside the visible baggage; Enrich writes both,   *)
(* the policy propagator injects from the ledger and extracts into it, and *)
(* a trace snapshot carries the trace alone over a durable queue. Carriers *)
(* are reused by the host, and peers without metry write them too.         *)
(***************************************************************************)
EXTENDS Integers, FiniteSets, FiniteSetsExt

CONSTANTS Services,    \* processes with a metry provider
          Peer, Host,  \* a foreign sender; host code that writes baggage itself
          Keys,        \* names of values, numbered in their sorted order
          Size,        \* encoded bytes of the member of a key
          LogKeys,     \* keys reserved for log records: msg, time, level ...
          Policies,    \* propagation policies a provider may have
          Carriers, MaxMembers, MaxBytes,
          None

Originators == Services \cup {Peer, Host}

ASSUME PropagationAssumption ==
  /\ Keys \subseteq Nat /\ IsFiniteSet(Keys) /\ Size \in [Keys -> Nat] /\ LogKeys \subseteq Keys
  /\ MaxMembers \in Nat /\ MaxBytes \in Nat
  /\ Peer # Host /\ {Peer, Host} \cap Services = {} /\ None \notin Originators
  /\ \A p \in Policies : {"reject", "ingress", "egress", "reserved"} \subseteq DOMAIN p

VARIABLES policy,    \* of each service
          span,      \* of each request: the service whose trace it is part of
          ledger,    \* of each request: its trusted values, by key
          bag,       \* of each request: its visible baggage, by key
          carrier,   \* the declared fields of each carrier, and who wrote them
          snapshots  \* trace snapshots in durable storage

vars == <<policy, span, ledger, bag, carrier, snapshots>>

\* Of a value: who made it, whether its type marker parses, whether it is
\* local to the request, and (history) the services that extracted it.
NoValue == [by |-> None, scalar |-> FALSE, local |-> FALSE, via |-> {}]
Empty == [k \in Keys |-> NoValue]
Value(by, scalar, local) == [by |-> by, scalar |-> scalar, local |-> local, via |-> {}]
Has(values, k) == values[k] # NoValue
KeysOf(values) == {k \in Keys : Has(values, k)}
Keep(values, kept) == [k \in Keys |-> IF k \in kept THEN values[k] ELSE NoValue]
Over(old, new) == [k \in Keys |-> IF Has(new, k) THEN new[k] ELSE old[k]]

Init ==
  /\ policy \in [Services -> Policies]
  /\ span = [s \in Services |-> None]
  /\ ledger = [s \in Services |-> Empty] /\ bag = [s \in Services |-> Empty]
  /\ carrier = [c \in Carriers |-> [by |-> None, trace |-> None, bag |-> Empty]]
  /\ snapshots = {}

-----------------------------------------------------------------------------
UpTo(k, keys) == {m \in keys : m <= k}

\* Members are separated by a comma.
Bytes(keys) == IF keys = {} THEN 0 ELSE MapThenSumSet(LAMBDA m : Size[m] + 1, keys) - 1

WithinBounds(keys) == Cardinality(keys) <= MaxMembers /\ Bytes(keys) <= MaxBytes

\* baggageutil.Build takes members in the order of keys, and stops at the first that
\* does not fit.
Fit(keys) == {k \in keys : \A j \in UpTo(k, keys) : WithinBounds(UpTo(j, keys))}

Build(values) == Keep(values, Fit(KeysOf(values)))

\* Mutant: the last writer wins.
PutLast(old, incoming) == Over(old, incoming)

\* enrichment.Put: a remote value never replaces a local one.
Put(old, incoming) ==
  Over(old, Keep(incoming, {k \in Keys : incoming[k].local \/ ~old[k].local}))

-----------------------------------------------------------------------------
\* A new request, in the context of the process.
NewRequest(s) ==
  /\ span' = [span EXCEPT ![s] = None]
  /\ ledger' = [ledger EXCEPT ![s] = Empty] /\ bag' = [bag EXCEPT ![s] = Empty]
  /\ UNCHANGED <<policy, carrier, snapshots>>

\* A span continues the trace of the context, or starts one.
StartSpan(s) ==
  /\ span[s] = None /\ span' = [span EXCEPT ![s] = s]
  /\ UNCHANGED <<policy, ledger, bag, carrier, snapshots>>

\* Mutant: the baggage of the context wins over the ledger.
EnrichUnder(s, k) ==
  LET put == Put(ledger[s], [Empty EXCEPT ![k] = Value(s, TRUE, TRUE)])
  IN /\ ledger' = [ledger EXCEPT ![s] = put]
     /\ bag' = [bag EXCEPT ![s] = Build(Over(put, bag[s]))]
     /\ UNCHANGED <<policy, span, carrier, snapshots>>

\* Enrich: the ledger, then the baggage, rebuilt from what it holds and the ledger.
Enrich(s, k) ==
  LET put == Put(ledger[s], [Empty EXCEPT ![k] = Value(s, TRUE, TRUE)])
  IN /\ ledger' = [ledger EXCEPT ![s] = put]
     /\ bag' = [bag EXCEPT ![s] = Build(Over(bag[s], put))]
     /\ UNCHANGED <<policy, span, carrier, snapshots>>

\* The host writes baggage with the SDK's own functions.
WriteBaggage(s, k) ==
  /\ bag' = [bag EXCEPT ![s] = Build([@ EXCEPT ![k] = Value(Host, TRUE, FALSE)])]
  /\ UNCHANGED <<policy, span, ledger, carrier, snapshots>>

-----------------------------------------------------------------------------
\* Mutant: the whole ledger leaves.
ExportedUnfiltered(s) == Build(ledger[s])

\* What leaves: trusted values that the egress list names, as many as fit.
Exported(s) == Build(Keep(ledger[s], policy[s].egress))

\* Mutant: fields of an earlier use stay unless there is a new value.
InjectOver(s, c) ==
  /\ carrier' = [carrier EXCEPT ![c] =
       [by |-> s, trace |-> IF span[s] = None THEN @.trace ELSE span[s],
        bag |-> IF Exported(s) = Empty THEN @.bag ELSE Exported(s)]]
  /\ UNCHANGED <<policy, span, ledger, bag, snapshots>>

\* Inject: every declared field is cleared, then written from the context.
Inject(s, c) ==
  /\ carrier' = [carrier EXCEPT ![c] = [by |-> s, trace |-> span[s], bag |-> Exported(s)]]
  /\ UNCHANGED <<policy, span, ledger, bag, snapshots>>

\* What the ingress list names, is not reserved, and parses as its type says.
Imported(s, c) ==
  LET trusted == policy[s].ingress \ (LogKeys \cup policy[s].reserved)
  IN Keep(carrier[c].bag, {k \in trusted : carrier[c].bag[k].scalar})

\* Extract: trace if accepted; trusted values, none of them local here; then the
\* baggage is rebuilt from the ledger alone. (ExtractFromMap does not get here
\* with an empty map, which leaves the context alone.)
Extract(s, c) ==
  LET arrived == [k \in Keys |-> IF ~Has(Imported(s, c), k) THEN NoValue
                    ELSE [Imported(s, c)[k] EXCEPT !.local = FALSE, !.via = @ \cup {s}]]
      put == Put(ledger[s], arrived)
  IN /\ span' = [span EXCEPT ![s] = IF policy[s].reject \/ carrier[c].trace = None
                                    THEN @ ELSE carrier[c].trace]
     /\ ledger' = [ledger EXCEPT ![s] = put]
     /\ bag' = [bag EXCEPT ![s] = Build(put)]
     /\ UNCHANGED <<policy, carrier, snapshots>>

\* A peer writes what it likes, well typed or not.
PeerSends(c, trace, k, scalar) ==
  /\ carrier' = [carrier EXCEPT ![c] =
       [by |-> Peer, trace |-> trace, bag |-> [Empty EXCEPT ![k] = Value(Peer, scalar, FALSE)]]]
  /\ UNCHANGED <<policy, span, ledger, bag, snapshots>>

-----------------------------------------------------------------------------
\* TraceSnapshotFromContext and Marshal; a context without a trace has none.
TakeSnapshot(s) ==
  /\ span[s] # None /\ snapshots' = snapshots \cup {span[s]}
  /\ UNCHANGED <<policy, span, ledger, bag, carrier>>

\* ContextWithTraceSnapshot; a provider that rejects remote traces changes nothing.
Restore(s, t) ==
  /\ ~policy[s].reject /\ span' = [span EXCEPT ![s] = t]
  /\ UNCHANGED <<policy, ledger, bag, carrier, snapshots>>

Next ==
  \/ \E s \in Services : NewRequest(s) \/ StartSpan(s) \/ TakeSnapshot(s)
  \/ \E s \in Services, k \in Keys : Enrich(s, k) \/ WriteBaggage(s, k)
  \/ \E s \in Services, c \in Carriers : Inject(s, c) \/ Extract(s, c)
  \/ \E c \in Carriers, t \in {Peer, None}, k \in Keys, b \in BOOLEAN : PeerSends(c, t, k, b)
  \/ \E s \in Services, t \in snapshots : Restore(s, t)

Spec == Init /\ [][Next]_vars

-----------------------------------------------------------------------------
IsValue(v) ==
  /\ v.by \in Originators /\ v.scalar \in BOOLEAN /\ v.local \in BOOLEAN /\ v.via \subseteq Services

\* Types, and: every trusted value has a type marker that parses.
TypeOK ==
  /\ policy \in [Services -> Policies]
  /\ span \in [Services -> Services \cup {Peer, None}]
  /\ \A s \in Services, k \in Keys :
       /\ Has(ledger[s], k) => IsValue(ledger[s][k]) /\ ledger[s][k].scalar
       /\ Has(bag[s], k) => IsValue(bag[s][k])
  /\ \A c \in Carriers : /\ carrier[c].by \in Originators \cup {None}
                         /\ \A k \in KeysOf(carrier[c].bag) : IsValue(carrier[c].bag[k])
  /\ snapshots \subseteq Services \cup {Peer}

\* A value that is trusted somewhere was named by the ingress list of every
\* service it came through, was reserved in none, and was named by the egress
\* list of every service it left, its maker's included, however many hops ago.
CrossedAllowedHopsOnly ==
  \A s \in Services : \A k \in KeysOf(ledger[s]) :
    LET v == ledger[s][k]
    IN /\ \A h \in v.via : k \in policy[h].ingress \ (LogKeys \cup policy[h].reserved)
       /\ \A h \in ({v.by} \cup v.via) \cap (Services \ {s}) : k \in policy[h].egress
       /\ ~v.local => s \in v.via

\* What code of this request said of itself, no carrier changes: "Remote values
\* never replace local values".
LocalValuesStand ==
  [][\A s \in Services, k \in Keys :
       ledger[s][k].local => ledger'[s][k] \in {ledger[s][k], NoValue}]_vars

\* A provider that rejects remote traces never works in one, whichever way it
\* came, and never passes one on.
RejectedTraceIsNotContinued ==
  \A s \in Services : policy[s].reject =>
    /\ span[s] \in {None, s}
    /\ \A c \in Carriers : carrier[c].by = s => carrier[c].trace \in {None, s}

\* A carrier holds what its last sender trusts and may send, and nothing of an
\* earlier use.
NothingStale ==
  \A c \in Carriers : carrier[c].by \in Services =>
    \A k \in KeysOf(carrier[c].bag) :
      /\ k \in policy[carrier[c].by].egress
      /\ carrier[c].by \in {carrier[c].bag[k].by} \cup carrier[c].bag[k].via

\* Baggage the host wrote itself is never trusted, here or anywhere else.
HostBaggageStays ==
  /\ \A s \in Services, k \in Keys : ledger[s][k].by # Host
  /\ \A c \in Carriers, k \in Keys : carrier[c].bag[k].by # Host

\* What a carrier holds, its sender means to send; what it rejects, it neither
\* continues nor sends.
CarriersAreClean == NothingStale /\ HostBaggageStays /\ RejectedTraceIsNotContinued

\* A member of the baggage that metry wrote shows the trusted value of its key.
BaggageShowsLedger ==
  \A s \in Services, k \in Keys : bag[s][k] \in {NoValue, ledger[s][k], Value(Host, TRUE, FALSE)}

\* Baggage that this code made, in a context or on a carrier, stays within the limits
\* of the transport.
WithinLimits ==
  /\ \A s \in Services : WithinBounds(KeysOf(bag[s]))
  /\ \A c \in Carriers : carrier[c].by \in Services => WithinBounds(KeysOf(carrier[c].bag))

\* The visible baggage: true to the ledger, and small enough.
BaggageIsSound == TypeOK /\ BaggageShowsLedger /\ WithinLimits
=============================================================================
