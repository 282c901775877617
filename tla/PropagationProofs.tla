------------------------- MODULE PropagationProofs -------------------------
(***************************************************************************)
(* Values and traces that travel between services, for any number of them, *)
(* any policies, any keys and any chain of hops. Where a value may be is a *)
(* matter of every service it came through, however long ago; the          *)
(* invariant says of the two places a value can be in, the ledger of a     *)
(* request and a carrier, what that history has been.                      *)
(***************************************************************************)
EXTENDS Propagation, FiniteSetTheorems, WellFoundedInduction, TLAPS

Values == [by : Originators, scalar : BOOLEAN, local : BOOLEAN, via : SUBSET Services]
Entries == Values \cup {NoValue}

Types ==
  /\ policy \in [Services -> Policies]
  /\ span \in [Services -> Services \cup {Peer, None}]
  /\ ledger \in [Services -> [Keys -> Entries]] /\ bag \in [Services -> [Keys -> Entries]]
  /\ carrier \in [Carriers -> [by : Originators \cup {None}, trace : Services \cup {Peer, None},
                               bag : [Keys -> Entries]]]
  /\ snapshots \subseteq Services \cup {Peer}

\* Every service on the way let the value of a key in; those among services let it out.
LetIn(k, v) == \A h \in v.via : k \in policy[h].ingress \ (LogKeys \cup policy[h].reserved)
LetOut(k, v, services) == \A h \in ({v.by} \cup v.via) \cap services : k \in policy[h].egress

\* A trusted value: made here, by code of this request, or let in and out on its way.
Trusted(s, k, v) ==
  v # NoValue =>
    /\ v.by # Host /\ v.scalar
    /\ v.local => v = Value(s, TRUE, TRUE)
    /\ ~v.local => s \in v.via
    /\ LetIn(k, v) /\ LetOut(k, v, Services \ {s})

\* A value on a carrier: let out by all of them, its sender included.
Sent(by, k, v) ==
  v # NoValue =>
    /\ v.by # Host
    /\ LetIn(k, v) /\ LetOut(k, v, Services)
    /\ by \in Services => k \in policy[by].egress /\ by \in {v.by} \cup v.via

IInv ==
  /\ Types /\ BaggageShowsLedger /\ RejectedTraceIsNotContinued
  /\ \A s \in Services, k \in Keys : Trusted(s, k, ledger[s][k])
  /\ \A c \in Carriers, k \in Keys : Sent(carrier[c].by, k, carrier[c].bag[k])

-----------------------------------------------------------------------------
(* The operations on the values of a context *)

LEMMA NoValueIsNone == NoValue.by = None /\ ~NoValue.local /\ NoValue.via = {} /\ NoValue \notin Values
BY PropagationAssumption DEF NoValue, Values

LEMMA ValueIsEntry ==
  ASSUME NEW by \in Originators, NEW scalar \in BOOLEAN, NEW local \in BOOLEAN
  PROVE  Value(by, scalar, local) \in Values /\ Value(by, scalar, local) # NoValue
<1>1. Value(by, scalar, local) \in Values
  BY DEF Value, Values
<1> QED
  BY <1>1, NoValueIsNone

\* baggageutil.Build keeps some of the values, and changes none.
LEMMA BuildKeeps ==
  ASSUME NEW values \in [Keys -> Entries]
  PROVE  /\ Build(values) \in [Keys -> Entries]
         /\ \A k \in Keys : Build(values)[k] \in {values[k], NoValue}
BY DEF Build, Keep, Entries

\* A set of keys that is finite and not empty is the prefix of one of its members.
LEMMA LastKey ==
  ASSUME NEW keys \in SUBSET Keys, keys # {}
  PROVE  \E k \in keys : UpTo(k, keys) = keys
<1> DEFINE after(k) == {m \in keys : m > k}
           rests == {after(k) : k \in keys}
<1>1. keys \subseteq Nat /\ IsFiniteSet(keys) /\ \A m \in keys : m \in Int
  <2>1. IsFiniteSet(keys)
    BY PropagationAssumption, FS_Subset
  <2>2. Keys \subseteq Nat
    BY PropagationAssumption
  <2> QED
    BY <2>1, <2>2
<1>2. rests \subseteq FiniteSubsetsOf(Nat) /\ rests # {}
  <2>1. ASSUME NEW k \in keys PROVE after(k) \in SUBSET Nat /\ IsFiniteSet(after(k))
    BY <1>1, FS_Subset
  <2> QED
    BY <2>1 DEF FiniteSubsetsOf
<1>3. IsWellFoundedOn(StrictSubsetOrdering(Nat), FiniteSubsetsOf(Nat))
  BY FS_StrictSubsetOrderingWellFounded
<1> HIDE DEF rests
<1>4. PICK rest \in rests : \A other \in rests : <<other, rest>> \notin StrictSubsetOrdering(Nat)
  BY <1>2, <1>3, WFMin
<1>5. PICK k \in keys : rest = after(k)
  BY DEF rests
<1>6. ASSUME NEW j \in keys, j > k PROVE FALSE
  <2>0. ~(j > j) /\ \A m \in keys : m > j => m > k
    BY <1>1, <1>6
  <2>1. after(j) \subseteq after(k) /\ j \in after(k) /\ j \notin after(j) /\ after(k) \subseteq Nat
    BY <1>1, <1>6, <2>0
  <2>2. after(j) \in rests
    BY DEF rests
  <2> HIDE DEF after
  <2>3. <<after(j), after(k)>> \in StrictSubsetOrdering(Nat)
    BY <2>1 DEF StrictSubsetOrdering
  <2> QED
    BY <1>4, <1>5, <2>2, <2>3
<1>7. \A m \in keys : m <= k
  BY <1>1, <1>6
<1> QED
  BY <1>7 DEF UpTo

LEMMA NothingFits == WithinBounds({})
<1>1. Bytes({}) = 0
  BY DEF Bytes
<1>2. 0 <= MaxMembers /\ 0 <= MaxBytes
  BY PropagationAssumption
<1> QED
  BY <1>1, <1>2, FS_EmptySet DEF WithinBounds

\* What baggageutil.Build keeps is within the limits of the transport.
LEMMA BuildFits ==
  ASSUME NEW values
  PROVE  WithinBounds(KeysOf(Build(values)))
<1> DEFINE keys == KeysOf(values)
           kept == Fit(keys)
<1>1. keys \subseteq Keys /\ kept \subseteq keys
  BY DEF KeysOf, Fit
<1>2. KeysOf(Build(values)) = kept
  BY <1>1 DEF KeysOf, Build, Keep, Has
<1> HIDE DEF keys
<1>3. CASE kept = {}
  BY <1>2, <1>3, NothingFits
<1>4. CASE kept # {}
  <2>1. PICK k \in kept : UpTo(k, kept) = kept
    BY <1>1, <1>4, LastKey
  <2>2. kept = UpTo(k, keys)
    <3>1. \A m \in keys : m \in Int
      BY <1>1, PropagationAssumption
    <3>2. ASSUME NEW m \in keys, m <= k PROVE m \in kept
      <4>1. \A l \in keys : l <= m => l <= k
        BY <1>1, <3>1, <3>2
      <4>2. UpTo(m, keys) \subseteq UpTo(k, keys)
        BY <4>1 DEF UpTo
      <4> QED
        BY <3>2, <4>2 DEF Fit
    <3> QED
      BY <1>1, <2>1, <3>2 DEF UpTo
  <2>3. k \in UpTo(k, keys)
    BY <2>2
  <2>4. WithinBounds(UpTo(k, keys))
    BY <2>3 DEF Fit
  <2> QED
    BY <1>2, <2>2, <2>4
<1> QED
  BY <1>3, <1>4

\* enrichment.Put: what arrives replaces what is there, unless that is local and
\* the newcomer is not.
LEMMA PutReplaces ==
  ASSUME NEW old \in [Keys -> Entries], NEW incoming \in [Keys -> Entries]
  PROVE  /\ Put(old, incoming) \in [Keys -> Entries]
         /\ \A k \in Keys :
              Put(old, incoming)[k] =
                IF Has(incoming, k) /\ (incoming[k].local \/ ~old[k].local) THEN incoming[k] ELSE old[k]
BY DEF Put, Over, Keep, Has

\* What Enrich makes of the ledger.
LEMMA EnrichPuts ==
  ASSUME Types, NEW s \in Services, NEW k \in Keys
  PROVE  LET put == Put(ledger[s], [Empty EXCEPT ![k] = Value(s, TRUE, TRUE)])
         IN  /\ put \in [Keys -> Entries]
             /\ put[k] = Value(s, TRUE, TRUE)
             /\ \A j \in Keys : j # k => put[j] = ledger[s][j]
<1> DEFINE incoming == [Empty EXCEPT ![k] = Value(s, TRUE, TRUE)]
<1>1. Value(s, TRUE, TRUE) \in Values /\ Value(s, TRUE, TRUE) # NoValue /\ Value(s, TRUE, TRUE).local
  BY ValueIsEntry DEF Originators, Value
<1>2. /\ incoming \in [Keys -> Entries] /\ incoming[k] = Value(s, TRUE, TRUE)
      /\ \A j \in Keys : j # k => incoming[j] = NoValue
  BY <1>1 DEF Empty, Entries
<1>3. ledger[s] \in [Keys -> Entries]
  BY DEF Types
<1> HIDE DEF incoming
<1>4. /\ Put(ledger[s], incoming) \in [Keys -> Entries]
      /\ \A j \in Keys :
           Put(ledger[s], incoming)[j] =
             IF incoming[j] # NoValue /\ (incoming[j].local \/ ~ledger[s][j].local)
             THEN incoming[j] ELSE ledger[s][j]
  BY <1>2, <1>3, PutReplaces DEF Has
<1>5. /\ Put(ledger[s], incoming)[k] = Value(s, TRUE, TRUE)
      /\ \A j \in Keys : j # k => Put(ledger[s], incoming)[j] = ledger[s][j]
  BY <1>1, <1>2, <1>4
<1> QED
  BY <1>4, <1>5 DEF incoming

\* What Extract makes of the ledger: an entry of a key is the one there was, which
\* stays if it is local, or the carrier's, which has come through one service more.
LEMMA ExtractPuts ==
  ASSUME Types, NEW s \in Services, NEW c \in Carriers
  PROVE  LET arrived == [k \in Keys |-> IF ~Has(Imported(s, c), k) THEN NoValue
                           ELSE [Imported(s, c)[k] EXCEPT !.local = FALSE, !.via = @ \cup {s}]]
             put == Put(ledger[s], arrived)
         IN  /\ put \in [Keys -> Entries]
             /\ \A k \in Keys :
                  LET v == carrier[c].bag[k]
                  IN \/ put[k] = ledger[s][k]
                     \/ /\ v # NoValue /\ v.scalar /\ ~ledger[s][k].local
                        /\ k \in policy[s].ingress \ (LogKeys \cup policy[s].reserved)
                        /\ put[k] \in Values /\ put[k] # NoValue
                        /\ put[k].by = v.by /\ put[k].scalar = v.scalar /\ ~put[k].local
                        /\ put[k].via = v.via \cup {s}
<1> DEFINE arrived == [k \in Keys |-> IF ~Has(Imported(s, c), k) THEN NoValue
                         ELSE [Imported(s, c)[k] EXCEPT !.local = FALSE, !.via = @ \cup {s}]]
<1>1. \A k \in Keys :
        Has(Imported(s, c), k) =>
          /\ Imported(s, c)[k] = carrier[c].bag[k] /\ carrier[c].bag[k] # NoValue
          /\ carrier[c].bag[k].scalar
          /\ k \in policy[s].ingress \ (LogKeys \cup policy[s].reserved)
  BY DEF Imported, Keep, Has
<1>2. carrier[c].bag \in [Keys -> Entries] /\ ledger[s] \in [Keys -> Entries]
  BY DEF Types
<1>3. ASSUME NEW k \in Keys, Has(Imported(s, c), k)
      PROVE  LET v == carrier[c].bag[k]
             IN  /\ arrived[k] \in Values /\ arrived[k].by = v.by /\ arrived[k].scalar = v.scalar
                 /\ ~arrived[k].local /\ arrived[k].via = v.via \cup {s}
  <2>1. carrier[c].bag[k] \in Values
    <3>1. carrier[c].bag[k] \in Entries /\ carrier[c].bag[k] # NoValue
      BY <1>1, <1>2, <1>3
    <3> QED
      BY <3>1 DEF Entries
  <2>2. arrived[k] = [carrier[c].bag[k] EXCEPT !.local = FALSE, !.via = @ \cup {s}]
    BY <1>1, <1>3
  <2> HIDE DEF arrived
  <2>3. arrived[k] = [by |-> carrier[c].bag[k].by, scalar |-> carrier[c].bag[k].scalar,
                      local |-> FALSE, via |-> carrier[c].bag[k].via \cup {s}]
    BY <2>1, <2>2 DEF Values
  <2>4. arrived[k].local = FALSE
    BY <2>3
  <2>5. arrived[k] \in Values
    BY <2>1, <2>3 DEF Values
  <2> QED
    BY <2>3, <2>4, <2>5
<1>4. \A k \in Keys : ~Has(Imported(s, c), k) => arrived[k] = NoValue
  BY Zenon
<1>5. arrived \in [Keys -> Entries]
  BY <1>3, <1>4 DEF Entries
<1>6. \A k \in Keys : Has(arrived, k) => Has(Imported(s, c), k)
  BY <1>4 DEF Has
<1> HIDE DEF arrived
<1>7. /\ Put(ledger[s], arrived) \in [Keys -> Entries]
      /\ \A k \in Keys : \/ Put(ledger[s], arrived)[k] = ledger[s][k]
                         \/ /\ Put(ledger[s], arrived)[k] = arrived[k] /\ Has(arrived, k)
                            /\ arrived[k].local \/ ~ledger[s][k].local
  BY <1>2, <1>5, PutReplaces
<1>8. ASSUME NEW k \in Keys, Put(ledger[s], arrived)[k] # ledger[s][k]
      PROVE  LET v == carrier[c].bag[k]
                 put == Put(ledger[s], arrived)
             IN  /\ v # NoValue /\ v.scalar /\ ~ledger[s][k].local
                 /\ k \in policy[s].ingress \ (LogKeys \cup policy[s].reserved)
                 /\ put[k] \in Values /\ put[k] # NoValue
                 /\ put[k].by = v.by /\ put[k].scalar = v.scalar /\ ~put[k].local
                 /\ put[k].via = v.via \cup {s}
  <2>1. Put(ledger[s], arrived)[k] = arrived[k] /\ Has(arrived, k) /\ Has(Imported(s, c), k)
    BY <1>6, <1>7, <1>8
  <2>2. /\ arrived[k] \in Values /\ arrived[k] # NoValue /\ ~arrived[k].local
        /\ arrived[k].by = carrier[c].bag[k].by /\ arrived[k].scalar = carrier[c].bag[k].scalar
        /\ arrived[k].via = carrier[c].bag[k].via \cup {s}
    BY <1>3, <2>1 DEF Has
  <2>3. ~ledger[s][k].local
    BY <1>7, <1>8, <2>2
  <2> QED
    BY <1>1, <2>1, <2>2, <2>3
<1> QED
  BY <1>7, <1>8 DEF arrived

-----------------------------------------------------------------------------
\* What is trusted by a service went through the policies of all on its way.
LEMMA InvariantSuffices ==
  IInv => TypeOK /\ CrossedAllowedHopsOnly /\ CarriersAreClean /\ BaggageShowsLedger
<1> SUFFICES ASSUME IInv PROVE TypeOK /\ CrossedAllowedHopsOnly /\ CarriersAreClean
  BY DEF IInv
<1>1. NoValue.by = None /\ None # Host
  BY NoValueIsNone, PropagationAssumption DEF Originators
<1>2. \A v \in Entries : v # NoValue => IsValue(v)
  BY DEF Entries, Values, IsValue
<1>3. TypeOK
  <2>1. /\ \A s \in Services, k \in Keys : ledger[s][k] \in Entries /\ bag[s][k] \in Entries
        /\ \A c \in Carriers : /\ carrier[c].by \in Originators \cup {None}
                               /\ \A k \in Keys : carrier[c].bag[k] \in Entries
    BY DEF IInv, Types
  <2>2. \A s \in Services, k \in Keys : Has(ledger[s], k) => ledger[s][k].scalar
    BY DEF IInv, Trusted, Has
  <2> QED
    BY <1>2, <2>1, <2>2 DEF IInv, Types, TypeOK, Has, KeysOf
<1>4. CrossedAllowedHopsOnly
  BY DEF IInv, Trusted, LetIn, LetOut, CrossedAllowedHopsOnly, KeysOf, Has
<1>5. CarriersAreClean
  <2>1. NothingStale
    BY DEF IInv, Sent, NothingStale, KeysOf, Has
  <2>2. HostBaggageStays
    BY <1>1 DEF IInv, Sent, Trusted, HostBaggageStays
  <2> QED
    BY <2>1, <2>2 DEF IInv, CarriersAreClean
<1> QED
  BY <1>3, <1>4, <1>5

LEMMA InvariantInit == Init => IInv
<1> SUFFICES ASSUME Init PROVE IInv
  OBVIOUS
<1>1. Empty \in [Keys -> Entries] /\ \A k \in Keys : Empty[k] = NoValue
  BY DEF Empty, Entries
<1>2. Types
  BY <1>1 DEF Init, Types
<1>3. BaggageShowsLedger /\ RejectedTraceIsNotContinued
  BY <1>1 DEF Init, BaggageShowsLedger, RejectedTraceIsNotContinued
<1> QED
  BY <1>1, <1>2, <1>3 DEF Init, IInv, Trusted, Sent

\* No policy changes, so a value is trusted as long as it is there.
LEMMA TrustStands ==
  ASSUME UNCHANGED policy, \A s \in Services, k \in Keys : Trusted(s, k, ledger'[s][k])
  PROVE  \A s \in Services, k \in Keys : Trusted(s, k, ledger[s][k])'
<1> SUFFICES ASSUME NEW s \in Services, NEW k \in Keys PROVE Trusted(s, k, ledger[s][k])'
  OBVIOUS
<1>1. Trusted(s, k, ledger'[s][k])
  OBVIOUS
<1> QED
  BY <1>1 DEF Trusted, LetIn, LetOut

\* The steps that touch the trace of a request, and the start of one.
LEMMA TraceSteps ==
  ASSUME IInv, NEW s \in Services,
         NewRequest(s) \/ StartSpan(s) \/ TakeSnapshot(s) \/ \E t \in snapshots : Restore(s, t)
  PROVE  IInv'
<1>1. UNCHANGED <<policy, carrier>> /\ Types
  BY DEF IInv, NewRequest, StartSpan, TakeSnapshot, Restore
<1>2. \A c \in Carriers, k \in Keys : Sent(carrier[c].by, k, carrier[c].bag[k])'
  BY <1>1 DEF IInv, Sent, LetIn, LetOut
<1>3. CASE NewRequest(s)
  <2>1. Empty \in [Keys -> Entries] /\ \A k \in Keys : Empty[k] = NoValue
    BY DEF Empty, Entries
  <2>2. Types'
    BY <1>1, <1>3, <2>1 DEF NewRequest, Types
  <2>3. BaggageShowsLedger' /\ RejectedTraceIsNotContinued'
    BY <1>1, <1>3, <2>1 DEF IInv, NewRequest, Types, BaggageShowsLedger, RejectedTraceIsNotContinued
  <2>4. \A q \in Services, k \in Keys : Trusted(q, k, ledger'[q][k])
    BY <1>1, <1>3, <2>1 DEF IInv, NewRequest, Types, Trusted
  <2>5. \A q \in Services, k \in Keys : Trusted(q, k, ledger[q][k])'
    BY <1>1, <2>4, TrustStands
  <2> QED
    BY <1>2, <2>2, <2>3, <2>5 DEF IInv
<1>4. CASE StartSpan(s) \/ TakeSnapshot(s) \/ \E t \in snapshots : Restore(s, t)
  <2>1. UNCHANGED <<ledger, bag>>
    BY <1>4 DEF StartSpan, TakeSnapshot, Restore
  <2>2. Types'
    BY <1>1, <1>4, <2>1 DEF StartSpan, TakeSnapshot, Restore, Types
  <2>3. BaggageShowsLedger' /\ \A q \in Services, k \in Keys : Trusted(q, k, ledger[q][k])'
    BY <1>1, <2>1, TrustStands DEF IInv, BaggageShowsLedger
  <2>4. RejectedTraceIsNotContinued'
    BY <1>1, <1>4 DEF IInv, StartSpan, TakeSnapshot, Restore, Types, RejectedTraceIsNotContinued
  <2> QED
    BY <1>2, <2>2, <2>3, <2>4 DEF IInv
<1> QED
  BY <1>3, <1>4

\* The steps of code in the request.
LEMMA ValueSteps ==
  ASSUME IInv, NEW s \in Services, NEW k \in Keys, Enrich(s, k) \/ WriteBaggage(s, k)
  PROVE  IInv'
<1>1. UNCHANGED <<policy, span, carrier, snapshots>> /\ Types
  BY DEF IInv, Enrich, WriteBaggage
<1>2. RejectedTraceIsNotContinued' /\ \A c \in Carriers, j \in Keys : Sent(carrier[c].by, j, carrier[c].bag[j])'
  BY <1>1 DEF IInv, Sent, LetIn, LetOut, RejectedTraceIsNotContinued
<1>3. CASE Enrich(s, k)
  <2> DEFINE put == Put(ledger[s], [Empty EXCEPT ![k] = Value(s, TRUE, TRUE)])
  <2>1. /\ put \in [Keys -> Entries] /\ put[k] = Value(s, TRUE, TRUE)
        /\ \A j \in Keys : j # k => put[j] = ledger[s][j]
    BY <1>1, EnrichPuts
  <2>2. ledger' = [ledger EXCEPT ![s] = put] /\ bag' = [bag EXCEPT ![s] = Build(Over(bag[s], put))]
    BY <1>3 DEF Enrich
  <2> HIDE DEF put
  <2>3. Over(bag[s], put) \in [Keys -> Entries]
    BY <1>1, <2>1 DEF Over, Types
  <2>4. /\ Build(Over(bag[s], put)) \in [Keys -> Entries]
        /\ \A j \in Keys : Build(Over(bag[s], put))[j] \in {Over(bag[s], put)[j], NoValue}
    BY <2>3, BuildKeeps
  <2>5. Types'
    BY <1>1, <2>1, <2>2, <2>4 DEF Types
  <2>6. \A j \in Keys : Over(bag[s], put)[j] \in {NoValue, put[j], Value(Host, TRUE, FALSE)}
    <3>1. Value(s, TRUE, TRUE) # NoValue
      BY ValueIsEntry DEF Originators
    <3>2. \A j \in Keys : bag[s][j] \in {NoValue, ledger[s][j], Value(Host, TRUE, FALSE)}
      BY DEF IInv, BaggageShowsLedger
    <3> QED
      BY <2>1, <3>1, <3>2 DEF Over, Has
  <2>7. BaggageShowsLedger'
    BY <1>1, <2>1, <2>2, <2>4, <2>6 DEF IInv, BaggageShowsLedger, Types
  <2>8. \A q \in Services, j \in Keys : Trusted(q, j, ledger'[q][j])
    <3>1. Trusted(s, k, Value(s, TRUE, TRUE))
      BY PropagationAssumption DEF Trusted, Value, LetIn, LetOut
    <3> QED
      BY <1>1, <2>1, <2>2, <3>1 DEF IInv, Types
  <2>9. \A q \in Services, j \in Keys : Trusted(q, j, ledger[q][j])'
    BY <1>1, <2>8, TrustStands
  <2> QED
    BY <1>2, <2>5, <2>7, <2>9 DEF IInv
<1>4. CASE WriteBaggage(s, k)
  <2> DEFINE written == [bag[s] EXCEPT ![k] = Value(Host, TRUE, FALSE)]
  <2>1. bag' = [bag EXCEPT ![s] = Build(written)] /\ UNCHANGED ledger
    BY <1>1, <1>4 DEF WriteBaggage, Types
  <2>2. written \in [Keys -> Entries]
    BY <1>1, ValueIsEntry DEF Types, Originators, Entries
  <2>3. \A j \in Keys : written[j] \in {bag[s][j], Value(Host, TRUE, FALSE)}
    BY <1>1 DEF Types
  <2> HIDE DEF written
  <2>4. Build(written) \in [Keys -> Entries] /\ \A j \in Keys : Build(written)[j] \in {written[j], NoValue}
    BY <2>2, BuildKeeps
  <2>5. Types'
    BY <1>1, <2>1, <2>4 DEF Types
  <2>6. BaggageShowsLedger'
    BY <1>1, <2>1, <2>3, <2>4 DEF IInv, BaggageShowsLedger, Types
  <2>7. \A q \in Services, j \in Keys : Trusted(q, j, ledger[q][j])'
    BY <1>1, <2>1, TrustStands DEF IInv
  <2> QED
    BY <1>2, <2>5, <2>6, <2>7 DEF IInv
<1> QED
  BY <1>3, <1>4

\* The steps between a request and a carrier, and those of a peer.
LEMMA CarrierSteps ==
  ASSUME IInv, NEW c \in Carriers,
         \/ \E s \in Services : Inject(s, c) \/ Extract(s, c)
         \/ \E t \in {Peer, None}, k \in Keys, b \in BOOLEAN : PeerSends(c, t, k, b)
  PROVE  IInv'
<1>1. UNCHANGED <<policy, snapshots>> /\ Types
  BY DEF IInv, Inject, Extract, PeerSends
<1>2. ASSUME UNCHANGED ledger PROVE \A q \in Services, j \in Keys : Trusted(q, j, ledger[q][j])'
  BY <1>1, <1>2, TrustStands DEF IInv
<1>3. ASSUME UNCHANGED carrier PROVE \A d \in Carriers, j \in Keys : Sent(carrier[d].by, j, carrier[d].bag[j])'
  BY <1>1, <1>3 DEF IInv, Sent, LetIn, LetOut
<1>4. ASSUME NEW by \in Originators, NEW trace \in Services \cup {Peer, None}, NEW values \in [Keys -> Entries],
             carrier' = [carrier EXCEPT ![c] = [by |-> by, trace |-> trace, bag |-> values]],
             UNCHANGED <<span, ledger, bag>>, \A j \in Keys : Sent(by, j, values[j]),
             by \in Services /\ policy[by].reject => trace \in {None, by}
      PROVE  IInv'
  <2>1. Types'
    BY <1>1, <1>4 DEF Types
  <2>2. /\ carrier'[c].by = by /\ carrier'[c].trace = trace /\ carrier'[c].bag = values
        /\ \A d \in Carriers : d # c => carrier'[d] = carrier[d]
    BY <1>1, <1>4 DEF Types
  <2>3. \A d \in Carriers, j \in Keys : Sent(carrier'[d].by, j, carrier'[d].bag[j])
    BY <1>4, <2>2 DEF IInv
  <2>4. \A d \in Carriers, j \in Keys : Sent(carrier[d].by, j, carrier[d].bag[j])'
    BY <1>1, <2>3 DEF Sent, LetIn, LetOut
  <2>5. BaggageShowsLedger'
    BY <1>4 DEF IInv, BaggageShowsLedger
  <2>6. RejectedTraceIsNotContinued'
    <3> SUFFICES ASSUME NEW s \in Services, policy[s].reject
                 PROVE  span[s] \in {None, s} /\ \A d \in Carriers : carrier'[d].by = s => carrier'[d].trace \in {None, s}
      BY <1>1, <1>4 DEF RejectedTraceIsNotContinued
    <3>1. span[s] \in {None, s} /\ \A d \in Carriers : carrier[d].by = s => carrier[d].trace \in {None, s}
      BY DEF IInv, RejectedTraceIsNotContinued
    <3> QED
      BY <1>4, <2>2, <3>1
  <2> QED
    BY <1>2, <1>4, <2>1, <2>4, <2>5, <2>6 DEF IInv
<1>5. ASSUME NEW s \in Services, Inject(s, c) PROVE IInv'
  <2> DEFINE kept == Keep(ledger[s], policy[s].egress)
  <2>1. kept \in [Keys -> Entries] /\ \A j \in Keys : kept[j] = IF j \in policy[s].egress THEN ledger[s][j] ELSE NoValue
    BY <1>1 DEF Keep, Types, Entries
  <2> HIDE DEF kept
  <2>2. Build(kept) \in [Keys -> Entries] /\ \A j \in Keys : Build(kept)[j] \in {kept[j], NoValue}
    BY <2>1, BuildKeeps
  <2>3. Exported(s) = Build(kept)
    BY DEF Exported, kept
  <2>4. ASSUME NEW j \in Keys, Exported(s)[j] # NoValue PROVE Sent(s, j, Exported(s)[j])
    <3>1. Exported(s)[j] = ledger[s][j] /\ j \in policy[s].egress
      BY <2>1, <2>2, <2>3, <2>4
    <3>2. Trusted(s, j, ledger[s][j])
      BY DEF IInv
    <3>3. ledger[s][j].local => ledger[s][j].by = s
      BY <2>4, <3>1, <3>2 DEF Trusted, Value
    <3> QED
      BY <2>4, <3>1, <3>2, <3>3 DEF Sent, Trusted, LetOut
  <2>5. \A j \in Keys : Sent(s, j, Exported(s)[j])
    BY <2>4 DEF Sent
  <2>6. /\ carrier' = [carrier EXCEPT ![c] = [by |-> s, trace |-> span[s], bag |-> Exported(s)]]
        /\ UNCHANGED <<span, ledger, bag>>
    BY <1>5 DEF Inject
  <2>7. span[s] \in Services \cup {Peer, None} /\ (policy[s].reject => span[s] \in {None, s})
    BY <1>1 DEF Types, IInv, RejectedTraceIsNotContinued
  <2> QED
    BY <1>4, <2>2, <2>3, <2>5, <2>6, <2>7 DEF Originators
<1>6. ASSUME NEW s \in Services, Extract(s, c) PROVE IInv'
  <2> DEFINE arrived == [k \in Keys |-> IF ~Has(Imported(s, c), k) THEN NoValue
                           ELSE [Imported(s, c)[k] EXCEPT !.local = FALSE, !.via = @ \cup {s}]]
             put == Put(ledger[s], arrived)
  <2>1. /\ put \in [Keys -> Entries]
        /\ \A k \in Keys :
             LET v == carrier[c].bag[k]
             IN \/ put[k] = ledger[s][k]
                \/ /\ v # NoValue /\ v.scalar /\ ~ledger[s][k].local
                   /\ k \in policy[s].ingress \ (LogKeys \cup policy[s].reserved)
                   /\ put[k] \in Values /\ put[k] # NoValue
                   /\ put[k].by = v.by /\ put[k].scalar = v.scalar /\ ~put[k].local
                   /\ put[k].via = v.via \cup {s}
    BY <1>1, ExtractPuts
  <2>2. /\ ledger' = [ledger EXCEPT ![s] = put] /\ bag' = [bag EXCEPT ![s] = Build(put)]
        /\ span' = [span EXCEPT ![s] = IF policy[s].reject \/ carrier[c].trace = None
                                       THEN @ ELSE carrier[c].trace]
        /\ UNCHANGED carrier
    BY <1>6 DEF Extract
  <2> HIDE DEF put, arrived
  <2>3. Build(put) \in [Keys -> Entries] /\ \A j \in Keys : Build(put)[j] \in {put[j], NoValue}
    BY <2>1, BuildKeeps
  <2>4. Types'
    BY <1>1, <2>1, <2>2, <2>3 DEF Types
  <2>5. BaggageShowsLedger' /\ RejectedTraceIsNotContinued'
    BY <1>1, <2>2, <2>3 DEF IInv, BaggageShowsLedger, RejectedTraceIsNotContinued, Types
  <2>6. ASSUME NEW k \in Keys PROVE Trusted(s, k, put[k])
    <3>1. CASE put[k] = ledger[s][k]
      BY <3>1 DEF IInv
    <3>2. CASE put[k] # ledger[s][k]
      <4>1. Sent(carrier[c].by, k, carrier[c].bag[k])
        BY DEF IInv
      <4>2. s \in put[k].via /\ put[k].scalar /\ put[k].by # Host
        BY <2>1, <3>2, <4>1 DEF Sent
      <4>3. LetIn(k, put[k]) /\ LetOut(k, put[k], Services \ {s})
        BY <2>1, <3>2, <4>1 DEF Sent, LetIn, LetOut
      <4> QED
        BY <2>1, <3>2, <4>2, <4>3 DEF Trusted
    <3> QED
      BY <3>1, <3>2
  <2>7. \A q \in Services, k \in Keys : Trusted(q, k, ledger'[q][k])
    BY <1>1, <2>2, <2>6 DEF IInv, Types
  <2>8. \A q \in Services, k \in Keys : Trusted(q, k, ledger[q][k])'
    BY <1>1, <2>7, TrustStands
  <2> QED
    BY <1>3, <2>2, <2>4, <2>5, <2>8 DEF IInv
<1>7. ASSUME NEW t \in {Peer, None}, NEW k \in Keys, NEW b \in BOOLEAN, PeerSends(c, t, k, b) PROVE IInv'
  <2> DEFINE values == [Empty EXCEPT ![k] = Value(Peer, b, FALSE)]
  <2>1. /\ carrier' = [carrier EXCEPT ![c] = [by |-> Peer, trace |-> t, bag |-> values]]
        /\ UNCHANGED <<span, ledger, bag>>
    BY <1>7 DEF PeerSends
  <2>2. values \in [Keys -> Entries] /\ \A j \in Keys : values[j] \in {NoValue, Value(Peer, b, FALSE)}
    BY ValueIsEntry DEF Empty, Entries, Originators
  <2> HIDE DEF values
  <2>3. Peer \in Originators /\ Peer \notin Services /\ Peer # Host
    BY PropagationAssumption DEF Originators
  <2>4. \A j \in Keys : Sent(Peer, j, values[j])
    BY <2>2, <2>3 DEF Sent, Value, LetIn, LetOut
  <2> QED
    BY <1>4, <2>1, <2>2, <2>3, <2>4
<1> QED
  BY <1>5, <1>6, <1>7

LEMMA InvariantStep == IInv /\ [Next]_vars => IInv'
<1> SUFFICES ASSUME IInv, [Next]_vars PROVE IInv'
  OBVIOUS
<1>1. CASE UNCHANGED vars
  <2>1. \A s \in Services, k \in Keys : Trusted(s, k, ledger[s][k])'
    BY <1>1, TrustStands DEF vars, IInv
  <2>2. \A c \in Carriers, k \in Keys : Sent(carrier[c].by, k, carrier[c].bag[k])'
    BY <1>1 DEF vars, IInv, Sent, LetIn, LetOut
  <2>3. Types' /\ BaggageShowsLedger' /\ RejectedTraceIsNotContinued'
    BY <1>1 DEF vars, IInv, Types, BaggageShowsLedger, RejectedTraceIsNotContinued
  <2> QED
    BY <2>1, <2>2, <2>3 DEF IInv
<1> QED
  BY <1>1, TraceSteps, ValueSteps, CarrierSteps DEF Next

LEMMA EmptyFits == WithinBounds(KeysOf(Empty))
<1>1. KeysOf(Empty) = {}
  BY DEF KeysOf, Empty, Has
<1> QED
  BY <1>1, NothingFits

\* All baggage this code writes is empty or made by Build.
LEMMA LimitsKept == ASSUME IInv, WithinLimits, [Next]_vars PROVE WithinLimits'
<1>1. Types
  BY DEF IInv
<1>2. WithinBounds(KeysOf(Empty))
  BY EmptyFits
<1>3. ASSUME NEW s \in Services
      PROVE  bag'[s] = bag[s] \/ bag'[s] = Empty \/ \E values : bag'[s] = Build(values)
  <2>1. ASSUME NEW q \in Services, NewRequest(q) \/ StartSpan(q) \/ TakeSnapshot(q) PROVE bag'[s] \in {bag[s], Empty}
    BY <1>1, <2>1 DEF NewRequest, StartSpan, TakeSnapshot, Types
  <2>2. ASSUME NEW q \in Services, NEW values, bag' = [bag EXCEPT ![q] = Build(values)]
        PROVE  bag'[s] = bag[s] \/ bag'[s] = Build(values)
    BY <1>1, <2>2 DEF Types
  <2>3. ASSUME NEW q \in Services, NEW k \in Keys, Enrich(q, k) \/ WriteBaggage(q, k)
        PROVE  \E values : bag' = [bag EXCEPT ![q] = Build(values)]
    BY <1>1, <2>3 DEF Enrich, WriteBaggage, Types
  <2>4. ASSUME NEW q \in Services, NEW c \in Carriers, Extract(q, c)
        PROVE  \E values : bag' = [bag EXCEPT ![q] = Build(values)]
    BY <2>4 DEF Extract
  <2>5. ASSUME NEW q \in Services, NEW c \in Carriers, Inject(q, c) PROVE UNCHANGED bag
    BY <2>5 DEF Inject
  <2>6. ASSUME NEW c \in Carriers, NEW t \in {Peer, None}, NEW k \in Keys, NEW b \in BOOLEAN, PeerSends(c, t, k, b)
        PROVE  UNCHANGED bag
    BY <2>6 DEF PeerSends
  <2>7. ASSUME NEW q \in Services, NEW t \in snapshots, Restore(q, t) PROVE UNCHANGED bag
    BY <2>7 DEF Restore
  <2>8. CASE UNCHANGED vars
    BY <2>8 DEF vars
  <2> QED
    BY <2>1, <2>2, <2>3, <2>4, <2>5, <2>6, <2>7, <2>8 DEF Next
<1>4. ASSUME NEW c \in Carriers, carrier'[c].by \in Services
      PROVE  carrier'[c] = carrier[c] \/ \E values : carrier'[c].bag = Build(values)
  <2>1. ASSUME NEW q \in Services, NEW d \in Carriers, Inject(q, d)
        PROVE  carrier'[c] = carrier[c] \/ carrier'[c].bag = Build(Keep(ledger[q], policy[q].egress))
    BY <1>1, <2>1 DEF Inject, Exported, Types
  <2>2. ASSUME NEW d \in Carriers, NEW t \in {Peer, None}, NEW k \in Keys, NEW b \in BOOLEAN, PeerSends(d, t, k, b)
        PROVE  carrier'[c] = carrier[c]
    BY <1>1, <1>4, <2>2, PropagationAssumption DEF PeerSends, Types
  <2>3. ASSUME NEW q \in Services,
               \/ NewRequest(q) \/ StartSpan(q) \/ TakeSnapshot(q)
               \/ \E k \in Keys : Enrich(q, k) \/ WriteBaggage(q, k)
               \/ \E d \in Carriers : Extract(q, d)
               \/ \E t \in snapshots : Restore(q, t)
        PROVE  UNCHANGED carrier
    BY <2>3 DEF NewRequest, StartSpan, TakeSnapshot, Enrich, WriteBaggage, Extract, Restore
  <2>4. CASE UNCHANGED vars
    BY <2>4 DEF vars
  <2> QED
    BY <2>1, <2>2, <2>3, <2>4 DEF Next
<1>5. ASSUME NEW s \in Services PROVE WithinBounds(KeysOf(bag'[s]))
  BY <1>2, <1>3, BuildFits DEF WithinLimits
<1>6. ASSUME NEW c \in Carriers, carrier'[c].by \in Services PROVE WithinBounds(KeysOf(carrier'[c].bag))
  BY <1>4, <1>6, BuildFits DEF WithinLimits
<1>7. WithinLimits' <=> /\ \A s \in Services : WithinBounds(KeysOf(bag'[s]))
                        /\ \A c \in Carriers : carrier'[c].by \in Services => WithinBounds(KeysOf(carrier'[c].bag))
  BY DEF WithinLimits, WithinBounds, KeysOf, Has
<1> QED
  BY <1>5, <1>6, <1>7

LEMMA LimitsInit == Init => WithinLimits
BY EmptyFits, PropagationAssumption DEF Init, WithinLimits

\* Whatever way a value took, every service on it allowed it to.
THEOREM ValuesCrossAllowedHops == Spec => []CrossedAllowedHopsOnly
<1> QED
  BY InvariantInit, InvariantStep, InvariantSuffices, PTL DEF Spec

\* What a carrier holds, its sender means to send, however often the carrier was
\* used; nothing the host wrote as baggage is on one; and a provider that rejects
\* remote traces neither works in one nor sends one.
THEOREM CarriersStayClean == Spec => []CarriersAreClean
<1> QED
  BY InvariantInit, InvariantStep, InvariantSuffices, PTL DEF Spec

\* The visible baggage shows the trusted value of a key or the host's own; and
\* whatever is enriched, received or written, what this code puts into a context or on
\* a carrier is within the limits of the transport (baggageutil.Build).
THEOREM BaggageAlwaysSound == Spec => []BaggageIsSound
<1>1. Spec => []IInv
  BY InvariantInit, InvariantStep, PTL DEF Spec
<1>2. Spec => []WithinLimits
  BY <1>1, LimitsInit, LimitsKept, PTL DEF Spec
<1>3. IInv /\ WithinLimits => BaggageIsSound
  BY InvariantSuffices DEF BaggageIsSound
<1> QED
  BY <1>1, <1>2, <1>3, PTL

\* What code of this request said, nothing that arrives from outside changes.
THEOREM LocalWins == Spec => LocalValuesStand
<1>1. ASSUME IInv, [Next]_vars, NEW q \in Services, NEW j \in Keys, ledger[q][j].local
      PROVE  ledger'[q][j] \in {ledger[q][j], NoValue}
  <2>1. Types /\ ledger[q][j] # NoValue /\ ledger[q][j] = Value(q, TRUE, TRUE)
    BY <1>1, NoValueIsNone DEF IInv, Trusted
  <2>2. CASE UNCHANGED ledger
    BY <2>2
  <2>3. ASSUME NEW s \in Services, NewRequest(s) PROVE ledger'[q][j] \in {ledger[q][j], NoValue}
    BY <2>1, <2>3 DEF NewRequest, Types, Empty
  <2>4. ASSUME NEW s \in Services, NEW k \in Keys, Enrich(s, k) PROVE ledger'[q][j] \in {ledger[q][j], NoValue}
    <3> DEFINE put == Put(ledger[s], [Empty EXCEPT ![k] = Value(s, TRUE, TRUE)])
    <3>1. put[k] = Value(s, TRUE, TRUE) /\ \A i \in Keys : i # k => put[i] = ledger[s][i]
      BY <2>1, EnrichPuts
    <3>2. ledger' = [ledger EXCEPT ![s] = put]
      BY <2>4 DEF Enrich
    <3> HIDE DEF put
    <3> QED
      BY <2>1, <3>1, <3>2 DEF Types
  <2>5. ASSUME NEW s \in Services, NEW c \in Carriers, Extract(s, c)
        PROVE  ledger'[q][j] \in {ledger[q][j], NoValue}
    <3> DEFINE arrived == [k \in Keys |-> IF ~Has(Imported(s, c), k) THEN NoValue
                             ELSE [Imported(s, c)[k] EXCEPT !.local = FALSE, !.via = @ \cup {s}]]
               put == Put(ledger[s], arrived)
    <3>1. \A k \in Keys : ledger[s][k].local => put[k] = ledger[s][k]
      BY <2>1, ExtractPuts
    <3>2. ledger' = [ledger EXCEPT ![s] = put]
      BY <2>5 DEF Extract
    <3> HIDE DEF put, arrived
    <3> QED
      BY <1>1, <2>1, <3>1, <3>2 DEF Types
  <2> QED
    BY <1>1, <2>2, <2>3, <2>4, <2>5
       DEF Next, vars, StartSpan, TakeSnapshot, WriteBaggage, Inject, PeerSends, Restore
<1>2. IInv /\ [Next]_vars =>
        \A s \in Services, k \in Keys : ledger[s][k].local => ledger'[s][k] \in {ledger[s][k], NoValue}
  BY <1>1
<1> QED
  BY <1>2, InvariantInit, InvariantStep, PTL DEF Spec, LocalValuesStand
=============================================================================
