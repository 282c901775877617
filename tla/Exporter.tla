------------------------------ MODULE Exporter ------------------------------
(***************************************************************************)
(* testutil/exporter.go: the metric exporter that tests look at. The SDK   *)
(* collects into one buffer of nested slices, cycle after cycle, and hands *)
(* it to Export; tests take the last snapshot while the SDK goes on, and   *)
(* may write to what they took. A memory cell stands for the arrays of one *)
(* nesting level of one tree; a cell of the exporter or of a reader is     *)
(* named for its owner, who allocates it anew with each copy.              *)
(***************************************************************************)
EXTENDS Naturals

CONSTANTS Readers,   \* goroutines of tests
          MaxCycles  \* bound: collections of the SDK

ASSUME MaxCyclesAssumption == MaxCycles \in Nat

Levels == {"scopes", "metrics", "points", "exemplars"}
SDK == "sdk"
Store == "store"
Owners == Readers \cup {SDK, Store}
None == <<>>  \* nil
Scribbled == MaxCycles + 1  \* what a reader writes

ASSUME OwnersAssumption == {SDK, Store} \cap Readers = {}

VARIABLES
  memory,    \* what each owner's cells hold: the cycle that wrote them
  cycle,     \* collections so far
  supported, \* the aggregations of the cycle have a type the exporter copies
  sdk,       \* where the SDK stands in its cycle
  pending,   \* levels it has still to write
  count,     \* e.count
  lastRM,    \* e.lastRM: None, or of each level the owner of the cells
  got,       \* what each reader holds
  changed,   \* history: the reader has written to what it holds
  exports,   \* history: exports since the last Reset
  latest,    \* history: the cycle of the last of them, 0 for none
  taken      \* history: the value of latest when each reader took its copy

exporterVars == <<memory, cycle, supported, sdk, pending, count, lastRM, got, changed, exports, latest, taken>>

ExporterInit ==
  /\ memory = [o \in Owners |-> [l \in Levels |-> 0]]
  /\ cycle = 0 /\ supported = TRUE /\ sdk = "idle" /\ pending = {}
  /\ count = 0 /\ lastRM = None
  /\ got = [r \in Readers |-> None] /\ changed = [r \in Readers |-> FALSE]
  /\ exports = 0 /\ latest = 0 /\ taken = [r \in Readers |-> 0]

-----------------------------------------------------------------------------
\* Where a tree lies, and what a copy of it for an owner leaves in memory.
Tree(owner) == [l \in Levels |-> owner]
Copied(tree, owner) == [memory EXCEPT ![owner] = [l \in Levels |-> memory[tree[l]][l]]]

\* Mutant: the arrays of exemplars are left where they are.
ShallowCopy(tree, owner) == [l \in Levels |-> IF l = "exemplars" THEN tree[l] ELSE owner]

\* deepCopyResourceMetrics and all below it: a new array at every level.
DeepCopy(tree, owner) == Tree(owner)

\* The SDK's reader starts a cycle, and overwrites its buffer level by level.
Collect ==
  /\ sdk = "idle" /\ cycle < MaxCycles
  /\ sdk' = "collecting" /\ cycle' = cycle + 1 /\ pending' = Levels
  /\ supported' \in BOOLEAN
  /\ UNCHANGED <<memory, count, lastRM, got, changed, exports, latest, taken>>

Overwrite(l) ==
  /\ sdk = "collecting" /\ l \in pending
  /\ pending' = pending \ {l}
  /\ memory' = [memory EXCEPT ![SDK][l] = cycle]
  /\ UNCHANGED <<cycle, supported, sdk, count, lastRM, got, changed, exports, latest, taken>>

\* checkSupportedAggregations, without the lock: Export panics, as documented.
ExportPanics ==
  /\ sdk = "collecting" /\ pending = {} /\ ~supported
  /\ sdk' = "idle"
  /\ UNCHANGED <<memory, cycle, supported, pending, count, lastRM, got, changed, exports, latest, taken>>

\* Export, under the lock: a deep copy of the buffer, which may be reused after.
Export ==
  /\ sdk = "collecting" /\ pending = {} /\ supported
  /\ sdk' = "idle"
  /\ count' = count + 1
  /\ lastRM' = DeepCopy(Tree(SDK), Store) /\ memory' = Copied(Tree(SDK), Store)
  /\ exports' = exports + 1 /\ latest' = cycle
  /\ UNCHANGED <<cycle, supported, pending, got, changed, taken>>

\* LastResourceMetrics, under the lock: nil, or another deep copy.
LastResourceMetrics(r) ==
  /\ got' = [got EXCEPT ![r] = IF lastRM = None THEN None ELSE DeepCopy(lastRM, r)]
  /\ memory' = IF lastRM = None THEN memory ELSE Copied(lastRM, r)
  /\ changed' = [changed EXCEPT ![r] = FALSE] /\ taken' = [taken EXCEPT ![r] = latest]
  /\ UNCHANGED <<cycle, supported, sdk, pending, count, lastRM, exports, latest>>

Reset ==
  /\ count' = 0 /\ lastRM' = None
  /\ exports' = 0 /\ latest' = 0
  /\ UNCHANGED <<memory, cycle, supported, sdk, pending, got, changed, taken>>

\* A test writes to what it took.
Scribble(r, l) ==
  /\ got[r] # None
  /\ memory' = [memory EXCEPT ![got[r][l]][l] = Scribbled]
  /\ changed' = [changed EXCEPT ![r] = TRUE]
  /\ UNCHANGED <<cycle, supported, sdk, pending, count, lastRM, got, exports, latest, taken>>

ExporterNext ==
  \/ Collect \/ ExportPanics \/ Export \/ Reset
  \/ \E l \in Levels : Overwrite(l)
  \/ \E r \in Readers : LastResourceMetrics(r) \/ \E l \in Levels : Scribble(r, l)

ExporterSpec == ExporterInit /\ [][ExporterNext]_exporterVars

-----------------------------------------------------------------------------
Trees == [Levels -> Owners] \cup {None}

ExporterTypeOK ==
  /\ memory \in [Owners -> [Levels -> 0..Scribbled]]
  /\ cycle \in 0..MaxCycles /\ supported \in BOOLEAN
  /\ sdk \in {"idle", "collecting"} /\ pending \subseteq Levels
  /\ count \in 0..MaxCycles /\ lastRM \in Trees
  /\ got \in [Readers -> Trees] /\ changed \in [Readers -> BOOLEAN]

Shows(tree, n) == \A l \in Levels : memory[tree[l]][l] = n

\* What is stored is the last export that did not panic since Reset, whole,
\* although the SDK goes on in the same buffer and tests write to their copies:
\* "independent of SDK buffers".
StoreIsLastExport ==
  /\ count = exports
  /\ IF latest = 0 THEN lastRM = None ELSE lastRM # None /\ Shows(lastRM, latest)

\* What a test took stays as it was when taken, until the test itself writes to it.
TakenStays ==
  \A r \in Readers :
    ~changed[r] => IF taken[r] = 0 THEN got[r] = None ELSE got[r] # None /\ Shows(got[r], taken[r])

\* "A returned snapshot is independent": of the SDK, of the store, of each other.
SnapshotsAreTheirOwn == ExporterTypeOK /\ StoreIsLastExport /\ TakenStays
=============================================================================
