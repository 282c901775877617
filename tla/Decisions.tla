----------------------------- MODULE Decisions -----------------------------
(***************************************************************************)
(* What several parts of metry promise, each by other means: for each key  *)
(* one value is decided, the first one, for good, and whoever is answered  *)
(* is answered with it. sync.Once promises it of the end of a Provider and *)
(* of the instruments of the executor middleware, measurementSink of the   *)
(* contents of an identity, metricDimensions of the route of a combination *)
(* of attributes.                                                          *)
(***************************************************************************)
CONSTANTS Keys, Values

VARIABLES decided, \* of each key: the value decided for it, in a set of its own, or {}
          told     \* the keys asked about, with what was answered

decisionVars == <<decided, told>>

DecisionsInit ==
  /\ decided = [k \in Keys |-> {}]
  /\ told = {}

\* Only what is open is decided; the answer follows at once, later, or never.
Decide(k, v) ==
  /\ decided[k] = {}
  /\ decided' = [decided EXCEPT ![k] = {v}]
  /\ told' \in {told, told \cup {<<k, v>>}}

Tell(k, v) ==
  /\ v \in decided[k]
  /\ told' = told \cup {<<k, v>>}
  /\ UNCHANGED decided

DecisionsNext == \E k \in Keys, v \in Values : Decide(k, v) \/ Tell(k, v)

DecisionsSpec == DecisionsInit /\ [][DecisionsNext]_decisionVars
=============================================================================
