--------------------------- MODULE MCPropagation ---------------------------
(***************************************************************************)
(* Two scenarios. Chains: one value, two services that differ in what they *)
(* let in, let out and accept, and a peer, so that values and traces take  *)
(* chains and loops. Budget: one service and a peer, and three values,     *)
(* whose members do not all fit, one reserved by the host and one by the   *)
(* log handler; the other service is silent, and nobody has a trace.       *)
(***************************************************************************)
EXTENDS Propagation, TLC

CONSTANTS a, b

Alike == Permutations({a, b})

Policy(reject, ingress, egress, reserved) ==
  [reject |-> reject, ingress |-> ingress, egress |-> egress, reserved |-> reserved]

ThreeKeys == 1..3
ThreeSizes == <<2, 2, 1>>

ChainPolicies == {Policy(FALSE, {1}, {1}, {}), Policy(TRUE, {1}, {}, {})}
BudgetPolicies ==
  {Policy(FALSE, 1..3, 1..3, {}), Policy(TRUE, 1..3, 2..3, {2})}
Silent == Policy(TRUE, {}, {}, {})

AllPolicies == ChainPolicies \cup BudgetPolicies \cup {Silent}

Chains == \A s \in Services : policy[s] \in ChainPolicies

Budget ==
  \E s \in Services :
    /\ policy[s] = Silent
    /\ \A t \in Services \ {s} : policy[t] \in BudgetPolicies

Talking == {s \in Services : policy[s] # Silent}
InPlay == IF Talking = Services THEN {1} ELSE Keys
Traces == IF Talking = Services THEN {Peer, None} ELSE {None}

\* The steps of Next that belong to the scenario.
MCNext ==
  \/ \E s \in Talking : NewRequest(s) \/ TakeSnapshot(s)
  \/ \E s \in Talking : Talking = Services /\ StartSpan(s)
  \/ \E s \in Talking, k \in InPlay : Enrich(s, k) \/ WriteBaggage(s, k)
  \/ \E s \in Talking, c \in Carriers : Inject(s, c) \/ Extract(s, c)
  \/ \E c \in Carriers, t \in Traces, k \in InPlay, b0 \in BOOLEAN : PeerSends(c, t, k, b0)
  \/ \E s \in Talking, t \in snapshots : Restore(s, t)

MCInit == Init /\ (Chains \/ Budget)
MCSpec == MCInit /\ [][MCNext]_vars
=============================================================================
