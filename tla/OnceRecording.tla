--------------------------- MODULE OnceRecording ---------------------------
(***************************************************************************)
(* What every recording handle of package genai promises its callers,      *)
(* whatever its kind: an observation is sealed at most once, by one call,  *)
(* with one verdict; that call, and no other, is told it recorded (or      *)
(* panicked); ErrFinalized is an answer only once the sealing call is      *)
(* over, so who receives it may rely on a complete record.                 *)
(***************************************************************************)
CONSTANTS Callers,   \* goroutines holding the handle
          Verdicts,  \* what a sealed observation can say
          NoCaller   \* not a member of Callers

VARIABLES sealer,    \* the caller whose call sealed the observation
          verdict,   \* what the observation says once sealed
          settled,   \* the sealing call has been answered
          asking,    \* the callers with a call in progress
          told       \* what each caller has been told so far

vars == <<sealer, verdict, settled, asking, told>>

Init ==
  /\ sealer = NoCaller
  /\ verdict = "open"
  /\ settled = FALSE
  /\ asking = {}
  /\ told = [c \in Callers |-> {}]

Ask(c) ==
  /\ c \notin asking
  /\ asking' = asking \cup {c}
  /\ UNCHANGED <<sealer, verdict, settled, told>>

Tell(c, news) ==
  /\ c \in asking
  /\ asking' = asking \ {c}
  /\ told' = [told EXCEPT ![c] = @ \cup {news}]

Seal(c) ==
  /\ c \in asking
  /\ sealer = NoCaller
  /\ sealer' = c
  /\ verdict' \in Verdicts
  /\ UNCHANGED <<settled, asking, told>>

\* The sealing call returns nil, or propagates the host's panic.
Settle(c) ==
  /\ sealer = c
  /\ ~settled
  /\ settled'
  /\ Tell(c, "sealed")
  /\ UNCHANGED <<sealer, verdict>>

\* ErrFinalized.
Refuse(c) ==
  /\ settled
  /\ Tell(c, "finalized")
  /\ UNCHANGED <<sealer, verdict, settled>>

\* A rejected input or an intermediate update leaves the observation open.
Dismiss(c) ==
  /\ sealer = NoCaller
  /\ Tell(c, "open")
  /\ UNCHANGED <<sealer, verdict, settled>>

Next == \E c \in Callers : Ask(c) \/ Seal(c) \/ Settle(c) \/ Refuse(c) \/ Dismiss(c)

Spec == Init /\ [][Next]_vars
=============================================================================
