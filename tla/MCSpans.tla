------------------------------ MODULE MCSpans ------------------------------
(***************************************************************************)
(* Spans that host goroutines write to while they end, of a linked result  *)
(* and of a request. A behaviour has one of them: three workers, two of    *)
(* which may race for the first error while one stays behind; or two       *)
(* goroutines recording decisions during a request and after it.           *)
(***************************************************************************)
EXTENDS LinkedSpan, ServerSpans

VARIABLE part

NoServer ==
  ServerInit /\ request = [transport |-> "http", sampled |-> TRUE, policy |-> "safe"]

MCInit ==
  \/ part = "linked" /\ Init /\ NoServer
  \/ part = "server" /\ Init /\ handle = "disabled" /\ ServerInit

MCNext ==
  /\ UNCHANGED part
  /\ \/ part = "linked" /\ Next /\ UNCHANGED serverVars
     \/ part = "server" /\ ServerNext /\ UNCHANGED vars

mcVars == <<part, vars, serverVars>>

\* LinkedSpan's fairness. The handler and the host's callbacks end, and the
\* goroutines of a request run.
MCSpec ==
  /\ MCInit /\ [][MCNext]_mcVars
  /\ WF_mcVars(part = "linked" /\ Caller /\ UNCHANGED <<part, serverVars>>)
  /\ SF_mcVars(part = "linked" /\ Close /\ UNCHANGED <<part, serverVars>>)
  /\ \A w \in Workers : WF_mcVars(part = "linked" /\ (Write(w) \/ Retain(w)) /\ UNCHANGED <<part, serverVars>>)
  /\ WF_mcVars(part = "server" /\ Request /\ UNCHANGED <<part, vars>>)
  /\ \A r \in Recorders : WF_mcVars(part = "server" /\ Recorder(r) /\ UNCHANGED <<part, vars>>)
=============================================================================
