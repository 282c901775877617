----------------------------- MODULE LinkedSpan -----------------------------
(***************************************************************************)
(* AsyncHandle.RecordLinkedSpan: the goroutine that calls it runs a host   *)
(* callback with a LinkedSpanWriter, whose copies other goroutines use to  *)
(* write on the span. The callback should join them; those it does not     *)
(* join go on calling the writer while the span is given its status and    *)
(* ended. The writer's mutex covers its active flag, the retained error    *)
(* and the writes on the span.                                             *)
(***************************************************************************)
EXTENDS Naturals, Sequences

CONSTANTS Workers,  \* goroutines holding a copy of the writer
          Nobody,   \* holder of a free mutex
          MaxWrites \* bound: writer calls of each worker

ASSUME NobodyAssumption == Nobody \notin Workers
ASSUME MaxWritesAssumption == MaxWrites \in Nat

VARIABLES handle,    \* what the call finds: disabled, invalid (or no tracer), valid
          mutex,     \* holder of the writer's mutex
          active,    \* state.active
          statusErr, \* state.statusErr: the worker whose error it is, or Nobody
          span,      \* the span, with the writes it has accepted
          stage,     \* where RecordLinkedSpan stands
          verdict,   \* how the callback ended: nil, error or panic
          reported,  \* what close returned
          pc, calls, \* where each worker stands, how often it called
          kept,      \* history: the errors retained by the writer, in order
          accepted   \* history: the writes that passed the check of active

vars == <<handle, mutex, active, statusErr, span, stage, verdict, reported, pc, calls, kept, accepted>>
worker == <<pc, calls, kept, accepted>>

Init ==
  /\ handle \in {"disabled", "invalid", "valid"}
  /\ mutex = Nobody /\ active = FALSE /\ statusErr = Nobody
  /\ span = [state |-> "none", status |-> "unset", writes |-> {}]
  /\ stage = "idle" /\ verdict = "none" /\ reported = Nobody
  /\ pc = [w \in Workers |-> "idle"]
  /\ calls = [w \in Workers |-> 0]
  /\ kept = <<>> /\ accepted = {}

Stage(from, to) == stage = from /\ stage' = to

\* The checks of RecordLinkedSpan; a disabled handle drops the callback.
Refuse ==
  /\ handle # "valid"
  /\ Stage("idle", "returned")
  /\ UNCHANGED <<handle, mutex, active, statusErr, span, verdict, reported, worker>>

\* async.StartLinkedSpan and the writer handed to the callback.
Begin ==
  /\ handle = "valid"
  /\ Stage("idle", "callback")
  /\ span' = [span EXCEPT !.state = "open"]
  /\ active' = TRUE
  /\ UNCHANGED <<handle, mutex, statusErr, verdict, reported, worker>>

\* The callback returns nil or an error, or panics.
CallbackEnds ==
  /\ Stage("callback", "closing")
  /\ verdict' \in {"nil", "error", "panic"}
  /\ UNCHANGED <<handle, mutex, active, statusErr, span, reported, worker>>

\* Mutant: close does not wait for the writer's mutex.
CloseUnlocked ==
  /\ Stage("closing", "status")
  /\ active' = FALSE /\ reported' = statusErr
  /\ UNCHANGED <<handle, mutex, statusErr, span, verdict, worker>>

\* writer.close: called after the callback, or deferred if it panics.
Close ==
  /\ mutex = Nobody
  /\ Stage("closing", "status")
  /\ active' = FALSE /\ reported' = statusErr
  /\ UNCHANGED <<handle, mutex, statusErr, span, verdict, worker>>

\* What the span is given: the panic, the callback's error, the retained error.
FinalStatus ==
  CASE verdict \in {"error", "panic"} -> verdict
    [] verdict = "nil" /\ reported # Nobody -> reported
    [] OTHER -> "ok"

SetStatus ==
  /\ Stage("status", "ending")
  /\ span' = [span EXCEPT !.status = FinalStatus]
  /\ UNCHANGED <<handle, mutex, active, statusErr, verdict, reported, worker>>

\* span.End, and the return of the call (or the panic that goes on).
EndSpan ==
  /\ Stage("ending", "returned")
  /\ span' = [span EXCEPT !.state = "ended"]
  /\ UNCHANGED <<handle, mutex, active, statusErr, verdict, reported, worker>>

\* A worker got its copy from the callback, and keeps it.
Call(w) ==
  /\ handle = "valid" /\ stage # "idle"
  /\ pc[w] = "idle" /\ calls[w] < MaxWrites
  /\ \E op \in {"SetAttributes", "SetError"} : pc' = [pc EXCEPT ![w] = op]
  /\ calls' = [calls EXCEPT ![w] = @ + 1]
  /\ UNCHANGED <<handle, mutex, active, statusErr, span, stage, verdict, reported, kept, accepted>>

Locked(op) == IF op = "SetAttributes" THEN "writing" ELSE "retaining"

\* The writer's Lock and the check of active: after the callback nothing happens.
Enter(w) ==
  /\ mutex = Nobody
  /\ pc[w] \in {"SetAttributes", "SetError"}
  /\ IF active
     THEN /\ mutex' = w
          /\ pc' = [pc EXCEPT ![w] = Locked(pc[w])]
          /\ accepted' = accepted \cup IF pc[w] = "SetAttributes" THEN {<<w, calls[w]>>} ELSE {}
     ELSE pc' = [pc EXCEPT ![w] = "idle"] /\ UNCHANGED <<mutex, accepted>>
  /\ UNCHANGED <<handle, active, statusErr, span, stage, verdict, reported, calls, kept>>

\* SetAttributes or AddEvent on a span that is still recording, then the Unlock.
Write(w) ==
  /\ pc[w] = "writing"
  /\ pc' = [pc EXCEPT ![w] = "idle"]
  /\ mutex' = Nobody
  /\ span' = IF span.state = "open"
             THEN [span EXCEPT !.writes = @ \cup {<<w, calls[w]>>}] ELSE span
  /\ UNCHANGED <<handle, active, statusErr, stage, verdict, reported, calls, kept, accepted>>

\* Mutant: the last error is retained.
RetainLast(w) ==
  /\ pc[w] = "retaining"
  /\ pc' = [pc EXCEPT ![w] = "idle"]
  /\ mutex' = Nobody
  /\ statusErr' = w
  /\ kept' = Append(kept, w)
  /\ UNCHANGED <<handle, active, span, stage, verdict, reported, calls, accepted>>

\* Mutant: no Unlock on the path of SetError.
RetainKeepsLock(w) ==
  /\ pc[w] = "retaining"
  /\ pc' = [pc EXCEPT ![w] = "idle"]
  /\ statusErr' = IF statusErr = Nobody THEN w ELSE statusErr
  /\ kept' = Append(kept, w)
  /\ UNCHANGED <<handle, mutex, active, span, stage, verdict, reported, calls, accepted>>

\* The assignment of SetError, then the Unlock.
Retain(w) ==
  /\ pc[w] = "retaining"
  /\ pc' = [pc EXCEPT ![w] = "idle"]
  /\ mutex' = Nobody
  /\ statusErr' = IF statusErr = Nobody THEN w ELSE statusErr
  /\ kept' = Append(kept, w)
  /\ UNCHANGED <<handle, active, span, stage, verdict, reported, calls, accepted>>

Caller == Refuse \/ Begin \/ CallbackEnds \/ Close \/ SetStatus \/ EndSpan
Worker(w) == Enter(w) \/ Write(w) \/ Retain(w)

Next == Caller \/ \E w \in Workers : Call(w) \/ Worker(w)

Spec == Init /\ [][Next]_vars

\* The callback terminates, goroutines are scheduled, and a contended sync.Mutex
\* is starvation-free: close gets it although workers keep calling.
FairSpec ==
  /\ Spec
  /\ WF_vars(Caller) /\ SF_vars(Close)
  /\ \A w \in Workers : WF_vars(Write(w) \/ Retain(w))
-----------------------------------------------------------------------------
\* Types of the variables.
TypeOK ==
  /\ handle \in {"disabled", "invalid", "valid"}
  /\ mutex \in Workers \cup {Nobody}
  /\ active \in BOOLEAN
  /\ statusErr \in Workers \cup {Nobody}
  /\ span \in [state : {"none", "open", "ended"},
               status : {"unset", "ok", "error", "panic"} \cup Workers,
               writes : SUBSET (Workers \X (1..MaxWrites))]
  /\ stage \in {"idle", "callback", "closing", "status", "ending", "returned"}
  /\ verdict \in {"none", "nil", "error", "panic"}
  /\ reported \in Workers \cup {Nobody}
  /\ pc \in [Workers -> {"idle", "SetAttributes", "SetError", "writing", "retaining"}]
  /\ calls \in [Workers -> 0..MaxWrites]
  /\ kept \in Seq(Workers)
  /\ accepted \subseteq Workers \X (1..MaxWrites)

\* "First non-nil SetError wins, callback return error has priority"
\* (INTEGRATION.md), and success is reported only if there was no error at all.
FirstErrorWins ==
  span.state = "ended" =>
    span.status = IF verdict # "nil" THEN verdict
                  ELSE IF kept # <<>> THEN Head(kept) ELSE "ok"

\* The writer is closed, the status of the span follows.
Decided == stage \in {"status", "ending", "returned"}

\* "After callback return or panic, writer operations are inert" (MIGRATION.md):
\* from the moment the status is decided, no writer changes what is exported.
LateWritesAreInert == [][Decided => UNCHANGED <<statusErr, span.writes>>]_vars

\* No write that passed the check of active is lost between it and the end of
\* the span.
NoAcceptedWriteIsLost == span.state = "ended" => accepted \subseteq span.writes

\* What is exported is what the callback and its workers said while it ran.
SpanIsWhatWasSaid == TypeOK /\ FirstErrorWins /\ NoAcceptedWriteIsLost

\* The span of a callback ends, whatever the callback does and however many
\* workers are still writing.
LinkedSpanEnds == stage = "callback" ~> span.state = "ended"
=============================================================================
