------------------------- MODULE AsyncContinuation -------------------------
(***************************************************************************)
(* Deferred outcomes: StartAsync makes a handle of the span it starts, the *)
(* handle is marshalled into a token, the host's queue carries the token   *)
(* (twice perhaps, or damaged, or not at all), and a worker records a      *)
(* result, a feedback or an evaluation as a new root span linked to the    *)
(* origin. A worker may crash at any point; the queue then delivers again. *)
(* Tokens are not signed: the queue is trusted not to forge them.          *)
(***************************************************************************)
EXTENDS Integers, FiniteSets

CONSTANTS Jobs,          \* operations with a deferred outcome
          Workers,       \* goroutines or processes that consume tokens
          MaxDeliveries, \* bound: deliveries of the token of one job
          NoJob          \* what an idle worker holds

ASSUME NoJobAssumption == NoJob \notin Jobs
ASSUME MaxDeliveriesAssumption == MaxDeliveries \in Nat \ {0}

VARIABLES producer,   \* recorder of the operations: tracker, or noop
          tracing,    \* its tracer provider: the SDK's, or noop
          caller,     \* of each job: the span context of the caller's ctx
          origin,     \* of each job: the span started by StartAsync
          stage,      \* of each job: where StartAsync and Marshal stand
          handle,     \* of each job: the reference kept in the handle
          queue,      \* tokens in the queue: job, delivery, whole or damaged
          deliveries, \* of each job: deliveries so far
          consumer,   \* recorder of the workers: tracker, or noop
          pc, held,   \* where each worker stands, and its token
          exported,   \* result spans that were ended: delivery, link
          settled     \* history: what the workers told the queue

vars == <<producer, tracing, caller, origin, stage, handle, queue, deliveries,
          consumer, pc, held, exported, settled>>
start == <<producer, tracing, caller, origin, stage, handle>>
work == <<queue, deliveries, consumer, pc, held, exported, settled>>

Disabled == [of |-> "disabled", job |-> NoJob]
Invalid == [of |-> "invalid", job |-> NoJob]
Ref(kind, j) == [of |-> kind, job |-> j]
Idle == [job |-> NoJob, n |-> 0, whole |-> FALSE]

Init ==
  /\ producer \in {"tracker", "noop"} /\ consumer \in {"tracker", "noop"}
  /\ tracing \in {"sdk", "noop"}
  /\ caller \in [Jobs -> {"none", "request", "long_state"}]
  /\ origin = [j \in Jobs |-> "none"]
  /\ stage = [j \in Jobs |-> "called"]
  /\ handle = [j \in Jobs |-> Invalid]
  /\ queue = {} /\ deliveries = [j \in Jobs |-> 0]
  /\ pc = [w \in Workers |-> "idle"] /\ held = [w \in Workers |-> Idle]
  /\ exported = {} /\ settled = {}

Go(j, from, to) == stage[j] = from /\ stage' = [stage EXCEPT ![j] = to]
Hold(j, ref) == handle' = [handle EXCEPT ![j] = ref]

-----------------------------------------------------------------------------
\* The noop recorder's StartAsync: a disabled handle.
StartDisabled(j) ==
  /\ producer = "noop"
  /\ Go(j, "called", "returned") /\ Hold(j, Disabled)
  /\ UNCHANGED <<producer, tracing, caller, origin, work>>

\* tracer.Start; a noop tracer starts nothing and hands the caller's span on.
StartSpan(j) ==
  /\ producer = "tracker"
  /\ Go(j, "called", "started")
  /\ origin' = [origin EXCEPT ![j] = IF tracing = "sdk" THEN "open" ELSE "none"]
  /\ UNCHANGED <<producer, tracing, caller, handle, work>>

\* Mutant: the handle is made of the ctx StartAsync was given.
CaptureCaller(j) ==
  /\ Go(j, "started", "captured")
  /\ Hold(j, IF caller[j] # "none" THEN Ref("caller", j) ELSE Invalid)
  /\ UNCHANGED <<producer, tracing, caller, origin, work>>

\* NewAsyncHandle: the span context of the ctx, if it has a valid one.
Capture(j) ==
  /\ Go(j, "started", "captured")
  /\ Hold(j, CASE tracing = "sdk" -> Ref("own", j)
               [] tracing = "noop" /\ caller[j] # "none" -> Ref("caller", j)
               [] OTHER -> Invalid)
  /\ UNCHANGED <<producer, tracing, caller, origin, work>>

\* The deferred span.End, then the return of the handle.
EndOrigin(j) ==
  /\ Go(j, "captured", "returned")
  /\ origin' = [origin EXCEPT ![j] = IF @ = "open" THEN "ended" ELSE @]
  /\ UNCHANGED <<producer, tracing, caller, handle, work>>

\* Marshal refuses a disabled or invalid handle and a long tracestate.
Marshals(j) == handle[j].of \in {"own", "caller"} /\ caller[j] # "long_state"

NoToken(j) ==
  /\ ~Marshals(j) /\ Go(j, "returned", "refused")
  /\ UNCHANGED <<producer, tracing, caller, origin, handle, work>>

Token(j, n) == [job |-> j, n |-> n, whole |-> TRUE]

Send(j) ==
  /\ Marshals(j) /\ Go(j, "returned", "sent")
  /\ queue' = queue \cup {Token(j, 1)}
  /\ deliveries' = [deliveries EXCEPT ![j] = 1]
  /\ UNCHANGED <<producer, tracing, caller, origin, handle, consumer, pc, held, exported, settled>>

-----------------------------------------------------------------------------
\* The host's queue.
Duplicate(j) ==
  /\ stage[j] = "sent" /\ deliveries[j] < MaxDeliveries
  /\ deliveries' = [deliveries EXCEPT ![j] = @ + 1]
  /\ queue' = queue \cup {Token(j, deliveries[j] + 1)}
  /\ UNCHANGED <<start, consumer, pc, held, exported, settled>>

Damage(t) ==
  /\ t.whole /\ queue' = (queue \ {t}) \cup {[t EXCEPT !.whole = FALSE]}
  /\ UNCHANGED <<start, deliveries, consumer, pc, held, exported, settled>>

Lose(t) ==
  /\ queue' = queue \ {t}
  /\ UNCHANGED <<start, deliveries, consumer, pc, held, exported, settled>>

-----------------------------------------------------------------------------
At(w, from, to) == pc[w] = from /\ pc' = [pc EXCEPT ![w] = to]

Take(w, t) ==
  /\ At(w, "idle", "token")
  /\ queue' = queue \ {t} /\ held' = [held EXCEPT ![w] = t]
  /\ UNCHANGED <<start, deliveries, consumer, exported, settled>>

\* Mutant: a damaged token is handled like a disabled handle.
ParseLenient(w) ==
  /\ At(w, "token", IF held[w].whole THEN "parsed" ELSE "ack")
  /\ UNCHANGED <<start, queue, deliveries, consumer, held, exported, settled>>

\* ParseAsyncHandle, by every recorder: a damaged token is an error.
Parse(w) ==
  /\ At(w, "token", IF held[w].whole THEN "parsed" ELSE "nack")
  /\ UNCHANGED <<start, queue, deliveries, consumer, held, exported, settled>>

\* The noop recorder has nothing to do for a valid handle.
Drop(w) ==
  /\ consumer = "noop" /\ At(w, "parsed", "ack")
  /\ UNCHANGED <<start, queue, deliveries, consumer, held, exported, settled>>

\* RecordAsyncFeedback and Evaluation.Validate refuse what the host gives them.
Refuse(w) ==
  /\ consumer = "tracker" /\ At(w, "parsed", "nack")
  /\ UNCHANGED <<start, queue, deliveries, consumer, held, exported, settled>>

\* StartLinkedSpan, or the root span of an evaluation.
Begin(w) ==
  /\ consumer = "tracker" /\ At(w, "parsed", "span")
  /\ UNCHANGED <<start, queue, deliveries, consumer, held, exported, settled>>

\* The deferred span.End: the root span, linked to what the token says.
End(w) ==
  /\ At(w, "span", "ack")
  /\ exported' = exported \cup {[delivery |-> <<held[w].job, held[w].n>>,
                                 link |-> handle[held[w].job]]}
  /\ UNCHANGED <<start, queue, deliveries, consumer, held, settled>>

\* The worker tells the queue, which forgets the delivery.
Settle(w) ==
  /\ \E how \in {"ack", "nack"} :
       /\ At(w, how, "idle")
       /\ settled' = settled \cup {[delivery |-> <<held[w].job, held[w].n>>, how |-> how]}
  /\ held' = [held EXCEPT ![w] = Idle]
  /\ UNCHANGED <<start, queue, deliveries, consumer, exported>>

\* The process dies: an open span is lost, and the queue delivers again.
Crash(w) ==
  /\ pc[w] # "idle" /\ deliveries[held[w].job] < MaxDeliveries
  /\ pc' = [pc EXCEPT ![w] = "idle"] /\ held' = [held EXCEPT ![w] = Idle]
  /\ deliveries' = [deliveries EXCEPT ![held[w].job] = @ + 1]
  /\ queue' = queue \cup {[held[w] EXCEPT !.n = deliveries[held[w].job] + 1]}
  /\ UNCHANGED <<start, consumer, exported, settled>>

-----------------------------------------------------------------------------
Producer(j) ==
  StartDisabled(j) \/ StartSpan(j) \/ Capture(j) \/ EndOrigin(j) \/ NoToken(j) \/ Send(j)

Worker(w) ==
  \/ \E t \in queue : Take(w, t)
  \/ Parse(w) \/ Drop(w) \/ Refuse(w) \/ Begin(w) \/ End(w) \/ Settle(w)

Next ==
  \/ \E j \in Jobs : Producer(j) \/ Duplicate(j)
  \/ \E t \in queue : Damage(t) \/ Lose(t)
  \/ \E w \in Workers : Worker(w) \/ Crash(w)

Spec == Init /\ [][Next]_vars

-----------------------------------------------------------------------------
Refs == {Disabled, Invalid} \cup {Ref(kind, j) : kind \in {"own", "caller"}, j \in Jobs}
DeliveryIds == Jobs \X (1..MaxDeliveries)
Tokens == [job : Jobs, n : 1..MaxDeliveries, whole : BOOLEAN]

\* Types, and: nothing is ever linked to a disabled or to an invalid handle, as
\* neither becomes a token (disabled handles "cannot produce an origin token").
TypeOK ==
  /\ origin \in [Jobs -> {"none", "open", "ended"}]
  /\ stage \in [Jobs -> {"called", "started", "captured", "returned", "refused", "sent"}]
  /\ \A j \in Jobs : handle[j] \in Refs
  /\ queue \subseteq Tokens /\ deliveries \in [Jobs -> 0..MaxDeliveries]
  /\ pc \in [Workers -> {"idle", "token", "parsed", "span", "ack", "nack"}]
  /\ \A w \in Workers : held[w] \in Tokens \cup {Idle}
  /\ \A s \in exported : s.delivery \in DeliveryIds /\ s.link \in Refs \ {Disabled, Invalid}
  /\ \A s \in settled : s.delivery \in DeliveryIds /\ s.how \in {"ack", "nack"}

\* A result is linked to the operation that StartAsync recorded, not to the
\* caller around it, and to that of its own token, whatever is duplicated and
\* whoever crashes; only without an SDK is the caller the origin.
ResultLinksItsOrigin ==
  \A s \in exported :
    /\ s.link.job = s.delivery[1]
    /\ s.link.of = IF tracing = "sdk" THEN "own" ELSE "caller"

\* The origin is over before any result of it exists: StartAsync ends its span
\* before the token can leave.
OriginIsOver == \A s \in exported : s.link.of = "own" => origin[s.link.job] = "ended"

\* A result continues an operation that was recorded, its own.
ContinuesItsOrigin == TypeOK /\ ResultLinksItsOrigin /\ OriginIsOver

\* A worker that is told nil may forget the token: its result is ended (with a
\* recorder that records), and the token was a real one.
NilMeansRecorded ==
  \A s \in settled : s.how = "ack" =>
    /\ consumer = "tracker" => \E e \in exported : e.delivery = s.delivery
    /\ stage[s.delivery[1]] = "sent"

\* An error, from a damaged token or an invalid result, leaves no telemetry, so
\* that correcting and recording it again does not report it twice.
RefusedLeavesNothing ==
  \A s \in settled, e \in exported : s.how = "nack" => e.delivery # s.delivery

\* What a worker is told is what happened.
AckedIsRecorded == NilMeansRecorded /\ RefusedLeavesNothing
=============================================================================
