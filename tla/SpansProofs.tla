---------------------------- MODULE SpansProofs -----------------------------
(***************************************************************************)
(* Spans that host goroutines write to while they end, for any number of   *)
(* goroutines and calls. A linked span: the mutex is held only while the   *)
(* writer is active, so that close, which takes it, finds nobody half way  *)
(* through a write. The spans of a request: a recorder that found the span *)
(* of the request ended never finds it open again. The span and counts of  *)
(* a wrapped function: they say how it ended.                              *)
(***************************************************************************)
EXTENDS LinkedSpan, ServerSpans, Executor, SequenceTheorems, FiniteSetTheorems, TLAPS

(* RecordLinkedSpan *)

Inside(w) == pc[w] \in {"writing", "retaining"}

\* The writer's mutex: its holder is inside, alone, and only while it is active.
Guarded ==
  /\ \A w \in Workers : Inside(w) <=> mutex = w
  /\ mutex # Nobody => active
  /\ active <=> stage \in {"callback", "closing"}
  /\ \A w \in Workers : pc[w] # "idle" => calls[w] >= 1

\* Where RecordLinkedSpan stands says what has become of the span.
Staged ==
  /\ stage = "idle" => span.state = "none"
  /\ stage \in {"callback", "closing", "status", "ending"} => span.state = "open"
  /\ stage \in {"closing", "status", "ending"} => verdict # "none"
  /\ span.state = "ended" => stage = "returned" /\ verdict # "none"
  /\ stage = "ending" \/ span.state = "ended" => span.status = FinalStatus

\* The retained error is the first one; close reports it.
Retained ==
  /\ statusErr = IF kept = <<>> THEN Nobody ELSE Head(kept)
  /\ stage = "idle" => statusErr = Nobody /\ reported = Nobody
  /\ Decided => reported = statusErr

\* A write that passed the check of active is on the span, or about to be.
Pending == accepted \subseteq span.writes \cup {<<w, calls[w]>> : w \in {v \in Workers : pc[v] = "writing"}}

LinkedInv == TypeOK /\ Guarded /\ Staged /\ Retained /\ Pending

\* What the writer retained and what RecordLinkedSpan gives the span at its end
\* add up to the promise about the exported span.
LEMMA LinkedInvSuffices == LinkedInv => SpanIsWhatWasSaid
<1> SUFFICES ASSUME LinkedInv PROVE FirstErrorWins /\ NoAcceptedWriteIsLost
  BY DEF LinkedInv, SpanIsWhatWasSaid
<1> USE DEF LinkedInv
<1>1. FirstErrorWins
  <2> SUFFICES ASSUME span.state = "ended"
               PROVE  span.status = IF verdict # "nil" THEN verdict
                                    ELSE IF kept # <<>> THEN Head(kept) ELSE "ok"
    BY DEF FirstErrorWins
  <2>1. verdict \in {"nil", "error", "panic"} /\ span.status = FinalStatus
    BY DEF Staged, TypeOK
  <2>2. reported = IF kept = <<>> THEN Nobody ELSE Head(kept)
    BY DEF Retained, Staged, Decided
  <2>3. kept # <<>> => Head(kept) \in Workers
    BY DEF TypeOK
  <2>4. kept # <<>> => Head(kept) # Nobody
    BY <2>3, NobodyAssumption
  <2> QED
    BY <2>1, <2>2, <2>4 DEF FinalStatus
<1>2. NoAcceptedWriteIsLost
  <2> SUFFICES ASSUME span.state = "ended" PROVE accepted \subseteq span.writes
    BY DEF NoAcceptedWriteIsLost
  <2>1. \A w \in Workers : pc[w] # "writing"
    BY NobodyAssumption DEF Guarded, Inside, Staged
  <2> QED
    BY <2>1 DEF Pending
<1> QED
  BY <1>1, <1>2

LEMMA LinkedInvInit == Init => LinkedInv
<1> SUFFICES ASSUME Init PROVE LinkedInv
  OBVIOUS
<1>1. active = FALSE /\ active \in BOOLEAN
  BY Zenon DEF Init
<1>2. TypeOK
  BY <1>1, MaxWritesAssumption DEF Init, TypeOK
<1>3. Guarded
  BY <1>1, NobodyAssumption DEF Init, Guarded, Inside
<1>4. Staged /\ Retained /\ Pending
  BY DEF Init, Staged, Retained, Pending, Decided
<1> QED
  BY <1>2, <1>3, <1>4 DEF LinkedInv

\* The steps of the goroutine that called RecordLinkedSpan.
LEMMA CallerSteps ==
  ASSUME LinkedInv, Caller
  PROVE  LinkedInv'
<1> USE DEF LinkedInv
<1>1. UNCHANGED <<handle, mutex, statusErr, pc, calls, kept, accepted>>
  BY DEF Caller, Refuse, Begin, CallbackEnds, Close, SetStatus, EndSpan, worker
<1>2. span'.writes = span.writes
  BY DEF Caller, Refuse, Begin, CallbackEnds, Close, SetStatus, EndSpan, TypeOK
<1>3. Pending'
  BY <1>1, <1>2 DEF Pending
<1>4. CASE Refuse
  BY <1>1, <1>3, <1>4 DEF Refuse, Stage, TypeOK, Guarded, Inside, Staged, Retained, Decided, FinalStatus
<1>5. CASE Begin
  <2>1. active' \in BOOLEAN /\ active'
    BY <1>5, Zenon DEF Begin
  <2>2. TypeOK'
    BY <1>1, <1>5, <2>1 DEF Begin, Stage, TypeOK
  <2>3. Guarded'
    BY <1>1, <1>5, <2>1 DEF Begin, Stage, Guarded, Inside
  <2>4. Staged' /\ Retained'
    BY <1>1, <1>5 DEF Begin, Stage, TypeOK, Staged, Retained, Decided
  <2> QED
    BY <1>3, <2>2, <2>3, <2>4
<1>6. CASE CallbackEnds
  BY <1>1, <1>3, <1>6 DEF CallbackEnds, Stage, TypeOK, Guarded, Inside, Staged, Retained, Decided
<1>7. CASE Close
  <2>1. active' \in BOOLEAN /\ ~active'
    BY <1>7, Zenon DEF Close
  <2>2. TypeOK'
    BY <1>1, <1>7, <2>1 DEF Close, Stage, TypeOK
  <2>3. Guarded'
    BY <1>1, <1>7, <2>1 DEF Close, Stage, Guarded, Inside
  <2>4. Staged' /\ Retained'
    BY <1>1, <1>7 DEF Close, Stage, TypeOK, Staged, Retained, Decided
  <2> QED
    BY <1>3, <2>2, <2>3, <2>4
<1>8. CASE SetStatus
  <2>1. FinalStatus \in {"ok", "error", "panic"} \cup Workers
    BY DEF TypeOK, FinalStatus
  <2>2. TypeOK'
    BY <1>1, <1>8, <2>1 DEF SetStatus, Stage, TypeOK
  <2>3. Guarded'
    BY <1>1, <1>8 DEF SetStatus, Stage, Guarded, Inside
  <2>4. span'.status = FinalStatus' /\ span'.state = span.state
    BY <1>8 DEF SetStatus, TypeOK, FinalStatus
  <2>5. Staged' /\ Retained'
    BY <1>1, <1>8, <2>4 DEF SetStatus, Stage, TypeOK, Staged, Retained, Decided
  <2> QED
    BY <1>3, <2>2, <2>3, <2>5
<1>9. CASE EndSpan
  <2>1. span'.state = "ended" /\ span'.status = span.status /\ FinalStatus' = FinalStatus
    BY <1>9 DEF EndSpan, TypeOK, FinalStatus
  <2>2. TypeOK'
    BY <1>1, <1>9 DEF EndSpan, Stage, TypeOK
  <2>3. Guarded'
    BY <1>1, <1>9 DEF EndSpan, Stage, Guarded, Inside
  <2>4. Staged' /\ Retained'
    BY <1>1, <1>9, <2>1 DEF EndSpan, Stage, TypeOK, Staged, Retained, Decided
  <2> QED
    BY <1>3, <2>2, <2>3, <2>4
<1> QED
  BY <1>4, <1>5, <1>6, <1>7, <1>8, <1>9 DEF Caller

\* The steps of the goroutines holding a copy of the writer.
LEMMA WorkerSteps ==
  ASSUME LinkedInv, NEW w \in Workers, Call(w) \/ Worker(w)
  PROVE  LinkedInv'
<1> USE DEF LinkedInv
<1>1. UNCHANGED <<handle, active, stage, verdict, reported>> /\ FinalStatus' = FinalStatus
  BY DEF Call, Worker, Enter, Write, Retain, FinalStatus
<1>2. w # Nobody
  BY NobodyAssumption
<1>3. CASE Call(w)
  <2>1. PICK op \in {"SetAttributes", "SetError"} : pc' = [pc EXCEPT ![w] = op]
    BY <1>3 DEF Call
  <2>2. TypeOK'
    BY <1>1, <1>3, <2>1, MaxWritesAssumption DEF Call, TypeOK
  <2>3. Guarded'
    BY <1>1, <1>3, <2>1 DEF Call, TypeOK, Guarded, Inside
  <2>4. Staged' /\ Retained'
    BY <1>1, <1>3 DEF Call, Staged, Retained, Decided
  <2>5. Pending'
    BY <1>3, <2>1 DEF Call, TypeOK, Pending
  <2> QED
    BY <2>2, <2>3, <2>4, <2>5
<1>4. CASE Enter(w)
  <2>1. UNCHANGED <<calls, span, statusErr, kept>> /\ mutex = Nobody
    BY <1>4 DEF Enter
  <2>2. \A v \in Workers : ~Inside(v)
    BY <2>1, NobodyAssumption DEF Guarded
  <2>3. <<w, calls[w]>> \in Workers \X (1..MaxWrites)
    BY <1>4 DEF Enter, TypeOK, Guarded
  <2>4. Staged' /\ Retained'
    BY <1>1, <2>1 DEF Staged, Retained, Decided
  <2>5. CASE ~active
    <3>1. pc' = [pc EXCEPT ![w] = "idle"] /\ UNCHANGED <<mutex, accepted>>
      BY <1>4, <2>5 DEF Enter
    <3> QED
      BY <1>1, <2>1, <2>2, <2>4, <3>1 DEF TypeOK, Guarded, Inside, Pending
  <2>6. CASE active
    <3>1. /\ mutex' = w /\ pc' = [pc EXCEPT ![w] = Locked(pc[w])]
          /\ accepted' = accepted \cup IF pc[w] = "SetAttributes" THEN {<<w, calls[w]>>} ELSE {}
          /\ pc[w] \in {"SetAttributes", "SetError"}
      BY <1>4, <2>6 DEF Enter
    <3>2. pc'[w] = (IF pc[w] = "SetAttributes" THEN "writing" ELSE "retaining")
          /\ \A v \in Workers : v # w => pc'[v] = pc[v]
      BY <3>1 DEF Locked, TypeOK
    <3>3. TypeOK'
      BY <1>1, <2>1, <2>3, <3>1 DEF TypeOK, Locked
    <3>4. Guarded'
      BY <1>1, <1>2, <2>1, <2>2, <2>6, <3>1, <3>2 DEF Guarded, Inside, TypeOK
    <3>5. Pending'
      BY <2>1, <2>2, <3>1, <3>2 DEF Pending, Inside
    <3> QED
      BY <2>4, <3>3, <3>4, <3>5
  <2> QED
    BY <2>5, <2>6 DEF TypeOK
<1>5. CASE Write(w)
  <2>1. /\ UNCHANGED <<calls, statusErr, kept, accepted>> /\ pc[w] = "writing"
        /\ mutex' = Nobody /\ pc' = [pc EXCEPT ![w] = "idle"]
    BY <1>5 DEF Write
  <2>2. mutex = w /\ active /\ span.state = "open"
    BY <1>2, <2>1 DEF Guarded, Inside, Staged
  <2>3. span' = [span EXCEPT !.writes = @ \cup {<<w, calls[w]>>}]
    BY <1>5, <2>2 DEF Write
  <2>4. /\ span'.state = span.state /\ span'.status = span.status
        /\ span'.writes = span.writes \cup {<<w, calls[w]>>}
    BY <2>3 DEF TypeOK
  <2>5. <<w, calls[w]>> \in Workers \X (1..MaxWrites)
    BY <2>1 DEF TypeOK, Guarded
  <2>6. TypeOK'
    BY <1>1, <2>1, <2>3, <2>5 DEF TypeOK
  <2>7. Guarded'
    BY <1>1, <1>2, <2>1, <2>2, NobodyAssumption DEF Guarded, Inside, TypeOK
  <2>8. Staged' /\ Retained'
    BY <1>1, <2>1, <2>4 DEF Staged, Retained, Decided
  <2>9. Pending'
    BY <2>1, <2>4 DEF Pending, TypeOK
  <2> QED
    BY <2>6, <2>7, <2>8, <2>9
<1>6. CASE Retain(w)
  <2>1. /\ UNCHANGED <<calls, span, accepted>> /\ pc[w] = "retaining"
        /\ mutex' = Nobody /\ pc' = [pc EXCEPT ![w] = "idle"]
        /\ statusErr' = (IF statusErr = Nobody THEN w ELSE statusErr)
        /\ kept' = Append(kept, w)
    BY <1>6 DEF Retain
  <2>2. mutex = w /\ active /\ stage \in {"callback", "closing"}
    BY <1>2, <2>1 DEF Guarded, Inside
  <2>3. TypeOK'
    BY <1>1, <2>1 DEF TypeOK
  <2>4. Guarded'
    BY <1>1, <1>2, <2>1, <2>2, NobodyAssumption DEF Guarded, Inside, TypeOK
  <2>5. Staged'
    BY <1>1, <2>1 DEF Staged
  <2>6. Retained'
    <3>1. CASE kept = <<>>
      BY <1>1, <2>1, <2>2, <3>1 DEF Retained, Decided
    <3>2. CASE kept # <<>>
      <4>1. Head(kept) \in Workers /\ Head(kept') = Head(kept) /\ kept' # <<>>
        BY <2>1, <3>2 DEF TypeOK
      <4> QED
        BY <1>1, <2>1, <2>2, <3>2, <4>1, NobodyAssumption DEF Retained, Decided
    <3> QED
      BY <3>1, <3>2
  <2>7. Pending'
    BY <2>1 DEF Pending, TypeOK
  <2> QED
    BY <2>3, <2>4, <2>5, <2>6, <2>7
<1> QED
  BY <1>3, <1>4, <1>5, <1>6 DEF Worker

LEMMA LinkedInvStep == LinkedInv /\ [Next]_vars => LinkedInv'
<1> SUFFICES ASSUME LinkedInv, [Next]_vars PROVE LinkedInv'
  OBVIOUS
<1>1. CASE UNCHANGED vars
  BY <1>1 DEF vars, LinkedInv, TypeOK, Guarded, Inside, Staged, FinalStatus, Retained, Decided, Pending
<1> QED
  BY <1>1, CallerSteps, WorkerSteps DEF Next

\* The span of a linked result says what the callback and its workers said while
\* the callback ran: the first error wins, and no accepted write is lost.
THEOREM LinkedSpanIsWhatWasSaid == Spec => []SpanIsWhatWasSaid
<1> QED
  BY LinkedInvInit, LinkedInvStep, LinkedInvSuffices, PTL DEF Spec

\* Once the status is decided, a worker that still holds a copy of the writer
\* changes neither the retained error nor what the span has.
THEOREM LinkedWritesAreInert == Spec => LateWritesAreInert
<1>1. ASSUME LinkedInv, [Next]_vars, Decided PROVE UNCHANGED <<statusErr, span.writes>>
  <2>1. \A w \in Workers : ~Inside(w)
    BY <1>1, NobodyAssumption DEF LinkedInv, Guarded, Decided
  <2>2. CASE Caller
    BY <1>1, <2>2 DEF LinkedInv, TypeOK, Caller, Refuse, Begin, CallbackEnds, Close, SetStatus, EndSpan
  <2>3. ASSUME NEW w \in Workers, Call(w) \/ Worker(w) PROVE UNCHANGED <<statusErr, span.writes>>
    BY <2>1, <2>3 DEF Call, Worker, Enter, Write, Retain, Inside
  <2>4. CASE UNCHANGED vars
    BY <2>4 DEF vars
  <2> QED
    BY <1>1, <2>2, <2>3, <2>4 DEF Next
<1> QED
  BY <1>1, LinkedInvInit, LinkedInvStep, PTL DEF Spec, LateWritesAreInert
-----------------------------------------------------------------------------
(* The spans of a request *)

Texts == {"class", "raw", "sanitized", "suppressed"}
Decisions == [by : Recorders, reason : Texts \cup {NoText}]

ServerTypes ==
  /\ request \in [transport : {"http", "grpc"}, sampled : BOOLEAN, policy : {"safe", "raw", "sanitizer"}]
  /\ requestSpan \in [open : BOOLEAN, error : BOOLEAN, code : {Nothing, "its_own", "Unknown"},
                      texts : SUBSET Texts, events : SUBSET Decisions]
  /\ reason \in [Recorders -> Texts \cup {NoText}]
  /\ childEvents \subseteq Decisions

\* Where the request stands: what its handler gave, and whether its span is open.
Serving ==
  /\ passed = gave
  /\ IF serving = "handler" THEN gave = Nothing ELSE gave \in Ended
  /\ serving \in {"recorded", "rethrown"} => request.transport = "http" /\ gave = "panic"
  /\ serving = "observed" => request.transport = "grpc"
  /\ requestSpan.open <=> serving \in {"handler", "ended", "recorded"}
  /\ seen = IF serving = "done" THEN gave ELSE Nothing

\* What the span tells of the outcome, from the step that knows it to the end.
Told ==
  /\ serving \in {"handler", "ended"} => ~requestSpan.error /\ requestSpan.texts = {}
  /\ request.sampled /\ serving \in {"recorded", "rethrown", "observed", "done"} =>
       /\ gave \in {"panic", "plain_error", "hostile_error"} => requestSpan.error /\ requestSpan.texts # {}
       /\ gave \in {"value", "exit"} => ~requestSpan.error

\* Nothing raw is held where it could still be written to a span.
NoRaw ==
  request.policy # "raw" =>
    /\ "raw" \notin requestSpan.texts
    /\ \A r \in Recorders : reason[r] # "raw"

\* A recorder leaves its one decision on the span it chose, and one that found the
\* span of the request ended never finds it open.
Chosen ==
  /\ \A d \in requestSpan.events \cup childEvents : d = Decision(d.by)
  /\ requestSpan.events \cap childEvents = {}
  /\ \A r \in Recorders :
       /\ recording[r] \in {"idle", "called", "refused", "processed", "adding", "starting"} =>
            /\ Decision(r) \notin requestSpan.events \cup childEvents
            /\ child[r] = "none"
       /\ recording[r] \in {"starting", "inside"} => ~Recording
       /\ recording[r] = "recorded" /\ Recording => Decision(r) \in requestSpan.events
       /\ recording[r] = "recorded" => child[r] # "open"

ServerInv == ServerTypeOK /\ ServerTypes /\ Serving /\ Told /\ NoRaw /\ Chosen

\* What was said of a request at each point of its serving is what its span says at its end.
LEMMA ServerInvSuffices == ServerInv => ServerSpansAreTrue
<1> SUFFICES ASSUME ServerInv PROVE OnlyProcessedText /\ OutcomeIsPassedOn /\ DecisionsAreOnOneSpan
  BY DEF ServerInv, ServerSpansAreTrue
<1> USE DEF ServerInv
<1>1. OnlyProcessedText
  <2>1. \A d \in requestSpan.events \cup childEvents : d.by \in Recorders /\ d.reason = reason[d.by]
    BY DEF ServerTypes, Decisions, Chosen, Decision
  <2> QED
    BY <2>1 DEF OnlyProcessedText, NoRaw
<1>2. OutcomeIsPassedOn
  BY DEF OutcomeIsPassedOn, Serving, Told
<1>3. DecisionsAreOnOneSpan
  <2> SUFFICES ASSUME NEW r \in Recorders
               PROVE  LET on == {d \in requestSpan.events : d.by = r}
                          alone == {d \in childEvents : d.by = r}
                      IN /\ Cardinality(on) + Cardinality(alone) <= 1
                         /\ recording[r] = "recorded" /\ Recording => on # {}
                         /\ recording[r] \in {"idle", "called", "refused"} => on = {} /\ alone = {} /\ child[r] = "none"
                         /\ recording[r] = "recorded" => child[r] # "open"
    BY DEF DecisionsAreOnOneSpan
  <2> DEFINE on == {d \in requestSpan.events : d.by = r}
             alone == {d \in childEvents : d.by = r}
  <2>1. on \subseteq {Decision(r)} /\ alone \subseteq {Decision(r)} /\ on \cap alone = {}
    BY DEF Chosen
  <2>2. Decision(r).by = r
    BY DEF Decision
  <2>3. on = {} \/ alone = {}
    BY <2>1
  <2>4. Cardinality({}) = 0 /\ Cardinality({Decision(r)}) = 1
    BY FS_EmptySet, FS_Singleton
  <2>5. \A s \in {on, alone} : Cardinality(s) \in {0, 1} /\ (s = {} => Cardinality(s) = 0)
    <3>1. \A s \in {on, alone} : s = {} \/ s = {Decision(r)}
      BY <2>1
    <3> QED
      BY <2>4, <3>1
  <2>6. Cardinality(on) + Cardinality(alone) <= 1
    BY <2>3, <2>5
  <2>7. recording[r] = "recorded" /\ Recording => on # {}
    BY <2>2 DEF Chosen
  <2>8. recording[r] \in {"idle", "called", "refused"} => on = {} /\ alone = {} /\ child[r] = "none"
    BY <2>1 DEF Chosen
  <2> QED
    BY <2>6, <2>7, <2>8 DEF Chosen
<1> QED
  BY <1>1, <1>2, <1>3

LEMMA ServerInvInit == ServerInit => ServerInv
<1> SUFFICES ASSUME ServerInit PROVE ServerInv
  OBVIOUS
<1>1. requestSpan.open = TRUE /\ requestSpan.error = FALSE /\ requestSpan.texts = {} /\ requestSpan.events = {}
  BY DEF ServerInit
<1>2. ServerTypes
  BY DEF ServerInit, ServerTypes, Nothing, NoText
<1>3. ServerTypeOK
  BY <1>2, <1>1 DEF ServerInit, ServerTypeOK
<1>4. Serving /\ Told /\ NoRaw
  BY <1>1 DEF ServerInit, Serving, Told, NoRaw, NoText, Nothing
<1>5. Chosen
  BY <1>1 DEF ServerInit, Chosen
<1> QED
  BY <1>2, <1>3, <1>4, <1>5 DEF ServerInv

\* What the policy lets through is raw only in raw mode.
LEMMA ProcessedTexts ==
  ASSUME ServerTypes
  PROVE  Processed \subseteq Texts /\ (request.policy # "raw" => "raw" \notin Processed)
BY DEF ServerTypes, Processed, Texts

\* The steps of the request: they write what the policy left, and only while the
\* span is recording.
LEMMA RequestSteps ==
  ASSUME ServerInv, Request
  PROVE  ServerInv'
<1> USE DEF ServerInv
<1>1. UNCHANGED <<request, recording, observed, reason, child, childEvents>>
  BY DEF Request, HandlerEnds, Recover, EndAndRethrow, LeaveHTTP, HandleEnd, HostHandlesEnd, recordVars
<1>2. Processed \subseteq Texts /\ (request.policy # "raw" => "raw" \notin Processed)
  BY ProcessedTexts
<1>3. /\ Ended' = Ended /\ \A r \in Recorders : Decision(r)' = Decision(r)
      /\ Ended \subseteq {"value", "panic", "exit", "status_error", "plain_error", "hostile_error"}
  BY <1>1 DEF Ended, Decision
\* The span of the request loses no event and is not opened.
<1>4. ASSUME requestSpan'.events = requestSpan.events, requestSpan'.open => requestSpan.open
      PROVE  Chosen'
  <2>1. Recording' => Recording
    BY <1>1, <1>4 DEF Recording
  <2> QED
    BY <1>1, <1>3, <1>4, <2>1 DEF Chosen, Decision
<1>5. CASE HandlerEnds
  <2>1. /\ serving = "handler" /\ serving' = "ended" /\ gave' \in Ended /\ passed' = gave'
        /\ UNCHANGED <<seen, requestSpan>>
    BY <1>5 DEF HandlerEnds, Serve
  <2>2. ServerTypeOK' /\ ServerTypes'
    BY <1>1, <1>3, <2>1 DEF ServerTypeOK, ServerTypes
  <2>3. Serving' /\ Told' /\ NoRaw'
    BY <1>1, <1>3, <2>1 DEF Serving, Told, NoRaw
  <2> QED
    BY <1>4, <2>1, <2>2, <2>3
<1>6. CASE Recover
  <2>1. /\ serving = "ended" /\ serving' = "recorded" /\ request.transport = "http" /\ gave = "panic"
        /\ UNCHANGED <<gave, passed, seen>>
    BY <1>6 DEF Recover, Serve
  <2>2. PICK text \in Processed :
          requestSpan' = IF Recording THEN [requestSpan EXCEPT !.error = TRUE, !.texts = {text}] ELSE requestSpan
    BY <1>6 DEF Recover
  <2>3. CASE Recording
    <3>1. /\ requestSpan' \in [open : BOOLEAN, error : BOOLEAN, code : {Nothing, "its_own", "Unknown"},
                               texts : SUBSET Texts, events : SUBSET Decisions]
          /\ requestSpan'.error /\ requestSpan'.texts = {text}
          /\ requestSpan'.open = requestSpan.open /\ requestSpan'.events = requestSpan.events
      BY <1>2, <2>2, <2>3 DEF ServerTypes
    <3>2. ServerTypeOK' /\ ServerTypes'
      BY <1>1, <1>3, <2>1, <3>1 DEF ServerTypeOK, ServerTypes, Texts
    <3>3. Serving' /\ Told' /\ NoRaw'
      BY <1>1, <1>2, <1>3, <2>1, <3>1 DEF Serving, Told, NoRaw
    <3> QED
      BY <1>4, <3>1, <3>2, <3>3
  <2>4. CASE ~Recording
    <3>1. requestSpan' = requestSpan /\ ~request.sampled
      BY <2>1, <2>2, <2>4 DEF Recording, Serving
    <3>2. ServerTypeOK' /\ ServerTypes'
      BY <1>1, <1>3, <2>1, <3>1 DEF ServerTypeOK, ServerTypes
    <3>3. Serving' /\ Told' /\ NoRaw'
      BY <1>1, <1>3, <2>1, <3>1 DEF Serving, Told, NoRaw
    <3> QED
      BY <1>4, <3>1, <3>2, <3>3
  <2> QED
    BY <2>3, <2>4
<1>7. CASE EndAndRethrow
  <2>1. /\ serving = "recorded" /\ serving' = "rethrown" /\ UNCHANGED <<gave, passed, seen>>
        /\ requestSpan' = [requestSpan EXCEPT !.open = FALSE]
    BY <1>7 DEF EndAndRethrow, Serve
  <2>2. /\ requestSpan' \in [open : BOOLEAN, error : BOOLEAN, code : {Nothing, "its_own", "Unknown"},
                             texts : SUBSET Texts, events : SUBSET Decisions]
        /\ requestSpan'.error = requestSpan.error /\ requestSpan'.texts = requestSpan.texts
        /\ ~requestSpan'.open /\ requestSpan'.events = requestSpan.events
    BY <2>1 DEF ServerTypes
  <2>3. ServerTypeOK' /\ ServerTypes'
    BY <1>1, <1>3, <2>1, <2>2 DEF ServerTypeOK, ServerTypes, Texts
  <2>4. Serving' /\ Told' /\ NoRaw'
    BY <1>1, <1>3, <2>1, <2>2 DEF Serving, Told, NoRaw
  <2> QED
    BY <1>4, <2>2, <2>3, <2>4
<1>8. CASE LeaveHTTP
  <2>1. /\ request.transport = "http" /\ serving = (IF gave = "panic" THEN "rethrown" ELSE "ended")
        /\ serving' = "done" /\ seen' = passed /\ UNCHANGED <<gave, passed>>
    BY <1>8 DEF LeaveHTTP, Serve
  <2>2. requestSpan' = [requestSpan EXCEPT !.open = FALSE]
    <3>1. ~(Recording /\ passed = "panic")
      BY <2>1 DEF Serving, Recording
    <3>2. requestSpan' = [requestSpan EXCEPT !.open = FALSE, !.texts = @]
      BY <1>8, <3>1 DEF LeaveHTTP
    <3> QED
      BY <3>2 DEF ServerTypes
  <2>3. /\ requestSpan' \in [open : BOOLEAN, error : BOOLEAN, code : {Nothing, "its_own", "Unknown"},
                             texts : SUBSET Texts, events : SUBSET Decisions]
        /\ requestSpan'.error = requestSpan.error /\ requestSpan'.texts = requestSpan.texts
        /\ ~requestSpan'.open /\ requestSpan'.events = requestSpan.events
    BY <2>2 DEF ServerTypes
  <2>4. ServerTypeOK' /\ ServerTypes'
    BY <1>1, <1>3, <2>1, <2>3 DEF ServerTypeOK, ServerTypes, Texts
  <2>5. gave \in {"value", "panic", "exit"}
    BY <2>1 DEF Serving, Ended
  <2>6. Serving' /\ NoRaw'
    BY <1>1, <1>3, <2>1, <2>3, <2>5 DEF Serving, NoRaw
  <2>7. Told'
    BY <1>1, <2>1, <2>3, <2>5 DEF Told
  <2> QED
    BY <1>4, <2>3, <2>4, <2>6, <2>7
<1>9. CASE HandleEnd
  <2>1. /\ request.transport = "grpc" /\ serving = "ended" /\ serving' = "observed"
        /\ UNCHANGED <<gave, passed, seen>>
    BY <1>9 DEF HandleEnd, Serve
  <2>2. gave \in {"value", "status_error", "plain_error", "hostile_error"} /\ requestSpan.open
        /\ ~requestSpan.error /\ requestSpan.texts = {}
    BY <2>1 DEF Serving, Ended, Told
  <2>3. /\ requestSpan' \in [open : BOOLEAN, error : BOOLEAN, code : {Nothing, "its_own", "Unknown"},
                             texts : SUBSET Texts, events : SUBSET Decisions]
        /\ ~requestSpan'.open /\ requestSpan'.events = requestSpan.events
        /\ requestSpan'.texts \subseteq Processed
        /\ request.sampled /\ gave \in {"plain_error", "hostile_error"} => requestSpan'.error /\ requestSpan'.texts # {}
        /\ gave = "value" => ~requestSpan'.error
    <3>1. CASE gave = "value" /\ requestSpan' = [requestSpan EXCEPT !.open = FALSE]
      BY <2>2, <3>1 DEF ServerTypes
    <3>2. CASE gave # "value"
      <4>1. PICK text \in Processed, error \in BOOLEAN :
              /\ (Code(gave) = "Unknown" => error)
              /\ requestSpan' = IF Recording
                                THEN [requestSpan EXCEPT !.open = FALSE, !.error = error, !.code = Code(gave),
                                                         !.texts = IF error THEN {text} ELSE {}]
                                ELSE [requestSpan EXCEPT !.open = FALSE]
        BY <1>9, <3>2 DEF HandleEnd
      <4>2. Code(gave) \in {"its_own", "Unknown"} /\ (gave # "status_error" => Code(gave) = "Unknown")
        BY DEF Code
      <4>3. CASE Recording
        <5>1. CASE error = TRUE
          <6>1. requestSpan' = [requestSpan EXCEPT !.open = FALSE, !.error = TRUE, !.code = Code(gave),
                                                   !.texts = {text}]
            BY <4>1, <4>3, <5>1
          <6> QED
            BY <1>2, <3>2, <4>2, <6>1 DEF ServerTypes
        <5>2. CASE error = FALSE
          <6>1. requestSpan' = [requestSpan EXCEPT !.open = FALSE, !.error = FALSE, !.code = Code(gave),
                                                   !.texts = {}]
            BY <4>1, <4>3, <5>2
          <6>2. gave = "status_error"
            BY <2>2, <3>2, <4>1, <4>2, <5>2
          <6> QED
            BY <1>2, <4>2, <6>1, <6>2 DEF ServerTypes
        <5> QED
          BY <5>1, <5>2
      <4>4. CASE ~Recording
        BY <2>2, <3>2, <4>1, <4>4 DEF ServerTypes, Recording
      <4> QED
        BY <4>3, <4>4
    <3> QED
      BY <1>9, <3>1, <3>2 DEF HandleEnd
  <2>4. ServerTypeOK' /\ ServerTypes'
    BY <1>1, <1>3, <2>1, <2>3 DEF ServerTypeOK, ServerTypes, Texts
  <2>5. Serving' /\ NoRaw'
    BY <1>1, <1>2, <1>3, <2>1, <2>3 DEF Serving, NoRaw
  <2>6. Told'
    BY <1>1, <2>1, <2>2, <2>3 DEF Told
  <2> QED
    BY <1>4, <2>3, <2>4, <2>5, <2>6
<1>10. CASE HostHandlesEnd
  <2>1. /\ serving = "observed" /\ serving' = "done" /\ seen' = passed
        /\ UNCHANGED <<gave, passed, requestSpan>>
    BY <1>10 DEF HostHandlesEnd, Serve
  <2>2. ServerTypeOK' /\ ServerTypes'
    BY <1>1, <1>3, <2>1 DEF ServerTypeOK, ServerTypes
  <2>3. Serving' /\ Told' /\ NoRaw'
    BY <1>1, <1>3, <2>1 DEF Serving, Told, NoRaw
  <2> QED
    BY <1>4, <2>1, <2>2, <2>3
<1> QED
  BY <1>5, <1>6, <1>7, <1>8, <1>9, <1>10 DEF Request

\* What a decision carries never changes once it is on a span, since its reason is
\* processed before.
LEMMA RecorderSteps ==
  ASSUME ServerInv, NEW r \in Recorders, Observe(r) \/ Recorder(r)
  PROVE  ServerInv'
<1> USE DEF ServerInv
<1>1. UNCHANGED <<request, serving, gave, passed, seen>>
  BY DEF Observe, Recorder, RefuseObservation, ProcessReason, ChooseSpan, AddToRequest, StartChild,
         EndChild, requestVars
<1>2. Ended' = Ended
  BY <1>1 DEF Ended
\* A step that changes neither span nor reason of anybody.
<1>3. ASSUME UNCHANGED <<requestSpan, childEvents, reason>>
      PROVE  /\ ServerTypes' /\ Serving' /\ Told' /\ NoRaw'
             /\ Recording' = Recording /\ \A q \in Recorders : Decision(q)' = Decision(q)
             /\ \A d \in requestSpan'.events \cup childEvents' : d = Decision(d.by)'
             /\ requestSpan'.events \cap childEvents' = {}
  BY <1>1, <1>2, <1>3 DEF ServerTypes, Serving, Told, NoRaw, Recording, Decision, Chosen
<1>4. CASE Observe(r)
  <2>1. /\ recording[r] = "idle" /\ recording' = [recording EXCEPT ![r] = "called"]
        /\ UNCHANGED <<requestSpan, childEvents, reason, child>>
    BY <1>4 DEF Observe, Move, requestVars
  <2>2. ServerTypeOK'
    BY <1>1, <1>2, <2>1 DEF ServerTypeOK
  <2> QED
    BY <1>3, <2>1, <2>2 DEF Chosen, ServerTypeOK
<1>5. CASE RefuseObservation(r)
  <2>1. /\ recording[r] = "called" /\ recording' = [recording EXCEPT ![r] = "refused"]
        /\ UNCHANGED <<requestSpan, childEvents, reason, child>>
    BY <1>5 DEF RefuseObservation, Move, requestVars
  <2>2. ServerTypeOK'
    BY <1>1, <1>2, <2>1 DEF ServerTypeOK
  <2> QED
    BY <1>3, <2>1, <2>2 DEF Chosen, ServerTypeOK
<1>6. CASE ProcessReason(r)
  <2>1. /\ recording[r] = "called" /\ recording' = [recording EXCEPT ![r] = "processed"]
        /\ UNCHANGED <<requestSpan, childEvents, child>>
    BY <1>6 DEF ProcessReason, Move, requestVars
  <2>2. PICK text \in Processed :
          reason' = [reason EXCEPT ![r] = IF request.policy = "safe" THEN NoText ELSE text]
    BY <1>6 DEF ProcessReason
  <2>3. Processed \subseteq Texts /\ (request.policy # "raw" => "raw" \notin Processed) /\ NoText # "raw"
    BY ProcessedTexts DEF NoText
  <2>4. ServerTypeOK' /\ Serving' /\ Told'
    BY <1>1, <1>2, <2>1 DEF ServerTypeOK, Serving, Told
  <2>5. ServerTypes'
    BY <1>1, <2>1, <2>2, <2>3 DEF ServerTypes
  <2>6. NoRaw'
    BY <1>1, <2>1, <2>2, <2>3 DEF NoRaw, ServerTypes
  <2>7. \A q \in Recorders : q # r => Decision(q)' = Decision(q)
    BY <2>2 DEF Decision, ServerTypes
  <2>8. \A d \in requestSpan.events \cup childEvents : d.by \in Recorders /\ d.by # r
    <3>1. \A d \in requestSpan.events \cup childEvents : d.by \in Recorders /\ d = Decision(d.by)
      BY DEF ServerTypes, Decisions, Chosen
    <3>2. Decision(r) \notin requestSpan.events \cup childEvents
      BY <2>1 DEF Chosen
    <3> QED
      BY <3>1, <3>2
  <2>9. \A d \in requestSpan'.events \cup childEvents' : d = Decision(d.by)' /\ d.by # r
    BY <2>1, <2>7, <2>8 DEF Chosen
  <2>10. Decision(r)' \notin requestSpan'.events \cup childEvents'
    <3>1. Decision(r)'.by = r
      BY DEF Decision
    <3> QED
      BY <2>9, <3>1
  <2>11. Recording' = Recording
    BY <1>1, <2>1 DEF Recording
  <2>12. Chosen'
    BY <2>1, <2>7, <2>9, <2>10, <2>11 DEF Chosen, ServerTypeOK
  <2> QED
    BY <2>4, <2>5, <2>6, <2>12
<1>7. CASE ChooseSpan(r)
  <2>1. /\ recording[r] = "processed"
        /\ recording' = [recording EXCEPT ![r] = IF Recording THEN "adding" ELSE "starting"]
        /\ UNCHANGED <<requestSpan, childEvents, reason, child>>
    BY <1>7 DEF ChooseSpan, Move, requestVars
  <2>2. ServerTypeOK'
    BY <1>1, <1>2, <2>1 DEF ServerTypeOK
  <2> QED
    BY <1>3, <2>1, <2>2 DEF Chosen, ServerTypeOK
<1>8. CASE AddToRequest(r)
  <2>1. /\ recording[r] = "adding" /\ recording' = [recording EXCEPT ![r] = "recorded"]
        /\ UNCHANGED <<childEvents, reason, child>>
    BY <1>8 DEF AddToRequest, Move
  <2>2. CASE ~Recording
    <3>1. requestSpan' = requestSpan
      BY <1>8, <2>2 DEF AddToRequest
    <3>2. ServerTypeOK'
      BY <1>1, <1>2, <2>1, <3>1 DEF ServerTypeOK
    <3> QED
      BY <1>3, <2>1, <2>2, <3>1, <3>2 DEF Chosen, ServerTypeOK
  <2>3. CASE Recording
    <3>1. Decision(r) \in Decisions /\ Decision(r).by = r
      BY DEF Decision, Decisions, ServerTypes
    <3>2. requestSpan' = [requestSpan EXCEPT !.events = @ \cup {Decision(r)}]
      BY <1>8, <2>3 DEF AddToRequest
    <3>3. /\ requestSpan' \in [open : BOOLEAN, error : BOOLEAN, code : {Nothing, "its_own", "Unknown"},
                               texts : SUBSET Texts, events : SUBSET Decisions]
          /\ requestSpan'.open = requestSpan.open /\ requestSpan'.error = requestSpan.error
          /\ requestSpan'.texts = requestSpan.texts
          /\ requestSpan'.events = requestSpan.events \cup {Decision(r)}
      BY <3>1, <3>2 DEF ServerTypes
    <3>4. ServerTypeOK' /\ ServerTypes'
      BY <1>1, <1>2, <2>1, <3>3 DEF ServerTypeOK, ServerTypes
    <3>5. Serving' /\ Told' /\ NoRaw'
      BY <1>1, <1>2, <2>1, <3>3 DEF Serving, Told, NoRaw
    <3>6. Recording' = Recording /\ \A q : Decision(q)' = Decision(q)
      BY <1>1, <2>1, <3>3 DEF Recording, Decision
    <3>7. \A q \in Recorders : q # r => Decision(q) # Decision(r)
      BY DEF Decision
    <3>8. Decision(r) \notin childEvents
      BY <2>1 DEF Chosen
    <3>9. Chosen'
      BY <2>1, <2>3, <3>1, <3>3, <3>6, <3>7, <3>8 DEF Chosen, ServerTypeOK
    <3> QED
      BY <3>4, <3>5, <3>9
  <2> QED
    BY <2>2, <2>3
<1>9. CASE StartChild(r)
  <2>1. /\ recording[r] = "starting" /\ recording' = [recording EXCEPT ![r] = "inside"]
        /\ child' = [child EXCEPT ![r] = "open"]
        /\ childEvents' \in {childEvents, childEvents \cup {Decision(r)}}
        /\ UNCHANGED <<requestSpan, reason>>
    BY <1>9 DEF StartChild, Move, requestVars
  <2>2. Decision(r) \in Decisions /\ Decision(r).by = r
    BY DEF Decision, Decisions, ServerTypes
  <2>3. ServerTypeOK' /\ ServerTypes'
    BY <1>1, <1>2, <2>1, <2>2 DEF ServerTypeOK, ServerTypes
  <2>4. Serving' /\ Told' /\ NoRaw'
    BY <1>1, <1>2, <2>1 DEF Serving, Told, NoRaw
  <2>5. Recording' = Recording /\ \A q : Decision(q)' = Decision(q)
    BY <1>1, <2>1 DEF Recording, Decision
  <2>6. \A q \in Recorders : q # r => Decision(q) # Decision(r)
    BY DEF Decision
  <2>7. Decision(r) \notin requestSpan.events
    BY <2>1 DEF Chosen
  <2>8. Chosen'
    BY <2>1, <2>2, <2>5, <2>6, <2>7 DEF Chosen, ServerTypeOK
  <2> QED
    BY <2>3, <2>4, <2>8
<1>10. CASE EndChild(r)
  <2>1. /\ recording[r] = "inside" /\ recording' = [recording EXCEPT ![r] = "recorded"]
        /\ child' = [child EXCEPT ![r] = "ended"]
        /\ UNCHANGED <<requestSpan, childEvents, reason>>
    BY <1>10 DEF EndChild, Move, requestVars
  <2>2. ServerTypeOK'
    BY <1>1, <1>2, <2>1 DEF ServerTypeOK
  <2> QED
    BY <1>3, <2>1, <2>2 DEF Chosen, ServerTypeOK
<1> QED
  BY <1>4, <1>5, <1>6, <1>7, <1>8, <1>9, <1>10 DEF Recorder

LEMMA ServerInvStep == ServerInv /\ [ServerNext]_serverVars => ServerInv'
<1> SUFFICES ASSUME ServerInv, [ServerNext]_serverVars PROVE ServerInv'
  OBVIOUS
<1>1. CASE UNCHANGED serverVars
  <2>1. UNCHANGED <<request, serving, gave, passed, seen, requestSpan, recording, observed, reason, child,
                    childEvents>>
    BY <1>1 DEF serverVars, requestVars, recordVars
  <2>2. Ended' = Ended /\ Recording' = Recording /\ \A q : Decision(q)' = Decision(q)
    BY <2>1 DEF Ended, Recording, Decision
  <2> QED
    BY <2>1, <2>2 DEF ServerInv, ServerTypeOK, ServerTypes, Serving, Told, NoRaw, Chosen
<1> QED
  BY <1>1, RequestSteps, RecorderSteps DEF ServerNext

\* Whatever a request and the goroutines of its handler do, their spans tell what
\* happened, once, and nothing the diagnostic policy would not have let through.
THEOREM RequestSpansAreTrue == ServerSpec => []ServerSpansAreTrue
<1> QED
  BY ServerInvInit, ServerInvStep, ServerInvSuffices, PTL DEF ServerSpec

\* A decision that is on a span stays there as it was made: the diagnostic policy
\* and its host sanitizer are not asked again, and nothing is taken back.
THEOREM DecisionsStand ==
  ServerSpec => [][/\ requestSpan.events \subseteq requestSpan'.events
                   /\ childEvents \subseteq childEvents']_serverVars
<1>1. ASSUME ServerInv, [ServerNext]_serverVars
      PROVE  requestSpan.events \subseteq requestSpan'.events /\ childEvents \subseteq childEvents'
  <2>1. CASE UNCHANGED serverVars
    BY <2>1 DEF serverVars, requestVars, recordVars
  <2>2. CASE Request
    BY <1>1, <2>2 DEF ServerInv, ServerTypes, Request, HandlerEnds, Recover, EndAndRethrow, LeaveHTTP,
                      HandleEnd, HostHandlesEnd, recordVars
  <2>3. ASSUME NEW r \in Recorders, Observe(r) \/ Recorder(r)
        PROVE  requestSpan.events \subseteq requestSpan'.events /\ childEvents \subseteq childEvents'
    BY <1>1, <2>3 DEF ServerInv, ServerTypes, Observe, Recorder, RefuseObservation, ProcessReason,
                      ChooseSpan, AddToRequest, StartChild, EndChild, requestVars
  <2> QED
    BY <1>1, <2>1, <2>2, <2>3 DEF ServerNext
<1> QED
  BY <1>1, ServerInvInit, ServerInvStep, PTL DEF ServerSpec

-----------------------------------------------------------------------------
(* ExecutorWrap. The invariant says who may be inside the once, and what a *)
(* call has on record at each point of the deferred function.              *)

\* The function of the once runs once, in one goroutine, and until it is over
\* nobody has a wrapped function.
OnceOver ==
  /\ creations = IF once = "new" THEN 0 ELSE 1
  /\ \A c \in Callers : at[c] = "creating" => once = "running"
  /\ \A c, d \in Callers : at[c] = "creating" /\ at[d] = "creating" => c = d

\* What a call has on record so far.
Blank(c) == spanOf[c] = NoSpan /\ counted[c] = <<>> /\ result[c] = NoResult

Marked(c) == spanOf[c].status = "Error" <=> Failed(c)

CallIs(c) ==
  /\ at[c] \in {"unwrapped", "creating", "refused", "wrapped", "running", "deferred"} => Blank(c)
  /\ at[c] \in {"recording", "ending"} => Marked(c)
  /\ at[c] = "recording" => counted[c] = <<>>
  /\ at[c] = "ending" => counted[c] = <<Status(c)>>
  /\ at[c] = "returned" /\ held[c] = "ready" =>
       counted[c] = <<Status(c)>> /\ spanOf[c].ended /\ Marked(c)

ExecutorInv == ExecutorTypeOK /\ OnceOver /\ (\A c \in Callers : CallIs(c)) /\ NoUnprocessedText

\* The records of a goroutine that does not move are not touched.
LEMMA OthersRecords ==
  ASSUME NEW c \in Callers, CallIs(c), at'[c] = at[c], held'[c] = held[c],
         UNCHANGED <<outcome[c], result[c], spanOf[c], counted[c]>>
  PROVE  CallIs(c)'
BY DEF CallIs, Blank, Marked, Failed, Status

\* Nothing is created or recorded yet.
LEMMA ExecutorInitially == ExecutorInit => ExecutorInv
<1> SUFFICES ASSUME ExecutorInit PROVE ExecutorInv
  OBVIOUS
<1>1. ExecutorTypeOK
  BY DEF ExecutorInit, ExecutorTypeOK, NoSpan
<1>2. OnceOver
  BY DEF ExecutorInit, OnceOver
<1>3. \A c \in Callers : CallIs(c)
  BY DEF ExecutorInit, CallIs, Blank
<1>4. NoUnprocessedText
  BY DEF ExecutorInit, NoUnprocessedText, NoSpan, NoResult
<1> QED
  BY <1>1, <1>2, <1>3, <1>4 DEF ExecutorInv

\* A diagnostic is of the texts the policy lets through.
LEMMA DiagnosticsType ==
  ASSUME NEW c \in Callers, Failed(c), NEW text \in Diagnostics(outcome[c])
  PROVE  text \in DiagnosticTexts /\ text # NoResult /\ (policy # "raw" => text # "raw")
<1>1. outcome[c] \in {"error", "panic"}
  BY DEF Failed
<1>2. CASE policy = "safe"
  BY <1>1, <1>2 DEF Diagnostics, DiagnosticTexts, NoResult
<1>3. CASE policy = "raw"
  BY <1>1, <1>3 DEF Diagnostics, DiagnosticTexts, NoResult
<1>4. CASE policy # "safe" /\ policy # "raw"
  BY <1>1, <1>4 DEF Diagnostics, DiagnosticTexts, NoResult
<1> QED
  BY <1>2, <1>3, <1>4

\* The goroutines enter the once, wrap, or are refused.
LEMMA WrappingStep ==
  ASSUME ExecutorInv, NEW c \in Callers,
         EnterOnce(c) \/ Created(c) \/ CreationPanics(c) \/ Wrap(c) \/ WrapPanics(c)
  PROVE  ExecutorInv'
<1> USE DEF ExecutorInv
<1>0. /\ UNCHANGED <<policy, outcome, result, spanOf, counted, got>>
      /\ \E to \in {"unwrapped", "creating", "wrapped", "refused"} : at' = [at EXCEPT ![c] = to]
      /\ at[c] \in {"unwrapped", "creating"}
      /\ \A d \in Callers \ {c} : held'[d] = held[d]
  BY DEF EnterOnce, Created, CreationPanics, Wrap, WrapPanics, Go, call, ExecutorTypeOK
<1>1. ASSUME NEW d \in Callers PROVE CallIs(d)'
  <2>1. CASE d = c
    BY <1>0, <2>1 DEF CallIs, Blank, ExecutorTypeOK
  <2>2. CASE d # c
    BY <1>0, <2>2, OthersRecords DEF ExecutorTypeOK
  <2> QED
    BY <2>1, <2>2
<1>2. NoUnprocessedText'
  BY <1>0 DEF NoUnprocessedText
<1>3. ExecutorTypeOK' /\ OnceOver'
  <2>1. CASE EnterOnce(c)
    BY <2>1, <1>0 DEF EnterOnce, Go, ExecutorTypeOK, OnceOver
  <2>2. CASE Created(c)
    BY <2>2, <1>0, MeterAssumption DEF Created, Go, ExecutorTypeOK, OnceOver
  <2>3. CASE CreationPanics(c)
    BY <2>3, <1>0 DEF CreationPanics, Go, ExecutorTypeOK, OnceOver
  <2>4. CASE Wrap(c)
    BY <2>4, <1>0 DEF Wrap, Go, ExecutorTypeOK, OnceOver
  <2>5. CASE WrapPanics(c)
    BY <2>5, <1>0 DEF WrapPanics, Go, ExecutorTypeOK, OnceOver
  <2> QED
    BY <2>1, <2>2, <2>3, <2>4, <2>5
<1> QED
  BY <1>1, <1>2, <1>3

\* A goroutine that holds a wrapped function leaves the once alone.
LEMMA CallingKeepsOnce ==
  ASSUME ExecutorInv, NEW c \in Callers, at[c] \notin {"unwrapped", "creating"},
         NEW to, to \notin {"unwrapped", "creating"}, at' = [at EXCEPT ![c] = to],
         UNCHANGED <<once, creations>>
  PROVE  OnceOver' /\ \A d \in Callers : at'[d] \notin {"unwrapped", "creating"} => once' = "done"
BY DEF ExecutorInv, ExecutorTypeOK, OnceOver

\* A call runs, is diagnosed, is recorded and returns.
LEMMA CallingStep ==
  ASSUME ExecutorInv, NEW c \in Callers,
         \/ CallWrapped(c) \/ Run(c) \/ Diagnose(c) \/ SpanOK(c) \/ Record(c)
         \/ RecordPanics(c) \/ Return(c)
  PROVE  ExecutorInv'
<1> USE DEF ExecutorInv
<1>0. /\ UNCHANGED <<once, creations, metrics, policy, held>>
      /\ at[c] \in {"wrapped", "running", "deferred", "recording", "ending"}
      /\ at' = [at EXCEPT ![c] = at'[c]]
      /\ at'[c] \in {"running", "deferred", "recording", "ending", "returned"}
  BY DEF CallWrapped, Run, Diagnose, SpanOK, Record, RecordPanics, Return, Go, wrapping, ExecutorTypeOK
<1>1. OnceOver' /\ \A d \in Callers : at'[d] \notin {"unwrapped", "creating"} => once' = "done"
  BY <1>0, CallingKeepsOnce
<1>2. at' \in [Callers -> {"unwrapped", "creating", "refused", "wrapped", "running",
                           "deferred", "recording", "ending", "returned"}]
  BY <1>0 DEF ExecutorTypeOK
<1>3. \A d \in Callers \ {c} :
        /\ at'[d] = at[d] /\ held'[d] = held[d]
        /\ outcome'[d] = outcome[d] /\ result'[d] = result[d] /\ spanOf'[d] = spanOf[d]
        /\ counted'[d] = counted[d]
  BY <1>0 DEF CallWrapped, Run, Diagnose, SpanOK, Record, RecordPanics, Return, call, ExecutorTypeOK
<1>4. \A d \in Callers \ {c} : CallIs(d)'
  BY <1>3, OthersRecords
<1>5. /\ outcome' \in [Callers -> Outcomes \cup {NoResult}]
      /\ got' \in [Callers -> Outcomes \cup {NoResult, "nil_dereference"}]
      /\ result' \in [Callers -> DiagnosticTexts \cup {NoResult}]
      /\ spanOf' \in [Callers -> [status : {"none", "Ok", "Error"}, texts : SUBSET DiagnosticTexts, ended : BOOLEAN]]
      /\ counted' \in [Callers -> Seq({"success", "error", "panic"})]
      /\ CallIs(c)' /\ NoUnprocessedText'
  <2>1. CASE CallWrapped(c)
    BY <2>1, <1>0 DEF CallWrapped, Go, call, ExecutorTypeOK, CallIs, Blank, NoUnprocessedText
  <2>2. CASE Run(c)
    BY <2>2, <1>0 DEF Run, Go, ExecutorTypeOK, CallIs, Blank, NoUnprocessedText
  <2>3. CASE Diagnose(c)
    <3>1. PICK text \in Diagnostics(outcome[c]) :
            /\ result' = [result EXCEPT ![c] = text]
            /\ spanOf' = [spanOf EXCEPT ![c].status = "Error", ![c].texts = {text}]
      BY <2>3 DEF Diagnose
    <3>2. /\ at[c] = "deferred" /\ at'[c] = "recording" /\ Failed(c)
          /\ UNCHANGED <<outcome, counted, got>>
      BY <2>3, <1>0 DEF Diagnose, Go, ExecutorTypeOK
    <3>3. text \in DiagnosticTexts /\ (policy # "raw" => text # "raw")
      BY <3>2, DiagnosticsType
    <3>4. /\ result' \in [Callers -> DiagnosticTexts \cup {NoResult}]
          /\ spanOf' \in [Callers -> [status : {"none", "Ok", "Error"}, texts : SUBSET DiagnosticTexts, ended : BOOLEAN]]
          /\ spanOf'[c].status = "Error" /\ spanOf'[c].texts = {text} /\ result'[c] = text
      BY <3>1, <3>3 DEF ExecutorTypeOK
    <3>5. CallIs(c)'
      BY <3>2, <3>4 DEF CallIs, Blank, Marked, Failed
    <3>6. NoUnprocessedText'
      BY <1>0, <1>3, <3>3, <3>4 DEF NoUnprocessedText
    <3> QED
      BY <3>2, <3>4, <3>5, <3>6 DEF ExecutorTypeOK
  <2>4. CASE SpanOK(c)
    <3>1. /\ at[c] = "deferred" /\ at'[c] = "recording" /\ ~Failed(c)
          /\ UNCHANGED <<outcome, counted, got, result>>
          /\ spanOf' = [spanOf EXCEPT ![c].status = "Ok"]
      BY <2>4, <1>0 DEF SpanOK, Go, ExecutorTypeOK
    <3>2. spanOf' \in [Callers -> [status : {"none", "Ok", "Error"}, texts : SUBSET DiagnosticTexts, ended : BOOLEAN]]
      BY <3>1 DEF ExecutorTypeOK
    <3>3. CallIs(c)'
      BY <3>1 DEF CallIs, Blank, Marked, Failed, ExecutorTypeOK
    <3>4. NoUnprocessedText'
      BY <1>0, <3>1 DEF NoUnprocessedText, ExecutorTypeOK
    <3> QED
      BY <3>1, <3>2, <3>3, <3>4 DEF ExecutorTypeOK
  <2>5. CASE Record(c)
    <3>1. /\ at[c] = "recording" /\ at'[c] = "ending"
          /\ counted' = [counted EXCEPT ![c] = Append(counted[c], Status(c))]
          /\ UNCHANGED <<outcome, result, spanOf, got>>
      BY <2>5, <1>0 DEF Record, Go, ExecutorTypeOK
    <3>2. Status(c) \in {"success", "error", "panic"}
      BY DEF Status, Failed
    <3>3. Append(counted[c], Status(c)) = <<Status(c)>>
      <4>1. counted[c] = <<>>
        BY <3>1 DEF CallIs
      <4>2. PICK status \in {"success", "error", "panic"} : status = Status(c)
        BY <3>2
      <4> QED
        BY <4>1, <4>2
    <3>4. counted' \in [Callers -> Seq({"success", "error", "panic"})]
      BY <3>1, <3>2 DEF ExecutorTypeOK
    <3>5. counted'[c] = <<Status(c)>>'
      BY <3>1, <3>3 DEF ExecutorTypeOK, Status, Failed
    <3>6. CallIs(c)'
      BY <3>1, <3>5 DEF CallIs, Marked, Failed
    <3> QED
      BY <1>0, <3>1, <3>4, <3>6 DEF ExecutorTypeOK, NoUnprocessedText
  <2>6. CASE RecordPanics(c)
    <3>1. /\ at'[c] = "returned" /\ held'[c] = "nil"
          /\ spanOf' = [spanOf EXCEPT ![c].ended = TRUE]
          /\ got' = [got EXCEPT ![c] = "nil_dereference"]
          /\ UNCHANGED <<outcome, result, counted>>
      BY <2>6, <1>0 DEF RecordPanics, Go, ExecutorTypeOK
    <3>2. CallIs(c)'
      BY <3>1 DEF CallIs
    <3>3. NoUnprocessedText'
      BY <1>0, <3>1 DEF ExecutorTypeOK, NoUnprocessedText
    <3>4. spanOf' \in [Callers -> [status : {"none", "Ok", "Error"}, texts : SUBSET DiagnosticTexts, ended : BOOLEAN]]
      BY <3>1 DEF ExecutorTypeOK
    <3> QED
      BY <3>1, <3>2, <3>3, <3>4 DEF ExecutorTypeOK
  <2>7. CASE Return(c)
    <3>1. /\ at[c] = "ending" /\ at'[c] = "returned"
          /\ spanOf' = [spanOf EXCEPT ![c].ended = TRUE]
          /\ got' = [got EXCEPT ![c] = outcome[c]]
          /\ UNCHANGED <<outcome, result, counted>>
      BY <2>7, <1>0 DEF Return, Go, ExecutorTypeOK
    <3>2. spanOf'[c].ended /\ spanOf'[c].status = spanOf[c].status
      BY <3>1 DEF ExecutorTypeOK
    <3>3. CallIs(c)'
      BY <3>1, <3>2 DEF CallIs, Marked, Failed, Status
    <3>4. NoUnprocessedText'
      BY <1>0, <3>1 DEF ExecutorTypeOK, NoUnprocessedText
    <3>5. spanOf' \in [Callers -> [status : {"none", "Ok", "Error"}, texts : SUBSET DiagnosticTexts, ended : BOOLEAN]]
      BY <3>1 DEF ExecutorTypeOK
    <3>6. got' \in [Callers -> Outcomes \cup {NoResult, "nil_dereference"}]
      BY <3>1 DEF ExecutorTypeOK
    <3>7. /\ outcome' \in [Callers -> Outcomes \cup {NoResult}]
          /\ result' \in [Callers -> DiagnosticTexts \cup {NoResult}]
          /\ counted' \in [Callers -> Seq({"success", "error", "panic"})]
      BY <3>1 DEF ExecutorTypeOK
    <3> QED
      BY <3>3, <3>4, <3>5, <3>6, <3>7
  <2> QED
    BY <2>1, <2>2, <2>3, <2>4, <2>5, <2>6, <2>7
<1>6. ExecutorTypeOK'
  BY <1>0, <1>1, <1>2, <1>5 DEF ExecutorTypeOK
<1> QED
  BY <1>1, <1>4, <1>5, <1>6

\* Every step of a wrapper keeps the invariant.
LEMMA ExecutorStep == ExecutorInv /\ [ExecutorNext]_executorVars => ExecutorInv'
<1> SUFFICES ASSUME ExecutorInv, [ExecutorNext]_executorVars PROVE ExecutorInv'
  OBVIOUS
<1>1. ASSUME NEW c \in Callers, Step(c) \/ CallWrapped(c) PROVE ExecutorInv'
  BY <1>1, WrappingStep, CallingStep DEF Step
<1>2. CASE UNCHANGED executorVars
  BY <1>2 DEF executorVars, ExecutorInv, ExecutorTypeOK, OnceOver, CallIs, Blank, Marked, Failed, Status,
     NoUnprocessedText
<1> QED
  BY <1>1, <1>2 DEF ExecutorNext

\* ExecutorWrap, for any number of goroutines, whatever the host's meter, policy
\* and functions do: the instruments are created once, a call is counted once with
\* its own status, and no text passes but through the policy.
THEOREM CallsAreRecordedAsTheyEnded == ExecutorSpec => []TrueRecords
<1>1. ExecutorInit => ExecutorInv
  BY ExecutorInitially
<1>2. ExecutorInv /\ [ExecutorNext]_executorVars => ExecutorInv'
  BY ExecutorStep
<1>3. ExecutorInv => TrueRecords
  <2> SUFFICES ASSUME ExecutorInv PROVE TrueRecords
    OBVIOUS
  <2>1. CreatedOnce
    BY DEF ExecutorInv, OnceOver, CreatedOnce
  <2>2. RecordedAsItEnded
    BY DEF ExecutorInv, CallIs, Marked, Failed, Status, RecordedAsItEnded
  <2> QED
    BY <2>1, <2>2 DEF ExecutorInv, TrueRecords
<1> QED
  BY <1>1, <1>2, <1>3, PTL DEF ExecutorSpec
-----------------------------------------------------------------------------
\* What a goroutine that has wrapped its function, or was refused, was given.
Wrapped == {c \in Callers : at[c] \notin {"unwrapped", "creating"}}
Given(c) == IF at[c] = "refused" THEN "error" ELSE held[c]

\* What the callers of ExecutorWrap see: the instruments, or the error, are decided
\* when the once is done, and each wrapper gets them.
FirstInstruments == INSTANCE Decisions WITH
  Keys <- {"instruments"},
  Values <- {"nil", "ready", "error"},
  decided <- [k \in {"instruments"} |-> IF once = "done" THEN {metrics} ELSE {}],
  told <- {"instruments"} \X {Given(c) : c \in Wrapped}

\* A step of a goroutine ends the once, gives out its result, or shows nothing new.
LEMMA StepOfFirstInstruments ==
  ASSUME ExecutorInv, [ExecutorNext]_executorVars
  PROVE  [FirstInstruments!DecisionsNext]_FirstInstruments!decisionVars
<1> USE DEF FirstInstruments!DecisionsNext, FirstInstruments!Decide, FirstInstruments!Tell,
            FirstInstruments!decisionVars
<1>1. ASSUME NEW c \in Callers, EnterOnce(c)
      PROVE  UNCHANGED FirstInstruments!decisionVars
  <2>1. once # "done" /\ once' # "done" /\ Wrapped = {} /\ Wrapped' = {}
    BY <1>1 DEF EnterOnce, Go, ExecutorInv, ExecutorTypeOK, Wrapped
  <2> QED
    BY <2>1
<1>2. ASSUME NEW c \in Callers, Created(c) \/ CreationPanics(c)
      PROVE  FirstInstruments!DecisionsNext
  <2>1. /\ once = "running" /\ once' = "done" /\ Wrapped = {} /\ Wrapped' = {}
        /\ metrics' \in {"nil", "ready", "error"}
    BY <1>2, MeterAssumption DEF Created, CreationPanics, Go, ExecutorInv, ExecutorTypeOK, OnceOver, Wrapped
  <2>2. FirstInstruments!Decide("instruments", metrics')
    BY <2>1
  <2> QED
    BY <2>1, <2>2
<1>3. ASSUME NEW c \in Callers, Wrap(c) \/ WrapPanics(c)
      PROVE  FirstInstruments!DecisionsNext
  <2>1. /\ once = "done" /\ UNCHANGED <<once, metrics>> /\ metrics \in {"nil", "ready", "error"}
        /\ at[c] = "unwrapped" /\ at'[c] \notin {"unwrapped", "creating"}
        /\ \A d \in Callers : d # c => at'[d] = at[d] /\ held'[d] = held[d]
    BY <1>3 DEF Wrap, WrapPanics, Go, ExecutorInv, ExecutorTypeOK
  <2>2. Given(c)' = metrics
    BY <1>3 DEF Wrap, WrapPanics, Go, ExecutorInv, ExecutorTypeOK, Given
  <2>3. {Given(d) : d \in Wrapped}' = {Given(d) : d \in Wrapped} \cup {metrics}
    <3>1. Wrapped' = Wrapped \cup {c}
      BY <2>1 DEF Wrapped
    <3>2. \A d \in Wrapped : Given(d)' = Given(d)
      BY <2>1 DEF Wrapped, Given
    <3> QED
      BY <2>2, <3>1, <3>2
  <2>4. FirstInstruments!Tell("instruments", metrics)
    BY <2>1, <2>3
  <2> QED
    BY <2>1, <2>4
<1>4. ASSUME NEW c \in Callers,
             \/ CallWrapped(c) \/ Run(c) \/ Diagnose(c) \/ SpanOK(c) \/ Record(c)
             \/ RecordPanics(c) \/ Return(c)
      PROVE  UNCHANGED FirstInstruments!decisionVars
  <2>1. /\ UNCHANGED <<once, metrics, held>>
        /\ at[c] \notin {"unwrapped", "creating", "refused"}
        /\ at'[c] \notin {"unwrapped", "creating", "refused"}
        /\ \A d \in Callers : d # c => at'[d] = at[d]
    BY <1>4 DEF CallWrapped, Run, Diagnose, SpanOK, Record, RecordPanics, Return, Go, wrapping,
                ExecutorInv, ExecutorTypeOK
  <2>2. Wrapped' = Wrapped /\ \A d \in Callers : Given(d)' = Given(d)
    BY <2>1 DEF Wrapped, Given
  <2> QED
    BY <2>1, <2>2 DEF Wrapped
<1>5. CASE UNCHANGED executorVars
  BY <1>5 DEF executorVars, Wrapped, Given
<1> QED
  BY <1>1, <1>2, <1>3, <1>4, <1>5 DEF ExecutorNext, Step

\* However many goroutines wrap at the same time, and whether the meter fails or
\* panics, they are all given what the one creation left, instruments or its error.
THEOREM InstrumentsAreOneDecision == ExecutorSpec => FirstInstruments!DecisionsSpec
<1>1. ExecutorInit => FirstInstruments!DecisionsInit
  BY DEF ExecutorInit, FirstInstruments!DecisionsInit, Wrapped
<1>2. ExecutorInv /\ [ExecutorNext]_executorVars
        => [FirstInstruments!DecisionsNext]_FirstInstruments!decisionVars
  BY StepOfFirstInstruments
<1> QED
  BY <1>1, <1>2, ExecutorInitially, ExecutorStep, PTL DEF ExecutorSpec, FirstInstruments!DecisionsSpec

-----------------------------------------------------------------------------
\* A function is wrapped with nil instruments, and loses its result, only after a
\* meter that panicked inside the once.
HeldIsReady ==
  /\ once = "done" => metrics # "nil"
  /\ \A c \in Callers : at[c] \in {"wrapped", "running", "deferred", "recording", "ending"} => held[c] = "ready"

LEMMA HeldIsReadyStep ==
  ASSUME "panic" \notin MeterFails
  PROVE  /\ ExecutorInit => HeldIsReady /\ ResultsUnchanged
         /\ ExecutorInv /\ HeldIsReady /\ ResultsUnchanged /\ [ExecutorNext]_executorVars
              => HeldIsReady' /\ ResultsUnchanged'
<1>1. ExecutorInit => HeldIsReady /\ ResultsUnchanged
  BY DEF ExecutorInit, HeldIsReady, ResultsUnchanged
<1>2. ASSUME ExecutorInv, HeldIsReady, ResultsUnchanged, [ExecutorNext]_executorVars
      PROVE  HeldIsReady' /\ ResultsUnchanged'
  <2> USE <1>2 DEF ExecutorInv
  <2>1. ASSUME NEW c \in Callers, Step(c) \/ CallWrapped(c)
        PROVE  HeldIsReady' /\ ResultsUnchanged'
    <3>1. CASE EnterOnce(c) \/ Created(c) \/ Wrap(c) \/ WrapPanics(c)
      <4>1. /\ UNCHANGED <<outcome, got>> /\ \A d \in Callers : at'[d] = "returned" => at[d] = "returned"
        BY <3>1 DEF EnterOnce, Created, Wrap, WrapPanics, Go, call, ExecutorTypeOK
      <4>2. once' = "done" => metrics' # "nil"
        BY <3>1, MeterAssumption DEF EnterOnce, Created, Wrap, WrapPanics, HeldIsReady
      <4>3. ASSUME NEW d \in Callers, at'[d] \in {"wrapped", "running", "deferred", "recording", "ending"}
            PROVE  held'[d] = "ready"
        <5>1. CASE Wrap(c) /\ d = c
          BY <5>1 DEF Wrap, HeldIsReady, ExecutorTypeOK
        <5>2. CASE ~(Wrap(c) /\ d = c)
          BY <3>1, <4>3, <5>2 DEF EnterOnce, Created, Wrap, WrapPanics, Go, ExecutorTypeOK, HeldIsReady
        <5> QED
          BY <5>1, <5>2
      <4> QED
        BY <4>1, <4>2, <4>3 DEF HeldIsReady, ResultsUnchanged
    <3>2. CASE CallWrapped(c) \/ Run(c) \/ Diagnose(c) \/ SpanOK(c) \/ Record(c) \/ Return(c)
      <4>1. /\ UNCHANGED <<once, metrics, held>>
            /\ at[c] \in {"wrapped", "running", "deferred", "recording", "ending"}
            /\ \A d \in Callers \ {c} : at'[d] = at[d] /\ outcome'[d] = outcome[d] /\ got'[d] = got[d]
        BY <3>2 DEF CallWrapped, Run, Diagnose, SpanOK, Record, Return, Go, call, wrapping, ExecutorTypeOK
      <4>2. at'[c] = "returned" => got'[c] = outcome'[c]
        BY <3>2 DEF CallWrapped, Run, Diagnose, SpanOK, Record, Return, Go, ExecutorTypeOK
      <4>3. HeldIsReady'
        BY <4>1 DEF HeldIsReady
      <4> QED
        BY <4>1, <4>2, <4>3 DEF ResultsUnchanged
    <3>3. ~RecordPanics(c) /\ ~CreationPanics(c)
      BY DEF RecordPanics, CreationPanics, Go, HeldIsReady
    <3> QED
      BY <2>1, <3>1, <3>2, <3>3 DEF Step
  <2>2. CASE UNCHANGED executorVars
    BY <2>2 DEF executorVars, HeldIsReady, ResultsUnchanged
  <2> QED
    BY <2>1, <2>2 DEF ExecutorNext
<1> QED
  BY <1>1, <1>2

\* With a meter that does not panic, whatever else fails, "business results, error
\* identity and re-raised panic values remain unchanged": the panic of the meter is
\* all that stands against README.md:661.
THEOREM ResultsSurvive ==
  ASSUME "panic" \notin MeterFails
  PROVE  ExecutorSpec => []ResultsUnchanged
BY HeldIsReadyStep, ExecutorInitially, ExecutorStep, PTL DEF ExecutorSpec
=============================================================================
