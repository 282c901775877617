----------------------- MODULE RecordingHandleProofs -----------------------
(***************************************************************************)
(* What RecordingHandle guarantees for any number of goroutines, calls and *)
(* results.  The argument: the mutex is held exactly inside the critical   *)
(* section (Holder), so at most one call is past the check of h.finished;  *)
(* that flag is set exactly when a call has sealed the record or is about  *)
(* to (FinishedFlag, VerdictIsLast); hence nobody passes the check again.  *)
(***************************************************************************)
EXTENDS RecordingHandle, FiniteSetTheorems, TLAPS

\* Past the check of h.finished and not yet answered.
Active == {"validate", "callback", "commit", "sanitize", "record", "end", "panicking"}

\* The mutex is held by the goroutine inside the critical section.
Holder == \A c \in Callers : pc[c] \in Critical <=> mutex = c

\* Only a result that resolves goes past the validation.
Accepted ==
  \A c \in Callers :
    /\ call[c].op = "Close" => call[c].result = CloseResult
    /\ pc[c] \in Active \ {"validate"}
         => Resolved(call[c].result) \in {"ok", "unset", "error"}

\* A call carries an answer only while it is on its way out.
Answering ==
  \A c \in Callers :
    /\ pc[c] = "unlock"
         => call[c].answer \in {"recorded", "valid", "invalid", "finalized", "panicked"}
    /\ pc[c] = "return" => call[c].answer = "missing"
    /\ pc[c] \notin {"unlock", "return"} => call[c].answer = "pending"

\* The call in progress that is going to be, or was, recorded.
Committed(c) == pc[c] \in {"sanitize", "record", "end"} \/ call[c].answer \in Terminal

FinishedFlag ==
  /\ Sealing(log) # {} => finished
  /\ \A c \in Callers : Committed(c) => finished
  /\ finished => \/ Sealing(log) # {}
                 \/ \E c \in Callers : Committed(c) \/ pc[c] = "panicking"
  /\ \A c \in Callers : pc[c] \in {"validate", "callback", "commit"} => ~finished

\* Once a call was told of the verdict nobody is past the check, and the answers
\* on their way out agree with the flag.
VerdictIsLast ==
  \A c \in Callers :
    /\ Sealing(log) # {} => pc[c] \notin Active /\ call[c].answer \notin Terminal
    /\ call[c].answer = "finalized" => Sealing(log) # {}
    /\ call[c].answer \in {"valid", "invalid"} => ~finished

\* No call precedes the start.
NotStarted ==
  handle.state = "unstarted" =>
    /\ \A c \in Callers : pc[c] = "idle"
    /\ log = {} /\ span = NoSpan

Control ==
  TypeOK /\ Holder /\ Accepted /\ Answering /\ FinishedFlag /\ VerdictIsLast
         /\ NotStarted /\ OneVerdict
-----------------------------------------------------------------------------
\* resolveOutcome answers a status or one of its two diagnostics.
LEMMA ResolvedType ==
  ASSUME NEW r \in Results
  PROVE  Resolved(r) \in {"ok", "unset", "error", "conflict", "unknown"}
BY DEF Resolved, resolveOutcome, Results, Statuses

\* Close records a result that needs no validation.
LEMMA CloseResultType == CloseResult \in Results /\ Resolved(CloseResult) = "unset"
BY DEF CloseResult, Results, Statuses, Evidence, Resolved, resolveOutcome

\* One result adds at most one data point to each instrument.
LEMMA ChargesType ==
  ASSUME NEW c \in Callers, NEW elapsed \in BOOLEAN
  PROVE  Charges(c, elapsed) \in [Instruments -> {0, 1}]
BY DEF Charges, Instruments

\* The initial states satisfy the invariant.
LEMMA InitControl == Init => Control
<1> SUFFICES ASSUME Init PROVE Control
  OBVIOUS
<1>1. NoCall \in Calls
  BY CloseResultType, MaxCallsAssumption DEF NoCall, Calls
<1>2. TypeOK
  BY <1>1 DEF Init, TypeOK, NoSpan
<1>3. Holder
  BY CallersAssumption DEF Init, Holder, Critical
<1>4. Accepted
  BY DEF Init, Accepted, NoCall, Active
<1>5. Answering /\ Sealing(log) = {} /\ \A c \in Callers : ~Committed(c)
  BY DEF Init, Answering, NoCall, Sealing, Committed, Terminal
<1> QED BY <1>2, <1>3, <1>4, <1>5
        DEF Init, Control, FinishedFlag, VerdictIsLast, NotStarted, OneVerdict, Terminal, NoCall

\* Deciding the answer of a call keeps it well typed.
LEMMA AnswerType ==
  ASSUME TypeOK, NEW c \in Callers, NEW a \in Answers, Answer(c, a)
  PROVE  call' \in [Callers -> Calls]
<1>1. call[c] \in Calls
  BY DEF TypeOK
<1>2. [call[c] EXCEPT !.answer = a] \in Calls
  BY <1>1 DEF Calls
<1> QED BY <1>2 DEF Answer, TypeOK

\* Answering a call keeps the calls and the log well typed.
LEMMA ReplyType ==
  ASSUME TypeOK, NEW c \in Callers, Reply(c), call[c].answer # "pending"
  PROVE  /\ call' \in [Callers -> Calls]
         /\ log' \subseteq [by : Callers, nth : 0..MaxCalls, answer : Answers]
<1>1. call[c] \in Calls
  BY DEF TypeOK
<1>2. [NoCall EXCEPT !.nth = call[c].nth] \in Calls
  BY <1>1, CloseResultType DEF NoCall, Calls
<1>3. [by |-> c, nth |-> call[c].nth, answer |-> call[c].answer]
        \in [by : Callers, nth : 0..MaxCalls, answer : Answers]
  BY <1>1 DEF Calls
<1> QED BY <1>2, <1>3 DEF Reply, TypeOK

\* Every step preserves the types.
LEMMA TypeStep == TypeOK /\ Accepted /\ Answering /\ [Next]_vars => TypeOK'
<1> SUFFICES ASSUME TypeOK, Accepted, Answering, [Next]_vars
             PROVE  TypeOK'
  OBVIOUS
<1> USE DEF TypeOK
<1>1. CASE Start
  BY <1>1 DEF Start, Handles, NoSpan
<1>2. CASE StartFails
  BY <1>2 DEF StartFails, Handles
<1>3. ASSUME NEW c \in Callers, Invoke(c)
      PROVE  TypeOK'
  <2>1. PICK op \in {"Finish", "Close", "Update"}, r \in Inputs \cup {CloseResult} :
          call' = [call EXCEPT ![c] =
            [op |-> IF op = "Close" /\ handle.kind \in {"tool", "invocation"}
                    THEN "Finish" ELSE op,
             nth |-> @.nth + 1, result |-> r,
             answer |-> IF handle.state = "nil" THEN "missing" ELSE "pending"]]
    BY <1>3 DEF Invoke
  <2>2. r \in Results
    BY InputsAssumption, CloseResultType
  <2>3. call[c].nth + 1 \in 0..MaxCalls
    BY <1>3, MaxCallsAssumption DEF Invoke, Calls
  <2>4. call' \in [Callers -> Calls]
    BY <2>1, <2>2, <2>3 DEF Calls, Answers
  <2> QED BY <2>4, <1>3 DEF Invoke, At, Critical
<1>4. ASSUME NEW c \in Callers, Step(c)
      PROVE  TypeOK'
  <2> USE DEF At, Critical, Answers
  <2>1. CASE Acquire(c)
    BY <2>1, AnswerType DEF Acquire
  <2>2. CASE Reject(c)
    BY <2>2, AnswerType DEF Reject
  <2>3. CASE AcceptUpdate(c)
    BY <2>3, AnswerType DEF AcceptUpdate
  <2>4. CASE AcceptResult(c)
    BY <2>4 DEF AcceptResult
  <2>5. CASE CallbackReturns(c) \/ CallbackPanics(c)
    BY <2>5 DEF CallbackReturns, CallbackPanics
  <2>6. CASE RejectEncoding(c)
    BY <2>6, AnswerType DEF RejectEncoding
  <2>7. CASE Commit(c)
    <3>1. call' \in [Callers -> Calls]
      BY <2>7, AnswerType DEF Commit
    <3> QED BY <2>7, <3>1 DEF Commit
  <2>8. CASE SanitizeReturns(c)
    <3>1. <<c, call[c].nth>> \in Callers \X (0..MaxCalls)
      BY DEF Calls
    <3> QED BY <2>8, <3>1 DEF SanitizeReturns
  <2>9. CASE SanitizePanics(c)
    BY <2>9 DEF SanitizePanics
  <2>10. CASE Record(c)
    <3>1. PICK elapsed \in BOOLEAN :
            series' = [i \in Instruments |-> series[i] + Charges(c, elapsed)[i]]
      BY <2>10 DEF Record
    <3>2. series' \in [Instruments -> Nat]
      BY <3>1, ChargesType
    <3>3. Resolved(call[c].result) \in {"ok", "unset", "error"}
      BY <2>10 DEF Record, Accepted, Active
    <3>4. span' \in [state : {"none", "open", "ended"},
                     status : {"none", "ok", "unset", "error"},
                     authors : SUBSET (Callers \X (0..MaxCalls)), rejected : BOOLEAN]
      <4>1. <<c, call[c].nth>> \in Callers \X (0..MaxCalls)
        BY DEF Calls
      <4>2. span' = [span EXCEPT !.status = Resolved(call[c].result),
                                 !.authors = @ \cup {<<c, call[c].nth>>}]
        BY <2>10 DEF Record
      <4> QED BY <4>1, <4>2, <3>3
    <3> QED BY <2>10, <3>2, <3>4 DEF Record
  <2>11. CASE EndSpan(c)
    BY <2>11, AnswerType DEF EndSpan
  <2>12. CASE EndRecordingOnPanic(c)
    <3>1. call' \in [Callers -> Calls]
      BY <2>12, AnswerType DEF EndRecordingOnPanic
    <3>2. <<c, call[c].nth>> \in Callers \X (0..MaxCalls)
      BY DEF Calls
    <3> QED BY <2>12, <3>1, <3>2 DEF EndRecordingOnPanic
  <2>13. CASE Unlock(c)
    BY <2>13, ReplyType DEF Unlock, Answering
  <2>14. CASE ReturnMissing(c)
    BY <2>14, ReplyType DEF ReturnMissing, Answering
  <2> QED BY <1>4, <2>1, <2>2, <2>3, <2>4, <2>5, <2>6, <2>7, <2>8, <2>9, <2>10,
             <2>11, <2>12, <2>13, <2>14 DEF Step
<1>5. CASE UNCHANGED vars
  BY <1>5 DEF vars
<1> QED BY <1>1, <1>2, <1>3, <1>4, <1>5 DEF Next

\* Every step keeps the mutex with the goroutine inside the critical section.
LEMMA HolderStep == TypeOK /\ Holder /\ [Next]_vars => Holder'
<1> SUFFICES ASSUME TypeOK, Holder, [Next]_vars
             PROVE  Holder'
  OBVIOUS
<1> USE CallersAssumption DEF TypeOK, Holder, Critical, At
<1>1. CASE Start \/ StartFails
  BY <1>1 DEF Start, StartFails
<1>2. ASSUME NEW c \in Callers, Invoke(c)
      PROVE  Holder'
  BY <1>2 DEF Invoke
<1>3. ASSUME NEW c \in Callers, Step(c)
      PROVE  Holder'
  <2>1. CASE Acquire(c)
    BY <2>1 DEF Acquire
  <2>2. CASE Reject(c) \/ AcceptUpdate(c) \/ AcceptResult(c) \/ RejectEncoding(c)
    BY <2>2 DEF Reject, AcceptUpdate, AcceptResult, RejectEncoding
  <2>3. CASE CallbackReturns(c) \/ CallbackPanics(c) \/ SanitizeReturns(c) \/ SanitizePanics(c)
    BY <2>3 DEF CallbackReturns, CallbackPanics, SanitizeReturns, SanitizePanics
  <2>4. CASE Commit(c) \/ Record(c) \/ EndSpan(c) \/ EndRecordingOnPanic(c)
    BY <2>4 DEF Commit, Record, EndSpan, EndRecordingOnPanic
  <2>5. CASE Unlock(c) \/ ReturnMissing(c)
    BY <2>5 DEF Unlock, ReturnMissing
  <2> QED BY <1>3, <2>1, <2>2, <2>3, <2>4, <2>5 DEF Step
<1>4. CASE UNCHANGED vars
  BY <1>4 DEF vars
<1> QED BY <1>1, <1>2, <1>3, <1>4 DEF Next

\* Every step keeps the results past the validation resolvable.
LEMMA AcceptedStep == TypeOK /\ Accepted /\ [Next]_vars => Accepted'
<1> SUFFICES ASSUME TypeOK, Accepted, [Next]_vars
             PROVE  Accepted'
  OBVIOUS
<1> USE CloseResultType DEF TypeOK, Accepted, Active, Critical, At, Answer, Calls
<1>1. CASE Start \/ StartFails
  BY <1>1 DEF Start, StartFails
<1>2. ASSUME NEW c \in Callers, Invoke(c)
      PROVE  Accepted'
  BY <1>2 DEF Invoke
<1>3. ASSUME NEW c \in Callers, Step(c)
      PROVE  Accepted'
  <2>1. CASE Acquire(c)
    <3>1. /\ pc' = [pc EXCEPT ![c] = pc'[c]]
          /\ pc'[c] \in {"unlock", "commit", "validate"}
          /\ pc'[c] = "commit" => call[c].op = "Close"
          /\ call' = [call EXCEPT ![c].answer = call'[c].answer]
      BY <2>1 DEF Acquire
    <3>2. ASSUME NEW d \in Callers
          PROVE  call'[d].op = call[d].op /\ call'[d].result = call[d].result
      BY <3>1
    <3> QED BY <3>1, <3>2
  <2>2. CASE Reject(c) \/ AcceptUpdate(c) \/ RejectEncoding(c)
    BY <2>2 DEF Reject, AcceptUpdate, RejectEncoding
  <2>3. CASE AcceptResult(c)
    BY <2>3 DEF AcceptResult, Accepts
  <2>4. CASE CallbackReturns(c) \/ CallbackPanics(c) \/ SanitizeReturns(c) \/ SanitizePanics(c)
    BY <2>4 DEF CallbackReturns, CallbackPanics, SanitizeReturns, SanitizePanics
  <2>5. CASE Commit(c) \/ Record(c) \/ EndSpan(c) \/ EndRecordingOnPanic(c)
    BY <2>5 DEF Commit, Record, EndSpan, EndRecordingOnPanic
  <2>6. CASE Unlock(c) \/ ReturnMissing(c)
    BY <2>6 DEF Unlock, ReturnMissing, Reply, NoCall
  <2> QED BY <1>3, <2>1, <2>2, <2>3, <2>4, <2>5, <2>6 DEF Step
<1>4. CASE UNCHANGED vars
  BY <1>4 DEF vars
<1> QED BY <1>1, <1>2, <1>3, <1>4 DEF Next

\* Every step keeps the answers where they belong.
LEMMA AnsweringStep == TypeOK /\ Answering /\ [Next]_vars => Answering'
<1> SUFFICES ASSUME TypeOK, Answering, [Next]_vars
             PROVE  Answering'
  OBVIOUS
<1> USE DEF TypeOK, Answering, Critical, At, Answer, Calls
<1>1. CASE Start \/ StartFails
  BY <1>1 DEF Start, StartFails
<1>2. ASSUME NEW c \in Callers, Invoke(c)
      PROVE  Answering'
  BY <1>2 DEF Invoke
<1>3. ASSUME NEW c \in Callers, Step(c)
      PROVE  Answering'
  <2>1. CASE Acquire(c)
    BY <2>1 DEF Acquire
  <2>2. CASE Reject(c) \/ AcceptUpdate(c) \/ RejectEncoding(c) \/ AcceptResult(c)
    BY <2>2 DEF Reject, AcceptUpdate, RejectEncoding, AcceptResult
  <2>3. CASE CallbackReturns(c) \/ CallbackPanics(c) \/ SanitizeReturns(c) \/ SanitizePanics(c)
    BY <2>3 DEF CallbackReturns, CallbackPanics, SanitizeReturns, SanitizePanics
  <2>4. CASE Commit(c) \/ Record(c) \/ EndSpan(c) \/ EndRecordingOnPanic(c)
    BY <2>4 DEF Commit, Record, EndSpan, EndRecordingOnPanic
  <2>5. CASE Unlock(c) \/ ReturnMissing(c)
    BY <2>5 DEF Unlock, ReturnMissing, Reply, NoCall
  <2> QED BY <1>3, <2>1, <2>2, <2>3, <2>4, <2>5 DEF Step
<1>4. CASE UNCHANGED vars
  BY <1>4 DEF vars
<1> QED BY <1>1, <1>2, <1>3, <1>4 DEF Next

\* What answering a call does to the verdicts.
LEMMA ReplyVerdicts ==
  ASSUME TypeOK, NEW c \in Callers, Reply(c)
  PROVE  /\ call[c].answer \in Terminal
              => Sealing(log') = Sealing(log)
                   \cup {[by |-> c, nth |-> call[c].nth, answer |-> call[c].answer]}
         /\ call[c].answer \notin Terminal => Sealing(log') = Sealing(log)
         /\ call'[c].answer = "pending"
         /\ \A d \in Callers \ {c} : call'[d] = call[d]
BY DEF Reply, Sealing, TypeOK, NoCall

\* One call past the check of h.finished at a time.
LEMMA OneActive ==
  ASSUME TypeOK, Holder, NEW c \in Callers, pc[c] \in Critical
  PROVE  \A d \in Callers \ {c} : pc[d] \notin Critical
BY DEF Holder

\* Every step keeps the flag, the verdicts and the calls in agreement.
LEMMA FinishedStep ==
  TypeOK /\ Holder /\ Answering /\ FinishedFlag /\ VerdictIsLast /\ OneVerdict /\ [Next]_vars
    => FinishedFlag' /\ VerdictIsLast' /\ OneVerdict'
<1> DEFINE Goal == FinishedFlag' /\ VerdictIsLast' /\ OneVerdict'
<1> SUFFICES ASSUME TypeOK, Holder, Answering, FinishedFlag, VerdictIsLast, OneVerdict,
                    [Next]_vars
             PROVE  Goal
  OBVIOUS
<1> USE DEF TypeOK, FinishedFlag, VerdictIsLast, OneVerdict, Committed, Terminal, Active, At,
            Answer, Calls
<1>1. CASE Start \/ StartFails
  BY <1>1 DEF Start, StartFails
<1>2. ASSUME NEW c \in Callers, Invoke(c)
      PROVE  Goal
  BY <1>2 DEF Invoke, Answering
<1>3. ASSUME NEW c \in Callers, Step(c)
      PROVE  Goal
  <2>1. CASE Acquire(c)
    BY <2>1, CallersAssumption DEF Acquire, Holder, Answering, Critical
  <2>2. CASE Reject(c) \/ AcceptUpdate(c) \/ RejectEncoding(c) \/ AcceptResult(c)
    BY <2>2, OneActive DEF Reject, AcceptUpdate, RejectEncoding, AcceptResult, Critical, Answering
  <2>3. CASE CallbackReturns(c) \/ CallbackPanics(c) \/ SanitizeReturns(c) \/ SanitizePanics(c)
    BY <2>3, OneActive DEF CallbackReturns, CallbackPanics, SanitizeReturns, SanitizePanics, Critical, Answering
  <2>4. CASE Commit(c)
    BY <2>4, OneActive DEF Commit, Critical, Answering
  <2>5. CASE Record(c) \/ EndSpan(c)
    BY <2>5, OneActive DEF Record, EndSpan, Critical, Answering
  <2>6. CASE EndRecordingOnPanic(c)
    BY <2>6, OneActive DEF EndRecordingOnPanic, Critical, Answering
  <2>7. CASE Unlock(c)
    <3>1. Reply(c) /\ finished' = finished /\ pc[c] = "unlock" /\ pc' = [pc EXCEPT ![c] = "idle"]
      BY <2>7 DEF Unlock
    <3>2. \A d \in Callers \ {c} : /\ pc'[d] = pc[d] /\ call'[d] = call[d]
                                   /\ pc[d] \notin Active /\ pc[d] # "unlock"
                                   /\ call[d].answer \notin Terminal \cup {"valid", "invalid", "finalized"}
      BY <3>1, OneActive, ReplyVerdicts DEF Critical, Answering
    <3>3. CASE call[c].answer \in Terminal
      <4>1. finished /\ Sealing(log) = {}
        BY <3>1, <3>3
      <4>2. Sealing(log') = {[by |-> c, nth |-> call[c].nth, answer |-> call[c].answer]}
        BY <3>1, <3>3, <4>1, ReplyVerdicts
      <4> QED BY <3>1, <3>2, <4>1, <4>2, ReplyVerdicts
    <3>4. CASE call[c].answer \notin Terminal
      <4>1. Sealing(log') = Sealing(log) /\ call'[c].answer = "pending" /\ pc'[c] = "idle"
        BY <3>1, <3>4, ReplyVerdicts
      <4> QED BY <3>1, <3>2, <3>4, <4>1
    <3> QED BY <3>3, <3>4
  <2>8. CASE ReturnMissing(c)
    <3>1. Reply(c) /\ finished' = finished /\ pc[c] = "return" /\ pc' = [pc EXCEPT ![c] = "idle"]
      BY <2>8 DEF ReturnMissing
    <3> QED
      BY <2>8, <3>1, ReplyVerdicts DEF ReturnMissing, Answering
  <2> QED BY <1>3, <2>1, <2>2, <2>3, <2>4, <2>5, <2>6, <2>7, <2>8 DEF Step
<1>4. CASE UNCHANGED vars
  BY <1>4 DEF vars
<1> QED BY <1>1, <1>2, <1>3, <1>4 DEF Next

\* No call precedes the start.
LEMMA NotStartedStep == TypeOK /\ NotStarted /\ [Next]_vars => NotStarted'
<1> SUFFICES ASSUME TypeOK, NotStarted, [Next]_vars
             PROVE  NotStarted'
  OBVIOUS
<1>1. CASE Start \/ StartFails
  BY <1>1 DEF Start, StartFails, NotStarted, TypeOK, Handles
<1>2. ASSUME NEW c \in Callers, Invoke(c)
      PROVE  NotStarted'
  BY <1>2 DEF Invoke, NotStarted
<1>3. ASSUME NEW c \in Callers, Step(c)
      PROVE  NotStarted'
  <2>1. handle' = handle /\ pc[c] # "idle"
    BY <1>3 DEF Step, Acquire, Reject, AcceptUpdate, AcceptResult, CallbackReturns,
       CallbackPanics, RejectEncoding, Commit, SanitizeReturns, SanitizePanics, Record,
       EndSpan, EndRecordingOnPanic, Unlock, ReturnMissing, At
  <2> QED BY <2>1 DEF NotStarted
<1>4. CASE UNCHANGED vars
  BY <1>4 DEF vars, NotStarted, NoSpan
<1> QED BY <1>1, <1>2, <1>3, <1>4 DEF Next

\* Every step preserves the control half of the invariant.
LEMMA ControlStep == Control /\ [Next]_vars => Control'
BY TypeStep, HolderStep, AcceptedStep, AnsweringStep, FinishedStep, NotStartedStep DEF Control

\* The control invariant holds of every behaviour.
THEOREM ControlCorrect == Spec => []Control
BY InitControl, ControlStep, PTL DEF Spec

\* The variables keep their types, and no diagnostic of resolveOutcome is ever
\* exported as a status.
THEOREM TypeCorrect == Spec => []TypeOK
<1>1. Control => TypeOK
  BY DEF Control
<1> QED BY <1>1, ControlCorrect, PTL

\* "Concurrent finalization is serialized; only one valid call commits", for any
\* number of goroutines racing any number of calls.
THEOREM AtMostOneVerdict == Spec => []OneVerdict
<1>1. Control => OneVerdict
  BY DEF Control
<1> QED BY <1>1, ControlCorrect, PTL

-----------------------------------------------------------------------------
(***************************************************************************)
(* The record itself: pristine until the committing call writes it, then   *)
(* the work of that call alone, and sealed with it.                        *)
(***************************************************************************)
NoSeries == [i \in Instruments |-> 0]

Counted ==
  /\ \A i \in Instruments : series[i] <= 1
  /\ handle.logical => series = NoSeries
  /\ handle.kind = "invocation" => series["invocation"] = 1

\* What the record of a traced handle says once call n of c was answered a.
SealedBy(c, n, a) ==
  handle.traced /\ a \in Terminal =>
    /\ span.state = "ended"
    /\ span.authors = {<<c, n>>}
    /\ IF a = "panicked"
       THEN span.status = "error" /\ span.rejected /\ series = NoSeries
       ELSE ~span.rejected /\ Counted

Sealed == Sealing(log) # {} \/ \E c \in Callers : call[c].answer \in Terminal

RecordState ==
  /\ IF handle.state = "live"
     THEN \A c \in Callers : pc[c] # "return"
     ELSE /\ \A c \in Callers : pc[c] \in {"idle", "return"}
          /\ Sealing(log) = {}
          /\ span = NoSpan
  /\ ~handle.traced => span = NoSpan /\ series = NoSeries
  /\ handle.traced /\ handle.state = "live" => span.state # "none"
  /\ span.state = "ended" => Sealed
  /\ ~Sealed /\ (\A c \in Callers : pc[c] \notin {"record", "end"}) => Untouched

RecordOwner ==
  \A c \in Callers :
    /\ SealedBy(c, call[c].nth, call[c].answer)
    /\ pc[c] \in {"sanitize", "record", "end"} => handle.traced
    /\ pc[c] = "record"
         => /\ span.state = "open" /\ ~span.rejected /\ series = NoSeries
            /\ span.authors \subseteq {<<c, call[c].nth>>}
    /\ pc[c] = "end"
         => /\ span.state = "open" /\ span.status # "none" /\ ~span.rejected /\ Counted
            /\ span.authors = {<<c, call[c].nth>>}

RecordLogged == \A e \in log : SealedBy(e.by, e.nth, e.answer)

Exported == RecordState /\ RecordOwner /\ RecordLogged

\* Nothing is exported before the start.
LEMMA InitExported == Init => Exported
<1> SUFFICES ASSUME Init PROVE Exported
  OBVIOUS
<1>1. Sealing(log) = {} /\ \A c \in Callers : call[c].answer \notin Terminal /\ pc[c] = "idle"
  BY DEF Init, Sealing, NoCall, Terminal
<1>2. ~Sealed /\ Untouched /\ span = NoSpan /\ handle.state = "unstarted"
  BY <1>1 DEF Init, Sealed, Untouched, Handles
<1>3. RecordState
  BY <1>1, <1>2 DEF RecordState, NoSpan, NoSeries, Init
<1>4. RecordOwner
  BY <1>1 DEF RecordOwner, SealedBy
<1> QED BY <1>3, <1>4 DEF Exported, RecordLogged, Init

\* While a call is past the check nothing is sealed and nobody else is inside.
LEMMA ActiveAlone ==
  ASSUME Control, NEW c \in Callers, pc[c] \in Active
  PROVE  /\ ~Sealed /\ Sealing(log) = {}
         /\ \A e \in log : e.answer \notin Terminal
         /\ \A d \in Callers : call[d].answer \notin Terminal
         /\ \A d \in Callers \ {c} : pc[d] \notin Critical
<1>1. Sealing(log) = {}
  BY DEF Control, VerdictIsLast
<1>2. \A d \in Callers \ {c} : pc[d] \notin Critical
  BY OneActive DEF Control, Active, Critical
<1>3. \A d \in Callers : call[d].answer \notin Terminal
  BY <1>2 DEF Control, Answering, Active, Critical, Terminal
<1> QED BY <1>1, <1>2, <1>3 DEF Sealed, Sealing

\* The record after a step that touches neither it nor the verdicts, made by a
\* goroutine that is not writing it.
LEMMA Untouching ==
  ASSUME Control, Exported, NEW c \in Callers, UNCHANGED <<handle, span, series, log>>,
         NEW to, pc' = [pc EXCEPT ![c] = to],
         to \notin {"sanitize", "record", "end"},
         pc[c] \notin {"record", "end"},
         IF handle.state = "live" THEN to # "return" ELSE to \in {"idle", "return"},
         NEW a, a \notin Terminal, call[c].answer \notin Terminal,
         call'[c].answer = a, \A d \in Callers \ {c} : call'[d] = call[d]
  PROVE  Exported'
<1> USE DEF Control, TypeOK
<1>1. /\ \A d \in Callers \ {c} : pc'[d] = pc[d]
      /\ pc'[c] = to
  OBVIOUS
<1>2. Sealing(log') = Sealing(log) /\ (Sealed' <=> Sealed) /\ (Untouched' <=> Untouched)
      /\ (Counted' <=> Counted)
  BY <1>1 DEF Sealed, Sealing, Untouched, Counted
<1>3. RecordState'
  BY <1>1, <1>2 DEF Exported, RecordState
<1>4. ASSUME NEW n, NEW b, NEW d
      PROVE  SealedBy(d, n, b)' <=> SealedBy(d, n, b)
  BY <1>2 DEF SealedBy
<1>5. RecordLogged'
  BY <1>4 DEF Exported, RecordLogged
<1>6. ASSUME NEW d \in Callers, d # c
      PROVE  SealedBy(d, call[d].nth, call[d].answer)'
  BY <1>4, <1>6 DEF Exported, RecordOwner, SealedBy, Counted
<1>7. SealedBy(c, call[c].nth, call[c].answer)'
  BY DEF SealedBy
<1>8. RecordOwner'
  BY <1>1, <1>2, <1>6, <1>7 DEF Exported, RecordOwner
<1> QED BY <1>3, <1>5, <1>8 DEF Exported

\* Every step keeps the record in the hands of one call.
LEMMA ExportedStep == Control /\ Exported /\ [Next]_vars => Exported'
<1> SUFFICES ASSUME Control, Exported, [Next]_vars
             PROVE  Exported'
  OBVIOUS
<1> USE DEF Control, TypeOK
<1>1. CASE Start
  <2>1. /\ handle.state = "unstarted" /\ handle'.state = "live"
        /\ handle'.traced = handle.traced /\ UNCHANGED <<series, pc, call, log>>
        /\ span' = IF handle.traced THEN [NoSpan EXCEPT !.state = "open"] ELSE NoSpan
    BY <1>1 DEF Start, Handles
  <2>2. ~Sealed /\ ~Sealed' /\ log = {} /\ \A c \in Callers : pc[c] = "idle"
    BY <2>1 DEF NotStarted, Sealed, Sealing, Answering, Terminal
  <2>3. Untouched'
    BY <2>1, <2>2 DEF Exported, RecordState, Untouched
  <2>4. RecordState'
    BY <2>1, <2>2, <2>3 DEF RecordState, Exported, NoSpan, NoSeries
  <2>5. RecordOwner' /\ RecordLogged'
    BY <2>1, <2>2 DEF RecordOwner, RecordLogged, SealedBy, Answering, Terminal
  <2> QED BY <2>4, <2>5 DEF Exported
<1>2. CASE StartFails
  <2>1. /\ handle.state = "unstarted" /\ handle'.state = "nil"
        /\ handle'.traced = handle.traced /\ UNCHANGED <<series, span, pc, call, log>>
    BY <1>2 DEF StartFails, Handles
  <2>2. ~Sealed /\ ~Sealed' /\ log = {} /\ \A c \in Callers : pc[c] = "idle"
    BY <2>1 DEF NotStarted, Sealed, Sealing, Answering, Terminal
  <2>3. RecordState'
    BY <2>1, <2>2 DEF RecordState, Exported, Untouched
  <2>4. RecordOwner' /\ RecordLogged'
    BY <2>1, <2>2 DEF RecordOwner, RecordLogged, SealedBy, Answering, Terminal
  <2> QED BY <2>3, <2>4 DEF Exported
<1>3. ASSUME NEW c \in Callers, Invoke(c)
      PROVE  Exported'
  <2>1. /\ UNCHANGED <<handle, span, series, log>>
        /\ pc[c] = "idle" /\ call[c].answer = "pending"
        /\ \A d \in Callers \ {c} : call'[d] = call[d]
        /\ call'[c].answer \in {"missing", "pending"}
        /\ pc' = [pc EXCEPT ![c] = IF handle.state = "nil" THEN "return" ELSE "lock"]
        /\ handle.state # "unstarted"
    BY <1>3 DEF Invoke, At, Answering
  <2>2. CASE handle.state = "nil"
    BY <2>1, <2>2, Untouching DEF Terminal
  <2>3. CASE handle.state # "nil"
    BY <2>1, <2>3, Untouching DEF Terminal, Handles
  <2> QED BY <2>2, <2>3
<1>4. ASSUME NEW c \in Callers, Step(c)
      PROVE  Exported'
  <2>0. pc[c] \notin {"idle", "return"} => handle.state = "live"
    BY DEF Exported, RecordState
  <2>1. CASE \/ Acquire(c) \/ Reject(c) \/ AcceptUpdate(c) \/ AcceptResult(c)
             \/ CallbackReturns(c) \/ CallbackPanics(c) \/ RejectEncoding(c) \/ SanitizePanics(c)
    <3>1. PICK to \in {"validate", "callback", "commit", "panicking", "unlock"} :
            pc' = [pc EXCEPT ![c] = to]
      BY <2>1 DEF Acquire, Reject, AcceptUpdate, AcceptResult, CallbackReturns,
         CallbackPanics, RejectEncoding, SanitizePanics, At
    <3>2. /\ UNCHANGED <<handle, span, series, log>>
          /\ pc[c] \in {"lock", "validate", "callback", "commit", "sanitize"}
      BY <2>1 DEF Acquire, Reject, AcceptUpdate, AcceptResult, CallbackReturns,
         CallbackPanics, RejectEncoding, SanitizePanics, At
    <3>3. /\ call'[c].answer \in {"pending", "finalized", "invalid", "valid"}
          /\ \A d \in Callers \ {c} : call'[d] = call[d]
      BY <2>1, <3>2 DEF Acquire, Reject, AcceptUpdate, AcceptResult, CallbackReturns,
         CallbackPanics, RejectEncoding, SanitizePanics, Answer, Answering, Calls
    <3>4. call[c].answer \notin Terminal
      BY <3>2 DEF Answering, Terminal
    <3>5. call'[c].answer \notin Terminal /\ handle.state = "live"
      BY <3>2, <3>3, <2>0 DEF Terminal
    <3> QED BY <3>1, <3>2, <3>3, <3>4, <3>5, Untouching
  <2>2. CASE Commit(c)
    <3>1. /\ UNCHANGED <<handle, span, series, log>> /\ pc[c] = "commit"
          /\ \A d \in Callers \ {c} : pc'[d] = pc[d] /\ call'[d] = call[d]
          /\ IF handle.traced THEN pc'[c] \in {"sanitize", "record"} /\ call'[c] = call[c]
             ELSE pc'[c] = "unlock" /\ call'[c].answer = "recorded"
      BY <2>2 DEF Commit, At, Answer, Calls
    <3>2. /\ ~Sealed /\ Sealing(log) = {} /\ \A e \in log : e.answer \notin Terminal
          /\ \A d \in Callers : call[d].answer \notin Terminal
          /\ \A d \in Callers \ {c} : pc[d] \notin {"record", "end", "sanitize"}
      BY <3>1, ActiveAlone DEF Active, Critical
    <3>3. Untouched /\ handle.state = "live"
      BY <3>1, <3>2, <2>0 DEF Exported, RecordState
    <3>4. Untouched'
      BY <3>1, <3>3 DEF Untouched
    <3>5. RecordState'
      BY <3>1, <3>3, <3>4 DEF Exported, RecordState, Sealed, Terminal, Untouched, NoSpan, NoSeries
    <3>6. RecordOwner'
      BY <3>1, <3>2, <3>3 DEF Exported, RecordState, RecordOwner, SealedBy, Untouched, NoSpan, NoSeries
    <3> QED BY <3>1, <3>2, <3>5, <3>6 DEF Exported, RecordLogged, SealedBy
  <2>3. CASE SanitizeReturns(c)
    <3>1. /\ UNCHANGED <<handle, series, call, log>> /\ pc[c] = "sanitize"
          /\ pc' = [pc EXCEPT ![c] = "record"]
          /\ span' = [span EXCEPT !.authors = @ \cup {<<c, call[c].nth>>}]
      BY <2>3 DEF SanitizeReturns, At
    <3>2. /\ ~Sealed /\ Sealing(log) = {} /\ \A e \in log : e.answer \notin Terminal
          /\ \A d \in Callers : call[d].answer \notin Terminal
          /\ \A d \in Callers \ {c} : pc[d] \notin {"record", "end", "sanitize"}
      BY <3>1, ActiveAlone DEF Active, Critical
    <3>3. Untouched /\ handle.state = "live" /\ handle.traced
      BY <3>1, <3>2, <2>0 DEF Exported, RecordState, RecordOwner
    <3>4. span.state = "open" /\ span.authors = {} /\ ~span.rejected /\ series = NoSeries
      BY <3>3 DEF Untouched, Exported, RecordState, NoSpan, NoSeries
    <3>5. RecordState'
      BY <3>1, <3>3, <3>4 DEF Exported, RecordState, Sealed, Untouched
    <3>6. RecordOwner'
      BY <3>1, <3>2, <3>3, <3>4 DEF Exported, RecordOwner, SealedBy
    <3> QED BY <3>1, <3>2, <3>5, <3>6 DEF Exported, RecordLogged, SealedBy
  <2>4. CASE Record(c)
    <3>1. /\ UNCHANGED <<handle, call, log>> /\ pc[c] = "record"
          /\ pc' = [pc EXCEPT ![c] = "end"]
          /\ span' = [span EXCEPT !.status = Resolved(call[c].result),
                                  !.authors = @ \cup {<<c, call[c].nth>>}]
      BY <2>4 DEF Record, At
    <3>2. /\ ~Sealed /\ Sealing(log) = {} /\ \A e \in log : e.answer \notin Terminal
          /\ \A d \in Callers : call[d].answer \notin Terminal
          /\ \A d \in Callers \ {c} : pc[d] \notin {"record", "end", "sanitize"}
      BY <3>1, ActiveAlone DEF Active, Critical
    <3>3. /\ handle.traced /\ span.state = "open" /\ ~span.rejected
          /\ series = NoSeries /\ span.authors \subseteq {<<c, call[c].nth>>}
      BY <3>1 DEF Exported, RecordOwner
    <3>4. PICK elapsed \in BOOLEAN :
            series' = [i \in Instruments |-> series[i] + Charges(c, elapsed)[i]]
      BY <2>4 DEF Record
    <3>5. series' = Charges(c, elapsed)
      BY <3>3, <3>4, ChargesType DEF NoSeries
    <3>6. /\ \A i \in Instruments : Charges(c, elapsed)[i] <= 1
          /\ handle.logical => Charges(c, elapsed) = NoSeries
          /\ handle.kind = "invocation" => Charges(c, elapsed)["invocation"] = 1
      <4>1. \A i \in Instruments : Charges(c, elapsed)[i] <= 1
        BY ChargesType
      <4>2. handle.logical => handle.kind = "model"
        BY DEF Handles
      <4> QED BY <4>1, <4>2 DEF Charges, Instruments, NoSeries
    <3>7. Counted' /\ span'.status # "none"
      <4>1. Resolved(call[c].result) # "none"
        BY <3>1 DEF Accepted, Active
      <4> QED BY <3>1, <3>5, <3>6, <4>1 DEF Counted
    <3>8. RecordState'
      BY <3>1, <3>3, <2>0 DEF Exported, RecordState, Sealed
    <3>9. RecordOwner'
      BY <3>1, <3>2, <3>3, <3>7 DEF Exported, RecordOwner, SealedBy
    <3> QED BY <3>1, <3>2, <3>8, <3>9 DEF Exported, RecordLogged, SealedBy
  <2>5. CASE EndSpan(c)
    <3>1. /\ UNCHANGED <<handle, series, log>> /\ pc[c] = "end"
          /\ pc' = [pc EXCEPT ![c] = "unlock"]
          /\ span' = [span EXCEPT !.state = "ended"]
          /\ \A d \in Callers \ {c} : call'[d] = call[d]
          /\ call'[c].answer = "recorded" /\ call'[c].nth = call[c].nth
      BY <2>5 DEF EndSpan, At, Answer, Calls
    <3>2. /\ \A e \in log : e.answer \notin Terminal
          /\ \A d \in Callers : call[d].answer \notin Terminal
          /\ \A d \in Callers \ {c} : pc[d] \notin {"record", "end", "sanitize"}
      BY <3>1, ActiveAlone DEF Active, Critical
    <3>3. handle.traced /\ ~span.rejected /\ Counted /\ span.authors = {<<c, call[c].nth>>}
      BY <3>1 DEF Exported, RecordOwner
    <3>4. Counted' /\ Sealed'
      BY <3>1, <3>3 DEF Counted, Sealed, Terminal
    <3>5. RecordState'
      BY <3>1, <3>3, <3>4, <2>0 DEF Exported, RecordState
    <3>6. RecordOwner'
      BY <3>1, <3>2, <3>3, <3>4 DEF Exported, RecordOwner, SealedBy
    <3> QED BY <3>1, <3>2, <3>5, <3>6 DEF Exported, RecordLogged, SealedBy
  <2>6. CASE EndRecordingOnPanic(c)
    <3>1. /\ UNCHANGED <<handle, series, log>> /\ pc[c] = "panicking"
          /\ pc' = [pc EXCEPT ![c] = "unlock"]
          /\ span' = IF handle.traced
                     THEN [state |-> "ended", status |-> "error", rejected |-> TRUE,
                           authors |-> span.authors \cup {<<c, call[c].nth>>}]
                     ELSE span
          /\ \A d \in Callers \ {c} : call'[d] = call[d]
          /\ call'[c].answer = "panicked" /\ call'[c].nth = call[c].nth
      BY <2>6 DEF EndRecordingOnPanic, At, Answer, Calls
    <3>2. /\ ~Sealed /\ \A e \in log : e.answer \notin Terminal
          /\ \A d \in Callers : call[d].answer \notin Terminal
          /\ \A d \in Callers \ {c} : pc[d] \notin {"record", "end", "sanitize"}
      BY <3>1, ActiveAlone DEF Active, Critical
    <3>3. span.authors = {} /\ series = NoSeries
      BY <3>1, <3>2 DEF Exported, RecordState, Untouched, NoSpan, NoSeries
    <3>4. Sealed'
      BY <3>1 DEF Sealed, Terminal
    <3>5. RecordState'
      BY <3>1, <3>4, <2>0 DEF Exported, RecordState
    <3>6. RecordOwner'
      BY <3>1, <3>2, <3>3 DEF Exported, RecordOwner, SealedBy
    <3> QED BY <3>1, <3>2, <3>5, <3>6 DEF Exported, RecordLogged, SealedBy
  <2>7. CASE Unlock(c) \/ ReturnMissing(c)
    <3> DEFINE entry == [by |-> c, nth |-> call[c].nth, answer |-> call[c].answer]
    <3>1. /\ UNCHANGED <<handle, span, series>> /\ pc[c] \in {"unlock", "return"}
          /\ pc' = [pc EXCEPT ![c] = "idle"] /\ Reply(c)
          /\ log' = log \cup {entry}
      BY <2>7 DEF Unlock, ReturnMissing, At, Reply
    <3>2. /\ call'[c].answer = "pending" /\ \A d \in Callers \ {c} : call'[d] = call[d]
          /\ Sealing(log') = IF call[c].answer \in Terminal THEN Sealing(log) \cup {entry}
                             ELSE Sealing(log)
      BY <3>1, ReplyVerdicts
    <3>3. Sealed' <=> Sealed
      BY <3>2 DEF Sealed, Terminal
    <3>4. (Untouched' <=> Untouched) /\ (Counted' <=> Counted)
      BY <3>1 DEF Untouched, Counted
    <3>5. RecordState'
      <4>1. handle.state # "live" => call[c].answer \notin Terminal
        BY <3>1, <2>0 DEF Exported, RecordState, Answering, Terminal
      <4> QED BY <3>1, <3>2, <3>3, <3>4, <4>1 DEF Exported, RecordState
    <3>6. ASSUME NEW e \in log'
          PROVE  SealedBy(e.by, e.nth, e.answer)'
      <4>1. CASE e \in log
        BY <3>1, <3>4, <4>1 DEF Exported, RecordLogged, SealedBy
      <4>2. CASE e = entry
        BY <3>1, <3>4, <4>2 DEF Exported, RecordOwner, SealedBy
      <4> QED BY <3>1, <4>1, <4>2
    <3>7. RecordLogged'
      BY <3>6 DEF RecordLogged
    <3>8. RecordOwner'
      BY <3>1, <3>2, <3>4 DEF Exported, RecordOwner, SealedBy, Terminal
    <3> QED BY <3>5, <3>7, <3>8 DEF Exported
  <2> QED BY <1>4, <2>1, <2>2, <2>3, <2>4, <2>5, <2>6, <2>7 DEF Step
<1>5. CASE UNCHANGED vars
  BY <1>5 DEF vars, Exported, RecordState, RecordOwner, RecordLogged, SealedBy, Sealed,
     Sealing, Untouched, Counted
<1> QED BY <1>1, <1>2, <1>3, <1>4, <1>5 DEF Next

\* The exported half of the invariant: span, authors and data points agree with
\* the answers (recordInteractionOnSpan, applyOutcome, endRecordingOnPanic).
THEOREM ExportedCorrect == Spec => []Exported
<1>1. Init => Exported
  BY InitExported
<1>2. Control /\ Exported /\ [Next]_vars => Exported'
  BY ExportedStep
<1> QED BY <1>1, <1>2, ControlCorrect, PTL DEF Spec

\* "Returned validation errors write nothing and remain correctable", whatever
\* the goroutines tried before.
THEOREM RejectionsAreCorrectable == Spec => []RejectionLeavesNoTrace
<1>1. Control /\ Exported => RejectionLeavesNoTrace
  <2> SUFFICES ASSUME Control, Exported, mutex = NoCaller, Sealing(log) = {}
               PROVE  ~finished /\ Untouched
    BY DEF RejectionLeavesNoTrace
  <2>1. \A c \in Callers : pc[c] \notin Critical
    BY CallersAssumption DEF Control, Holder
  <2>2. \A c \in Callers : call[c].answer \notin Terminal
    BY <2>1 DEF Control, Answering, Critical, Terminal
  <2> QED BY <2>1, <2>2 DEF Control, FinishedFlag, Committed, Critical, Exported, RecordState, Sealed
<1> QED BY <1>1, ControlCorrect, ExportedCorrect, PTL

\* A host panic is exported as the error verdict of the record, with no metric.
THEOREM PanicIsRecorded == Spec => []PanicIsTheVerdict
<1>1. Exported => PanicIsTheVerdict
  BY DEF Exported, RecordLogged, SealedBy, PanicIsTheVerdict, Sealing, NoSeries
<1> QED BY <1>1, ExportedCorrect, PTL

\* No instrument counts one observation twice, however many calls race.
THEOREM NeverAccountedTwice == Spec => []AccountedOnce
<1>1. Control /\ Exported => AccountedOnce
  <2> SUFFICES ASSUME Control, Exported
               PROVE  AccountedOnce
    OBVIOUS
  <2>1. \/ Untouched
        \/ \E c \in Callers : pc[c] = "record" /\ series = NoSeries
        \/ \E c \in Callers : pc[c] = "end" /\ Counted
        \/ handle.traced /\ Sealed
        \/ ~handle.traced /\ series = NoSeries
    BY DEF Exported, RecordState, RecordOwner
  <2>2. handle.traced /\ Sealed => series = NoSeries \/ Counted
    BY DEF Sealed, Sealing, Exported, RecordOwner, RecordLogged, SealedBy
  <2>3. series = NoSeries \/ Counted
    BY <2>1, <2>2 DEF Untouched, NoSeries
  <2>4. \A i \in Instruments : series[i] <= 1
    BY <2>3 DEF NoSeries, Counted
  <2>5. handle.logical \/ ~handle.traced => \A i \in Instruments : series[i] = 0
    BY <2>3 DEF NoSeries, Counted, Exported, RecordState
  <2>6. \A e \in Sealing(log) :
          handle.kind = "invocation" /\ handle.traced /\ e.answer = "recorded"
            => series["invocation"] = 1
    BY DEF Exported, RecordLogged, SealedBy, Counted, Sealing
  <2> QED BY <2>4, <2>5, <2>6 DEF AccountedOnce
<1> QED BY <1>1, ControlCorrect, ExportedCorrect, PTL

\* The exported record is the work of the call that sealed it: of the goroutines
\* that raced, one wrote the attributes, the outcome and the sanitised payload.
THEOREM RecordHasOneAuthor == Spec => []RecordIsOneCall
<1>1. Control /\ Exported => RecordIsOneCall
  <2> SUFFICES ASSUME Control, Exported
               PROVE  RecordIsOneCall
    OBVIOUS
  <2>1. span.authors = {} \/ \E who : span.authors = {who}
    <3>1. CASE ~handle.traced
      BY <3>1 DEF Exported, RecordState, NoSpan
    <3>2. CASE \E c \in Callers : pc[c] \in {"record", "end"}
      BY <3>2 DEF Exported, RecordOwner
    <3>3. CASE handle.traced /\ Sealed
      BY <3>3 DEF Exported, RecordOwner, RecordLogged, SealedBy, Sealed, Sealing
    <3>4. CASE ~Sealed /\ \A c \in Callers : pc[c] \notin {"record", "end"}
      BY <3>4 DEF Exported, RecordState, Untouched, NoSpan
    <3> QED BY <3>1, <3>2, <3>3, <3>4
  <2>2. Cardinality(span.authors) <= 1
    BY <2>1, FS_EmptySet, FS_Singleton
  <2>3. \A e \in Sealing(log) : handle.traced => span.authors = {<<e.by, e.nth>>}
    BY DEF Exported, RecordLogged, SealedBy, Sealing
  <2> QED BY <2>2, <2>3 DEF RecordIsOneCall
<1> QED BY <1>1, ControlCorrect, ExportedCorrect, PTL

\* Types, a single verdict and its accounting, in one statement: resolveOutcome's
\* diagnostics never reach the span, one Finish or Close commits, and its metrics
\* are counted once.
THEOREM AccountIsOne == Spec => []OneAccount
<1>1. TypeOK /\ OneVerdict /\ AccountedOnce => OneAccount
  BY DEF OneAccount
<1> QED BY <1>1, TypeCorrect, AtMostOneVerdict, NeverAccountedTwice, PTL

\* A call was only told ErrFinalized after another one was told the verdict.
FinalizedLogged == (\E e \in log : e.answer = "finalized") => Sealing(log) # {}

\* ErrFinalized is only ever reported of a complete record: the sealing call was
\* answered and the span has ended.
THEOREM FinalizedIsComplete == Spec => []FinalizedMeansComplete
<1>1. Init => FinalizedLogged
  BY DEF Init, FinalizedLogged
<1>2. Control /\ FinalizedLogged /\ [Next]_vars => FinalizedLogged'
  <2> SUFFICES ASSUME Control, FinalizedLogged, [Next]_vars
               PROVE  FinalizedLogged'
    OBVIOUS
  <2>1. CASE UNCHANGED log
    BY <2>1 DEF FinalizedLogged, Sealing
  <2>2. ASSUME NEW c \in Callers, Reply(c)
        PROVE  FinalizedLogged'
    <3>1. log' = log \cup {[by |-> c, nth |-> call[c].nth, answer |-> call[c].answer]}
      BY <2>2 DEF Reply
    <3>2. call[c].answer = "finalized" => Sealing(log) # {}
      BY DEF Control, VerdictIsLast
    <3>3. Sealing(log) \subseteq Sealing(log')
      BY <3>1 DEF Sealing
    <3> QED BY <3>1, <3>2, <3>3 DEF FinalizedLogged
  <2>3. UNCHANGED log \/ \E c \in Callers : Reply(c)
    BY DEF Next, Start, StartFails, Invoke, Step, Acquire, Reject, AcceptUpdate, AcceptResult,
       CallbackReturns, CallbackPanics, RejectEncoding, Commit, SanitizeReturns, SanitizePanics,
       Record, EndSpan, EndRecordingOnPanic, Unlock, ReturnMissing, vars
  <2> QED BY <2>1, <2>2, <2>3
<1>3. Exported /\ FinalizedLogged => FinalizedMeansComplete
  BY DEF Exported, RecordLogged, SealedBy, FinalizedLogged, FinalizedMeansComplete, Sealing
<1> QED BY <1>1, <1>2, <1>3, ControlCorrect, ExportedCorrect, PTL DEF Spec

-----------------------------------------------------------------------------
(***************************************************************************)
(* The handle implements OnceRecording: the span's end is the sealing, the *)
(* release of the mutex is the answer, and every other step is invisible.  *)
(***************************************************************************)
LEMMA SealersAre ==
  ASSUME Control
  PROVE  /\ Sealers \subseteq Callers
         /\ (Sealers # {} <=> Sealed)
         /\ \A c, d \in Sealers : c = d
<1>1. Sealers \subseteq Callers /\ (Sealers # {} <=> Sealed)
  BY DEF Sealers, Sealed, Sealing, Control, TypeOK
<1>2. ASSUME NEW c \in Sealers, NEW d \in Sealers
      PROVE  c = d
  <2>1. CASE Sealing(log) # {}
    BY <2>1, <1>2 DEF Control, VerdictIsLast, OneVerdict, Sealers
  <2>2. CASE Sealing(log) = {}
    <3>1. /\ c \in Callers /\ d \in Callers
          /\ call[c].answer \in Terminal /\ call[d].answer \in Terminal
      BY <2>2, <1>2 DEF Sealers
    <3>2. pc[c] = "unlock" /\ pc[d] = "unlock"
      BY <3>1 DEF Control, Answering, Terminal
    <3> QED BY <3>1, <3>2, OneActive DEF Control, Critical
  <2> QED BY <2>1, <2>2
<1> QED BY <1>1, <1>2

\* A sole sealer is the one the refinement names.
LEMMA SealerIs ==
  ASSUME Control, NEW c \in Sealers
  PROVE  SealerOf = c
BY SealersAre DEF SealerOf

\* The initial states of the handle map to those of OnceRecording.
LEMMA OnceInit == Init => Once!Init
<1> SUFFICES ASSUME Init PROVE Once!Init
  OBVIOUS
<1>1. Sealing(log) = {} /\ Sealers = {}
  BY DEF Init, Sealing, Sealers, NoCall, Terminal
<1>2. ToldTo = [c \in Callers |-> {}]
  BY DEF Init, ToldTo
<1>3. {c \in Callers : pc[c] # "idle"} = {}
  BY DEF Init
<1> QED BY <1>1, <1>2, <1>3 DEF Once!Init, SealerOf, VerdictOf

\* A step that changes no answer, and the span only while nothing is sealed.
LEMMA OnceStutter ==
  ASSUME Control, Sealing(log') = Sealing(log), log' = log, handle'.traced = handle.traced,
         Sealers' = Sealers, span'.status = span.status \/ Sealers = {},
         {c \in Callers : pc'[c] # "idle"} = {c \in Callers : pc[c] # "idle"}
  PROVE  UNCHANGED Once!vars
<1>1. SealerOf' = SealerOf
  BY DEF SealerOf
<1>2. VerdictOf' = VerdictOf
  BY DEF VerdictOf
<1>3. ToldTo' = ToldTo
  BY DEF ToldTo, News
<1> QED BY <1>1, <1>2, <1>3 DEF Once!vars

\* The committing call seals the record.
LEMMA OnceSeal ==
  ASSUME Control, NEW c \in Callers, pc[c] \in Active, pc' = [pc EXCEPT ![c] = "unlock"],
         log' = log, handle' = handle, call'[c].answer \in Terminal,
         \A d \in Callers \ {c} : call'[d] = call[d],
         handle.traced => span'.status \in {"ok", "unset", "error"}
  PROVE  Once!Seal(c)
<1>1. ~Sealed /\ Sealing(log) = {}
  BY ActiveAlone
<1>2. Sealers = {}
  BY <1>1, SealersAre
<1>3. Sealers' = {c}
  BY <1>1, ActiveAlone DEF Sealers
<1>4. SealerOf = NoCaller /\ SealerOf' = c
  BY <1>2, <1>3 DEF SealerOf
<1>5. VerdictOf' \in {"ok", "unset", "error", "dropped"}
  BY <1>3 DEF VerdictOf
<1>6. UNCHANGED <<Sealing(log) # {}, ToldTo>>
  BY DEF ToldTo, News
<1>7. UNCHANGED {d \in Callers : pc[d] # "idle"}
  BY DEF Control, TypeOK, Active
<1>8. c \in {d \in Callers : pc[d] # "idle"}
  BY DEF Active
<1> QED BY <1>4, <1>5, <1>6, <1>7, <1>8 DEF Once!Seal

\* The release of the mutex tells the caller what OnceRecording allows.
LEMMA OnceReply ==
  ASSUME Control, Exported, NEW c \in Callers, pc[c] \in {"unlock", "return"},
         pc' = [pc EXCEPT ![c] = "idle"], Reply(c), UNCHANGED <<handle, span, finished>>
  PROVE  Once!Settle(c) \/ Once!Refuse(c) \/ Once!Dismiss(c)
<1> DEFINE entry == [by |-> c, nth |-> call[c].nth, answer |-> call[c].answer]
<1> USE DEF Control, TypeOK
<1>1. log' = log \cup {entry}
  BY DEF Reply
<1>2. ToldTo' = [ToldTo EXCEPT ![c] = @ \cup {News(entry)}]
  <2>1. ASSUME NEW d \in Callers
        PROVE  {News(e) : e \in {e \in log' : e.by = d}}
                 = IF d = c THEN ToldTo[c] \cup {News(entry)} ELSE ToldTo[d]
    BY <1>1 DEF ToldTo
  <2> QED BY <2>1 DEF ToldTo, News
<1>3. /\ c \in {d \in Callers : pc[d] # "idle"}
      /\ {d \in Callers : pc'[d] # "idle"} = {d \in Callers : pc[d] # "idle"} \ {c}
  OBVIOUS
<1>4. /\ call'[c].answer = "pending" /\ \A d \in Callers \ {c} : call'[d] = call[d]
      /\ Sealing(log') = IF call[c].answer \in Terminal THEN Sealing(log) \cup {entry}
                         ELSE Sealing(log)
  BY <1>1, ReplyVerdicts
<1>5. Sealers' = Sealers
  <2>1. CASE call[c].answer \in Terminal
    <3>1. {d \in Callers : call'[d].answer \in Terminal}
            = {d \in Callers : call[d].answer \in Terminal} \ {c}
      BY <1>4 DEF Terminal
    <3>2. {e.by : e \in Sealing(log')} = {e.by : e \in Sealing(log)} \cup {c}
      <4>1. Sealing(log') = Sealing(log) \cup {entry} /\ entry.by = c
        BY <1>4, <2>1
      <4> HIDE DEF entry
      <4> QED BY <4>1
    <3> QED BY <3>1, <3>2, <2>1 DEF Sealers
  <2>2. CASE call[c].answer \notin Terminal
    BY <1>4, <2>2 DEF Sealers, Terminal
  <2> QED BY <2>1, <2>2
<1>6. SealerOf' = SealerOf /\ VerdictOf' = VerdictOf
  <2>1. SealerOf' = SealerOf
    BY <1>5 DEF SealerOf
  <2>2. VerdictOf' = VerdictOf
    BY <1>5 DEF VerdictOf
  <2> QED BY <2>1, <2>2
<1>7. CASE call[c].answer \in Terminal
  <2>1. Sealing(log) = {} /\ Sealing(log') # {}
    BY <1>4, <1>7 DEF VerdictIsLast
  <2>2. SealerOf = c
    BY <1>7, SealerIs DEF Sealers
  <2>3. News(entry) = "sealed"
    BY <1>7 DEF News, Terminal
  <2> QED BY <1>2, <1>3, <1>6, <2>1, <2>2, <2>3 DEF Once!Settle, Once!Tell
<1>8. CASE call[c].answer = "finalized"
  <2>1. Sealing(log) # {} /\ Sealing(log') = Sealing(log)
    BY <1>4, <1>8 DEF VerdictIsLast, Terminal
  <2>2. News(entry) = "finalized"
    BY <1>8 DEF News, Terminal
  <2> QED BY <1>2, <1>3, <1>6, <2>1, <2>2 DEF Once!Refuse, Once!Tell
<1>9. CASE call[c].answer \in {"missing", "valid", "invalid"}
  <2>1. ~Sealed
    <3>1. CASE call[c].answer = "missing"
      <4>1. handle.state # "live"
        BY <3>1 DEF Answering, Exported, RecordState
      <4> QED BY <4>1 DEF Exported, RecordState, Answering, Sealed, Terminal
    <3>2. CASE call[c].answer \in {"valid", "invalid"}
      BY <3>2 DEF VerdictIsLast, FinishedFlag, Committed, Sealed
    <3> QED BY <1>9, <3>1, <3>2
  <2>2. SealerOf = NoCaller
    BY <2>1, SealersAre DEF SealerOf
  <2>3. News(entry) = "open" /\ Sealing(log') = Sealing(log)
    BY <1>4, <1>9 DEF News, Terminal
  <2> QED BY <1>2, <1>3, <1>6, <2>2, <2>3 DEF Once!Dismiss, Once!Tell
<1> QED BY <1>7, <1>8, <1>9 DEF Answering, Terminal

\* Every step of the handle maps to a step or a stutter of OnceRecording.
LEMMA OnceStep == Control /\ Exported /\ [Next]_vars => [Once!Next]_(Once!vars)
<1> SUFFICES ASSUME Control, Exported, [Next]_vars
             PROVE  Once!Next \/ UNCHANGED Once!vars
  OBVIOUS
<1> USE DEF Control, TypeOK
<1>1. CASE Start \/ StartFails
  <2>1. UNCHANGED <<pc, call, log>> /\ handle'.traced = handle.traced /\ handle.state = "unstarted"
    BY <1>1 DEF Start, StartFails, Handles
  <2>2. ~Sealed
    BY <2>1 DEF NotStarted, Answering, Sealed, Sealing, Terminal
  <2>3. Sealers = {} /\ Sealers' = Sealers
    BY <2>1, <2>2, SealersAre DEF Sealers
  <2> QED BY <2>1, <2>3, OnceStutter
<1>2. ASSUME NEW c \in Callers, Invoke(c)
      PROVE  Once!Ask(c)
  <2>1. /\ UNCHANGED <<handle, span, log>> /\ pc[c] = "idle" /\ pc'[c] # "idle"
        /\ \A d \in Callers \ {c} : pc'[d] = pc[d] /\ call'[d] = call[d]
        /\ call[c].answer \notin Terminal /\ call'[c].answer \notin Terminal
    BY <1>2 DEF Invoke, At, Answering, Terminal
  <2>2. Sealers' = Sealers
    BY <2>1 DEF Sealers
  <2>3. SealerOf' = SealerOf
    BY <2>2 DEF SealerOf
  <2>4. VerdictOf' = VerdictOf
    BY <2>1, <2>2 DEF VerdictOf
  <2>5. ToldTo' = ToldTo /\ Sealing(log') = Sealing(log)
    BY <2>1 DEF ToldTo, News
  <2>6. {d \in Callers : pc'[d] # "idle"} = {d \in Callers : pc[d] # "idle"} \cup {c}
    BY <2>1
  <2> QED BY <2>1, <2>3, <2>4, <2>5, <2>6 DEF Once!Ask
<1>3. ASSUME NEW c \in Callers, Step(c)
      PROVE  \/ Once!Seal(c) \/ Once!Settle(c) \/ Once!Refuse(c) \/ Once!Dismiss(c)
             \/ UNCHANGED Once!vars
  <2>1. CASE \/ Acquire(c) \/ Reject(c) \/ AcceptUpdate(c) \/ AcceptResult(c)
             \/ CallbackReturns(c) \/ CallbackPanics(c) \/ RejectEncoding(c)
             \/ SanitizeReturns(c) \/ SanitizePanics(c) \/ Record(c)
             \/ (Commit(c) /\ handle.traced)
    <3>1. /\ UNCHANGED <<handle, log>>
          /\ pc[c] \in {"lock", "validate", "callback", "commit", "sanitize", "record"}
          /\ \E to \in Critical : pc' = [pc EXCEPT ![c] = to]
      BY <2>1 DEF Acquire, Reject, AcceptUpdate, AcceptResult, CallbackReturns, CallbackPanics,
         RejectEncoding, SanitizeReturns, SanitizePanics, Record, Commit, At, Critical
    <3>2. /\ call'[c].answer \notin Terminal
          /\ \A d \in Callers \ {c} : call'[d] = call[d]
      BY <2>1, <3>1 DEF Acquire, Reject, AcceptUpdate, AcceptResult, CallbackReturns,
         CallbackPanics, RejectEncoding, SanitizeReturns, SanitizePanics, Record, Commit,
         Answer, Answering, Calls, Terminal
    <3>3. call[c].answer \notin Terminal
      BY <3>1 DEF Answering, Terminal
    <3>4. Sealers' = Sealers
      BY <3>1, <3>2, <3>3 DEF Sealers
    <3>5. span' = span \/ Sealers = {}
      <4>1. CASE Record(c) \/ SanitizeReturns(c)
        BY <4>1, ActiveAlone, SealersAre DEF Record, SanitizeReturns, At, Active
      <4>2. CASE ~(Record(c) \/ SanitizeReturns(c))
        BY <4>2, <2>1 DEF Acquire, Reject, AcceptUpdate, AcceptResult, CallbackReturns,
           CallbackPanics, RejectEncoding, SanitizePanics, Commit
      <4> QED BY <4>1, <4>2
    <3>6. {d \in Callers : pc'[d] # "idle"} = {d \in Callers : pc[d] # "idle"}
      BY <3>1 DEF Critical
    <3> QED BY <3>1, <3>4, <3>5, <3>6, OnceStutter
  <2>2. CASE Commit(c) /\ ~handle.traced
    <3>1. /\ UNCHANGED <<handle, log>> /\ pc[c] = "commit" /\ pc' = [pc EXCEPT ![c] = "unlock"]
          /\ call'[c].answer = "recorded" /\ \A d \in Callers \ {c} : call'[d] = call[d]
      BY <2>2 DEF Commit, At, Answer, Calls
    <3> QED BY <3>1, <2>2, OnceSeal DEF Active, Terminal
  <2>3. CASE EndSpan(c)
    <3>1. /\ UNCHANGED <<handle, log>> /\ pc[c] = "end" /\ pc' = [pc EXCEPT ![c] = "unlock"]
          /\ call'[c].answer = "recorded" /\ \A d \in Callers \ {c} : call'[d] = call[d]
          /\ span'.status = span.status
      BY <2>3 DEF EndSpan, At, Answer, Calls
    <3>2. span.status \in {"ok", "unset", "error"}
      BY <3>1 DEF Exported, RecordOwner
    <3> QED BY <3>1, <3>2, OnceSeal DEF Active, Terminal
  <2>4. CASE EndRecordingOnPanic(c)
    <3>1. /\ UNCHANGED <<handle, log>> /\ pc[c] = "panicking" /\ pc' = [pc EXCEPT ![c] = "unlock"]
          /\ call'[c].answer = "panicked" /\ \A d \in Callers \ {c} : call'[d] = call[d]
          /\ handle.traced => span'.status = "error"
      BY <2>4 DEF EndRecordingOnPanic, At, Answer, Calls
    <3> QED BY <3>1, OnceSeal DEF Active, Terminal
  <2>5. CASE Unlock(c) \/ ReturnMissing(c)
    <3>1. /\ pc[c] \in {"unlock", "return"} /\ pc' = [pc EXCEPT ![c] = "idle"]
          /\ Reply(c) /\ UNCHANGED <<handle, span, finished>>
      BY <2>5 DEF Unlock, ReturnMissing, At
    <3> QED BY <3>1, OnceReply
  <2> QED BY <1>3, <2>1, <2>2, <2>3, <2>4, <2>5 DEF Step
<1>4. CASE UNCHANGED vars
  <2>1. UNCHANGED <<handle, span, pc, call, log>>
    BY <1>4 DEF vars
  <2>2. Sealers' = Sealers
    BY <2>1 DEF Sealers
  <2> QED BY <2>1, <2>2, OnceStutter
<1> QED BY <1>1, <1>2, <1>3, <1>4 DEF Next, Once!Next

\* Whatever the kind of handle, and for any number of goroutines and calls, the
\* code does what OnceRecording promises the callers.
THEOREM HandleImplementsOnceRecording == Spec => ImplementsOnceRecording
<1>1. Init => Once!Init
  BY OnceInit
<1>2. Control /\ Exported /\ [Next]_vars => [Once!Next]_(Once!vars)
  BY OnceStep
<1> QED BY <1>1, <1>2, ControlCorrect, ExportedCorrect, PTL DEF Spec, ImplementsOnceRecording, Once!Spec
=============================================================================
