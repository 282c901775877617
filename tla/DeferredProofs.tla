--------------------------- MODULE DeferredProofs ---------------------------
(***************************************************************************)
(* What is recorded of an operation later, for any number of jobs, workers *)
(* and senders. A token is followed from the job it is made of to what its *)
(* delivery ends in; a stored evaluation is followed from the check under  *)
(* the sink's lock to every later answer about it.                         *)
(***************************************************************************)
EXTENDS AsyncContinuation, EvaluationDelivery, ObservationMapping, TLAPS

\* The recorders and the tracer are the hosts' choice, once.
AsyncTypes ==
  /\ producer \in {"tracker", "noop"} /\ consumer \in {"tracker", "noop"} /\ tracing \in {"sdk", "noop"}
  /\ handle \in [Jobs -> Refs] /\ held \in [Workers -> Tokens \cup {Idle}]

OwnRef(j) == Ref(IF tracing = "sdk" THEN "own" ELSE "caller", j)

\* What the handle of a job refers to, and whether that span is over, at each stage
\* of the job: the span is ended on the way from a captured handle to a returned one.
Captured(j) ==
  /\ handle[j] \in {Invalid, Disabled, OwnRef(j)}
  /\ stage[j] \in {"called", "started"} => handle[j] = Invalid
  /\ tracing = "sdk" /\ stage[j] \in {"started", "captured"} => origin[j] = "open"
  /\ handle[j].of = "own" /\ stage[j] # "captured" => origin[j] = "ended"
  /\ stage[j] = "sent" => handle[j] = OwnRef(j)

\* A delivery is one that was made, of a job whose token was sent.
Made(delivery) ==
  /\ delivery \in DeliveryIds /\ delivery[2] <= deliveries[delivery[1]]
  /\ stage[delivery[1]] = "sent"

Delivery(t) == <<t.job, t.n>>
Busy == {w \in Workers : pc[w] # "idle"}

\* A delivery is in one place: in the queue, with one worker, or settled.
OnePlace ==
  /\ \A t, u \in queue : Delivery(t) = Delivery(u) => t = u
  /\ \A w \in Busy, t \in queue : Delivery(t) # Delivery(held[w])
  /\ \A v, w \in Busy : Delivery(held[v]) = Delivery(held[w]) => v = w
  /\ \A s \in settled :
       /\ \A t \in queue : s.delivery # Delivery(t)
       /\ \A w \in Busy : s.delivery # Delivery(held[w])

\* A delivery has a result only once its worker is on its way to acknowledge it.
Exported(delivery) == \E e \in exported : e.delivery = delivery

ResultFirst ==
  /\ \A t \in queue : ~Exported(Delivery(t))
  /\ \A w \in Busy :
       /\ held[w] \in Tokens
       /\ pc[w] # "ack" => ~Exported(Delivery(held[w]))
       /\ pc[w] = "ack" /\ consumer = "tracker" => Exported(Delivery(held[w]))

Traced ==
  /\ \A t \in queue : Made(Delivery(t))
  /\ \A w \in Busy : Made(Delivery(held[w]))
  /\ \A s \in exported : Made(s.delivery) /\ s.link = handle[s.delivery[1]]
  /\ \A s \in settled : Made(s.delivery)

AsyncInv ==
  /\ TypeOK /\ AsyncTypes /\ \A j \in Jobs : Captured(j)
  /\ Traced /\ OnePlace /\ ResultFirst /\ AckedIsRecorded


\* Where every delivery is, and what each job's token says, decide both properties.
LEMMA AsyncInvImplies == AsyncInv => ContinuesItsOrigin /\ AckedIsRecorded
<1> SUFFICES ASSUME AsyncInv PROVE ResultLinksItsOrigin /\ OriginIsOver
  BY DEF AsyncInv, ContinuesItsOrigin
<1> SUFFICES ASSUME NEW s \in exported
             PROVE  /\ s.link.job = s.delivery[1]
                    /\ s.link.of = IF tracing = "sdk" THEN "own" ELSE "caller"
                    /\ s.link.of = "own" => origin[s.link.job] = "ended"
  BY DEF ResultLinksItsOrigin, OriginIsOver
<1>1. /\ s.delivery[1] \in Jobs /\ stage[s.delivery[1]] = "sent" /\ s.link = handle[s.delivery[1]]
  BY DEF AsyncInv, Traced, Made, DeliveryIds
<1>2. s.link = OwnRef(s.delivery[1])
  BY <1>1 DEF AsyncInv, Captured
<1>3. s.link.of = "own" => origin[s.delivery[1]] = "ended"
  BY <1>1 DEF AsyncInv, Captured
<1> QED
  BY <1>2, <1>3 DEF OwnRef, Ref

LEMMA AsyncInit == Init => AsyncInv
<1> SUFFICES ASSUME Init PROVE AsyncInv
  OBVIOUS
<1>1. TypeOK
  BY MaxDeliveriesAssumption DEF Init, TypeOK, Refs
<1>2. AsyncTypes
  BY DEF Init, AsyncTypes, Refs
<1>3. (\A j \in Jobs : Captured(j)) /\ Busy = {}
  BY DEF Init, Captured, Invalid, Disabled, Ref, OwnRef, Busy
<1> QED
  BY <1>1, <1>2, <1>3 DEF Init, AsyncInv, Traced, OnePlace, ResultFirst, Exported, AckedIsRecorded,
                    NilMeansRecorded, RefusedLeavesNothing

\* What a producer does before its token is sent concerns nobody else.
LEMMA PreparingKeeps ==
  ASSUME AsyncInv, NEW j \in Jobs,
         StartDisabled(j) \/ StartSpan(j) \/ Capture(j) \/ EndOrigin(j) \/ NoToken(j)
  PROVE  AsyncInv'
<1>1. /\ stage[j] # "sent" /\ UNCHANGED <<producer, tracing, caller, work>>
      /\ stage' \in [Jobs -> {"called", "started", "captured", "returned", "refused", "sent"}]
      /\ stage'[j] # "sent"
      /\ \A i \in Jobs : i # j => stage'[i] = stage[i] /\ handle'[i] = handle[i] /\ origin'[i] = origin[i]
  BY DEF AsyncInv, TypeOK, AsyncTypes, StartDisabled, StartSpan, Capture, EndOrigin, NoToken, Go, Hold
<1>2. /\ handle' \in [Jobs -> Refs] /\ origin' \in [Jobs -> {"none", "open", "ended"}]
  BY DEF AsyncInv, TypeOK, AsyncTypes, StartDisabled, StartSpan, Capture, EndOrigin, NoToken, Go, Hold, Refs
<1>3. (TypeOK /\ AsyncTypes)'
  BY <1>1, <1>2 DEF AsyncInv, TypeOK, AsyncTypes, work, Refs
<1>4. ASSUME NEW i \in Jobs PROVE Captured(i)'
  <2>1. CASE i # j
    BY <1>1, <2>1 DEF AsyncInv, Captured, OwnRef
  <2>2. CASE i = j
    BY <1>1, <2>2 DEF AsyncInv, TypeOK, AsyncTypes, Captured, OwnRef, Ref, Invalid, Disabled, Refs,
       StartDisabled, StartSpan, Capture, EndOrigin, NoToken, Go, Hold
  <2> QED
    BY <2>1, <2>2
<1>5. Traced'
  BY <1>1 DEF AsyncInv, Traced, Made, DeliveryIds, Busy, work, Delivery
<1>6. (OnePlace /\ ResultFirst)'
  BY <1>1 DEF AsyncInv, OnePlace, ResultFirst, Busy, Exported, Delivery, work
<1>7. AckedIsRecorded'
  BY <1>1 DEF AsyncInv, AckedIsRecorded, NilMeansRecorded, RefusedLeavesNothing, Traced, Made, DeliveryIds, work
<1> QED
  BY <1>3, <1>4, <1>5, <1>6, <1>7 DEF AsyncInv

\* A token of a delivery that is nowhere yet may be put into the queue.
LEMMA NewTokenKeeps ==
  ASSUME AsyncInv, NEW t \in Tokens, queue' = queue \cup {t},
         UNCHANGED <<consumer, pc, held, exported, settled>>,
         \A u \in queue : Delivery(u) # Delivery(t),
         \A w \in Busy : Delivery(held[w]) # Delivery(t),
         \A s \in settled \cup exported : s.delivery # Delivery(t)
  PROVE  (OnePlace /\ ResultFirst)'
<1>1. OnePlace'
  BY DEF AsyncInv, OnePlace, Busy, Delivery
<1>2. ResultFirst'
  BY DEF AsyncInv, ResultFirst, Exported, Busy, Delivery
<1> QED
  BY <1>1, <1>2

LEMMA SendKeeps == ASSUME AsyncInv, NEW j \in Jobs, Send(j) PROVE AsyncInv'
<1>1. /\ stage[j] = "returned" /\ stage' = [stage EXCEPT ![j] = "sent"]
      /\ handle[j] = OwnRef(j) /\ UNCHANGED <<producer, tracing, caller, origin, handle>>
      /\ queue' = queue \cup {Token(j, 1)} /\ deliveries' = [deliveries EXCEPT ![j] = 1]
      /\ UNCHANGED <<consumer, pc, held, exported, settled>>
  BY DEF Send, Go, Marshals, AsyncInv, Captured, Invalid, Disabled
<1>2. Token(j, 1) \in Tokens /\ 1 \in 0..MaxDeliveries /\ Delivery(Token(j, 1)) = <<j, 1>>
  BY MaxDeliveriesAssumption DEF Token, Tokens, Delivery
<1>3. (TypeOK /\ AsyncTypes)'
  BY <1>1, <1>2 DEF AsyncInv, TypeOK, AsyncTypes, Refs
<1>4. ASSUME NEW i \in Jobs PROVE Captured(i)'
  BY <1>1 DEF AsyncInv, TypeOK, Captured, OwnRef
<1>5. \A d : Made(d) => d[1] # j /\ Made(d)'
  BY <1>1 DEF Made, DeliveryIds, AsyncInv, TypeOK
<1>6. Made(<<j, 1>>)'
  BY <1>1, <1>2, MaxDeliveriesAssumption DEF Made, DeliveryIds, AsyncInv, TypeOK
<1>7. Traced'
  <2>1. \A t \in queue' : Made(Delivery(t))'
    BY <1>1, <1>2, <1>5, <1>6 DEF AsyncInv, Traced, Delivery
  <2> QED
    BY <1>1, <1>5, <2>1 DEF AsyncInv, Traced, Busy, Delivery
<1>8. (OnePlace /\ ResultFirst)'
  <2>1. /\ \A u \in queue : Delivery(u) # Delivery(Token(j, 1))
        /\ \A w \in Busy : Delivery(held[w]) # Delivery(Token(j, 1))
        /\ \A s \in settled \cup exported : s.delivery # Delivery(Token(j, 1))
    BY <1>2, <1>5 DEF AsyncInv, Traced
  <2> QED
    BY <1>1, <1>2, <2>1, NewTokenKeeps
<1>9. AckedIsRecorded'
  BY <1>1, <1>5 DEF AsyncInv, AckedIsRecorded, NilMeansRecorded, RefusedLeavesNothing, Traced, Made
<1> QED
  BY <1>3, <1>4, <1>7, <1>8, <1>9 DEF AsyncInv

\* Another delivery of a job whose token was sent: nothing has its number yet.
LEMMA NextDeliveryKeeps ==
  ASSUME AsyncInv, NEW j \in Jobs, stage[j] = "sent", deliveries[j] < MaxDeliveries,
         NEW n, n = deliveries[j] + 1
  PROVE  /\ n \in 1..MaxDeliveries
         /\ \A d : Made(d) => d # <<j, n>>
         /\ deliveries' = [deliveries EXCEPT ![j] = @ + 1] /\ UNCHANGED start =>
              /\ deliveries' \in [Jobs -> 0..MaxDeliveries]
              /\ \A d : Made(d) => Made(d)'
              /\ Made(<<j, n>>)'
              /\ \A i \in Jobs : Captured(i)'
<1>1. deliveries \in [Jobs -> 0..MaxDeliveries] /\ MaxDeliveries \in Nat
  BY MaxDeliveriesAssumption DEF AsyncInv, TypeOK
<1>2. n \in 1..MaxDeliveries
  BY <1>1
<1>3. \A d : Made(d) => d # <<j, n>>
  BY <1>1 DEF Made, DeliveryIds
<1>4. ASSUME deliveries' = [deliveries EXCEPT ![j] = @ + 1], UNCHANGED start
      PROVE  /\ deliveries' \in [Jobs -> 0..MaxDeliveries]
             /\ \A d : Made(d) => Made(d)'
             /\ Made(<<j, n>>)'
  <2>1. deliveries' \in [Jobs -> 0..MaxDeliveries] /\ deliveries'[j] = deliveries[j] + 1
        /\ \A i \in Jobs : i # j => deliveries'[i] = deliveries[i]
    BY <1>1, <1>2, <1>4
  <2>2. UNCHANGED stage
    BY <1>4 DEF start
  <2>3. ASSUME NEW d, Made(d) PROVE Made(d)'
    <3>1. d[1] \in Jobs /\ d[2] \in Nat /\ d[2] <= deliveries[d[1]]
      BY <2>3, MaxDeliveriesAssumption DEF Made, DeliveryIds
    <3>2. deliveries[d[1]] <= deliveries'[d[1]]
      BY <1>1, <2>1, <3>1
    <3> QED
      BY <1>1, <2>1, <2>2, <2>3, <3>1, <3>2 DEF Made
  <2> QED
    BY <1>2, <2>1, <2>2, <2>3 DEF Made, DeliveryIds
<1>5. UNCHANGED start => \A i \in Jobs : Captured(i)'
  BY DEF AsyncInv, Captured, OwnRef, start
<1> QED
  BY <1>2, <1>3, <1>4, <1>5

LEMMA DuplicateKeeps == ASSUME AsyncInv, NEW j \in Jobs, Duplicate(j) PROVE AsyncInv'
<1> PICK n : n = deliveries[j] + 1
  OBVIOUS
<1> PICK t : t = Token(j, n)
  OBVIOUS
<1>1. /\ stage[j] = "sent" /\ deliveries[j] < MaxDeliveries
      /\ deliveries' = [deliveries EXCEPT ![j] = @ + 1] /\ queue' = queue \cup {t}
      /\ UNCHANGED <<start, consumer, pc, held, exported, settled>>
  BY DEF Duplicate
<1>2. t \in Tokens /\ Delivery(t) = <<j, n>>
  BY <1>1, NextDeliveryKeeps DEF Token, Tokens, Delivery
<1>3. /\ deliveries' \in [Jobs -> 0..MaxDeliveries] /\ \A i \in Jobs : Captured(i)'
      /\ \A d : Made(d) => Made(d)'
      /\ Made(Delivery(t))'
  BY <1>1, <1>2, NextDeliveryKeeps DEF start
<1>4. (TypeOK /\ AsyncTypes)'
  BY <1>1, <1>2, <1>3 DEF AsyncInv, TypeOK, AsyncTypes, start, Refs
<1>5. Traced'
  <2>1. \A u \in queue' : Made(Delivery(u))'
    BY <1>1, <1>3 DEF AsyncInv, Traced, Delivery
  <2> QED
    BY <1>1, <1>3, <2>1 DEF AsyncInv, Traced, Busy, Delivery, start
<1>6. (OnePlace /\ ResultFirst)'
  <2>1. /\ \A u \in queue : Delivery(u) # Delivery(t)
        /\ \A w \in Busy : Delivery(held[w]) # Delivery(t)
        /\ \A s \in settled \cup exported : s.delivery # Delivery(t)
    BY <1>1, <1>2, NextDeliveryKeeps DEF AsyncInv, Traced
  <2> QED
    BY <1>1, <1>2, <2>1, NewTokenKeeps
<1>7. AckedIsRecorded'
  BY <1>1 DEF AsyncInv, AckedIsRecorded, NilMeansRecorded, RefusedLeavesNothing, start
<1> QED
  BY <1>3, <1>4, <1>5, <1>6, <1>7 DEF AsyncInv

LEMMA QueueKeeps == ASSUME AsyncInv, NEW t \in queue, Damage(t) \/ Lose(t) PROVE AsyncInv'
<1> DEFINE u == [t EXCEPT !.whole = FALSE]
<1>1. /\ queue' \subseteq (queue \ {t}) \cup {u}
      /\ UNCHANGED <<start, deliveries, consumer, pc, held, exported, settled>>
  BY DEF Damage, Lose
<1>2. t \in Tokens /\ u \in Tokens /\ Delivery(u) = Delivery(t)
  BY DEF AsyncInv, TypeOK, Tokens, Delivery
<1> HIDE DEF u
<1>3. (TypeOK /\ AsyncTypes)'
  BY <1>1, <1>2 DEF AsyncInv, TypeOK, AsyncTypes, start, Refs
<1>4. (\A j \in Jobs : Captured(j))'
  BY <1>1 DEF AsyncInv, Captured, OwnRef, start
<1>5. Traced'
  BY <1>1, <1>2 DEF AsyncInv, Traced, Made, Busy, start, Delivery
<1>6. \A x \in queue' : (x \in queue /\ x # t) \/ x = u
  BY <1>1
<1>7. (OnePlace /\ ResultFirst)'
  BY <1>1, <1>2, <1>6 DEF AsyncInv, OnePlace, ResultFirst, Exported, Busy, Delivery
<1>8. AckedIsRecorded'
  BY <1>1 DEF AsyncInv, AckedIsRecorded, NilMeansRecorded, RefusedLeavesNothing, start
<1> QED
  BY <1>3, <1>4, <1>5, <1>7, <1>8 DEF AsyncInv

LEMMA TakeKeeps == ASSUME AsyncInv, NEW w \in Workers, NEW t \in queue, Take(w, t) PROVE AsyncInv'
<1>1. /\ pc[w] = "idle" /\ pc' = [pc EXCEPT ![w] = "token"]
      /\ queue' = queue \ {t} /\ held' = [held EXCEPT ![w] = t]
      /\ UNCHANGED <<start, deliveries, consumer, exported, settled>>
  BY DEF Take, At
<1>2. t \in Tokens /\ w \notin Busy /\ Busy' = Busy \cup {w} /\ pc'[w] = "token" /\ held'[w] = t
      /\ \A v \in Workers : v # w => pc'[v] = pc[v] /\ held'[v] = held[v]
  BY <1>1 DEF AsyncInv, TypeOK, AsyncTypes, Busy
<1>3. (TypeOK /\ AsyncTypes)'
  BY <1>1, <1>2 DEF AsyncInv, TypeOK, AsyncTypes, start, Refs
<1>4. (\A j \in Jobs : Captured(j))'
  BY <1>1 DEF AsyncInv, Captured, OwnRef, start
<1>5. Traced'
  BY <1>1, <1>2 DEF AsyncInv, Traced, Made, start, Delivery, Busy
<1>6. OnePlace'
  BY <1>1, <1>2 DEF AsyncInv, OnePlace, Delivery, Busy
<1>7. ResultFirst'
  BY <1>1, <1>2 DEF AsyncInv, ResultFirst, Exported, Delivery, Busy
<1>8. AckedIsRecorded'
  BY <1>1 DEF AsyncInv, AckedIsRecorded, NilMeansRecorded, RefusedLeavesNothing, start
<1> QED
  BY <1>3, <1>4, <1>5, <1>6, <1>7, <1>8 DEF AsyncInv

\* A worker that handles its token touches nothing but its own place, until it
\* ends the result.
LEMMA HandleKeeps ==
  ASSUME AsyncInv, NEW w \in Workers, Parse(w) \/ Drop(w) \/ Refuse(w) \/ Begin(w)
  PROVE  AsyncInv'
<1>1. /\ pc[w] \in {"token", "parsed"} /\ UNCHANGED <<start, queue, deliveries, consumer, held, exported, settled>>
      /\ pc' = [pc EXCEPT ![w] = pc'[w]] /\ pc'[w] \in {"parsed", "nack", "ack", "span"}
      /\ pc'[w] = "ack" => consumer = "noop"
  BY DEF AsyncInv, TypeOK, Parse, Drop, Refuse, Begin, At
<1>2. Busy' = Busy /\ w \in Busy /\ \A v \in Workers : v # w => pc'[v] = pc[v]
  BY <1>1 DEF AsyncInv, TypeOK, Busy
<1>3. (TypeOK /\ AsyncTypes)'
  BY <1>1 DEF AsyncInv, TypeOK, AsyncTypes, start, Refs
<1>4. (\A j \in Jobs : Captured(j))'
  BY <1>1 DEF AsyncInv, Captured, OwnRef, start
<1>5. Traced' /\ OnePlace'
  BY <1>1, <1>2 DEF AsyncInv, Traced, OnePlace, Made, start, Delivery
<1>6. ResultFirst'
  BY <1>1, <1>2 DEF AsyncInv, AsyncTypes, ResultFirst, Exported, Delivery, Busy
<1>7. AckedIsRecorded'
  BY <1>1 DEF AsyncInv, AckedIsRecorded, NilMeansRecorded, RefusedLeavesNothing, start
<1> QED
  BY <1>3, <1>4, <1>5, <1>6, <1>7 DEF AsyncInv

\* The end of a result span exports it before the worker answers.
LEMMA EndKeeps == ASSUME AsyncInv, NEW w \in Workers, End(w) PROVE AsyncInv'
<1> DEFINE d == Delivery(held[w])
           made == [delivery |-> d, link |-> handle[held[w].job]]
<1>1. /\ pc[w] = "span" /\ pc' = [pc EXCEPT ![w] = "ack"] /\ exported' = exported \cup {made}
      /\ UNCHANGED <<start, queue, deliveries, consumer, held, settled>>
  BY DEF End, At, Delivery
<1>2. /\ w \in Busy /\ Busy' = Busy /\ pc'[w] = "ack"
      /\ \A v \in Workers : v # w => pc'[v] = pc[v]
  BY <1>1 DEF AsyncInv, TypeOK, Busy
<1>3. Made(d) /\ d[1] = held[w].job
  BY <1>2 DEF AsyncInv, Traced, Delivery
<1>4. /\ made.delivery = d /\ made.link = handle[d[1]] /\ d \in DeliveryIds
      /\ made.link \in Refs \ {Disabled, Invalid}
  BY <1>3 DEF Made, DeliveryIds, AsyncInv, Captured, AsyncTypes, OwnRef, Ref, Disabled, Invalid
<1> HIDE DEF d, made
<1>5. (TypeOK /\ AsyncTypes)'
  BY <1>1, <1>4 DEF AsyncInv, TypeOK, AsyncTypes, start, Refs
<1>6. (\A j \in Jobs : Captured(j))'
  BY <1>1 DEF AsyncInv, Captured, OwnRef, start
<1>7. Traced'
  BY <1>1, <1>2, <1>3, <1>4 DEF AsyncInv, Traced, Made, start, Delivery
<1>8. OnePlace'
  BY <1>1, <1>2 DEF AsyncInv, OnePlace, Delivery
<1>9. \A delivery : Exported(delivery)' <=> Exported(delivery) \/ delivery = d
  BY <1>1, <1>4 DEF Exported
<1>10. ResultFirst'
  <2>1. /\ \A t \in queue : Delivery(t) # d
        /\ \A v \in Busy : v # w => Delivery(held[v]) # d
    BY <1>2 DEF d, AsyncInv, OnePlace
  <2> QED
    BY <1>1, <1>2, <1>9, <2>1 DEF AsyncInv, ResultFirst, Delivery, Busy, d
<1>11. AckedIsRecorded'
  <2>1. \A s \in settled : s.delivery # d
    BY <1>2 DEF d, AsyncInv, OnePlace
  <2> QED
    BY <1>1, <1>4, <2>1 DEF AsyncInv, AckedIsRecorded, NilMeansRecorded, RefusedLeavesNothing, start
<1> QED
  BY <1>5, <1>6, <1>7, <1>8, <1>10, <1>11 DEF AsyncInv

\* A worker settles a token once it was answered, so that an acknowledged one has its span.
LEMMA SettleKeeps == ASSUME AsyncInv, NEW w \in Workers, Settle(w) PROVE AsyncInv'
<1> PICK how \in {"ack", "nack"} :
      /\ pc[w] = how /\ pc' = [pc EXCEPT ![w] = "idle"]
      /\ settled' = settled \cup {[delivery |-> <<held[w].job, held[w].n>>, how |-> how]}
  BY DEF Settle, At
<1> PICK d : d = Delivery(held[w])
  OBVIOUS
<1> PICK answer : answer = [delivery |-> d, how |-> how]
  OBVIOUS
<1>1. /\ settled' = settled \cup {answer} /\ answer.delivery = d /\ answer.how = how
      /\ held' = [held EXCEPT ![w] = Idle]
      /\ UNCHANGED <<start, queue, deliveries, consumer, exported>>
  BY DEF Settle, Delivery
<1>2. /\ w \in Busy /\ Busy' = Busy \ {w}
      /\ \A v \in Busy' : v \in Busy /\ v # w /\ pc'[v] = pc[v] /\ held'[v] = held[v]
  BY <1>1 DEF AsyncInv, TypeOK, AsyncTypes, Busy
<1>3. Made(d)
  BY <1>2 DEF AsyncInv, Traced
<1>4. (TypeOK /\ AsyncTypes)'
  BY <1>1, <1>3 DEF AsyncInv, TypeOK, AsyncTypes, start, Refs, Made
<1>5. (\A j \in Jobs : Captured(j))'
  BY <1>1 DEF AsyncInv, Captured, OwnRef, start
<1>6. Traced'
  BY <1>1, <1>2, <1>3 DEF AsyncInv, Traced, Made, start, Delivery
<1>7. OnePlace'
  BY <1>1, <1>2 DEF AsyncInv, OnePlace, Delivery
<1>8. ResultFirst'
  <2>1. \A x : Exported(x)' <=> Exported(x)
    BY <1>1 DEF Exported
  <2> QED
    BY <1>1, <1>2, <2>1 DEF AsyncInv, ResultFirst, Delivery
<1>9. AckedIsRecorded'
  <2>1. /\ how = "ack" /\ consumer = "tracker" => Exported(d)
        /\ how = "nack" => ~Exported(d)
    BY <1>2 DEF AsyncInv, ResultFirst, Busy
  <2> QED
    BY <1>1, <1>3, <2>1 DEF AsyncInv, AckedIsRecorded, NilMeansRecorded, RefusedLeavesNothing, Exported, Made, start
<1> QED
  BY <1>4, <1>5, <1>6, <1>7, <1>8, <1>9 DEF AsyncInv

\* The token of a worker that died comes again as another delivery.
LEMMA CrashKeeps == ASSUME AsyncInv, NEW w \in Workers, Crash(w) PROVE AsyncInv'
<1> PICK j : j = held[w].job
  OBVIOUS
<1> PICK n : n = deliveries[j] + 1
  OBVIOUS
<1> PICK t : t = [held[w] EXCEPT !.n = n]
  OBVIOUS
<1>1. /\ pc[w] # "idle" /\ pc' = [pc EXCEPT ![w] = "idle"] /\ held' = [held EXCEPT ![w] = Idle]
      /\ deliveries[j] < MaxDeliveries /\ deliveries' = [deliveries EXCEPT ![j] = @ + 1]
      /\ queue' = queue \cup {t} /\ UNCHANGED <<start, consumer, exported, settled>>
  BY DEF Crash
<1>2. /\ w \in Busy /\ Busy' = Busy \ {w}
      /\ \A v \in Busy' : v \in Busy /\ v # w /\ pc'[v] = pc[v] /\ held'[v] = held[v]
  BY <1>1 DEF AsyncInv, TypeOK, AsyncTypes, Busy
<1>3. held[w] \in Tokens /\ j \in Jobs /\ stage[j] = "sent"
  BY <1>2 DEF AsyncInv, ResultFirst, Traced, Made, DeliveryIds, Delivery
<1>4. /\ n \in 1..MaxDeliveries /\ \A d : Made(d) => d # <<j, n>>
      /\ deliveries' \in [Jobs -> 0..MaxDeliveries] /\ \A i \in Jobs : Captured(i)'
      /\ \A d : Made(d) => Made(d)'
      /\ Made(<<j, n>>)'
  BY <1>1, <1>3, NextDeliveryKeeps DEF start
<1>5. t \in Tokens /\ Delivery(t) = <<j, n>>
  BY <1>3, <1>4 DEF Tokens, Delivery
<1>6. (TypeOK /\ AsyncTypes)'
  BY <1>1, <1>4, <1>5 DEF AsyncInv, TypeOK, AsyncTypes, start, Refs
<1>7. Traced'
  <2>1. \A u \in queue' : Made(Delivery(u))'
    BY <1>1, <1>4, <1>5 DEF AsyncInv, Traced, Delivery
  <2> QED
    BY <1>1, <1>2, <1>4, <2>1 DEF AsyncInv, Traced, Delivery, start
<1>8. (OnePlace /\ ResultFirst)'
  <2>1. /\ \A u \in queue : Delivery(u) # Delivery(t)
        /\ \A v \in Busy : Delivery(held[v]) # Delivery(t)
        /\ \A s \in settled \cup exported : s.delivery # Delivery(t)
    BY <1>4, <1>5 DEF AsyncInv, Traced
  <2>2. \A u \in queue' : u \in queue \/ u = t
    BY <1>1
  <2>3. OnePlace'
    <3>1. \A x, y \in queue' : Delivery(x) = Delivery(y) => x = y
      BY <2>1, <2>2 DEF AsyncInv, OnePlace
    <3>2. \A v \in Busy', x \in queue' : Delivery(x) # Delivery(held[v])
      BY <1>2, <2>1, <2>2 DEF AsyncInv, OnePlace
    <3>3. \A s \in settled, x \in queue' : s.delivery # Delivery(x)
      BY <2>1, <2>2 DEF AsyncInv, OnePlace
    <3> QED
      BY <1>1, <1>2, <3>1, <3>2, <3>3 DEF AsyncInv, OnePlace, Delivery
  <2>4. \A x : Exported(x)' <=> Exported(x)
    BY <1>1 DEF Exported
  <2>5. ~Exported(Delivery(t))
    BY <2>1 DEF Exported
  <2>6. ResultFirst'
    BY <1>1, <1>2, <2>2, <2>4, <2>5 DEF AsyncInv, ResultFirst, Delivery
  <2> QED
    BY <2>3, <2>6
<1>9. AckedIsRecorded'
  BY <1>1 DEF AsyncInv, AckedIsRecorded, NilMeansRecorded, RefusedLeavesNothing, start
<1> QED
  BY <1>4, <1>6, <1>7, <1>8, <1>9 DEF AsyncInv

LEMMA AsyncStep == AsyncInv /\ [Next]_vars => AsyncInv'
<1> SUFFICES ASSUME AsyncInv, [Next]_vars PROVE AsyncInv'
  OBVIOUS
<1>1. CASE \E j \in Jobs : Producer(j) \/ Duplicate(j)
  BY <1>1, PreparingKeeps, SendKeeps, DuplicateKeeps DEF Producer
<1>2. CASE \E t \in queue : Damage(t) \/ Lose(t)
  BY <1>2, QueueKeeps
<1>3. CASE \E w \in Workers : Worker(w) \/ Crash(w)
  BY <1>3, TakeKeeps, HandleKeeps, EndKeeps, SettleKeeps, CrashKeeps DEF Worker
<1>4. CASE UNCHANGED vars
  <2>1. (TypeOK /\ AsyncTypes /\ \A j \in Jobs : Captured(j))'
    BY <1>4 DEF vars, AsyncInv, TypeOK, AsyncTypes, Captured, OwnRef
  <2>2. Traced'
    BY <1>4 DEF vars, AsyncInv, Traced, Made, Busy, Delivery
  <2>3. (OnePlace /\ ResultFirst)'
    BY <1>4 DEF vars, AsyncInv, OnePlace, ResultFirst, Exported, Busy, Delivery
  <2>4. AckedIsRecorded'
    BY <1>4 DEF vars, AsyncInv, AckedIsRecorded, NilMeansRecorded, RefusedLeavesNothing
  <2> QED
    BY <2>1, <2>2, <2>3, <2>4 DEF AsyncInv
<1> QED
  BY <1>1, <1>2, <1>3, <1>4 DEF Next

LEMMA AsyncAlways == Spec => []AsyncInv
<1> QED
  BY AsyncInit, AsyncStep, PTL DEF Spec

\* Every result that is ever exported is linked to the operation its own token was
\* made of, which was recorded and is over (genai/async.go), for any number of jobs,
\* workers and deliveries.
THEOREM ResultsContinueTheirOrigin == Spec => []ContinuesItsOrigin
<1> QED
  BY AsyncAlways, AsyncInvImplies, PTL

\* What the queue is told of a delivery is what happened to it: nil if and only if
\* its result is there, however often a token comes and wherever a worker dies.
THEOREM AcknowledgementsAreTrue == Spec => []AckedIsRecorded
<1> QED
  BY AsyncAlways, AsyncInvImplies, PTL

\* A job whose token left keeps the handle it was made of: no later step of anyone
\* changes what a token refers to.
THEOREM TokensKeepTheirMeaning ==
  Spec => [][\A j \in Jobs : stage[j] = "sent" => stage'[j] = "sent" /\ handle'[j] = handle[j]]_vars
<1> DEFINE Kept == \A j \in Jobs : stage[j] = "sent" => stage'[j] = "sent" /\ handle'[j] = handle[j]
<1>1. ASSUME AsyncInv, [Next]_vars PROVE [Kept]_vars
  <2>1. CASE \E j \in Jobs : Producer(j) \/ Duplicate(j)
    <3>1. ASSUME NEW j \in Jobs, Producer(j)
          PROVE  /\ stage[j] # "sent"
                 /\ \A i \in Jobs : i # j => stage'[i] = stage[i] /\ handle'[i] = handle[i]
      <4>1. stage \in [Jobs -> {"called", "started", "captured", "returned", "refused", "sent"}]
            /\ handle \in [Jobs -> Refs]
        BY <1>1 DEF AsyncInv, TypeOK, AsyncTypes
      <4> QED
        BY <3>1, <4>1 DEF Producer, StartDisabled, StartSpan, Capture, EndOrigin, NoToken, Send, Go, Hold
    <3>2. ASSUME NEW j \in Jobs, Duplicate(j) PROVE UNCHANGED <<stage, handle>>
      BY <3>2 DEF Duplicate, start
    <3> QED
      BY <2>1, <3>1, <3>2
  <2>2. CASE \E t \in queue : Damage(t) \/ Lose(t)
    BY <2>2 DEF Damage, Lose, start
  <2>3. CASE \E w \in Workers : Worker(w) \/ Crash(w)
    BY <2>3 DEF Worker, Take, Parse, Drop, Refuse, Begin, End, Settle, Crash, start
  <2>4. CASE UNCHANGED vars
    BY <2>4
  <2> QED
    BY <1>1, <2>1, <2>2, <2>3, <2>4 DEF Next
<1> QED
  BY <1>1, AsyncAlways, PTL DEF Spec

-----------------------------------------------------------------------------
InHand(s) == sending[s] \in {"accepting", "storing", "recording"}

\* What is stored is the sink's own, and what was committed under its identity.
Committed ==
  /\ DOMAIN measurements = Ids /\ DOMAIN committed = Ids
  /\ \A i \in Ids : measurements[i] # None =>
       measurements[i].owner = NoSender /\ committed[i] = <<Stored(i)>>

\* What a sender holds while a call is under way is valid, and agrees with what is
\* stored once the lock is held.
Checked ==
  /\ DOMAIN evaluation = Senders
  /\ \A s \in Senders :
       /\ InHand(s) => Valid(evaluation[s], memory[s])
       /\ sending[s] = "storing" => ~Conflicts(s)
       /\ sending[s] = "recording" => recorder = "tracker"

EvaluationInv ==
  /\ EvaluationTypeOK /\ recorder \in {"tracker", "noop"}
  /\ Committed /\ Checked
  /\ \A v \in told : v.id \in Ids /\ committed[v.id] = <<v>>
  /\ SpansAreResults

\* What is committed is what the sender's evaluation was when accepted; what is exported was committed.
LEMMA EvaluationInvImplies == EvaluationInv => DeliveredAsTheyWere
BY DEF EvaluationInv, Committed, EvaluationTypeOK, DeliveredAsTheyWere, MeasurementsAreFinal, AnswersAreTrue

LEMMA EvaluationInitially == EvaluationInit => EvaluationInv
<1> SUFFICES ASSUME EvaluationInit PROVE EvaluationInv
  OBVIOUS
<1>1. OneMemory \in Memory
  BY DEF OneMemory, Memory
<1>2. EvaluationTypeOK
  BY <1>1, NoSenderAssumption, MaxDeliveredAssumption DEF EvaluationInit, EvaluationTypeOK
<1>3. Committed /\ Checked
  BY DEF EvaluationInit, Committed, Checked, InHand
<1>4. SpansAreResults
  BY DEF EvaluationInit, SpansAreResults
<1> QED
  BY <1>2, <1>3, <1>4 DEF EvaluationInv, EvaluationInit

\* The steps of a sender that leave the sink and the spans alone; what it has in
\* hand is valid when a call begins.
LEMMA SenderKeeps ==
  ASSUME EvaluationInv, NEW s \in Senders,
         \/ Ready(s) \/ Rewrite(s) \/ Accept(s) \/ RecordNothing(s)
         \/ BeginRecord(s) \/ PolicyPanics(s)
  PROVE  EvaluationInv'
<1>1. /\ sending[s] \in {"idle", "held", "recording"} /\ sending' \in [Senders -> {"idle", "held", "accepting", "conflict", "storing", "recording"}]
      /\ sending'[s] \in {"held", "accepting", "recording"}
      /\ \A r \in Senders : r # s => sending'[r] = sending[r]
      /\ UNCHANGED <<recorder, sink, spans, records>>
  BY DEF Ready, Rewrite, Accept, RecordNothing, BeginRecord, PolicyPanics, Move, EvaluationInv, EvaluationTypeOK
<1>2. /\ memory' \in [Senders -> Memory] /\ DOMAIN evaluation' = Senders
      /\ \A r \in Senders : r # s => memory'[r] = memory[r] /\ evaluation'[r] = evaluation[r]
  BY DEF Ready, Rewrite, Accept, RecordNothing, BeginRecord, PolicyPanics, EvaluationInv, EvaluationTypeOK, Checked
<1>3. delivered' \in [Senders -> 0..MaxDelivered]
  BY MaxDeliveredAssumption
     DEF Ready, Rewrite, Accept, RecordNothing, BeginRecord, PolicyPanics, Deliver, EvaluationInv, EvaluationTypeOK
<1>4. /\ InHand(s)' => Valid(evaluation'[s], memory'[s])
      /\ sending'[s] = "recording" => recorder = "tracker"
  BY DEF Ready, Rewrite, Accept, RecordNothing, BeginRecord, PolicyPanics, Deliver, InHand, Move, EvaluationInv, EvaluationTypeOK
<1>5. EvaluationTypeOK'
  BY <1>1, <1>2, <1>3 DEF EvaluationInv, EvaluationTypeOK, sink
<1>6. Committed'
  BY <1>1 DEF EvaluationInv, Committed, Stored, sink
<1>7. Checked'
  <2>1. ASSUME NEW r \in Senders, r # s, sending[r] = "storing" PROVE ~Conflicts(r)'
    <3>1. \A i \in Ids : measurements[i] # None => Stored(i)' = Stored(i)
      BY <1>1 DEF EvaluationInv, Committed, Stored, sink
    <3>2. evaluation[r].id \in Ids
      BY <2>1 DEF EvaluationInv, Checked, InHand, Valid
    <3> QED
      BY <1>1, <1>2, <2>1, <3>1, <3>2 DEF EvaluationInv, Checked, Conflicts, sink
  <2> QED
    BY <1>1, <1>2, <1>4, <2>1 DEF EvaluationInv, Checked, InHand
<1>8. (\A v \in told : v.id \in Ids /\ committed[v.id] = <<v>>)'
  BY <1>1 DEF EvaluationInv, sink
<1>9. SpansAreResults'
  BY <1>1 DEF EvaluationInv, SpansAreResults
<1> QED
  BY <1>1, <1>5, <1>6, <1>7, <1>8, <1>9 DEF EvaluationInv

LEMMA LockKeeps == ASSUME EvaluationInv, NEW s \in Senders, Lock(s) \/ Conflict(s) PROVE EvaluationInv'
<1>1. /\ sending' = [sending EXCEPT ![s] = sending'[s]]
      /\ \/ /\ sending[s] = "accepting" /\ mutex = NoSender /\ mutex' = s
            /\ sending'[s] = IF Conflicts(s) THEN "conflict" ELSE "storing"
         \/ sending[s] = "conflict" /\ mutex' = NoSender /\ sending'[s] = "held"
      /\ UNCHANGED <<recorder, evaluation, memory, delivered, measurements, copies, committed, told, spans, records>>
  BY DEF Lock, Conflict, Move, EvaluationInv, EvaluationTypeOK
<1>2. /\ sending' \in [Senders -> {"idle", "held", "accepting", "conflict", "storing", "recording"}]
      /\ \A r \in Senders : r # s => sending'[r] = sending[r]
  BY <1>1 DEF EvaluationInv, EvaluationTypeOK
<1>3. EvaluationTypeOK'
  BY <1>1, <1>2, NoSenderAssumption DEF EvaluationInv, EvaluationTypeOK
<1>4. (\A i : Stored(i)' = Stored(i)) /\ \A r : Conflicts(r)' = Conflicts(r)
  BY <1>1 DEF Stored, Conflicts
<1>5. Committed'
  BY <1>1, <1>4 DEF EvaluationInv, Committed
<1>6. Checked'
  BY <1>1, <1>2, <1>4 DEF EvaluationInv, Checked, InHand
<1>7. SpansAreResults'
  BY <1>1 DEF EvaluationInv, SpansAreResults
<1> QED
  BY <1>1, <1>3, <1>5, <1>6, <1>7 DEF EvaluationInv

\* Under the lock nothing else is stored, so that an identity keeps what it had.
LEMMA StoreKeeps == ASSUME EvaluationInv, NEW s \in Senders, Store(s) PROVE EvaluationInv'
<1> PICK i : i = evaluation[s].id
  OBVIOUS
<1> PICK v : v = ValueOf(evaluation[s], memory[s])
  OBVIOUS
<1>1. /\ sending[s] = "storing" /\ sending' = [sending EXCEPT ![s] = "held"] /\ mutex' = NoSender
      /\ measurements' = [measurements EXCEPT ![i] = [of |-> evaluation[s], owner |-> NoSender]]
      /\ copies' = [copies EXCEPT ![i] = memory[s]]
      /\ committed' = [committed EXCEPT ![i] = IF @ = None THEN <<v>> ELSE @]
      /\ told' = told \cup {v}
      /\ UNCHANGED <<recorder, evaluation, memory, delivered, spans, records>>
  BY DEF Store, Move, CopyPointers
<1>2. i \in Ids /\ v.id = i
  BY <1>1 DEF EvaluationInv, Checked, InHand, Valid, ValueOf
<1>3. measurements[i] # None => Stored(i) = v
  BY <1>1 DEF EvaluationInv, Checked, Conflicts
<1>4. committed[i] = IF measurements[i] = None THEN None ELSE <<v>>
  BY <1>2, <1>3 DEF EvaluationInv, Committed, EvaluationTypeOK
<1>5. <<v>> # None /\ [of |-> evaluation[s], owner |-> NoSender] # None
  BY DEF None
<1>6. /\ DOMAIN measurements' = Ids /\ DOMAIN committed' = Ids
      /\ measurements'[i] = [of |-> evaluation[s], owner |-> NoSender] /\ committed'[i] = <<v>>
      /\ copies'[i] = memory[s]
      /\ \A k \in Ids : k # i => /\ measurements'[k] = measurements[k] /\ committed'[k] = committed[k]
                                 /\ copies'[k] = copies[k]
  BY <1>1, <1>2, <1>4, <1>5 DEF EvaluationInv, Committed, EvaluationTypeOK
<1>7. EvaluationTypeOK'
  BY <1>1, <1>2, <1>5, <1>6, NoSenderAssumption DEF EvaluationInv, EvaluationTypeOK
<1>8. \A k \in Ids : measurements[k] # None /\ k # i => Stored(k)' = Stored(k)
  BY <1>1, <1>6 DEF EvaluationInv, Committed, Stored
<1>9. Stored(i)' = v
  BY <1>1, <1>6 DEF Stored
<1>10. Committed'
  BY <1>6, <1>8, <1>9 DEF EvaluationInv, Committed
<1>11. Checked'
  <2>1. \A r \in Senders : sending'[r] = "storing" => FALSE
    BY <1>1 DEF EvaluationInv, EvaluationTypeOK
  <2> QED
    BY <1>1, <2>1 DEF EvaluationInv, Checked, InHand, EvaluationTypeOK
<1>12. (\A x \in told : x.id \in Ids /\ committed[x.id] = <<x>>)'
  <2>1. ASSUME NEW x \in told PROVE x.id \in Ids /\ committed'[x.id] = <<x>>
    <3>1. <<x>> # None /\ x.id \in Ids /\ committed[x.id] = <<x>>
      BY <2>1 DEF None, EvaluationInv
    <3>2. CASE x.id = i
      BY <1>4, <1>6, <3>1, <3>2
    <3> QED
      BY <1>6, <3>1, <3>2
  <2> QED
    BY <1>1, <1>2, <1>6, <2>1
<1>13. SpansAreResults'
  BY <1>1 DEF EvaluationInv, SpansAreResults
<1> QED
  BY <1>1, <1>7, <1>10, <1>11, <1>12, <1>13 DEF EvaluationInv

LEMMA EndRecordKeeps == ASSUME EvaluationInv, NEW s \in Senders, EndRecord(s) PROVE EvaluationInv'
<1> PICK x : x = [call |-> <<s, delivered[s]>>, of |-> ValueOf(evaluation[s], memory[s])]
  OBVIOUS
<1>1. /\ sending[s] = "recording" /\ sending' = [sending EXCEPT ![s] = "held"]
      /\ spans' = spans \cup {x} /\ records' = records \cup {x.call}
      /\ UNCHANGED <<recorder, evaluation, memory, delivered, sink>>
  BY DEF EndRecord, Move
<1>2. EvaluationTypeOK'
  BY <1>1, NoSenderAssumption DEF EvaluationInv, EvaluationTypeOK, sink
<1>3. (\A i : Stored(i)' = Stored(i)) /\ \A r : Conflicts(r)' = Conflicts(r)
  BY <1>1 DEF Stored, Conflicts, sink
<1>4. Committed' /\ Checked'
  BY <1>1, <1>3 DEF EvaluationInv, Committed, Checked, InHand, EvaluationTypeOK, sink
<1>5. /\ x.of.id \in Ids /\ x.of.origin \in {"nil", "valid"} /\ x.of.score # "NaN"
      /\ (x.of.score # "nil" \/ x.of.outcome # "") = (x.of.status = "succeeded")
      /\ x.of.score = "nil" \/ x.of.outcome = ""
  <2>1. Valid(evaluation[s], memory[s]) /\ memory[s] \in Memory
    BY <1>1 DEF EvaluationInv, Checked, InHand, EvaluationTypeOK
  <2>2. x.of.id = evaluation[s].id /\ x.of = ValueOf(evaluation[s], memory[s])
    BY DEF ValueOf
  <2>3. /\ x.of.score = "nil" \/ x.of.score = memory[s].score
        /\ x.of.origin = "nil" \/ x.of.origin = memory[s].origin
    BY <2>2 DEF ValueOf
  <2>4. memory[s].score \in {"zero", "one", "NaN"} /\ memory[s].origin \in {"valid", "disabled"}
    BY <2>1 DEF Memory
  <2>5. /\ x.of.id \in Ids /\ x.of.origin # "disabled"
        /\ \/ x.of.status = "succeeded" /\ (x.of.score = "nil") # (x.of.outcome = "") /\ x.of.score # "NaN"
           \/ x.of.status \in {"failed", "skipped"} /\ x.of.score = "nil" /\ x.of.outcome = ""
    BY <2>1, <2>2 DEF Valid
  <2> QED
    BY <2>3, <2>4, <2>5
<1>6. recorder # "noop"
  BY <1>1 DEF EvaluationInv, Checked
<1>7. SpansAreResults'
  <2>1. {y.call : y \in spans'} = records'
    BY <1>1 DEF EvaluationInv, SpansAreResults
  <2>2. \A y \in spans' : y \in spans \/ y = x
    BY <1>1
  <2>3. ASSUME NEW y \in spans'
        PROVE  /\ y.of.id \in Ids /\ y.of.origin \in {"nil", "valid"} /\ y.of.score # "NaN"
               /\ (y.of.score # "nil" \/ y.of.outcome # "") = (y.of.status = "succeeded")
               /\ y.of.score = "nil" \/ y.of.outcome = ""
    <3>1. CASE y = x
      BY <1>5, <3>1
    <3>2. CASE y \in spans
      BY <3>2 DEF EvaluationInv, SpansAreResults
    <3> QED
      BY <2>2, <3>1, <3>2
  <2>4. recorder' # "noop"
    BY <1>1, <1>6
  <2> QED
    BY <2>1, <2>3, <2>4 DEF SpansAreResults
<1> QED
  BY <1>1, <1>2, <1>4, <1>7 DEF EvaluationInv, sink

LEMMA EvaluationStep == EvaluationInv /\ [EvaluationNext]_evaluationVars => EvaluationInv'
<1> SUFFICES ASSUME EvaluationInv, [EvaluationNext]_evaluationVars PROVE EvaluationInv'
  OBVIOUS
<1>1. CASE EvaluationNext
  BY <1>1, SenderKeeps, LockKeeps, StoreKeeps, EndRecordKeeps DEF EvaluationNext
<1>2. CASE UNCHANGED evaluationVars
  <2>1. EvaluationTypeOK' /\ SpansAreResults'
    BY <1>2 DEF evaluationVars, EvaluationInv, EvaluationTypeOK, SpansAreResults
  <2>2. (Committed /\ Checked)'
    BY <1>2 DEF evaluationVars, EvaluationInv, Committed, Checked, Stored, Conflicts, InHand
  <2> QED
    BY <1>2, <2>1, <2>2 DEF evaluationVars, EvaluationInv
<1> QED
  BY <1>1, <1>2

\* What a sender delivered is stored once and never rewritten, and what is exported
\* of it is one whole result for each call that succeeded (examples/observation_mapping
\* and genai/evals.go), for any number of senders that share an identity.
THEOREM EvaluationsAreDelivered == EvaluationSpec => []DeliveredAsTheyWere
<1> QED
  BY EvaluationInitially, EvaluationStep, EvaluationInvImplies, PTL DEF EvaluationSpec

\* Nothing that is committed under an identity is ever changed or taken away, by no
\* step of any sender.
THEOREM CommitmentsStand ==
  EvaluationSpec =>
    [][\A i \in Ids : committed[i] # None => committed'[i] = committed[i] /\ Stored(i)' = Stored(i)]_evaluationVars
<1> DEFINE Stands == \A i \in Ids : committed[i] # None => committed'[i] = committed[i] /\ Stored(i)' = Stored(i)
<1>1. ASSUME EvaluationInv, EvaluationInv', [EvaluationNext]_evaluationVars PROVE [Stands]_evaluationVars
  <2>1. ASSUME NEW i \in Ids, committed[i] # None PROVE committed'[i] = committed[i]
    <3>1. CASE \E s \in Senders : Store(s)
      BY <1>1, <2>1, <3>1 DEF Store, EvaluationInv, Committed
    <3>2. CASE ~\E s \in Senders : Store(s)
      BY <1>1, <3>2 DEF EvaluationNext, evaluationVars, Ready, Rewrite, Accept, Lock, Conflict, RecordNothing,
                        BeginRecord, PolicyPanics, EndRecord, sink
    <3> QED
      BY <3>1, <3>2
  <2>2. ASSUME NEW i \in Ids, committed[i] # None PROVE Stored(i)' = Stored(i)
    <3>1. committed[i] = <<Stored(i)>> /\ committed'[i] = <<Stored(i)'>>
      BY <1>1, <2>1, <2>2 DEF EvaluationInv, Committed, EvaluationTypeOK
    <3> QED
      BY <2>1, <2>2, <3>1
  <2> QED
    BY <2>1, <2>2
<1>2. EvaluationSpec => []EvaluationInv
  BY EvaluationInitially, EvaluationStep, PTL DEF EvaluationSpec
<1> QED
  BY <1>1, <1>2, PTL DEF EvaluationSpec

-----------------------------------------------------------------------------
\* What an evaluation can say when it is accepted.
Evaluations == Handmade \cup {Mapped(a) : a \in Assessments}
ValidResults == {ValueOf(x[1], x[2]) : x \in {y \in Evaluations \X Memory : Valid(y[1], y[2])}}

\* A sender that is not idle holds an evaluation, mapped or made by hand.
Holding ==
  /\ DOMAIN evaluation = Senders
  /\ \A s \in Senders : sending[s] # "idle" => evaluation[s] \in Evaluations

\* What senders see: the contents of an identity are decided by the first delivery,
\* and who is told that his own were committed is told the truth.
FirstContents == INSTANCE Decisions WITH
  Keys <- Ids,
  Values <- ValidResults,
  decided <- [i \in Ids |-> IF measurements[i] = None THEN {} ELSE {Stored(i)}],
  told <- {<<v.id, v>> : v \in told}

LEMMA HoldingStep == EvaluationInv /\ Holding /\ [EvaluationNext]_evaluationVars => Holding'
<1> SUFFICES ASSUME EvaluationInv, Holding, [EvaluationNext]_evaluationVars PROVE Holding'
  OBVIOUS
<1> USE DEF EvaluationInv, EvaluationTypeOK, Holding, Move
<1>1. ASSUME NEW s \in Senders, Ready(s) PROVE Holding'
  <2>1. /\ DOMAIN evaluation' = Senders /\ evaluation'[s] \in Evaluations
        /\ \A r \in Senders \ {s} : evaluation'[r] = evaluation[r] /\ sending'[r] = sending[r]
    BY <1>1 DEF Ready, Evaluations
  <2> QED
    BY <2>1
<1>2. ASSUME NEW s \in Senders,
             \/ Rewrite(s) \/ Accept(s) \/ Lock(s) \/ Conflict(s) \/ Store(s)
             \/ RecordNothing(s) \/ BeginRecord(s) \/ PolicyPanics(s) \/ EndRecord(s)
      PROVE  Holding'
  <2>1. evaluation' = evaluation /\ \A r \in Senders : sending'[r] # "idle" => sending[r] # "idle"
    BY <1>2 DEF Rewrite, Accept, Lock, Conflict, Store, RecordNothing, BeginRecord, PolicyPanics, EndRecord
  <2> QED
    BY <2>1
<1>3. CASE UNCHANGED evaluationVars
  BY <1>3 DEF evaluationVars
<1> QED
  BY <1>1, <1>2, <1>3 DEF EvaluationNext

\* The step that stores decides what is open, and otherwise stores, over what is
\* there, the same again.
LEMMA StoreOfFirstContents ==
  ASSUME EvaluationInv, EvaluationInv', Holding, NEW s \in Senders, Store(s)
  PROVE  FirstContents!DecisionsNext
<1> PICK i : i = evaluation[s].id
  OBVIOUS
<1> PICK v : v = ValueOf(evaluation[s], memory[s])
  OBVIOUS
<1>1. /\ sending[s] = "storing"
      /\ measurements' = [measurements EXCEPT ![i] = [of |-> evaluation[s], owner |-> NoSender]]
      /\ copies' = [copies EXCEPT ![i] = memory[s]]
      /\ told' = told \cup {v}
  BY DEF Store, Move, CopyPointers
<1>2. i \in Ids /\ v.id = i /\ Valid(evaluation[s], memory[s])
  BY <1>1 DEF EvaluationInv, Checked, InHand, Valid, ValueOf
<1>3. v \in ValidResults
  <2>1. evaluation[s] \in Evaluations /\ memory[s] \in Memory
    BY <1>1 DEF EvaluationInv, EvaluationTypeOK, Holding
  <2>2. <<evaluation[s], memory[s]>> \in {y \in Evaluations \X Memory : Valid(y[1], y[2])}
    BY <1>2, <2>1
  <2> QED
    BY <2>2 DEF ValidResults
<1>4. measurements[i] # None => Stored(i) = v
  BY <1>1 DEF EvaluationInv, Checked, Conflicts
<1>5. /\ DOMAIN measurements = Ids /\ copies \in [Ids -> Memory]
      /\ [of |-> evaluation[s], owner |-> NoSender] # None
  BY DEF EvaluationInv, Committed, EvaluationTypeOK, None
<1>6. /\ measurements'[i] # None /\ Stored(i)' = v
      /\ \A k \in Ids \ {i} : /\ measurements'[k] = measurements[k]
                              /\ measurements[k] # None => Stored(k)' = Stored(k)
  BY <1>1, <1>2, <1>5 DEF EvaluationInv, Committed, Stored
<1>7. {<<w.id, w>> : w \in told}' = {<<w.id, w>> : w \in told} \cup {<<i, v>>}
  BY <1>1, <1>2
<1>8. CASE measurements[i] = None
  <2>1. FirstContents!Decide(i, v)
    BY <1>2, <1>6, <1>7, <1>8 DEF FirstContents!Decide
  <2> QED
    BY <1>2, <1>3, <2>1 DEF FirstContents!DecisionsNext
<1>9. CASE measurements[i] # None
  <2>1. FirstContents!Tell(i, v)
    BY <1>2, <1>4, <1>6, <1>7, <1>9 DEF FirstContents!Tell
  <2> QED
    BY <1>2, <1>3, <2>1 DEF FirstContents!DecisionsNext
<1> QED
  BY <1>8, <1>9

LEMMA StepOfFirstContents ==
  ASSUME EvaluationInv, EvaluationInv', Holding, [EvaluationNext]_evaluationVars
  PROVE  [FirstContents!DecisionsNext]_FirstContents!decisionVars
<1>1. CASE \E s \in Senders : Store(s)
  BY <1>1, StoreOfFirstContents
<1>2. CASE ~\E s \in Senders : Store(s)
  <2>1. UNCHANGED <<measurements, copies, told>>
    BY <1>2 DEF EvaluationNext, evaluationVars, Ready, Rewrite, Accept, Lock, Conflict, RecordNothing,
                BeginRecord, PolicyPanics, EndRecord, sink
  <2>2. ASSUME NEW i \in Ids, measurements[i] # None PROVE Stored(i)' = Stored(i)
    BY <2>1, <2>2 DEF EvaluationInv, Committed, Stored
  <2> QED
    BY <2>1, <2>2 DEF FirstContents!decisionVars
<1> QED
  BY <1>1, <1>2

\* However often and by however many senders an identity is delivered, with whatever
\* contents and whatever becomes of the acknowledgements, one valid evaluation is
\* stored under it, the first, and only those who delivered that one are told so
\* (measurementSink of examples/observation_mapping).
THEOREM ContentsAreOneDecision == EvaluationSpec => FirstContents!DecisionsSpec
<1>1. EvaluationInit => FirstContents!DecisionsInit /\ Holding
  BY DEF EvaluationInit, FirstContents!DecisionsInit, Holding
<1>2. EvaluationInv /\ EvaluationInv' /\ Holding /\ [EvaluationNext]_evaluationVars
        => [FirstContents!DecisionsNext]_FirstContents!decisionVars
  BY StepOfFirstContents
<1> QED
  BY <1>1, <1>2, HoldingStep, EvaluationInitially, EvaluationStep, PTL
     DEF EvaluationSpec, FirstContents!DecisionsSpec

-----------------------------------------------------------------------------
\* What a run of updates says: in one mode, the sum of all of them, or the last of
\* amounts that never fall.
SumTo(n, sum) ==
  /\ \A k \in 1..n : stream[k].mode = "delta" /\ stream[k].tokens >= 0
  /\ \E sums \in [0..n -> 0..MaxTotal] :
       sums[0] = 0 /\ sums[n] = sum /\ \A k \in 1..n : sums[k] = sums[k - 1] + stream[k].tokens

LastOf(n, last) ==
  /\ \A k \in 1..n : stream[k].mode = "cumulative" /\ stream[k].tokens >= 0
  /\ \A k, l \in 1..n : k <= l => stream[k].tokens <= stream[l].tokens
  /\ n > 0 => last = stream[n].tokens
  /\ n = 0 => last = 0

Says(n, amount) == SumTo(n, amount) \/ LastOf(n, amount)

\* The updates read so far are the first of the stream, and none of them but the
\* last that arrived is the terminal one.
InTurn ==
  /\ \A k \in 1..read : arrived[k] = k /\ (Terminal(k) => k = Len(arrived))
  /\ mapping # "receiving" /\ mapping # "refused" => Finished
  /\ mapping \in {"normalized", "mapped"} => read = Len(arrived)
  /\ mapping = "receiving" => read = 0

WholeStream == mapping \in {"normalized", "mapped"} =>
  arrived = [i \in DOMAIN stream |-> i] /\ Says(Len(stream), total)

MappingInv ==
  /\ MappingTypeOK /\ InTurn /\ Says(read, total)
  /\ UsageIsReported /\ OutcomeIsReported

LEMMA ElementsOfSeq ==
  ASSUME NEW S, NEW seq \in Seq(S)
  PROVE  \A i \in 1..Len(seq) : seq[i] \in S
OBVIOUS

\* The updates of an assumed stream are numbered in its order.
LEMMA StreamsAreUpdates ==
  MappingTypeOK => /\ Len(stream) \in Nat /\ DOMAIN stream = 1..Len(stream)
                   /\ \A i \in DOMAIN stream : stream[i].mode \in STRING /\ stream[i].tokens \in Int /\ stream[i].tokens <= MaxTotal
                   /\ arrived \in Seq(Nat) /\ Len(arrived) \in Nat /\ DOMAIN arrived = 1..Len(arrived)
                   /\ \A k \in 1..Len(arrived) : arrived[k] \in 1..Len(stream)
<1> SUFFICES ASSUME MappingTypeOK
             PROVE  /\ Len(stream) \in Nat /\ DOMAIN stream = 1..Len(stream)
                    /\ \A i \in DOMAIN stream : stream[i].mode \in STRING /\ stream[i].tokens \in Int /\ stream[i].tokens <= MaxTotal
                    /\ arrived \in Seq(Nat) /\ Len(arrived) \in Nat /\ DOMAIN arrived = 1..Len(arrived)
                    /\ \A k \in 1..Len(arrived) : arrived[k] \in 1..Len(stream)
  OBVIOUS
<1>1. stream \in Seq([mode : STRING, tokens : {n \in Int : n <= MaxTotal}])
  BY StreamsAssumption DEF MappingTypeOK
<1>2. arrived \in Seq(DOMAIN stream)
  BY DEF MappingTypeOK
<1>3. Len(stream) \in Nat /\ DOMAIN stream = 1..Len(stream)
  BY <1>1
<1>4. \A i \in 1..Len(stream) : stream[i] \in [mode : STRING, tokens : {n \in Int : n <= MaxTotal}]
  BY <1>1, ElementsOfSeq
<1>5. Len(arrived) \in Nat /\ DOMAIN arrived = 1..Len(arrived) /\ \A k \in 1..Len(arrived) : arrived[k] \in 1..Len(stream)
  BY <1>2, <1>3
<1>6. arrived \in Seq(Nat)
  BY <1>2, <1>3
<1> QED
  BY <1>3, <1>4, <1>5, <1>6

\* A loop that accepted the last update has accepted every one, in turn.
LEMMA WholeStreamIsRead == MappingInv => WholeStream
<1> SUFFICES ASSUME MappingInv, mapping \in {"normalized", "mapped"}
             PROVE  arrived = [i \in DOMAIN stream |-> i] /\ Says(Len(stream), total)
  BY DEF WholeStream
<1>1. /\ Len(stream) \in Nat /\ DOMAIN stream = 1..Len(stream)
      /\ arrived \in Seq(Nat) /\ Len(arrived) \in Nat /\ DOMAIN arrived = 1..Len(arrived)
  BY StreamsAreUpdates DEF MappingInv
<1>2. read = Len(arrived) /\ arrived # <<>> /\ arrived[Len(arrived)] = Len(stream)
  BY DEF MappingInv, InTurn, Finished, Terminal
<1>3. Len(arrived) \in 1..read
  BY <1>1, <1>2
<1>4. Len(arrived) = Len(stream)
  BY <1>2, <1>3 DEF MappingInv, InTurn
<1>5. arrived = [i \in DOMAIN stream |-> i]
  <2>1. \A i \in 1..Len(stream) : arrived[i] = i
    BY <1>2, <1>4 DEF MappingInv, InTurn
  <2>2. arrived = [i \in 1..Len(arrived) |-> arrived[i]]
    BY <1>1
  <2> QED
    BY <1>1, <1>4, <2>1, <2>2
<1> QED
  BY <1>2, <1>4, <1>5 DEF MappingInv

\* Before the first update there is no mode yet.
LEMMA NothingSaid == SumTo(0, 0) /\ LastOf(0, 0) /\ \A n : Says(0, n) => n = 0
<1> DEFINE sums == [i \in 0..0 |-> 0]
<1>1. sums \in [0..0 -> 0..MaxTotal] /\ sums[0] = 0
  BY StreamsAssumption
<1> HIDE DEF sums
<1>2. SumTo(0, 0)
  <2>1. 1..0 = {}
    OBVIOUS
  <2> QED
    BY <1>1, <2>1 DEF SumTo
<1> QED
  BY <1>2 DEF SumTo, LastOf, Says

LEMMA MappingInitially == MappingInit => MappingInv
<1> SUFFICES ASSUME MappingInit PROVE MappingInv
  OBVIOUS
<1>1. MappingTypeOK /\ InTurn
  BY StreamsAssumption DEF MappingInit, MappingTypeOK, InTurn
<1>2. LastOf(0, 0)
  BY DEF LastOf
<1> QED
  BY <1>1, <1>2 DEF MappingInit, MappingInv, Says, UsageIsReported, OutcomeIsReported

LEMMA ReadUpdateKeeps == ASSUME MappingInv, ReadUpdate PROVE MappingInv'
<1> PICK k : k = read + 1
  OBVIOUS
<1>1. /\ mapping = "normalizing" /\ read < Len(arrived) /\ Continues(k) /\ read' = k
      /\ total' = stream[arrived[k]].tokens + IF stream[arrived[k]].mode = "delta" THEN total ELSE 0
      /\ UNCHANGED <<stream, arrived, mapping, readings, ended, result>>
  BY DEF ReadUpdate, Update
<1>2. read \in Nat /\ k \in 1..Len(arrived) /\ k \in Nat /\ 1..k = 1..read \cup {k} /\ total \in 0..MaxTotal /\ MaxTotal \in Nat
  BY <1>1, StreamsAreUpdates, StreamsAssumption DEF MappingInv, MappingTypeOK
<1>3. /\ arrived[k] = k /\ k \in 1..Len(stream) /\ (Terminal(k) => k = Len(arrived))
      /\ stream[k].tokens \in 0..MaxTotal
      /\ stream[k].mode = stream[arrived[1]].mode
      /\ \/ stream[k].mode = "delta" /\ stream[k].tokens <= MaxTotal - total
         \/ stream[k].mode = "cumulative" /\ stream[k].tokens >= total
  <2>1. arrived[k] = k /\ k \in 1..Len(stream)
    BY <1>1, <1>2, StreamsAreUpdates DEF Continues, MappingInv
  <2>2. arrived[1] = 1
    BY <1>2, <2>1 DEF MappingInv, InTurn
  <2>3. stream[k].tokens \in Int /\ stream[k].tokens <= MaxTotal
    BY <2>1, StreamsAreUpdates DEF MappingInv
  <2>4. Terminal(k) => k = Len(arrived)
    BY <1>1 DEF Continues
  <2>5. stream[k].tokens >= 0 /\ stream[k].mode = stream[arrived[1]].mode
    BY <1>1, <2>1 DEF Continues, Update
  <2>6. \/ stream[k].mode = "delta" /\ stream[k].tokens <= MaxTotal - total
        \/ stream[k].mode = "cumulative" /\ stream[k].tokens >= total
    BY <1>1, <2>1 DEF Continues, Update
  <2>7. stream[k].tokens \in 0..MaxTotal
    BY <1>2, <2>3, <2>5
  <2> QED
    BY <2>1, <2>4, <2>5, <2>6, <2>7
<1>4. MappingTypeOK'
  <2>1. total' \in 0..MaxTotal
    <3>1. CASE stream[k].mode = "delta"
      <4>1. total' = stream[k].tokens + total /\ stream[k].tokens <= MaxTotal - total
        BY <1>1, <1>3, <3>1
      <4> QED
        BY <1>2, <1>3, <4>1
    <3>2. CASE stream[k].mode = "cumulative"
      <4>1. total' = stream[k].tokens + 0
        BY <1>1, <1>3, <3>2
      <4> QED
        BY <1>2, <1>3, <4>1
    <3> QED
      BY <1>3, <3>1, <3>2
  <2>2. read' \in 0..Len(arrived)
    BY <1>1, <1>2
  <2> QED
    BY <1>1, <2>1, <2>2 DEF MappingInv, MappingTypeOK
<1>5. InTurn'
  <2>1. UNCHANGED <<stream, arrived, mapping>> /\ mapping = "normalizing"
    BY <1>1
  <2>2. \A i \in 1..k : arrived[i] = i /\ (Terminal(i) => i = Len(arrived))
    BY <1>2, <1>3 DEF MappingInv, InTurn
  <2> QED
    BY <1>1, <1>2, <1>3, <2>1, <2>2 DEF MappingInv, InTurn, Finished, Terminal
<1>6. read > 0 => stream[k].mode = stream[1].mode
  BY <1>2, <1>3 DEF MappingInv, InTurn
<1>7. Says(k, total')
  <2>0. \A i \in 1..k : i \in DOMAIN stream /\ stream[i].tokens \in Int
    <3>1. /\ k <= Len(stream) /\ Len(stream) \in Nat /\ DOMAIN stream = 1..Len(stream)
          /\ \A i \in DOMAIN stream : stream[i].tokens \in Int
      BY <1>3, StreamsAreUpdates DEF MappingInv
    <3>2. \A i \in 1..k : i \in 1..Len(stream)
      BY <1>2, <3>1
    <3> QED
      BY <3>1, <3>2
  <2>1. CASE stream[k].mode = "delta"
    <3>1. SumTo(read, total)
      <4>1. CASE read = 0
        BY <4>1, NothingSaid DEF MappingInv
      <4>2. CASE read > 0
        <5>1. 1 \in 1..read /\ stream[1].mode = "delta"
          BY <1>2, <1>6, <2>1, <4>2
        <5> QED
          BY <5>1 DEF MappingInv, Says, LastOf
      <4> QED
        BY <1>2, <4>1, <4>2
    <3>2. total' = total + stream[k].tokens
      BY <1>1, <1>2, <1>3, <2>1
    <3> PICK sums \in [0..read -> 0..MaxTotal] :
          sums[0] = 0 /\ sums[read] = total /\ \A i \in 1..read : sums[i] = sums[i - 1] + stream[i].tokens
      BY <3>1 DEF SumTo
    <3> DEFINE longer == [i \in 0..k |-> IF i = k THEN total + stream[k].tokens ELSE sums[i]]
    <3>3. longer \in [0..k -> 0..MaxTotal]
      BY <1>2, <1>3, <2>1
    <3>4. longer[0] = 0 /\ longer[k] = total + stream[k].tokens
      BY <1>2
    <3>5. ASSUME NEW i \in 1..k PROVE longer[i] = longer[i - 1] + stream[i].tokens
      <4>1. CASE i = k
        <5>1. k - 1 = read /\ read \in 0..k /\ read # k
          BY <1>2
        <5> QED
          BY <4>1, <5>1
      <4>2. CASE i # k
        <5>1. i \in 1..read /\ i - 1 \in 0..k /\ i - 1 # k
          BY <1>2, <4>2
        <5> QED
          BY <4>2, <5>1
      <4> QED
        BY <4>1, <4>2
    <3> HIDE DEF longer
    <3> QED
      <4>1. \A i \in 1..k : stream[i].mode = "delta" /\ stream[i].tokens >= 0
        BY <1>2, <1>3, <2>1, <3>1 DEF SumTo
      <4>2. SumTo(k, longer[k])
        BY <3>3, <3>4, <3>5, <4>1 DEF SumTo
      <4> QED
        BY <3>2, <3>4, <4>2 DEF Says
  <2>2. CASE stream[k].mode = "cumulative"
    <3>1. LastOf(read, total)
      <4>1. CASE read = 0
        BY <4>1, NothingSaid DEF MappingInv
      <4>2. CASE read > 0
        <5>1. 1 \in 1..read /\ stream[1].mode = "cumulative"
          BY <1>2, <1>6, <2>2, <4>2
        <5> QED
          BY <5>1 DEF MappingInv, Says, SumTo
      <4> QED
        BY <1>2, <4>1, <4>2
    <3>2. total' = stream[k].tokens
      BY <1>1, <1>3, <2>2
    <3>3. \A i \in 1..read : stream[i].tokens <= stream[k].tokens
      BY <1>2, <1>3, <2>0, <2>2, <3>1 DEF LastOf
    <3>4. LastOf(k, stream[k].tokens)
      <4>1. \A i \in 1..k : stream[i].tokens <= stream[k].tokens
        <5>1. stream[k].tokens <= stream[k].tokens
          BY <1>3
        <5> QED
          BY <1>2, <3>3, <5>1
      <4>2. \A i \in 1..k : stream[i].mode = "cumulative" /\ stream[i].tokens >= 0
        <5>1. stream[k].tokens >= 0
          BY <1>3
        <5>2. \A i \in 1..read : stream[i].mode = "cumulative" /\ stream[i].tokens >= 0
          BY <3>1 DEF LastOf
        <5> QED
          BY <1>2, <2>2, <5>1, <5>2
      <4>3. \A i, l \in 1..k : i <= l => stream[i].tokens <= stream[l].tokens
        <5> SUFFICES ASSUME NEW i \in 1..k, NEW l \in 1..k, i <= l
                     PROVE  stream[i].tokens <= stream[l].tokens
          OBVIOUS
        <5>1. CASE l = k
          BY <4>1, <5>1
        <5>2. CASE l # k
          <6>1. i \in 1..read /\ l \in 1..read
            <7>1. k = read + 1 /\ read \in Nat
              BY <1>2
            <7> QED
              BY <5>2, <7>1
          <6> QED
            BY <3>1, <6>1 DEF LastOf
        <5> QED
          BY <5>1, <5>2
      <4> QED
        BY <1>2, <4>2, <4>3 DEF LastOf
    <3> QED
      BY <3>2, <3>4 DEF Says
  <2> QED
    BY <1>3, <2>1, <2>2
<1>8. Says(read, total)'
  BY <1>1, <1>7 DEF Says, SumTo, LastOf
<1>9. UsageIsReported' /\ OutcomeIsReported'
  BY <1>1 DEF UsageIsReported, OutcomeIsReported
<1> QED
  BY <1>4, <1>5, <1>8, <1>9 DEF MappingInv

\* MapModel makes the result of what was read and of the host's readings.
LEMMA MapModelKeeps == ASSUME MappingInv, MapModel PROVE MappingInv'
<1>1. mapping = "normalized" /\ mapping' \in {"mapped", "refused"} /\ UNCHANGED <<stream, arrived, read, total>>
  BY DEF MapModel
<1>2. MappingTypeOK' /\ InTurn' /\ Says(read, total)'
  <2>1. MappingTypeOK' /\ InTurn'
    BY <1>1 DEF MappingInv, MappingTypeOK, InTurn, Finished, Terminal
  <2>2. Says(read, total)'
    BY <1>1 DEF MappingInv, Says, SumTo, LastOf
  <2> QED
    BY <2>1, <2>2
<1>3. SUFFICES ASSUME mapping' = "mapped" PROVE UsageIsReported' /\ OutcomeIsReported'
  BY <1>1, <1>2 DEF MappingInv, UsageIsReported, OutcomeIsReported
<1> PICK input \in Inputs, state \in States, error \in Errors :
      /\ readings' = input /\ ended' = [state |-> state, error |-> error]
      /\ state # "unsupported" /\ ValidReadings(input)
      /\ result' = [status |-> Outcome(state, error).status, class |-> Outcome(state, error).class,
                    usage |-> MappedUsage(input)]
  BY <1>3 DEF MapModel
<1>4. /\ DOMAIN input = {"input", "reasoning"}
      /\ \A name \in DOMAIN input : input[name].value \in Int /\ input[name].known \in BOOLEAN
  BY InputsAssumption
<1>5. UsageIsReported'
  <2>1. \A u : u \in MappedUsage(input) <=>
          \/ \E name \in DOMAIN input : input[name].known /\ u = [name |-> name, value |-> input[name].value]
          \/ u = [name |-> "output", value |-> total]
    BY DEF MappedUsage
  <2>2. ASSUME NEW name \in DOMAIN input
        PROVE  {u.value : u \in {v \in MappedUsage(input) : v.name = name}} =
                 IF input[name].known THEN {input[name].value} ELSE {}
    <3>1. name # "output"
      BY <1>4
    <3>2. {v \in MappedUsage(input) : v.name = name} =
            IF input[name].known THEN {[name |-> name, value |-> input[name].value]} ELSE {}
      BY <2>1, <3>1
    <3>3. CASE input[name].known
      <4>1. {v \in MappedUsage(input) : v.name = name} = {[name |-> name, value |-> input[name].value]}
        BY <3>2, <3>3
      <4>2. \A r : {u.value : u \in {r}} = {r.value}
        OBVIOUS
      <4> QED
        BY <3>3, <4>1, <4>2
    <3>4. CASE ~input[name].known
      BY <3>2, <3>4
    <3> QED
      BY <3>3, <3>4
  <2>3. ASSUME NEW u \in MappedUsage(input), NEW v \in MappedUsage(input), u.name = "reasoning", v.name = "output"
        PROVE  u.value <= v.value
    <3>1. input["reasoning"].known /\ u.value = input["reasoning"].value
      BY <2>1, <2>3
    <3>2. v.value = total
      BY <1>4, <2>1, <2>3
    <3> QED
      BY <3>1, <3>2 DEF ValidReadings
  <2> QED
    BY <2>2, <2>3 DEF UsageIsReported
<1>6. OutcomeIsReported'
  <2>1. ended'.state = state /\ ended'.error = error
        /\ result'.status = Outcome(state, error).status /\ result'.class = Outcome(state, error).class
    OBVIOUS
  <2>2. /\ Outcome(state, error).status = IF error # "nil" THEN "error" ELSE StatusOf(state)
        /\ Outcome(state, error).class =
             IF error # "nil" /\ ClassOf(state) \in {"", "unknown"} THEN ClassOfError(error) ELSE ClassOf(state)
    BY DEF Outcome
  <2> QED
    BY <2>1, <2>2 DEF OutcomeIsReported, StatusOf, ClassOf, ClassOfError, States, Errors
<1> QED
  BY <1>2, <1>5, <1>6 DEF MappingInv

LEMMA MappingStep == MappingInv /\ [MappingNext]_mappingVars => MappingInv'
<1> SUFFICES ASSUME MappingInv, [MappingNext]_mappingVars PROVE MappingInv'
  OBVIOUS
<1>1. CASE Arrive
  <2>1. /\ mapping = "receiving" /\ read = 0 /\ \E i \in DOMAIN stream : arrived' = Append(arrived, i)
        /\ UNCHANGED <<stream, read, total, mapping, readings, ended, result>>
    BY <1>1 DEF Arrive, MappingInv, InTurn
  <2>2. arrived' \in Seq(DOMAIN stream) /\ read \in 0..Len(arrived')
    BY <2>1, StreamsAreUpdates DEF MappingInv, MappingTypeOK
  <2>3. MappingTypeOK' /\ InTurn'
    BY <2>1, <2>2 DEF MappingInv, MappingTypeOK, InTurn
  <2> QED
    BY <2>1, <2>3 DEF MappingInv, Says, SumTo, LastOf, UsageIsReported, OutcomeIsReported
<1>2. CASE StartNormalizing \/ RefuseUnfinished \/ RefuseUpdate \/ Normalized
  <2>1. /\ UNCHANGED <<stream, arrived, read, total, readings, ended, result>>
        /\ mapping' \in {"normalizing", "refused", "normalized"}
        /\ mapping' # "refused" => Finished
        /\ mapping' = "normalized" => read = Len(arrived)
    BY <1>2 DEF StartNormalizing, RefuseUnfinished, RefuseUpdate, Normalized, Refusal, MappingInv, InTurn
  <2>2. MappingTypeOK' /\ InTurn'
    BY <2>1 DEF MappingInv, MappingTypeOK, InTurn, Finished, Terminal
  <2> QED
    BY <2>1, <2>2 DEF MappingInv, Says, SumTo, LastOf, UsageIsReported, OutcomeIsReported
<1>3. CASE ReadUpdate
  BY <1>3, ReadUpdateKeeps
<1>4. CASE MapModel
  BY <1>4, MapModelKeeps
<1>5. CASE UNCHANGED mappingVars
  <2>1. UNCHANGED <<stream, arrived, mapping, read, total, readings, ended, result>>
    BY <1>5 DEF mappingVars
  <2>2. MappingTypeOK' /\ InTurn'
    BY <2>1 DEF MappingInv, MappingTypeOK, InTurn, Finished, Terminal
  <2> QED
    BY <2>1, <2>2 DEF MappingInv, Says, SumTo, LastOf, UsageIsReported, OutcomeIsReported
<1> QED
  BY <1>1, <1>2, <1>3, <1>4, <1>5 DEF MappingNext

\* What the whole stream says is what its producer means.
LEMMA WholeStreamIsProduced == MappingInv => TotalIsTheProducers
<1> SUFFICES ASSUME MappingInv, mapping \in {"normalized", "mapped"}
             PROVE  total \in Produced /\ arrived = [i \in DOMAIN stream |-> i]
  BY DEF TotalIsTheProducers
<1> PICK n : n = Len(stream)
  OBVIOUS
<1>1. arrived = [i \in DOMAIN stream |-> i] /\ Says(n, total)
  BY WholeStreamIsRead DEF WholeStream
<1>2. n \in Nat /\ DOMAIN stream = 1..n /\ DOMAIN arrived = 1..Len(arrived) /\ Len(arrived) \in Nat
  BY StreamsAreUpdates DEF MappingInv
<1>3. n # 0
  <2>1. arrived # <<>> /\ arrived \in Seq(Nat)
    BY StreamsAreUpdates DEF MappingInv, InTurn, Finished
  <2>2. Len(arrived) # 0
    BY <2>1
  <2>3. DOMAIN arrived = DOMAIN stream
    BY <1>1
  <2>4. Len(arrived) \in 1..Len(arrived)
    BY <1>2, <2>2
  <2>5. Len(arrived) \in 1..n
    BY <1>2, <2>3, <2>4, Zenon
  <2> QED
    BY <2>5
<1>4. CASE SumTo(n, total)
  <2>1. ModeOf("delta")
    BY <1>2, <1>4 DEF SumTo, ModeOf
  <2>2. \E sum \in Sums : sum[n] = total
    BY <1>2, <1>4 DEF SumTo, Sums
  <2>3. Produced = {sum[n] : sum \in Sums}
    BY <2>1 DEF Produced
  <2> QED
    BY <1>1, <2>2, <2>3
<1>5. CASE LastOf(n, total)
  <2>1. 1 \in 1..n /\ n \in 1..n
    BY <1>2, <1>3
  <2>2. ModeOf("cumulative") /\ ~ModeOf("delta") /\ Rising /\ total = stream[n].tokens
    BY <1>2, <1>3, <1>5, <2>1 DEF LastOf, ModeOf, Rising
  <2>3. Produced = {stream[n].tokens}
    BY <2>2 DEF Produced
  <2> QED
    BY <1>1, <2>2, <2>3
<1> QED
  BY <1>1, <1>4, <1>5 DEF Says

\* A total is mapped only of the whole stream in its own order, and is what its
\* producer said, whatever was lost, repeated or reordered on its way; the result then
\* reports every reading that was known and no other, no component is beyond its
\* total, and an error is never a success (mapping.go of examples/observation_mapping).
THEOREM MappingIsOfTheWholeStream == MappingSpec => []MappedIsReported
<1>1. MappingInv => MappedIsReported
  BY WholeStreamIsProduced DEF MappingInv, MappedIsReported
<1> QED
  BY <1>1, MappingInitially, MappingStep, PTL DEF MappingSpec
=============================================================================
