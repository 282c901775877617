--------------------------- MODULE ReleaseProofs ----------------------------
(***************************************************************************)
(* The two judges of the repository, for any number of shells, modules and *)
(* attempts, and for any adapters and fixtures. scripts/release.sh: one    *)
(* candidate, all of it, and no success without it; what the remote shows  *)
(* implements the publication of a version. It rests on one fact about the *)
(* lock directory (whoever is inside the script is alone) and on what a    *)
(* run has made sure of by the step it stands at. CheckConformance: what a *)
(* report that passes says of a composition is so.                         *)
(***************************************************************************)
EXTENDS Release, Conformance, SequenceTheorems, FiniteSetTheorems, TLAPS

(* scripts/release.sh *)

Records == [stage : {"none", "created", "listed", "archived"}, paths : 0..Modules,
            phase : {"preparing", "prepared"}, candidate : 0..MaxBuilds, refs : -1..Modules,
            status : {"none", "partial", "complete", "unknown", "collision"}]
Remotes == [main : {"behind", "source", "ahead", "diverged"}, tags : [1..Modules -> Tags]]

\* Before and after the push, a run that may push or report has a whole record.
Observing == {"observe_main", "observe_tags", "check_main", "confirm", "push", "archive"}

\* What a run has made sure of by the step it stands at.
Where(r) ==
  /\ pc[r] \in {"prepare", "record"} => active.candidate = 0
  /\ pc[r] = "record" => Len(rewritten) >= 1
  /\ pc[r] \in Observing /\ op[r] # "inspect" => Valid
  /\ pc[r] \in {"check_main", "confirm", "push"} => op[r] \in {"publish", "resume"} /\ ~unresolved
  /\ pc[r] = "archive" => op[r] = "finish" /\ Published

\* The remote keeps the source once a run has seen it, and success is told of a
\* candidate.
Told ==
  /\ \A r \in Runners : delivered[r] => remote.main \in {"source", "ahead"}
  /\ reported => active.candidate # 0

IInv ==
  /\ TypeOK /\ OneCandidatePublished /\ AtomicPublication /\ SuccessIsPublished
  /\ Told /\ \A r \in Runners : Where(r)

LEMMA InvariantSuffices == IInv => OneWholeCandidate
BY DEF IInv, Where, OneWholeCandidate, PushAfterObservation

LEMMA InvariantInit == Init => IInv
<1> SUFFICES ASSUME Init PROVE IInv
  OBVIOUS
<1>1. unresolved \in BOOLEAN /\ reported \in BOOLEAN /\ ~reported
  BY Zenon DEF Init
<1>2. delivered \in [Runners -> BOOLEAN] /\ \A r \in Runners : ~delivered[r]
  BY Zenon DEF Init
<1>3. active \in Records /\ remote \in Remotes
  BY ModulesAssumption, MaxBuildsAssumption DEF Init, NoRecord, Records, Remotes, Tags, NoTag
<1>4. rewritten \in Seq(0..Modules) /\ Len(rewritten) <= MaxBuilds
  BY MaxBuildsAssumption DEF Init
<1>5. TypeOK
  BY <1>1, <1>2, <1>3, <1>4, LockAssumption DEF Init, TypeOK, Records, Remotes, Steps, Operations
<1>6. OneCandidatePublished /\ AtomicPublication
  BY DEF Init, OneCandidatePublished, AtomicPublication, NoTag
<1>7. SuccessIsPublished /\ Told /\ \A r \in Runners : Where(r)
  BY <1>1, <1>2 DEF Init, SuccessIsPublished, Told, Where, Observing
<1> QED
  BY <1>5, <1>6, <1>7 DEF IInv

\* Whoever is inside the script is alone.
LEMMA Alone ==
  ASSUME TypeOK, NEW r \in Runners, pc[r] # "idle"
  PROVE  lock = r /\ \A q \in Runners : q # r => pc[q] = "idle"
BY DEF TypeOK

\* The remote has the candidate or nothing of it; without one nobody was told.
LEMMA NothingWithoutCandidate ==
  ASSUME IInv, active.candidate = 0
  PROVE  inflight = {} /\ ~reported /\ \A m \in 1..Modules : remote.tags[m] \in {NoTag, Foreign}
<1>1. inflight \subseteq 1..MaxBuilds /\ inflight \subseteq {0}
  BY DEF IInv, TypeOK, OneCandidatePublished
<1>2. 0 \notin 1..MaxBuilds
  BY MaxBuildsAssumption
<1> QED
  BY <1>1, <1>2 DEF IInv, OneCandidatePublished, Told, NoTag

\* A run goes on inside the script: what it writes is the record, whose candidate
\* it chooses at most once.
LEMMA InsideStep ==
  ASSUME IInv, NEW r \in Runners, pc[r] # "idle", NEW to \in Steps \ {"idle"},
         pc' = [pc EXCEPT ![r] = to], UNCHANGED <<lock, delivered, remote, inflight>>,
         op' \in [Runners -> Operations \cup {"verify"}],
         active' \in Records, active'.candidate = active.candidate \/ active.candidate = 0,
         rewritten' \in Seq(0..Modules), Len(rewritten') <= MaxBuilds,
         unresolved' \in BOOLEAN, reported' \in BOOLEAN,
         reported' => reported \/ (Published /\ active.candidate # 0),
         Where(r)'
  PROVE  IInv'
<1>1. lock = r /\ \A q \in Runners : q # r => pc[q] = "idle"
  BY Alone DEF IInv
<1>2. pc' \in [Runners -> Steps] /\ pc'[r] = to /\ \A q \in Runners : q # r => pc'[q] = "idle"
  BY <1>1 DEF IInv, TypeOK
<1>3. TypeOK'
  BY <1>1, <1>2 DEF IInv, TypeOK, Records, Remotes
<1>4. \A q \in Runners : Where(q)'
  BY <1>2 DEF Where, Observing
<1>5. CASE active'.candidate = active.candidate
  BY <1>3, <1>4, <1>5 DEF IInv, OneCandidatePublished, AtomicPublication, SuccessIsPublished, Published, Told
<1>6. CASE active.candidate = 0
  <2>1. inflight = {} /\ ~reported /\ \A m \in 1..Modules : remote.tags[m] \in {NoTag, Foreign}
    BY <1>6, NothingWithoutCandidate
  <2>2. ~reported'
    BY <1>6, <2>1
  <2> QED
    BY <1>3, <1>4, <2>1, <2>2
       DEF IInv, OneCandidatePublished, AtomicPublication, SuccessIsPublished, Told, NoTag, Foreign
<1> QED
  BY <1>5, <1>6

\* A run leaves the script, in whatever way, and the lock directory with it or not.
LEMMA LeavingStep ==
  ASSUME IInv, NEW r \in Runners, pc[r] # "idle",
         pc' = [pc EXCEPT ![r] = "idle"], lock' \in {Free, Stale},
         UNCHANGED <<op, delivered, remote, inflight, rewritten>>,
         active' \in Records, active'.candidate = active.candidate,
         unresolved' \in BOOLEAN, reported' \in BOOLEAN,
         reported' => reported \/ (Published /\ active.candidate # 0)
  PROVE  IInv'
<1>1. \A q \in Runners : q # r => pc[q] = "idle"
  BY Alone DEF IInv
<1>2. pc' \in [Runners -> Steps] /\ \A q \in Runners : pc'[q] = "idle"
  BY <1>1 DEF IInv, TypeOK, Steps
<1>3. TypeOK'
  BY <1>2, LockAssumption DEF IInv, TypeOK, Records, Remotes
<1>4. \A q \in Runners : Where(q)'
  BY <1>2 DEF Where, Observing
<1> QED
  BY <1>3, <1>4 DEF IInv, OneCandidatePublished, AtomicPublication, SuccessIsPublished, Published, Told

\* The steps that write the record, from its creation to the seal, and the checks
\* between them.
LEMMA RecordSteps ==
  ASSUME IInv, NEW r \in Runners,
         \/ Create(r) \/ WriteRecords(r) \/ List(r) \/ Listed(r) \/ Resume(r) \/ Continue(r)
         \/ Build(r) \/ RecordCandidate(r) \/ Truncate(r) \/ Seal(r) \/ Sealed(r) \/ Validate(r)
         \/ Inspect(r) \/ Finish(r)
  PROVE  IInv'
<1>1. /\ TypeOK /\ Where(r) /\ active \in Records /\ op \in [Runners -> Operations \cup {"verify"}]
      /\ rewritten \in Seq(0..Modules) /\ Len(rewritten) <= MaxBuilds
      /\ unresolved \in BOOLEAN /\ reported \in BOOLEAN
  BY DEF IInv, TypeOK, Records
<1>2. UNCHANGED <<lock, op, delivered, remote, inflight, unresolved, reported>>
  BY DEF Create, WriteRecords, List, Listed, Resume, Continue, Build, RecordCandidate, Truncate, Seal,
         Sealed, Validate, Inspect, Finish, env
<1>3. ASSUME NEW from \in Steps \ {"idle"}, NEW to \in Steps \ {"idle"}, Go(r, from, to),
             active' \in Records, active'.candidate = active.candidate \/ active.candidate = 0,
             rewritten' \in Seq(0..Modules), Len(rewritten') <= MaxBuilds, Where(r)'
      PROVE  IInv'
  BY <1>1, <1>2, <1>3, InsideStep DEF Go
<1>4. ASSUME NEW from, NEW to, Go(r, from, to) PROVE pc'[r] = to
  BY <1>1, <1>4 DEF Go, TypeOK
<1>5. CASE Create(r) \/ WriteRecords(r)
  <2>1. PICK from \in {"begin", "records"}, to \in {"records", "list"} : Go(r, from, to)
    BY <1>5 DEF Create, WriteRecords
  <2>2. active' \in Records /\ active'.candidate = active.candidate /\ UNCHANGED rewritten
    BY <1>1, <1>5 DEF Create, WriteRecords, Put, Records
  <2>3. Where(r)'
    BY <1>4, <2>1 DEF Where, Observing
  <2> QED
    BY <1>1, <1>3, <2>1, <2>2, <2>3 DEF Steps
<1>6. CASE List(r)
  <2>1. Go(r, "list", "list") /\ UNCHANGED rewritten
    BY <1>6 DEF List
  <2>2. active.paths + 1 \in 0..Modules
    BY <1>1, <1>6, ModulesAssumption DEF List, Records
  <2>3. active' \in Records /\ active'.candidate = active.candidate
    BY <1>1, <1>6, <2>2 DEF List, Put, Records
  <2>4. Where(r)'
    BY <1>4, <2>1 DEF Where, Observing
  <2> QED
    BY <1>1, <1>3, <2>1, <2>3, <2>4 DEF Steps
<1>7. CASE Listed(r) \/ Resume(r)
  <2>1. PICK from \in {"list", "begin"} : Go(r, from, "phase")
    BY <1>7 DEF Listed, Resume
  <2>2. UNCHANGED <<active, rewritten>>
    BY <1>7 DEF Listed, Resume
  <2>3. Where(r)'
    BY <1>4, <2>1 DEF Where, Observing
  <2> QED
    BY <1>1, <1>3, <2>1, <2>2, <2>3 DEF Steps
<1>8. CASE Continue(r)
  <2>1. Go(r, "phase", NextStep) /\ UNCHANGED <<active, rewritten>>
    BY <1>8 DEF Continue
  <2>2. NextStep \in {"validate", "truncate", "prepare"} /\ (NextStep = "prepare" => active.candidate = 0)
    BY <1>1 DEF NextStep, Records
  <2>3. Where(r)'
    BY <1>4, <2>1, <2>2 DEF Where, Observing
  <2> QED
    BY <1>1, <1>3, <2>1, <2>2, <2>3 DEF Steps
<1>9. CASE Build(r)
  <2>1. Go(r, "prepare", "record") /\ UNCHANGED active /\ rewritten' = Append(rewritten, active.paths)
    BY <1>9 DEF Build
  <2>2. /\ rewritten' \in Seq(0..Modules) /\ Len(rewritten') = Len(rewritten) + 1
        /\ Len(rewritten) \in Nat /\ Len(rewritten) < MaxBuilds
    BY <1>1, <1>9, <2>1 DEF Build, Records
  <2>3. Len(rewritten') >= 1 /\ Len(rewritten') <= MaxBuilds
    BY <2>2, MaxBuildsAssumption
  <2>4. Where(r)'
    BY <1>1, <1>4, <2>1, <2>3 DEF Where, Observing, Go
  <2> QED
    BY <1>1, <1>3, <2>1, <2>2, <2>3, <2>4 DEF Steps
<1>10. CASE RecordCandidate(r)
  <2>1. Go(r, "record", "truncate") /\ UNCHANGED rewritten
    BY <1>10 DEF RecordCandidate
  <2>2. Len(rewritten) \in 0..MaxBuilds /\ active.candidate = 0
    BY <1>1, <2>1, MaxBuildsAssumption DEF Where, Go
  <2>3. active' \in Records
    BY <1>1, <1>10, <2>2 DEF RecordCandidate, Put, Records
  <2>4. Where(r)'
    BY <1>4, <2>1 DEF Where, Observing
  <2> QED
    BY <1>1, <1>3, <2>1, <2>2, <2>3, <2>4 DEF Steps
<1>11. CASE Truncate(r)
  <2>1. Go(r, "truncate", "seal") /\ UNCHANGED rewritten
    BY <1>11 DEF Truncate
  <2>2. 0 \in -1..Modules
    BY ModulesAssumption
  <2>3. active' \in Records /\ active'.candidate = active.candidate
    BY <1>1, <1>11, <2>2 DEF Truncate, Put, Records
  <2>4. Where(r)'
    BY <1>4, <2>1 DEF Where, Observing
  <2> QED
    BY <1>1, <1>3, <2>1, <2>3, <2>4 DEF Steps
<1>12. CASE Seal(r)
  <2>1. Go(r, "seal", "seal") /\ UNCHANGED rewritten
    BY <1>12 DEF Seal
  <2>2. active.refs + 1 \in -1..Modules
    BY <1>1, <1>12, ModulesAssumption DEF Seal, Records
  <2>3. active' \in Records /\ active'.candidate = active.candidate
    BY <1>1, <1>12, <2>2 DEF Seal, Put, Records
  <2>4. Where(r)'
    BY <1>4, <2>1 DEF Where, Observing
  <2> QED
    BY <1>1, <1>3, <2>1, <2>3, <2>4 DEF Steps
<1>13. CASE Sealed(r)
  <2>1. Go(r, "seal", "validate") /\ UNCHANGED rewritten
    BY <1>13 DEF Sealed
  <2>2. active' \in Records /\ active'.candidate = active.candidate
    BY <1>1, <1>13 DEF Sealed, Put, Records
  <2>3. Where(r)'
    BY <1>4, <2>1 DEF Where, Observing
  <2> QED
    BY <1>1, <1>3, <2>1, <2>2, <2>3 DEF Steps
<1>14. CASE Validate(r) \/ Inspect(r) \/ Finish(r)
  <2>1. PICK from \in {"validate", "begin"} : Go(r, from, "observe_main")
    BY <1>14 DEF Validate, Inspect, Finish
  <2>2. UNCHANGED <<active, rewritten>> /\ (op[r] = "inspect" \/ Valid)
    BY <1>14 DEF Validate, Inspect, Finish
  <2>3. Valid' = Valid
    BY <2>2 DEF Valid
  <2>4. Where(r)'
    BY <1>2, <1>4, <2>1, <2>2, <2>3 DEF Where, Observing
  <2> QED
    BY <1>1, <1>3, <2>1, <2>2, <2>4 DEF Steps
<1> QED
  BY <1>5, <1>6, <1>7, <1>8, <1>9, <1>10, <1>11, <1>12, <1>13, <1>14

\* "complete", of a run that has a whole record: the remote shows the release.
LEMMA CompleteIsPublished ==
  ASSUME IInv, NEW r \in Runners, pc[r] = "observe_tags"
  PROVE  /\ Observed(r) \in {"none", "partial", "complete", "collision"}
         /\ Observed(r) = "complete" /\ op[r] # "inspect" => Published /\ active.candidate # 0
<1>1. Observed(r) \in {"none", "partial", "complete", "collision"}
  BY DEF Observed
<1>2. ASSUME Observed(r) = "complete", op[r] # "inspect"
      PROVE  Published /\ active.candidate # 0
  <2>1. {m \in 1..active.refs : remote.tags[m] = active.candidate} = 1..active.refs /\ delivered[r]
    BY <1>2 DEF Observed
  <2>2. active.refs = Modules /\ active.candidate # 0
    BY <1>2 DEF IInv, Where, Observing, Valid
  <2>3. remote.main \in {"source", "ahead"}
    BY <2>1 DEF IInv, Told
  <2> QED
    BY <2>1, <2>2, <2>3 DEF Published
<1> QED
  BY <1>1, <1>2

\* The steps around the push and the reading of the remote.
LEMMA RemoteSteps ==
  ASSUME IInv, NEW r \in Runners,
         ObserveMain(r) \/ ObserveTags(r) \/ Archive(r) \/ CheckMain(r) \/ Confirm(r) \/ Push(r)
  PROVE  IInv'
<1>1. /\ TypeOK /\ Where(r) /\ active \in Records /\ op \in [Runners -> Operations \cup {"verify"}]
      /\ rewritten \in Seq(0..Modules) /\ Len(rewritten) <= MaxBuilds
      /\ unresolved \in BOOLEAN /\ reported \in BOOLEAN
  BY DEF IInv, TypeOK, Records
<1>2. ASSUME NEW from, NEW to, Go(r, from, to) PROVE pc'[r] = to
  BY <1>1, <1>2 DEF Go, TypeOK
<1>3. CASE ObserveMain(r)
  <2>1. /\ Go(r, "observe_main", "observe_tags")
        /\ UNCHANGED <<lock, op, active, remote, inflight, rewritten, unresolved, reported>>
        /\ delivered' = [delivered EXCEPT ![r] = remote.main \in {"source", "ahead"}]
    BY <1>3 DEF ObserveMain
  <2>2. delivered' \in [Runners -> BOOLEAN]
    BY <1>1, <2>1 DEF TypeOK
  <2>3. \A q \in Runners : delivered'[q] => remote.main \in {"source", "ahead"}
    BY <2>1 DEF IInv, TypeOK, Told
  <2>4. lock = r /\ \A q \in Runners : q # r => pc[q] = "idle"
    BY <1>1, <2>1, Alone DEF Go
  <2>5. TypeOK'
    BY <1>1, <2>1, <2>2, <2>4 DEF TypeOK, Go, Steps
  <2>6. \A q \in Runners : Where(q)'
    BY <1>1, <1>2, <2>1, <2>4 DEF IInv, Where, Observing, Valid, Published, Go, TypeOK
  <2> QED
    BY <2>1, <2>3, <2>5, <2>6
       DEF IInv, OneCandidatePublished, AtomicPublication, SuccessIsPublished, Published, Told
<1>4. CASE ObserveTags(r)
  <2>1. /\ pc[r] = "observe_tags" /\ Put("status", Observed(r))
        /\ UNCHANGED <<op, delivered, remote, inflight, rewritten>>
        /\ unresolved' = FALSE
        /\ reported' = (reported \/ (op[r] \in {"publish", "resume", "verify"} /\ Observed(r) = "complete"))
    BY <1>4 DEF ObserveTags, Go, Leave
  <2>2. unresolved' \in BOOLEAN /\ reported' \in BOOLEAN
    BY <2>1, Zenon
  <2>3. /\ Observed(r) \in {"none", "partial", "complete", "collision"}
        /\ Observed(r) = "complete" /\ op[r] # "inspect" => Published /\ active.candidate # 0
    BY <2>1, CompleteIsPublished
  <2>4. /\ active' \in Records /\ active'.candidate = active.candidate /\ active'.refs = active.refs
    BY <1>1, <2>1, <2>3 DEF Put, Records
  <2>5. reported' => reported \/ (Published /\ active.candidate # 0)
    BY <2>1, <2>3
  <2>6. CASE /\ op[r] \in {"publish", "resume"}
             /\ Go(r, "observe_tags", "check_main") /\ UNCHANGED lock
    <3>1. Where(r)'
      BY <1>1, <1>2, <2>1, <2>4, <2>6 DEF Where, Observing, Valid, Published
    <3> QED
      BY <1>1, <2>1, <2>2, <2>4, <2>5, <2>6, <3>1, InsideStep DEF Go, Steps
  <2>7. CASE /\ op[r] = "finish" /\ Observed(r) = "complete"
             /\ Go(r, "observe_tags", "archive") /\ UNCHANGED lock
    <3>1. Where(r)'
      BY <1>1, <1>2, <2>1, <2>3, <2>4, <2>7 DEF Where, Observing, Valid, Published
    <3> QED
      BY <1>1, <2>1, <2>2, <2>4, <2>5, <2>7, <3>1, InsideStep DEF Go, Steps
  <2>8. CASE Leave(r, "observe_tags")
    BY <1>1, <2>1, <2>2, <2>4, <2>5, <2>8, LeavingStep DEF Leave, Go
  <2> QED
    BY <1>4, <2>6, <2>7, <2>8 DEF ObserveTags
<1>5. CASE Archive(r)
  <2>1. /\ Leave(r, "archive") /\ UNCHANGED <<op, delivered, remote, inflight, rewritten, unresolved>>
        /\ reported' = TRUE
    BY <1>5 DEF Archive
  <2>2. reported' \in BOOLEAN
    BY <2>1, Zenon
  <2>3. active' \in Records /\ active'.candidate = active.candidate
    BY <1>1, <1>5 DEF Archive, Put, Records
  <2>4. Published /\ active.candidate # 0
    BY <1>1, <2>1 DEF Leave, Go, Where, Observing, Valid
  <2> QED
    BY <1>1, <2>1, <2>2, <2>3, <2>4, LeavingStep DEF Leave, Go
<1>6. CASE CheckMain(r)
  <2>1. Go(r, "check_main", "confirm") /\ UNCHANGED <<lock, op, env, active, rewritten>>
    BY <1>6 DEF CheckMain
  <2>2. Where(r)'
    BY <1>1, <1>2, <2>1 DEF Where, Observing, Valid, Go, env
  <2> QED
    BY <1>1, <2>1, <2>2, InsideStep DEF Go, Steps, env
<1>7. CASE Confirm(r)
  <2>1. Go(r, "confirm", "push") /\ UNCHANGED <<lock, op, env, rewritten>>
    BY <1>7 DEF Confirm
  <2>2. active' \in Records /\ active'.candidate = active.candidate /\ active'.refs = active.refs
    BY <1>1, <1>7 DEF Confirm, Put, Records
  <2>3. Where(r)'
    BY <1>1, <1>2, <2>1, <2>2 DEF Where, Observing, Valid, Go, env
  <2> QED
    BY <1>1, <2>1, <2>2, <2>3, InsideStep DEF Go, Steps, env
<1>8. CASE Push(r)
  <2>1. /\ Go(r, "push", "observe_main") /\ op' = [op EXCEPT ![r] = "verify"]
        /\ inflight' = inflight \cup {active.candidate} /\ unresolved' = TRUE
        /\ UNCHANGED <<lock, delivered, active, remote, rewritten, reported>>
    BY <1>8 DEF Push
  <2>2. unresolved' \in BOOLEAN
    BY <2>1, Zenon
  <2>3. Valid
    BY <1>1, <2>1 DEF Go, Where, Observing
  <2>4. active.candidate \in 1..MaxBuilds
    BY <1>1, <2>3, MaxBuildsAssumption DEF Valid, Records
  <2>5. lock = r /\ \A q \in Runners : q # r => pc[q] = "idle"
    BY <1>1, <2>1, Alone DEF Go
  <2>6. TypeOK'
    <3>1. pc' \in [Runners -> Steps] /\ op' \in [Runners -> Operations \cup {"verify"}]
      BY <1>1, <2>1 DEF TypeOK, Go, Steps
    <3>2. inflight' \subseteq 1..MaxBuilds
      BY <1>1, <2>1, <2>4 DEF TypeOK
    <3>3. \A q \in Runners : pc'[q] # "idle" <=> lock' = q
      BY <1>1, <1>2, <2>1, <2>5 DEF Go, TypeOK
    <3>4. {unresolved', reported'} \subseteq BOOLEAN
      BY <1>1, <2>1, <2>2
    <3> QED
      BY <1>1, <2>1, <3>1, <3>2, <3>3, <3>4 DEF TypeOK
  <2>7. \A q \in Runners : Where(q)'
    BY <1>1, <1>2, <2>1, <2>3, <2>5 DEF Where, Observing, Valid, Go, TypeOK
  <2> QED
    BY <2>1, <2>6, <2>7
       DEF IInv, OneCandidatePublished, AtomicPublication, SuccessIsPublished, Published, Told
<1> QED
  BY <1>3, <1>4, <1>5, <1>6, <1>7, <1>8

\* A run ends early: stopped, killed, refused by the record, or by the remote that
\* cannot be read.
LEMMA EndingSteps ==
  ASSUME IInv, NEW r \in Runners, Stop(r) \/ Kill(r) \/ Fail(r) \/ Unreadable(r)
  PROVE  IInv'
<1>1. active \in Records /\ unresolved \in BOOLEAN /\ reported \in BOOLEAN
  BY DEF IInv, TypeOK, Records
<1>2. /\ pc[r] # "idle" /\ pc' = [pc EXCEPT ![r] = "idle"] /\ lock' \in {Free, Stale}
      /\ UNCHANGED <<op, env, rewritten>>
  <2>1. CASE Stop(r)
    BY <2>1 DEF Stop, Leave, Go, env
  <2>2. CASE Kill(r)
    BY <2>2 DEF Kill, Go, env
  <2>3. CASE Fail(r)
    <3>1. pc[r] # "idle"
      BY <2>3 DEF Fail
    <3> QED
      BY <2>3, <3>1 DEF Fail, Leave, Go
  <2>4. CASE Unreadable(r)
    BY <2>4 DEF Unreadable, Leave, Go
  <2> QED
    BY <2>1, <2>2, <2>3, <2>4
<1>3. active' \in Records /\ active'.candidate = active.candidate
  BY <1>1 DEF Stop, Kill, Fail, Unreadable, Put, Records
<1> QED
  BY <1>1, <1>2, <1>3, LeavingStep DEF env

\* A shell begins, and a stale lock is removed, only while nobody is inside; who begins has made
\* sure of nothing yet.
LEMMA BeginSteps ==
  ASSUME IInv, (\E r \in Runners, o \in Operations : Begin(r, o)) \/ RemoveStaleLock
  PROVE  IInv'
<1>1. UNCHANGED <<delivered, active, remote, inflight, rewritten, unresolved, reported>>
  BY DEF Begin, RemoveStaleLock
<1>2. lock \in {Free, Stale} /\ \A q \in Runners : pc[q] = "idle"
  BY LockAssumption DEF IInv, TypeOK, Begin, RemoveStaleLock
<1>3. TypeOK' /\ \A q \in Runners : Where(q)'
  <2>1. CASE RemoveStaleLock
    BY <1>1, <1>2, <2>1, LockAssumption DEF IInv, RemoveStaleLock, TypeOK, Where, Observing
  <2>2. ASSUME NEW r \in Runners, NEW o \in Operations, Begin(r, o)
        PROVE  TypeOK' /\ \A q \in Runners : Where(q)'
    <3>1. lock' = r /\ pc' = [pc EXCEPT ![r] = "begin"] /\ op' = [op EXCEPT ![r] = o]
      BY <2>2 DEF Begin, Go
    <3>2. TypeOK'
      BY <1>1, <1>2, <3>1, LockAssumption DEF IInv, TypeOK, Steps
    <3>3. \A q \in Runners : pc'[q] \in {"idle", "begin"}
      BY <1>2, <3>1 DEF IInv, TypeOK
    <3> QED
      BY <3>2, <3>3 DEF Where, Observing
  <2> QED
    BY <2>1, <2>2
<1> QED
  BY <1>1, <1>3 DEF IInv, OneCandidatePublished, AtomicPublication, SuccessIsPublished, Published, Told

\* The remote answers late, or others use it: what is published stays published.
LEMMA OutsideSteps ==
  ASSUME IInv, \/ \E c \in inflight : Accept(c) \/ Drop(c)
               \/ OthersMoveMain \/ \E m \in 1..Modules : OthersTag(m)
  PROVE  IInv'
<1>1. UNCHANGED <<lock, pc, op, delivered, active, rewritten, unresolved, reported>>
  BY DEF Accept, Drop, OthersMoveMain, OthersTag, local
<1>2. remote \in Remotes /\ inflight \subseteq 1..MaxBuilds
  BY DEF IInv, TypeOK, Remotes
<1>3. ASSUME remote' \in Remotes, inflight' \subseteq inflight,
             \A m \in 1..Modules : remote'.tags[m] \in {NoTag, Foreign, active.candidate},
             remote.main \in {"source", "ahead"} => remote'.main \in {"source", "ahead"},
             Published /\ active.candidate # 0 => Published', AtomicPublication'
      PROVE  IInv'
  <2>1. TypeOK'
    BY <1>1, <1>3 DEF IInv, TypeOK, Remotes
  <2>2. OneCandidatePublished' /\ SuccessIsPublished' /\ Told'
    BY <1>1, <1>3 DEF IInv, OneCandidatePublished, SuccessIsPublished, Told
  <2>3. \A r \in Runners : Where(r)'
    BY <1>1, <1>3 DEF IInv, Where, Observing, Valid
  <2> QED
    BY <1>3, <2>1, <2>2, <2>3 DEF IInv
<1>4. ASSUME NEW c \in inflight, Accept(c) PROVE IInv'
  <2>1. /\ remote' = [main |-> "source", tags |-> [m \in 1..Modules |-> c]]
        /\ inflight' = inflight \ {c}
    BY <1>4 DEF Accept
  <2>2. c = active.candidate /\ c \in 1..MaxBuilds
    BY <1>2 DEF IInv, OneCandidatePublished
  <2>3. remote' \in Remotes
    BY <2>1, <2>2 DEF Remotes, Tags
  <2>4. Published'
    BY <1>1, <2>1, <2>2 DEF Published
  <2> QED
    BY <1>1, <1>3, <2>1, <2>2, <2>3, <2>4 DEF AtomicPublication
<1>5. ASSUME NEW c \in inflight, Drop(c) PROVE IInv'
  <2>1. inflight' \subseteq inflight /\ remote' = remote
    BY <1>5 DEF Drop
  <2> QED
    BY <1>1, <1>2, <1>3, <2>1 DEF IInv, OneCandidatePublished, AtomicPublication, Published
<1>6. CASE OthersMoveMain
  <2>1. PICK to \in {"source", "ahead", "diverged"} :
          /\ remote' = [remote EXCEPT !.main = to]
          /\ remote.main \in {"source", "ahead"} => to = "ahead"
    BY <1>6 DEF OthersMoveMain
  <2>2. /\ remote' \in Remotes /\ remote'.tags = remote.tags /\ UNCHANGED inflight
        /\ remote.main \in {"source", "ahead"} => remote'.main = "ahead"
    BY <1>2, <1>6, <2>1 DEF OthersMoveMain, Remotes
  <2>3. Published => Published'
    BY <1>1, <2>2 DEF Published
  <2> QED
    BY <1>1, <1>3, <2>2, <2>3 DEF IInv, OneCandidatePublished, AtomicPublication
<1>7. ASSUME NEW m \in 1..Modules, OthersTag(m) PROVE IInv'
  <2>1. /\ remote.tags[m] = NoTag /\ remote' = [remote EXCEPT !.tags[m] = Foreign] /\ UNCHANGED inflight
    BY <1>7 DEF OthersTag
  <2>2. remote'.main = remote.main /\ remote'.tags = [remote.tags EXCEPT ![m] = Foreign]
    BY <1>2, <2>1 DEF Remotes
  <2>3. remote' \in Remotes
    <3>1. remote'.tags \in [1..Modules -> Tags]
      BY <1>2, <2>2 DEF Remotes, Tags
    <3> QED
      BY <1>2, <2>1, <2>2, <3>1 DEF Remotes
  <2>4. \A n \in 1..Modules : remote'.tags[n] = IF n = m THEN Foreign ELSE remote.tags[n]
    BY <1>2, <2>2 DEF Remotes
  <2>5. Published => active.candidate = 0
    BY <2>1 DEF Published, NoTag
  <2>6. \A n \in 1..Modules : ~(remote.tags[n] > 0)
    BY <2>1 DEF IInv, AtomicPublication, Published, NoTag
  <2>7. AtomicPublication'
    BY <2>4, <2>6 DEF AtomicPublication, Foreign
  <2> QED
    BY <1>3, <2>1, <2>2, <2>3, <2>4, <2>5, <2>7 DEF IInv, OneCandidatePublished
<1> QED
  BY <1>4, <1>5, <1>6, <1>7

LEMMA InvariantStep == IInv /\ [Next]_vars => IInv'
<1> SUFFICES ASSUME IInv, [Next]_vars PROVE IInv'
  OBVIOUS
<1>1. CASE UNCHANGED vars
  BY <1>1 DEF vars, IInv, TypeOK, OneCandidatePublished, AtomicPublication, SuccessIsPublished, Published,
              Told, Where, Observing, Valid
<1>2. ASSUME NEW r \in Runners, Step(r) PROVE IInv'
  BY <1>2, RecordSteps, RemoteSteps DEF Step
<1> QED
  BY <1>1, <1>2, EndingSteps, BeginSteps, OutsideSteps DEF Next

\* However often a release is interrupted, run again or answered late: what was
\* pushed and may arrive is the one recorded candidate, the remote has all of it
\* or nothing, and nobody is told otherwise.
THEOREM ReleaseIsOneCandidate == Spec => []OneWholeCandidate
<1> QED
  BY InvariantInit, InvariantStep, InvariantSuffices, PTL DEF Spec
-----------------------------------------------------------------------------
(* The script implements Publication *)

PublicStep == [\/ Public!Choose \/ Public!Publish \/ Public!Tell
               \/ Public!OthersMove \/ Public!OthersPushTag]_(Public!publicationVars)

LEMMA PublicInit == Init => Public!PublicationInit
BY DEF Init, NoRecord, NoTag, Public!PublicationInit, Public!NoTag

\* A step that leaves the candidate, the remote and what was told: a stutter.
LEMMA PublicStutter ==
  ASSUME active'.candidate = active.candidate, UNCHANGED <<remote, reported>>
  PROVE  PublicStep
BY DEF PublicStep, Public!publicationVars

\* Of the steps on the record, one chooses the candidate.
LEMMA PublicRecordSteps ==
  ASSUME IInv, NEW r \in Runners,
         \/ Create(r) \/ WriteRecords(r) \/ List(r) \/ Listed(r) \/ Resume(r) \/ Continue(r)
         \/ Build(r) \/ RecordCandidate(r) \/ Truncate(r) \/ Seal(r) \/ Sealed(r) \/ Validate(r)
         \/ Inspect(r) \/ Finish(r)
  PROVE  PublicStep
<1>1. active \in Records /\ rewritten \in Seq(0..Modules) /\ Len(rewritten) <= MaxBuilds /\ Where(r)
  BY DEF IInv, TypeOK, Records
<1>2. UNCHANGED <<remote, reported>>
  BY DEF Create, WriteRecords, List, Listed, Resume, Continue, Build, RecordCandidate, Truncate, Seal,
         Sealed, Validate, Inspect, Finish, env
<1>3. CASE RecordCandidate(r)
  <2>1. active.candidate = 0 /\ Len(rewritten) \in 1..MaxBuilds
    BY <1>1, <1>3, MaxBuildsAssumption DEF RecordCandidate, Go, Where
  <2>2. active'.candidate = Len(rewritten)
    BY <1>1, <1>3 DEF RecordCandidate, Put, Records
  <2>3. Public!Choose
    BY <1>2, <2>1, <2>2 DEF Public!Choose, Public!NoTag
  <2> QED
    BY <2>3 DEF PublicStep
<1>4. CASE ~RecordCandidate(r)
  <2>1. active'.candidate = active.candidate
    BY <1>1, <1>4 DEF Create, WriteRecords, List, Listed, Resume, Continue, Build, Truncate, Seal, Sealed,
                      Validate, Inspect, Finish, Put, Records
  <2> QED
    BY <1>2, <2>1, PublicStutter
<1> QED
  BY <1>3, <1>4

\* Of the steps around the push, those tell that report what they observed.
LEMMA PublicRemoteSteps ==
  ASSUME IInv, NEW r \in Runners,
         ObserveMain(r) \/ ObserveTags(r) \/ Archive(r) \/ CheckMain(r) \/ Confirm(r) \/ Push(r)
  PROVE  PublicStep
<1>1. active \in Records /\ Where(r)
  BY DEF IInv, TypeOK, Records
<1>2. UNCHANGED remote /\ active'.candidate = active.candidate
  BY <1>1 DEF ObserveMain, ObserveTags, Archive, CheckMain, Confirm, Push, env, Put, Records
<1>3. CASE UNCHANGED reported
  BY <1>2, <1>3, PublicStutter
<1>4. CASE reported' # reported
  <2>1. reported' = TRUE /\ Published /\ active.candidate # 0
    <3>1. CASE ObserveTags(r)
      <4>1. pc[r] = "observe_tags"
        BY <3>1 DEF ObserveTags, Go, Leave
      <4>2. op[r] \in {"publish", "resume", "verify"} /\ Observed(r) = "complete" /\ reported' = TRUE
        <5>1. reported' = (reported \/ (op[r] \in {"publish", "resume", "verify"} /\ Observed(r) = "complete"))
          BY <3>1 DEF ObserveTags
        <5>2. reported \in BOOLEAN
          BY DEF IInv, TypeOK
        <5> QED
          BY <1>4, <5>1, <5>2
      <4> QED
        BY <4>1, <4>2, CompleteIsPublished
    <3>2. CASE Archive(r)
      BY <1>1, <3>2 DEF Archive, Leave, Go, Where, Observing, Valid
    <3> QED
      BY <1>4, <3>1, <3>2 DEF ObserveMain, CheckMain, Confirm, Push, env
  <2>2. Public!Tell
    BY <1>2, <2>1 DEF Published, Public!Tell, Public!NoTag
  <2> QED
    BY <2>2 DEF PublicStep
<1> QED
  BY <1>3, <1>4

\* What the remote does, and what others do to it.
LEMMA PublicOutsideSteps ==
  ASSUME IInv, \/ \E c \in inflight : Accept(c) \/ Drop(c)
               \/ OthersMoveMain \/ \E m \in 1..Modules : OthersTag(m)
  PROVE  PublicStep
<1>1. UNCHANGED <<active, reported>> /\ remote \in Remotes
  BY DEF Accept, Drop, OthersMoveMain, OthersTag, local, IInv, TypeOK, Remotes
<1>2. ASSUME NEW c \in inflight, Accept(c) PROVE PublicStep
  <2>1. c = active.candidate /\ c \in 1..MaxBuilds
    BY DEF IInv, TypeOK, OneCandidatePublished
  <2>2. remote'.main = "source" /\ remote'.tags = [m \in 1..Modules |-> c]
    BY <1>2 DEF Accept
  <2>3. Public!Publish
    BY <1>1, <1>2, <2>1, <2>2 DEF Accept, FastForwards, Public!Publish, Public!NoTag, NoTag
  <2> QED
    BY <2>3 DEF PublicStep
<1>3. ASSUME NEW c \in inflight, Drop(c) PROVE PublicStep
  BY <1>1, <1>3, PublicStutter DEF Drop
<1>4. CASE OthersMoveMain
  <2>1. PICK to \in {"source", "ahead", "diverged"} :
          /\ remote' = [remote EXCEPT !.main = to]
          /\ \/ remote.main = "behind"
             \/ remote.main \in {"source", "diverged"} /\ to = "ahead"
    BY <1>1, <1>4 DEF OthersMoveMain, Remotes
  <2>2. remote'.main = to /\ remote'.tags = remote.tags
    BY <1>1, <2>1 DEF Remotes
  <2>3. Public!OthersMove
    BY <1>1, <2>1, <2>2 DEF Public!OthersMove
  <2> QED
    BY <2>3 DEF PublicStep
<1>5. ASSUME NEW m \in 1..Modules, OthersTag(m) PROVE PublicStep
  <2>1. remote.tags[m] = NoTag /\ remote'.main = remote.main /\ remote'.tags = [remote.tags EXCEPT ![m] = Foreign]
    BY <1>1, <1>5 DEF OthersTag, Remotes
  <2>2. Public!OthersPushTag
    BY <1>1, <2>1 DEF Public!OthersPushTag, Public!NoTag, Public!Foreign, NoTag, Foreign
  <2> QED
    BY <2>2 DEF PublicStep
<1> QED
  BY <1>2, <1>3, <1>4, <1>5

\* Every step of the script, the remote and other people is a step of Publication, or changes
\* nothing that Publication sees.
LEMMA PublicSteps == IInv /\ [Next]_vars => PublicStep
<1> SUFFICES ASSUME IInv, [Next]_vars PROVE PublicStep
  OBVIOUS
<1>1. CASE UNCHANGED vars
  BY <1>1, PublicStutter DEF vars
<1>2. ASSUME NEW r \in Runners, Step(r) PROVE PublicStep
  BY <1>2, PublicRecordSteps, PublicRemoteSteps DEF Step
<1>3. ASSUME NEW r \in Runners, (\E o \in Operations : Begin(r, o)) \/ Stop(r) \/ Kill(r) \/ Fail(r) \/ Unreadable(r)
      PROVE  PublicStep
  <2>1. UNCHANGED <<remote, reported>>
    BY <1>3 DEF Begin, Stop, Kill, Fail, Unreadable, env
  <2>2. active'.candidate = active.candidate
    BY <1>3 DEF Begin, Stop, Kill, Fail, Unreadable, Put, IInv, TypeOK
  <2> QED
    BY <2>1, <2>2, PublicStutter
<1>4. CASE RemoveStaleLock
  BY <1>4, PublicStutter DEF RemoveStaleLock
<1> QED
  BY <1>1, <1>2, <1>3, <1>4, PublicOutsideSteps DEF Next

\* What the remote shows, and what is said of it, is a publication: a version is
\* chosen once and appears with all its tags at one moment, whatever runs are
\* killed, resumed or answered late.
THEOREM ReleaseIsAPublication == Spec => ImplementsPublication
<1>1. PublicStep <=> [\/ Public!Choose \/ Public!Publish \/ Public!Tell
                      \/ Public!OthersMove \/ Public!OthersPushTag]_(Public!publicationVars)
  BY DEF PublicStep
<1> QED
  BY <1>1, PublicSteps, PublicInit, InvariantInit, InvariantStep, PTL
     DEF Spec, ImplementsPublication, Public!PublicationSpec

\* The inventory of modules is left only when it is whole: no run is killed, stopped
\* or fails in the loop that writes it.
ListingEndsWhole == \A r \in Runners : pc[r] = "list" /\ pc'[r] = "idle" => active.paths = Modules

\* Then whoever finds a record that loads finds a whole inventory in it, and so
\* does every candidate that was built.
Listing ==
  /\ active.stage \in {"listed", "archived"} => active.paths = Modules \/ \E r \in Runners : pc[r] = "list"
  /\ \A r \in Runners : pc[r] \in {"phase", "prepare"} => active.paths = Modules
  /\ \A r \in Runners : pc[r] \notin {"idle", "begin", "records"} => active.stage = "listed"
  /\ \A b \in 1..Len(rewritten) : rewritten[b] = Modules
  /\ active.candidate <= Len(rewritten)

\* A step that touches neither the inventory nor the candidates.
LEMMA ListingKept ==
  ASSUME IInv, Listing, NEW r \in Runners, NEW to \in Steps, pc' = [pc EXCEPT ![r] = to],
         active'.stage = active.stage, active'.paths = active.paths,
         active'.candidate = active.candidate, UNCHANGED rewritten,
         pc[r] = "list" => to = "list" \/ active.paths = Modules,
         to \in {"phase", "prepare"} => active.paths = Modules,
         to \notin {"idle", "begin", "records"} => active.stage = "listed"
  PROVE  Listing'
<1>1. pc'[r] = to /\ \A q \in Runners : q # r => pc'[q] = pc[q]
  BY DEF IInv, TypeOK
<1>2. (\E q \in Runners : pc[q] = "list") => active'.paths = Modules \/ \E q \in Runners : pc'[q] = "list"
  BY <1>1
<1> QED
  BY <1>1, <1>2 DEF Listing

\* Whoever finds a record that loads, alone in the script, finds it whole.
LEMMA WholeWhenAlone ==
  ASSUME IInv, Listing, NEW r \in Runners, pc[r] \notin {"idle", "list"}, active.stage \in {"listed", "archived"}
  PROVE  active.paths = Modules
<1>1. \A q \in Runners : q # r => pc[q] = "idle"
  BY Alone DEF IInv
<1> QED
  BY <1>1 DEF Listing

\* The steps on the record that write the inventory, the candidates or the stage.
LEMMA ListingSteps ==
  ASSUME IInv, Listing, NEW r \in Runners,
         Create(r) \/ WriteRecords(r) \/ List(r) \/ Build(r) \/ RecordCandidate(r) \/ Archive(r)
  PROVE  Listing'
<1>1. pc[r] # "idle" /\ \A q \in Runners : q # r => pc[q] = "idle"
  BY Alone DEF IInv, Create, WriteRecords, List, Build, RecordCandidate, Archive, Leave, Go
<1>2. pc \in [Runners -> Steps] /\ active \in Records /\ rewritten \in Seq(0..Modules)
  BY DEF IInv, TypeOK, Records
<1>3. CASE Create(r)
  <2>1. active' = [active EXCEPT !.stage = "created"] /\ pc' = [pc EXCEPT ![r] = "records"] /\ UNCHANGED rewritten
    BY <1>3 DEF Create, Go, Put
  <2>2. active'.stage = "created" /\ active'.candidate = active.candidate
    BY <1>2, <2>1 DEF Records
  <2> QED
    BY <1>1, <1>2, <2>1, <2>2 DEF Listing
<1>4. CASE WriteRecords(r)
  <2>1. active' = [active EXCEPT !.stage = "listed"] /\ pc' = [pc EXCEPT ![r] = "list"] /\ UNCHANGED rewritten
    BY <1>4 DEF WriteRecords, Go, Put
  <2>2. active'.stage = "listed" /\ active'.candidate = active.candidate
    BY <1>2, <2>1 DEF Records
  <2> QED
    BY <1>1, <1>2, <2>1, <2>2 DEF Listing
<1>5. CASE List(r)
  <2>1. /\ active' = [active EXCEPT !.paths = active.paths + 1] /\ pc[r] = "list"
        /\ pc' = [pc EXCEPT ![r] = "list"] /\ UNCHANGED rewritten
    BY <1>5 DEF List, Go, Put
  <2>2. active'.stage = active.stage /\ active'.candidate = active.candidate /\ pc' = pc
    BY <1>2, <2>1 DEF Records
  <2> QED
    BY <1>1, <2>1, <2>2 DEF Listing
<1>6. CASE Build(r)
  <2>1. /\ active' = active /\ pc[r] = "prepare" /\ pc' = [pc EXCEPT ![r] = "record"]
        /\ rewritten' = Append(rewritten, active.paths)
    BY <1>6 DEF Build, Go, env
  <2>2. active.paths = Modules /\ active.stage = "listed"
    BY <2>1 DEF Listing
  <2>3. active.candidate <= Len(rewritten') /\ \A b \in 1..Len(rewritten') : rewritten'[b] = Modules
    <3>1. PICK n \in Nat : n = Len(rewritten)
      BY <1>2
    <3>2. /\ Len(rewritten') = n + 1 /\ rewritten'[n + 1] = Modules
          /\ \A b \in 1..n : rewritten'[b] = rewritten[b]
      BY <1>2, <2>1, <2>2, <3>1
    <3>3. active.candidate \in Nat /\ active.candidate <= n
      BY <1>2, <3>1, MaxBuildsAssumption DEF Listing, Records
    <3> QED
      BY <3>1, <3>2, <3>3 DEF Listing
  <2> QED
    BY <1>1, <1>2, <2>1, <2>2, <2>3 DEF Listing
<1>7. CASE RecordCandidate(r)
  <2>1. /\ active' = [active EXCEPT !.candidate = Len(rewritten)] /\ pc[r] = "record"
        /\ pc' = [pc EXCEPT ![r] = "truncate"] /\ UNCHANGED rewritten
    BY <1>7 DEF RecordCandidate, Go, Put
  <2>2. /\ active'.stage = active.stage /\ active'.paths = active.paths
        /\ active'.candidate = Len(rewritten) /\ Len(rewritten) <= Len(rewritten)
    BY <1>2, <2>1 DEF Records
  <2>3. active.paths = Modules /\ active.stage = "listed"
    BY <2>1, WholeWhenAlone DEF Listing
  <2> QED
    BY <1>1, <1>2, <2>1, <2>2, <2>3 DEF Listing
<1>8. CASE Archive(r)
  <2>1. /\ active' = [active EXCEPT !.stage = "archived"] /\ pc[r] = "archive"
        /\ pc' = [pc EXCEPT ![r] = "idle"] /\ UNCHANGED rewritten
    BY <1>8 DEF Archive, Leave, Go, Put
  <2>2. active'.paths = active.paths /\ active'.candidate = active.candidate
    BY <1>2, <2>1 DEF Records
  <2>3. active.paths = Modules
    BY <2>1, WholeWhenAlone DEF Listing
  <2> QED
    BY <1>1, <1>2, <2>1, <2>2, <2>3 DEF Listing
<1> QED
  BY <1>3, <1>4, <1>5, <1>6, <1>7, <1>8

\* All other steps of a run.
LEMMA ListingOtherSteps ==
  ASSUME IInv, Listing, ListingEndsWhole, NEW r \in Runners,
         \/ (\E o \in Operations : Begin(r, o)) \/ Stop(r) \/ Fail(r) \/ Kill(r) \/ Unreadable(r)
         \/ Listed(r) \/ Resume(r) \/ Continue(r) \/ Truncate(r) \/ Seal(r) \/ Sealed(r)
         \/ Validate(r) \/ Inspect(r) \/ Finish(r) \/ ObserveMain(r) \/ ObserveTags(r)
         \/ CheckMain(r) \/ Confirm(r) \/ Push(r)
  PROVE  Listing'
<1>1. pc \in [Runners -> Steps] /\ active \in Records
  BY DEF IInv, TypeOK, Records
<1>2. CASE (\E o \in Operations : Begin(r, o)) \/ Stop(r) \/ Fail(r) \/ Kill(r) \/ Unreadable(r)
  <2>1. /\ \E to \in {"idle", "begin"} : pc' = [pc EXCEPT ![r] = to]
        /\ UNCHANGED rewritten
        /\ active' = active \/ \E status \in {"unknown"} : active' = [active EXCEPT !.status = status]
    BY <1>2 DEF Begin, Stop, Fail, Kill, Unreadable, Leave, Go, env, Put
  <2>2. /\ active'.stage = active.stage /\ active'.paths = active.paths
        /\ active'.candidate = active.candidate
    BY <1>1, <2>1 DEF Records
  <2>3. PICK to \in {"idle", "begin"} : pc' = [pc EXCEPT ![r] = to]
    BY <2>1
  <2>4. pc[r] = "list" => active.paths = Modules
    <3>1. CASE \E o \in Operations : Begin(r, o)
      BY <3>1 DEF Begin, Go
    <3>2. CASE Stop(r) \/ Fail(r) \/ Kill(r) \/ Unreadable(r)
      <4>1. pc'[r] = "idle"
        BY <1>1, <3>2 DEF Stop, Fail, Kill, Unreadable, Leave, Go
      <4> QED
        BY <4>1 DEF ListingEndsWhole
    <3> QED
      BY <1>2, <3>1, <3>2
  <2> QED
    BY <2>1, <2>2, <2>3, <2>4, ListingKept DEF Steps
<1>3. CASE \/ Listed(r) \/ Resume(r) \/ Continue(r) \/ Truncate(r) \/ Seal(r) \/ Sealed(r)
           \/ Validate(r) \/ Inspect(r) \/ Finish(r) \/ ObserveMain(r) \/ ObserveTags(r)
           \/ CheckMain(r) \/ Confirm(r) \/ Push(r)
  <2>1. /\ UNCHANGED rewritten
        /\ active'.stage = active.stage /\ active'.paths = active.paths
        /\ active'.candidate = active.candidate
    BY <1>1, <1>3 DEF Listed, Resume, Continue, Truncate, Seal, Sealed, Validate, Inspect, Finish, ObserveMain,
                      ObserveTags, CheckMain, Confirm, Push, env, Put, Records
  <2>2. PICK to \in Steps : pc' = [pc EXCEPT ![r] = to]
    BY <1>3 DEF Listed, Resume, Continue, Truncate, Seal, Sealed, Validate, Inspect, Finish, ObserveMain,
                ObserveTags, CheckMain, Confirm, Push, Leave, Go, NextStep, Steps
  <2>3. pc[r] = "list" => active.paths = Modules
    BY <1>3 DEF Listed, Resume, Continue, Truncate, Seal, Sealed, Validate, Inspect, Finish, ObserveMain,
                ObserveTags, CheckMain, Confirm, Push, Leave, Go
  <2>4. pc[r] # "idle" /\ (pc[r] = "begin" => active.stage = "listed") /\ pc[r] # "records"
    BY <1>3 DEF Listed, Resume, Continue, Truncate, Seal, Sealed, Validate, Inspect, Finish, ObserveMain,
                ObserveTags, CheckMain, Confirm, Push, Leave, Go, Loads
  <2>5. active.stage = "listed"
    BY <2>4 DEF Listing
  <2>6. active.paths = Modules
    BY <2>3, <2>4, <2>5, WholeWhenAlone
  <2> QED
    BY <2>1, <2>2, <2>5, <2>6, ListingKept
<1> QED
  BY <1>2, <1>3

LEMMA ListingStep == IInv /\ Listing /\ [Next /\ ListingEndsWhole]_vars => Listing'
<1> SUFFICES ASSUME IInv, Listing, [Next /\ ListingEndsWhole]_vars PROVE Listing'
  OBVIOUS
<1>1. CASE UNCHANGED vars
  BY <1>1 DEF vars, Listing
<1>2. ASSUME ListingEndsWhole, NEW r \in Runners,
             \/ \E o \in Operations : Begin(r, o)
             \/ Stop(r) \/ Fail(r) \/ Kill(r) \/ Step(r) \/ Unreadable(r)
      PROVE  Listing'
  BY <1>2, ListingSteps, ListingOtherSteps DEF Step
<1>3. CASE \/ \E c \in inflight : Accept(c) \/ Drop(c)
           \/ RemoveStaleLock \/ OthersMoveMain \/ \E m \in 1..Modules : OthersTag(m)
  <2>1. UNCHANGED <<pc, active, rewritten>>
    BY <1>3 DEF Accept, Drop, RemoveStaleLock, OthersMoveMain, OthersTag, local
  <2> QED
    BY <2>1 DEF Listing
<1> QED
  BY <1>1, <1>2, <1>3 DEF Next

\* As long as no run is interrupted in the loop that writes module-paths, whatever
\* else is, and wherever, a published candidate has the manifests of all modules
\* rewritten (docs/release/runbook.md:34): the loop is the only such place.
THEOREM ManifestsFollowWholeLists ==
  Spec /\ [][ListingEndsWhole]_vars => []ManifestsAreComplete
<1>1. Init => Listing
  BY MaxBuildsAssumption DEF Init, NoRecord, Listing
<1>2. IInv /\ Listing => ManifestsAreComplete
  <2> SUFFICES ASSUME IInv, Listing, NEW m \in 1..Modules, remote.tags[m] > 0
               PROVE  rewritten[remote.tags[m]] = Modules
    BY DEF ManifestsAreComplete
  <2>1. remote.tags[m] = active.candidate
    BY DEF IInv, OneCandidatePublished, NoTag, Foreign
  <2>2. active.candidate \in 1..Len(rewritten)
    BY <2>1, MaxBuildsAssumption DEF IInv, TypeOK, Listing
  <2> QED
    BY <2>1, <2>2 DEF Listing
<1>3. [Next]_vars /\ [ListingEndsWhole]_vars => [Next /\ ListingEndsWhole]_vars
  OBVIOUS
<1> QED
  BY <1>1, <1>2, <1>3, ListingStep, InvariantInit, InvariantStep, PTL DEF Spec

\* "Recovery never rewinds main or changes public tags": a version that is on the
\* remote stays there, whatever this script and the others do next.
THEOREM PublishedStays == Spec => [][Published /\ active.candidate # NoTag => Published']_vars
<1>1. PublicStep => (Published /\ active.candidate # NoTag => Published')
  <2> SUFFICES ASSUME PublicStep, Published, active.candidate # NoTag PROVE Published'
    OBVIOUS
  <2>1. CASE Public!OthersPushTag
    BY ModulesAssumption, <2>1 DEF Published, Public!OthersPushTag, Public!NoTag, NoTag
  <2>2. CASE ~Public!OthersPushTag
    BY <2>2 DEF PublicStep, Published, Public!Choose, Public!Publish, Public!Tell, Public!OthersMove,
                Public!publicationVars, Public!NoTag, NoTag
  <2> QED
    BY <2>1, <2>2
<1> QED
  BY <1>1, PublicSteps, InvariantInit, InvariantStep, PTL DEF Spec

-----------------------------------------------------------------------------
(* CheckConformance. The invariant ties what the instruments hold of a     *)
(* boundary to what was exported from it, and keeps of every boundary      *)
(* shown what its rules established.                                       *)

\* What the instruments hold of a boundary goes with what is exported from it.
LedgerOf(b) ==
  /\ exported[b] = <<>> => charged[b] = NoCharge
  /\ Len(exported[b]) = 1 => charged[b] = Booked(NoCharge, exported[b][1].usage)
  /\ \A i \in Instruments : charged[b][i].count <= 3 * Len(exported[b])

Ledgers == Recordings(exported) <= MaxRecords /\ \A b \in Names : LedgerOf(b)

\* A boundary shown by a fixture without a failed entry: its account, its owner,
\* its values.
Sole(e) ==
  /\ Len(e.spans) = 1
  /\ e.boundary = "model" => e.account = Charge(e.spans[1].usage) /\ e.account = Booked(NoCharge, happened)
  /\ e.boundary = "model" /\ (\A i \in Instruments : Sum(happened, i) <= MaxInt) => e.account = Charge(happened)
  /\ e.boundary # "model" => e.account = NoCharge

Owned(e) ==
  \E a \in Adapters :
    /\ Owners(e.boundary) = {a}
    /\ declared[a].units # {} =>
         \A k \in DOMAIN e.spans : \A m \in Measures :
           e.spans[k].usage[m] # Unknown => m \in declared[a].units

Vetted(e) ==
  \A k \in DOMAIN e.spans :
    LET s == e.spans[k]
    IN /\ s.named # Absent /\ s.status \in {Absent, "declared"}
       /\ s.messages # Absent => RoleAllowed(s.messages)
       /\ s.truncated # Absent => s.messages # Absent

Exhibits == \A e \in shown : Sole(e) /\ Owned(e) /\ Vetted(e)

\* Fixtures are judged in turn, each of them.
Judged ==
  /\ checked = 1..(running - 1)
  /\ phase = "reported" => running = Len(fixtures) + 1
  /\ \A f \in 1..(running - 1) :
       fixtures[f] = "fails" \/ (\A e \in shown : e.fixture # f) => f \in failed

Composed == phase \in {"fixtures", "reported"} => ValidComposition

ConformanceInv == ConformanceTypeOK /\ Composed /\ Ledgers /\ Exhibits /\ Judged

-----------------------------------------------------------------------------
\* int64 sums stay in range, and those that fit are exact.
LEMMA Int64Type ==
  ASSUME NEW n \in Int
  PROVE  Int64(n) \in -(MaxInt + 1)..MaxInt
<1>1. ASSUME NEW a \in Int, NEW d \in Nat, d > 0 PROVE a % d \in 0..d - 1
  BY <1>1
<1> QED
  BY <1>1, ConformanceAssumption DEF Int64

\* An amount that fits int64 is its own representation.
LEMMA Int64Fits ==
  ASSUME NEW n \in 0..MaxInt
  PROVE  Int64(n) = n
<1>1. ASSUME NEW a \in Nat, NEW d \in Nat, a < d PROVE a % d = a
  BY <1>1
<1>2. n + MaxInt + 1 \in Nat /\ 2 * (MaxInt + 1) \in Nat /\ n + MaxInt + 1 < 2 * (MaxInt + 1)
  BY ConformanceAssumption
<1>3. (n + MaxInt + 1) % (2 * (MaxInt + 1)) = n + MaxInt + 1
  BY <1>1, <1>2
<1> QED
  BY <1>3, ConformanceAssumption DEF Int64

\* A usage writes at most three data points to an instrument, and a sum only
\* with them.
LEMMA UsageType ==
  ASSUME NEW u \in Usages, NEW i \in Instruments
  PROVE  /\ Count(u, i) \in 0..3 /\ Sum(u, i) \in Nat
         /\ Count(u, i) = 0 => Sum(u, i) = 0
<1>1. \A m \in Measures : u[m] \in Int /\ (u[m] = Unknown \/ u[m] >= 0)
  BY ConformanceAssumption DEF Unknown
<1>2. ASSUME NEW m \in Measures
      PROVE  Writes(u, m) \in 0..1 /\ Value(u, m) \in Nat /\ (Writes(u, m) = 0 => Value(u, m) = 0)
  BY <1>1, <1>2 DEF Writes, Value, Unknown
<1>3. CASE i = "component"
  <2>1. {"cacheRead", "cacheWrite", "reasoning"} \subseteq Measures
    BY DEF Measures
  <2> QED
    BY <1>2, <1>3, <2>1 DEF Count, Sum
<1>4. CASE i # "component"
  <2>1. i \in Measures
    BY <1>4 DEF Measures, Instruments
  <2> QED
    BY <1>2, <1>4, <2>1 DEF Count, Sum
<1> QED
  BY <1>3, <1>4

\* Accounts are functions over the instruments.
LEMMA AccountsAre ==
  ASSUME NEW u
  PROVE  /\ Booked(NoCharge, u) = [i \in Instruments |-> Booked(NoCharge, u)[i]]
         /\ Charge(u) = [i \in Instruments |-> Charge(u)[i]]
         /\ NoCharge = [i \in Instruments |-> NoCharge[i]]
BY DEF Booked, Charge, NoCharge

\* One recording on empty instruments.
LEMMA BookedIs ==
  ASSUME NEW u \in Usages, NEW i \in Instruments
  PROVE  /\ Booked(NoCharge, u)[i] = [count |-> Count(u, i), total |-> Int64(Sum(u, i))]
         /\ Booked(NoCharge, u)[i].count = Count(u, i)
         /\ Booked(NoCharge, u)[i] \in [count : Nat, total : Int]
<1>1. Booked(NoCharge, u)[i] = [count |-> Count(u, i), total |-> Int64(Sum(u, i))]
  BY UsageType DEF Booked, NoCharge
<1>2. Count(u, i) \in Nat /\ Sum(u, i) \in Int
  BY UsageType
<1>3. Int64(Sum(u, i)) \in Int
  BY <1>2, Int64Type, ConformanceAssumption
<1> QED
  BY <1>1, <1>2, <1>3

\* It is exact when its sum fits, and nothing when it writes nothing.
LEMMA BookedOnce ==
  ASSUME NEW u \in Usages, NEW i \in Instruments
  PROVE  /\ Sum(u, i) <= MaxInt => Booked(NoCharge, u)[i] = Charge(u)[i]
         /\ Count(u, i) = 0 => Booked(NoCharge, u)[i] = NoCharge[i]
<1>1. Booked(NoCharge, u)[i] = [count |-> Count(u, i), total |-> Int64(Sum(u, i))]
  BY BookedIs
<1>2. Sum(u, i) <= MaxInt => Int64(Sum(u, i)) = Sum(u, i)
  BY UsageType, Int64Fits, ConformanceAssumption
<1>3. Int64(0) = 0
  BY Int64Fits, ConformanceAssumption
<1> QED
  BY <1>1, <1>2, <1>3, UsageType DEF Charge, NoCharge

\* The account of a list of witnesses that are whole: what it leaves out is zero.
LEMMA EntryOfWitnesses ==
  ASSUME NEW c \in [Instruments -> [count : Nat, total : Int]], NEW ev \in Evidence, NEW i \in Instruments
  PROVE  Entry(AccountOf(Written({Witness(j, 0, c[j]) : j \in Instruments}, ev)), i)
           = IF ev.zeros \/ c[i].count > 0 THEN c[i] ELSE NoCharge[i]
<1> DEFINE all == {Witness(j, 0, c[j]) : j \in Instruments}
           list == Written(all, ev)
<1>1. \A w \in list : \E j \in Instruments : w = Witness(j, 0, c[j])
  BY DEF Written
<1>2. \A w \in list : w.instrument = i => w = Witness(i, 0, c[i])
  BY <1>1 DEF Witness
<1>3. Witness(i, 0, c[i]) \in list <=> ev.zeros \/ c[i].count > 0
  BY DEF Written, Witness
<1>4. i \in {w.instrument : w \in list} <=> ev.zeros \/ c[i].count > 0
  BY <1>2, <1>3 DEF Witness
<1>5. ASSUME ev.zeros \/ c[i].count > 0
      PROVE  Entry(AccountOf(list), i) = c[i]
  <2>1. \E v \in list : v.instrument = i
    BY <1>3, <1>5 DEF Witness
  <2> HIDE DEF list
  <2>2. (CHOOSE v \in list : v.instrument = i) = Witness(i, 0, c[i])
    BY <1>2, <2>1
  <2>3. \A j \in {w.instrument : w \in list} :
          AccountOf(list)[j] = [count |-> (CHOOSE v \in list : v.instrument = j).count,
                                total |-> (CHOOSE v \in list : v.instrument = j).total]
    BY DEF AccountOf
  <2>4. AccountOf(list)[i] = [count |-> c[i].count, total |-> c[i].total]
    <3>1. i \in {w.instrument : w \in list}
      BY <2>1
    <3>2. AccountOf(list)[i] = [count |-> (CHOOSE v \in list : v.instrument = i).count,
                                total |-> (CHOOSE v \in list : v.instrument = i).total]
      BY <2>3, <3>1
    <3>3. Witness(i, 0, c[i]).count = c[i].count /\ Witness(i, 0, c[i]).total = c[i].total
      BY DEF Witness
    <3> HIDE DEF all
    <3> QED
      BY <2>2, <3>2, <3>3, Zenon
  <2>5. i \in DOMAIN AccountOf(list)
    BY <2>1 DEF AccountOf
  <2>6. c[i] = [count |-> c[i].count, total |-> c[i].total]
    OBVIOUS
  <2> QED
    BY <2>4, <2>5, <2>6 DEF Entry
<1>6. ASSUME ~(ev.zeros \/ c[i].count > 0)
      PROVE  Entry(AccountOf(list), i) = NoCharge[i]
  <2> HIDE DEF list
  <2>1. i \notin DOMAIN AccountOf(list)
    BY <1>4, <1>6 DEF AccountOf
  <2> QED
    BY <2>1 DEF Entry
<1> QED
  BY <1>5, <1>6

\* The account of a boundary whose one recording satisfies the rule: it is that
\* recording, exactly, and what happened; nothing at all but at the model.
LEMMA AccountingIsTrue ==
  ASSUME ConformanceInv, NEW b \in Boundaries, NEW ev \in Evidence,
         ValidAccounting(b, exported[b][1].usage, ev)
  PROVE  /\ Len(exported[b]) = 1
         /\ b = "model" => charged[b] = Charge(exported[b][1].usage) /\ charged[b] = Booked(NoCharge, happened)
         /\ b = "model" /\ (\A i \in Instruments : Sum(happened, i) <= MaxInt) => charged[b] = Charge(happened)
         /\ b # "model" => charged[b] = NoCharge
<1> DEFINE u == exported[b][1].usage
<1>1. Len(exported[b]) = 1 /\ b \in Names
  BY DEF ValidAccounting, Names
<1>2. u \in Usages /\ happened \in Usages
  <2>1. exported[b] \in Seq(Spans)
    BY <1>1 DEF ConformanceInv, ConformanceTypeOK
  <2>2. exported[b][1] \in Spans
    BY <1>1, <2>1
  <2> QED
    BY <2>2, ConformanceAssumption DEF ConformanceInv, ConformanceTypeOK
<1>3. charged[b] = Booked(NoCharge, u)
  BY <1>1 DEF ConformanceInv, Ledgers, LedgerOf
<1> HIDE DEF u
<1>4. /\ Booked(NoCharge, u) \in [Instruments -> [count : Nat, total : Int]]
      /\ Booked(NoCharge, happened) \in [Instruments -> [count : Nat, total : Int]]
  <2>1. ASSUME NEW h \in Usages
        PROVE  Booked(NoCharge, h) \in [Instruments -> [count : Nat, total : Int]]
    <3>1. ASSUME NEW i \in Instruments
          PROVE  Booked(NoCharge, h)[i] \in [count : Nat, total : Int]
      BY BookedIs
    <3> QED
      BY <3>1, AccountsAre
  <2> QED
    BY <1>2, <2>1
<1>5. CASE b = "model"
  <2>1. ASSUME NEW i \in Instruments
        PROVE  /\ Sum(u, i) <= MaxInt
               /\ Booked(NoCharge, happened)[i] = Charge(u)[i] /\ Booked(NoCharge, u)[i] = Charge(u)[i]
    <3> DEFINE c == Booked(NoCharge, happened)
    <3>1. Expectation(b, ev) = Written({Witness(j, 0, c[j]) : j \in Instruments}, ev)
      BY <1>5 DEF Expectation
    <3>2. UsageMatches(u, AccountOf(Expectation(b, ev)))
      BY <1>5 DEF ValidAccounting, Accounting, u
    <3>3. Sum(u, i) <= MaxInt /\ Entry(AccountOf(Expectation(b, ev)), i) = Charge(u)[i]
      BY <3>2 DEF UsageMatches
    <3>4. c[i].count = Count(happened, i)
      BY <1>2, BookedIs
    <3>5. c[i].count > 0 \/ c[i] = NoCharge[i]
      <4>1. Count(happened, i) \in 0..3
        BY <1>2, UsageType
      <4>2. Count(happened, i) = 0 => c[i] = NoCharge[i]
        BY <1>2, BookedOnce
      <4> QED
        BY <3>4, <4>1, <4>2
    <3>6. Entry(AccountOf(Expectation(b, ev)), i) = IF ev.zeros \/ c[i].count > 0 THEN c[i] ELSE NoCharge[i]
      BY <1>4, <3>1, EntryOfWitnesses
    <3>7. c[i] = Charge(u)[i]
      BY <3>3, <3>5, <3>6
    <3> QED
      BY <1>2, <3>3, <3>7, BookedOnce
  <2>3. Booked(NoCharge, u) = Charge(u) /\ Booked(NoCharge, happened) = Charge(u)
    BY <2>1, AccountsAre
  <2>4. ASSUME \A i \in Instruments : Sum(happened, i) <= MaxInt
        PROVE  Booked(NoCharge, happened) = Charge(happened)
    <3>1. \A i \in Instruments : Booked(NoCharge, happened)[i] = Charge(happened)[i]
      BY <1>2, <2>4, BookedOnce
    <3> QED
      BY <3>1, AccountsAre
  <2> QED
    BY <1>1, <1>3, <1>5, <2>3, <2>4 DEF u
<1>6. CASE b # "model"
  <2>1. ASSUME NEW i \in Instruments
        PROVE  Booked(NoCharge, u)[i] = NoCharge[i]
    <3>1. charged[b][i].count = 0
      BY <1>6 DEF ValidAccounting, Accounting
    <3>2. Count(u, i) = 0
      BY <1>2, <1>3, <3>1, BookedIs
    <3> QED
      BY <1>2, <3>2, BookedOnce
  <2>2. Booked(NoCharge, u) = NoCharge
    BY <2>1, AccountsAre
  <2> QED
    BY <1>1, <1>3, <1>6, <2>2
<1> QED
  BY <1>5, <1>6

\* A sequence of one element.
LEMMA OneElement ==
  ASSUME NEW S, NEW seq \in Seq(S), Len(seq) = 1
  PROVE  seq # <<>> /\ DOMAIN seq = {1}
OBVIOUS

\* A boundary that passes has one owner, and what is read of it is all there is.
LEMMA PassingBoundary ==
  ASSUME ConformanceInv, phase = "fixtures", NEW b \in Names, NEW ev \in Evidence, NEW first \in BOOLEAN,
         NEW read, read = IF first THEN DOMAIN exported[b] \cap {1} ELSE DOMAIN exported[b],
         NEW u, u = IF exported[b] = <<>> THEN NoUsage ELSE exported[b][1].usage,
         \A r \in Rules : Holds(r, b, read, u, ev),
         NEW e, e = [fixture |-> running, boundary |-> b, spans |-> exported[b], account |-> charged[b]]
  PROVE  Sole(e) /\ Owned(e) /\ Vetted(e)
<1>1. /\ Owners(b) # {} /\ b \in Boundaries /\ ValidFields(b, read) /\ ValidUnits(b, u)
      /\ ValidAccounting(b, u, ev) /\ ValidEnums(b, read, ev) /\ ValidPayloads(b, read, ev)
  <2>1. {"ownership", "boundary", "fields", "owner_units", "accounting", "enum_values",
         "payload_evidence"} \subseteq Rules
    BY DEF Rules
  <2>2. Holds("ownership", b, read, u, ev) /\ Holds("boundary", b, read, u, ev)
        /\ Holds("fields", b, read, u, ev) /\ Holds("owner_units", b, read, u, ev)
        /\ Holds("accounting", b, read, u, ev) /\ Holds("enum_values", b, read, u, ev)
        /\ Holds("payload_evidence", b, read, u, ev)
    BY <2>1
  <2> QED
    BY <2>2 DEF Holds
<1>2. Len(exported[b]) = 1 /\ exported[b] \in Seq(Spans)
  BY <1>1 DEF ValidAccounting, ConformanceInv, ConformanceTypeOK
<1>3. exported[b] # <<>> /\ DOMAIN exported[b] = {1}
  BY <1>2, OneElement
<1>4. u = exported[b][1].usage /\ read = {1}
  BY <1>3
<1>5. Sole(e)
  BY <1>1, <1>4, AccountingIsTrue DEF Sole
<1>6. Owned(e)
  <2>1. PICK a \in Owners(b) : declared[a].units = {} \/ {m \in Measures : u[m] # Unknown} \subseteq declared[a].units
    BY <1>1 DEF ValidUnits
  <2>2. a \in Adapters
    BY DEF Owners
  <2>3. Owners(b) = {a}
    <3>1. Cardinality(Owners(b)) <= 1
      BY <1>1 DEF ConformanceInv, Composed, ValidComposition
    <3>2. IsFiniteSet(Owners(b))
      BY ConformanceAssumption, FS_Subset DEF Owners
    <3>3. Cardinality(Owners(b)) = 1
      BY <1>1, <3>1, <3>2, FS_CardinalityType, FS_EmptySet
    <3>4. \E x : Owners(b) = {x}
      BY <3>2, <3>3, FS_Singleton
    <3> QED
      BY <3>4
  <2>4. \A k \in DOMAIN exported[b] : k = 1
    BY <1>3
  <2> QED
    BY <1>4, <2>1, <2>2, <2>3, <2>4 DEF Owned
<1>7. Vetted(e)
  <2> DEFINE s == exported[b][1]
  <2>1. ASSUME NEW name
        PROVE  Given(b, read, name) = IF s[name] # Absent THEN {1} ELSE {}
    BY <1>4 DEF Given
  <2>2. s["named"] # Absent
    BY <1>1, <2>1 DEF ValidFields
  <2>3. s["status"] \in {Absent, "declared"}
    BY <1>1, <2>1 DEF ValidEnums
  <2>4. s["messages"] # Absent => RoleAllowed(s["messages"])
    BY <1>1, <2>1 DEF ValidPayloads
  <2>5. s["truncated"] # Absent => s["messages"] # Absent
    BY <1>1, <2>1 DEF ValidPayloads
  <2> QED
    BY <1>3, <2>2, <2>3, <2>4, <2>5 DEF Vetted
<1> QED
  BY <1>5, <1>6, <1>7

\* Before any fixture runs there is nothing to judge.
LEMMA ConformanceInitially == ConformanceInit => ConformanceInv
<1> SUFFICES ASSUME ConformanceInit PROVE ConformanceInv
  OBVIOUS
<1>1. fixtures \in Seq({"runs", "fails", "missing"}) /\ Len(fixtures) \in Nat
  BY ConformanceAssumption DEF ConformanceInit
<1>2. NoCharge \in Accounts
  BY ConformanceAssumption DEF NoCharge, Accounts
<1>3. ConformanceTypeOK
  BY <1>1, <1>2 DEF ConformanceInit, ConformanceTypeOK
<1>4. Ledgers
  <2>1. ASSUME NEW b \in Names PROVE LedgerOf(b)
    BY DEF ConformanceInit, LedgerOf, NoCharge
  <2>2. Recordings(exported) = 0
    BY DEF ConformanceInit, Recordings, Names, Boundaries
  <2> QED
    BY <2>1, <2>2, ConformanceAssumption DEF Ledgers
<1> QED
  BY <1>3, <1>4 DEF ConformanceInit, ConformanceInv, Composed, Exhibits, Judged

\* The telemetry of a fixture that has not recorded yet.
LEMMA FreshTelemetry ==
  ASSUME exported' = [b \in Names |-> <<>>], charged' = [b \in Names |-> NoCharge]
  PROVE  /\ Ledgers' /\ exported' \in [Names -> Seq(Spans)] /\ charged' \in [Names -> Accounts]
<1>1. ASSUME NEW b \in Names PROVE LedgerOf(b)'
  BY DEF LedgerOf, NoCharge
<1>2. Recordings(exported') = 0
  BY DEF Recordings, Names, Boundaries
<1>3. NoCharge \in Accounts
  BY ConformanceAssumption DEF NoCharge, Accounts
<1> QED
  BY <1>1, <1>2, <1>3, ConformanceAssumption DEF Ledgers

\* What is shown stays true: the declarations do not change.
LEMMA ExhibitsStay ==
  ASSUME UNCHANGED hostVars, NEW e
  PROVE  (Sole(e)' <=> Sole(e)) /\ (Owned(e)' <=> Owned(e)) /\ (Vetted(e)' <=> Vetted(e))
BY DEF hostVars, Sole, Owned, Owners, Vetted, RoleAllowed

\* An adapter records.
LEMMA AdapterRecordsStep ==
  ASSUME ConformanceInv, NEW b \in Names, AdapterRecords(b)
  PROVE  ConformanceInv'
<1> USE DEF ConformanceInv
<1>1. PICK s \in Spans : /\ exported' = [exported EXCEPT ![b] = Append(exported[b], s)]
                         /\ charged' = [charged EXCEPT ![b] = Booked(charged[b], s.usage)]
  BY DEF AdapterRecords
<1>2. /\ UNCHANGED <<hostVars, phase, running, checked, failed, shown>>
      /\ Recordings(exported) < MaxRecords /\ s.usage \in Usages
      /\ exported \in [Names -> Seq(Spans)] /\ charged \in [Names -> Accounts]
  BY <1>1, ConformanceAssumption DEF AdapterRecords, ConformanceTypeOK
<1>3. /\ exported' \in [Names -> Seq(Spans)]
      /\ exported'[b] = Append(exported[b], s) /\ charged'[b] = Booked(charged[b], s.usage)
      /\ Len(exported'[b]) = Len(exported[b]) + 1 /\ Len(exported[b]) \in Nat
      /\ \A d \in Names \ {b} : exported'[d] = exported[d] /\ charged'[d] = charged[d]
  BY <1>1, <1>2
<1>4. Recordings(exported') = Recordings(exported) + 1 /\ Len(exported[b]) <= Recordings(exported)
      /\ Recordings(exported) \in Nat
  <2>1. \A d \in Names : Len(exported[d]) \in Nat /\ Len(exported'[d]) = IF d = b THEN Len(exported[d]) + 1 ELSE Len(exported[d])
    BY <1>2, <1>3
  <2>2. Names = {"model", "agent", "unlisted"}
    BY DEF Names, Boundaries
  <2>3. Len(exported["model"]) \in Nat /\ Len(exported["agent"]) \in Nat /\ Len(exported["unlisted"]) \in Nat
    BY <2>1, <2>2
  <2>4. /\ Len(exported'["model"]) = IF b = "model" THEN Len(exported["model"]) + 1 ELSE Len(exported["model"])
        /\ Len(exported'["agent"]) = IF b = "agent" THEN Len(exported["agent"]) + 1 ELSE Len(exported["agent"])
        /\ Len(exported'["unlisted"]) = IF b = "unlisted" THEN Len(exported["unlisted"]) + 1 ELSE Len(exported["unlisted"])
    BY <2>1, <2>2
  <2>5. b = "model" \/ b = "agent" \/ b = "unlisted"
    BY <2>2
  <2>6. PICK l \in Nat, m \in Nat, n \in Nat :
          l = Len(exported["model"]) /\ m = Len(exported["agent"]) /\ n = Len(exported["unlisted"])
    BY <2>3
  <2>7. Recordings(exported) = l + m + n
    BY <2>6 DEF Recordings
  <2>8. Recordings(exported') = l + m + n + 1
    <3>1. PICK x \in Nat, y \in Nat, z \in Nat :
            /\ x = Len(exported'["model"]) /\ y = Len(exported'["agent"]) /\ z = Len(exported'["unlisted"])
            /\ x = IF b = "model" THEN l + 1 ELSE l
            /\ y = IF b = "agent" THEN m + 1 ELSE m
            /\ z = IF b = "unlisted" THEN n + 1 ELSE n
      BY <2>4, <2>6
    <3>2. Recordings(exported') = x + y + z
      BY <3>1 DEF Recordings
    <3>3. x + y + z = l + m + n + 1
      BY <3>1, <2>5
    <3> QED
      BY <3>2, <3>3
  <2>9. Len(exported[b]) \in {l, m, n}
    BY <2>5, <2>6
  <2> QED
    BY <2>7, <2>8, <2>9
<1>5. ASSUME NEW i \in Instruments
      PROVE  charged'[b][i] \in [count : 0..3 * (Len(exported[b]) + 1), total : -(MaxInt + 1)..MaxInt]
  <2>1. charged'[b][i] = [count |-> charged[b][i].count + Count(s.usage, i),
                          total |-> Int64(charged[b][i].total + Sum(s.usage, i))]
    BY <1>3 DEF Booked
  <2>2. charged[b][i].count \in Nat /\ charged[b][i].total \in Int
    BY <1>2, ConformanceAssumption DEF Accounts
  <2>3. charged[b][i].count <= 3 * Len(exported[b])
    BY DEF Ledgers, LedgerOf
  <2>4. Count(s.usage, i) \in 0..3 /\ Sum(s.usage, i) \in Nat
    BY <1>2, UsageType
  <2>5. charged[b][i].count + Count(s.usage, i) \in 0..3 * (Len(exported[b]) + 1)
    BY <1>3, <2>2, <2>3, <2>4
  <2>6. Int64(charged[b][i].total + Sum(s.usage, i)) \in -(MaxInt + 1)..MaxInt
    BY <2>2, <2>4, Int64Type
  <2> QED
    BY <2>1, <2>5, <2>6
<1>6. charged' \in [Names -> Accounts]
  <2>1. ASSUME NEW i \in Instruments
        PROVE  charged'[b][i] \in [count : 0..3 * MaxRecords, total : -(MaxInt + 1)..MaxInt]
    <3>1. 3 * (Len(exported[b]) + 1) <= 3 * MaxRecords
      BY <1>2, <1>3, <1>4, ConformanceAssumption
    <3>2. 0..3 * (Len(exported[b]) + 1) \subseteq 0..3 * MaxRecords
      BY <1>3, <3>1, ConformanceAssumption
    <3> QED
      BY <1>5, <3>2
  <2>2. charged'[b] = [i \in Instruments |-> charged'[b][i]]
    BY <1>3 DEF Booked
  <2>3. charged'[b] \in Accounts
    BY <2>1, <2>2 DEF Accounts
  <2> QED
    BY <1>1, <1>2, <1>3, <2>3
<1>7. ASSUME NEW d \in Names PROVE LedgerOf(d)'
  <2>1. CASE d = b
    <3>1. exported'[b] # <<>>
      <4>1. Len(exported'[b]) # 0
        BY <1>3
      <4> QED
        BY <4>1
    <3>2. ASSUME Len(exported'[b]) = 1
          PROVE  charged'[b] = Booked(NoCharge, exported'[b][1].usage)
      <4>1. exported[b] = <<>>
        BY <1>2, <1>3, <3>2
      <4>2. charged[b] = NoCharge /\ exported'[b][1] = s
        BY <1>3, <4>1 DEF Ledgers, LedgerOf
      <4> QED
        BY <1>3, <4>2
    <3>3. \A i \in Instruments : charged'[b][i].count <= 3 * Len(exported'[b])
      BY <1>3, <1>5
    <3> QED
      BY <2>1, <3>1, <3>2, <3>3 DEF LedgerOf
  <2>2. CASE d # b
    <3>1. exported'[d] = exported[d] /\ charged'[d] = charged[d] /\ LedgerOf(d)
      BY <1>3, <2>2 DEF Ledgers
    <3> QED
      BY <3>1 DEF LedgerOf
  <2> QED
    BY <2>1, <2>2
<1>8. Ledgers'
  BY <1>2, <1>4, <1>7, ConformanceAssumption DEF Ledgers
<1>9. ConformanceTypeOK'
  BY <1>2, <1>3, <1>6 DEF ConformanceTypeOK, hostVars
<1>10. Exhibits'
  BY <1>2, ExhibitsStay DEF Exhibits
<1>11. Judged' /\ Composed'
  BY <1>2 DEF Judged, Composed, ValidComposition, Owners, hostVars
<1> QED
  BY <1>8, <1>9, <1>10, <1>11

\* A fixture is judged and the next one has its own telemetry.
LEMMA JudgeStep ==
  ASSUME ConformanceInv, phase = "fixtures", running <= Len(fixtures), UNCHANGED <<hostVars, phase>>,
         NEW passes \in BOOLEAN, Judge(passes), NextFixture,
         \A e \in shown' \ shown : Sole(e) /\ Owned(e) /\ Vetted(e), shown \subseteq shown',
         passes => fixtures[running] # "fails" /\ \E e \in shown' : e.fixture = running
  PROVE  ConformanceInv'
<1> USE DEF ConformanceInv
<1>1. fixtures \in Seq({"runs", "fails", "missing"}) /\ Len(fixtures) \in Nat /\ running \in 1..Len(fixtures)
  BY ConformanceAssumption DEF ConformanceTypeOK
<1>2. running' = running + 1 /\ checked' = checked \cup {running} /\ fixtures' = fixtures
      /\ failed' = IF passes THEN failed ELSE failed \cup {running}
  BY DEF Judge, NextFixture, hostVars
<1>3. Ledgers' /\ exported' \in [Names -> Seq(Spans)] /\ charged' \in [Names -> Accounts]
  BY FreshTelemetry DEF NextFixture
<1>4. ConformanceTypeOK'
  BY <1>1, <1>2, <1>3 DEF ConformanceTypeOK, hostVars
<1>5. Exhibits'
  BY ExhibitsStay DEF Exhibits
<1>6. Judged'
  <2>1. checked' = 1..(running' - 1) /\ phase' # "reported"
    BY <1>1, <1>2 DEF Judged
  <2>2. ASSUME NEW f \in 1..running, fixtures[f] = "fails" \/ \A e \in shown' : e.fixture # f
        PROVE  f \in failed'
    <3>1. CASE f = running
      BY <1>2, <2>2, <3>1
    <3>2. CASE f # running
      BY <1>1, <1>2, <2>2, <3>2 DEF Judged
    <3> QED
      BY <3>1, <3>2
  <2> QED
    BY <1>1, <1>2, <2>1, <2>2 DEF Judged
<1>7. Composed'
  BY DEF Composed, ValidComposition, Owners, hostVars
<1> QED
  BY <1>3, <1>4, <1>5, <1>6, <1>7

\* Every step of CheckConformance keeps the invariant.
LEMMA ConformanceStep == ConformanceInv /\ [ConformanceNext]_conformanceVars => ConformanceInv'
<1> SUFFICES ASSUME ConformanceInv, [ConformanceNext]_conformanceVars PROVE ConformanceInv'
  OBVIOUS
<1>1. CASE Compose
  <2>1. UNCHANGED <<hostVars, running, exported, charged, checked, failed, shown>>
        /\ phase' \in {"fixtures", "refused"} /\ (phase' = "fixtures" => ValidComposition)
    BY <1>1 DEF Compose
  <2>2. ConformanceTypeOK' /\ Ledgers' /\ Judged' /\ Composed'
    BY <2>1 DEF ConformanceInv, ConformanceTypeOK, Ledgers, LedgerOf, Judged, Composed, ValidComposition,
       Owners, hostVars
  <2> QED
    BY <2>1, <2>2, ExhibitsStay DEF ConformanceInv, Exhibits
<1>2. ASSUME NEW b \in Names, AdapterRecords(b) PROVE ConformanceInv'
  BY <1>2, AdapterRecordsStep
<1>3. CASE FixtureReturns
  <2> DEFINE read(first, b) == IF first THEN DOMAIN exported[b] \cap {1} ELSE DOMAIN exported[b]
             usage(b) == IF exported[b] = <<>> THEN NoUsage ELSE exported[b][1].usage
             pass(bs, ev, first) == bs # {} /\ \A b \in bs : \A r \in Rules : Holds(r, b, read(first, b), usage(b), ev)
             exhibit(b) == [fixture |-> running, boundary |-> b, spans |-> exported[b], account |-> charged[b]]
  <2>1. PICK bs \in SUBSET Names, ev \in Evidence, first \in BOOLEAN :
          /\ Judge(pass(bs, ev, first))
          /\ shown' = IF pass(bs, ev, first) THEN shown \cup {exhibit(b) : b \in bs} ELSE shown
    BY <1>3 DEF FixtureReturns
  <2>2. phase = "fixtures" /\ running <= Len(fixtures) /\ fixtures[running] = "runs" /\ NextFixture
        /\ UNCHANGED <<hostVars, phase>>
    BY <1>3 DEF FixtureReturns, Fixture
  <2>3. PICK passes \in BOOLEAN : passes <=> pass(bs, ev, first)
    OBVIOUS
  <2>4. Judge(passes)
    BY <2>1, <2>3 DEF Judge
  <2>5. ASSUME passes, NEW b \in bs
        PROVE  Sole(exhibit(b)) /\ Owned(exhibit(b)) /\ Vetted(exhibit(b))
    BY <2>2, <2>3, <2>5, PassingBoundary
  <2>6. \A e \in shown' \ shown : Sole(e) /\ Owned(e) /\ Vetted(e)
    BY <2>1, <2>3, <2>5
  <2>7. ASSUME passes PROVE \E e \in shown' : e.fixture = running
    <3>1. PICK b \in bs : TRUE
      BY <2>3, <2>7
    <3>2. exhibit(b) \in shown' /\ exhibit(b).fixture = running
      BY <2>1, <2>3, <2>7
    <3> QED
      BY <3>2
  <2> QED
    BY <2>1, <2>2, <2>4, <2>6, <2>7, JudgeStep
<1>4. CASE FixtureFails
  <2>1. /\ phase = "fixtures" /\ running <= Len(fixtures) /\ UNCHANGED <<hostVars, phase>>
        /\ Judge(FALSE) /\ NextFixture /\ shown' = shown
    BY <1>4 DEF FixtureFails, Fixture
  <2> QED
    BY <2>1, JudgeStep
<1>5. CASE FixtureMissing \/ Report
  <2>1. /\ UNCHANGED <<hostVars, running, exported, charged, checked, failed, shown>>
        /\ phase = "fixtures" /\ phase' \in {"refused", "reported"}
        /\ phase' = "reported" => running > Len(fixtures)
    BY <1>5 DEF FixtureMissing, Report, Fixture
  <2>2. ConformanceTypeOK' /\ Ledgers' /\ Composed'
    BY <2>1 DEF ConformanceInv, ConformanceTypeOK, Ledgers, LedgerOf, Composed, ValidComposition, Owners, hostVars
  <2>3. Judged'
    <3>1. fixtures \in Seq({"runs", "fails", "missing"}) /\ Len(fixtures) \in Nat /\ running \in 1..Len(fixtures) + 1
      BY ConformanceAssumption DEF ConformanceInv, ConformanceTypeOK
    <3> QED
      BY <2>1, <3>1 DEF ConformanceInv, Judged, hostVars
  <2> QED
    BY <2>1, <2>2, <2>3, ExhibitsStay DEF ConformanceInv, Exhibits
<1>6. CASE UNCHANGED conformanceVars
  <2>1. UNCHANGED <<hostVars, phase, running, exported, charged, checked, failed, shown>>
    BY <1>6 DEF conformanceVars
  <2>2. ConformanceTypeOK' /\ Ledgers' /\ Judged' /\ Composed'
    BY <2>1 DEF ConformanceInv, ConformanceTypeOK, Ledgers, LedgerOf, Judged, Composed, ValidComposition,
       Owners, hostVars
  <2> QED
    BY <2>1, <2>2, ExhibitsStay DEF ConformanceInv, Exhibits
<1> QED
  BY <1>1, <1>2, <1>3, <1>4, <1>5, <1>6 DEF ConformanceNext

\* The invariant holds of every run of CheckConformance.
LEMMA ConformanceInvAlways == ConformanceSpec => []ConformanceInv
BY ConformanceInitially, ConformanceStep, PTL DEF ConformanceSpec

\* CheckConformance, for any adapters, declarations, fixtures and usages: a report
\* that passes counted every boundary shown once, at its one owner, and judged
\* every fixture.
THEOREM PassedIsTrue == ConformanceSpec => []PassedMeansCountedOnce
<1>1. ConformanceInv => PassedMeansCountedOnce
  <2> SUFFICES ASSUME ConformanceInv PROVE PassedMeansCountedOnce
    OBVIOUS
  <2>1. CountedOnce
    BY DEF ConformanceInv, Exhibits, Sole, CountedOnce
  <2>2. OneOwner
    <3>1. ASSUME phase \in {"fixtures", "reported"}, NEW b \in Names
          PROVE  Cardinality(Owners(b)) <= 1
      <4>1. ValidComposition
        BY <3>1 DEF ConformanceInv, Composed
      <4>2. CASE b \in Boundaries
        BY <4>1, <4>2 DEF ValidComposition
      <4>3. CASE b \notin Boundaries
        <5>1. Owners(b) = {}
          BY <4>1, <4>3 DEF ValidComposition, Owners
        <5> QED
          BY <5>1, FS_EmptySet
      <4> QED
        BY <4>2, <4>3
    <3> QED
      BY <3>1 DEF ConformanceInv, Exhibits, Owned, OneOwner
  <2>3. EveryFixtureIsJudged
    <3>1. fixtures \in Seq({"runs", "fails", "missing"}) /\ Len(fixtures) \in Nat /\ DOMAIN fixtures = 1..Len(fixtures)
      BY ConformanceAssumption DEF ConformanceInv, ConformanceTypeOK
    <3>2. ASSUME phase = "reported" PROVE checked = DOMAIN fixtures /\ running - 1 = Len(fixtures)
      BY <3>1, <3>2 DEF ConformanceInv, Judged
    <3> QED
      BY <3>1, <3>2 DEF ConformanceInv, Judged, EveryFixtureIsJudged
  <2> QED
    BY <2>1, <2>2, <2>3 DEF ConformanceInv, PassedMeansCountedOnce
<1> QED
  BY <1>1, ConformanceInvAlways, PTL

\* Nothing of what it shows went without a look: no undeclared value, no payload
\* but as the policy lets it through, although fixtures leave evidence out.
THEOREM PassedIsVetted == ConformanceSpec => []NothingUnvettedPasses
<1>1. ConformanceInv => NothingUnvettedPasses
  BY DEF ConformanceInv, Exhibits, Vetted, NothingUnvettedPasses
<1> QED
  BY <1>1, ConformanceInvAlways, PTL
=============================================================================
