------------------------------ MODULE Release ------------------------------
(***************************************************************************)
(* scripts/release.sh: one version of the library is prepared in an        *)
(* isolated checkout and published, with the tag of every module, by one   *)
(* atomic push. Its record lives on disk (the "active" directory), so that *)
(* later runs (inspect, resume, finish) continue what an interrupted run   *)
(* began. Runs exclude each other by the directory "lock"; the remote is   *)
(* shared with other people, and the answer of a push may be lost.         *)
(***************************************************************************)
EXTENDS Integers, Sequences

CONSTANTS Runners,  \* shells that may run the script
          Free,     \* the lock directory does not exist
          Stale,    \* it does, but its owner was killed
          Modules,  \* number of modules, each with its tag
          MaxBuilds \* bound: candidates built, one per interrupted preparation

ASSUME LockAssumption == Free \notin Runners /\ Stale \notin Runners /\ Free # Stale
ASSUME ModulesAssumption == Modules \in Nat \ {0}
ASSUME MaxBuildsAssumption == MaxBuilds \in Nat

VARIABLES lock,
          pc, op,     \* where each run stands, and what it was asked
          delivered,  \* observe: whether remote main was seen to have the source
          active,     \* the record on disk
          remote,     \* main, relative to the source, and the tags
          inflight,   \* candidates pushed, not yet handled by the remote
          rewritten,  \* of each candidate: the module paths its manifests were rewritten for
          unresolved, \* history: a push was sent and its result not observed
          reported    \* history: a run said "Published and verified", or archived

vars == <<lock, pc, op, delivered, active, remote, inflight, rewritten, unresolved, reported>>

Operations == {"publish", "resume", "inspect", "finish"}
NoTag == 0
Foreign == -1  \* a tag somebody else pushed

\* refs is -1 before the file exists, then its number of lines.
NoRecord == [stage |-> "none", paths |-> 0, phase |-> "preparing",
             candidate |-> 0, refs |-> -1, status |-> "none"]

Init ==
  /\ lock = Free
  /\ pc = [r \in Runners |-> "idle"]
  /\ op = [r \in Runners |-> "inspect"]
  /\ delivered = [r \in Runners |-> FALSE]
  /\ active = NoRecord
  /\ remote = [main |-> "behind", tags |-> [m \in 1..Modules |-> NoTag]]
  /\ inflight = {} /\ rewritten = <<>>
  /\ unresolved = FALSE /\ reported = FALSE

Go(r, from, to) == pc[r] = from /\ pc' = [pc EXCEPT ![r] = to]
Put(field, value) == active' = [active EXCEPT ![field] = value]
Leave(r, from) == Go(r, from, "idle") /\ lock' = Free

-----------------------------------------------------------------------------
\* The run takes the lock: mkdir is atomic.
Begin(r, o) ==
  /\ lock = Free
  /\ lock' = r
  /\ Go(r, "idle", "begin")
  /\ op' = [op EXCEPT ![r] = o]
  /\ UNCHANGED <<delivered, active, remote, inflight, rewritten, unresolved, reported>>

\* The run is interrupted, a gate fails, or the operator does not confirm: the
\* trap removes the lock, the record stays as it is.
Stop(r) ==
  /\ pc[r] # "idle"
  /\ Leave(r, pc[r])
  /\ UNCHANGED <<op, delivered, active, remote, inflight, rewritten, unresolved, reported>>

\* The run is killed: the lock stays until somebody removes it.
Kill(r) ==
  /\ pc[r] # "idle"
  /\ Go(r, pc[r], "idle") /\ lock' = Stale
  /\ UNCHANGED <<op, delivered, active, remote, inflight, rewritten, unresolved, reported>>

RemoveStaleLock ==
  /\ lock = Stale /\ lock' = Free
  /\ UNCHANGED <<pc, op, delivered, active, remote, inflight, rewritten, unresolved, reported>>

env == <<delivered, remote, inflight, unresolved, reported>>

-----------------------------------------------------------------------------
\* load succeeds, and the record is past the inventory's creation.
Loads == active.stage = "listed"

\* "mkdir $active": the records and the checkout follow.
Create(r) ==
  /\ op[r] = "publish" /\ active.stage = "none"
  /\ Go(r, "begin", "records") /\ Put("stage", "created")
  /\ UNCHANGED <<lock, op, env, rewritten>>

\* The records, the checkout, the modules and an empty module-paths.
WriteRecords(r) ==
  /\ Go(r, "records", "list") /\ Put("stage", "listed")
  /\ UNCHANGED <<lock, op, env, rewritten>>

\* One round of the inventory: a path is appended, then checks may stop the run.
List(r) ==
  /\ active.paths < Modules
  /\ Go(r, "list", "list") /\ Put("paths", active.paths + 1)
  /\ UNCHANGED <<lock, op, env, rewritten>>

FastForwards == remote.main \in {"behind", "source"}

\* The inventory is over; fast_forward.
Listed(r) ==
  /\ active.paths = Modules /\ FastForwards
  /\ Go(r, "list", "phase")
  /\ UNCHANGED <<lock, op, env, active, rewritten>>

\* resume, and a publish that finds its own release.
Resume(r) ==
  /\ op[r] \in {"publish", "resume"} /\ Loads
  /\ active.status \notin {"unknown", "collision"}
  /\ Go(r, "begin", "phase")
  /\ UNCHANGED <<lock, op, env, active, rewritten>>

\* Mutant: a prepared record is prepared again.
NextStepRebuilds == "prepare"

\* A candidate that was recorded is kept, and only sealed again.
NextStep == CASE active.phase = "prepared" -> "validate"
              [] active.phase # "prepared" /\ active.candidate # 0 -> "truncate"
              [] OTHER -> "prepare"

Continue(r) ==
  /\ Go(r, "phase", NextStep)
  /\ UNCHANGED <<lock, op, env, active, rewritten>>

\* prepare: the gates, the manifests rewritten for the paths listed, the commit.
Build(r) ==
  /\ Len(rewritten) < MaxBuilds
  /\ Go(r, "prepare", "record")
  /\ rewritten' = Append(rewritten, active.paths)
  /\ UNCHANGED <<lock, op, env, active>>

RecordCandidate(r) ==
  /\ Go(r, "record", "truncate") /\ Put("candidate", Len(rewritten))
  /\ UNCHANGED <<lock, op, env, rewritten>>

\* seal: the file of refs is emptied, then filled line by line.
Truncate(r) ==
  /\ Go(r, "truncate", "seal") /\ Put("refs", 0)
  /\ UNCHANGED <<lock, op, env, rewritten>>

Seal(r) ==
  /\ active.refs < Modules
  /\ Go(r, "seal", "seal") /\ Put("refs", active.refs + 1)
  /\ UNCHANGED <<lock, op, env, rewritten>>

Sealed(r) ==
  /\ active.refs = Modules
  /\ Go(r, "seal", "validate") /\ Put("phase", "prepared")
  /\ UNCHANGED <<lock, op, env, rewritten>>

\* validate: the inventory of refs is exactly that of the candidate. The module
\* paths are only required to exist.
Valid == active.candidate # 0 /\ active.refs = Modules

Validate(r) ==
  /\ Valid
  /\ Go(r, "validate", "observe_main")
  /\ UNCHANGED <<lock, op, env, active, rewritten>>

\* inspect observes if there is a file of refs, whatever it contains.
Inspect(r) ==
  /\ op[r] = "inspect" /\ Loads /\ active.refs # -1
  /\ Go(r, "begin", "observe_main")
  /\ UNCHANGED <<lock, op, env, active, rewritten>>

Finish(r) ==
  /\ op[r] = "finish" /\ Loads /\ Valid
  /\ Go(r, "begin", "observe_main")
  /\ UNCHANGED <<lock, op, env, active, rewritten>>

\* "fail": what the record or the remote says does not allow the run to go on.
Fail(r) ==
  /\ CASE pc[r] = "begin" ->
            /\ op[r] = "publish" => active.stage # "none"
            /\ op[r] \in {"publish", "resume"} => ~Loads \/ active.status \in {"unknown", "collision"}
            /\ op[r] = "inspect" => ~Loads \/ active.refs = -1
            /\ op[r] = "finish" => ~Loads \/ ~Valid
       [] pc[r] = "list" -> active.paths = Modules /\ ~FastForwards
       [] pc[r] = "validate" -> ~Valid
       [] OTHER -> pc[r] \in {"check_main", "confirm"} /\ ~FastForwards
  /\ Leave(r, pc[r])
  /\ UNCHANGED <<op, env, active, rewritten>>

-----------------------------------------------------------------------------
\* The remote cannot be read.
Unreadable(r) ==
  /\ \E at \in {"observe_main", "observe_tags"} : Leave(r, at)
  /\ Put("status", "unknown")
  /\ UNCHANGED <<op, env, rewritten>>

ObserveMain(r) ==
  /\ Go(r, "observe_main", "observe_tags")
  /\ delivered' = [delivered EXCEPT ![r] = remote.main \in {"source", "ahead"}]
  /\ UNCHANGED <<lock, op, active, remote, inflight, rewritten, unresolved, reported>>

\* What observe makes of the tags, for the refs that are recorded.
Observed(r) ==
  LET recorded == 1..active.refs
      found == {m \in recorded : remote.tags[m] = active.candidate}
  IN  CASE \E m \in recorded : remote.tags[m] \notin {NoTag, active.candidate} -> "collision"
        [] found = recorded /\ delivered[r] -> "complete"
        [] found = {} -> "none"
        [] OTHER -> "partial"

\* The status is written; what follows depends on who observed.
ObserveTags(r) ==
  /\ \/ /\ op[r] \in {"publish", "resume"} /\ Observed(r) \in {"none", "partial"}
        /\ Go(r, "observe_tags", "check_main") /\ UNCHANGED lock
     \/ /\ op[r] = "finish" /\ Observed(r) = "complete"
        /\ Go(r, "observe_tags", "archive") /\ UNCHANGED lock
     \/ /\ \/ op[r] \in {"inspect", "verify"} \/ Observed(r) = "collision"
           \/ (op[r] = "finish") # (Observed(r) = "complete")
        /\ Leave(r, "observe_tags")
  /\ Put("status", Observed(r))
  /\ unresolved' = FALSE
  /\ reported' = (reported \/ (op[r] \in {"publish", "resume", "verify"}
                                 /\ Observed(r) = "complete"))
  /\ UNCHANGED <<op, delivered, remote, inflight, rewritten>>

\* "mv $active": the record becomes history.
Archive(r) ==
  /\ Leave(r, "archive") /\ Put("stage", "archived")
  /\ reported' = TRUE
  /\ UNCHANGED <<op, delivered, remote, inflight, rewritten, unresolved>>

\* fast_forward, then the question to the operator.
CheckMain(r) ==
  /\ FastForwards
  /\ Go(r, "check_main", "confirm")
  /\ UNCHANGED <<lock, op, env, active, rewritten>>

\* The answer is yes; fast_forward again; the status is unknown before the push.
Confirm(r) ==
  /\ FastForwards
  /\ Go(r, "confirm", "push") /\ Put("status", "unknown")
  /\ UNCHANGED <<lock, op, env, rewritten>>

\* The push; its exit status is ignored, the refs are observed instead.
Push(r) ==
  /\ Go(r, "push", "observe_main")
  /\ op' = [op EXCEPT ![r] = "verify"]
  /\ inflight' = inflight \cup {active.candidate}
  /\ unresolved' = TRUE
  /\ UNCHANGED <<lock, delivered, active, remote, rewritten, reported>>

-----------------------------------------------------------------------------
local == <<lock, pc, op, delivered, active, rewritten, unresolved, reported>>

\* Mutant: a push with --force.
AcceptForced(c) ==
  /\ c \in inflight /\ inflight' = inflight \ {c}
  /\ remote' = [main |-> "source", tags |-> [m \in 1..Modules |-> c]]
  /\ UNCHANGED local

\* The remote applies a push --atomic, late perhaps, or drops it.
Accept(c) ==
  /\ c \in inflight /\ inflight' = inflight \ {c}
  /\ FastForwards /\ \A m \in 1..Modules : remote.tags[m] \in {NoTag, c}
  /\ remote' = [main |-> "source", tags |-> [m \in 1..Modules |-> c]]
  /\ UNCHANGED local

Drop(c) ==
  /\ c \in inflight /\ inflight' = inflight \ {c}
  /\ UNCHANGED <<local, remote>>

\* Others push: commits on main, with or without the source, or a tag.
OthersMoveMain ==
  /\ \E to \in CASE remote.main = "behind" -> {"source", "ahead", "diverged"}
                 [] remote.main \in {"source", "diverged"} -> {"ahead"}
                 [] OTHER -> {} :
       remote' = [remote EXCEPT !.main = to]
  /\ UNCHANGED <<local, inflight>>

OthersTag(m) ==
  /\ remote.tags[m] = NoTag
  /\ remote' = [remote EXCEPT !.tags[m] = Foreign]
  /\ UNCHANGED <<local, inflight>>

-----------------------------------------------------------------------------
Step(r) ==
  \/ Create(r) \/ WriteRecords(r) \/ List(r) \/ Listed(r) \/ Resume(r) \/ Continue(r)
  \/ Build(r) \/ RecordCandidate(r) \/ Truncate(r) \/ Seal(r) \/ Sealed(r) \/ Validate(r)
  \/ Inspect(r) \/ Finish(r) \/ ObserveMain(r) \/ ObserveTags(r) \/ Archive(r)
  \/ CheckMain(r) \/ Confirm(r) \/ Push(r)

Next ==
  \/ \E r \in Runners :
       (\E o \in Operations : Begin(r, o)) \/ Stop(r) \/ Fail(r) \/ Kill(r) \/ Step(r) \/ Unreadable(r)
  \/ \E c \in inflight : Accept(c) \/ Drop(c)
  \/ RemoveStaleLock \/ OthersMoveMain \/ \E m \in 1..Modules : OthersTag(m)

Spec == Init /\ [][Next]_vars

-----------------------------------------------------------------------------
Tags == {NoTag, Foreign} \cup 1..MaxBuilds
Steps == {"idle", "begin", "records", "list", "phase", "prepare", "record", "truncate", "seal",
          "validate", "observe_main", "observe_tags", "check_main", "confirm", "push", "archive"}

\* Every variable keeps its type; at most one run is inside the script, and it
\* is the one that holds the lock directory.
TypeOK ==
  /\ lock \in Runners \cup {Free, Stale}
  /\ pc \in [Runners -> Steps] /\ op \in [Runners -> Operations \cup {"verify"}]
  /\ delivered \in [Runners -> BOOLEAN]
  /\ active \in [stage : {"none", "created", "listed", "archived"}, paths : 0..Modules,
                 phase : {"preparing", "prepared"}, candidate : 0..MaxBuilds, refs : -1..Modules,
                 status : {"none", "partial", "complete", "unknown", "collision"}]
  /\ remote \in [main : {"behind", "source", "ahead", "diverged"}, tags : [1..Modules -> Tags]]
  /\ inflight \subseteq 1..MaxBuilds
  /\ rewritten \in Seq(0..Modules) /\ Len(rewritten) <= MaxBuilds
  /\ {unresolved, reported} \subseteq BOOLEAN
  /\ \A r \in Runners : pc[r] # "idle" <=> lock = r

\* "Success requires exact candidate tag identities and remote main equal to or
\* descended from source": the outcome a run may report.
Published ==
  /\ remote.main \in {"source", "ahead"}
  /\ \A m \in 1..Modules : remote.tags[m] = active.candidate

\* No run prints "Published and verified", and none archives the record, unless
\* the remote has the source and every tag, whatever was interrupted before.
SuccessIsPublished == reported => Published

\* A version is never published from two candidates: what is pushed, and may
\* still arrive late, is the recorded candidate, however often the run is resumed.
OneCandidatePublished ==
  /\ inflight \subseteq {active.candidate}
  /\ \A m \in 1..Modules : remote.tags[m] \in {NoTag, Foreign, active.candidate}

\* The push is atomic: a tag of the candidate is never on the remote without the
\* source on main and the tags of all other modules.
AtomicPublication ==
  \A m \in 1..Modules : remote.tags[m] > 0 => Published

\* An unknown result requires an inspection: no push is sent while the result of
\* an earlier one has not been read from the remote.
PushAfterObservation == \A r \in Runners : pc[r] = "push" => ~unresolved

\* One candidate, all of it, and no success without it, whatever was interrupted or
\* answered late.
OneWholeCandidate ==
  /\ TypeOK /\ OneCandidatePublished /\ AtomicPublication
  /\ SuccessIsPublished /\ PushAfterObservation

\* "Recovery never rewinds main or changes public tags", "resume retains version and
\* candidate": what the remote shows is a publication, of one candidate, at one
\* moment, whatever runs were killed before and after it; and who was told so can
\* rely on it.
Public == INSTANCE Publication WITH
  Candidates <- 1..MaxBuilds,
  chosen     <- active.candidate,
  main       <- remote.main,
  tags       <- remote.tags,
  told       <- reported
ImplementsPublication == Public!PublicationSpec

\* The manifests of the published candidate are rewritten for every module.
ManifestsAreComplete ==
  \A m \in 1..Modules : remote.tags[m] > 0 => rewritten[remote.tags[m]] = Modules
=============================================================================
