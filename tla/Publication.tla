---------------------------- MODULE Publication ----------------------------
(***************************************************************************)
(* What scripts/release.sh promises those who look at the remote, however  *)
(* often it is interrupted, run again or answered late: a version is       *)
(* chosen once, appears with all its tags at one moment, on top of what    *)
(* main was, and is there when somebody says so. Other people push to the  *)
(* same remote.                                                            *)
(***************************************************************************)
EXTENDS Integers

CONSTANTS Modules,   \* number of modules, each with its tag
          Candidates \* what can be published

VARIABLES chosen,    \* the candidate, or NoTag
          main,      \* the main branch, relative to the source of the release
          tags,      \* of each module: what its tag names
          told       \* somebody was told that the version is published

publicationVars == <<chosen, main, tags, told>>

NoTag == 0
Foreign == -1  \* of somebody else

PublicationInit ==
  /\ chosen = NoTag /\ told = FALSE
  /\ main = "behind" /\ tags = [m \in 1..Modules |-> NoTag]

Choose ==
  /\ chosen = NoTag /\ chosen' \in Candidates
  /\ UNCHANGED <<main, tags, told>>

\* All of it, at a moment when it takes nothing away from others.
Publish ==
  /\ chosen # NoTag
  /\ main \in {"behind", "source"} /\ \A m \in 1..Modules : tags[m] \in {NoTag, chosen}
  /\ main' = "source" /\ tags' = [m \in 1..Modules |-> chosen]
  /\ UNCHANGED <<chosen, told>>

Tell ==
  /\ chosen # NoTag /\ main \in {"source", "ahead"} /\ \A m \in 1..Modules : tags[m] = chosen
  /\ told' = TRUE
  /\ UNCHANGED <<chosen, main, tags>>

OthersMove ==
  /\ \/ main = "behind" /\ main' \in {"source", "ahead", "diverged"}
     \/ main \in {"source", "diverged"} /\ main' = "ahead"
  /\ UNCHANGED <<chosen, tags, told>>

OthersPushTag ==
  /\ \E m \in 1..Modules : tags[m] = NoTag /\ tags' = [tags EXCEPT ![m] = Foreign]
  /\ UNCHANGED <<chosen, main, told>>

PublicationSpec ==
  PublicationInit /\ [][Choose \/ Publish \/ Tell \/ OthersMove \/ OthersPushTag]_publicationVars
=============================================================================
