----------------------------- MODULE MCRelease -----------------------------
(***************************************************************************)
(* Small instances of Release.                                             *)
(***************************************************************************)
EXTENDS Release, TLC

\* The shells are interchangeable.
Shells == Permutations(Runners)
=============================================================================
