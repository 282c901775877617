------------------------------ MODULE MCExecutor ----------------------------
(***************************************************************************)
(* Three goroutines: one creates the instruments, one waits, one is late.  *)
(***************************************************************************)
EXTENDS Executor
=============================================================================
