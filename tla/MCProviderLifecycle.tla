------------------------- MODULE MCProviderLifecycle ------------------------
(***************************************************************************)
(* Three goroutines: one shuts down, one waits and one comes later.        *)
(***************************************************************************)
EXTENDS ProviderLifecycle
=============================================================================
