------------------------- MODULE MCRecordingHandle -------------------------
(***************************************************************************)
(* Small instances of RecordingHandle: a few results that between them     *)
(* reach every branch of Finish.                                           *)
(***************************************************************************)
EXTENDS RecordingHandle

Result(status, evidence, sound, payload, model) ==
  [status |-> status, evidence |-> evidence, sound |-> sound,
   payload |-> payload, usage |-> model, streaming |-> model]

MCInputs ==
  { Result("ok", "none", TRUE, TRUE, FALSE),       \* success with a payload
    Result("", "err", TRUE, TRUE, TRUE),           \* metered error, to be classified
    Result("error", "class", TRUE, FALSE, FALSE),  \* error with its class
    Result("ok", "err", TRUE, FALSE, FALSE),       \* conflicting
    Result("", "none", FALSE, FALSE, FALSE) }      \* some other field is invalid
=============================================================================
