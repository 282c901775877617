\* Two goroutines, two calls each: every kind of handle, every order of calls.
SPECIFICATION FairSpec
CONSTANTS
  Callers = {c1, c2}
  NoCaller = NoCaller
  MaxCalls = 2
  Inputs <- MCInputs
INVARIANTS
  RecordIsOneCall
  RejectionLeavesNoTrace
  FinalizedMeansComplete
  PanicIsTheVerdict
  OneAccount
PROPERTIES
  ImplementsOnceRecording
  CallsReturn
CHECK_DEADLOCK FALSE
