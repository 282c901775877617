\* Three callers; the exporters of both pipelines may panic.
SPECIFICATION FairSpec
CONSTANTS
  Callers = {c1, c2, c3}
  Panicking = {"tracer", "meter"}
  MaxCalls = 1
INVARIANTS
  AnswersAreComplete
PROPERTIES
  ShutdownReturns
CHECK_DEADLOCK FALSE
