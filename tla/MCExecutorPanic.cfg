CONSTANTS
  Callers = {c1}
  MeterFails = {"panic"}
  Policies = {"safe", "raw", "sanitizer"}
SPECIFICATION ExecutorSpec
INVARIANT
  ResultsUnchanged
CHECK_DEADLOCK FALSE
