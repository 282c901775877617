CONSTANTS
  Callers = {c1, c2, c3}
  MeterFails = {"error", "panic"}
  Policies = {"safe", "raw", "sanitizer"}
SPECIFICATION ExecutorFairSpec
INVARIANTS
  TrueRecords
PROPERTIES
  CallsEnd
CHECK_DEADLOCK FALSE
