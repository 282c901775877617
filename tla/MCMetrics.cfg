SPECIFICATION MCSpec
CONSTANTS
  model = model
  large = large
  other = other
  Nobody = Nobody
  NoPoint = NoPoint
  Unlisted = Unlisted
  Goroutines = {g1, g2}
  Instruments = {"cost", "ttft"}
  Currencies = {"USD"}
  Labels = {model}
  Values = {large, other}
  Allowed <- MCAllowed
  Budget = 4
  Callers = {c1, c2}
  Names = {requests, latency}
  Kinds = {counter, gauge}
  NoCaller = NoCaller
  MaxCalls = 2
  Readers = {t1, t2}
  MaxCycles = 2
INVARIANTS
  SeriesWithinBudget
  StableRoutes
  NamesAgree
  SnapshotsAreTheirOwn
PROPERTIES
  Answered
CHECK_DEADLOCK FALSE
