SPECIFICATION MCSpec
CONSTANTS
  Adapters = {"a1", "a2"}
  Compositions <- SomeCompositions
  FixtureLists <- SomeFixtures
  Usages <- SomeUsages
  Spans <- SomeSpans
  MaxInt = 3
  MaxRecords = 2
INVARIANTS
  PassedMeansCountedOnce
  NothingUnvettedPasses
CHECK_DEADLOCK FALSE
