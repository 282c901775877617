\* Three workers with two writes each, joined by the callback or not; two
\* goroutines that record decisions.
SPECIFICATION MCSpec
CONSTANTS
  Nobody = Nobody
  Workers = {w1, w2, w3}
  MaxWrites = 2
  Recorders = {r1, r2}
INVARIANTS
  SpanIsWhatWasSaid
  ServerSpansAreTrue
PROPERTIES
  LateWritesAreInert
  LinkedSpanEnds
  ServerSpansEnd
CHECK_DEADLOCK FALSE
