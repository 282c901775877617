SPECIFICATION MCSpec
CONSTANTS
  j1 = j1
  j2 = j2
  w1 = w1
  w2 = w2
  s1 = s1
  s2 = s2
  NoJob = NoJob
  Jobs <- TwoJobs
  Workers <- TwoWorkers
  MaxDeliveries = 2
  Senders <- TwoSenders
  Ids = {"e1", "e2"}
  Assessments <- SomeAssessments
  Handmade <- SomeHandmade
  MaxDelivered = 2
  NoSender = NoSender
  Streams <- SomeStreams
  MaxArrivals = 4
  MaxTotal = 3
  Inputs <- SomeInputs
SYMMETRY Alike
INVARIANTS
  ContinuesItsOrigin
  AckedIsRecorded
  DeliveredAsTheyWere
  MappedIsReported
CHECK_DEADLOCK FALSE
