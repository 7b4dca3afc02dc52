\* Violation: an accepted cancel is lost without any fault.
SPECIFICATION FairSpec
CONSTANTS
  NumJobs = 1
  w1 = w1
  w2 = w2
  Workers <- OneWorker
  NumStages = 1
  SingleInstance = TRUE
  Faults = {}
  MaxFaults = 0
  MaxVersion = 2
  None = None
PROPERTIES
  AcceptedCancelTakesEffect
