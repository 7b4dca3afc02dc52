\* Violation: an accepted delete is forgotten.
SPECIFICATION Spec
CONSTANTS
  NumJobs = 1
  w1 = w1
  w2 = w2
  Workers <- OneWorker
  NumStages = 1
  SingleInstance = TRUE
  Faults = {}
  MaxFaults = 0
  MaxVersion = 1
  None = None
PROPERTIES
  AcceptedDeleteIsKept
