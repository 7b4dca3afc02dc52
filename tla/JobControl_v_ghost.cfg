\* Violation: a dead owner blocks a pending delete for ever.
SPECIFICATION WatchedSpec
CONSTANTS
  NumJobs = 1
  w1 = w1
  w2 = w2
  Workers <- OneWorker
  NumStages = 1
  SingleInstance = TRUE
  Faults = {"crash"}
  MaxFaults = 1
  MaxVersion = 2
  None = None
PROPERTIES
  PendingDeleteCompletes
