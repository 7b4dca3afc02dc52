\* Violation: SIGINT leaves a job running for ever.
SPECIFICATION FairSpec
CONSTANTS
  NumJobs = 1
  w1 = w1
  w2 = w2
  Workers <- OneWorker
  NumStages = 1
  SingleInstance = TRUE
  Faults = {"sigint"}
  MaxFaults = 1
  MaxVersion = 1
  None = None
PROPERTIES
  RunsEnd
