\* Two jobs, a queue and deletions that somebody waits for; no faults.
SPECIFICATION WatchedSpec
CONSTANTS
  NumJobs = 2
  w1 = w1
  w2 = w2
  Workers <- OneWorker
  NumStages = 1
  SingleInstance = TRUE
  Faults = {}
  MaxFaults = 0
  MaxVersion = 1
  None = None
PROPERTIES
  QueueIsServed
  PendingDeleteCompletes
