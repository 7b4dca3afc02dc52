\* The deployed system: worker.lock, two stages, kills of the worker and of
\* the API between two commits; the liveness of one job.
SPECIFICATION FairSpec
CONSTANTS
  NumJobs = 1
  w1 = w1
  w2 = w2
  Workers <- OneWorker
  NumStages = 2
  SingleInstance = TRUE
  Faults = {"crash", "api"}
  MaxFaults = 2
  MaxVersion = 2
  None = None
PROPERTIES
  OnlyLogsOutliveDeletion
  RunsEnd
  ResumeIsHonoured
  QueueIsServed
