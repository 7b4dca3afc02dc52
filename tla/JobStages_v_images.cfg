\* Violation: one attempt, no kill; the images of the algorithm that failed
\* are taken for those of the baseline sampling.
SPECIFICATION Spec
CONSTANTS
  NumFrames = 1
  MaxAttempts = 1
  MaxKills = 0
  DownloadRetries = 0
  Configs <- SomeConfigs
  None = None
INVARIANTS
  ImagesAreCurrent
CHECK_DEADLOCK FALSE
