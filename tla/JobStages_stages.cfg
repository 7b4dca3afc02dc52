\* Three attempts at a job of two frames, two kills, readers in between.
SPECIFICATION Spec
CONSTANTS
  NumFrames = 2
  MaxAttempts = 3
  MaxKills = 2
  DownloadRetries = 1
  Configs <- SomeConfigs
  None = None
CHECK_DEADLOCK FALSE
INVARIANTS
  TypeOK
  ManifestCoversOutputs
  RecordsAreOwnAndComplete
  ListingIsOneGeneration
