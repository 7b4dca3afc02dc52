\* Two frames and the overall summary behind one pool, limiter and journal,
\* two attempts; and every stage's computation on small inputs.
SPECIFICATION Spec
CONSTANTS
  f1 = f1
  f2 = f2
  Frames <- TwoFrames
  Overall = overall
  Concurrency = 2
  Rpm = 1
  Window = 2
  MaxRetries = 1
  MaxRuns = 2
  Lookback = 3
  MinStableLen = 2
  MinGap = 2
  BucketGap = 3
  MinHashDist = 2
  HashBits = 4
  FeatureInputs <- Features
  Transcripts <- TwoSegments
  KeyframeTimes <- Times
  Context = 12288
  MaxOutput = 4192
  MaxInput = 24000
  MaxRounds = 2
  EvidenceLengths <- Sections
  PartialLengths <- Partials
VIEW UpToLosses
CHECK_DEADLOCK FALSE
INVARIANTS
  TypeOK
  CallsAreAccountedFor
  UsageIsReconstructible
  SendsStayNearRate
  LateCallsAreBounded
  CompletionIsStrict
  SelectionIsSound
  ChaptersFollowKeyframes
  ReductionIsFaithful
PROPERTIES
  CallsEnd
