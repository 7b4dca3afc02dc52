\* Two worker processes without worker.lock: only the fences protect the rows.
SPECIFICATION Spec
CONSTANTS
  NumJobs = 1
  w1 = w1
  w2 = w2
  Workers <- TwoWorkers
  NumStages = 1
  SingleInstance = FALSE
  Faults = {"crash", "sigint", "api"}
  MaxFaults = 1
  MaxVersion = 2
  None = None
SYMMETRY Symmetry
INVARIANTS
  TypeOK
  WaitingIsUnowned
  QueueHasNoCancelled
  ClaimsAreDistinct
  ControlIsNoFailure
  ActiveHasWorkspace
PROPERTIES
  LostClaimWritesNothing
  RequestsFitStatus
  AppliedCancelIsFinal
  ImplementsLifecycle
