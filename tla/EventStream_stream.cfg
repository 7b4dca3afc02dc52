\* Two worker processes and the API write, one page reads and reconnects.
SPECIFICATION Spec
CONSTANTS
  w1 = w1
  w2 = w2
  Workers <- TwoWorkers
  MaxVersion = 3
  BatchLimit = 2
  MaxDrops = 1
  Crashes = TRUE
  None = None
SYMMETRY Symmetry
CHECK_DEADLOCK FALSE
INVARIANTS
  TypeOK
  DeliveryIsGapless
  NothingIsLost
PROPERTIES
  ImplementsFeed
  OnlyLateEventsGoBack
