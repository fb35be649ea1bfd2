\* Early stops reach terminated executors too (the kill switch sends them).
CONSTANTS
  Amount = 2
  MinOrder = 2
  MaxRetries = 0
  TakeProfitLimit = TRUE
  ActivationBounds = FALSE
  LateFills = FALSE
  StaleStops = TRUE
  MaxPlaced = 2
SPECIFICATION FairSpec
PROPERTIES
  ShutdownEnds
  NoOrderAfterStop
  LifecycleSpec
CHECK_DEADLOCK FALSE
