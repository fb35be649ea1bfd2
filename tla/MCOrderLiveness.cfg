\* One order of one lot, so that TLC can check the liveness property.
CONSTANTS
  Order = {o1}
  Amount = 1
  LostLimit = 1
  MaxQueue = 1
  MaxWaiting = 1
SPECIFICATION FairSpec
PROPERTY DoneIsNoticed
CHECK_DEADLOCK FALSE
