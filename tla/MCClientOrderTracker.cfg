\* One order of two lots, lost at the second miss, two scheduled updates.
CONSTANTS
  Order = {o1}
  Amount = 2
  LostLimit = 1
  MaxQueue = 2
  MaxWaiting = 1
SPECIFICATION Spec
INVARIANTS
  TypeOK
  OneHome
  FillsCountedOnce
  ActiveIsOpen
  EndIsAnnounced
  CreatedOnce
PROPERTY LifecycleSpec
\* An order and all that concerns it come to an end.
CHECK_DEADLOCK FALSE
