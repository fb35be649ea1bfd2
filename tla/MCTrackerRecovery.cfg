\* One order's event saves the other; two crashes at any point.
CONSTANTS
  Order = {o1, o2}
  Trade = {t1}
  MaxCrashes = 2
SPECIFICATION FairSpec
INVARIANTS TypeOK FillsRecordedOnce RecordedIsTracked EndedStaysEnded
PROPERTY EndedIsForgotten
CHECK_DEADLOCK FALSE
