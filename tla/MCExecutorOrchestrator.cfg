CONSTANTS
  CloseTypes = {"EARLY_STOP", "POSITION_HOLD", "FAILED"}
  Sizes = {2}
  Remembered = 1
  Buffer = 1
  StallBudget = 1
  MinCap = 2
  MaxExecutors = 2
  Amounts = {1}
SPECIFICATION FairSpec
INVARIANTS
  TypeOK
  CountedOnce
  HeldIsSaved
  StopEndsAll
  OneRowIsTheNet
PROPERTY StopEnds
CHECK_DEADLOCK FALSE
