CONSTANTS
  CloseTypes = {"EARLY_STOP", "POSITION_HOLD", "FAILED"}
  Sizes = {2}
  Remembered = 1
  Buffer = 1
  StallBudget = 1
  MinCap = 2
  MaxExecutors = 2
  Amounts = {1}
SPECIFICATION Spec
INVARIANTS
  RowsAreTheNet
CHECK_DEADLOCK FALSE
