\* The position is closed by hand while the entry fills.
CONSTANTS
  Amount = 2
  MinOrder = 1
  MaxRetries = 0
  TakeProfitLimit = FALSE
  ActivationBounds = FALSE
  LateFills = FALSE
  StaleStops = FALSE
  MaxPlaced = 1
SPECIFICATION Spec
PROPERTY FillIsClosed
CHECK_DEADLOCK FALSE
