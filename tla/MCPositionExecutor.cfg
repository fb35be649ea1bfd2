\* A LIMIT take profit and a MARKET stop; fills may come after the end of their order.
CONSTANTS
  Amount = 2
  MinOrder = 1
  MaxRetries = 0
  TakeProfitLimit = TRUE
  ActivationBounds = TRUE
  LateFills = TRUE
  StaleStops = FALSE
  MaxPlaced = 2
SPECIFICATION Spec
INVARIANTS
  TypeOK
  OneOrderOfAKind
  NothingLeftBehind
  NoOrphan
  DoneCloseIsFilled
  ClosesBounded
  ReversedByDoubleCloseOnly
  EnteredTwiceAfterPartialOnly
CHECK_DEADLOCK FALSE
