CONSTANTS
  Signal = {0, 1}
  Barrier = {"STOP_LOSS", "TIME_LIMIT"}
  CandleLength = 2
  Refresh = 1
  Grace = 1
  Cooldown = 1
  StopLossCooldown = 2
  PositionDelay = 1
  Buffer = 1
  FixedTakeProfit = FALSE
  ForgetsFills = TRUE
  MaxExecutors = 2
  MaxCloses = 2
  MaxTime = 3
SPECIFICATION Spec
INVARIANTS
  WaitsForLiveOnly
CHECK_DEADLOCK FALSE
