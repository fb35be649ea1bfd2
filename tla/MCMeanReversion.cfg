\* Three attempts, in one candle or in two; a cooldown as long as a candle, as configured.
CONSTANTS
  Signal = {1}
  Barrier = {"STOP_LOSS", "TIME_LIMIT"}
  CandleLength = 2
  Refresh = 1
  Grace = 1
  Cooldown = 2
  StopLossCooldown = 3
  PositionDelay = 1
  Buffer = 1
  FixedTakeProfit = TRUE
  ForgetsFills = TRUE
  MaxExecutors = 3
  MaxCloses = 1
  MaxTime = 2
SPECIFICATION Spec
INVARIANTS
  TypeOK
  OneExecutor
  CandleTriedOnce
PROPERTIES
  CooldownKept
  EntersFlat
  FollowLifecycle
CHECK_DEADLOCK FALSE
