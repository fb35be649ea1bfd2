CONSTANTS
  Bot <- MCBot
  Limit <- MCLimit
  Configured <- MCConfigured
  Share <- MCShare
  Interval <- MCInterval
  Margin <- MCMargin
  Weight <- MCWeight
  Delay = 1
  Requester <- MCRequester
  BotOf <- MCBotOf
  LimitOf <- MCLimitOf
  Retry = 1
SPECIFICATION FairSpec
INVARIANTS TypeOK WithinLimits
PROPERTY EveryRequestGranted
