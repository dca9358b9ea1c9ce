CONSTANTS
  often = often
  slow = slow
  daily = daily
  NoJob = NoJob
  Jobs = {slow, often, daily}
  Order <- MCOrder
  Cron = {daily}
  Broken = {daily}
  HighRisk = {daily}
  At <- MCAt
  Interval <- MCInterval
  Cooldown <- MCCooldown
  MaxRetries <- MCMaxRetries
  DayLength = 2
  RetryBase = 1
  RetryCap = 3
  MaxStarts = 2
SPECIFICATION FairSpec
INVARIANTS TypeOK OneActionAfterStop
PROPERTIES CooldownHolds BackoffHolds IntervalJobsFire
