\* Finding: more unpaid orders than a batch holds starve the ones behind them.
CONSTANTS
  Orders = {o1, o2}
  MaxCharges = 1
  Reports = {1}
  HoldTTL = 1
  MinAge = 0
  FailedGrace = 1
  BatchSize = 1
  MaxTime = 2
SPECIFICATION FairSpec
CONSTRAINT OrdersApart
PROPERTIES
  MissedWebhookRecovered
CHECK_DEADLOCK FALSE
