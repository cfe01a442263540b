\* Liveness: two orders, no webhook is owed, every order fits in a batch.
CONSTANTS
  Orders = {o1, o2}
  MaxCharges = 2
  Reports = {1}
  HoldTTL = 1
  MinAge = 0
  FailedGrace = 0
  BatchSize = 2
  MaxTime = 1
SPECIFICATION FairSpec
PROPERTIES
  MissedWebhookRecovered
CHECK_DEADLOCK FALSE
