\* Safety: one order, two charges, each reported under two event ids.
CONSTANTS
  Orders = {o1}
  MaxCharges = 2
  Reports = {1, 2}
  HoldTTL = 1
  MinAge = 0
  FailedGrace = 1
  BatchSize = 1
  MaxTime = 2
SPECIFICATION Spec
INVARIANTS
  TypeOK
  EveryChargeAccounted
  PaidMeansSeatOrException
  SeatPaidInTime
PROPERTIES
  PaymentNeverUndone
  KeepsOrderContract
CHECK_DEADLOCK FALSE
