\* A renter or an admin cancels a burst pod whose failed launch was refunded.
CONSTANTS
  Jobs = {j1}
  Providers = {p1}
  BurstHost = BurstHost
  NoProvider = NoProvider
  Types = {"burst"}
  Quotes = {2}
  MaxCost = 2
  Deposit = 2
  PodCap = 1
  MaxRetries = 1
  Exposures = {"cancelSettled"}
  MaxSettles = 2
  MaxLate = 0
  MayDropOff = {}
SPECIFICATION Spec
INVARIANTS NeverRefundedTwice
CHECK_DEADLOCK FALSE
