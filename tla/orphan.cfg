\* A pod settled by the sweeps instead of the renter.
CONSTANTS
  Jobs = {j1}
  Providers = {p1}
  BurstHost = BurstHost
  NoProvider = NoProvider
  Types = {"pod"}
  Quotes = {2}
  MaxCost = 2
  Deposit = 2
  PodCap = 1
  MaxRetries = 1
  Exposures = {}
  MaxSettles = 2
  MaxLate = 0
  MayDropOff = {}
SPECIFICATION Spec
INVARIANTS NoOrphanedHold
CHECK_DEADLOCK FALSE
