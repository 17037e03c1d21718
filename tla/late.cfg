\* A daemon that reports once after the renter has stopped the pod.
CONSTANTS
  Jobs = {j1}
  Providers = {p1}
  BurstHost = BurstHost
  NoProvider = NoProvider
  Types = {"pod"}
  Quotes = {2}
  MaxCost = 2
  Deposit = 2
  PodCap = 1
  MaxRetries = 1
  Exposures = {}
  MaxSettles = 2
  MaxLate = 1
  MayDropOff = {}
SPECIFICATION Spec
INVARIANTS PlatformNeverPays
CHECK_DEADLOCK FALSE
