\* One native pod, on providers that keep polling.
CONSTANTS
  Jobs = {j1}
  Providers = {p1, p2}
  BurstHost = BurstHost
  NoProvider = NoProvider
  Types = {"pod"}
  Quotes = {1, 2}
  MaxCost = 3
  Deposit = 3
  PodCap = 1
  MaxRetries = 2
  Exposures = {}
  MaxSettles = 1
  MaxLate = 0
  MayDropOff = {}
SPECIFICATION FairSpec
PROPERTIES PodsEnd WaitingPodEnds
CHECK_DEADLOCK FALSE
