\* One native pod whose provider may stop sending heartbeats.
CONSTANTS
  Jobs = {j1}
  Providers = {p1}
  BurstHost = BurstHost
  NoProvider = NoProvider
  Types = {"pod"}
  Quotes = {2}
  MaxCost = 2
  Deposit = 2
  PodCap = 1
  MaxRetries = 1
  Exposures = {}
  MaxSettles = 2
  MaxLate = 0
  MayDropOff = {p1}
SPECIFICATION FairSpec
PROPERTIES WaitingPodEnds
CHECK_DEADLOCK FALSE
