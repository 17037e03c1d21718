\* One job of any type, every exposure.
CONSTANTS
  Jobs = {j1}
  Providers = {p1, p2}
  BurstHost = BurstHost
  NoProvider = NoProvider
  Types = {"batch", "pod", "burst", "serve"}
  Quotes = {2}
  MaxCost = 4
  Deposit = 4
  PodCap = 1
  MaxRetries = 1
  Exposures = {"cancelSettled", "patchSettled", "requeueSettled", "burstRace", "overrun"}
  MaxSettles = 2
  MaxLate = 1
  MayDropOff = {p1, p2}
SPECIFICATION Spec
SYMMETRY ProviderSymmetry
INVARIANTS TypeOK LiveHasDeadline WaitingIsDeliverable HoldMatchesPrepaid
PROPERTIES EscrowResolvesOnce
CHECK_DEADLOCK FALSE
