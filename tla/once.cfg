\* One job of any type; nobody acts on a job whose money is settled.
CONSTANTS
  Jobs = {j1}
  Providers = {p1, p2}
  BurstHost = BurstHost
  NoProvider = NoProvider
  Types = {"batch", "pod", "burst", "serve"}
  Quotes = {2}
  MaxCost = 4
  Deposit = 4
  PodCap = 1
  MaxRetries = 1
  Exposures = {}
  MaxSettles = 1
  MaxLate = 0
  MayDropOff = {p1, p2}
SPECIFICATION Spec
SYMMETRY ProviderSymmetry
INVARIANTS SettledOnce PlatformNeverPays HoldVerdict RefundIsWhole
PROPERTIES KeepsContract
CHECK_DEADLOCK FALSE
