\* Two pods of one renter on a provider that may go offline: extensions, promotion,
\* retry, and metered costs that overrun the quote.
CONSTANTS
  Jobs = {j1, j2}
  Providers = {p1}
  BurstHost = BurstHost
  NoProvider = NoProvider
  Types = {"pod"}
  Quotes = {1}
  MaxCost = 2
  Deposit = 2
  PodCap = 2
  MaxRetries = 1
  Exposures = {"overrun"}
  MaxSettles = 1
  MaxLate = 0
  MayDropOff = {p1}
SPECIFICATION Spec
SYMMETRY JobSymmetry
INVARIANTS NoOverdraft SettledOnce
CHECK_DEADLOCK FALSE
