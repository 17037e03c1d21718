SPECIFICATION MCSpec
CONSTANTS
  MaxInvoices = 2
  MaxTransfers = 1
  MaxCharges = 3
  Deposit = 2
  MaxAttempts = 2
  MaxFailures = 2
  Threshold = 2
  MonthlyCap = 1
  MaxRestarts = 1
  MaxEarned = 2
  MaxPayouts = 2
  MaxMoyasarPayouts = 2
  MaxWithdrawals = 1
INVARIANTS
  RechargedWithinCap
CHECK_DEADLOCK FALSE
