SPECIFICATION MCSpec
CONSTANTS
  Calls = {c1, c2}
  Second = c2
  Keys = {k1}
  Requests <- MCRequests
  Nodes = {n1, n2}
  MaxInflight = 1
  MaxCost = 2
  PromptCost = 1
  Deposit = 2
  Grants <- MCGrants
  Cap = 3
  Batches = {b1}
  LineNos = {1, 2}
SYMMETRY MCSymmetry
INVARIANTS
  ServiceTypeOK
  NeverOverdrawn
  ChargesBalance
  ReceiptsAreBacked
  SlotsAreHeld
  SettledLinesAreCharged
  CompletedBatchSettledWhole
PROPERTIES
  AttemptIsFinal
  KeepsAccount
CHECK_DEADLOCK FALSE
