SPECIFICATION Spec
CONSTANTS
  a = a
  b = b
  c1 = c1
  c2 = c2
  Accounts = {a, b}
  Contracts = {c1, c2}
  Call <- OneFails
  Payments <- Transfers
  Initial <- InitialAB
  Deletable = {a, c1}
  Half = 4
  MaxTxs = 5
  Upgrades = TRUE
INVARIANTS LedgerAgrees
PROPERTIES ImplementsContractLife Conserved
CHECK_DEADLOCK FALSE
