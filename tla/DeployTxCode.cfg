\* One command deploys a registry; no lag.
CONSTANTS
  Terminals = {t1}
  Plans <- MCRegistry
  Confirmations = 1
  Lag = 0
  MaxTxs = 4
  MaxHead = 5
SPECIFICATION Spec
INVARIANTS DeployedHasCode
CHECK_DEADLOCK FALSE
