\* Two commands with one key, three transactions: a nonce taken twice, a head one block behind.
CONSTANTS
  Terminals = {t1, t2}
  Plans <- MCPlans
  Confirmations = 1
  Lag = 1
  MaxTxs = 3
  MaxHead = 4
SPECIFICATION Spec
INVARIANTS TypeOK TrustedMined TrustedConfirmed OwnAddress InOrder
PROPERTIES WaitEnds
CHECK_DEADLOCK FALSE
