\* Two terminals; four keys are enough for a name in use twice and a replaced one.
CONSTANTS
  g0 = g0
  g1 = g1
  k = k
  Terminals = {t1, t2}
  Aliases <- MCAliases
  Patterns <- MCPatterns
  Ganache <- MCGanache
  Geth <- MCGeth
  MaxKeys = 4
SYMMETRY TerminalSymmetry
SPECIFICATION Spec
INVARIANTS TypeOK NothingLost
PROPERTIES SigningKeyKept
