CONSTANTS
  Terminals = {t1, t2}
  Kinds = {"log", "conditional"}
  Counts = {1, 3}
  Intervals = {1, 2}
  RegisterBatch = 2
  SliceSize = 2
  MaxUpkeeps = 3
  MaxLate = 1
SYMMETRY TerminalSymmetry
SPECIFICATION Spec
INVARIANTS TypeOK AllRegistered
PROPERTIES AllConfigured OneInterval CancelledGone
