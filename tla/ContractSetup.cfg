\* Token and one feed, one load.  The other contracts being set by hand, two deployments cover
\* registrar and then a new registry, registry and then a registrar, a contract deployed again.
CONSTANTS
  Terminals = {t1, t2}
  Bases = {"linkToken", "linkEth"}
  Loads = {"logLoad"}
  MaxContracts = 2
SYMMETRY TerminalSymmetry
SPECIFICATION Spec
INVARIANTS TypeOK DependenciesRecorded RegistrarsCurrent NothingLost
