\* One terminal: config setup of an environment that has contracts.
CONSTANTS
  Terminals = {t1}
  Bases = {"linkToken", "linkEth"}
  Loads = {"logLoad"}
  MaxContracts = 1
SPECIFICATION Spec
PROPERTIES SetupKeepsContracts
