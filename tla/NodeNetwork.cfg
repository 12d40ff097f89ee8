\* A bootstrap and up to two participants; the fourth database leaves room for a reset or a retry.
CONSTANTS
  MaxNodes = 2
  Counts = {1, 2}
  MaxDatabases = 4
  Base = 10
  Faults = TRUE
SPECIFICATION Spec
INVARIANTS TypeOK NumberedInOrder ConfigMatchesContainers
PROPERTIES OwnContainersOnly CommandEnds
CHECK_DEADLOCK FALSE
