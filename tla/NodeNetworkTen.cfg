\* participant-1 and participant-10, nothing failing: eleven participants, then resets.
CONSTANTS
  MaxNodes = 11
  Counts = {11}
  MaxDatabases = 14
  Base = 10
  Faults = FALSE
SPECIFICATION Spec
PROPERTIES OwnContainersOnly
CHECK_DEADLOCK FALSE
