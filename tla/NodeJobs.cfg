CONSTANTS
  MaxNodes = 1
  Keys = {k1}
  MaxDatabases = 3
  MaxRegistries = 2
  MaxFailures = 2
  Timeout = 1
  PollInterval = 1
  NanosPerSecond = 2
SPECIFICATION Spec
INVARIANTS TypeOK TransmitterKnown JobCurrent OneJob
PROPERTY CommandEnds
CHECK_DEADLOCK FALSE
