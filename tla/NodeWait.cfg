\* One node that is starting, or stopped: how long its command waits for it.
CONSTANTS
  MaxNodes = 1
  Keys = {k1}
  MaxDatabases = 1
  MaxRegistries = 1
  MaxFailures = 1
  Timeout = 1
  PollInterval = 1
  NanosPerSecond = 3
SPECIFICATION Spec
INVARIANT WaitTimesOut
CHECK_DEADLOCK FALSE
