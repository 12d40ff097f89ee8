\* Four jobs on two workers: two jobs get a new worker, two must wait for an idle one.
CONSTANTS
  NumJobs = 4
  Limit = 2
SPECIFICATION Spec
INVARIANTS TypeOK WithinLimit NilWorkerIdle NoWorkerLost ReturnsComplete
PROPERTIES ResultsOnlyGrow Terminates ImplementsBatch
