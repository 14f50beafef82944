SPECIFICATION FairSpec
CONSTANTS
  Jobs = {j1, j2}
  Priorities = {1, 2}
  MaxAttempts = 3
  Concurrency = 1
  MaxFaults = 1
INVARIANTS
  TypeOK
  OneAttemptInFlight
  NoOrphanWithoutFault
PROPERTIES
  ImplementsIndexJob
  QueuedJobsSettle
