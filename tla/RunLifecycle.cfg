SPECIFICATION FairSpec
CONSTANTS
  MaxCalls = 3
  GroupSize = 2
  MaxInstances = 2
  MaxCrashes = 2
  MaxMishaps = 1
INVARIANTS
  TypeOK
  OneWorker
  RepeatsBounded
  NothingSkipped
  RunningOnDiskIsDriven
PROPERTIES
  TasksEnd
CHECK_DEADLOCK FALSE
