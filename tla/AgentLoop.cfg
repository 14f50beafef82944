SPECIFICATION FairSpec
CONSTANTS
  Types = {core, hook}
  Handled = {core}
  QueueSize = 1
  MaxEvents = 3
  Limit = 2
  MaxCrashes = 2
INVARIANTS
  TypeOK
  NothingVanishes
  LiveCrashLosesNothing
PROPERTIES
  SerialDispatchAdvances
  EventuallyFinished
