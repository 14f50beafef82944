SPECIFICATION Spec
CONSTANTS
  Types = {core}
  Handled = {core}
  QueueSize = 2
  MaxEvents = 3
  Limit = 3
  MaxCrashes = 0
INVARIANT NoEventLost
