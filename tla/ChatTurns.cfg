SPECIFICATION FairSpec
CONSTANTS
  Modes = {"queue", "judge"}
  Routes = {"chat", "direct"}
  MaxConcurrent = 1
  MaxMessages = 4
  MaxMishaps = 2
INVARIANTS
  TypeOK
  MessagesConserved
  RunningIsDriven
  StrandedOnlyByCrack
PROPERTIES
  MessagesSettle
