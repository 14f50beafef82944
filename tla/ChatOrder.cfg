SPECIFICATION Spec
CONSTANTS
  Modes = {"queue"}
  Routes = {"chat"}
  MaxConcurrent = 1
  MaxMessages = 3
  MaxMishaps = 0
PROPERTY HandledInOrder
