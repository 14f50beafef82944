SPECIFICATION Spec
CONSTANTS Session = {s, t}
          Deleters = {"ui"}
          MaxChange = 2
          MaxRoot = 0
          MaxAsk = 1
          MaxWatch = 2
          MaxFail = 0
PROPERTIES InstalledFirst
CHECK_DEADLOCK FALSE
