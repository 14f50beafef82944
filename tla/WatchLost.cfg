SPECIFICATION FairSpec
CONSTANTS Session = {s, t}
          Deleters = {}
          MaxChange = 1
          MaxRoot = 0
          MaxAsk = 1
          MaxWatch = 2
          MaxFail = 0
PROPERTIES NeverLost
CHECK_DEADLOCK FALSE
