SPECIFICATION FairSpec
CONSTANTS Session = {s, t}
          Deleters = {"tool"}
          MaxChange = 2
          MaxRoot = 1
          MaxAsk = 1
          MaxWatch = 1
          MaxFail = 1
INVARIANTS TypeOK WatchAgree
PROPERTIES DeleteAlone Converges
CHECK_DEADLOCK FALSE
