SPECIFICATION FairSpec
CONSTANTS s1 = s1  s2 = s2  p1 = p1  p2 = p2
          Session = {s1, s2}
          Project = {p1, p2}
          Belongs <- BelongsTo
          Limit = 1
          Permanent = FALSE
          MaxJobs = 3
          MaxAsk = 1
          MaxPoll = 1
          Keys <- KeysOf
INVARIANTS TypeOK Referenced Disciplined
PROPERTIES RetryServed Drains
CHECK_DEADLOCK FALSE
