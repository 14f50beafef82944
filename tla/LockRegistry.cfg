SPECIFICATION FairSpec
CONSTANTS p = p  q = q
          a = a  b = b  c = c
          Proc = {p, q}
          Caller = {a, b, c}
          Home <- HomeOf
          Asks <- AsksOf
          None = None
          MaxUses = 1
INVARIANTS TypeOK Exclusion NoLostWakeup FreedIsQuiet
PROPERTIES ImplementsRWLock Served

