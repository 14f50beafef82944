SPECIFICATION Spec
INVARIANT TypeOK
INVARIANT Kept
INVARIANT Meaning
PROPERTY ForeignKept
CHECK_DEADLOCK FALSE
