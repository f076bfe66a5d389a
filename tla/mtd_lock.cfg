SPECIFICATION FairSpec
CONSTANTS
  Tasks = {t1, t2, t3}
  Stoppers = {t3}
  PageCount = 2
INVARIANT TypeOK
INVARIANT Exclusive
INVARIANT ReadIsSnapshot
INVARIANT WritesOwnData
PROPERTY SuspendedIsFinal
PROPERTY WaiterWakes
CHECK_DEADLOCK FALSE
