SPECIFICATION Spec
CONSTANTS
  TrackingIds = {t1, t2, t3}
  MaxUpdates = 1
  MaxTime = 1
SYMMETRY Symmetry
INVARIANT TypeOK
INVARIANT OrderIsKept
INVARIANT NewestFirst
CHECK_DEADLOCK FALSE
