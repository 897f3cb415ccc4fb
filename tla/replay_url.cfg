SPECIFICATION Spec
CONSTANTS
  TrackingIds = {t1}
  Requests = {r1, r2, r3}
  ClientRequests <- PaymentRequests
INVARIANT ReplayGoesWhereAnnounced
CHECK_DEADLOCK FALSE
