SPECIFICATION Spec
CONSTANTS
  TrackingIds = {t1}
  Requests = {r1, r2}
  ClientRequests <- PaymentRequests
INVARIANT ReplayIsTerminal
CHECK_DEADLOCK FALSE
