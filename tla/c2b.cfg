SPECIFICATION FairSpec
CONSTANTS
  TrackingIds = {t1}
  ShortCodes = {s1}
  Urls = {v1, c1, v2, c2}
  Validation1 = v1
  Confirmation1 = c1
  Validation2 = v2
  Confirmation2 = c2
  Bodies = {"accept", "reject", "malformed"}
  Requests = {r1, r2, r3}
  ClientRequests <- EveryRequest
INVARIANT TypeOK
INVARIANT SettledAsDecided
INVARIANT OneRegistrationPerPayment
INVARIANT OutcomeAfterAttempts
INVARIANT NeverRefused
PROPERTY ImplementsPayment
PROPERTY EverySimulationSettles
CHECK_DEADLOCK FALSE
