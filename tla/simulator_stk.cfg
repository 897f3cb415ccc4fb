SPECIFICATION Spec
CONSTANTS
  TrackingIds = {t1}
  Requests = {r1, r2, r3, r4}
  ClientRequests <- StkRequests
SYMMETRY Symmetry
INVARIANT TypeOK
INVARIANT AttemptsTellTheTruth
INVARIANT OneAnnouncement
INVARIANT NoStepBack
INVARIANT AnswersShowTheRecord
PROPERTY ImplementsPayment
CHECK_DEADLOCK FALSE
