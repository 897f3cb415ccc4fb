SPECIFICATION FairSpec
CONSTANTS
  TrackingIds = {t1}
  Requests = {r1, r2, r3}
  ClientRequests <- PaymentRequests
INVARIANT AnnouncementsAreTrue
PROPERTY EveryRequestIsAnswered
PROPERTY OutcomeIsRecorded
CHECK_DEADLOCK FALSE
