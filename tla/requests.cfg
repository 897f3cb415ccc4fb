SPECIFICATION Spec
CONSTANTS
  RequestIds = {r1}
  Offered <- FewDeviations
INVARIANT TypeOK
INVARIANT CallbacksFindTheirUrls
INVARIANT OneReceiver
INVARIANT NothingDroppedFromB2C
CHECK_DEADLOCK FALSE
