SPECIFICATION Spec
CONSTANTS
  TrackingIds = {t1}
  Calls = {c1, c2, c3, c4, c5}
  Attempts = {a1, a2}
  Offered <- EveryMethod
SYMMETRY Symmetry
INVARIANT TypeOK
INVARIANT OneWinner
INVARIANT NoUpdateConflict
INVARIANT AttemptsAccounted
INVARIANT AnswersStayTrue
PROPERTY OutcomeIsFinal
PROPERTY ImplementsLedger
CHECK_DEADLOCK FALSE
