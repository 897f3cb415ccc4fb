SPECIFICATION FairSpec
CONSTANTS
  Exchanges = {x1, x2}
  Timeouts <- MCTimeouts
  LongestDelay = 3
  Texts <- MCTexts
  ParsedAs <- MCParsedAs
INVARIANT TypeOK
INVARIANT OutcomeIsTrue
INVARIANT NoTimerLeaks
PROPERTY ImplementsExchange
CHECK_DEADLOCK FALSE
