SPECIFICATION Spec
CONSTANTS
  AccessTokens = {k1, k2}
  Characters = {"a", ":"}
  Texts <- SomeTexts
  Keys <- PlainKeys
  Secrets <- SomeSecrets
  TokenExpiresInSeconds = 1
  MsPerSecond = 2
  MaxTime = 3
SYMMETRY Symmetry
INVARIANT TypeOK
INVARIANT DeadStaysDead
INVARIANT LifetimeKept
INVARIANT ConfiguredCredentialsOpen
CHECK_DEADLOCK FALSE
