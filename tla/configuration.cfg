SPECIFICATION Spec
CONSTANTS
  HostTexts = {"", " ", " localhost "}
  PortTexts = {"", "0", "1", "65535", "65536", "1.5"}
  DurationTexts = {"", "0", "1"}
  SecretTexts = {"", "secret"}
  Numerals <- MCNumerals
  Trimmed <- MCTrimmed
INVARIANT TypeOK
INVARIANT NoSilentDefault
CHECK_DEADLOCK FALSE
