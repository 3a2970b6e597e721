SPECIFICATION SpecWithReset
CONSTANTS
  Channels <- MCChannels
  BlindAck = TRUE
  MaxConfig = 2
INVARIANT StallHasCause
CHECK_DEADLOCK FALSE
