SPECIFICATION SpecWithReset
CONSTANTS
  Channels <- MCChannels
  BlindAck = FALSE
  MaxConfig = 0
INVARIANT TrapAssertHolds
CHECK_DEADLOCK FALSE
