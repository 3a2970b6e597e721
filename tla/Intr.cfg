SPECIFICATION FairSpec
CONSTANTS
  Channels <- MCChannels
  BlindAck = FALSE
  MaxConfig = 2
INVARIANTS TypeOK TrapAssertHolds ChannelAssertHolds TrapNamesWaiter
PROPERTIES OwnChannel StallsEnd PmcCatchesUp
