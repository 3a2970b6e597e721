SPECIFICATION FairSpec
CONSTANTS
  Voices <- MCVoices
  NumLists = 1
  NumWorkers = 2
  Role <- MCRole
  Nested = FALSE
  Relink = FALSE
  Unsignalled = FALSE
INVARIANTS TypeOK MixComplete VoiceExclusive MultipassTogether QueueAssertsHold
PROPERTIES FrameEnds
