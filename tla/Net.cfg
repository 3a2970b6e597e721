SPECIFICATION FairSpec
CONSTANTS
  TxSize = 2
  RxSize = 2
  Lens <- MCLens
  MaxHeld = 1
  Torn = FALSE
  LiveClear = FALSE
INVARIANTS TypeOK LineTrue LinkTrue
PROPERTIES TxWhole RxTaken
