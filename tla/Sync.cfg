SPECIFICATION FairSpec
CONSTANTS
    MaxWork = 1
    MaxFrames = 1
    Spurious = TRUE
    PausedSave = FALSE
INVARIANTS TypeOK Quiescent UnlockedByOwner NoLockInversion HaltedThroughout
PROPERTIES JobsEnd
