SPECIFICATION Spec
CONSTANTS
    MaxWork = 2
    MaxFrames = 1
    Spurious = TRUE
    PausedSave = TRUE
INVARIANTS Quiescent
