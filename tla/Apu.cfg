SPECIFICATION FairSpec
CONSTANTS
  FramesPerBuf = 2
  FrameBytes = 1
  FifoFrames = 3
  DeviceBytes = 2
  IdleAtZero = FALSE
INVARIANTS TypeOK FifoRoom
PROPERTIES Resumes TrapRaises NotifyRaises SnapshotEnds
