SPECIFICATION Spec
CONSTANTS
  FramesPerBuf = 2
  FrameBytes = 1
  FifoFrames = 3
  DeviceBytes = 2
  IdleAtZero = TRUE
INVARIANTS IdleTrapForced
