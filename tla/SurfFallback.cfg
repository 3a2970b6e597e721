SPECIFICATION Spec
CONSTANTS
  Cells = {0, 1, 2, 3, 4}
  ColorAddrs = {0}
  ZetaAddrs = {3}
  Sizes = {1, 2}
  RamWrites = {0}
  Reads = {}
  CpuCells = {0}
  DisplayCell = 0
  Forced = TRUE
  Careful = TRUE
  MaskedClears = FALSE
INVARIANTS PixelsSurvive
CHECK_DEADLOCK FALSE
