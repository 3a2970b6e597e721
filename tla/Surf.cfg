SPECIFICATION Spec
CONSTANTS
  Cells <- MCCells
  ColorAddrs = {0, 1}
  ZetaAddrs = {3}
  Sizes = {1, 2}
  RamWrites = {0}
  Reads = {1, 3}
  CpuCells = {0}
  DisplayCell = 2
  Forced = TRUE
  Careful = TRUE
  MaskedClears = FALSE
INVARIANTS TypeOK NoAbort NoOverlap FlagsTrue ReadsFresh
