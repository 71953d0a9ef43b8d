\* LINK_BUFFER_SIZE = 2^54 (as 0): the product wraps and the relay runs with a zero-capacity copy buffer.
CONSTANTS
  Dirs <- MC_Dirs
  BufSize <- MC_ZeroBufSize
  WBufMax = 2
  MaxBytes = 2
  Echo = FALSE
  Faults = FALSE
  Timeouts <- MC_Timeouts
  MaxTime = 0
SPECIFICATION Spec
INVARIANTS
  CopyConservation
