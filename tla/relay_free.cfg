\* Independent producers on both sides, with I/O errors.
CONSTANTS
  Dirs <- MC_Dirs
  BufSize <- MC_DefaultBufSize
  WBufMax = 2
  MaxBytes = 3
  Echo = FALSE
  Faults = TRUE
  Timeouts <- MC_Timeouts
  MaxTime = 0
SPECIFICATION FairSpec
INVARIANTS
  TypeOK
  NoLossWhileRunning
  CopyConservation
  TotalsDelivered
  StatsNeverOvercount
PROPERTIES
  NoPrematureHalfClose
  WrittenEventuallyDelivered
  HalfCloseEndsRelay
  RelayRefinement
