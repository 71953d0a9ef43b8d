\* Request/response peers over buffered writers, no I/O errors.
CONSTANTS
  Dirs <- MC_Dirs
  BufSize <- MC_DefaultBufSize
  WBufMax = 2
  MaxBytes = 3
  Echo = TRUE
  Faults = FALSE
  Timeouts <- MC_Timeouts
  MaxTime = 6
SPECIFICATION FairSpec
INVARIANTS
  TypeOK
  CopyConservation
  StatsNeverOvercount
PROPERTIES
  NoPrematureHalfClose
  WrittenEventuallyDelivered
  HalfCloseEndsRelay
  RelayRefinement
  GraceHonoured
